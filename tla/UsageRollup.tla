---------------------------- MODULE UsageRollup ----------------------------
(***************************************************************************)
(* The hourly and daily usage rollups (workers/tasks.py, _rollup_period)   *)
(* against the transactions that write usage_records (services/usage.py).  *)
(* Time is a count of hours.                                               *)
(*                                                                         *)
(* A record's created_at is the database's now(), which is when its        *)
(* transaction began; other transactions see it once it has committed.  A  *)
(* job reads the clock, aggregates in one SELECT, upserts row by row and   *)
(* commits; the rows of a job become visible together, and row locks put   *)
(* the jobs that touch the same rows one after the other, in the order of  *)
(* their commits.  Runs of one period may overlap: the cron's, a retry of  *)
(* a job whose worker went away, a run triggered by hand.                  *)
(***************************************************************************)
EXTENDS Integers

CONSTANTS
    Tenants,
    Records,      \* usage records
    Owner,        \* the tenant of each record
    Jobs,         \* job runs that may be in progress at once
    HoursPerDay,
    MaxHour,      \* bound: the clock stops here
    MaxExtra,     \* bound: runs the cron table did not ask for
    NoHour, NoJob

ASSUME RollupAssumption ==
    /\ Owner \in [Records -> Tenants]
    /\ HoursPerDay \in Nat \ {0}
    /\ MaxHour \in Nat
    /\ MaxExtra \in Nat
    /\ NoHour \notin Int

VARIABLES
    hour,      \* the clock
    stamp,     \* created_at of each record, NoHour before its transaction
    stored,    \* the records that have committed
    job,       \* the job run in each slot
    rollup,    \* usage_rollups: how often a row sums up each record
    due,       \* cron runs the scheduler has yet to start
    extra,     \* runs begun that were not due
    ran,       \* history: periods a run has committed for
    unseen,    \* history: records in flight when a row's writer aggregated
    unrolled   \* history: periods whose cron run was missed or died

dataVars == <<stamp, stored>>
histVars == <<ran, unseen, unrolled>>
vars == <<hour, dataVars, job, rollup, due, extra, histVars>>

Types == {"hourly", "daily"}
Periods ==
    {p \in [type : Types, start : -HoursPerDay..MaxHour] :
        p.type = "daily" => p.start % HoursPerDay = 0}

Length(p) == IF p.type = "hourly" THEN 1 ELSE HoursPerDay

\* created_at >= period_start AND created_at < period_end
Within(h, p) == p.start <= h /\ h < p.start + Length(p)

\* Records of a period whose transaction has committed, or not yet.
StoredIn(p) == {r \in stored : Within(stamp[r], p)}
InFlight == {r \in Records : stamp[r] # NoHour} \ stored
OpenIn(p) == {r \in InFlight : Within(stamp[r], p)}

NoRow == [r \in Records |-> 0]

Init ==
    /\ hour = 0
    /\ stamp = [r \in Records |-> NoHour]
    /\ stored = {}
    /\ job = [j \in Jobs |-> NoJob]
    /\ rollup = [x \in Tenants \X Periods |-> NoRow]
    /\ due = {}
    /\ extra = 0
    /\ ran = {}
    /\ unseen = [x \in Tenants \X Periods |-> {}]
    /\ unrolled = {}

-----------------------------------------------------------------------------
(* record_usage: one transaction, from set_rls_context to commit. *)

BeginUsage(r) ==
    /\ stamp[r] = NoHour
    /\ stamp' = [stamp EXCEPT ![r] = hour]
    /\ UNCHANGED <<hour, stored, job, rollup, due, extra, histVars>>

CommitUsage(r) ==
    /\ r \in InFlight
    /\ stored' = stored \cup {r}
    /\ UNCHANGED <<hour, stamp, job, rollup, due, extra, histVars>>

-----------------------------------------------------------------------------
(* The jobs. *)

\* One hour too many.
ClosedHourStale == hour - 2

\* (now - 1 h) with its minutes cleared.
ClosedHour == hour - 1

\* (now - 1 day) at midnight.
ClosedDay == hour - (hour % HoursPerDay) - HoursPerDay

ClosedPeriod(type) ==
    [type |-> type, start |-> IF type = "hourly" THEN ClosedHour ELSE ClosedDay]

\* The job begins and takes its period from the clock.  Only the scheduler's
\* run is due; a retry or a run by hand begins the same way.
StartJob(j, type) ==
    /\ job[j] = NoJob
    /\ job' = [job EXCEPT ![j] = [period |-> ClosedPeriod(type), phase |-> "started",
                                  rows |-> {}, open |-> {}]]
    /\ \/ type \in due /\ UNCHANGED extra
       \/ type \notin due /\ extra < MaxExtra /\ extra' = extra + 1
    /\ due' = due \ {type}
    /\ UNCHANGED <<hour, dataVars, rollup, histVars>>

\* The SELECT, under bypass: every tenant's committed records of the period.
Aggregate(j) ==
    /\ job[j] # NoJob /\ job[j].phase = "started"
    /\ LET p == job[j].period
       IN  job' = [job EXCEPT ![j] = [period |-> p, phase |-> "aggregated",
                                      rows |-> StoredIn(p), open |-> OpenIn(p)]]
    /\ UNCHANGED <<hour, dataVars, rollup, due, extra, histVars>>

\* The upsert adds to the row that is there.
UpsertAdds(old, t, rows) ==
    [r \in Records |-> IF r \in rows /\ Owner[r] = t THEN old[r] + 1 ELSE old[r]]

\* INSERT ... ON CONFLICT DO UPDATE SET column = excluded.column.
Upsert(old, t, rows) ==
    [r \in Records |-> IF r \in rows /\ Owner[r] = t THEN 1 ELSE 0]

\* The upserts, one for each tenant with records in the period, and commit.
SaveRows(j) ==
    LET p == job[j].period
        rows == job[j].rows
        grouped == {Owner[r] : r \in rows}
        writes(x) == x[2] = p /\ x[1] \in grouped
        first(x) == x[2] = p /\ rollup[x] = NoRow
    IN  /\ job[j] # NoJob /\ job[j].phase = "aggregated"
        /\ rollup' = [x \in Tenants \X Periods |->
                         IF writes(x) THEN Upsert(rollup[x], x[1], rows) ELSE rollup[x]]
        /\ unseen' = [x \in Tenants \X Periods |->
                         IF writes(x) \/ first(x) THEN job[j].open ELSE unseen[x]]
        /\ ran' = ran \cup {p}
        /\ job' = [job EXCEPT ![j] = NoJob]
        /\ UNCHANGED <<hour, dataVars, due, extra, unrolled>>

\* The worker goes away or a statement fails: nothing of the job remains.
JobDies(j) ==
    /\ job[j] # NoJob
    /\ job' = [job EXCEPT ![j] = NoJob]
    /\ unrolled' = unrolled \cup {job[j].period}
    /\ UNCHANGED <<hour, dataVars, rollup, due, extra, ran, unseen>>

-----------------------------------------------------------------------------
\* The hour turns and the cron table makes its runs due.  A run that was due
\* and never started (no worker was up) is not made up for.
Tick ==
    /\ hour < MaxHour
    /\ hour' = hour + 1
    /\ LET over == {"hourly"} \cup
                   (IF (hour + 1) % HoursPerDay = 0 THEN {"daily"} ELSE {})
       IN  /\ unrolled' = unrolled \cup {ClosedPeriod(type) : type \in due \cap over}
           /\ due' = due \cup over
    /\ UNCHANGED <<dataVars, job, rollup, extra, ran, unseen>>

Next ==
    \/ \E r \in Records : BeginUsage(r) \/ CommitUsage(r)
    \/ \E j \in Jobs : \/ \E type \in Types : StartJob(j, type)
                       \/ Aggregate(j) \/ SaveRows(j) \/ JobDies(j)
    \/ Tick
    \/ hour = MaxHour /\ UNCHANGED vars

Spec == Init /\ [][Next]_vars

\* The worker is up: arq starts what is due and awaits each step of a job.
StartDue == \E j \in Jobs, type \in due : StartJob(j, type)

FairSpec ==
    /\ Spec
    /\ WF_vars(Tick)
    /\ WF_vars(StartDue)
    /\ \A j \in Jobs : WF_vars(Aggregate(j)) /\ WF_vars(SaveRows(j))

-----------------------------------------------------------------------------
(***************************************************************************)
(* What _rollup_period promises ("re-running the same period updates the   *)
(* row instead of duplicating it"): however runs of a period overlap, die  *)
(* or repeat, its row sums up each record of the tenant in that period     *)
(* once and nothing else.  It misses only records whose transaction had    *)
(* begun and not committed when the run that wrote the row aggregated.     *)
(***************************************************************************)
RowIsExact ==
    \A p \in Periods, t \in Tenants, r \in Records :
        LET counted == rollup[<<t, p>>][r]
            belongs == r \in StoredIn(p) /\ Owner[r] = t
        IN  /\ counted > 0 => belongs /\ counted = 1
            /\ p \in ran /\ belongs => counted = 1 \/ r \in unseen[<<t, p>>]

\* The period of a type that an hour lies in.
PeriodOf(h, type) ==
    [type |-> type, start |-> IF type = "hourly" THEN h ELSE h - (h % HoursPerDay)]

\* The record is there and its period is over.
IsOver(r, type) ==
    r \in stored /\ LET p == PeriodOf(stamp[r], type) IN p.start + Length(p) <= hour

\* It is in its row, or there is a reason why not.
IsSettled(r, type) ==
    r \in stored /\ LET p == PeriodOf(stamp[r], type)
                         x == <<Owner[r], p>>
                     IN  rollup[x][r] = 1 \/ r \in unseen[x] \/ p \in unrolled

(***************************************************************************)
(* Every record is counted in its hour and in its day once these are over: *)
(* hourly_usage_rollup and daily_usage_rollup leave no period out, unless  *)
(* its cron run was missed or died, or the record was in flight when the   *)
(* run aggregated.                                                         *)
(***************************************************************************)
CountedInTheEnd ==
    \A r \in Records, type \in Types : IsOver(r, type) ~> IsSettled(r, type)
=============================================================================
