------------------------- MODULE UsageRollupProofs -------------------------
(***************************************************************************)
(* RowIsExact for any tenants, records, number of runs and length of the   *)
(* day.  The property speaks of committed records only and is not          *)
(* inductive: a record may commit after its period's row was written.  The *)
(* strengthening speaks of every record begun, and rests on the period of  *)
(* a run being over when the run begins, so that none begins in it later.  *)
(***************************************************************************)
EXTENDS UsageRollup, TLAPS

JobRecord ==
    [period : [type : Types, start : Int], phase : {"started", "aggregated"},
     rows : SUBSET Records, open : SUBSET Records]

BegunIn(r, p) == stamp[r] # NoHour /\ Within(stamp[r], p)
Over(p) == p.start + Length(p) <= hour

RollupTypes ==
    /\ hour \in Nat
    /\ stamp \in [Records -> Nat \cup {NoHour}]
    /\ stored \subseteq {r \in Records : stamp[r] # NoHour}
    /\ job \in [Jobs -> {NoJob} \cup JobRecord]
    /\ rollup \in [Tenants \X Periods -> [Records -> Nat]]
    /\ unseen \in [Tenants \X Periods -> SUBSET Records]

\* What a run in progress has aggregated.
JobOK(b) ==
    /\ Over(b.period)
    /\ b.phase = "aggregated" =>
          /\ \A r \in b.rows : r \in stored /\ Within(stamp[r], b.period)
          /\ \A r \in Records : BegunIn(r, b.period) => r \in b.rows \cup b.open

\* What the row of a tenant and a period says of a record.
EntryOK(t, p, r) ==
    /\ rollup[<<t, p>>][r] # 0 =>
          /\ rollup[<<t, p>>][r] = 1 /\ p \in ran
          /\ r \in stored /\ Within(stamp[r], p) /\ Owner[r] = t
    /\ p \in ran /\ BegunIn(r, p) /\ Owner[r] = t =>
          rollup[<<t, p>>][r] = 1 \/ r \in unseen[<<t, p>>]

\* The inductive invariant.
RollupInv ==
    /\ RollupTypes
    /\ \A j \in Jobs : job[j] # NoJob => JobOK(job[j])
    /\ \A p \in Periods : p \in ran => Over(p)
    /\ \A t \in Tenants, p \in Periods, r \in Records : EntryOK(t, p, r)

(***************************************************************************)
(* The period a run takes from the clock is over: hourly_usage_rollup and  *)
(* daily_usage_rollup step back from now before they truncate it.          *)
(***************************************************************************)
LEMMA ClosedPeriodIsOver ==
    ASSUME hour \in Nat, NEW type \in Types
    PROVE  /\ ClosedPeriod(type) \in [type : Types, start : Int]
           /\ Over(ClosedPeriod(type))
<1>1. hour % HoursPerDay \in Nat
  BY RollupAssumption DEF RollupAssumption
<1>2. QED
  BY <1>1, RollupAssumption
     DEF RollupAssumption, Types, ClosedPeriod, ClosedHour, ClosedDay, Over, Length

(***************************************************************************)
(* A record that begins now lies in no period that is over.                *)
(***************************************************************************)
LEMMA NewRecordIsOutside ==
    ASSUME RollupTypes, NEW p, p.start \in Int, Length(p) \in Int, Over(p)
    PROVE  ~Within(hour, p)
BY DEF RollupTypes, Over, Within

(***************************************************************************)
(* Periods have integer bounds.                                            *)
(***************************************************************************)
LEMMA PeriodBounds ==
    ASSUME NEW p \in Periods \cup [type : Types, start : Int]
    PROVE  p.start \in Int /\ Length(p) \in Int
BY RollupAssumption DEF RollupAssumption, Periods, Length

(***************************************************************************)
(* record_usage keeps the invariant: a record that begins is in no period  *)
(* that is over, and one that commits was begun.                           *)
(***************************************************************************)
LEMMA UsageKeepsInv ==
    ASSUME RollupInv, NEW q \in Records, BeginUsage(q) \/ CommitUsage(q)
    PROVE  RollupInv'
<1> USE DEF RollupInv
<1>1. CASE BeginUsage(q)
  <2>1. /\ stamp' = [stamp EXCEPT ![q] = hour] /\ stamp[q] = NoHour
        /\ UNCHANGED <<hour, stored, job, rollup, due, extra, ran, unseen, unrolled>>
    BY <1>1 DEF BeginUsage, histVars
  <2>2. RollupTypes'
    BY <2>1 DEF RollupTypes
  <2>3. \A r \in stored : stamp'[r] = stamp[r]
    BY <2>1 DEF RollupTypes
  <2>4. ASSUME NEW p \in Periods \cup [type : Types, start : Int], Over(p),
               NEW r \in Records, BegunIn(r, p)'
        PROVE  BegunIn(r, p)
    <3>1. ~Within(hour, p)
      BY <2>4, PeriodBounds, NewRecordIsOutside
    <3>2. QED
      BY <2>1, <2>4, <3>1 DEF BegunIn, RollupTypes, Within, Length
  <2>5. \A j \in Jobs : job'[j] # NoJob => JobOK(job[j])'
    <3>1. SUFFICES ASSUME NEW j \in Jobs, job[j] # NoJob
                   PROVE  JobOK(job[j])'
      BY <2>1
    <3>2. job[j].period \in [type : Types, start : Int] /\ job[j].rows \subseteq Records
      BY <3>1 DEF RollupTypes, JobRecord
    <3>3. QED
      BY <2>1, <2>3, <2>4, <3>1, <3>2 DEF JobOK, Over, Within, Length
  <2>6. \A p \in Periods : p \in ran' => Over(p)'
    BY <2>1 DEF Over
  <2>7. ASSUME NEW t \in Tenants, NEW p \in Periods, NEW r \in Records
        PROVE  EntryOK(t, p, r)'
    <3>1. EntryOK(t, p, r) /\ (p \in ran => Over(p))
      OBVIOUS
    <3>2. p \in ran /\ BegunIn(r, p)' => BegunIn(r, p)
      BY <2>4, <3>1
    <3>3. QED
      BY <2>1, <2>3, <3>1, <3>2 DEF EntryOK
  <2>8. QED
    BY <2>1, <2>2, <2>5, <2>6, <2>7
<1>2. CASE CommitUsage(q)
  <2>1. /\ stored' = stored \cup {q} /\ stamp[q] # NoHour
        /\ UNCHANGED <<hour, stamp, job, rollup, due, extra, ran, unseen, unrolled>>
    BY <1>2 DEF CommitUsage, InFlight, histVars
  <2>2. RollupTypes'
    BY <2>1 DEF RollupTypes
  <2>3. \A j \in Jobs : job'[j] # NoJob => JobOK(job[j])'
    BY <2>1 DEF JobOK, Over, BegunIn, Within, Length
  <2>4. \A p \in Periods : p \in ran' => Over(p)'
    BY <2>1 DEF Over
  <2>5. ASSUME NEW t \in Tenants, NEW p \in Periods, NEW r \in Records
        PROVE  EntryOK(t, p, r)'
    <3>1. EntryOK(t, p, r)
      OBVIOUS
    <3>2. QED
      BY <2>1, <3>1 DEF EntryOK, BegunIn
  <2>6. QED
    BY <2>1, <2>2, <2>3, <2>4, <2>5
<1>3. QED
  BY <1>1, <1>2

(***************************************************************************)
(* Starting, aggregating and dying change a run only; the clock only       *)
(* closes more periods.                                                    *)
(***************************************************************************)
LEMMA RunKeepsInv ==
    ASSUME RollupInv, NEW j \in Jobs,
           \/ \E type \in Types : StartJob(j, type)
           \/ Aggregate(j) \/ JobDies(j)
    PROVE  RollupInv'
<1> USE DEF RollupInv
<1>1. UNCHANGED <<hour, stamp, stored, rollup, ran, unseen>>
  BY DEF StartJob, Aggregate, JobDies, dataVars, histVars
<1>2. SUFFICES ASSUME NEW b \in {NoJob} \cup JobRecord, job' = [job EXCEPT ![j] = b],
                      b # NoJob => JobOK(b)
               PROVE  RollupInv'
  <2>1. CASE \E type \in Types : StartJob(j, type)
    <3>1. PICK type \in Types : StartJob(j, type)
      BY <2>1
    <3> DEFINE b == [period |-> ClosedPeriod(type), phase |-> "started",
                     rows |-> {}, open |-> {}]
    <3>2. b \in JobRecord /\ JobOK(b)
      BY ClosedPeriodIsOver DEF JobRecord, JobOK, RollupTypes
    <3>3. job' = [job EXCEPT ![j] = b]
      BY <3>1 DEF StartJob
    <3>4. QED
      BY <1>2, <3>2, <3>3
  <2>2. CASE Aggregate(j)
    <3> DEFINE p == job[j].period
               b == [period |-> p, phase |-> "aggregated",
                     rows |-> StoredIn(p), open |-> OpenIn(p)]
    <3>1. job[j] \in JobRecord /\ job[j] # NoJob
      BY <2>2 DEF Aggregate, RollupTypes
    <3>2. job' = [job EXCEPT ![j] = b]
      BY <2>2 DEF Aggregate
    <3>3. StoredIn(p) \subseteq Records /\ OpenIn(p) \subseteq Records
      BY DEF StoredIn, OpenIn, InFlight, RollupTypes
    <3>4. b \in JobRecord
      BY <3>1, <3>3 DEF JobRecord
    <3>5. JobOK(b)
      BY <3>1 DEF JobOK, StoredIn, OpenIn, InFlight, BegunIn
    <3>6. QED
      BY <1>2, <3>2, <3>4, <3>5
  <2>3. CASE JobDies(j)
    BY <1>2, <2>3 DEF JobDies
  <2>4. QED
    BY <2>1, <2>2, <2>3
<1>3. RollupTypes'
  BY <1>1, <1>2 DEF RollupTypes
<1>4. ASSUME NEW k \in Jobs, job'[k] # NoJob, NEW c, c = job'[k]
      PROVE  JobOK(c)'
  <2>1. JobOK(c)
    BY <1>2, <1>4 DEF RollupTypes
  <2>2. QED
    BY <1>1, <2>1 DEF JobOK, Over, BegunIn
<1>5. \A k \in Jobs : job'[k] # NoJob => JobOK(job[k])'
  BY <1>4 DEF JobOK
<1>6. \A p \in Periods : p \in ran' => Over(p)'
  BY <1>1 DEF Over
<1>7. ASSUME NEW t \in Tenants, NEW p \in Periods, NEW r \in Records
      PROVE  EntryOK(t, p, r)'
  <2>1. EntryOK(t, p, r)
    OBVIOUS
  <2>2. QED
    BY <1>1, <2>1 DEF EntryOK, BegunIn
<1>8. QED
  BY <1>3, <1>5, <1>6, <1>7

(***************************************************************************)
(* The upserts keep the invariant: a row that is written gets what the run *)
(* aggregated, one that is not has nothing to get or already has more.     *)
(***************************************************************************)
LEMMA SaveKeepsInv ==
    ASSUME RollupInv, NEW j \in Jobs, SaveRows(j)
    PROVE  RollupInv'
<1> USE DEF RollupInv
<1> DEFINE p == job[j].period
           rows == job[j].rows
           open == job[j].open
           writes(t) == t \in {Owner[r] : r \in rows}
<1>1. /\ job[j] \in JobRecord /\ JobOK(job[j]) /\ job[j].phase = "aggregated"
      /\ job' = [job EXCEPT ![j] = NoJob] /\ ran' = ran \cup {p}
      /\ UNCHANGED <<hour, stamp, stored>>
  BY DEF SaveRows, RollupTypes, dataVars
<1>2. /\ rows \subseteq Records /\ open \subseteq Records
      /\ Over(p)
      /\ \A r \in rows : r \in stored /\ Within(stamp[r], p)
      /\ \A r \in Records : BegunIn(r, p) => r \in rows \cup open
  BY <1>1 DEF JobRecord, JobOK
<1>3. ASSUME NEW t \in Tenants, NEW q \in Periods
      PROVE  /\ q # p => rollup'[<<t, q>>] = rollup[<<t, q>>] /\ unseen'[<<t, q>>] = unseen[<<t, q>>]
             /\ q = p /\ writes(t) => /\ rollup'[<<t, q>>] = Upsert(rollup[<<t, q>>], t, rows)
                                      /\ unseen'[<<t, q>>] = open
             /\ q = p /\ ~writes(t) => rollup'[<<t, q>>] = rollup[<<t, q>>]
             /\ q = p /\ ~writes(t) => unseen'[<<t, q>>] = IF rollup[<<t, q>>] = NoRow
                                                       THEN open ELSE unseen[<<t, q>>]
  BY <1>3 DEF SaveRows
<1>4. RollupTypes'
  <2>1. rollup' \in [Tenants \X Periods -> [Records -> Nat]]
    BY DEF SaveRows, Upsert, RollupTypes
  <2>2. unseen' \in [Tenants \X Periods -> SUBSET Records]
    BY <1>2 DEF SaveRows, RollupTypes
  <2>3. QED
    BY <1>1, <2>1, <2>2 DEF RollupTypes
<1>5. ASSUME NEW k \in Jobs, job'[k] # NoJob
      PROVE  JobOK(job[k])'
  BY <1>1, <1>5 DEF RollupTypes, JobOK, Over, BegunIn
<1>6. \A q \in Periods : q \in ran' => Over(q)'
  BY <1>1, <1>2 DEF Over
<1>7. ASSUME NEW t \in Tenants, NEW q \in Periods, NEW r \in Records
      PROVE  EntryOK(t, q, r)'
  <2>1. EntryOK(t, q, r)
    OBVIOUS
  <2>2. CASE q # p
    BY <1>1, <1>3, <2>1, <2>2 DEF EntryOK, BegunIn
  <2>3. CASE q = p /\ writes(t)
    <3>4. rollup'[<<t, q>>] = Upsert(rollup[<<t, q>>], t, rows)
      BY <1>3, <2>3
    <3>1. rollup'[<<t, q>>][r] = IF r \in rows /\ Owner[r] = t THEN 1 ELSE 0
      BY <3>4 DEF Upsert
    <3>2. unseen'[<<t, q>>] = open
      BY <1>3, <2>3
    <3>3. QED
      BY <1>1, <1>2, <2>3, <3>1, <3>2 DEF EntryOK, BegunIn
  <2>4. CASE q = p /\ ~writes(t) /\ rollup[<<t, q>>] = NoRow
    <3>1. rollup'[<<t, q>>][r] = 0 /\ unseen'[<<t, q>>] = open
      BY <1>3, <2>4 DEF NoRow
    <3>2. r \in rows => Owner[r] # t
      BY <2>4
    <3>3. QED
      BY <1>1, <1>2, <2>4, <3>1, <3>2 DEF EntryOK, BegunIn
  <2>5. CASE q = p /\ ~writes(t) /\ rollup[<<t, q>>] # NoRow
    <3>1. PICK s \in Records : rollup[<<t, q>>][s] # 0
      BY <2>5 DEF NoRow, RollupTypes
    <3>2. q \in ran
      BY <3>1 DEF EntryOK
    <3>3. QED
      BY <1>1, <1>3, <2>1, <2>5, <3>2 DEF EntryOK, BegunIn
  <2>6. QED
    BY <2>2, <2>3, <2>4, <2>5
<1>8. QED
  BY <1>4, <1>5, <1>6, <1>7

(***************************************************************************)
(* The invariant holds in every reachable state.                           *)
(***************************************************************************)
LEMMA RollupInvariance == Spec => []RollupInv
<1>1. Init => RollupInv
  BY DEF Init, RollupInv, RollupTypes, EntryOK, NoRow
<1>2. RollupInv /\ [Next]_vars => RollupInv'
  <2> SUFFICES ASSUME RollupInv, [Next]_vars PROVE RollupInv'
    OBVIOUS
  <2>1. CASE Tick
    <3>1. /\ hour' = hour + 1
          /\ UNCHANGED <<stamp, stored, job, rollup, ran, unseen>>
      BY <2>1 DEF Tick, dataVars
    <3>2. RollupTypes'
      BY <3>1 DEF RollupInv, RollupTypes
    <3>3. ASSUME NEW p \in Periods \cup [type : Types, start : Int], Over(p)
          PROVE  Over(p)'
      BY <3>1, <3>3, PeriodBounds DEF Over, RollupInv, RollupTypes
    <3>4. ASSUME NEW j \in Jobs, job[j] # NoJob
          PROVE  JobOK(job[j])'
      <4>1. job[j].period \in [type : Types, start : Int] /\ JobOK(job[j])
        BY <3>4 DEF RollupInv, RollupTypes, JobRecord
      <4>2. Over(job[j].period) => (job[j].period).start + Length(job[j].period) <= hour'
        BY <3>1, <4>1, PeriodBounds DEF Over, RollupInv, RollupTypes
      <4>3. QED
        BY <3>1, <4>1, <4>2 DEF JobOK, Over, BegunIn
    <3>5. ASSUME NEW t \in Tenants, NEW p \in Periods, NEW r \in Records
          PROVE  EntryOK(t, p, r)'
      <4>1. EntryOK(t, p, r)
        BY DEF RollupInv
      <4>2. QED
        BY <3>1, <4>1 DEF EntryOK, BegunIn
    <3>6. QED
      BY <3>1, <3>2, <3>3, <3>4, <3>5 DEF RollupInv
  <2>2. CASE UNCHANGED vars
    <3>1. UNCHANGED <<hour, stamp, stored, job, rollup, ran, unseen>>
      BY <2>2 DEF vars, dataVars, histVars
    <3>2. QED
      BY <3>1 DEF RollupInv, RollupTypes, JobOK, Over, BegunIn, EntryOK
  <2>3. QED
    BY <2>1, <2>2, UsageKeepsInv, RunKeepsInv, SaveKeepsInv DEF Next
<1>3. QED
  BY <1>1, <1>2, PTL DEF Spec

(***************************************************************************)
(* For any tenants, records, length of the day and number of overlapping,  *)
(* dying or repeated runs, a row of usage_rollups sums up every record of  *)
(* its tenant and period once and nothing else, but for records in flight  *)
(* when the run that wrote it aggregated.                                  *)
(***************************************************************************)
THEOREM RollupsAreExact == Spec => []RowIsExact
<1>1. RollupInv => RowIsExact
  <2> SUFFICES ASSUME RollupInv, NEW p \in Periods, NEW t \in Tenants, NEW r \in Records
               PROVE  LET counted == rollup[<<t, p>>][r]
                          belongs == r \in StoredIn(p) /\ Owner[r] = t
                      IN  /\ counted > 0 => belongs /\ counted = 1
                          /\ p \in ran /\ belongs => counted = 1 \/ r \in unseen[<<t, p>>]
    BY DEF RowIsExact
  <2>1. EntryOK(t, p, r) /\ rollup[<<t, p>>][r] \in Nat
    BY DEF RollupInv, RollupTypes
  <2>2. r \in StoredIn(p) <=> r \in stored /\ Within(stamp[r], p)
    BY DEF StoredIn
  <2>3. r \in stored => stamp[r] # NoHour
    BY DEF RollupInv, RollupTypes
  <2>4. QED
    BY <2>1, <2>2, <2>3 DEF EntryOK, BegunIn
<1>2. QED
  BY <1>1, RollupInvariance, PTL
=============================================================================
