----------------------------- MODULE BudgetScan -----------------------------
(***************************************************************************)
(* budget_threshold_scan (workers/tasks.py), run every 15 minutes by arq,  *)
(* over usage_records that requests keep writing.  Scans may overlap: the  *)
(* worker may be replicated, and a scan may outlast the interval.          *)
(*                                                                         *)
(* The scan reads usage_records under row-level security.  Its bypass is   *)
(* set once, by set_rls_context with is_local=true, so it lasts until the  *)
(* next commit, and write_audit_event commits.  Without it the policy of   *)
(* usage_records hides every row and the sum of costs is 0.                *)
(***************************************************************************)
EXTENDS Integers, Sequences

CONSTANTS
    Tenants,     \* the active tenants
    Budget,      \* monthly_budget_usd of each
    Costs,       \* cost_usd of usage records
    Scanners,    \* scans that may run at once
    MaxSpend,    \* bound: spend of a tenant
    LastMonth,   \* bound: months observed
    MaxCrashes   \* bound: scans that die half way

\* BUDGET_ALERT_THRESHOLDS, in tenths of the budget.
Thresholds == <<8, 10>>

Months == 1..LastMonth

\* For the locals of a scan that is not running.
AnyTenant == CHOOSE t \in Tenants : TRUE

\* A tenant crossing a threshold in a month: what budget_alert:... names.
Crossings == [tenant : Tenants, threshold : {8, 10}, month : Months]

ASSUME ScanAssumption ==
    /\ Tenants # {}
    /\ Budget \in [Tenants -> Nat]
    /\ Costs \subseteq Nat
    /\ MaxSpend \in Nat /\ MaxCrashes \in Nat
    /\ LastMonth \in Nat \ {0}

VARIABLES
    since,      \* cost of a tenant's usage_records since the start of a month
    month,      \* the calendar
    marker,     \* the alert markers in Redis
    alerts,     \* number of budget.threshold_reached rows in audit_log
    at,         \* where each scan is
    scanMonth,  \* its month_key and month_start
    left,       \* the tenants it has still to look at
    tenant,     \* the tenant it looks at
    seen,       \* the spend it read for that tenant
    level,      \* the threshold it compares with
    bypass,     \* aegis.bypass_rls is on in its transaction
    due,        \* history: crossings that had happened when it began
    crashes     \* number of scans that died

scanVars == <<at, scanMonth, left, tenant, seen, level, bypass, due>>
vars == <<since, month, marker, alerts, scanVars, crashes>>

Init ==
    /\ since = [t \in Tenants |-> [m \in Months |-> 0]]
    /\ month = 1
    /\ marker = {}
    /\ alerts = [c \in Crossings |-> 0]
    /\ at = [w \in Scanners |-> "idle"]
    /\ scanMonth = [w \in Scanners |-> 1]
    /\ left = [w \in Scanners |-> {}]
    /\ tenant = [w \in Scanners |-> AnyTenant]
    /\ seen = [w \in Scanners |-> 0]
    /\ level = [w \in Scanners |-> 1]
    /\ bypass = [w \in Scanners |-> FALSE]
    /\ due = [w \in Scanners |-> {}]
    /\ crashes = 0

-----------------------------------------------------------------------------
\* The least spend whose ratio to the budget is not below the threshold.
AlertAt(t, threshold) == (threshold * Budget[t] + 9) \div 10

\* Every threshold is taken for the first.
ReachedFirst(t, threshold, spend) == spend >= AlertAt(t, 8)

\* ratio < threshold is false.
Reached(t, threshold, spend) == spend >= AlertAt(t, threshold)

\* The crossing a scan is looking at.
Current(w) == [tenant |-> tenant[w], threshold |-> Thresholds[level[w]],
               month |-> scanMonth[w]]

\* The crossings that have happened, whoever knows.
Events ==
    {c \in Crossings : /\ Budget[c.tenant] > 0
                       /\ since[c.tenant][c.month] >= AlertAt(c.tenant, c.threshold)}

\* The flag is passed on the wrong way round.
SetRlsContextInverted(w, on) == bypass' = [bypass EXCEPT ![w] = ~on]

\* set_config with is_local=true: for the transaction the session is in.
SetRlsContext(w, on) == bypass' = [bypass EXCEPT ![w] = on]

\* The clock is read, the bypass is set and the tenants are loaded.
Begin(w) ==
    /\ at[w] = "idle"
    /\ at' = [at EXCEPT ![w] = "tenants"]
    /\ scanMonth' = [scanMonth EXCEPT ![w] = month]
    /\ left' = [left EXCEPT ![w] = Tenants]
    /\ SetRlsContext(w, TRUE)
    /\ due' = [due EXCEPT ![w] = {c \in Events : c.month = month}]
    /\ UNCHANGED <<since, month, marker, alerts, tenant, seen, level, crashes>>

\* The sum of the costs the row-level security policy lets the scan see.
VisibleSpend(w, t) == IF bypass[w] THEN since[t][scanMonth[w]] ELSE 0

\* A tenant without a budget ends the loop instead of being skipped.
ReadSpendBreaks(w, t) ==
    /\ at[w] = "tenants"
    /\ t \in left[w]
    /\ left' = [left EXCEPT ![w] = IF Budget[t] = 0 THEN {} ELSE @ \ {t}]
    /\ \/ /\ Budget[t] = 0
          /\ UNCHANGED <<at, tenant, seen, level>>
       \/ /\ Budget[t] > 0
          /\ tenant' = [tenant EXCEPT ![w] = t]
          /\ seen' = [seen EXCEPT ![w] = VisibleSpend(w, t)]
          /\ level' = [level EXCEPT ![w] = 1]
          /\ at' = [at EXCEPT ![w] = "thresholds"]
    /\ UNCHANGED <<since, month, marker, alerts, scanMonth, bypass, due, crashes>>

\* The next tenant, in the order Postgres returned them.
ReadSpend(w, t) ==
    /\ at[w] = "tenants"
    /\ t \in left[w]
    /\ left' = [left EXCEPT ![w] = @ \ {t}]
    /\ \/ /\ Budget[t] = 0
          /\ UNCHANGED <<at, tenant, seen, level>>
       \/ /\ Budget[t] > 0
          /\ tenant' = [tenant EXCEPT ![w] = t]
          /\ seen' = [seen EXCEPT ![w] = VisibleSpend(w, t)]
          /\ level' = [level EXCEPT ![w] = 1]
          /\ at' = [at EXCEPT ![w] = "thresholds"]
    /\ UNCHANGED <<since, month, marker, alerts, scanMonth, bypass, due, crashes>>

\* The locals of the loop body are not read again.
Forget(w) ==
    /\ tenant' = [tenant EXCEPT ![w] = AnyTenant]
    /\ seen' = [seen EXCEPT ![w] = 0]
    /\ level' = [level EXCEPT ![w] = 1]

\* On to the next threshold, or to the next tenant.
Advance(w) ==
    \/ /\ level[w] = 1
       /\ at' = [at EXCEPT ![w] = "thresholds"]
       /\ level' = [level EXCEPT ![w] = 2]
       /\ UNCHANGED <<tenant, seen>>
    \/ /\ level[w] = 2
       /\ at' = [at EXCEPT ![w] = "tenants"]
       /\ Forget(w)

\* The marker is written without NX.
MarkWithoutNX(w) ==
    /\ at[w] = "thresholds"
    /\ LET reached == Reached(tenant[w], Thresholds[level[w]], seen[w]) IN
       \/ /\ ~reached
          /\ Advance(w)
          /\ UNCHANGED marker
       \/ /\ reached
          /\ marker' = marker \cup {Current(w)}
          /\ at' = [at EXCEPT ![w] = "audit"]
          /\ UNCHANGED <<tenant, seen, level>>
    /\ UNCHANGED <<since, month, alerts, scanMonth, left, bypass, due, crashes>>

\* One threshold: below it, already alerted, or the first time (SET NX).
Mark(w) ==
    /\ at[w] = "thresholds"
    /\ LET first == /\ Reached(tenant[w], Thresholds[level[w]], seen[w])
                    /\ Current(w) \notin marker
       IN
       \/ /\ ~first
          /\ Advance(w)
          /\ UNCHANGED marker
       \/ /\ first
          /\ marker' = marker \cup {Current(w)}
          /\ at' = [at EXCEPT ![w] = "audit"]
          /\ UNCHANGED <<tenant, seen, level>>
    /\ UNCHANGED <<since, month, alerts, scanMonth, left, bypass, due, crashes>>

\* write_audit_event sets the bypass, inserts the row and commits: the bypass
\* is gone with the transaction.
WriteAuditEvent(w) ==
    /\ at[w] = "audit"
    /\ alerts' = [alerts EXCEPT ![Current(w)] = @ + 1]
    /\ bypass' = [bypass EXCEPT ![w] = FALSE]
    /\ Advance(w)
    /\ UNCHANGED <<since, month, marker, scanMonth, left, due, crashes>>

\* The session is closed and the locals are gone.
Close(w) ==
    /\ at' = [at EXCEPT ![w] = "idle"]
    /\ left' = [left EXCEPT ![w] = {}]
    /\ bypass' = [bypass EXCEPT ![w] = FALSE]
    /\ due' = [due EXCEPT ![w] = {}]
    /\ scanMonth' = [scanMonth EXCEPT ![w] = 1]
    /\ Forget(w)
    /\ UNCHANGED <<since, month, marker, alerts>>

Finish(w) ==
    /\ at[w] = "tenants"
    /\ left[w] = {}
    /\ Close(w)
    /\ UNCHANGED crashes

\* The worker dies, or Redis or Postgres fails the command.
Crash(w) ==
    /\ crashes < MaxCrashes
    /\ at[w] # "idle"
    /\ Close(w)
    /\ crashes' = crashes + 1

-----------------------------------------------------------------------------
(* The surroundings. *)

\* record_usage commits a row, which belongs to every period begun before it.
Record(t, cost) ==
    /\ since[t][1] + cost <= MaxSpend
    /\ since' = [since EXCEPT ![t] =
                    [m \in Months |-> IF m <= month THEN since[t][m] + cost ELSE 0]]
    /\ UNCHANGED <<month, marker, alerts, scanVars, crashes>>

NextMonth ==
    /\ month < LastMonth
    /\ month' = month + 1
    /\ UNCHANGED <<since, marker, alerts, scanVars, crashes>>

\* _BUDGET_ALERT_MARKER_TTL_SECONDS, "comfortably longer than a month": the
\* month is over, and so are the scans begun in it.
MarkerExpires(c) ==
    /\ c \in marker
    /\ c.month < month
    /\ \A w \in Scanners : at[w] # "idle" => scanMonth[w] # c.month
    /\ marker' = marker \ {c}
    /\ UNCHANGED <<since, month, alerts, scanVars, crashes>>

Step(w) ==
    \/ Begin(w)
    \/ \E t \in Tenants : ReadSpend(w, t)
    \/ Mark(w) \/ WriteAuditEvent(w) \/ Finish(w)

Next ==
    \/ \E w \in Scanners : Step(w) \/ Crash(w)
    \/ \E t \in Tenants, cost \in Costs : Record(t, cost)
    \/ NextMonth
    \/ \E c \in Crossings : MarkerExpires(c)

Spec == Init /\ [][Next]_vars

\* arq starts a scan every 15 minutes and the event loop runs it.
FairSpec == Spec /\ \A w \in Scanners : WF_vars(Step(w))

-----------------------------------------------------------------------------
(***************************************************************************)
(* "Alert once per tenant per threshold per month, not once per scan       *)
(* interval": whatever scans overlap or die, no crossing has two rows.     *)
(***************************************************************************)
AlertOnce == \A c \in Crossings : alerts[c] <= 1

(***************************************************************************)
(* An alert is true: the tenant has a budget and its spend since the start *)
(* of the month it is filed under reached that share of it.  That spend    *)
(* has no end date: a scan still running after the month's end counts what *)
(* was spent in the next month too.                                        *)
(***************************************************************************)
AlertIsTrue == \A c \in Crossings : alerts[c] > 0 => c \in Events

(***************************************************************************)
(* A scan that got through its tenants with its bypass intact has missed   *)
(* nothing that had happened when it began.  (After its first alert the    *)
(* bypass is gone and it reads 0 for the tenants that follow.)             *)
(***************************************************************************)
QuietScanIsComplete ==
    \A w \in Scanners : at[w] = "tenants" /\ left[w] = {} /\ bypass[w] => due[w] \subseteq marker

\* A scan died between setting the marker and writing the row.
Lost(c) ==
    /\ c \in marker /\ alerts[c] = 0
    /\ \A w \in Scanners : at[w] = "audit" => Current(w) # c

(***************************************************************************)
(* The docstring's "writing an audit event the first time a tenant crosses *)
(* 80% or 100%": every crossing is alerted, if not by the scan that loses  *)
(* its bypass then by a later one, unless the month ends first or a scan   *)
(* died holding the alert.                                                 *)
(***************************************************************************)
CrossingIsAlerted ==
    \A c \in Crossings :
        (month = c.month /\ c \in Events) ~> (alerts[c] = 1 \/ month > c.month \/ Lost(c))
=============================================================================
