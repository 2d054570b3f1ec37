-------------------------- MODULE BudgetScanProofs --------------------------
(***************************************************************************)
(* Proofs about BudgetScan for any tenants, budgets and number of scans    *)
(* that overlap or die.                                                    *)
(***************************************************************************)
EXTENDS BudgetScan, TLAPS

\* The types the argument rests on.
ScanTypes ==
    /\ month \in Months
    /\ alerts \in [Crossings -> Nat]
    /\ at \in [Scanners -> {"idle", "tenants", "thresholds", "audit"}]
    /\ scanMonth \in [Scanners -> Months]
    /\ tenant \in [Scanners -> Tenants]
    /\ level \in [Scanners -> 1..2]

\* A scan about to write a row set the marker for it, and nobody wrote it yet.
WriterIsFirst ==
    \A w \in Scanners : at[w] = "audit" => Current(w) \in marker /\ alerts[Current(w)] = 0

\* No two scans are about to write the same row.
WritersDiffer ==
    \A v, w \in Scanners :
        at[v] = "audit" /\ at[w] = "audit" /\ Current(v) = Current(w) => v = w

\* The month of a crossing is over, for the calendar and for every scan.
Over(c) == c.month < month /\ \A w \in Scanners : at[w] # "idle" => scanMonth[w] # c.month

\* What was alerted is marked, as long as anybody could alert it again.
AlertedIsMarked == \A c \in Crossings : alerts[c] > 0 => c \in marker \/ Over(c)

\* AlertOnce is not inductive: that the row is the first one rests on the
\* marker, and on no scan of a past month being left when a marker expires.
OnceInv == ScanTypes /\ WriterIsFirst /\ WritersDiffer /\ AlertOnce /\ AlertedIsMarked

\* The crossing a scan looks at is one, in the month of the scan.
LEMMA CurrentIsCrossing ==
    ASSUME ScanTypes, NEW w \in Scanners
    PROVE  Current(w) \in Crossings /\ Current(w).month = scanMonth[w]
<1>1. Thresholds[level[w]] \in {8, 10}
  BY DEF ScanTypes, Thresholds
<1>2. tenant[w] \in Tenants /\ scanMonth[w] \in Months
  BY DEF ScanTypes
<1>. QED
  BY <1>1, <1>2 DEF Current, Crossings

\* The locals stay within their types while a scan goes through its loops.
LEMMA AdvanceTypes ==
    ASSUME ScanTypes, NEW w \in Scanners, Advance(w)
    PROVE  /\ at' \in [Scanners -> {"idle", "tenants", "thresholds", "audit"}]
           /\ at' = [at EXCEPT ![w] = at'[w]] /\ at'[w] \in {"tenants", "thresholds"}
           /\ tenant' \in [Scanners -> Tenants] /\ level' \in [Scanners -> 1..2]
           /\ \A v \in Scanners \ {w} : tenant'[v] = tenant[v] /\ level'[v] = level[v]
<1>1. AnyTenant \in Tenants
  BY ScanAssumption DEF ScanAssumption, AnyTenant
<1>. QED
  BY <1>1 DEF Advance, Forget, ScanTypes

\* A scan that leaves for the next threshold, the next tenant or the end, and
\* writes no row, keeps the invariant: it only gives up a claim.
LEMMA LeavingKeepsInv ==
    ASSUME OnceInv, ScanTypes', NEW w \in Scanners,
           at'[w] # "audit", at[w] # "idle",
           \A v \in Scanners \ {w} : at'[v] = at[v] /\ tenant'[v] = tenant[v] /\ level'[v] = level[v],
           \A v \in Scanners : at'[v] # "idle" => scanMonth'[v] = scanMonth[v],
           month' = month, marker' = marker, alerts' = alerts
    PROVE  OnceInv'
<1>1. \A v \in Scanners : at'[v] = "audit" => v # w /\ at[v] = "audit" /\ Current(v)' = Current(v)
  BY DEF Current
<1>2. WriterIsFirst' /\ WritersDiffer'
  BY <1>1 DEF OnceInv, WriterIsFirst, WritersDiffer
<1>3. AlertOnce'
  BY DEF OnceInv, AlertOnce
<1>4. \A c \in Crossings : Over(c) => Over(c)'
  BY DEF Over
<1>5. AlertedIsMarked'
  BY <1>4 DEF OnceInv, AlertedIsMarked
<1>. QED
  BY <1>2, <1>3, <1>5 DEF OnceInv

\* The empty database and the empty Redis satisfy the invariant.
LEMMA InitOnce == Init => OnceInv
<1>. SUFFICES ASSUME Init PROVE OnceInv
  OBVIOUS
<1>1. AnyTenant \in Tenants /\ 1 \in Months
  BY ScanAssumption DEF ScanAssumption, AnyTenant, Months
<1>2. ScanTypes
  BY <1>1 DEF Init, ScanTypes
<1>3. WriterIsFirst /\ WritersDiffer /\ AlertOnce /\ AlertedIsMarked
  BY DEF Init, WriterIsFirst, WritersDiffer, AlertOnce, AlertedIsMarked
<1>. QED
  BY <1>2, <1>3 DEF OnceInv

\* Every step of a scan, of a request, of the calendar and of Redis preserves
\* the invariant.
LEMMA NextOnce == OnceInv /\ [Next]_vars => OnceInv'
<1>. SUFFICES ASSUME OnceInv, [Next]_vars PROVE OnceInv'
  OBVIOUS
<1>. USE DEF OnceInv
<1>1. CASE UNCHANGED vars
  BY <1>1 DEF vars, scanVars, ScanTypes, WriterIsFirst, WritersDiffer, AlertOnce,
              AlertedIsMarked, Over, Current
<1>2. ASSUME NEW w \in Scanners, Begin(w) PROVE OnceInv'
  <2>1. ScanTypes'
    BY <1>2 DEF Begin, ScanTypes
  <2>2. \A v \in Scanners : at'[v] = "audit" => at[v] = "audit" /\ v # w /\ Current(v)' = Current(v)
    BY <1>2 DEF Begin, ScanTypes, Current
  <2>3. WriterIsFirst' /\ WritersDiffer' /\ AlertOnce'
    BY <1>2, <2>2 DEF Begin, WriterIsFirst, WritersDiffer, AlertOnce
  <2>4. \A c \in Crossings : Over(c) => Over(c)'
    BY <1>2 DEF Begin, Over, ScanTypes, Crossings, Months
  <2>5. AlertedIsMarked'
    BY <1>2, <2>4 DEF Begin, AlertedIsMarked
  <2>. QED
    BY <2>1, <2>3, <2>5
<1>3. ASSUME NEW w \in Scanners, NEW t \in Tenants, ReadSpend(w, t) PROVE OnceInv'
  <2>1. ScanTypes'
    BY <1>3 DEF ReadSpend, ScanTypes
  <2>2. /\ at'[w] # "audit" /\ at[w] # "idle"
        /\ \A v \in Scanners \ {w} : at'[v] = at[v] /\ tenant'[v] = tenant[v] /\ level'[v] = level[v]
    BY <1>3 DEF ReadSpend, ScanTypes
  <2>3. scanMonth' = scanMonth /\ month' = month /\ marker' = marker /\ alerts' = alerts
    BY <1>3 DEF ReadSpend
  <2>. QED
    BY <2>1, <2>2, <2>3, LeavingKeepsInv
<1>4. ASSUME NEW w \in Scanners, Mark(w) PROVE OnceInv'
  <2>1. at[w] = "thresholds" /\ scanMonth' = scanMonth /\ month' = month /\ alerts' = alerts
    BY <1>4 DEF Mark
  <2>2. CASE Advance(w) /\ marker' = marker
    <3>1. ScanTypes'
      BY <2>1, <2>2, AdvanceTypes DEF ScanTypes
    <3>2. /\ at'[w] # "audit"
          /\ \A v \in Scanners \ {w} : at'[v] = at[v] /\ tenant'[v] = tenant[v] /\ level'[v] = level[v]
      BY <2>2, AdvanceTypes DEF ScanTypes
    <3>. QED
      BY <2>1, <2>2, <3>1, <3>2, LeavingKeepsInv
  <2>3. CASE /\ Current(w) \notin marker /\ marker' = marker \cup {Current(w)}
             /\ at' = [at EXCEPT ![w] = "audit"] /\ UNCHANGED <<tenant, seen, level>>
    <3>1. ScanTypes' /\ \A v \in Scanners : Current(v)' = Current(v)
      BY <2>1, <2>3 DEF ScanTypes, Current
    <3>2. Current(w) \in Crossings /\ ~Over(Current(w))
      BY <2>1, CurrentIsCrossing DEF Over
    <3>3. alerts[Current(w)] = 0
      BY <2>3, <3>2 DEF AlertedIsMarked, ScanTypes
    <3>4. \A v \in Scanners :
             at'[v] = "audit" => v = w \/ (at[v] = "audit" /\ Current(v) # Current(w))
      BY <2>3 DEF WriterIsFirst, ScanTypes
    <3>5. WriterIsFirst' /\ WritersDiffer'
      BY <2>1, <2>3, <3>1, <3>3, <3>4 DEF WriterIsFirst, WritersDiffer
    <3>6. \A c \in Crossings : Over(c) => Over(c)'
      BY <2>1, <2>3 DEF Over, ScanTypes
    <3>7. AlertOnce' /\ AlertedIsMarked'
      BY <2>1, <2>3, <3>6 DEF AlertOnce, AlertedIsMarked
    <3>. QED
      BY <3>1, <3>5, <3>7
  <2>. QED
    BY <1>4, <2>2, <2>3 DEF Mark
<1>5. ASSUME NEW w \in Scanners, WriteAuditEvent(w) PROVE OnceInv'
  <2>. DEFINE c == Current(w)
  <2>1. /\ at[w] = "audit" /\ scanMonth' = scanMonth /\ month' = month /\ marker' = marker
        /\ alerts' = [alerts EXCEPT ![c] = @ + 1] /\ Advance(w)
    BY <1>5 DEF WriteAuditEvent
  <2>2. c \in Crossings /\ c \in marker /\ alerts[c] = 0
    BY <2>1, CurrentIsCrossing DEF WriterIsFirst
  <2>. HIDE DEF c
  <2>3. /\ alerts' \in [Crossings -> Nat] /\ alerts'[c] = 1
        /\ \A d \in Crossings \ {c} : alerts'[d] = alerts[d]
    BY <2>1, <2>2 DEF ScanTypes
  <2>4. ScanTypes' /\ at'[w] # "audit" /\ at'[w] # "idle"
    BY <2>1, <2>3, AdvanceTypes DEF ScanTypes
  <2>5. \A v \in Scanners \ {w} : at'[v] = at[v] /\ Current(v)' = Current(v)
    BY <2>1, AdvanceTypes DEF ScanTypes, Current
  <2>6. \A v \in Scanners : at'[v] = "audit" => v # w /\ at[v] = "audit" /\ Current(v) # c
    BY <2>1, <2>4, <2>5 DEF c, WritersDiffer
  <2>7. \A v \in Scanners : Current(v) \in Crossings
    BY CurrentIsCrossing
  <2>8. WriterIsFirst' /\ WritersDiffer'
    BY <2>1, <2>3, <2>5, <2>6, <2>7 DEF WriterIsFirst, WritersDiffer
  <2>9. \A d \in Crossings : Over(d) => Over(d)'
    BY <2>1, <2>5 DEF Over
  <2>10. AlertOnce' /\ AlertedIsMarked'
    BY <2>1, <2>2, <2>3, <2>9 DEF AlertOnce, AlertedIsMarked
  <2>. QED
    BY <2>4, <2>8, <2>10
<1>6. ASSUME NEW w \in Scanners, Close(w), at[w] # "idle" PROVE OnceInv'
  <2>1. AnyTenant \in Tenants /\ 1 \in Months
    BY ScanAssumption DEF ScanAssumption, AnyTenant, Months
  <2>2. ScanTypes'
    BY <1>6, <2>1 DEF Close, Forget, ScanTypes
  <2>3. /\ at'[w] # "audit"
        /\ \A v \in Scanners \ {w} : at'[v] = at[v] /\ tenant'[v] = tenant[v] /\ level'[v] = level[v]
        /\ \A v \in Scanners : at'[v] # "idle" => scanMonth'[v] = scanMonth[v]
    BY <1>6 DEF Close, Forget, ScanTypes
  <2>4. month' = month /\ marker' = marker /\ alerts' = alerts
    BY <1>6 DEF Close
  <2>. QED
    BY <1>6, <2>2, <2>3, <2>4, LeavingKeepsInv
<1>7. ASSUME NEW t \in Tenants, NEW cost \in Costs, Record(t, cost) PROVE OnceInv'
  BY <1>7 DEF Record, scanVars, ScanTypes, WriterIsFirst, WritersDiffer, AlertOnce,
              AlertedIsMarked, Over, Current
<1>8. CASE NextMonth
  <2>1. ScanTypes'
    BY <1>8, ScanAssumption DEF NextMonth, scanVars, ScanTypes, ScanAssumption, Months
  <2>2. WriterIsFirst' /\ WritersDiffer' /\ AlertOnce'
    BY <1>8 DEF NextMonth, scanVars, WriterIsFirst, WritersDiffer, AlertOnce, Current
  <2>3. \A c \in Crossings : Over(c) => Over(c)'
    BY <1>8 DEF NextMonth, scanVars, Over, ScanTypes, Crossings, Months
  <2>4. AlertedIsMarked'
    BY <1>8, <2>3 DEF NextMonth, AlertedIsMarked
  <2>. QED
    BY <2>1, <2>2, <2>4
<1>9. ASSUME NEW c \in Crossings, MarkerExpires(c) PROVE OnceInv'
  <2>1. ScanTypes' /\ Over(c) /\ marker' = marker \ {c} /\ UNCHANGED <<month, alerts, scanVars>>
    BY <1>9 DEF MarkerExpires, scanVars, ScanTypes, Over
  <2>2. \A v \in Scanners : at[v] = "audit" => Current(v) # c
    BY <2>1, CurrentIsCrossing DEF Over
  <2>3. WriterIsFirst' /\ WritersDiffer' /\ AlertOnce'
    BY <2>1, <2>2 DEF scanVars, WriterIsFirst, WritersDiffer, AlertOnce, Current
  <2>4. \A d \in Crossings : Over(d) => Over(d)'
    BY <2>1 DEF scanVars, Over
  <2>5. AlertedIsMarked'
    BY <2>1, <2>4 DEF AlertedIsMarked
  <2>. QED
    BY <2>1, <2>3, <2>5
<1>10. ASSUME NEW w \in Scanners, Finish(w) \/ Crash(w) PROVE OnceInv'
  BY <1>6, <1>10 DEF Finish, Crash
<1>. QED
  BY <1>1, <1>2, <1>3, <1>4, <1>5, <1>7, <1>8, <1>9, <1>10 DEF Next, Step

\* However many scans overlap or die half way, over any number of months, the
\* SET NX of the marker lets no crossing have two budget.threshold_reached rows.
THEOREM OneAlertPerCrossing == Spec => []AlertOnce
<1>1. OnceInv => AlertOnce
  BY DEF OnceInv
<1>. QED
  BY InitOnce, NextOnce, <1>1, PTL DEF Spec

-----------------------------------------------------------------------------
(* What an alert says, and what a scan leaves out. *)

\* Spend is a sum of costs, and a month that has not begun has none.
SpendInv ==
    /\ since \in [Tenants -> [Months -> Nat]]
    /\ \A t \in Tenants, m \in Months : m > month => since[t][m] = 0

\* The spend a scan read was the tenant's at some time, and has not shrunk
\* since; a scan about to write a row compared it with the threshold.
WellRead(w) ==
    /\ at[w] \in {"thresholds", "audit"} =>
          Budget[tenant[w]] > 0 /\ seen[w] <= since[tenant[w]][scanMonth[w]]
    /\ at[w] = "audit" => Reached(tenant[w], Thresholds[level[w]], seen[w])

\* What a scan took note of when it began had happened, in its month.
DueHappened(w) ==
    at[w] # "idle" => due[w] \subseteq {c \in Events : c.month = scanMonth[w]}

\* The scan has still to look at the crossing.
Pending(w, c) ==
    \/ c.tenant \in left[w]
    \/ at[w] = "thresholds" /\ c.tenant = tenant[w] /\ (level[w] = 1 \/ c.threshold = 10)

\* With its bypass intact, a scan read enough for what was due by then, and has
\* passed over nothing that was due and is not marked.
Thorough(w) ==
    bypass[w] =>
        /\ at[w] = "thresholds" =>
              \A c \in due[w] : c.tenant = tenant[w] => seen[w] >= AlertAt(c.tenant, c.threshold)
        /\ at[w] \in {"tenants", "thresholds"} =>
              \A c \in due[w] : c \in marker \/ Pending(w, c)

\* AlertIsTrue is not inductive, as a row is written from a spend read earlier;
\* QuietScanIsComplete is the end of a loop whose invariant is Thorough.
TruthInv ==
    /\ OnceInv
    /\ SpendInv
    /\ seen \in [Scanners -> Nat]
    /\ left \in [Scanners -> SUBSET Tenants]
    /\ bypass \in [Scanners -> BOOLEAN]
    /\ due \in [Scanners -> SUBSET Crossings]
    /\ \A w \in Scanners : WellRead(w) /\ DueHappened(w) /\ Thorough(w)
    /\ AlertIsTrue

\* The spend an alert asks for is an amount.
LEMMA AlertAtIsNat ==
    ASSUME NEW t \in Tenants, NEW threshold \in {8, 10}
    PROVE  AlertAt(t, threshold) \in Nat
<1>1. Budget[t] \in Nat
  BY ScanAssumption DEF ScanAssumption
<1>2. \A n \in Nat : n \div 10 \in Nat
  OBVIOUS
<1>3. threshold * Budget[t] + 9 \in Nat
  BY <1>1
<1>. QED
  BY <1>2, <1>3 DEF AlertAt

\* Only record_usage changes the spend, and it adds: no step of a scan, of the
\* calendar or of Redis takes away from it.
LEMMA SpendGrows ==
    ASSUME SpendInv, month \in Months, month' \in Months, [Next]_vars
    PROVE  /\ SpendInv'
           /\ \A t \in Tenants, m \in Months : since[t][m] <= since'[t][m]
           /\ Events \subseteq Events'
<1>1. Months \subseteq Int /\ month \in Int /\ month' \in Int
  BY ScanAssumption DEF ScanAssumption, Months
<1>2. ASSUME NEW u \in Tenants, NEW cost \in Costs, Record(u, cost)
      PROVE  /\ SpendInv'
             /\ \A t \in Tenants, m \in Months : since[t][m] <= since'[t][m]
  <2>. DEFINE f == [m \in Months |-> IF m <= month THEN since[u][m] + cost ELSE 0]
  <2>1. cost \in Nat /\ since' = [since EXCEPT ![u] = f] /\ month' = month
    BY <1>2, ScanAssumption DEF ScanAssumption, Record
  <2>2. \A m \in Months : m \in Int /\ since[u][m] \in Nat /\ month \in Int
    BY <1>1 DEF SpendInv
  <2>3. f \in [Months -> Nat] /\ \A m \in Months : since[u][m] <= f[m] /\ (m > month => f[m] = 0)
    BY <2>1, <2>2 DEF SpendInv
  <2>. HIDE DEF f
  <2>. QED
    BY <2>1, <2>3 DEF SpendInv
<1>3. (since' = since /\ month' >= month) \/ \E u \in Tenants, cost \in Costs : Record(u, cost)
  <2>1. ASSUME NEW w \in Scanners, Step(w) \/ Crash(w) PROVE since' = since /\ month' = month
    BY <2>1 DEF Step, Begin, ReadSpend, Mark, WriteAuditEvent, Finish, Crash, Close
  <2>2. ASSUME NEW c \in Crossings, MarkerExpires(c) PROVE since' = since /\ month' = month
    BY <2>2 DEF MarkerExpires
  <2>3. ASSUME NextMonth PROVE since' = since /\ month' = month + 1
    BY <2>3 DEF NextMonth
  <2>4. ASSUME UNCHANGED vars PROVE since' = since /\ month' = month
    BY <2>4 DEF vars
  <2>5. month >= month /\ month + 1 >= month
    BY <1>1
  <2>. QED
    BY <2>1, <2>2, <2>3, <2>4, <2>5 DEF Next
<1>4. SpendInv' /\ \A t \in Tenants, m \in Months : since[t][m] <= since'[t][m]
  <2>1. CASE since' = since /\ month' >= month
    BY <1>1, <2>1 DEF SpendInv
  <2>. QED
    BY <1>2, <1>3, <2>1
<1>5. ASSUME NEW c \in Events PROVE c \in Events'
  <2>1. /\ c \in Crossings /\ c.tenant \in Tenants /\ c.month \in Months /\ c.threshold \in {8, 10}
        /\ Budget[c.tenant] > 0 /\ since[c.tenant][c.month] >= AlertAt(c.tenant, c.threshold)
    BY DEF Events, Crossings
  <2>2. /\ since[c.tenant][c.month] \in Nat /\ since'[c.tenant][c.month] \in Nat
        /\ since[c.tenant][c.month] <= since'[c.tenant][c.month]
    BY <1>4, <2>1 DEF SpendInv
  <2>3. AlertAt(c.tenant, c.threshold) \in Nat
    BY <2>1, AlertAtIsNat
  <2>4. since'[c.tenant][c.month] >= AlertAt(c.tenant, c.threshold)
    BY <2>1, <2>2, <2>3
  <2>. QED
    BY <2>1, <2>4 DEF Events, AlertAt
<1>. QED
  BY <1>4, <1>5

\* A scan keeps its state in locals and in its own session: no other scan's
\* step touches them.
LEMMA OthersStand ==
    ASSUME TruthInv, NEW w \in Scanners, Step(w) \/ Crash(w), NEW v \in Scanners \ {w}
    PROVE  /\ at'[v] = at[v] /\ scanMonth'[v] = scanMonth[v] /\ left'[v] = left[v]
           /\ tenant'[v] = tenant[v] /\ seen'[v] = seen[v] /\ level'[v] = level[v]
           /\ bypass'[v] = bypass[v] /\ due'[v] = due[v]
<1>. USE DEF TruthInv, OnceInv, ScanTypes
<1>1. CASE Begin(w)
  BY <1>1 DEF Begin, SetRlsContext
<1>2. ASSUME NEW t \in Tenants, ReadSpend(w, t)
      PROVE  /\ at'[v] = at[v] /\ scanMonth'[v] = scanMonth[v] /\ left'[v] = left[v]
             /\ tenant'[v] = tenant[v] /\ seen'[v] = seen[v] /\ level'[v] = level[v]
             /\ bypass'[v] = bypass[v] /\ due'[v] = due[v]
  BY <1>2 DEF ReadSpend
<1>3. ASSUME Advance(w)
      PROVE  at'[v] = at[v] /\ tenant'[v] = tenant[v] /\ seen'[v] = seen[v] /\ level'[v] = level[v]
  BY <1>3 DEF Advance, Forget
<1>4. CASE Mark(w)
  BY <1>3, <1>4 DEF Mark
<1>5. CASE WriteAuditEvent(w)
  BY <1>3, <1>5 DEF WriteAuditEvent
<1>6. CASE Close(w)
  BY <1>6 DEF Close, Forget
<1>. QED
  BY <1>1, <1>2, <1>4, <1>5, <1>6 DEF Step, Finish, Crash

\* What is known of a scan stays true while it stands: spend only grows, and a
\* marker that a running scan could need does not expire.
LEMMA StandingScan ==
    ASSUME TruthInv, OnceInv', [Next]_vars, NEW v \in Scanners,
           at'[v] = at[v] /\ scanMonth'[v] = scanMonth[v] /\ left'[v] = left[v],
           tenant'[v] = tenant[v] /\ seen'[v] = seen[v] /\ level'[v] = level[v],
           bypass'[v] = bypass[v] /\ due'[v] = due[v],
           \A c \in marker : c \in marker' \/ (at[v] # "idle" => scanMonth[v] # c.month)
    PROVE  WellRead(v)' /\ DueHappened(v)' /\ Thorough(v)'
<1>. DEFINE t == tenant[v]
            m == scanMonth[v]
<1>1. /\ t \in Tenants /\ m \in Months /\ seen[v] \in Nat /\ month \in Months /\ month' \in Months
      /\ due[v] \subseteq Crossings
  BY DEF TruthInv, OnceInv, ScanTypes
<1>2. /\ \A u \in Tenants, n \in Months : since[u][n] <= since'[u][n]
      /\ SpendInv' /\ Events \subseteq Events'
  BY <1>1, SpendGrows DEF TruthInv
<1>3. since[t][m] \in Nat /\ since'[t][m] \in Nat /\ since[t][m] <= since'[t][m]
  BY <1>1, <1>2 DEF TruthInv, SpendInv
<1>4. WellRead(v) /\ DueHappened(v) /\ Thorough(v)
  BY DEF TruthInv
<1>5. WellRead(v)'
  <2>1. at[v] = "audit" => Reached(tenant[v], Thresholds[level[v]], seen[v])'
    BY <1>4 DEF WellRead, Reached, AlertAt, Thresholds
  <2>2. at[v] \in {"thresholds", "audit"} => Budget[t] > 0 /\ seen[v] <= since'[t][m]
    BY <1>1, <1>3, <1>4 DEF WellRead
  <2>. QED
    BY <2>1, <2>2 DEF WellRead
<1>6. DueHappened(v)'
  BY <1>2, <1>4 DEF DueHappened
<1>7. Thorough(v)'
  <2>1. \A c \in due[v] : Pending(v, c)' <=> Pending(v, c)
    BY DEF Pending
  <2>2. at[v] # "idle" => \A c \in due[v] : c \in marker => c \in marker'
    BY <1>4 DEF DueHappened
  <2>3. \A c \in due[v] : AlertAt(c.tenant, c.threshold)' = AlertAt(c.tenant, c.threshold)
    BY DEF AlertAt
  <2>. QED
    BY <1>4, <2>1, <2>2, <2>3 DEF Thorough
<1>. QED
  BY <1>5, <1>6, <1>7

\* No step of a scan takes a marker away.
LEMMA ScansKeepMarkers ==
    ASSUME NEW w \in Scanners, Step(w) \/ Crash(w)
    PROVE  marker \subseteq marker'
  BY DEF Step, Begin, ReadSpend, Mark, WriteAuditEvent, Finish, Crash, Close

\* The types of what a scan holds.
LEMMA HeldTypes ==
    ASSUME TruthInv, OnceInv', NEW w \in Scanners, Step(w) \/ Crash(w)
    PROVE  /\ seen' \in [Scanners -> Nat]
           /\ left' \in [Scanners -> SUBSET Tenants]
           /\ bypass' \in [Scanners -> BOOLEAN]
           /\ due' \in [Scanners -> SUBSET Crossings]
<1>. USE DEF TruthInv, OnceInv, ScanTypes
<1>1. CASE Begin(w)
  <2>1. {c \in Events : c.month = month} \in SUBSET Crossings
    BY DEF Events
  <2>. QED
    BY <1>1, <2>1 DEF Begin, SetRlsContext
<1>2. ASSUME NEW t \in Tenants, ReadSpend(w, t)
      PROVE  /\ seen' \in [Scanners -> Nat] /\ left' \in [Scanners -> SUBSET Tenants]
             /\ bypass' = bypass /\ due' = due
  <2>1. VisibleSpend(w, t) \in Nat
    BY DEF VisibleSpend, SpendInv
  <2>. QED
    BY <1>2, <2>1 DEF ReadSpend
<1>3. ASSUME Advance(w) PROVE seen' \in [Scanners -> Nat]
  BY <1>3 DEF Advance, Forget
<1>4. CASE Mark(w)
  BY <1>3, <1>4 DEF Mark
<1>5. CASE WriteAuditEvent(w)
  BY <1>3, <1>5 DEF WriteAuditEvent
<1>6. CASE Close(w)
  BY <1>6 DEF Close, Forget
<1>. QED
  BY <1>1, <1>2, <1>4, <1>5, <1>6 DEF Step, Finish, Crash

\* A scan that begins notes what has happened, and has every tenant before it.
LEMMA BeginIsThorough ==
    ASSUME TruthInv, OnceInv', SpendInv', NEW w \in Scanners, Begin(w)
    PROVE  WellRead(w)' /\ DueHappened(w)' /\ Thorough(w)'
<1>. USE DEF TruthInv, OnceInv, ScanTypes
<1>1. /\ at'[w] = "tenants" /\ scanMonth'[w] = month /\ left'[w] = Tenants
      /\ due'[w] = {c \in Events : c.month = month} /\ Events' = Events
  BY DEF Begin, SetRlsContext, Events
<1>2. \A c \in Events : c.tenant \in Tenants
  BY DEF Events, Crossings
<1>. QED
  BY <1>1, <1>2 DEF WellRead, DueHappened, Thorough, Pending

\* A tenant without a budget has nothing due; of another the scan reads what
\* its policy lets it see, which is all of it while the bypass is on.
LEMMA ReadIsThorough ==
    ASSUME TruthInv, OnceInv', NEW w \in Scanners, NEW t \in Tenants, ReadSpend(w, t)
    PROVE  WellRead(w)' /\ DueHappened(w)' /\ Thorough(w)'
<1>. USE DEF TruthInv, OnceInv, ScanTypes
<1>1. /\ at[w] = "tenants" /\ left'[w] = left[w] \ {t} /\ scanMonth' = scanMonth /\ due' = due
      /\ bypass' = bypass /\ marker' = marker /\ since' = since
  BY DEF ReadSpend
<1>2. /\ Events' = Events /\ due[w] \subseteq {c \in Events : c.month = scanMonth[w]}
      /\ \A c \in due[w] : bypass[w] => c \in marker \/ c.tenant \in left[w]
  BY <1>1 DEF Events, DueHappened, Thorough, Pending
<1>3. CASE Budget[t] = 0 /\ UNCHANGED <<at, tenant, seen, level>>
  <2>1. \A c \in due[w] : c.tenant # t
    BY <1>2, <1>3 DEF Events
  <2>. QED
    BY <1>1, <1>2, <1>3, <2>1 DEF WellRead, DueHappened, Thorough, Pending
<1>4. CASE /\ Budget[t] > 0 /\ tenant' = [tenant EXCEPT ![w] = t]
           /\ seen' = [seen EXCEPT ![w] = VisibleSpend(w, t)]
           /\ level' = [level EXCEPT ![w] = 1] /\ at' = [at EXCEPT ![w] = "thresholds"]
  <2>1. /\ tenant'[w] = t /\ seen'[w] = VisibleSpend(w, t) /\ level'[w] = 1
        /\ at'[w] = "thresholds" /\ since[t][scanMonth[w]] \in Nat
    BY <1>4 DEF SpendInv
  <2>2. WellRead(w)'
    BY <1>1, <1>4, <2>1 DEF WellRead, VisibleSpend
  <2>3. \A c \in due[w] : bypass[w] /\ c.tenant = t => seen'[w] >= AlertAt(c.tenant, c.threshold)
    BY <1>2, <2>1 DEF VisibleSpend, Events
  <2>4. \A c \in due[w] : AlertAt(c.tenant, c.threshold)' = AlertAt(c.tenant, c.threshold)
    BY DEF AlertAt
  <2>5. Thorough(w)'
    BY <1>1, <1>2, <2>1, <2>3, <2>4 DEF Thorough, Pending
  <2>. QED
    BY <1>1, <1>2, <2>2, <2>5 DEF DueHappened
<1>. QED
  BY <1>3, <1>4 DEF ReadSpend

\* SET NX: a threshold is passed over only when it was not reached or is marked.
LEMMA MarkIsThorough ==
    ASSUME TruthInv, OnceInv', NEW w \in Scanners, Mark(w)
    PROVE  WellRead(w)' /\ DueHappened(w)' /\ Thorough(w)'
<1>. USE DEF TruthInv, OnceInv, ScanTypes
<1>. DEFINE first == Reached(tenant[w], Thresholds[level[w]], seen[w]) /\ Current(w) \notin marker
<1>1. /\ at[w] = "thresholds" /\ left' = left /\ scanMonth' = scanMonth /\ due' = due
      /\ bypass' = bypass /\ since' = since
  BY DEF Mark
<1>2. Events' = Events /\ DueHappened(w)'
  BY <1>1 DEF Events, DueHappened
<1>3. CASE first /\ at' = [at EXCEPT ![w] = "audit"] /\ UNCHANGED <<tenant, seen, level>>
  BY <1>1, <1>2, <1>3 DEF WellRead, Thorough, Reached, AlertAt, Thresholds
<1>4. CASE ~first /\ Advance(w) /\ marker' = marker
  <2>1. ASSUME NEW c \in due[w], bypass[w], c.tenant = tenant[w],
               c.threshold = Thresholds[level[w]]
        PROVE  c \in marker
    <3>1. c \in Crossings /\ c.month = scanMonth[w]
      BY <1>1 DEF DueHappened, Events
    <3>2. c = Current(w)
      BY <2>1, <3>1 DEF Crossings, Current
    <3>3. seen[w] >= AlertAt(c.tenant, c.threshold)
      BY <1>1, <2>1 DEF Thorough
    <3>. QED
      BY <1>4, <2>1, <3>2, <3>3 DEF Reached
  <2>2. \A c \in due[w] : c.threshold \in {8, 10}
    BY DEF Crossings
  <2>3. \A c \in due[w] : bypass[w] => c \in marker \/ Pending(w, c)
    BY <1>1 DEF Thorough
  <2>4. CASE level[w] = 1
    <3>1. at'[w] = "thresholds" /\ level'[w] = 2 /\ tenant' = tenant /\ seen' = seen
      BY <1>4, <2>4 DEF Advance
    <3>2. WellRead(w)'
      BY <1>1, <3>1 DEF WellRead
    <3>3. \A c \in due[w] : bypass[w] => c \in marker \/ Pending(w, c)'
      BY <1>1, <2>1, <2>2, <2>3, <2>4, <3>1 DEF Pending, Thresholds
    <3>4. \A c \in due[w] : AlertAt(c.tenant, c.threshold)' = AlertAt(c.tenant, c.threshold)
      BY DEF AlertAt
    <3>5. Thorough(w)'
      BY <1>1, <1>4, <3>1, <3>3, <3>4 DEF Thorough
    <3>. QED
      BY <1>2, <3>2, <3>5
  <2>5. CASE level[w] = 2
    <3>1. at'[w] = "tenants"
      BY <1>4, <2>5 DEF Advance
    <3>2. \A c \in due[w] : bypass[w] => c \in marker \/ Pending(w, c)'
      BY <1>1, <2>1, <2>2, <2>3, <2>5, <3>1 DEF Pending, Thresholds
    <3>. QED
      BY <1>1, <1>2, <1>4, <3>1, <3>2 DEF WellRead, Thorough
  <2>. QED
    BY <2>4, <2>5
<1>. QED
  BY <1>3, <1>4 DEF Mark

\* write_audit_event's commit ends the bypass: nothing more is promised.
LEMMA WriteIsThorough ==
    ASSUME TruthInv, OnceInv', NEW w \in Scanners, WriteAuditEvent(w)
    PROVE  WellRead(w)' /\ DueHappened(w)' /\ Thorough(w)'
<1>. USE DEF TruthInv, OnceInv, ScanTypes
<1>1. /\ at[w] = "audit" /\ ~bypass'[w] /\ scanMonth' = scanMonth /\ due' = due /\ since' = since
      /\ Advance(w)
  BY DEF WriteAuditEvent
<1>2. Events' = Events /\ DueHappened(w)' /\ Thorough(w)'
  BY <1>1 DEF Events, DueHappened, Thorough
<1>3. CASE level[w] = 1
  <2>1. at'[w] = "thresholds" /\ tenant' = tenant /\ seen' = seen
    BY <1>1, <1>3 DEF Advance
  <2>. QED
    BY <1>1, <1>2, <2>1 DEF WellRead
<1>4. CASE level[w] = 2
  <2>1. at'[w] = "tenants"
    BY <1>1, <1>4 DEF Advance
  <2>. QED
    BY <1>2, <2>1 DEF WellRead
<1>. QED
  BY <1>3, <1>4

\* Only write_audit_event adds a row, for a crossing the scan had checked.
LEMMA RowsAreTrue ==
    ASSUME TruthInv, OnceInv', [Next]_vars
    PROVE  AlertIsTrue'
<1>. USE DEF TruthInv, OnceInv, ScanTypes
<1>1. Events \subseteq Events'
  BY SpendGrows
<1>2. CASE alerts' = alerts
  BY <1>1, <1>2 DEF AlertIsTrue
<1>3. ASSUME NEW w \in Scanners, WriteAuditEvent(w) PROVE AlertIsTrue'
  <2>. DEFINE c == Current(w)
  <2>1. at[w] = "audit" /\ alerts' = [alerts EXCEPT ![c] = @ + 1]
    BY <1>3 DEF WriteAuditEvent
  <2>2. /\ c \in Crossings /\ c.tenant = tenant[w] /\ c.threshold = Thresholds[level[w]]
        /\ c.month = scanMonth[w]
    BY CurrentIsCrossing DEF Current
  <2>3. /\ Budget[tenant[w]] > 0 /\ seen[w] <= since[tenant[w]][scanMonth[w]]
        /\ seen[w] >= AlertAt(tenant[w], Thresholds[level[w]])
    BY <2>1 DEF WellRead, Reached
  <2>4. /\ AlertAt(c.tenant, c.threshold) \in Nat
        /\ seen[w] \in Nat /\ since[tenant[w]][scanMonth[w]] \in Nat
    BY <2>2, AlertAtIsNat DEF Crossings, SpendInv
  <2>5. since[c.tenant][c.month] >= AlertAt(c.tenant, c.threshold)
    BY <2>2, <2>3, <2>4
  <2>6. c \in Events
    BY <2>2, <2>3, <2>5 DEF Events
  <2>. HIDE DEF c
  <2>7. \A d \in Crossings \ {c} : alerts'[d] = alerts[d]
    BY <2>1, <2>2
  <2>. QED
    BY <1>1, <2>6, <2>7 DEF AlertIsTrue
<1>4. alerts' = alerts \/ \E w \in Scanners : WriteAuditEvent(w)
  BY DEF Next, Step, Begin, ReadSpend, Mark, Finish, Crash, Close, Record, NextMonth,
         MarkerExpires, vars
<1>. QED
  BY <1>2, <1>3, <1>4

\* Every step preserves what alerts and quiet scans rest on.
LEMMA NextTruth == TruthInv /\ [Next]_vars => TruthInv'
<1>. SUFFICES ASSUME TruthInv, [Next]_vars PROVE TruthInv'
  OBVIOUS
<1>1. OnceInv'
  BY NextOnce DEF TruthInv
<1>2. SpendInv'
  BY <1>1, SpendGrows DEF TruthInv, OnceInv, ScanTypes
<1>3. AlertIsTrue'
  BY <1>1, RowsAreTrue
<1>4. ASSUME NEW w \in Scanners, Step(w) \/ Crash(w) PROVE TruthInv'
  <2>1. /\ seen' \in [Scanners -> Nat] /\ left' \in [Scanners -> SUBSET Tenants]
        /\ bypass' \in [Scanners -> BOOLEAN] /\ due' \in [Scanners -> SUBSET Crossings]
    BY <1>1, <1>4, HeldTypes
  <2>2. ASSUME NEW v \in Scanners \ {w} PROVE WellRead(v)' /\ DueHappened(v)' /\ Thorough(v)'
    BY <1>1, <1>4, OthersStand, ScansKeepMarkers, StandingScan
  <2>3. CASE Close(w)
    <3>1. at'[w] = "idle" /\ ~bypass'[w]
      BY <2>3 DEF Close, TruthInv, OnceInv, ScanTypes
    <3>. QED
      BY <1>1, <1>2, <1>3, <2>1, <2>2, <3>1 DEF TruthInv, WellRead, DueHappened, Thorough
  <2>4. (WellRead(w)' /\ DueHappened(w)' /\ Thorough(w)') \/ Close(w)
    BY <1>1, <1>2, <1>4, BeginIsThorough, ReadIsThorough, MarkIsThorough, WriteIsThorough
       DEF Step, Finish, Crash
  <2>. QED
    BY <1>1, <1>2, <1>3, <2>1, <2>2, <2>3, <2>4 DEF TruthInv
<1>5. ASSUME UNCHANGED scanVars,
             \A w \in Scanners, c \in marker :
                 c \in marker' \/ (at[w] # "idle" => scanMonth[w] # c.month)
      PROVE  TruthInv'
  <2>1. ASSUME NEW v \in Scanners PROVE WellRead(v)' /\ DueHappened(v)' /\ Thorough(v)'
    BY <1>1, <1>5, StandingScan DEF scanVars
  <2>. QED
    BY <1>1, <1>2, <1>3, <1>5, <2>1 DEF TruthInv, scanVars
<1>6. ASSUME NEW t \in Tenants, NEW cost \in Costs, Record(t, cost) PROVE TruthInv'
  BY <1>5, <1>6 DEF Record
<1>7. ASSUME NEW c \in Crossings, MarkerExpires(c) PROVE TruthInv'
  BY <1>5, <1>7 DEF MarkerExpires
<1>8. CASE NextMonth \/ UNCHANGED vars
  BY <1>5, <1>8 DEF NextMonth, vars
<1>. QED
  BY <1>4, <1>6, <1>7, <1>8 DEF Next

\* The empty database satisfies it.
LEMMA InitTruth == Init => TruthInv
<1>. SUFFICES ASSUME Init PROVE TruthInv
  OBVIOUS
<1>1. OnceInv
  BY InitOnce
<1>2. SpendInv
  BY DEF Init, SpendInv
<1>3. /\ seen \in [Scanners -> Nat] /\ left \in [Scanners -> SUBSET Tenants]
      /\ bypass \in [Scanners -> BOOLEAN] /\ due \in [Scanners -> SUBSET Crossings]
  BY DEF Init
<1>4. \A w \in Scanners : WellRead(w) /\ DueHappened(w) /\ Thorough(w)
  BY DEF Init, WellRead, DueHappened, Thorough
<1>5. AlertIsTrue
  BY DEF Init, AlertIsTrue
<1>. QED
  BY <1>1, <1>2, <1>3, <1>4, <1>5 DEF TruthInv

\* A budget.threshold_reached row is written after its spend was read, and
\* other scans, requests and the calendar go on in between: the crossing it
\* names has happened all the same.  The share was reached by the tenant's spend
\* since the start of the month the row is filed under; the query only asks for
\* created_at >= month_start, so a scan that runs past the end of that month
\* counts the spend of the next one as well.
THEOREM AlertsAreTrue == Spec => []AlertIsTrue
<1>1. TruthInv => AlertIsTrue
  BY DEF TruthInv
<1>. QED
  BY InitTruth, NextTruth, <1>1, PTL DEF Spec

\* A scan that is through its tenants and never lost its bypass has marked, or
\* found marked, every crossing that had happened when it began, whatever the
\* scans beside it did.
THEOREM QuietScansAreComplete == Spec => []QuietScanIsComplete
<1>1. TruthInv => QuietScanIsComplete
  BY DEF TruthInv, Thorough, Pending, QuietScanIsComplete
<1>. QED
  BY InitTruth, NextTruth, <1>1, PTL DEF Spec
=============================================================================
