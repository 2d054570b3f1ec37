-------------------------- MODULE ConcurrencySlots --------------------------
(***************************************************************************)
(* The per-tenant concurrency counter in Redis (services/rate_limiter.py,  *)
(* acquire_concurrency_slot and release_concurrency_slot), for one tenant. *)
(* Every Redis command is a step of its own: INCR, EXPIRE and DECR are     *)
(* separate awaits, so other requests run between them.                    *)
(*                                                                         *)
(* A request can vanish between any two commands (an exception nobody      *)
(* catches, a cancellation, a crash): LoseSlot.  The key can expire while  *)
(* requests still hold slots, because its 300 s run from the last time the *)
(* counter went from 0 to 1: SlotKeyExpires.                               *)
(***************************************************************************)
EXTENDS Integers, FiniteSets

CONSTANTS
    Requests,             \* requests of the tenant
    Limit,                \* max_concurrent_requests
    ExpiresUnderHolders,  \* traffic may outlast the key's TTL
    LossPoints,           \* where a request may vanish
    MaxLeaks              \* bound: slots leaked and not yet healed

ASSUME SlotAssumption ==
    /\ IsFiniteSet(Requests)
    /\ Limit \in Nat
    /\ ExpiresUnderHolders \in BOOLEAN
    /\ LossPoints \subseteq {"expiring", "over", "held"}
    /\ MaxLeaks \in Nat

VARIABLES
    count,    \* the value under concurrency_key(tenant), 0 when absent
    slotKey,  \* absent, persistent (no TTL) or volatile (TTL set)
    slot,     \* where each request is in acquire .. release
    flaw      \* history: what has befallen the key (see Flaws)

slotVars == <<count, slotKey, slot, flaw>>

\* outrun: the key expired under requests it counted, and has not yet been
\* empty of them.  orphaned: a request died between its INCR and its EXPIRE.
Flaws == {"outrun", "orphaned"}

SlotTypeOK ==
    /\ count \in -Cardinality(Requests)..(Cardinality(Requests) + MaxLeaks)
    /\ slotKey \in {"absent", "persistent", "volatile"}
    /\ slot \in [Requests -> {"out", "expiring", "over", "held"}]
    /\ flaw \subseteq Flaws

SlotInit ==
    /\ count = 0
    /\ slotKey = "absent"
    /\ slot = [r \in Requests |-> "out"]
    /\ flaw = {}

\* Requests whose INCR has not been undone, and those that passed the check.
Busy == {r \in Requests : slot[r] # "out"}
Held == {r \in Requests : slot[r] = "held"}

\* How far the counter is above (leaks) or below the requests it stands for.
Drift == count - Cardinality(Busy)

-----------------------------------------------------------------------------
\* An off-by-one in the comparison.
VerdictLoose(current) == IF current > Limit + 1 THEN "over" ELSE "held"

\* The comparison with the limit, on the value INCR returned.
Verdict(current) == IF current > Limit THEN "over" ELSE "held"

\* INCR key that never asks for a TTL.
IncrSlotNoExpire(r) ==
    /\ slot[r] = "out"
    /\ count' = count + 1
    /\ slotKey' = IF slotKey = "absent" THEN "persistent" ELSE slotKey
    /\ slot' = [slot EXCEPT ![r] = Verdict(count + 1)]
    /\ UNCHANGED flaw

\* INCR key; the next command is EXPIRE if the counter was 0.
IncrSlot(r) ==
    /\ slot[r] = "out"
    /\ count' = count + 1
    /\ slotKey' = IF slotKey = "absent" THEN "persistent" ELSE slotKey
    /\ slot' = [slot EXCEPT ![r] = IF count + 1 = 1 THEN "expiring"
                                   ELSE Verdict(count + 1)]
    /\ UNCHANGED flaw

\* EXPIRE key 300; no effect on an absent key.
SetSlotExpiry(r) ==
    /\ slot[r] = "expiring"
    /\ slotKey' = IF slotKey = "absent" THEN "absent" ELSE "volatile"
    /\ slot' = [slot EXCEPT ![r] = Verdict(1)]
    /\ flaw' = flaw \ {"orphaned"}
    /\ UNCHANGED count

\* DECR key; creates the key at -1, without a TTL, when it is absent.
DecrSlot ==
    /\ count' = count - 1
    /\ slotKey' = IF slotKey = "absent" THEN "persistent" ELSE slotKey

\* acquire_concurrency_slot undoes its INCR and returns False.
RejectOverLimit(r) ==
    /\ slot[r] = "over"
    /\ DecrSlot
    /\ slot' = [slot EXCEPT ![r] = "out"]
    /\ UNCHANGED flaw

\* One release path runs twice.
ReleaseSlotTwice(r) ==
    /\ slot[r] = "held"
    /\ count' = count - 2
    /\ slotKey' = IF slotKey = "absent" THEN "persistent" ELSE slotKey
    /\ slot' = [slot EXCEPT ![r] = "out"]
    /\ UNCHANGED flaw

ReleaseSlot(r) ==
    /\ slot[r] = "held"
    /\ DecrSlot
    /\ slot' = [slot EXCEPT ![r] = "out"]
    /\ UNCHANGED flaw

\* The request ends without its DECR.
LoseSlot(r) ==
    /\ slot[r] \in LossPoints
    /\ Drift < MaxLeaks
    /\ slot' = [slot EXCEPT ![r] = "out"]
    /\ flaw' = IF slot[r] = "expiring" THEN flaw \cup {"orphaned"} ELSE flaw
    /\ UNCHANGED <<count, slotKey>>

\* Redis drops the key once its TTL has run out: always when nobody is
\* counted, under the holders only if traffic may outlast the TTL.
SlotKeyExpires ==
    /\ slotKey = "volatile"
    /\ ExpiresUnderHolders \/ Busy = {}
    /\ count' = 0
    /\ slotKey' = "absent"
    /\ flaw' = IF Busy = {} THEN {} ELSE {"outrun"}
    /\ UNCHANGED slot

SlotNext ==
    \/ \E r \in Requests : \/ IncrSlot(r) \/ SetSlotExpiry(r)
                           \/ RejectOverLimit(r) \/ ReleaseSlot(r)
                           \/ LoseSlot(r)
    \/ SlotKeyExpires

SlotSpec == SlotInit /\ [][SlotNext]_slotVars

\* The event loop runs a request whose Redis reply has arrived; Redis drops
\* expired keys.  While a slot is leaked the counter never returns to 0, so
\* nothing refreshes the TTL and the key does expire.
SlotFairSpec ==
    /\ SlotSpec
    /\ \A r \in Requests : WF_slotVars(SetSlotExpiry(r))
    /\ WF_slotVars(SlotKeyExpires)

-----------------------------------------------------------------------------
(***************************************************************************)
(* Unless the key has expired under its holders, the counter is not below  *)
(* the number of requests it stands for, however acquisitions interleave   *)
(* and wherever requests vanish.                                           *)
(***************************************************************************)
CountCoversBusy == "outrun" \notin flaw => count >= Cardinality(Busy)

(***************************************************************************)
(* The cap: never more than max_concurrent_requests requests past          *)
(* acquire_concurrency_slot, unless the key has expired under its holders. *)
(* (acquire_concurrency_slot calls the cap soft; with INCR returning the   *)
(* value it is hard until that happens, and again once the key expires     *)
(* with nobody inside.)                                                    *)
(***************************************************************************)
ConcurrencyCap == "outrun" \notin flaw => Cardinality(Held) <= Limit

(***************************************************************************)
(* The "safety net" of _CONCURRENCY_KEY_TTL_SECONDS: a slot leaked by a    *)
(* request that vanished comes back, unless a request died between INCR    *)
(* and EXPIRE and left the key without a TTL.                              *)
(***************************************************************************)
LeakHeals == Drift > 0 ~> Drift <= 0 \/ "orphaned" \in flaw
=============================================================================
