------------------------- MODULE RequestGuardsProofs -------------------------
(***************************************************************************)
(* Proofs about the two guards a request takes in Redis and gives back:    *)
(* the concurrency counter (ConcurrencySlots) and the idempotency lock     *)
(* (Idempotency), for any requests, keys and limit.                        *)
(*                                                                         *)
(* CountCoversBusy alone is inductive; the cap follows from it together    *)
(* with a bound on the requests that passed, or are bound to pass, the     *)
(* comparison with the limit.  An expiry with nobody counted makes both    *)
(* true again, whatever happened before.  OverlapNeedsExpiry is not        *)
(* inductive: it needs that a lock in Redis stands for one of the requests *)
(* in progress that it allows.                                             *)
(***************************************************************************)
EXTENDS ConcurrencySlots, Idempotency, FiniteSetTheorems, TLAPS

-----------------------------------------------------------------------------
(* The counter. *)

\* Requests that are past the comparison, or will be after their EXPIRE.
Admitted == {r \in Requests : slot[r] = "held" \/ (slot[r] = "expiring" /\ Limit >= 1)}

SlotStates == {"out", "expiring", "over", "held"}

\* The inductive invariant.
CapInv ==
    /\ count \in Int
    /\ slot \in [Requests -> SlotStates]
    /\ CountCoversBusy
    /\ "outrun" \notin flaw => Cardinality(Admitted) <= Limit

(***************************************************************************)
(* Both sets of requests are finite and the admitted ones are counted.     *)
(***************************************************************************)
LEMMA SetSizes ==
    /\ IsFiniteSet(Busy) /\ Cardinality(Busy) \in Nat
    /\ IsFiniteSet(Admitted) /\ Cardinality(Admitted) \in Nat
    /\ Cardinality(Admitted) <= Cardinality(Busy)
    /\ Cardinality(Busy) <= Cardinality(Requests)
    /\ Cardinality(Requests) \in Nat
<1>1. Busy \subseteq Requests /\ Admitted \subseteq Busy
  BY DEF Busy, Admitted
<1>2. QED
  BY <1>1, FS_Subset, FS_CardinalityType, SlotAssumption DEF SlotAssumption

(***************************************************************************)
(* A request whose INCR has run adds one to the requests counted.          *)
(***************************************************************************)
LEMMA BusyGrows ==
    ASSUME NEW r \in Requests, slot \in [Requests -> SlotStates], slot[r] = "out",
           NEW v \in SlotStates \ {"out"}, slot' = [slot EXCEPT ![r] = v]
    PROVE  Cardinality(Busy') = Cardinality(Busy) + 1
<1>1. r \notin Busy /\ Busy' = Busy \cup {r}
  BY DEF Busy, SlotStates
<1>2. QED
  BY <1>1, SetSizes, FS_AddElement

(***************************************************************************)
(* A request whose DECR has run, or that vanishes, takes one away, and     *)
(* admits nobody.                                                          *)
(***************************************************************************)
LEMMA BusyShrinks ==
    ASSUME NEW r \in Requests, slot \in [Requests -> SlotStates], slot[r] # "out",
           slot' = [slot EXCEPT ![r] = "out"]
    PROVE  /\ Cardinality(Busy') = Cardinality(Busy) - 1
           /\ Cardinality(Admitted') <= Cardinality(Admitted)
<1>1. r \in Busy /\ Busy' = Busy \ {r} /\ Admitted' \subseteq Admitted
  BY DEF Busy, Admitted
<1>2. QED
  BY <1>1, SetSizes, FS_RemoveElement, FS_Subset

(***************************************************************************)
(* INCR admits at most as many requests as the limit: the value it returns *)
(* is more than the number of requests already counted.                    *)
(***************************************************************************)
LEMMA IncrKeepsCap ==
    ASSUME CapInv, NEW r \in Requests, IncrSlot(r)
    PROVE  CapInv'
<1> DEFINE v == IF count + 1 = 1 THEN "expiring" ELSE Verdict(count + 1)
<1> USE DEF CapInv, CountCoversBusy
<1>1. v \in SlotStates \ {"out"} /\ slot[r] = "out" /\ slot' = [slot EXCEPT ![r] = v]
  BY DEF IncrSlot, Verdict, SlotStates
<1>2. /\ Cardinality(Busy') = Cardinality(Busy) + 1
      /\ count' = count + 1 /\ flaw' = flaw
  BY <1>1, BusyGrows DEF IncrSlot
<1>3. slot' \in [Requests -> SlotStates]
  BY <1>1
<1>4. CASE v = "held" \/ (v = "expiring" /\ Limit >= 1)
  <2>1. r \notin Admitted /\ Admitted' = Admitted \cup {r}
    BY <1>1, <1>4 DEF Admitted
  <2>2. Cardinality(Admitted') = Cardinality(Admitted) + 1
    BY <2>1, SetSizes, FS_AddElement
  <2>3. count + 1 <= Limit
    BY <1>4, SlotAssumption DEF Verdict, SlotAssumption
  <2>4. QED
    BY <1>2, <1>3, <2>2, <2>3, SetSizes, SlotAssumption DEF SlotAssumption
<1>5. CASE ~(v = "held" \/ (v = "expiring" /\ Limit >= 1))
  <2>1. Admitted' = Admitted
    BY <1>1, <1>5 DEF Admitted
  <2>2. QED
    BY <1>2, <1>3, <2>1, SetSizes
<1>6. QED
  BY <1>4, <1>5

(***************************************************************************)
(* Every step keeps the invariant.                                         *)
(***************************************************************************)
LEMMA StepKeepsCap ==
    ASSUME CapInv, [SlotNext]_slotVars
    PROVE  CapInv'
<1>1. ASSUME NEW r \in Requests, IncrSlot(r)
      PROVE  CapInv'
  BY <1>1, IncrKeepsCap
<1>2. ASSUME NEW r \in Requests, SetSlotExpiry(r)
      PROVE  CapInv'
  <2>1. Busy' = Busy /\ Admitted' \subseteq Admitted
    BY <1>2, SlotAssumption
       DEF SetSlotExpiry, Verdict, Busy, Admitted, CapInv, SlotStates, SlotAssumption
  <2>2. Cardinality(Admitted') <= Cardinality(Admitted) /\ Cardinality(Admitted') \in Nat
    BY <2>1, SetSizes, FS_Subset, FS_CardinalityType
  <2>3. /\ slot' \in [Requests -> SlotStates] /\ count' = count
        /\ "outrun" \notin flaw' => "outrun" \notin flaw
    BY <1>2 DEF SetSlotExpiry, Verdict, CapInv, SlotStates
  <2>4. QED
    BY <2>1, <2>2, <2>3, SetSizes, SlotAssumption
       DEF CapInv, CountCoversBusy, SlotAssumption
<1>3. ASSUME NEW r \in Requests, RejectOverLimit(r) \/ ReleaseSlot(r) \/ LoseSlot(r)
      PROVE  CapInv'
  <2>1. slot[r] # "out" /\ slot' = [slot EXCEPT ![r] = "out"]
    BY <1>3, SlotAssumption DEF RejectOverLimit, ReleaseSlot, LoseSlot, SlotAssumption
  <2>2. /\ count' \in {count, count - 1}
        /\ "outrun" \notin flaw' => "outrun" \notin flaw
    BY <1>3 DEF RejectOverLimit, ReleaseSlot, LoseSlot, DecrSlot
  <2>3. Admitted' \subseteq Admitted
    BY <2>1 DEF Admitted, CapInv
  <2>4. Cardinality(Admitted') \in Nat
    BY <2>3, SetSizes, FS_Subset, FS_CardinalityType
  <2>5. slot' \in [Requests -> SlotStates]
    BY <2>1 DEF CapInv, SlotStates
  <2>6. /\ Cardinality(Busy') = Cardinality(Busy) - 1
        /\ Cardinality(Admitted') <= Cardinality(Admitted)
    BY <2>1, BusyShrinks DEF CapInv
  <2>7. QED
    BY <2>2, <2>4, <2>5, <2>6, SetSizes, SlotAssumption
       DEF CapInv, CountCoversBusy, SlotAssumption
<1>4. CASE SlotKeyExpires
  <2>1. /\ Busy' = Busy /\ Admitted' = Admitted
        /\ count' = 0 /\ slot' = slot
        /\ "outrun" \notin flaw' => Busy = {}
    BY <1>4 DEF SlotKeyExpires, Busy, Admitted
  <2>2. Busy = {} => Cardinality(Busy) = 0 /\ Cardinality(Admitted) <= 0
    BY SetSizes, FS_EmptySet
  <2>3. QED
    BY <2>1, <2>2, SetSizes, SlotAssumption DEF CapInv, CountCoversBusy, SlotAssumption
<1>5. CASE UNCHANGED slotVars
  BY <1>5 DEF slotVars, CapInv, CountCoversBusy, Busy, Admitted
<1>6. QED
  BY <1>1, <1>2, <1>3, <1>4, <1>5 DEF SlotNext

(***************************************************************************)
(* The invariant holds in every reachable state.                           *)
(***************************************************************************)
LEMMA CapInvariance == SlotSpec => []CapInv
<1>1. SlotInit => CapInv
  <2> SUFFICES ASSUME SlotInit PROVE CapInv
    OBVIOUS
  <2>1. Busy = {} /\ Admitted = {}
    BY DEF SlotInit, Busy, Admitted
  <2>2. QED
    BY <2>1, FS_EmptySet, SlotAssumption
       DEF SlotInit, CapInv, CountCoversBusy, SlotStates, SlotAssumption
<1>2. CapInv /\ [SlotNext]_slotVars => CapInv'
  BY StepKeepsCap
<1>3. QED
  BY <1>1, <1>2, PTL DEF SlotSpec

(***************************************************************************)
(* Until the key expires under its holders, the counter does not fall      *)
(* below the requests it stands for.                                       *)
(***************************************************************************)
THEOREM CounterNeverUndercounts == SlotSpec => []CountCoversBusy
<1>1. CapInv => CountCoversBusy
  BY DEF CapInv
<1>2. QED
  BY <1>1, CapInvariance, PTL

(***************************************************************************)
(* Until the key expires under its holders, at most                        *)
(* max_concurrent_requests requests are past acquire_concurrency_slot,     *)
(* although INCR, EXPIRE and DECR interleave freely and requests vanish.   *)
(***************************************************************************)
THEOREM CapIsHard == SlotSpec => []ConcurrencyCap
<1>1. CapInv => ConcurrencyCap
  <2> SUFFICES ASSUME CapInv, "outrun" \notin flaw
               PROVE  Cardinality(Held) <= Limit
    BY DEF ConcurrencyCap
  <2>1. Held \subseteq Admitted
    BY DEF Held, Admitted
  <2>2. Cardinality(Held) <= Cardinality(Admitted) /\ Cardinality(Held) \in Nat
    BY <2>1, SetSizes, FS_Subset, FS_CardinalityType
  <2>3. QED
    BY <2>2, SetSizes, SlotAssumption DEF CapInv, SlotAssumption
<1>2. QED
  BY <1>1, CapInvariance, PTL

(***************************************************************************)
(* A slot that a vanished request leaked stays leaked until the key        *)
(* expires, and until then no INCR of acquire_concurrency_slot returns 1,  *)
(* so that only requests already on their way to EXPIRE can renew the TTL: *)
(* the safety half of LeakHeals, and why the key's expiry may be assumed.  *)
(***************************************************************************)
LeakStopsRefresh ==
    Drift > 0 =>
        \/ SlotKeyExpires
        \/ /\ Drift' >= Drift
           /\ \A r \in Requests : slot'[r] = "expiring" => slot[r] = "expiring"

THEOREM LeaksWaitForExpiry == SlotSpec => [][LeakStopsRefresh]_slotVars
<1>1. CapInv /\ [SlotNext]_slotVars => [LeakStopsRefresh]_slotVars
  <2> SUFFICES ASSUME CapInv, SlotNext, Drift > 0, ~SlotKeyExpires
               PROVE  /\ Drift' >= Drift
                      /\ \A r \in Requests : slot'[r] = "expiring" => slot[r] = "expiring"
    BY DEF LeakStopsRefresh
  <2> USE DEF CapInv
  <2>1. ASSUME NEW r \in Requests, IncrSlot(r)
        PROVE  /\ Drift' = Drift
               /\ \A s \in Requests : slot'[s] = "expiring" => slot[s] = "expiring"
    <3> DEFINE v == IF count + 1 = 1 THEN "expiring" ELSE Verdict(count + 1)
    <3>1. v \in SlotStates \ {"out"} /\ slot[r] = "out" /\ slot' = [slot EXCEPT ![r] = v]
      BY <2>1 DEF IncrSlot, Verdict, SlotStates
    <3>2. Cardinality(Busy') = Cardinality(Busy) + 1 /\ count' = count + 1
      BY <2>1, <3>1, BusyGrows DEF IncrSlot
    <3>3. v # "expiring"
      BY SetSizes DEF Drift, Verdict
    <3>4. QED
      BY <3>1, <3>2, <3>3, SetSizes DEF Drift
  <2>2. ASSUME NEW r \in Requests, SetSlotExpiry(r)
        PROVE  /\ Drift' = Drift
               /\ \A s \in Requests : slot'[s] = "expiring" => slot[s] = "expiring"
    <3>1. Busy' = Busy /\ count' = count
      BY <2>2 DEF SetSlotExpiry, Verdict, Busy, SlotStates
    <3>2. QED
      BY <2>2, <3>1 DEF SetSlotExpiry, Verdict, Drift
  <2>3. ASSUME NEW r \in Requests, RejectOverLimit(r) \/ ReleaseSlot(r) \/ LoseSlot(r)
        PROVE  /\ Drift' >= Drift
               /\ \A s \in Requests : slot'[s] = "expiring" => slot[s] = "expiring"
    <3>1. slot[r] # "out" /\ slot' = [slot EXCEPT ![r] = "out"] /\ count' \in {count, count - 1}
      BY <2>3, SlotAssumption
         DEF RejectOverLimit, ReleaseSlot, LoseSlot, DecrSlot, SlotAssumption
    <3>2. Cardinality(Busy') = Cardinality(Busy) - 1
      BY <3>1, BusyShrinks
    <3>3. QED
      BY <3>1, <3>2, SetSizes DEF Drift
  <2>4. QED
    BY <2>1, <2>2, <2>3, SetSizes DEF SlotNext, Drift
<1>2. QED
  BY <1>1, CapInvariance, PTL DEF SlotSpec

-----------------------------------------------------------------------------
(* The lock. *)

\* The inductive invariant: a lock that is there stands for one request in
\* progress, and all the others have had it expire under somebody.
LockInv ==
    /\ lock \in [Keys -> BOOLEAN]
    /\ holds \in [Attempts -> Keys \cup {NoKey}]
    /\ outlived \in [Keys -> 0..Cardinality(Attempts)]
    /\ \A k \in Keys : Cardinality(InProgress(k)) <= outlived[k] + (IF lock[k] THEN 1 ELSE 0)

(***************************************************************************)
(* The requests in progress with a key are some of the requests.           *)
(***************************************************************************)
LEMMA ProgressSizes ==
    /\ Cardinality(Attempts) \in Nat
    /\ \A k : /\ IsFiniteSet(InProgress(k)) /\ Cardinality(InProgress(k)) \in Nat
              /\ Cardinality(InProgress(k)) <= Cardinality(Attempts)
<1>1. ASSUME NEW k PROVE InProgress(k) \subseteq Attempts
  BY DEF InProgress
<1>2. QED
  BY <1>1, FS_Subset, FS_CardinalityType, IdemAssumption DEF IdemAssumption

(***************************************************************************)
(* try_acquire_lock lets in one request, and only where there is no lock.  *)
(***************************************************************************)
LEMMA AcquireKeepsLock ==
    ASSUME LockInv, NEW r \in Attempts, NEW k \in Keys, TryAcquireLock(r, k)
    PROVE  LockInv'
<1>1. /\ lock' \in [Keys -> BOOLEAN] /\ holds' \in [Attempts -> Keys \cup {NoKey}]
      /\ outlived' = outlived
      /\ ~lock[k] /\ lock'[k] /\ \A j \in Keys \ {k} : lock'[j] = lock[j]
  BY DEF LockInv, TryAcquireLock
<1>2. /\ r \notin InProgress(k) /\ InProgress(k)' = InProgress(k) \cup {r}
      /\ \A j \in Keys \ {k} : InProgress(j)' = InProgress(j)
  BY IdemAssumption DEF LockInv, TryAcquireLock, InProgress, IdemAssumption
<1>3. Cardinality(InProgress(k)') = Cardinality(InProgress(k)) + 1
  BY <1>2, ProgressSizes, FS_AddElement
<1>4. ASSUME NEW j \in Keys
      PROVE  Cardinality(InProgress(j)') <= outlived'[j] + (IF lock'[j] THEN 1 ELSE 0)
  <2>1. outlived[j] \in Nat
    BY ProgressSizes DEF LockInv
  <2>2. CASE j = k
    <3>1. Cardinality(InProgress(k)) <= outlived[k]
      BY <1>1, <2>1, <2>2 DEF LockInv
    <3>2. QED
      BY <1>1, <1>3, <2>1, <2>2, <3>1, ProgressSizes
  <2>3. CASE j # k
    BY <1>1, <1>2, <2>3 DEF LockInv
  <2>4. QED
    BY <2>2, <2>3
<1>5. QED
  BY <1>1, <1>4 DEF LockInv

(***************************************************************************)
(* A request that is over, with or without release_lock, leaves one less,  *)
(* whosever lock it deletes.                                               *)
(***************************************************************************)
LEMMA LeaveKeepsLock ==
    ASSUME LockInv, NEW r \in Attempts, ReleaseLock(r) \/ AbandonLock(r)
    PROVE  LockInv'
<1>1. PICK k \in Keys : holds[r] = k
  BY DEF LockInv, ReleaseLock, AbandonLock
<1>2. /\ lock' \in {lock, [lock EXCEPT ![k] = FALSE]}
      /\ holds' = [holds EXCEPT ![r] = NoKey]
      /\ outlived' = [outlived EXCEPT ![k] = IF InProgress(k) = {r} THEN 0 ELSE @]
  BY <1>1 DEF ReleaseLock, AbandonLock, Leave
<1>3. lock' \in [Keys -> BOOLEAN]
  BY <1>2, Zenon DEF LockInv
<1>4. /\ holds' \in [Attempts -> Keys \cup {NoKey}]
      /\ outlived' \in [Keys -> 0..Cardinality(Attempts)]
      /\ outlived'[k] = IF InProgress(k) = {r} THEN 0 ELSE outlived[k]
      /\ \A j \in Keys \ {k} : lock'[j] = lock[j] /\ outlived'[j] = outlived[j]
  <2>1. \A j \in Keys \ {k} : lock'[j] = lock[j] /\ outlived'[j] = outlived[j]
    BY <1>2, Zenon DEF LockInv
  <2>2. (IF InProgress(k) = {r} THEN 0 ELSE outlived[k]) \in 0..Cardinality(Attempts)
    BY ProgressSizes DEF LockInv
  <2>3. QED
    BY <1>2, <2>1, <2>2, Zenon DEF LockInv
<1>5. /\ r \in InProgress(k) /\ InProgress(k)' = InProgress(k) \ {r}
      /\ \A j \in Keys \ {k} : InProgress(j)' = InProgress(j)
  BY <1>1, <1>2, IdemAssumption DEF LockInv, InProgress, IdemAssumption
<1>6. Cardinality(InProgress(k)') = Cardinality(InProgress(k)) - 1
  BY <1>5, ProgressSizes, FS_RemoveElement
<1>7. InProgress(k) = {r} => Cardinality(InProgress(k)') = 0
  BY <1>5, FS_EmptySet
<1>8. ASSUME NEW j \in Keys
      PROVE  Cardinality(InProgress(j)') <= outlived'[j] + (IF lock'[j] THEN 1 ELSE 0)
  <2>1. outlived[j] \in Nat
    BY ProgressSizes DEF LockInv
  <2>2. CASE j = k
    <3>1. Cardinality(InProgress(k)) <= outlived[k] + 1
      BY <2>1, <2>2, ProgressSizes DEF LockInv
    <3>2. Cardinality(InProgress(k)') <= outlived'[k] /\ outlived'[k] \in Nat
      BY <1>4, <1>6, <1>7, <2>1, <2>2, <3>1, ProgressSizes
    <3>3. Cardinality(InProgress(k)') \in Int
      BY <1>6, ProgressSizes
    <3>4. QED
      BY <2>2, <3>2, <3>3
  <2>3. CASE j # k
    BY <1>4, <1>5, <2>3 DEF LockInv
  <2>4. QED
    BY <2>2, <2>3
<1>9. QED
  BY <1>3, <1>4, <1>8 DEF LockInv

(***************************************************************************)
(* An expiry under a request in progress is counted, and one with nobody   *)
(* in progress leaves nobody to overlap with.                              *)
(***************************************************************************)
LEMMA ExpiryKeepsLock ==
    ASSUME LockInv, NEW k \in Keys, LockExpires(k)
    PROVE  LockInv'
<1>1. /\ lock[k] /\ lock' = [lock EXCEPT ![k] = FALSE] /\ holds' = holds
      /\ outlived' = [outlived EXCEPT ![k] =
                        IF InProgress(k) # {} /\ @ < Cardinality(Attempts) THEN @ + 1 ELSE @]
  BY DEF LockExpires
<1>2. lock' \in [Keys -> BOOLEAN]
  BY <1>1, Zenon DEF LockInv
<1>3. /\ outlived' \in [Keys -> 0..Cardinality(Attempts)]
      /\ outlived'[k] = IF InProgress(k) # {} /\ outlived[k] < Cardinality(Attempts)
                        THEN outlived[k] + 1 ELSE outlived[k]
      /\ ~lock'[k] /\ \A j \in Keys \ {k} : lock'[j] = lock[j] /\ outlived'[j] = outlived[j]
  <2>1. ~lock'[k] /\ \A j \in Keys \ {k} : lock'[j] = lock[j] /\ outlived'[j] = outlived[j]
    BY <1>1, Zenon DEF LockInv
  <2>2. (IF InProgress(k) # {} /\ outlived[k] < Cardinality(Attempts)
         THEN outlived[k] + 1 ELSE outlived[k]) \in 0..Cardinality(Attempts)
    BY ProgressSizes DEF LockInv
  <2>3. QED
    BY <1>1, <2>1, <2>2, Zenon DEF LockInv
<1>4. /\ \A j \in Keys : InProgress(j)' = InProgress(j)
      /\ InProgress(k) = {} => Cardinality(InProgress(k)) = 0
  BY <1>1, FS_EmptySet DEF InProgress
<1>5. ASSUME NEW j \in Keys
      PROVE  Cardinality(InProgress(j)') <= outlived'[j] + (IF lock'[j] THEN 1 ELSE 0)
  BY <1>1, <1>3, <1>4, ProgressSizes DEF LockInv
<1>6. QED
  BY <1>1, <1>2, <1>3, <1>5 DEF LockInv

(***************************************************************************)
(* Every command keeps the invariant.                                      *)
(***************************************************************************)
LEMMA StepKeepsLock ==
    ASSUME LockInv, [IdemNext]_idemVars
    PROVE  LockInv'
<1>1. ASSUME UNCHANGED <<lock, holds, outlived>>
      PROVE  LockInv'
  BY <1>1 DEF LockInv, InProgress
<1>2. ASSUME NEW r \in Attempts, StoreResponse(r)
      PROVE  LockInv'
  BY <1>1, <1>2 DEF StoreResponse
<1>3. ASSUME NEW k \in Keys, ReplayExpires(k)
      PROVE  LockInv'
  BY <1>1, <1>3 DEF ReplayExpires
<1>4. CASE UNCHANGED idemVars
  BY <1>1, <1>4 DEF idemVars
<1>5. QED
  BY <1>2, <1>3, <1>4, AcquireKeepsLock, LeaveKeepsLock, ExpiryKeepsLock DEF IdemNext

(***************************************************************************)
(* However long requests are in progress, whoever deletes whose lock and   *)
(* whoever vanishes: requests with one key overlap by no more than the     *)
(* expiries of its lock under them, and not at all without one.            *)
(***************************************************************************)
THEOREM OverlapsNeedExpiries == IdemSpec => []OverlapNeedsExpiry
<1>1. IdemInit => LockInv
  <2> SUFFICES ASSUME IdemInit PROVE LockInv
    OBVIOUS
  <2>1. \A k \in Keys : InProgress(k) = {} /\ Cardinality(InProgress(k)) = 0
    BY IdemAssumption, FS_EmptySet DEF IdemInit, InProgress, IdemAssumption
  <2>2. lock \in [Keys -> BOOLEAN]
    BY Zenon DEF IdemInit
  <2>3. QED
    BY <2>1, <2>2, ProgressSizes DEF IdemInit, LockInv
<1>2. LockInv /\ [IdemNext]_idemVars => LockInv'
  BY StepKeepsLock
<1>3. LockInv => OverlapNeedsExpiry
  BY ProgressSizes DEF LockInv, OverlapNeedsExpiry
<1>4. QED
  BY <1>1, <1>2, <1>3, PTL DEF IdemSpec
=============================================================================
