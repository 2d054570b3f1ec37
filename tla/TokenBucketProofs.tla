------------------------- MODULE TokenBucketProofs -------------------------
(***************************************************************************)
(* Proofs about TokenBucket for every capacity, set of costs, TTL that     *)
(* outlasts a refill, rounding error and horizon.                          *)
(*                                                                         *)
(* WindowBound is not inductive: it says nothing of what is still in the   *)
(* bucket.  Potential does: what was granted and what could be granted now *)
(* stay together under the bound.                                          *)
(***************************************************************************)
EXTENDS TokenBucket, TLAPS

\* What one call may gain by rounding.
Err == TimeErr + TokenErr

\* The stored timestamp is that of the last call, up to rounding.
Stamped == present => touchedAt <= now /\ touchedAt - TimeErr <= updatedAt
                      /\ updatedAt <= touchedAt + TimeErr

Potential == granted + Level <= Capacity + (now - since) + calls * Err

IInv == TypeOK /\ Stamped /\ since <= now /\ Potential

\* The level of the bucket is a number of tokens within its capacity
\* (math.min(capacity, ...) over a refill that math.max keeps from being
\* negative).
LEMMA LevelBounded == ASSUME TypeOK PROVE Level \in 0..Capacity
BY BucketAssumption DEF BucketAssumption, TypeOK, Level, Least, Most

\* By the time the TTL has run out the bucket is full again.
LEMMA FullAtExpiry ==
    ASSUME TypeOK, Stamped, Expire PROVE Level = Capacity
BY BucketAssumption DEF BucketAssumption, TypeOK, Stamped, Expire, Level, Least, Most

\* The budget of rounding grows by Err with each call.
LEMMA OneMoreCall ==
    ASSUME NEW n \in Nat, NEW e \in Nat
    PROVE  /\ n * e \in Nat /\ (n + 1) * e \in Nat
           /\ (n + 1) * e = n * e + e
           /\ 0 * e = 0
OBVIOUS

\* What a run of the script stores is a number of tokens within the capacity,
\* and what it leaves in the bucket up to TokenErr: a call is granted only what
\* is there, and tostring rounds past neither end.
LEMMA StoredTokens ==
    ASSUME TypeOK, NEW cost \in Costs, Check(cost)
    PROVE  \E left \in 0..Capacity :
              /\ left <= (IF Allows(cost) THEN Level - cost ELSE Level) + TokenErr
              /\ tokens' = left
<1>. USE BucketAssumption DEF BucketAssumption
<1>1. Level \in 0..Capacity
  BY LevelBounded
<1>2. PICK exact \in 0..Capacity : exact = IF Allows(cost) THEN Level - cost ELSE Level
  <2>1. (IF Allows(cost) THEN Level - cost ELSE Level) \in 0..Capacity
    BY <1>1 DEF Allows
  <2>. QED
    BY <2>1
<1>3. tokens' \in Rounded(exact)
  BY <1>2, Zenon DEF Check
<1>4. PICK left \in Rounded(exact) : tokens' = left
  BY <1>3
<1>5. left \in 0..Capacity /\ left <= exact + TokenErr
  BY <1>2, <1>4 DEF Rounded
<1>. QED
  BY <1>2, <1>4, <1>5

\* A run of the script keeps its own two fields and the window within their
\* types.
LEMMA CheckTypes ==
    ASSUME TypeOK, NEW cost \in Costs, Check(cost) PROVE TypeOK'
<1>. USE BucketAssumption DEF BucketAssumption
<1>1. present' \in BOOLEAN
  BY Zenon DEF Check
<1>0. tokens' \in 0..Capacity
  BY StoredTokens
<1>2. touchedAt' = now /\ now' = now /\ since' = since
      /\ calls' = calls + 1 /\ calls < MaxCalls
      /\ granted' = granted + (IF Allows(cost) THEN cost ELSE 0)
  BY Zenon DEF Check
<1>3. updatedAt' \in -TimeErr..(Horizon + TimeErr)
  BY DEF Check, TypeOK
<1>4. granted' \in Nat
  BY <1>2 DEF TypeOK
<1>5. touchedAt' \in 0..Horizon /\ now' \in 0..Horizon /\ since' \in 0..Horizon
      /\ calls' \in 0..MaxCalls
  BY <1>2 DEF TypeOK
<1>. QED
  BY <1>0, <1>1, <1>2, <1>3, <1>4, <1>5 DEF TypeOK

\* A run of the script takes what it grants out of the bucket; the rest comes
\* back the same, up to rounding.
LEMMA CheckPays ==
    ASSUME TypeOK, NEW cost \in Costs, Check(cost)
    PROVE  \E paid \in Nat, rest \in Int :
              /\ granted' = granted + paid
              /\ Level' = rest
              /\ paid + rest <= Level + Err
<1>. USE BucketAssumption DEF BucketAssumption
<1>1. Level \in 0..Capacity
  BY LevelBounded
<1>2. PICK paid \in 0..Level : paid = IF Allows(cost) THEN cost ELSE 0
  <2>1. (IF Allows(cost) THEN cost ELSE 0) \in 0..Level
    BY <1>1 DEF Allows
  <2>. QED
    BY <2>1
<1>3. PICK left \in 0..Capacity :
         /\ left <= (IF Allows(cost) THEN Level - cost ELSE Level) + TokenErr
         /\ tokens' = left
  BY StoredTokens
<1>4. left <= Level - paid + TokenErr
  BY <1>1, <1>2, <1>3
<1>5. PICK err \in -TimeErr..TimeErr : updatedAt' = now + err
  BY Zenon DEF Check
<1>6. now' = now /\ present'
  BY Zenon DEF Check
<1>7. Level' = Least(Capacity, left + Most(0, now - (now + err)))
  BY <1>3, <1>5, <1>6, Zenon DEF Level
<1>8. PICK rest \in Int : /\ rest = Least(Capacity, left + Most(0, now - (now + err)))
                         /\ rest <= left + TimeErr
  <2>. DEFINE value == Least(Capacity, left + Most(0, now - (now + err)))
  <2>1. value \in Int /\ value <= left + TimeErr
    BY DEF Least, Most, TypeOK
  <2>. QED
    BY <2>1
<1>9. granted' = granted + paid /\ Level' = rest
  BY <1>2, <1>7, <1>8, Zenon DEF Check
<1>10. paid \in Nat /\ paid + rest <= Level + Err
  BY <1>1, <1>2, <1>3, <1>4, <1>8 DEF Err
<1>. QED
  BY <1>9, <1>10

\* Every step of the bucket preserves the inductive invariant.
LEMMA StepKeepsInvariant == IInv /\ [Next]_vars => IInv'
<1>. SUFFICES ASSUME IInv, [Next]_vars PROVE IInv'
  OBVIOUS
<1>. USE BucketAssumption DEF BucketAssumption
<1>0. TypeOK /\ Stamped /\ since <= now /\ Potential
  BY DEF IInv
<1>e. Err \in Nat
  BY DEF Err
<1>n. calls \in Nat /\ granted \in Nat /\ now \in Nat /\ since \in Nat
  BY <1>0 DEF TypeOK
<1>l. Level \in 0..Capacity
  BY <1>0, LevelBounded
<1>1. ASSUME NEW cost \in Costs, Check(cost) PROVE IInv'
  <2>1. TypeOK'
    BY <1>0, <1>1, CheckTypes
  <2>2. Stamped' /\ (since <= now)'
    BY <1>0, <1>1 DEF Stamped, Check, TypeOK
  <2>3. Potential'
    <3>1. PICK paid \in Nat, rest \in Int : /\ granted' = granted + paid
                                            /\ Level' = rest
                                            /\ paid + rest <= Level + Err
      BY <1>0, <1>1, CheckPays
    <3>2. calls' = calls + 1 /\ now' = now /\ since' = since
      BY <1>1, Zenon DEF Check
    <3>3. (calls + 1) * Err = calls * Err + Err /\ calls * Err \in Nat
      BY <1>e, <1>n, OneMoreCall
    <3>4. (granted + paid) + rest <= Capacity + (now - since) + (calls + 1) * Err
      BY <1>0, <1>e, <1>n, <1>l, <3>1, <3>3 DEF Potential
    <3>. QED
      BY <3>1, <3>2, <3>4, Zenon DEF Potential
  <2>. QED
    BY <2>1, <2>2, <2>3 DEF IInv
<1>2. CASE Expire
  <2>1. Level = Capacity
    BY <1>0, <1>2, FullAtExpiry
  <2>2. ~present' /\ UNCHANGED <<tokens, updatedAt, touchedAt, now, windowVars>>
    BY <1>2, Zenon DEF Expire
  <2>3. present' \in BOOLEAN
    BY <1>2, Zenon DEF Expire
  <2>4. TypeOK'
    BY <1>0, <2>2, <2>3 DEF TypeOK, windowVars
  <2>5. Level' = Capacity
    BY <2>2 DEF Level
  <2>. QED
    BY <1>0, <2>1, <2>2, <2>4, <2>5 DEF IInv, Stamped, Potential, windowVars
<1>3. CASE Tick
  <2>1. now' = now + 1 /\ now < Horizon /\ UNCHANGED <<bucketVars, windowVars>>
    BY <1>3 DEF Tick
  <2>2. TypeOK'
    BY <1>0, <2>1 DEF TypeOK, bucketVars, windowVars
  <2>3. PICK next \in Int : Level' = next /\ next <= Level + 1
    <3>. DEFINE value == IF present
                         THEN Least(Capacity, tokens + Most(0, (now + 1) - updatedAt))
                         ELSE Capacity
    <3>1. value \in Int /\ value <= Level + 1
      BY <1>0 DEF Level, Least, Most, TypeOK
    <3>2. Level' = value
      BY <2>1, Zenon DEF Level, bucketVars
    <3>. QED
      BY <3>1, <3>2, Zenon
  <2>4. calls * Err \in Nat
    BY <1>e, <1>n, OneMoreCall
  <2>5. granted + next <= Capacity + ((now + 1) - since) + calls * Err
    BY <1>0, <1>n, <1>e, <1>l, <2>3, <2>4 DEF Potential
  <2>6. granted' = granted /\ since' = since /\ calls' = calls
    BY <2>1 DEF windowVars
  <2>7. Potential'
    BY <2>1, <2>3, <2>5, <2>6, Zenon DEF Potential
  <2>8. Stamped' /\ (since <= now)'
    BY <1>0, <2>1 DEF Stamped, TypeOK, bucketVars, windowVars
  <2>. QED
    BY <2>2, <2>7, <2>8 DEF IInv
<1>4. CASE Observe
  <2>1. since' = now /\ granted' = 0 /\ calls' = 0 /\ UNCHANGED <<bucketVars, now>>
    BY <1>4 DEF Observe
  <2>2. TypeOK'
    BY <1>0, <2>1 DEF TypeOK, bucketVars
  <2>3. Level' = Level
    BY <2>1 DEF Level, Least, Most, bucketVars
  <2>4. calls' * Err = 0
    BY <1>e, <2>1, OneMoreCall
  <2>5. Potential'
    BY <1>n, <1>l, <2>1, <2>3, <2>4 DEF Potential
  <2>6. Stamped' /\ (since <= now)'
    BY <1>0, <2>1 DEF Stamped, TypeOK, bucketVars
  <2>. QED
    BY <2>2, <2>5, <2>6 DEF IInv
<1>5. CASE UNCHANGED vars
  BY <1>0, <1>5 DEF IInv, TypeOK, Stamped, Potential, Level, Least, Most, Err,
                    vars, bucketVars, windowVars
<1>. QED
  BY <1>1, <1>2, <1>3, <1>4, <1>5 DEF Next

\* The inductive invariant holds throughout.
LEMMA Invariance == Spec => []IInv
<1>1. Init => IInv
  <2>. SUFFICES ASSUME Init PROVE IInv
    OBVIOUS
  <2>. USE BucketAssumption DEF BucketAssumption
  <2>1. present \in BOOLEAN
    BY Zenon DEF Init
  <2>2. Level = Capacity
    BY DEF Init, Level
  <2>3. calls * Err = 0
    BY OneMoreCall DEF Init, Err
  <2>4. TypeOK
    BY <2>1 DEF Init, TypeOK
  <2>. QED
    BY <2>2, <2>3, <2>4 DEF Init, IInv, Stamped, Potential
<1>. QED
  BY <1>1, StepKeepsInvariant, PTL DEF Spec

\* check_token_bucket keeps its bucket well formed: the stored tokens never
\* exceed the capacity nor fall below zero.
THEOREM TypeCorrect == Spec => []TypeOK
<1>1. IInv => TypeOK
  BY DEF IInv
<1>. QED
  BY <1>1, Invariance, PTL

\* In any window the limiter grants at most a full bucket, the refill of the
\* window, and the rounding of each call: over a minute, twice the limit.
THEOREM WindowIsBounded == Spec => []WindowBound
<1>1. IInv => WindowBound
  <2>. SUFFICES ASSUME IInv PROVE WindowBound
    OBVIOUS
  <2>1. Level \in 0..Capacity
    BY LevelBounded DEF IInv
  <2>2. calls * Err \in Nat
    BY OneMoreCall, BucketAssumption DEF BucketAssumption, IInv, TypeOK, Err
  <2>. QED
    BY <2>1, <2>2, BucketAssumption
       DEF BucketAssumption, IInv, TypeOK, Potential, WindowBound, Err
<1>. QED
  BY <1>1, Invariance, PTL

\* The TTL of the bucket's key is long enough: a bucket whose key expires is
\* full.
THEOREM ExpiryIsHarmless == Spec => ExpiryGivesNothing
<1>1. IInv /\ [Next]_vars => [present /\ ~present' => Level = Capacity]_vars
  <2>. SUFFICES ASSUME IInv, Next, present, ~present' PROVE Level = Capacity
    BY DEF vars, bucketVars
  <2>1. Expire
    BY Zenon DEF Next, Check, Tick, Observe, bucketVars
  <2>. QED
    BY <2>1, FullAtExpiry DEF IInv
<1>. QED
  BY <1>1, Invariance, PTL DEF Spec, ExpiryGivesNothing
=============================================================================
