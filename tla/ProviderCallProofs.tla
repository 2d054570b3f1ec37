------------------------- MODULE ProviderCallProofs -------------------------
(***************************************************************************)
(* Proofs about ProviderCall for any number of overlapping calls, any      *)
(* threshold, recovery timeout and retry budget, and any set of failures.  *)
(***************************************************************************)
EXTENDS ProviderCall, TLAPS

USE BreakerAssumption, CallAssumption DEF BreakerAssumption, CallAssumption

\* A call that sleeps before another attempt has an attempt left.
AttemptsLeft == \A c \in Calls : phase[c] = "backoff" => attempt[c] < MaxAttempts

\* The inductive invariant.
IInv == TypeOK /\ AttemptsLeft /\ BreakerConsistent

(***************************************************************************)
(* The methods of CircuitBreaker keep its fields typed and consistent,     *)
(* whoever calls them and in whatever order.                               *)
(***************************************************************************)
LEMMA BreakerStep ==
    ASSUME BreakerTypeOK, BreakerConsistent,
           BeforeCall \/ RecordSuccess \/ RecordFailure \/ Elapse
                      \/ UNCHANGED breakerVars
    PROVE  BreakerTypeOK' /\ BreakerConsistent'
<1> USE DEF BreakerTypeOK, BreakerConsistent, States, NotOpened
<1>1. CASE BeforeCall
  BY <1>1 DEF BeforeCall, Admits
<1>2. CASE RecordSuccess
  <2>1. /\ state' = "closed"
        /\ failureCount' \in 0..FailureThreshold
        /\ openAge' = NotOpened /\ openAge' \in NotOpened..RecoveryTimeout
    BY <1>2 DEF RecordSuccess
  <2>2. probeInFlight' \in BOOLEAN /\ ~probeInFlight'
    BY <1>2, Zenon DEF RecordSuccess
  <2>3. QED
    BY <2>1, <2>2
<1>3. CASE RecordFailure
  <2>1. /\ failureCount' \in 0..FailureThreshold
        /\ openAge' \in NotOpened..RecoveryTimeout
        /\ state' \in {"closed", "open"}
        /\ state' # "closed" => failureCount' = FailureThreshold
        /\ state' # "closed" <=> openAge' # NotOpened
    BY <1>3 DEF RecordFailure
  <2>2. probeInFlight' \in BOOLEAN /\ ~probeInFlight'
    BY <1>3, Zenon DEF RecordFailure
  <2>3. QED
    BY <2>1, <2>2
<1>4. CASE Elapse
  BY <1>4 DEF Elapse
<1>5. CASE UNCHANGED breakerVars
  BY <1>5 DEF breakerVars
<1>6. QED
  BY <1>1, <1>2, <1>3, <1>4, <1>5

(***************************************************************************)
(* What any step does to the breaker: one of its methods, or nothing.      *)
(***************************************************************************)
LEMMA NextIsBreakerStep ==
    ASSUME [Next]_vars
    PROVE  BeforeCall \/ RecordSuccess \/ RecordFailure \/ Elapse
                      \/ UNCHANGED breakerVars
  BY DEF Next, vars, Start, Succeed, Backoff, Resend, Fail, Drop, Clock,
         breakerVars

(***************************************************************************)
(* The variables of the calls stay typed, and call_with_retry never counts *)
(* past max_attempts.                                                      *)
(***************************************************************************)
LEMMA CallsStep ==
    ASSUME TypeOK, AttemptsLeft, [Next]_vars, BreakerTypeOK'
    PROVE  TypeOK' /\ AttemptsLeft'
<1> USE DEF TypeOK, AttemptsLeft
<1>1. ASSUME NEW c \in Calls, Start(c)
      PROVE  TypeOK' /\ AttemptsLeft'
  <2>1. (state # "closed") \in BOOLEAN
    OBVIOUS
  <2>2. probing' \in [Calls -> BOOLEAN]
    BY <1>1, <2>1, Zenon DEF Start
  <2>3. QED
    BY <1>1, <2>2 DEF Start
<1>2. ASSUME NEW c \in Calls, Succeed(c) \/ Fail(c)
      PROVE  TypeOK' /\ AttemptsLeft'
  <2>1. probing' \in [Calls -> BOOLEAN]
    BY <1>2, Zenon DEF Succeed, Fail, Return
  <2>2. QED
    BY <1>2, <2>1 DEF Succeed, Fail, Return, BreakerTypeOK
<1>3. ASSUME NEW c \in Calls, Backoff(c)
      PROVE  TypeOK' /\ AttemptsLeft'
  BY <1>3 DEF Backoff
<1>4. ASSUME NEW c \in Calls, Resend(c)
      PROVE  TypeOK' /\ AttemptsLeft'
  <2>1. attempt[c] + 1 \in 0..MaxAttempts
    BY <1>4 DEF Resend
  <2>2. QED
    BY <1>4, <2>1 DEF Resend
<1>5. ASSUME NEW c \in Calls, Drop(c)
      PROVE  TypeOK' /\ AttemptsLeft'
  <2>1. probing' \in [Calls -> BOOLEAN]
    BY <1>5, Zenon DEF Drop, Return
  <2>2. QED
    BY <1>5, <2>1 DEF Drop, Return
<1>6. CASE Clock
  BY <1>6 DEF Clock, callVars
<1>7. CASE UNCHANGED vars
  BY <1>7 DEF vars, callVars
<1>8. QED
  BY <1>1, <1>2, <1>3, <1>4, <1>5, <1>6, <1>7 DEF Next

(***************************************************************************)
(* The inductive invariant holds in every reachable state.                 *)
(***************************************************************************)
LEMMA Invariance == Spec => []IInv
<1>1. Init => IInv
  <2> SUFFICES ASSUME Init PROVE IInv
    OBVIOUS
  <2>1. BreakerTypeOK /\ BreakerConsistent
    <3>1. /\ state = "closed" /\ failureCount \in 0..FailureThreshold
          /\ openAge = NotOpened /\ openAge \in NotOpened..RecoveryTimeout
      BY DEF Init, BreakerInit, NotOpened
    <3>2. probeInFlight \in BOOLEAN /\ ~probeInFlight
      BY Zenon DEF Init, BreakerInit
    <3>3. QED
      BY <3>1, <3>2 DEF BreakerTypeOK, BreakerConsistent, States
  <2>2. probing \in [Calls -> BOOLEAN] 
    BY Zenon DEF Init
  <2>3. AttemptsLeft
    BY DEF Init, AttemptsLeft
  <2>4. QED
    BY <2>1, <2>2, <2>3 DEF Init, IInv, TypeOK
<1>2. IInv /\ [Next]_vars => IInv'
  <2> SUFFICES ASSUME IInv, [Next]_vars PROVE IInv'
    OBVIOUS
  <2>1. BreakerTypeOK' /\ BreakerConsistent'
    BY BreakerStep, NextIsBreakerStep DEF IInv, TypeOK
  <2>2. TypeOK' /\ AttemptsLeft'
    BY <2>1, CallsStep DEF IInv
  <2>3. QED
    BY <2>1, <2>2 DEF IInv
<1>3. QED
  BY <1>1, <1>2, PTL DEF Spec

(***************************************************************************)
(* Type correctness of the breaker and of the calls through it.            *)
(***************************************************************************)
THEOREM TypeCorrect == Spec => []TypeOK
<1>1. IInv => TypeOK
  BY DEF IInv
<1>2. QED
  BY <1>1, Invariance, PTL

(***************************************************************************)
(* However calls overlap, and whether or not their outcome is recorded,    *)
(* the breaker's four fields stay consistent; in particular the assertion  *)
(* of before_call ("_opened_at is not None" in OPEN) never fails.          *)
(***************************************************************************)
THEOREM BreakerStaysConsistent == Spec => []BreakerConsistent
<1>1. IInv => BreakerConsistent
  BY DEF IInv
<1>2. QED
  BY <1>1, Invariance, PTL

(***************************************************************************)
(* A tripped circuit admits nobody but the call that makes it HALF_OPEN.   *)
(***************************************************************************)
THEOREM TrippedAdmits == Spec => TrippedAdmitsOnlyProbe
<1> DEFINE P == state # "closed" /\ ~(InFlight' \subseteq InFlight)
                => state = "open" /\ openAge = RecoveryTimeout
                   /\ state' = "half_open"
<1>1. IInv /\ [Next]_vars => [P]_vars
  <2> SUFFICES ASSUME IInv, Next, state # "closed", ~(InFlight' \subseteq InFlight)
               PROVE  state = "open" /\ openAge = RecoveryTimeout
                      /\ state' = "half_open"
    OBVIOUS
  <2> USE DEF IInv, TypeOK, InFlight
  <2>1. ASSUME NEW c \in Calls, Start(c)
        PROVE  state = "open" /\ openAge = RecoveryTimeout /\ state' = "half_open"
    BY <2>1 DEF Start, BeforeCall, Admits, BreakerConsistent, BreakerTypeOK,
                States, NotOpened
  <2>2. ASSUME NEW c \in Calls,
               Succeed(c) \/ Backoff(c) \/ Resend(c) \/ Fail(c) \/ Drop(c)
        PROVE  FALSE
    BY <2>2 DEF Succeed, Backoff, Resend, Fail, Drop, Return
  <2>3. CASE Clock
    BY <2>3 DEF Clock, callVars
  <2>4. QED
    BY <2>1, <2>2, <2>3 DEF Next
<1>2. QED
  BY <1>1, Invariance, PTL DEF Spec, TrippedAdmitsOnlyProbe

(***************************************************************************)
(* The aegis_provider_circuit_breaker_state metric is set after            *)
(* record_success and record_failure only; before_call is the one method   *)
(* that changes the state without it, and only from OPEN to HALF_OPEN.     *)
(***************************************************************************)
THEOREM GaugeLags == Spec => []GaugeLagsOnlyHalfOpen
<1>1. Init => GaugeLagsOnlyHalfOpen
  BY DEF Init, BreakerInit, GaugeLagsOnlyHalfOpen
<1>2. IInv /\ GaugeLagsOnlyHalfOpen /\ [Next]_vars => GaugeLagsOnlyHalfOpen'
  <2> SUFFICES ASSUME IInv, GaugeLagsOnlyHalfOpen, [Next]_vars PROVE GaugeLagsOnlyHalfOpen'
    OBVIOUS
  <2> USE DEF GaugeLagsOnlyHalfOpen
  <2>1. ASSUME NEW c \in Calls, Start(c) PROVE GaugeLagsOnlyHalfOpen'
    BY <2>1 DEF Start, BeforeCall
  <2>2. ASSUME NEW c \in Calls, Succeed(c) \/ Fail(c) PROVE GaugeLagsOnlyHalfOpen'
    BY <2>2 DEF Succeed, Fail
  <2>3. ASSUME state' = state, gauge' = gauge PROVE GaugeLagsOnlyHalfOpen'
    BY <2>3
  <2>4. ASSUME NEW c \in Calls, Backoff(c) \/ Resend(c) \/ Drop(c) PROVE GaugeLagsOnlyHalfOpen'
    BY <2>3, <2>4 DEF Backoff, Resend, Drop, breakerVars
  <2>5. CASE Clock \/ UNCHANGED vars
    BY <2>3, <2>5 DEF Clock, Elapse, callVars, vars, breakerVars
  <2>6. QED
    BY <2>1, <2>2, <2>4, <2>5 DEF Next
<1>3. QED
  BY <1>1, <1>2, Invariance, PTL DEF Spec
=============================================================================
