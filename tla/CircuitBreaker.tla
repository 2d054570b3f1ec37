--------------------------- MODULE CircuitBreaker ---------------------------
(***************************************************************************)
(* The per-provider circuit breaker (providers/circuit_breaker.py).  Each  *)
(* method body runs under an asyncio.Lock and never awaits inside it, so   *)
(* each method is one atomic action here.                                  *)
(*                                                                         *)
(* Two data abstractions, both exact because of how the code reads the     *)
(* values.  _failure_count is only ever compared with >= to the threshold, *)
(* so it saturates there.  _opened_at is only ever read through            *)
(* "now - _opened_at >= recovery_timeout", so the model keeps the elapsed  *)
(* time openAge, saturating at RecoveryTimeout.                            *)
(***************************************************************************)
EXTENDS Integers

CONSTANTS
    FailureThreshold,  \* failures in a row that open the circuit
    RecoveryTimeout    \* clock ticks before an open circuit admits a probe

ASSUME BreakerAssumption ==
    /\ FailureThreshold \in Nat \ {0}
    /\ RecoveryTimeout \in Nat

VARIABLES
    state,          \* _state
    failureCount,   \* _failure_count, saturating
    openAge,        \* time since _opened_at, or NotOpened for None
    probeInFlight   \* _half_open_probe_in_flight

breakerVars == <<state, failureCount, openAge, probeInFlight>>

States == {"closed", "open", "half_open"}

NotOpened == -1

BreakerTypeOK ==
    /\ state \in States
    /\ failureCount \in 0..FailureThreshold
    /\ openAge \in NotOpened..RecoveryTimeout
    /\ probeInFlight \in BOOLEAN

BreakerInit ==
    /\ state = "closed"
    /\ failureCount = 0
    /\ openAge = NotOpened
    /\ probeInFlight = FALSE

-----------------------------------------------------------------------------
\* Admission forgets that a half-open circuit already has its probe.
AdmitsSecondProbe ==
    \/ state \in {"closed", "half_open"}
    \/ state = "open" /\ openAge >= RecoveryTimeout

\* before_call returns instead of raising CircuitOpenError.
Admits ==
    \/ state = "closed"
    \/ state = "open" /\ openAge >= RecoveryTimeout
    \/ state = "half_open" /\ ~probeInFlight

\* before_call on the admitting path.  The raising path changes nothing.
BeforeCall ==
    /\ Admits
    /\ state' = IF state = "open" THEN "half_open" ELSE state
    /\ probeInFlight' = (probeInFlight \/ state # "closed")
    /\ UNCHANGED <<failureCount, openAge>>

\* The probe flag survives a success.
RecordSuccessKeepsFlag ==
    /\ state' = "closed"
    /\ failureCount' = 0
    /\ openAge' = NotOpened
    /\ UNCHANGED probeInFlight

\* A success clears the count and the flag but does not close the circuit.
RecordSuccessStaysOpen ==
    /\ failureCount' = 0
    /\ probeInFlight' = FALSE
    /\ UNCHANGED <<state, openAge>>

RecordSuccess ==
    /\ state' = "closed"
    /\ failureCount' = 0
    /\ openAge' = NotOpened
    /\ probeInFlight' = FALSE

\* A failure in HALF_OPEN only counts, it does not reopen the circuit.
RecordFailureForgetsHalfOpen ==
    LET count == IF failureCount < FailureThreshold
                 THEN failureCount + 1 ELSE FailureThreshold
        trips == state # "half_open" /\ count >= FailureThreshold
    IN  /\ probeInFlight' = FALSE
        /\ failureCount' = count
        /\ state' = IF trips THEN "open" ELSE state
        /\ openAge' = IF trips THEN 0 ELSE openAge

RecordFailure ==
    LET count == IF failureCount < FailureThreshold
                 THEN failureCount + 1 ELSE FailureThreshold
        trips == state = "half_open" \/ count >= FailureThreshold
    IN  /\ probeInFlight' = FALSE
        /\ failureCount' = count
        /\ state' = IF trips THEN "open" ELSE state
        /\ openAge' = IF trips THEN 0 ELSE openAge

\* time.monotonic() advances; only the age of an opened circuit matters.
Elapse ==
    /\ openAge # NotOpened
    /\ openAge < RecoveryTimeout
    /\ openAge' = openAge + 1
    /\ UNCHANGED <<state, failureCount, probeInFlight>>

-----------------------------------------------------------------------------
(***************************************************************************)
(* How the four fields hang together whatever calls overlap: a circuit     *)
(* that is not CLOSED has seen FailureThreshold failures, it carries the   *)
(* opening time that before_call asserts to be present, and the probe flag *)
(* is up exactly in HALF_OPEN (so the second assignment of the flag in     *)
(* before_call is never reached, and the HALF_OPEN test of record_failure  *)
(* never decides anything the threshold does not).                         *)
(***************************************************************************)
BreakerConsistent ==
    /\ state # "closed" => failureCount = FailureThreshold
    /\ state # "closed" <=> openAge # NotOpened
    /\ probeInFlight <=> state = "half_open"
=============================================================================
