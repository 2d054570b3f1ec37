---------------------------- MODULE ProviderCall ----------------------------
(***************************************************************************)
(* Calls of one provider adapter: OpenAICompatibleProvider._run_with_      *)
(* breaker around call_with_retry, for chat_completion and for the connect *)
(* phase of stream_chat_completion alike.  Concurrent requests share one   *)
(* breaker.  A call that before_call refuses raises CircuitOpenError and   *)
(* changes nothing, so it is a stuttering step.                            *)
(*                                                                         *)
(* The answer of an attempt and the breaker's record of it are one step:   *)
(* the code between them does not suspend.                                 *)
(***************************************************************************)
EXTENDS CircuitBreaker, FiniteSets

CONSTANTS
    Calls,        \* concurrent calls of the provider
    MaxAttempts,  \* max_attempts of call_with_retry
    Failures      \* the ways an attempt may fail

\* retryable: timeout, connect error or a status in RETRYABLE_STATUS_CODES.
\* rejected:  any other UpstreamStatusError, recorded but not retried: the 4xx
\*            with which a healthy upstream answers a bad request included.
\* other:     any other exception (httpx.ReadError, RemoteProtocolError, a
\*            body that is not JSON, the cancellation when the client goes
\*            away): neither retried nor recorded by _run_with_breaker.
FailureKinds == {"retryable", "rejected", "other"}

ASSUME CallAssumption ==
    /\ MaxAttempts \in Nat \ {0}
    /\ Failures \subseteq FailureKinds

VARIABLES
    phase,    \* where each call is
    attempt,  \* the attempt number of call_with_retry
    probing,  \* history: the call was admitted by a circuit not CLOSED
    gauge     \* the aegis_provider_circuit_breaker_state metric

callVars == <<phase, attempt, probing, gauge>>
vars == <<breakerVars, callVars>>

TypeOK ==
    /\ BreakerTypeOK
    /\ phase \in [Calls -> {"idle", "sending", "backoff"}]
    /\ attempt \in [Calls -> 0..MaxAttempts]
    /\ probing \in [Calls -> BOOLEAN]
    /\ gauge \in States \cup {"unset"}

Init ==
    /\ BreakerInit
    /\ phase = [c \in Calls |-> "idle"]
    /\ attempt = [c \in Calls |-> 0]
    /\ probing = [c \in Calls |-> FALSE]
    /\ gauge = "unset"

InFlight == {c \in Calls : phase[c] # "idle"}

-----------------------------------------------------------------------------
\* The call leaves _run_with_breaker.
Return(c) ==
    /\ phase' = [phase EXCEPT ![c] = "idle"]
    /\ attempt' = [attempt EXCEPT ![c] = 0]
    /\ probing' = [probing EXCEPT ![c] = FALSE]

\* before_call admits the call and the first attempt is sent.
Start(c) ==
    /\ phase[c] = "idle"
    /\ BeforeCall
    /\ phase' = [phase EXCEPT ![c] = "sending"]
    /\ attempt' = [attempt EXCEPT ![c] = 1]
    /\ probing' = [probing EXCEPT ![c] = state # "closed"]
    /\ UNCHANGED gauge

Succeed(c) ==
    /\ phase[c] = "sending"
    /\ RecordSuccess
    /\ gauge' = state'
    /\ Return(c)

\* A failed attempt is retried however many there were.
BackoffUnbounded(c) ==
    /\ "retryable" \in Failures
    /\ phase[c] = "sending"
    /\ phase' = [phase EXCEPT ![c] = "backoff"]
    /\ UNCHANGED <<breakerVars, attempt, probing, gauge>>

\* An attempt fails with an exception _is_retryable accepts, attempts remain.
Backoff(c) ==
    /\ "retryable" \in Failures
    /\ phase[c] = "sending"
    /\ attempt[c] < MaxAttempts
    /\ phase' = [phase EXCEPT ![c] = "backoff"]
    /\ UNCHANGED <<breakerVars, attempt, probing, gauge>>

\* The jittered sleep is over.
Resend(c) ==
    /\ phase[c] = "backoff"
    /\ phase' = [phase EXCEPT ![c] = "sending"]
    /\ attempt' = [attempt EXCEPT ![c] = @ + 1]
    /\ UNCHANGED <<breakerVars, probing, gauge>>

\* The metric is not refreshed when a failure is recorded.
FailWithoutGauge(c) ==
    /\ phase[c] = "sending"
    /\ \/ "rejected" \in Failures
       \/ "retryable" \in Failures /\ attempt[c] = MaxAttempts
    /\ RecordFailure
    /\ Return(c)
    /\ UNCHANGED gauge

\* The last attempt fails, or an attempt fails with a status not retried.
Fail(c) ==
    /\ phase[c] = "sending"
    /\ \/ "rejected" \in Failures
       \/ "retryable" \in Failures /\ attempt[c] = MaxAttempts
    /\ RecordFailure
    /\ gauge' = state'
    /\ Return(c)

\* An exception none of the except clauses names, at the await of the attempt
\* or (a cancellation) at the sleep between two attempts.
Drop(c) ==
    /\ "other" \in Failures
    /\ phase[c] # "idle"
    /\ Return(c)
    /\ UNCHANGED <<breakerVars, gauge>>

Clock == Elapse /\ UNCHANGED callVars

Next ==
    \/ \E c \in Calls : \/ Start(c) \/ Succeed(c) \/ Backoff(c)
                        \/ Resend(c) \/ Fail(c) \/ Drop(c)
    \/ Clock

Spec == Init /\ [][Next]_vars

\* The attempt of a call comes to an end, whichever.
Answer(c) == Succeed(c) \/ Backoff(c) \/ Fail(c) \/ Drop(c)

\* Attempts end: httpx gives every connect, every write and every wait for
\* more of the response 30 s, and an upstream that trickles its answer for
\* ever is left out.  Sleeps end, the clock advances, requests keep arriving.
Fairness ==
    /\ \A c \in Calls : WF_vars(Answer(c)) /\ WF_vars(Resend(c))
    /\ WF_vars(Clock)
    /\ WF_vars(\E c \in Calls : Start(c))

FairSpec == Spec /\ Fairness

-----------------------------------------------------------------------------
(***************************************************************************)
(* While the circuit is not CLOSED the set of calls in flight grows only   *)
(* by the one call that turns OPEN into HALF_OPEN: everyone else fails     *)
(* fast, whatever the earlier calls do meanwhile.                          *)
(***************************************************************************)
TrippedAdmitsOnlyProbe ==
    [][ state # "closed" /\ ~(InFlight' \subseteq InFlight)
        => state = "open" /\ openAge = RecoveryTimeout /\ state' = "half_open"
      ]_vars

(***************************************************************************)
(* The exported metric is the state, except that a circuit which went from *)
(* OPEN to HALF_OPEN still shows as open: set_circuit_breaker_state is     *)
(* called after record_success and record_failure only.                    *)
(***************************************************************************)
GaugeLagsOnlyHalfOpen ==
    \/ gauge = state
    \/ gauge = "unset" /\ state = "closed"
    \/ gauge = "open" /\ state = "half_open"

\* The circuit waits for a probe that ended without being recorded.
Wedged == state = "half_open" /\ \A c \in Calls : ~probing[c]

(***************************************************************************)
(* The docstring's "HALF_OPEN ... -> CLOSED on success or back to OPEN on  *)
(* failure": a HALF_OPEN circuit leaves that state, with one exception.    *)
(* If its probe ends in an exception that none of the except clauses of    *)
(* _run_with_breaker names, nobody resolves it.                            *)
(***************************************************************************)
HalfOpenResolves == state = "half_open" ~> state # "half_open" \/ Wedged

(***************************************************************************)
(* The circuit closes for good once calls stop failing: in the end it is   *)
(* CLOSED (or wedged by a probe whose outcome was not recorded), unless    *)
(* calls fail or are dropped again and again.  Earlier failures, those     *)
(* still in flight when the upstream recovers included, do not hold it     *)
(* open.  A recovered upstream alone is not enough: it still answers a bad *)
(* request with a 4xx, which is recorded as a failure, and a client that   *)
(* goes away takes its probe with it.                                      *)
(***************************************************************************)
ClosesOnceServed ==
    \/ <>[](state = "closed" \/ Wedged)
    \/ []<><<\E c \in Calls : Fail(c) \/ Drop(c)>>_vars
=============================================================================
