\* Overlapping calls, every kind of failure.
CONSTANTS
    FailureThreshold = 2
    RecoveryTimeout = 2
    MaxAttempts = 2
    Calls = {c1, c2, c3}
    Failures = {"retryable", "rejected", "other"}
SPECIFICATION FairSpec
INVARIANTS TypeOK BreakerConsistent GaugeLagsOnlyHalfOpen
PROPERTIES TrippedAdmitsOnlyProbe HalfOpenResolves ClosesOnceServed
\* A half-open circuit whose probe ended unrecorded admits nobody for ever.
CHECK_DEADLOCK FALSE
