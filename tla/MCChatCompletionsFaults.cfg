\* Requests vanish at any await, exceptions nobody handles, streams that end early,
\* and every key in Redis expires.
CONSTANTS
    Requests = {r1, r2}
    Keys = {k1}
    Prompts = {p1}
    Limit = 1
    CacheEnabled = TRUE
    PiiFound = {TRUE}
    Verdicts = {"detected", "blocked"}
    Faults = {"vanish", "unexpected", "early_end", "cache_ttl", "replay_ttl", "slot_ttl"}
    NoKey = NoKey
    NoResponse = NoResponse
SPECIFICATION FairSpec
INVARIANTS ReplayWasBilled OnlyErrorsLeak DuplicatesNeedExpiry
PROPERTIES EveryRequestEnds
