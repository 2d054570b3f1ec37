\* Every path the code handles: no request vanishes, no unexpected exception.
CONSTANTS
    Requests = {r1, r2, r3}
    Keys = {k1}
    Prompts = {p1}
    Limit = 2
    CacheEnabled = TRUE
    PiiFound = {FALSE}
    Verdicts = {"clean", "blocked"}
    Faults = {}
    NoKey = NoKey
    NoResponse = NoResponse
SPECIFICATION Spec
SYMMETRY RequestSymmetry
INVARIANTS TypeOK NothingLeaks BilledIffServed CacheIsComplete
           LateDuplicateIsReplayed BlockedGoesNowhere
PROPERTIES ConflictIsTruthful
