\* A stream that ends in anything but a ProviderError.
CONSTANTS
    Requests = {r1}
    Keys = {k1}
    Prompts = {p1}
    Limit = 1
    CacheEnabled = TRUE
    PiiFound = {FALSE}
    Verdicts = {"clean"}
    Faults = {"unexpected"}
    NoKey = NoKey
    NoResponse = NoResponse
SPECIFICATION Spec
INVARIANTS CacheIsComplete
