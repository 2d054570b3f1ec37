\* Locks expire and requests vanish at any time.
CONSTANTS
    Attempts = {r1, r2, r3}
    Keys = {k1, k2}
    NoKey = NoKey
    NoResponse = NoResponse
    ReplayMayExpire = TRUE
SPECIFICATION IdemFairSpec
INVARIANTS OverlapNeedsExpiry
 
