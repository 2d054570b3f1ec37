\* Traffic may outlast the key's TTL; requests vanish anywhere.
CONSTANTS
    Requests = {r1, r2, r3, r4, r5}
    Limit = 3
    ExpiresUnderHolders = TRUE
    LossPoints = {"expiring", "over", "held"}
    MaxLeaks = 2
SPECIFICATION SlotFairSpec
INVARIANTS CountCoversBusy ConcurrencyCap
PROPERTIES LeakHeals
