\* A minute of five ticks, rounding of up to a tick, two expiries of the key.
CONSTANTS
    Capacity = 5
    Costs = {0, 1, 5, 6}
    KeyTtl = 6
    TimeErr = 1
    TokenErr = 1
    Horizon = 13
    MaxCalls = 3

SPECIFICATION Spec
INVARIANTS TypeOK WindowBound
PROPERTIES ExpiryGivesNothing
