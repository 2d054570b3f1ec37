\* Scan after scan, one of which may die, over the turn of a month.
CONSTANTS
    t1 = t1
    t2 = t2
    free = free
    Tenants = {t1, t2, free}
    Budget <- Budgets
    Costs = {4}
    Scanners = {w1}
    MaxSpend = 4
    LastMonth = 2
    MaxCrashes = 1
SPECIFICATION FairSpec
INVARIANTS AlertOnce AlertIsTrue QuietScanIsComplete
PROPERTIES CrossingIsAlerted
