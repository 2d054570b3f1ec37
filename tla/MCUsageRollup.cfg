\* Two records over a day of two hours; two runs at a time, one of them extra.
CONSTANTS
    t1 = t1
    r1 = r1
    r2 = r2
    Tenants = {t1, t2}
    Records = {r1, r2}
    Owner <- RecordOwner
    Jobs = {j1, j2}
    HoursPerDay = 2
    MaxHour = 2
    MaxExtra = 1
    NoHour = NoHour
    NoJob = NoJob
SPECIFICATION FairSpec
INVARIANTS RowIsExact
PROPERTIES CountedInTheEnd
