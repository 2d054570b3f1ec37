SPECIFICATION Spec
CONSTANTS
    t1 = t1
    t2 = t2
    k1 = k1
    k2 = k2
    c1 = c1
    a1 = a1
    a2 = a2
    a3 = a3
    Absent = Absent
    Unset = Unset
    Bypass = Bypass
    Tenants <- MCTenants
    Keys <- MCKeys
    OldTenants <- MCOldTenants
    OldKeys <- MCOldKeys
    OldOwner <- MCOldOwner
    Callers <- MCCallers
    Admins <- MCAdmins
    Payloads <- MCPayloads
SYMMETRY MCSymmetry
INVARIANTS
    AdmittedWasEntitled
    RefusalIsTruthful
    ContextAlwaysFits
    AuditMatchesKeys
    FieldFollowsAudit
