--------------------------- MODULE MCTenantAccess ---------------------------
EXTENDS TenantAccess, TLC

CONSTANTS t1, t2, k1, k2, c1, a1, a2, a3

MCTenants == {t1, t2}
MCKeys == {k1, k2}
MCOldTenants == {t1}
MCOldKeys == {k1}
MCOldOwner == k1 :> t1
MCCallers == {c1}
MCAdmins == {a1, a2, a3}

\* Off and on again, the other column, both, and a body that sets nothing.
MCPayloads ==
    {"is_active" :> FALSE, "is_active" :> TRUE, "cache_enabled" :> FALSE,
     [f \in Columns |-> FALSE], NoChange}

MCSymmetry == Permutations(MCAdmins)
=============================================================================
