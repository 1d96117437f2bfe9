\* A grant races two deactivations; a revocation may take part as well.
CONSTANTS
    User = {u1, u2, u3}
    Assignment = {a1, a2, a3}
    Transaction = {r1, r2, r3}
    NoUser = NoUser
    MaxGrants = 1
SPECIFICATION RetentionSpec
SYMMETRY Symmetry
INVARIANTS AdminRetained
CHECK_DEADLOCK FALSE
