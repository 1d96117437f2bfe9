\* Competing deactivations, revocations and a grant of the role.
CONSTANTS
    User = {u1, u2, u3}
    Assignment = {a1, a2, a3}
    Transaction = {r1, r2, r3}
    NoUser = NoUser
    MaxGrants = 1
SPECIFICATION RetentionSpec
SYMMETRY Symmetry
INVARIANTS LostOnlyToGrantRace
CHECK_DEADLOCK FALSE
