\* Assignments, revocations and deletions that race.
CONSTANTS
    Division = {d1, d2}
    Member = {m1, m2, m3}
    User = {u1, u2}
    Row = {x1, x2, x3}
    Request = {r1, r2}
    Linked = {m1, m2}
    None = None
SPECIFICATION Spec
SYMMETRY Symmetry
PROPERTIES RegisterSpec TenureKept
CHECK_DEADLOCK FALSE
