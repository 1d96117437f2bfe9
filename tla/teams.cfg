\* One request at a time, or two that interleave.
CONSTANTS
    m1 = m1
    Division = {d1, d2}
    Member = {m1, m2}
    Team = {t1, t2}
    Deletable = {m1}
    None = None
    Row = {x1, x2, x3}
    Request = {r1, r2}
SPECIFICATION MCSpec
SYMMETRY Symmetry
INVARIANTS LinksFollowDivisionAlone DuplicatesNeedOverlap NoDanglingLink
PROPERTY HistoryKept
CHECK_DEADLOCK FALSE
