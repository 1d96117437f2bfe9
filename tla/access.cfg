SPECIFICATION MCSpec
CONSTANTS
    User = {u1, u2}
    Member = {m1, m2}
    Role = {lead, other}
    LeadRole = lead
    Profile = {p1, p2, p3}
    Request = {r1, r2}
    MaxRows = 5
    None = None
    Absent = Absent
    Deleted = Deleted
SYMMETRY Symmetry
INVARIANTS ProfileFollowsMember GrantHasProfile SoleDefault RoleOnlyOnce LeadHasProfile
PROPERTIES DefaultKept LinkKept
CHECK_DEADLOCK FALSE
