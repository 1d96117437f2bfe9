\* Three contacts and one request at a time, or two contacts and two requests.
CONSTANTS
    k1 = k1
    k2 = k2
    c1 = c1
    c2 = c2
    c3 = c3
    u1 = u1
    u2 = u2
    Client = {k1, k2}
    Contact = {c1, c2, c3}
    User = {u1, u2}
    ClientOf <- MCClientOf
    Owner <- MCOwner
    Request = {r1, r2}
    None = None
SPECIFICATION MCSpec
SYMMETRY Symmetry
INVARIANTS RoleIsAccessAlone OneProfilePerContact ExactlyOneDefault PrimaryIsActive
CHECK_DEADLOCK FALSE
