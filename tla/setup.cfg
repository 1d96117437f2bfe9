\* The set-up of a client contact login.
CONSTANTS
    User = {u1}
    Session = {s1}
    Token = {t1}
    ResetToken = {k1, k2}
    Request = {r1, r2}
    None = None
    RefreshTtl = 1
    AbsoluteTtl = 2
    ResetTtl = 1
    MaxTime = 1
    MaxWrites = 3
SPECIFICATION MCSpec


CHECK_DEADLOCK FALSE
PROPERTIES SetupIssuesToken
