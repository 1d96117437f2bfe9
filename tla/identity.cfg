\* Sessions with administration, with authentication, and with recovery.
CONSTANTS
    User = {u1}
    Session = {s1, s2}
    Token = {t1, t2, t3}
    ResetToken = {k1, k2}
    Request = {r1, r2}
    None = None
    RefreshTtl = 2
    AbsoluteTtl = 3
    ResetTtl = 1
    MaxTime = 2
    MaxWrites = 3
SPECIFICATION MCSpec
SYMMETRY Symmetry
INVARIANTS TypeOK LiveSessionsAreCurrent SnapshotsSeeLiveSessions ReplayRevokes AdmittedWasInForce AtMostOneUnusedResetToken
CHECK_DEADLOCK FALSE
PROPERTIES FamilySpec PasswordChangeIsAuthorized
