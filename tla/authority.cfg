SPECIFICATION MCSpec
CONSTANTS
    boss = boss
    ann = ann
    east = east
    west = west
    None = None
    Gone = Gone
    r1 = r1
    r2 = r2
    Request = {r1, r2}
    Member = {boss, ann}
    Division = {east, west}
    Team = {1}
    Role <- MCRole
    Code <- MCCode
    New <- MCNew
    Sets <- MCSets
    Op <- MCOp
INVARIANTS NothingUngranted PermissionsAreAsked
CONSTRAINT Scenario
CHECK_DEADLOCK FALSE
