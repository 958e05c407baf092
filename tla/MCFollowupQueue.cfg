SPECIFICATION Spec
CONSTANTS
    MaxRows = 2
    Unparseable = {1}
    MaxSessions = 5
    Roots = {r1, r2}
    NoRoot = NoRoot
    FirstRoot = r1
    Users = {u1}
    Flows = {w1, w2}
    MaxMoves = 2
    MaxCrashes = 1
CHECK_DEADLOCK FALSE
INVARIANTS ClaimDiscipline RightPlace
PROPERTY ClaimSettles
