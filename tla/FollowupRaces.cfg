SPECIFICATION Spec
CONSTANTS
    MaxRows = 1
    Unparseable = {}
    MaxSessions = 4
    Roots = {r1, r2}
    NoRoot = NoRoot
    FirstRoot = r1
    Users = {u1, u2}
    Flows = {w1}
    MaxMoves = 3
    MaxCrashes = 0
CHECK_DEADLOCK FALSE
INVARIANTS NeverInAnotherProject NeverInTheWrongPlace
