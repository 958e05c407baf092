SPECIFICATION Spec
CHECK_DEADLOCK FALSE
CONSTANTS
    s1 = s1
    Sessions = {s1}
    First = s1
    NoSession = NoSession
    t1 = t1
    c1 = c1
    Turns = {t1}
    NoTurn = NoTurn
    Closers = {c1}
    MaxRows = 5
    History = 3
    RecentLimit = 2
    MinRecent = 1
    MinNew = 9
    MaxMoves = 1
    OlderCap = 1
    WindowCap = 9
INVARIANT PassedIsRead
