SPECIFICATION Spec
CHECK_DEADLOCK FALSE
CONSTANTS
    s1 = s1
    s2 = s2
    Sessions = {s1, s2}
    First = s1
    NoSession = NoSession
    t1 = t1
    c1 = c1
    Turns = {t1}
    NoTurn = NoTurn
    Closers = {c1}
    MaxRows = 3
    History = 1
    RecentLimit = 2
    MinRecent = 1
    MinNew = 1
    MaxMoves = 1
    OlderCap = 9
    WindowCap = 9
INVARIANTS StateOfOwnConversation ClearForgets AttachmentsRead FlushStopsAtOpenTurn
