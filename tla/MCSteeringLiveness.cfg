SPECIFICATION FairSpec
CONSTANTS
    m1 = m1
    m2 = m2
    Msgs = {m1, m2}
    Note = Note
    Cap = 1
    MaxRounds = 2
    Bonus = 5
    Retries = 1
    MaxPerTurn = 1
    MaxCrashes = 0
    LogMayDrop = TRUE
CHECK_DEADLOCK FALSE
PROPERTY Settles
