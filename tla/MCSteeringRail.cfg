SPECIFICATION Spec
CONSTANTS
    m1 = m1
    m2 = m2
    Msgs = {m1, m2}
    Note = Note
    Cap = 2
    MaxRounds = 2
    Bonus = 5
    Retries = 1
    MaxPerTurn = 1
    MaxCrashes = 1
    LogMayDrop = TRUE
SYMMETRY Symmetry
CHECK_DEADLOCK FALSE
INVARIANTS FifoOrder OnePlace CrashRecovered
PROPERTY CancelStands
