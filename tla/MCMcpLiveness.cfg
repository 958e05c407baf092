SPECIFICATION FairSpec
CONSTANTS
    c1 = c1
    c2 = c2
    Calls = {c1}
    Tools = {"t"}
    MaxAttempts = 1
    MaxLoads = 1
    MaxEdits = 1
    MaxRecords = 1
CHECK_DEADLOCK FALSE
PROPERTIES MutexReleased ClearedAway
