SPECIFICATION Spec
CONSTANTS
    c1 = c1
    c2 = c2
    Calls = {c1}
    Tools = {"t"}
    MaxAttempts = 2
    MaxLoads = 1
    MaxEdits = 0
    MaxRecords = 1
INVARIANTS OnlyCrashedHolds AwaitingMeansDown
CHECK_DEADLOCK FALSE
