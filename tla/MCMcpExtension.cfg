SPECIFICATION Spec
CONSTANTS
    c1 = c1
    c2 = c2
    Calls = {c1, c2}
    Tools = {"t"}
    MaxAttempts = 1
    MaxLoads = 2
    MaxEdits = 0
    MaxRecords = 1
SYMMETRY Symmetry
CHECK_DEADLOCK FALSE
INVARIANTS SwitchIsClean OneLoad
