SPECIFICATION Spec
CONSTANTS
    c1 = c1
    c2 = c2
    Calls = {c1}
    Tools = {"t"}
    MaxAttempts = 1
    MaxLoads = 2
    MaxEdits = 1
    MaxRecords = 2
PROPERTY AdmittedIsCurrent
INVARIANTS FileAndRowAgree OneLoad
CHECK_DEADLOCK FALSE
