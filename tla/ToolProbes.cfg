SPECIFICATION Spec
CONSTANTS
    c1 = c1
    c2 = c2
    c3 = c3
    a1 = a1
    a2 = a2
    Calls = {c1, c2, c3, c4}
    Tools = {"file_write", "file_edit", "memory_confirm", "wait", "other"}
    Args = {a1, a2}
    Admitted = {"file_write", "file_edit", "memory_confirm", "wait"}
    Destructive = {"file_write"}
    PerCall = {"memory_confirm"}
    Exempt = {"wait"}
    FileWrite = "file_write"
    FileEdit = "file_edit"
    Mixes <- Triples
    FailureThreshold = 1
INVARIANTS ProbeInFlight SingleProbe
