SPECIFICATION LogSpec
CONSTANTS
    r1 = r1
    r2 = r2
    r3 = r3
    s1 = s1
    s2 = s2
    f1 = f1
    Recs = {r1}
    Snaps = {s1}
    Flushes = {f1}
    MaxWriters = 2
    MaxFiles = 5
    Capacity = 2
    MaxBatch = 2
    RotateBytes = 2
    MaxBytes = 6
    BesideBytes = 1
    DiskFaults = {"open", "append", "realign", "sync", "copy", "rotate", "unlink"}
    MaxMishaps = 2
    PowerLoss = FALSE
    MayDelete = TRUE
    LateOpen = FALSE
    MayEvict = TRUE
CHECK_DEADLOCK FALSE
INVARIANTS LogTyped Waiters Dir Solo Sent Once Refs
INVARIANTS RefNames CopiedBeside Latest Imaged RowsHold CapLeavesSome
