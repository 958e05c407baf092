SPECIFICATION LogSpec
CONSTANTS
    r1 = r1
    r2 = r2
    r3 = r3
    s1 = s1
    s2 = s2
    f1 = f1
    Recs = {r1, r2}
    Snaps = {s1}
    Flushes = {f1}
    MaxWriters = 2
    MaxFiles = 5
    Capacity = 2
    MaxBatch = 2
    RotateBytes = 2
    MaxBytes = 6
    BesideBytes = 1
    DiskFaults = {}
    MaxMishaps = 1
    PowerLoss = FALSE
    MayDelete = TRUE
    LateOpen = TRUE
    MayEvict = TRUE
PROPERTY NotReopened
INVARIANTS AcceptedIsKept OneWriter RowsOfThisGeneration NoRowWithoutLog
CHECK_DEADLOCK FALSE
