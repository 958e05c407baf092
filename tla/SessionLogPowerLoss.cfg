SPECIFICATION LogSpec
CONSTANTS
    r1 = r1
    r2 = r2
    r3 = r3
    s1 = s1
    s2 = s2
    f1 = f1
    Recs = {r1, r2}
    Snaps = {}
    Flushes = {}
    MaxWriters = 2
    MaxFiles = 5
    Capacity = 2
    MaxBatch = 2
    RotateBytes = 3
    MaxBytes = 6
    BesideBytes = 1
    DiskFaults = {}
    MaxMishaps = 1
    PowerLoss = TRUE
    MayDelete = FALSE
    LateOpen = FALSE
    MayEvict = FALSE
INVARIANT RowNamesItsRecord
CHECK_DEADLOCK FALSE
