SPECIFICATION LogSpec
CONSTANTS
    r1 = r1
    r2 = r2
    r3 = r3
    s1 = s1
    s2 = s2
    f1 = f1
    Recs = {r1}
    Snaps = {s1}
    Flushes = {f1}
    MaxWriters = 2
    MaxFiles = 5
    Capacity = 2
    MaxBatch = 2
    RotateBytes = 2
    MaxBytes = 2
    BesideBytes = 1
    DiskFaults = {}
    MaxMishaps = 0
    PowerLoss = FALSE
    MayDelete = FALSE
    LateOpen = FALSE
    MayEvict = FALSE
PROPERTY ImageKept
CHECK_DEADLOCK FALSE
