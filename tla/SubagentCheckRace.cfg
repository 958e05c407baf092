SPECIFICATION Spec
CONSTANTS
    Spawns = {1, 2}
    Ids = {1, 2}
    RunId <- OwnIds
    Plugin = {}
    Stuck = {}
    Slots = 2
    MaxAsks = 1
    MaxCrashes = 0
INVARIANT ReportedWasShown
CHECK_DEADLOCK FALSE
