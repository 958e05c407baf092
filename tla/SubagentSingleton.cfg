SPECIFICATION Spec
CONSTANTS
    Spawns = {1, 2}
    Ids = {1}
    RunId <- OneId
    Plugin = {}
    Stuck = {}
    Slots = 1
    MaxAsks = 0
    MaxCrashes = 0
INVARIANT ReportedWasShown
CHECK_DEADLOCK FALSE
