SPECIFICATION Spec
CONSTANTS
    Spawns = {1, 2}
    Ids = {1, 2}
    RunId <- OwnIds
    Plugin = {2}
    Stuck = {}
    Slots = 1
    MaxAsks = 1
    MaxCrashes = 1
CHECK_DEADLOCK FALSE
INVARIANTS TrackerTrue EndIsClean
PROPERTIES AllMeansShown LaneCloses WaitPromise
