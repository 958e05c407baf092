SPECIFICATION FairSpec
CONSTANTS
    t1 = t1
    c1 = c1
    c2 = c2
    Tasks = {t1}
    NoTask = NoTask
    Callers = {c1, c2}
    MaxRuns = 3
    AddressesInDispatch = FALSE
INVARIANTS TypeOK OneRunPerId SlotHeld ResultIsOwn LaneIndexExact NoOrphanRow
PROPERTY SlotFreed
