SPECIFICATION Spec
CONSTANTS
    t1 = t1
    c1 = c1
    c2 = c2
    Tasks = {t1}
    NoTask = NoTask
    Callers = {c1, c2}
    MaxRuns = 2
    AddressesInDispatch = TRUE
INVARIANT OneRunPerId
