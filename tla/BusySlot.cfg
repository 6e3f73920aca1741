SPECIFICATION FairSpec
CONSTANTS
    Procs = {p1, p2}
    Boxes = {b1, b2}
    MaxRetries = 2
    MaxElapsed = 3
    MaxHandle = 3
    Repeat = FALSE
    None = None
CHECK_DEADLOCK FALSE
INVARIANTS SlotSound ObserversKept
PROPERTIES FreshClock ChangeTakesEffect BusyEventEnds
