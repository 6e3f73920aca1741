SPECIFICATION Spec
CONSTANTS
    Procs = {p1, p2}
    Boxes = {b1, b2}
    MaxRetries = 1
    MaxElapsed = 1
    MaxHandle = 2
    Repeat = TRUE
    None = None
CHECK_DEADLOCK FALSE
INVARIANTS ObserversKept
