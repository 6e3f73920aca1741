SPECIFICATION MCFairSpec
CONSTANTS
    t1 = t1
    k1 = k1
    k2 = k2
    p1 = p1
    Threads = {t1, t2}
    Tokens = {k1, k2}
    TokenLists <- Lists
    Ids = {i1, i2}
    Ticks = {p1, p2}
    Every <- EveryOne
    MaxFires = 5
    MaxPanics = 1
    NULL = NULL
    Pages = 3
    StepSizes = {0, 1, 2, 5}
    MaxWrites = 2
    MaxCalls = 2
    MaxRows = 4
    Sizes = {0, 1, 2, 3, 5}
CHECK_DEADLOCK FALSE
INVARIANTS DispatchSound TickCadence OkMeansCopied
PROPERTIES DeliversTheResult SpentTokenInterrupts CancelStopsStatement BackupEnds EnumerationEnds
