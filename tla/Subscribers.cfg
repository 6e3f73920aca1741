SPECIFICATION MCSpec
CONSTANTS
    Threads = {t1, t2, t3}
    Addrs = {a1, a2, a3}
    MaxId = 4
    NULL = NULL
    Kinds = {"wal", "commit"}
    Bridges = {b1, b2}
    MaxHooks = 2
    MaxEvents = 2
SYMMETRY Symmetry
CHECK_DEADLOCK FALSE
INVARIANTS ListSound BridgesKeepTheirLists EmitsWhatItHeard
PROPERTIES FanOutSpec EveryoneServed
