SPECIFICATION PairSpec
CONSTANTS
    Threads = {p1, p2}
    Stmts = {s1}
    Streams = {r1}
    Blobs = {b1}
    Sessions = {c1}
    MaxBatch = 2
    MaxHandles = 2
    Db = Db
    None = None
SYMMETRY ThreadSymmetry
CHECK_DEADLOCK FALSE
INVARIANTS IInv CallbackStateAlive
PROPERTIES SqliteCallsLegal CollectionFreesConnection
