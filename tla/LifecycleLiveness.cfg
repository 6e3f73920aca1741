SPECIFICATION FairSpec
CONSTANTS
    Threads = {p1, p2}
    Stmts = {}
    Streams = {r1}
    Blobs = {}
    Sessions = {c1}
    MaxBatch = 1
    MaxHandles = 2
    Db = Db
    None = None
CHECK_DEADLOCK FALSE
PROPERTIES LockAlwaysReleased TeardownCompletes
