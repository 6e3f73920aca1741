SPECIFICATION Spec
CONSTANTS
    Threads = {p1}
    Stmts = {}
    Streams = {r1}
    Blobs = {}
    Sessions = {}
    MaxBatch = 1
    MaxHandles = 1
    Db = Db
    None = None
CHECK_DEADLOCK FALSE
INVARIANTS StreamStatementsOwned
