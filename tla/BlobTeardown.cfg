SPECIFICATION MCSpec
CONSTANTS
    Threads = {t1, t2, t3}
    Nobody = Nobody
    MaxCalls = 5
    Mapped = {"read", "delete"}
    Unmapped = {"new"}
    Foreign = {"bogus"}
    Stmts = {s1, s2}
    UsizeBits = 4
    IntBits = 3
    Rowids = {1, 2}
    Contents <- NoneToTwo
    Args = {0, 1, 2, 3, 7, 8, 9, 15}
    Chunks <- UpToTwo
    Keys = {1, 2}
    Vals = {a, b, c}
    Absent = Absent
    MaxWrites = 3
    MaxRows = 2
    MaxScans = 2
    MaxReports = 2
CHECK_DEADLOCK FALSE
INVARIANT TeardownIsSound
