SPECIFICATION MCSpec
CONSTANTS
    Dbs = {"main", "aux"}
    Pids = {p1}
    Spellings = {"wal_autocheckpoint", "WAL_AUTOCHECKPOINT"}
    Values <- Thresholds
    IntMax = 2
    Default = 2
    MaxFrames = 3
    MaxFaults = 1
    Rows = {"parent", "child"}
    Parent = "parent"
    Child = "child"
    Names = {"a", "b"}
    MaxDepth = 2
    MaxTotal = 3
    Ids = {1, 2}
    Indexes = {ix1, ix2}
CHECK_DEADLOCK FALSE
INVARIANTS FollowerAgrees ReportedIsOwn AllOrNothing
PROPERTIES KeepsBothBehaviors AutoCheckpointSpec CheckForeseesCopy
