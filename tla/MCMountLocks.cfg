SPECIFICATION StoreSpec
CONSTANTS
    Machines = {"mount"}
    Disk = 0
    OtherDisk = 1
    BucketBits = 1
    FirstUsable = 1
    Total = 3
    DataTypes = {"Index", "Blob"}
    MaxGen = 3
    NodeId = 1
    Capacity = 0
    DefaultLen = 2
    MaxLogical = 3
    MaxWall = 2
    MaxOps = 3
    Remotes <- MCRemotes
    Threads = {"t1", "t2"}
    Members <- MCMembers
    Projections <- MCProjections
    NameOrder <- MCNameOrder
    Content <- MCContent
    LocalBits = 2
    MaxOid = 6
    Mounts = {"full", "tags", "ctx", "c"}
    PageSize = 2
    Asked = {"tags", "ctx", "c", "d", "x", "y", "2"}
    Spans <- MCSpans
    MaxCalls = 3
CHECK_DEADLOCK FALSE
INVARIANT NoLockCycle
