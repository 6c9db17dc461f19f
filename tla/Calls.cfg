SPECIFICATION FairSpec
CONSTANTS
    MaxRequests = 2
    MaxMessages = 2
    MaxOutstanding = 1
    PoolWorkers = {"w1", "w2"}
    MaxJobs = 3
    Owner = "owner"
    OtherUsers = {"user"}
    Settings <- PortSettings
    Sizes = {2}
    MaxPortCalls = 3
    MaxBytes = 3
    RpcCall = {"r1", "r2"}
    Streams = {"mode", "progress", "armed"}
    PoolThread = {"t1", "t2"}
    MaxSystems = 2
    MaxResults = 2
INVARIANTS
    CalledOnce
    WholeTransfers
    LineAsAsked
    PromisesSetOnce
PROPERTY WaitingEnds
CHECK_DEADLOCK FALSE
