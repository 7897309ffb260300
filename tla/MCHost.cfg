SPECIFICATION Spec
CONSTANTS
    Clusters = {1, 2}
    Data = {d1, d2}
    NoData = nodata
    MaxGen = 3
    SeqMod = 8
    Iss = 6
    GuestIss = 6
    RxCapacity = 2
    TxCapacity = 2
    MaxRetries = 1
    HostBuffer = 1
    GuestWindow = 1
    CwndInitial = 2
    TcpBytes = 2
    WireCap = 1
    RpEnd = 4
    RpInputs = 2
    RpBudgets = {1, 2, 4}
    RpNap = 2
    RpEvery = 1
    RpOps = {"op", "nap", "wfi", "disk"}
    RpAgain = FALSE
    RpCut = FALSE
INVARIANTS
    
    StoreConsistent
    
    RpReplays
CHECK_DEADLOCK FALSE
