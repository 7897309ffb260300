SPECIFICATION Spec
CONSTANTS
    Wrap = 4
    Offered = {"version_1", "event_idx"}
    MaxConfigGen = 1
    QueueSize = 2
    MaxBurst = 1
    MaxReloads = 1
    Sectors = 3
    ClusterSectors = 2
    MaxBlocks = 2
    MaxWrites = 2
    MaxAhead = 1
    Requests <- MCRequests
INVARIANTS
    RegsConsistent
    OneOwner
    NoLostNotification
    DiskConsistent
PROPERTIES
    RequestsEnd
    DiskRequestEnds
CHECK_DEADLOCK FALSE
