SPECIFICATION Spec
CONSTANTS
    VsWrap = 3
    HostAlloc = 2
    Threshold = 1
    GuestAlloc = 2
    RxBuffers = 1
    VsBytes = 3
    BsSaves = 3
    BsPieces = 3
    BsWindow = 2
INVARIANTS
    VsSafe
    BsSafe
PROPERTIES
    VsNoStall
    VsCloseEnds
    BsEnds
CHECK_DEADLOCK FALSE
