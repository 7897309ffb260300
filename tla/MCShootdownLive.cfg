SPECIFICATION FairSpec
CONSTANTS
    N = 2
    MaxPosted = 1
    MaxEntry = 1
PROPERTIES
    
    StopReturns
    CpuOnStarts
