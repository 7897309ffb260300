SPECIFICATION JitSpec
CONSTANTS
    N = 2
    MaxPosted = 3
    MaxWrites = 4
    Translators <- OneTranslator
    Quiet = TRUE
    TlSpaces <- Spaces
    TlUsed = {0, 1, 2}
    TlSlots = 2
    TlLog = 1
    TlWrites = 1
    TlFlushes = 2
    TlEpochs = 3
    TlGens = 1
    TlNone = none
    TlAll = all
    StUsed = {0, 2}
    StMax = 1
    StLive = 2
    StFlushes = 1
    JcUsed = {0}
    JcIds = 100
    JcNumbers = 2
    CcKeys = {1, 2}
    CcInner <- Inner
    CcPages = {p1, p2}
    CcWritten = {p1}
    CcCodes <- Codes
    CcConfigs <- Configs
    CcTable = 2
    CcRoom = TRUE
    CcNone = none
INVARIANTS
    
    RecentIsExact
    CopiesFresh
    CacheSafe
CHECK_DEADLOCK FALSE
