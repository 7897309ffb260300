SPECIFICATION Spec
CONSTANTS
    GicCores = {0, 1}
    GicTriggers <- MCTriggers
    GicPrios = {64, 80}
    GicPmrs = {72, 240}
    GicBprs = {5}
    GicOps = {"ClearEnable", "SetEnable"}
    MaxRaises = 3
    Wrap = 4
    TableSize = 3
    LkTasks = 3
    LkKills = 1
    LkRestart = {FALSE, TRUE}
    LkOdd = FALSE
    SgThreads = {1, 2}
    SgWaiters = {2}
    SgSignals = {1, 2}
    SgAlarm = 2
    SgActions <- MCActions
    SgMasks <- MCMasks
    SgTimeouts = {0, 1}
    SgLast = 2
    SgSends = 1
    SgInHandlers = FALSE
    LlProcs = {1, 2, 3}
    LlOfds <- MCOfds
    LlEnd = 3
    LlRequests <- MCLocks
    LlSteps = 10
    LlSignals = 1
INVARIANTS
    GicCacheFresh
    GicHandlers
    WalkFindsChain
    LkExits
    SgSafe
    LlSafe
CHECK_DEADLOCK FALSE
