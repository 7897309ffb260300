SPECIFICATION Spec
CONSTANTS
    LpReaders = {1}
    LpWriters = {2}
    LpCapacity = 2
    LpBytes = 2
    LpSignals = 0
INVARIANT LpEpipeAlone
CHECK_DEADLOCK FALSE
