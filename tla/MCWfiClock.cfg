SPECIFICATION FairSpec
CONSTANTS
    N = 2
    MaxAlarm = 3
    MaxBudget = 1
INVARIANTS
    WaitsSound
PROPERTY DeadlineComesBootOn
