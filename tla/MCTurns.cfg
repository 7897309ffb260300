SPECIFICATION FairSpec
CONSTANTS
    N = 3
    Quantum = 2
    MaxBudget = 2
    MaxAlarm = 2

    
PROPERTIES
    
    TurnComes
    InterruptWakes
CHECK_DEADLOCK FALSE
