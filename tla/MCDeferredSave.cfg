SPECIFICATION Spec
CONSTANTS
    P = 2
    Value = {v0, v1}
    Saves = {s1, s2}
    None = None
    N = 2
    MaxEpoch = 2
INVARIANTS
    UngivenSafe
    TrapSafe
PROPERTY Implements
