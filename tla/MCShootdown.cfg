SPECIFICATION Spec
CONSTANTS
    N = 2
    MaxPosted = 2
    MaxEntry = 3
INVARIANTS
    TypeOK
    NoStaleTranslation
    CoresSafe
