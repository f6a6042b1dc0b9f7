SPECIFICATION Spec
CONSTANTS
    Inodes = {1, 2, 3, 4}
    None = None
    LEN = 2
    MaxVersion = 3
    MaxCuts = 2
INVARIANTS
    TypeOK
    OldOrNewNeverHalf
PROPERTIES
    ImplementsAtomicFile
    SaveTellsTheTruth
    SaveReturns
CHECK_DEADLOCK FALSE
