CONSTANTS
    Size = 3
    IdSpace = 4
    Lba = {a, b}
    Buffer = {x, y}
    MaxOutstanding = 2
    MaxCommands = 7
    Blank = Blank
SPECIFICATION Spec
INVARIANTS
    TypeOK
    NothingLostInTheRings
    DataBeforeCompletion
    OutstandingIdsDistinct
    NvmeInv
PROPERTIES
    ImplementsInOrderQueue
