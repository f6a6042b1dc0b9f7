CONSTANTS
    BLOCKS = 3
    PAGES = 2
    LBA = {l1, l2}
    Naive = TRUE
    MaxErases = 3
    None = None
    Data = {d1, d2}
    Zeros = Zeros
SPECIFICATION DriveSpec
PROPERTIES
    ImplementsBlockDevice
    WriteReturns
