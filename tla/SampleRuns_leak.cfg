SPECIFICATION Spec
CONSTANTS
    CachedBlocks = {0, 1, 2}
    MaxGets = 6
    POLL_NS = 2
    DEVICE_NS = {1, 2, 5, 6}
    IDS = 2
    MaxCommands = 3
    SECTOR = 2
    DBLOCK = 4
    DBLOCKS = 3
INVARIANT
    TemporaryFileNeverStays
