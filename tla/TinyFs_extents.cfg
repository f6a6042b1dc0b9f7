SPECIFICATION Spec
CONSTANTS
    NBLOCKS = 6
    METADATA = 1
    BLOCK = 2
    ROOT = 2
    FIRST_INODE = 3
    NINODES = 7
    MAX_EXTENTS = 1
    MAX_DIRENTS = 3
    Names = {a, b}
    Sizes = {1, 5}
INVARIANTS
    SizeCovered
CHECK_DEADLOCK FALSE
