CONSTANTS
    BLOCKS = 3
    PAGES = 3
    LBA = {l1, l2, l3}
    Naive = FALSE
    MaxErases = 3
    None = None
SPECIFICATION Spec
SYMMETRY LbaSymmetry
INVARIANTS
    TypeOK
    MapPointsAtOwnPage
    ValidPagesAreMapped
    BlocksFillInOrder
    ReserveRestored
    NeverOutOfErasedBlocks
    AmplificationBounded
    FtlInv
PROPERTIES
    LivePagesSurvive
