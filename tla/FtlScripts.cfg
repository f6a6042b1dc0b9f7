CONSTANTS
    BLOCKS = 6
    PAGES = 4
    LBA = {0, 1, 2, 3, 4, 5, 6, 7, 8, 9, 10, 11, 12, 13, 14, 15}
    Naive = FALSE
    MaxErases = 50
    None = None
    HotRounds = 1000
    RandomRounds = 4
SPECIFICATION ScriptSpec
INVARIANTS
    MainsSucceed
    HotDataWearsEvenly
