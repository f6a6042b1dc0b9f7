CONSTANTS
    SQ_N = 1
    CQ_N = 2
    Width = 8
    MaxInFlight = 4
    MaxRequests = 6
    Blank = Blank
SPECIFICATION Spec
INVARIANTS
    OneCompletionEach
