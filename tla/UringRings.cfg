CONSTANTS
    SQ_N = 2
    CQ_N = 4
    Width = 8
    MaxInFlight = 4
    MaxRequests = 10
    Blank = Blank
SPECIFICATION Spec
INVARIANTS
    TypeOK
    NoEntryLostOrInvented
PROPERTIES
    ImplementsInOrderQueue
