CONSTANTS
    Size = 3
    IdSpace = 4
    Lba = {a, b}
    Buffer = {x, y}
    MaxOutstanding = 2
    MaxCommands = 4
    Blank = Blank
SPECIFICATION Spec
INVARIANTS
    PhaseFlipsOnEveryPass
