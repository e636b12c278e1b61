SPECIFICATION GuiSpec
CONSTANTS
    Complete = {a, b}
    Blank = Blank
    None = None
    Garbage = Garbage
    MaxNodes = 3
    MaxEdits = 2
    MaxExternal = 0
    MaxFaults = 0
INVARIANTS
    DiskIndexInList
CHECK_DEADLOCK FALSE
