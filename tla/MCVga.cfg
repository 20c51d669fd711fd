SPECIFICATION VgaSpec
CONSTANTS
    Width = 5
    Height = 3
    ClockCol = 4
    KeyCol = 3
    Chars = {Blank, ink}
    Blank = Blank
    Newline = nl
    Unset = unset
    MaxLines = 5
    MaxPuts = 4
INVARIANTS
    CursorOnScreen
    WindowOnLines
    UnsetOnlyRight
PROPERTIES
    RefinesDocument
CHECK_DEADLOCK FALSE
