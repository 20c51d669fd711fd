SPECIFICATION Spec
CONSTANTS
    Width = 19
    Height = 4
    KeyCol = 4
    ClockCol = 9
    Blank = blank
    Newline = nl
    Unset = unset
    ink = ink
    Bytes = {224, 83, 72, 91, 208}
    Instants = {86399, 86400, 97200}
    MaxDelay = 1
    TextLengths = {3, 20}
    SizeValues = 65536
    MaxBytes = 4
    MaxLines = 6
INVARIANTS
    AreasSurvive
    PrefixCountsOnce
    NamesFit
    ClockLags
PROPERTY OthersUndisturbed
CHECK_DEADLOCK FALSE
