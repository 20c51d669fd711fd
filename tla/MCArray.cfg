SPECIFICATION Spec
CONSTANTS
    Elems <- MCElems
    Alike <- MCAlike
    InitialSize = 1
    MaxSize = 4
    Junk = junk
    a = a
    b = b
    c = c
    d = d
INVARIANTS
    TypeOK
    NoDanglingElement
PROPERTY RefinesList
