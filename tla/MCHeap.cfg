SPECIFICATION Spec
CONSTANTS
    NULL = null
    Superblocks = {sb1, sb2}
    TotalSize = 26
    BlockSize = 4
    Sizes = {1, 5, 12}
INVARIANTS
    OwnershipExact
    Delimited
    UsedExact
    NoFalseRejection
PROPERTY RefinesBlockPool
