SPECIFICATION Spec
CONSTANTS
    NumFrames = 6
    KernelIndex = 3
    HeaderSize = 6
    PageSize = 24
    BlockSize = 4
    Sizes = {3, 12, 24, 25}
INVARIANTS
    OnePurposePerPage
    HeapRemembers
    FreshPageSuffices
PROPERTY KmallocEnds
