SPECIFICATION ScanFairSpec
CONSTANTS
    block_count = 8
    Needed = {1, 2, 3, 4, 9}
INVARIANTS
    ScanIsFirstFit
    ReadsStayNear
PROPERTY ScanTerminates
