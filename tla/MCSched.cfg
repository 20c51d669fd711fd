SPECIFICATION FairSpec
CONSTANTS
    main = t1
    Nil = nil
    Tasks = {t1, t2, t3}
    TICKS_PER_SLICE = 2
    MaxDepth = 3
    ThreadsReturn = TRUE
INVARIANTS
    NoWildJump
    SuspendedResumable
    ListComplete
PROPERTIES
    RefinesRoundRobin
    EveryTaskRuns
    InterruptsComeBack
