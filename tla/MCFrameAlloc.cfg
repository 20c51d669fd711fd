SPECIFICATION Spec
CONSTANTS
    NumFrames = 128
    KernelIndex = 96
INVARIANTS
    FramesExact
    PanicsHonest
PROPERTY RefinesPool
