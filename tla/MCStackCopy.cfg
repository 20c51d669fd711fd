SPECIFICATION Spec
CONSTANTS
  PAGE_SIZE = 11
  MaxFrames = 4
INVARIANTS
  PlacedAlike
  CopyIsomorphic
