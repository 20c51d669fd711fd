SPECIFICATION Spec
CONSTANTS
  Lines = {0, 1, 7, 14}
  MaxDepth = 2
INVARIANTS
  FaultOnlyBeforeIdt
  NoReentry
  NothingHeldBack
  PanicTellsTruth
PROPERTIES
  RequestsServed
