SPECIFICATION Spec
CONSTANTS
  HeapSize = 104
  Base = 16
  Sizes = {0, 4, 12, 16385}
INVARIANTS
  TypeOK
  Apart
  LiveHeaderIntact
  CapacityTrue
  StrayOnlyStarved
  FaultOnlyFromStart
CHECK_DEADLOCK FALSE
