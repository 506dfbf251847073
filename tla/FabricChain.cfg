SPECIFICATION Spec
CONSTANTS
  NBlocks = 3
  Count = 2
  Depth = 4
  Base = 3
  Chunk = 2
  TakeMax = 4
  MaxOps = 3
  MaxFaults = 2
INVARIANTS OwnWords NoFalseFailure
PROPERTY OpEnds
CHECK_DEADLOCK FALSE
