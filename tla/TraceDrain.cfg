SPECIFICATION Spec
CONSTANTS
  Total = 5
  Words = 2
  Margin = 2
  NowEvery = 2
  ChainPars = 3
  RingRecords = 1
  PaceLimit = 5
  MaxWords = 18
  MaxFails = 1
INVARIANTS PublishedIntact NoSilentGap
PROPERTY CatchesUp
CHECK_DEADLOCK FALSE
