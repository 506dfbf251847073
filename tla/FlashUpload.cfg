SPECIFICATION MCSpec
CONSTANTS
  orig = orig
  copy = copy
  other = other
  BlockOrder <- MCBlocks
  Owned <- MCOwned
  Files <- MCFiles
  MaxFaults = 1
  MaxJobs = 2
INVARIANTS ClaimsOnlyWhole LossesAreFaults DoneMeansAll
PROPERTIES OnlyWritable FlashBeforeHeaders JobEnds
