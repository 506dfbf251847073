SPECIFICATION Spec
CONSTANTS
  NSectors = 4
  PhysSectors = 2
  RunMax = 2
  LoadMax = 2
INVARIANTS TypeOK VerifiedIsImage OnlyKeptChange ProgramsErased LoadLeavesErased
PROPERTY SessionDescends
