SPECIFICATION Spec
CONSTANTS
  NumSlots = 3
  NumAddrs = 3
  Sizes = {2}
  MaxSet = 2
  MaxTrouble = 2
INVARIANTS NoGhost Kept 
