SPECIFICATION Spec
CONSTANTS
  Divs = {1, 5}
  AttachDiv = 5
  SweepDiv = 1
  MaxLost = 2
INVARIANTS ModesAgree 
