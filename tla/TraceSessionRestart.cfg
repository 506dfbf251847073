SPECIFICATION SessionSpec
CONSTANTS
  Actors = {"http"}
  StopWaits = FALSE
  MayFail = FALSE
INVARIANTS RunningMeansDraining
