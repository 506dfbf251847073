SPECIFICATION SessionSpec
CONSTANTS
  Actors = {"http", "watch", "flash", "gdb"}
  StopWaits = FALSE
  MayFail = TRUE
INVARIANTS CleanWhenQuiet
