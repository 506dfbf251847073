SPECIFICATION SessionSpec
CONSTANTS
  Actors = {"http", "watch", "flash"}
  StopWaits = TRUE
  MayFail = TRUE
PROPERTIES CallsReturn DrainLeaves
