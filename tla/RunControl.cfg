SPECIFICATION Spec
CONSTANTS
  c0 = c0
  c1 = c1
  CoreOrder <- MCCores
  MaxFaults = 1
  MaxFlash = 1
PROPERTIES Reported
INVARIANTS LineAccounted NoStrayHalt FlashQuiet
