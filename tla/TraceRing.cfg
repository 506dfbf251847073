SPECIFICATION Spec
CONSTANTS
  RingBytes = 8
  RecordLen = 3
  MaxRead = 2
  MaxBytes = 24
INVARIANTS TypeOK NoOverwrite ReadsInOrder OldTraceDropped
PROPERTIES TailForward StartMends ImplementsFifo
CHECK_DEADLOCK FALSE
