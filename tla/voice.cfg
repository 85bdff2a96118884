SPECIFICATION Spec
CONSTANTS
  Orderly = TRUE
  AudioBuffer = 1
  Results = 1
  MaxStarts = 2
  MaxChunks = 2
  MaxHeard = 2
INVARIANTS
  TypeOK
  DoneClosedOnce
  StoppedIsLast
PROPERTIES
  StopIsAnswered
CHECK_DEADLOCK FALSE
