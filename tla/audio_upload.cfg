SPECIFICATION Spec
CONSTANTS
  Total = 2
  Calls = {k1, k2}
  NoCall = NoCall
  Late = {"initiate", "transcribe"}
  Cases <- OneFlaw
  MaxFaults = 3
  MaxCorrections = 1
  k1 = k1
  k2 = k2
INVARIANTS
  TypeOK
  CompleteKeepsAudio
  ProgressIsStaged
PROPERTIES
  ImplementsRecording
  AudioArrives
  Finishes
CHECK_DEADLOCK FALSE
