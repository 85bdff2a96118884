SPECIFICATION Spec
CONSTANTS
  Captures = {c1, c2}
  NoCapture = NoCapture
  Requests = {r1, r2}
  Cadences = {1, 2}
  DefaultCadence = 1
  OtherDays = 1
  NotRelevantDays = 2
  OneReader = TRUE
  MaxDay = 3
  MaxRevision = 2
  c1 = c1
  c2 = c2
  r1 = r1
  r2 = r2
SYMMETRY Symmetry
INVARIANTS
  TypeOK
  OneOpenEcho
  EchoesKeepTheirDistance
CHECK_DEADLOCK FALSE
