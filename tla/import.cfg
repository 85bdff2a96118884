SPECIFICATION Spec
CONSTANTS
  MaxRows = 2
  Jobs = {j1, j2}
  Careful = {j1}
  Late <- CommitsOverlap
  MaxJobs = 1
  Requests = {r1, r2}
  Fields = {"tags"}
  Texts <- SmallTexts
  Singles <- OneSingle
  j1 = j1
  j2 = j2
  r1 = r1
  r2 = r2
SYMMETRY Symmetry
INVARIANTS
  TypeOK
  CompletedIsSettled
  CountsMatchRows
  CapturesAreReported
  RowsKeepText
PROPERTIES
  AcceptedReachesCard
CHECK_DEADLOCK FALSE
