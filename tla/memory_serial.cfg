\* One request at a time.
SPECIFICATION Spec
CONSTANTS
  Fields = {"title", "summary"}
  Values = {v1, v2}
  Empty = Empty
  Requests = {r1}
  MaxVersion = 4
  MaxPreviews = 2
  MaxBatch = 2
  MaxPatch = 1
SYMMETRY Symmetry
INVARIANTS TypeOK AppliesToItsVersion OnePendingBatch TrailExplainsCard
PROPERTIES FillsOnlyEmptyFields UndoSparesOtherValues
CHECK_DEADLOCK FALSE
