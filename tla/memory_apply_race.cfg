\* Two requests that overlap.
SPECIFICATION Spec
CONSTANTS
  Fields = {"title", "summary"}
  Values = {v1, v2}
  Empty = Empty
  Requests = {r1, r2}
  MaxVersion = 3
  MaxPreviews = 1
  MaxBatch = 1
  MaxPatch = 1
SYMMETRY Symmetry
PROPERTIES FillsOnlyEmptyFields
CHECK_DEADLOCK FALSE
