\* Two requests that overlap.
SPECIFICATION Spec
CONSTANTS
  Fields = {"title", "summary"}
  Values = {v1}
  Empty = Empty
  Requests = {r1, r2}
  MaxVersion = 3
  MaxPreviews = 2
  MaxBatch = 1
  MaxPatch = 1
INVARIANTS VersionCountsRevisions AcceptedWereWritten
CHECK_DEADLOCK FALSE
