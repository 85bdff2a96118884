SPECIFICATION Spec
CONSTANTS
  Total = 4
  Limit = 1
  Filters <- SomeFilters
  NoCursor = NoCursor
  Requests = {r1, r2}
  MaxMoves = 3
  Patient = TRUE
  r1 = r1
  r2 = r2
SYMMETRY Symmetry
INVARIANTS
  TypeOK
  PagesMissNothing
CHECK_DEADLOCK FALSE
