SPECIFICATION Spec
CONSTANTS
  Captures = {c1, c2}
  Workers = {w1, w2}
  Requests = {r1}
  ClaimBatch = 2
  MaxAttempts = 2
  LeaseOutlastsWork = TRUE
  MaxRevision = 2
  MaxFaults = 2
SYMMETRY Symmetry
INVARIANTS
  TypeOK
  ExclusiveClaims
PROPERTIES
  ImplementsTask
CHECK_DEADLOCK FALSE
