SPECIFICATION FairSpec
CONSTANTS
  Captures = {c1}
  Workers = {w1, w2}
  Requests = {r1, r2}
  ClaimBatch = 1
  MaxAttempts = 2
  LeaseOutlastsWork = FALSE
  MaxRevision = 2
  MaxFaults = 2
INVARIANTS
  EnrichedOnlyWithConsent
PROPERTIES
  EventSettles
CHECK_DEADLOCK FALSE
