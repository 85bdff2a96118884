SPECIFICATION Spec
CONSTANTS
  Captures = {c1}
  Audio = {c1}
  Users = {a}
  None = None
  Limit = 1
  MaxFaults = 3
  c1 = c1
  a = a
INVARIANTS
  TypeOK
  UnsettledIsQueued
  SentIsClaimed
  SyncedReachedServer
  RetryIsArmed
PROPERTIES
  Drains
