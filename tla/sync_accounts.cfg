SPECIFICATION Spec
CONSTANTS
  Captures = {c1}
  Audio = {}
  Users = {a, b}
  None = None
  Limit = 1
  MaxFaults = 0
  c1 = c1
  a = a
  b = b
INVARIANTS
  StoredForOwner
