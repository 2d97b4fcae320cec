CONSTANTS
  w1 = w1
  w2 = w2
  a = a
  b = b
  n = n
  Request = {w1, w2}
  Value = {a, b}
  Removed = removed
  Wants <- MCWants
  Echo <- MCFaithful
  Kind = "query"
  MaxChanges = 1
  MaxDowns = 1

SPECIFICATION FairSpec
INVARIANTS
  VerdictAgrees
PROPERTIES
  Resolves
  AppliedPasses
CHECK_DEADLOCK FALSE
