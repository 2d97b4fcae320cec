CONSTANTS
  w1 = w1
  w2 = w2
  a = a
  b = b
  n = n
  Request = {w1, w2}
  Value = {a, b, n}
  Removed = removed
  Wants <- MCWantsReshaped
  Echo <- MCReshaping
  Kind = "storage"
  MaxChanges = 1
  MaxDowns = 2

SPECIFICATION Spec
INVARIANTS
  AppliedHeld
  VerdictAgrees
PROPERTIES
  ResultKept
  ContractKept
CHECK_DEADLOCK FALSE
