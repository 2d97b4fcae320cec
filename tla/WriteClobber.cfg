CONSTANTS
  w1 = w1
  w2 = w2
  a = a
  b = b
  n = n
  Request = {w1, w2}
  Value = {a, b}
  Removed = removed
  Wants <- MCWants
  Echo <- MCFaithful
  Kind = "query"
  MaxChanges = 1
  MaxDowns = 0

SPECIFICATION Spec
INVARIANTS
  ClobberTold
CHECK_DEADLOCK FALSE
