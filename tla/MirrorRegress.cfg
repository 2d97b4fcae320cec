SPECIFICATION MCSpec
CONSTANTS
  None = None
  s1 = s1
  f1 = f1
  f2 = f2
  Scenario = {"fields"}
  Store = {s1}
  Field = {f1, f2}
  MaxRuns = 1
  MaxWrites = 2
  MaxBreaks = 1
  MaxPings = 0
  MaxSweeps = 0
  MaxReloads = 0
  MaxForgets = 0
INVARIANT MirrorAgrees
CHECK_DEADLOCK FALSE
