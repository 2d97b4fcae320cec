SPECIFICATION MCFairSpec
CONSTANTS
  None = None
  s1 = s1
  f1 = f1
  Scenario = {"restarts", "reconnects", "fields"}
  Store = {s1}
  Field = {f1}
  MaxRuns = 2
  MaxWrites = 2
  MaxBreaks = 2
  MaxPings = 1
  MaxSweeps = 1
  MaxReloads = 1
  MaxForgets = 1
INVARIANT OnePill
INVARIANT PillFollows
INVARIANT FreshFieldsAgree
PROPERTY PageBecomesReady
CHECK_DEADLOCK FALSE
