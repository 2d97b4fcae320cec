CONSTANTS
  Hello = hello
  None = none
  Kind = {hello, ping}
  Conn = {c1, c2}
  Extra = none
  Scenario = {"any"}
  App = {a1}
  MaxConns = 2
  MaxApps = 1
  MaxCache = 2
  MaxFrames = 1
  MaxQueued = 1

SPECIFICATION MCFairSpec
PROPERTIES
  DeadAppsMarked
  ConnectionsEnd
CHECK_DEADLOCK FALSE
