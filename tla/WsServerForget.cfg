CONSTANTS
  Hello = hello
  None = none
  Kind = {hello, ping}
  Conn = {c1, c2}
  Extra = none
  Scenario = {"any"}
  App = {a1, a2}
  MaxConns = 2
  MaxApps = 2
  MaxCache = 4
  MaxFrames = 2
  MaxQueued = 0

SPECIFICATION HSpec
PROPERTIES
  ForgottenReturns
CHECK_DEADLOCK FALSE
