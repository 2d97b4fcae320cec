CONSTANTS
  Hello = hello
  None = none
  Kind = {hello, ping}
  Conn = {c1, c2, c3}
  Extra = c3
  Scenario = {"pair", "crowd"}
  App = {a1, a2}
  MaxConns = 2
  MaxApps = 1
  MaxCache = 2
  MaxFrames = 2
  MaxQueued = 0

SPECIFICATION MCSpec
SYMMETRY Symmetric
INVARIANTS
  SlotsCounted
  SendersLive
  CapsHeld
PROPERTIES
  SenderOutlivesOthers
  DropsReportedOnce
CHECK_DEADLOCK FALSE
