CONSTANTS
  Socket = {s1, s2}
  NoSocket = nosocket
  Candidates <- MCCandidates
  Fallback = "localhost"
  Desktop = "10.0.2.2"
  Hangs = {"localhost"}
  NeedsWarmUp = TRUE
  DelayFirst = TRUE
  MaxQueue = 2
  MaxSends = 4
  MaxDrops = 2

SPECIFICATION FairSpec
INVARIANTS
  OneFuture
  StreamKept
  PinsOpenedHost
PROPERTIES
  CloseIsFinal
  Recovers
CHECK_DEADLOCK FALSE
