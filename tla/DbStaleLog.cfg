INIT DbInit
NEXT DbNext
CONSTANTS
  DbPlatform = {"ios-simulator"}
  DbNone = DbNone
  DbMaxVersion = 2
  DbMaxJobs = 3
INVARIANT DbNoStaleWal
CHECK_DEADLOCK FALSE
