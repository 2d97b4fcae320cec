SPECIFICATION MCSpec
CONSTANTS
  Part = {"updater", "snapshots", "sdk", "queries", "panels"}
  UpNone = UpNone
  UpMaxVersion = 2
  UpMaxCalls = 7
  t1 = t1
  t2 = t2
  SnNone = SnNone
  SnEngine = {"sqlite", "realm", "watermelondb"}
  SnTables <- MCTables
  SnCall = {1, 2}
  SnMaxWrites = 2
  LcOption <- MCOptions
  LcManual = {"console"}
  LcMaxHandles = 2
  LcMaxPatches = 9
  QaHash = {h1}
  QaData = {d1, d2}
  QaMaxAttach = 2
  QaMaxFrames = 2
  QaMaxTime = 1
  QaMaxApp = 2
  EdEntry <- MCEntries
  EdPath = {"p"}
  EdValue = {"u"}
  EdNone = EdNone
  EdMaxReports = 3
  EdMaxSaves = 1
  EdMaxVisits = 1
INVARIANTS
  UpReadyInstalls
  LcHandlesHonest
  QaHonest
  EdDraftHome
PROPERTIES
  UpUnsticks
  SnHeals
CHECK_DEADLOCK FALSE
