SPECIFICATION MCSpec
CONSTANTS
  Part = {"alerts", "kv", "network", "nav", "stores", "values", "telemetry", "files", "tables", "links", "graph"}
  AlNone = AlNone
  AlApp = {a, b}
  AlSettings = {a, "muted"}
  AlInterval = 1
  AlMaxAlerts = 2
  AlMaxTime = 1
  AlMaxRemovals = 1
  KvNoView = KvNoView
  KvEngine = {"asyncStorage", "mmkv", "localStorage"}
  KvKey = {k1}
  KvOp = {"set", "merge", "remove", "clear", "otherTab"}
  KvMaxAttach = 2
  KvMaxCalls = 2
  NfXhr = {x1}
  NfOutcome = {"redirect"}
  NfNone = NfNone
  NfMaxRows = 2
  NfMaxSends = 3
  NfMaxInputs = 4
  NvScreen = {a, b}
  NvAdapter = {"navigation", "reactRouter", "transitionOnly"}
  NvNone = NvNone
  NvMaxMoves = 2
  NvMaxAttach = 2
  NvMaxInputs = 5
  StKind = {"redux", "mobx", "zustand", "jotai", "recoil"}
  StField = {f, g}
  StValue = {u, v}
  StAction = StAction
  StMarker = StMarker
  StRoot = StRoot
  StNone = StNone
  StMaxChanges = 2
  StMaxEdits = 2
  StMaxAttach = 2
  VaKeys <- MCKeys
  VaIds = {o1, o2, o3}
  VaRoot = o1
  VaLeaf = {l}
  VaFunction = VaFunction
  VaDeleted = VaDeleted
  VaMaxDepth = 2
  VaMaxSteps = 3
  TeNone = TeNone
  TeDrop = 1
  TeStall = 1
  TeWindow = 2
  TeThrottle = 2
  TeMaxRows = 1
  TeMaxTime = 5
  DbPlatform = {"android", "ios-simulator"}
  DbNone = DbNone
  DbMaxVersion = 2
  DbMaxJobs = 3
  RlEngine = {"sqlite", "watermelondb"}
  RlSnapshots <- MCSnapshots
  RlPlurals <- MCPlurals
  RlNone = RlNone
  RlMaxReports = 3
  RlMaxClears = 2
  RlMaxSteps = 3
  CoQuery = {"q1", "q2", "q3"}
  CoKey = {"k2"}
  CoUrl = {"u1", "u2"}
  CoOrphan = "?"
  CoNone = CoNone
  CoTokens <- MCTokens
  CoWindow = 0
  CoMaxTime = 1
  GrHeaps <- MCHeaps
  GrLeaf = 0
  GrNone = GrNone
  GrMaxNodes = 4
  GrMaxOpen = 2
  GrInlineMax = 1
  GrDepth = 1
  GrMaxArrivals = 2
INVARIANTS
  AlAttention
  KvViewFollows
  NfRowsHonest
  NvCountedOnce
  StMirrorFollows
  VaRoundTrip
  TeCountedOnce
  DbToldTrue
  RlTableMeant
  GrWellFormed
PROPERTIES
  CoLinkHolds
CHECK_DEADLOCK FALSE
