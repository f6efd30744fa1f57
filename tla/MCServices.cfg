CONSTANTS
  Procs = {w1, w2}
  Spare = 2
  MaxCrashes = 1
  NoFile = NoFile
  Watched = {}
  Folders = {"w", "wn"}
  FolderLists <- MCFolderLists
  Holds <- MCHolds
  Canon <- MCCanon
  MaxInstances = 2
  MaxReconciles = 1
  MaxChildren = 3
  Calls = {c1, c2}
  ConfigOps = {"t", "a", "i"}
  OpKind <- MCOpKind
  OpName <- MCOpName
  Viewers = {v1}
  MaxFetches = 1
  IxPaths = {"a", "s"}
  Versions = {"v1", "v2"}
  Parts = 2
  MaxChanges = 2
  MaxAttempts = 3
  Panels = {p1, p2}
  MaxLines = 3
  Window = 0
  MaxFim = 2
  MaxPushes = 2
  Chars = {"a", "b"}
  Texts <- MCTexts
  Contexts = {"c1", "c2"}
  Blocked = {"c2"}
  Capacity = 1
  MaxTyped = 2
  MaxRequests = 2
  MaxEngines = 2
  Keys = {1, 2}
  MaxReads = 3
  MaxCalls = 2
  MaxIds = 1
  MaxClients = 2
  MaxEdits = 1
  MaxEvents = 5
  NumTools = 2
  Edits = {2}
  Hunks = 2
  MaxItems = 2
  Paths = {"src", "key", "settings", "out"}
  Outside = {"out"}
  Secret = {"key"}
  Guarded = {"settings"}
  SettingsFiles = {"settings"}
  Scopes <- MCScopes
  MaxPaths = 2
  MaxTurns = 2
  ToolCalls = {t1, t2}
  MaxInFlight = 1
  DocTexts = {"x", "y"}
  MaxVersion = 2
  MaxLives = 2
  MaxPages = 2
  MaxAsked <- MCAsked
  MaxMounts = 2
  Models = {"m", "n"}
  DefaultModel = "m"
  NoModel = "null"
  MaxPicks = 3
  MaxControllers = 2
  MaxTabId = 1
  MaxLoads = 3
  MaxOutages = 2
  MaxPosted = 2
SPECIFICATION Spec
INVARIANTS
  ServicesTypeOK
  ExclusiveUntilStale
  RegistryMatchesFolders
  WritesShown
  IndexFollowsFiles
  AtMostOneChild
  ProposalIsSound
  CardsSettle
  ShownContinues
  KeyKept
  OneShotKept
  ViewIsTrue
  LspIsHonest
PROPERTY ConsentIsEarned
CHECK_DEADLOCK FALSE
