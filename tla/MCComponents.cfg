SPECIFICATION Spec
CONSTANTS
  Passwords <- MCPasswords
  Hashers <- MCHashers
  Policies <- MCPolicies
  Imported <- MCImported
  Subjects = {"u1", "u2"}
  Secrets = {"", "s1", "s2"}
  HostClaims <- MCHostClaims
  TTLs = {0, 1, 3}
  PendingTTL = 4
  Second = 2
  MaxClock = 5
  MaxTokens = 2
  Configs <- MCConfigs
  NoEngine = NoEngine
  Intents <- MCIntents
  Callers = {0, 1, 2}
  Tables <- MCTables
  MaxLimit = 2
  DefaultLimit = 2
  Null = Null
  Listings <- MCListings
  Places <- MCPlaces
  Trees <- MCTrees
  Contexts = {"nil", "request"}
  Levels <- MCLevels
  Records <- MCRecords
  NoWrite = NoWrite
  Limit = 3
  Window = 5
  MaxHits = 4
  Processes = {p1, p2, p3}
  Files = 2
  Statements = 2
  Nobody = Nobody
  MaxCrashes = 2
INVARIANTS
  SwitchLocksNobodyOut
  TokenSpeaksForItsUser
  CallsFindTheirParts
  AnswerIsTheCallersOwn
  ListingNamesEverySession
  EverySinkGetsItsRecord
  BurstBounded
PROPERTIES
  RehashConverges
  DeniedIsLetIn
  UpgradesByVersion
  StartedServe
\* A component may have nothing left to do.
CHECK_DEADLOCK FALSE
