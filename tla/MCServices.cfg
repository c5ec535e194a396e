SPECIFICATION Spec
CONSTANTS
  Models = {"a", "b"}
  First = "a"
  SwapIds = {"q1", "q2"}
  Retries = {0, 2}
  SwitchRoutes = {"x", "y"}
  FirstRoute = "x"
  Configs = {"c1", "c2", "c3"}
  MaxSwitches = 5
  MaxChanges = 3
  MaxFrames = 4
  Length = 4
  MaxRetries = 3
  Budget = 3
  CallTimeout = 1
  Delays = {0, 1, 2}
  CallFailures = {"switch", "not_found", "malformed", "credential_invalid", "invalid_request"}
  Writers = {"w"}
  Keep = 2
  Full = 2
  MaxRecords = 8
  MaxCrashes = 2
  Children = {"c1", "c2"}
  Retain = TRUE
  Backend <- MCBackend
  Adapters = {"stub", "own"}
  Ids = {"req-0"}
  Envelopes <- MCEnvelopes
  MaxCalls = 2
  Plugins = {"p", "q"}
  Packages = {"nameless", "posing"}
  Findings <- MCFindings
  Shelf = 1
  GateTime = 1
  MaxTime = 2
  MaxReviews = 2
  Recs = {"r1"}
  TTL = 1
  MaxEvidence = 2
  Listed = {"a", "b"}
  Added = {"d"}
  Found = {"d"}
  Gateways = {}
  Lists = {"l", "m"}
  MaxWork = 3
  Place <- MCPlace
  Visits = {"r1"}
  MaxRuns = 2
  Providers = {"a", "b"}
  UserNames = {"a", "x"}
  Loopback = {"local1", "local2"}
  Elsewhere = {"lan"}
  MaxEdits = 2
  McpIds = {1, 2}
  MayWrite = TRUE
  Posts <- MCPosts
  Guarded = TRUE
  Measured = TRUE
  MaxAsked = 2
INVARIANTS
  ServedModelIsLoaded
  StreamGateIsExact
  RunLeavesNothing
  AuditTellsTheCalls
  AppliedAsConfirmed
  
  TwoGoodRunsShowAll
  FilesTellTheResults
  RouterEntriesAreCurrent
  OneWriterStaysQuiet
  AnswersInTurn
PROPERTIES
  SwapsEnd
  UndoWalksBack
  RollbackRestores
  CallerKeepsContract
  OnlyTheOldestGoes
  OpensForThePresentPackage
  CallsAreAnswered
CHECK_DEADLOCK FALSE
