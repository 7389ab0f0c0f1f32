\* Two agents at once, grants of two uses, changes of one or two rules, a rate limit of two.
CONSTANTS
  Snapshots <- MCSnapshots
  ScriptReturns <- MCScriptReturns
  Payloads <- MCPayloads
  MaxScripts = 1
  Letters = {"a", "b"}
  MaxLetters = 5
  MaxPattern = 4
  ChunkBytes = 2
  DelayCap = 2
  HookCalls = {k1, k2, q3, q4}
  MaxThreads = 2
  MaxEntries = 2
  Scripts <- MCScripts
  Conns = {k1, k2}
  Caps = {"manage", "read"}
  Repeatable = {"read"}
  ControlOps = {"write"}
  Needs <- MCNeeds
  Reads = {}
  NonIdempotent = {FALSE}
  MaxUses = 2
  MaxGrants = 2
  MaxConnections = 2
  MaxIds = 2
  MaxSettings = 1
  Starts <- MCStarts
  Rules = {a, b}
  Contents = {1, 2}
  Keys = {k1, k2}
  UserRules = {a}
  Allowances <- MCAllowances
  Labels = {"a", "b"}
  MaxLabels = 2
  PlanIds = {"i1", "i2"}
  MaxItems = 2
  RateLimit = 2
  Window = 2
  MaxClock = 2
  MaxRequests = 2
  MaxCaptured = 2
  Tools = {"apply_automation_plan", "list_agent_rules", "get_app_status", "search_sessions", "get_session_body"}
  MaxInstances = 2
SPECIFICATION RulesSpec
CONSTRAINT Bounded
SYMMETRY Interchangeable
CHECK_DEADLOCK FALSE
INVARIANTS
  DeclaredAsCarried AlgorithmsMeetTheirMeaning HooksShareTheGate
  ApprovalBoundsWork AutomationAgrees ChecksAreSound VerifiedOnEvidence AnswersAreTrue
PROPERTIES TerminalIsFinal UserRulesKept
