\* Two commands at once, two ports; a crash, a restart or a failing write in each part.
CONSTANTS
  Ops = {o1, o2}
  Ports = {p1, p2}
  DefaultPort = p1
  User = User
  Mixed = Mixed
  None = None
  CertCommands = {o1, o2}
  Platforms = {"windows", "macos", "linux"}
  Listings <- MCListings
  BridgePlaces <- MCTools
  MaxRoots = 2
  MaxCrashes = 1
  MaxToggles = 2
  Handshakes = {o1, o2, h3}
  TlsHosts = {"h1", "h2"}
  CacheSize = 1
  SlotCap = 0
  MaxClears = 1
  RuleIds = {r1, r2}
  Editors = {o1, o2}
  TracedSessions = {s1}
  MaxCommands = 2
  MaxRestarts = 1
  MaxRuns = 1
  NobodyHolds = NobodyHolds
  RowIds = {1, 2}
  MaxFaults = 1
  MaxCollection = 3
  MaxItem = 2
  MaxEdits = 3
  Editing = {o1, o2}
  MaxWorkspaceCommands = 3
  MaxWorkspaceRestarts = 1
  Exporters = {o1, o2}
  Captures <- MCCaptures
  Selections <- MCSelections
  Folders0 <- MCFolders
  MaxDepth = 3
  MaxSuffix = 2
  Lifetime = 2
  MaxTicks = 3
  MaxTokens = 2
  MaxPlants = 1
SPECIFICATION DesktopSpec
CONSTRAINT Bounded
SYMMETRY Interchangeable
INVARIANTS
  StatusIsTrue OriginalOnDisk RouteIsLive
  CertificateCommandsComplete RulesStayConsistent MigrationsConverge CollectionsStayATree SettingsSurvive
  HostSignedOnce ExportsKeepFiles
