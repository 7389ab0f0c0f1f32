\* One list entry and one cached detail, a tunnel's cases one concern
\* at a time; bodies and buffers of a few bytes, three followed sessions.
CONSTANTS
  NoOne = NoOne
  Sessions = {s1, s2}
  Commands = {c1}
  SummaryMax = 1
  DetailCapacity = 1
  BatchSize = 2
  MaxInflight = 1
  Profiles <- MCProfiles
  TunnelCases <- MCTunnelCases
  MaxPermits = 1
  MaxInterim = 2
  BackoffCap = 2
  IdleWindow = 1
  MaxRounds = 2
  Loaders = {"a", "b"}
  Rereads = 1
  MaxKeyFaults = 1
  Texts <- MCTexts
  PageSizes = {0, 2, 9}
  ConfiguredMax = 3
  ScanLimit = 5
  Agent = "a"
  MaxRewrites = 1
  SearchAsks <- MCSearch
  PathAsks <- MCPaths
  TextScanLimit = 26
  MaxHits = 3
  Window = 2
  MatchSlack = 1
  Batch = 2
  Growth = 2
  PathScanLimit = 33
  RootScanLimit = 22
  MaxValue = 8
  MaxMatches = 3
  MaxResult = 20
  MaxDepth = 3
  WatchSessions = {1, 2, 3}
  Matching = {1, 2, 3}
  MaxCount = 2
  PageLimit = 1
  MaxRemovals = 1
SPECIFICATION TrafficSpec
CHECK_DEADLOCK FALSE
CONSTRAINT TrafficBound
INVARIANT NoStaleDetail
