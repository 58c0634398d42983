SPECIFICATION MCSpec
CONSTANTS
  Workspaces = {w1, w2}
  Sessions = {s1, s2}
  ImWorkspaces = {w2}
  ImSessions = {s2}
  UserAgents = {u}
  Tables = {"messages"}
  MaxRequests = 4
  MaxTurns = 1
  MaxFaults = 1
  None = None
  RecentKeep = 2
  NoId = NoId
  MaxRuns = 2
  MaxRounds = 2
  MaxCalls = 1
  MaxManual = 1
  MaxRestarts = 1
  Ids = {w}
  Peers = {p}
  MaxConns = 2
  MaxMessages = 1
  MaxPeerTurns = 2
  MaxOps = 2
  MaxCrashes = 1
INVARIANTS
  CatalogAgrees
  HistoryIsKept
  TrackedAreLive
PROPERTIES
  AcceptedUnderStoredMode
CHECK_DEADLOCK FALSE
