SPECIFICATION MCSpec
\* Launches and commands end at their bounds.
CHECK_DEADLOCK FALSE
SYMMETRY AllSymmetry
CONSTANTS
  l1 = l1
  l2 = l2
  p1 = p1
  p2 = p2
  Unsupported = Unsupported
  Absent = Absent
  Torn = Torn
  Whole = Whole
  Pid <- MCPid
  Profile <- MCProfile
  Limit = 2
  Window = 1
  OneAtATime = TRUE
  MaxTime = 2
  MaxLaunches = 3
  MaxKills = 1
  Byte = {"a", "b", "A", "B", "slash", "bang", "space", "tab", "quote", "backslash", "control"}
  MaxLine = 16
  MaxToken = 3
  MaxTokens = 2
  MaxName = 2
  steam1 = steam1
  steam2 = steam2
  Players <- MCPlayers
  Sets <- MCSets
  Listeners = {1}
  Names = {"ann"}
  Lines <- MCLines
  Requests <- MCRequests
  MaxQueue = 1
  MaxInputs = 2
  MaxLogins = 2
INVARIANTS
  Loadable
  QuarantineExact
  ClientWhole
  EveryDeclaredRoutes
  AdminOnly
  ArgumentsArrive
  ActorIsIssuer
PROPERTY
  QuarantineSticks
