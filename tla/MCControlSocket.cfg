SPECIFICATION Spec
CONSTANTS
    c1 = c1
    f1 = f1
    r1 = r1
    Absent = Absent
    NotOurs = NotOurs
    NoClient = NoClient
    MaxServers = 2
    MaxCrashes = 1
    Client <- MCClient
    Raw <- MCRaw
    Foreign <- MCForeign
    Backlog = 0
    OneAtATime = TRUE
CHECK_DEADLOCK FALSE
INVARIANTS Reachable DoneAsTold
PROPERTIES CallReturns StopReturns
