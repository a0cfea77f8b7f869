SPECIFICATION Spec
CONSTANTS
    l1 = l1
    l2 = l2
    p1 = p1
    p2 = p2
    Unsupported = Unsupported
    Absent = Absent
    Torn = Torn
    Whole = Whole
    Pid <- MCPid
    Profile <- MCProfile
    Limit = 2
    Window = 1
    OneAtATime = TRUE
    MaxTime = 0
    MaxLaunches = 4
    MaxKills = 1
SYMMETRY Symmetry
CHECK_DEADLOCK FALSE
INVARIANT CrashesCount
