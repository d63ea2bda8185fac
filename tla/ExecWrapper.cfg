CONSTANTS
    w1 = w1
    w2 = w2
    l1 = l1
    l2 = l2
    p1 = p1
    p2 = p2
    NoPort = NoPort
    NoPid = NoPid
    ListenPorts = {l1, l2}
    ConfigPorts = {}
    Ports = {p1, p2}
    Requests <- WRequests
    Pids = {w1, w2}
    Handlers = {w1, w2}
    Ops = {"register", "unregister"}
    Mortal = {}
    BindMayFail = FALSE
    MayHalt = TRUE
    MayTear = FALSE
    SaveMayFail = FALSE
    Wants <- WWants
    Given <- WGiven
SPECIFICATION WSpec
INVARIANTS
    WTypeOK
    RunningIsServed
PROPERTIES
    EndedIsForgotten
    SwitchboardsSpec
CHECK_DEADLOCK FALSE
