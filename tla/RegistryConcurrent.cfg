CONSTANTS
    NoPort = NoPort
    NoPid = NoPid
    ListenPorts = {l1}
    ConfigPorts = {}
    Ports = {p1, p2}
    Requests <- Services
    Pids = {p1, p2}
    Handlers = {h1, h2}
    Ops = {"register", "unregister", "switch", "switchAll"}
    Mortal = {p1, p2}
    BindMayFail = TRUE
    MayHalt = TRUE
    MayTear = TRUE
    SaveMayFail = TRUE
SPECIFICATION HSpec
INVARIANTS
    TablesSound
    LockIsReleased
    FileCurrent
    MirrorWhenQuiet
SYMMETRY Symmetry
