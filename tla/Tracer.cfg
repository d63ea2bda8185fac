CONSTANTS
    Tids = {l, t, u}
    Leader = l
    Binders = {t}
    Signalled = {t}
    NoTid = NoTid
    listen = listen
    backend = backend
    PortMap <- OnePort
    Unmapped = {other}
    NoPort = NoPort
SPECIFICATION Spec
INVARIANTS
    TypeOK
    BindsRewritten
    KnowsOnlyTracees
PROPERTIES
    NothingRunsOn
    RunReturns
CHECK_DEADLOCK FALSE
