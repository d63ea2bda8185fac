CONSTANTS
    NoPort = NoPort
    Ports = {p1, p2}
    Conns = {c1}
    Stoppers = {}
    Requests <- OwnLabels
    HealthEnabled = TRUE
    UnhealthyAfter = 2
    Phase1 = FALSE
SPECIFICATION Spec
INVARIANTS
    TypeOK
    HealthTracksTable
    TableSound
    OneActive
    PickIsListed
PROPERTIES
    SwitchboardSpec
    Failover
    AcceptedSettles
