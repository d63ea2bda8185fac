CONSTANTS
    NoPort = NoPort
    Ports = {p1}
    Conns = {c1, c2}
    Stoppers = {s1, s2}
    Requests <- OwnLabels
    HealthEnabled = FALSE
    UnhealthyAfter = 1
    Phase1 = TRUE
SPECIFICATION Spec
INVARIANTS
    ConnAccounting
PROPERTIES
    StopReturns
    SeveredEnds
CHECK_DEADLOCK FALSE
