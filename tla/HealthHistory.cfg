CONSTANTS
    Ports = {p1, p2}
    NoPort = NoPort
    UnhealthyAfter = 2
SPECIFICATION HHSpec
INVARIANTS
    CondemnedOnEvidence
PROPERTIES
    ChangeIsNoticed
