CONSTANTS
    Daemons = {d1, d2}
    Users = {u1}
    Nobody = Nobody
    Signalled = {d1}
    Mortal = {d1, d2}
SPECIFICATION Spec
INVARIANTS
    TypeOK
    AloneIsReachable
PROPERTIES
    ExitHasDrained
    LaunchedServes
    StoppingEnds
CHECK_DEADLOCK FALSE
