CONSTANTS
    Wrapped = TRUE
    Chunks = 3
    Room = 1
SPECIFICATION Spec
INVARIANTS
    TypeOK
    FinishedIsDelivered
PROPERTIES
    OneEndsBoth
CHECK_DEADLOCK FALSE
