CONSTANTS
    Wrapped = TRUE
    Chunks = 3
    Room = 1
SPECIFICATION Spec
INVARIANTS
    HalfCloseDelivers
CHECK_DEADLOCK FALSE
