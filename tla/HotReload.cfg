CONSTANTS
    a = a
    b = b
    q1 = q1
    q2 = q2
    Names = {a, b}
    Ports = {q1, q2}
    Configs <- Files
    Broken = Broken
    Missing = Missing
    Nil = Nil
    Requested = {q1, q2}
    Contested = {q2}
SPECIFICATION Spec
INVARIANTS
    TypeOK
    NoOrphan
PROPERTIES
    KeptService
    ChangeIsApplied
