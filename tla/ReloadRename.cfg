CONSTANTS
    a = a
    b = b
    q1 = q1
    q2 = q2
    Names = {a, b}
    Ports = {q1, q2}
    Configs <- Files
    Broken = Broken
    Missing = Missing
    Nil = Nil
    Requested = {}
    Contested = {}
SPECIFICATION SafeSpec
PROPERTIES
    ConfiguredIsServed
