CONSTANTS
    web = web
    api = api
    db = db
    a = a
    b = b
    NoLabel = NoLabel
    Configured <- ConfiguredPorts
    Dynamic = {api, db}
    Labels = {a, b}
    Tables <- SomeTables
    Chains = 3
SPECIFICATION Spec
INVARIANTS
    TypeOK
PROPERTIES
    SettledIsShown
CHECK_DEADLOCK FALSE
