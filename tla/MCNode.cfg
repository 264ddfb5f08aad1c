CONSTANTS
    p1 = p1
    p2 = p2
    c1 = c1
    c2 = c2
    nobody = nobody
    Procs <- MCProcs
    Clients <- MCClients
SPECIFICATION NodeSpec
INVARIANTS
    OneMines
    ConfigSurvives
    BuiltFromChecked
    VersionAfterUpgrade
PROPERTIES
    ExclusiveUse
    ShutdownReturns
