CONSTANTS
    l = l
    u1 = u1
    u2 = u2
    alert = alert
    blockMined = blockMined
    mined = mined
    raised = raised
    resolved = resolved
    free = free
    Loop <- MCLoop
    Callers <- MCCallers
    Types <- MCTypes
    Kinds <- MCKinds
    DisabledEvents = {}
    Capacity = 1
    SizeLimit = 2
    MaxEvents = 3
    MaxSecond = 1
    Faults = {"write", "stat", "rename", "create"}
SPECIFICATION AlertingSpec
INVARIANTS
    LossExcused
    InOrder
    AlertMatchesJournal
PROPERTIES
    CloseReturns
    LockReleased
