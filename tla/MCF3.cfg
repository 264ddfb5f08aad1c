CONSTANTS
    m1 = m1
    Miners <- MCMiners
    LeaseTerm = 3
    MaxAttempts = 2
SPECIFICATION F3Spec
CHECK_DEADLOCK FALSE
INVARIANTS
    LeaseKept
    StopExcused
PROPERTIES
    LeaseRecurs
    ClosedLeaves
    StopReturns
