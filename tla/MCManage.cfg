CONSTANTS
    m1 = m1
    c1 = c1
    Miners <- MCMiners
    Callers <- MCCallers
    poller = poller
    Failures = {"auth", "prover"}
SPECIFICATION FairManageSpec
INVARIANT StopHolds
PROPERTIES
    ClosedIsDropped
    OpenIsMined
