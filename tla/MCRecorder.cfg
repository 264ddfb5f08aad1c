CONSTANTS
    m1 = m1
    w1 = w1
    w2 = w2
    Miners <- MCMiners
    Writers <- MCWriters
    MaxEpoch = 3
    ExpireEpoch = 1
    MaxRecordPerQuery = 1
SPECIFICATION RecorderSpec
SYMMETRY Symmetry
INVARIANTS
    KeptUntilExpired
    CleanBelowMin
