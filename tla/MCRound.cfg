CONSTANTS
    m1 = m1
    Miners <- MCMiners
    MaxRounds = 3
    MaxEpoch = 2
    MaxStragglers = 2
    MaxErrCounts = 2
SPECIFICATION MineRoundSpec
CHECK_DEADLOCK FALSE
INVARIANTS
    NoStaleWin
    RowExcused
    ErrorListed
    DeathExcused
PROPERTIES
    RoundEnds
