CONSTANTS
    m1 = m1
    t1 = t1
    t1x = t1x
    t1f = t1f
    t2 = t2
    x = x
    Miners <- MCMiners
    Tipsets <- MCTipsets
    Epochs <- MCEpochs
    Msgs <- MCMsgs
    TsHeight <- MCTsHeight
    TsTicket <- MCTsTicket
    TsBlocks <- MCTsBlocks
    NoCid = NoCid
    EmptyKey = EmptyKey
    MaxNulls = 1
SPECIFICATION FairLoopSpec
PROPERTIES
    ImplementsRounds
    StopReturns
    StableHeadIsMined
