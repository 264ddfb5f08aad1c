CONSTANTS
    m1 = m1
    t1 = t1
    t1x = t1x
    t1b = t1b
    t2 = t2
    t2b = t2b
    t3b = t3b
    x = x
    j1 = j1
    j2 = j2
    j3 = j3
    Miners <- MCMiners
    Tipsets <- MCReorgs
    Epochs <- MCThreeEpochs
    Msgs <- MCMsgs
    TsHeight <- MCTsHeight
    TsTicket <- MCTsTicket
    TsBlocks <- MCTsBlocks
    NoCid = NoCid
    EmptyKey = EmptyKey
    MaxNulls = 1
    Filter = "local"
    Jobs <- MCJobs
    SubmitNodes = 0
    Failures = {"store", "node", "crash"}
    Reorgs = TRUE
    Prompt = TRUE
SPECIFICATION MiningSpec
SYMMETRY Symmetry
CHECK_DEADLOCK FALSE
INVARIANTS
    WorkFollowsLast
    FaultCostsARecord
