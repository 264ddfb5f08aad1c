CONSTANTS
    m1 = m1
    t1 = t1
    t1b = t1b
    t2 = t2
    x = x
    j1 = j1
    j2 = j2
    j3 = j3
    Miners <- MCMiners
    Tipsets <- MCForks
    Epochs <- MCEpochs
    Msgs <- MCMsgs
    TsHeight <- MCTsHeight
    TsBlocks <- MCTsBlocks
    NoCid = NoCid
    EmptyKey = EmptyKey
    Filter = "mysql"
    Jobs <- MCTwoJobs
    SubmitNodes = 1
    Failures = {"store", "node", "crash"}
SPECIFICATION Spec
SYMMETRY Symmetry
INVARIANTS
    DoubleForkExcused
PROPERTIES
    RecordNeverForgotten
