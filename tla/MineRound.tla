------------------------------ MODULE MineRound ------------------------------
(***************************************************************************)
(* miner/multiminer.go: one mining round, mineOneForAll and mineOne, with  *)
(* the warm-up of miner/warmup.go and the writers of minerWPPMap.          *)
(*                                                                         *)
(* mineOneForAll holds lkWPP and starts, for every miner, a waiter and the *)
(* worker goroutine of mineOne, joined by an unbuffered channel of their   *)
(* own.  A waiter gives up after MinerOnceTimeout; its worker does not.    *)
(* Such a straggler goes on reading minerWPPMap, without the lock, and the *)
(* MiningBase it points to, which the loop moves to later epochs, and it   *)
(* writes to the slash filter's table (the local filter ignores these      *)
(* writes).  Rounds are numbered; a MiningBase is named after the first    *)
(* round on it.                                                            *)
(***************************************************************************)
EXTENDS Naturals, FiniteSets, Sequences, SequencesExt

CONSTANTS
    Miners,
    MaxRounds,      \* bound: rounds explored
    MaxEpoch,       \* bound: epochs mined at
    MaxStragglers,  \* bound: workers of one miner that may be left over at once
    MaxErrCounts    \* DefaultMaxErrCounts

ASSUME RoundAssumption ==
    /\ MaxRounds \in Nat \ {0}
    /\ MaxEpoch \in Nat \ {0}
    /\ MaxStragglers \in Nat \ {0}
    /\ MaxErrCounts \in Nat \ {0, 1}

RoundIds == 1 .. MaxRounds
MinedEpochs == 1 .. MaxEpoch
Workers == RoundIds \X Miners
Rows == Miners \X (1 .. MaxEpoch + 1)
warmup == 0                         \* what a warm-up's error is listed as

VARIABLES
    alive,      \* the process has not panicked
    wpp,        \* the keys of minerWPPMap
    inRound,    \* mineOneForAll holds lkWPP
    round,      \* the current round, or the last one
    obj,        \* the MiningBase a round was given
    baseEpoch,  \* TipSet.Height + NullRounds + 1 of a MiningBase, as it is now
    epoch,      \* the same as a round's workers copied it
    worker,     \* the next step of a round's worker for a miner
    result,     \* what the worker has to send
    waiting,    \* miners whose waiter has not returned
    wins,       \* winPoSts: the <<round, miner>> of the results collected
    outcome,    \* history: how a round ended for a miner
    row,        \* the state and the writer in the table's row of a miner and epoch
    errs,       \* minerWPP.err: the rounds whose failures are listed
    failed,     \* history: the last failure to list since the minerWPP was made
    warming,    \* miners whose warm-up goroutine runs
    warmed,     \* winPoStWarmup has been called
    raced       \* history: minerWPPs that a warm-up has written to

baseVars == <<round, obj, baseEpoch, epoch>>
listVars == <<errs, failed, raced>>
warmVars == <<warming, warmed>>
roundVars == <<alive, wpp, inRound, baseVars, worker, result, waiting, wins, outcome,
               row, listVars, warmVars>>

WorkerSteps == {"none", "info", "ticket", "winner", "record", "proof", "send", "gone"}
Results == {"none", "nothing", "error", "wonError", "won"}
Outcomes == Results \cup {"timeout", "unrecorded"}
NoRow == [state |-> "none", by |-> 0]

MineRoundTypeOK ==
    /\ alive \in BOOLEAN
    /\ wpp \subseteq Miners
    /\ inRound \in BOOLEAN
    /\ round \in 0 .. MaxRounds
    /\ obj \in [RoundIds -> 0 .. MaxRounds]
    /\ baseEpoch \in [RoundIds -> 0 .. MaxEpoch + 1]
    /\ epoch \in [RoundIds -> 0 .. MaxEpoch]
    /\ worker \in [Workers -> WorkerSteps]
    /\ result \in [Workers -> Results]
    /\ waiting \subseteq Miners
    /\ wins \subseteq Workers
    /\ outcome \in [Workers -> Outcomes]
    /\ row \in [Rows -> [state : {"none", "Mining", "Error", "Timeout"}, by : 0 .. MaxRounds]]
    /\ errs \in [Miners -> Seq(0 .. MaxRounds)]
    /\ failed \in [Miners -> 0 .. MaxRounds]
    /\ warming \subseteq Miners
    /\ warmed \in BOOLEAN
    /\ raced \subseteq Miners

MineRoundInit ==
    /\ alive = TRUE
    /\ wpp \in SUBSET Miners
    /\ inRound = FALSE
    /\ round = 0
    /\ obj = [r \in RoundIds |-> 0]
    /\ baseEpoch = [r \in RoundIds |-> 0]
    /\ epoch = [r \in RoundIds |-> 0]
    /\ worker = [w \in Workers |-> "none"]
    /\ result = [w \in Workers |-> "none"]
    /\ waiting = {}
    /\ wins = {}
    /\ outcome = [w \in Workers |-> "none"]
    /\ row = [k \in Rows |-> NoRow]
    /\ errs = [m \in Miners |-> <<>>]
    /\ failed = [m \in Miners |-> 0]
    /\ warming = {}
    /\ warmed = FALSE
    /\ raced = {}

------------------------------------------------------------------------------
(* minerWPPMap and its writers *)

\* Workers that read minerWPPMap, or are about to, without lkWPP.
Readers == {w \in Workers : worker[w] \in {"ticket", "winner"}}

\* The runtime may abort on a map written while it is read.
MayAbort == alive' = TRUE \/ (alive' = FALSE /\ (Readers # {} \/ warming # {}))

\* A new minerWPP has no errors.
Fresh(ms) ==
    /\ errs' = [m \in Miners |-> IF m \in ms THEN <<>> ELSE errs[m]]
    /\ failed' = [m \in Miners |-> IF m \in ms THEN 0 ELSE failed[m]]
    /\ raced' = raced \ ms

\* mutant: ManualStart without lkWPP
InsertUnlocked(m) ==
    /\ alive
    /\ MayAbort
    /\ wpp' = wpp \cup {m}
    /\ Fresh({m})
    /\ UNCHANGED <<inRound, baseVars, worker, result, waiting, wins, outcome, row, warmVars>>

\* ManualStart
Insert(m) ==
    /\ alive /\ ~inRound
    /\ MayAbort
    /\ wpp' = wpp \cup {m}
    /\ Fresh({m})
    /\ UNCHANGED <<inRound, baseVars, worker, result, waiting, wins, outcome, row, warmVars>>

\* ManualStop
Delete(m) ==
    /\ alive /\ ~inRound
    /\ MayAbort
    /\ wpp' = wpp \ {m}
    /\ Fresh({m})
    /\ UNCHANGED <<inRound, baseVars, worker, result, waiting, wins, outcome, row, warmVars>>

\* UpdateAddress puts another map, with new minerWPPs, in its place.
Swap(ms) ==
    /\ alive /\ ~inRound
    /\ wpp' = ms
    /\ Fresh(Miners)
    /\ UNCHANGED <<alive, inRound, baseVars, worker, result, waiting, wins, outcome, row, warmVars>>

------------------------------------------------------------------------------
(* The round: mineOneForAll *)

\* Between rounds: the workers of m that still run, or wait for a receiver.
Stragglers(m) == {w \in Workers : w[2] = m /\ worker[w] \notin {"none", "gone"}}

\* base.NullRounds++
NullRound(e) == e + 1

\* The loop counts a null round on the previous base if nobody has won, and then
\* mines on this object again or, for a new head, on a new one, also while workers of
\* earlier rounds still run.  Epochs are counted from the first round's.
BeginRound(o, e) ==
    LET r == round + 1
        moved == IF round # 0 /\ wins = {}
                 THEN [baseEpoch EXCEPT ![obj[round]] = NullRound(@)] ELSE baseEpoch
    IN
    /\ alive /\ ~inRound
    /\ r \in RoundIds
    /\ \A m \in wpp : Cardinality(Stragglers(m)) < MaxStragglers
    /\ e \in MinedEpochs
    /\ round = 0 => e = 1
    /\ o = r \/ (round # 0 /\ wins = {} /\ o = obj[round] /\ e = moved[o])
    /\ round' = r
    /\ obj' = [obj EXCEPT ![r] = o]
    /\ baseEpoch' = [moved EXCEPT ![o] = e]
    /\ epoch' = [epoch EXCEPT ![r] = e]
    /\ inRound' = TRUE
    /\ worker' = [w \in Workers |-> IF w \in {r} \X wpp THEN "info" ELSE worker[w]]
    /\ waiting' = wpp
    /\ wins' = {}
    /\ UNCHANGED <<alive, wpp, result, outcome, row, listVars, warmVars>>

\* PutBlock of the MySQL filter, which may fail; a Timeout makes no new row.
PutBlock(w, e, state) ==
    LET k == <<w[2], e>> IN
    \/ /\ state # "Timeout" \/ row[k] # NoRow
       /\ row' = [row EXCEPT ![k] = [state |-> state, by |-> w[1]]]
    \/ UNCHANGED row

\* mutant: the oldest error goes, and the cut comes last
ListErrorFirst(m, full) ==
    /\ LET longer == Append(errs[m], round)
       IN  errs' = [errs EXCEPT ![m] = IF full THEN SubSeq(longer, 1, MaxErrCounts - 2) ELSE longer]
    /\ failed' = [failed EXCEPT ![m] = round]
    /\ UNCHANGED raced

\* A list that is full is cut to its oldest entries; the new one comes last.
ListError(m, full) ==
    /\ LET kept == IF full THEN SubSeq(errs[m], 1, MaxErrCounts - 2) ELSE errs[m]
       IN  errs' = [errs EXCEPT ![m] = Append(kept, round)]
    /\ failed' = [failed EXCEPT ![m] = round]
    /\ UNCHANGED raced

\* mutant: the waiter only waits for the channel
NeverTimeOut(m) == FALSE /\ UNCHANGED roundVars

\* The waiter of m gives up.
TimeOut(m) ==
    /\ alive /\ m \in waiting
    /\ PutBlock(<<round, m>>, epoch[round], "Timeout")
    /\ ListError(m, Len(errs[m]) >= MaxErrCounts)
    /\ outcome' = [outcome EXCEPT ![<<round, m>>] = "timeout"]
    /\ waiting' = waiting \ {m}
    /\ UNCHANGED <<alive, wpp, inRound, baseVars, worker, result, wins, warmVars>>

SharedChannel(r, m) == {<<s, m>> : s \in RoundIds}      \* mutant

\* The senders on the channel that mineOne made for this round and miner.
Channel(r, m) == {<<r, m>>}

\* ... or takes the result from the worker's channel.
Receive(m, w) ==
    /\ alive /\ m \in waiting
    /\ w \in Channel(round, m)
    /\ worker[w] = "send"
    /\ IF result[w] = "wonError"
       THEN PutBlock(<<round, m>>, baseEpoch[obj[round]], "Error") ELSE UNCHANGED row
    /\ IF result[w] \in {"error", "wonError"}
       THEN ListError(m, Len(errs[m]) > MaxErrCounts) ELSE UNCHANGED listVars
    /\ wins' = IF result[w] = "won" THEN wins \cup {w} ELSE wins
    /\ outcome' = [outcome EXCEPT ![<<round, m>>] =
                      IF result[w] = "wonError" /\ row' = row THEN "unrecorded" ELSE result[w]]
    /\ worker' = [worker EXCEPT ![w] = "gone"]
    /\ result' = [result EXCEPT ![w] = "none"]
    /\ waiting' = waiting \ {m}
    /\ UNCHANGED <<alive, wpp, inRound, baseVars, warmVars>>

EndRound ==
    /\ alive /\ inRound
    /\ waiting = {}
    /\ inRound' = FALSE
    /\ UNCHANGED <<alive, wpp, baseVars, worker, result, waiting, wins, outcome, row,
                   listVars, warmVars>>

------------------------------------------------------------------------------
(* The worker: mineOne *)

Goto(w, step) ==
    /\ worker' = [worker EXCEPT ![w] = step]
    /\ UNCHANGED result

\* Ready to send, with nobody to receive it if the waiter has left.
Send(w, res) ==
    /\ worker' = [worker EXCEPT ![w] = "send"]
    /\ result' = [result EXCEPT ![w] = res]

notWorker == <<alive, wpp, inRound, baseVars, waiting, wins, outcome, listVars, warmVars>>

\* MinerGetBaseInfo: an error; no base info or not eligible; or go on.
GetBaseInfo(w) ==
    /\ alive /\ worker[w] = "info"
    /\ Send(w, "error") \/ Send(w, "nothing") \/ Goto(w, "ticket")
    /\ UNCHANGED <<notWorker, row>>

\* computeTicket looks the account up and has the ticket signed.
ComputeTicket(w) ==
    /\ alive /\ worker[w] = "ticket"
    /\ Send(w, "error") \/ (w[2] \in wpp /\ Goto(w, "winner"))
    /\ UNCHANGED <<notWorker, row>>

\* The election proof, signed by the wallet: an error, no win or a win.
IsRoundWinner(w) == Send(w, "error") \/ Send(w, "nothing") \/ Goto(w, "record")

\* The account is looked up once more.
CheckWinner(w) ==
    /\ alive /\ worker[w] = "winner"
    /\ IF w[2] \in wpp THEN IsRoundWinner(w) ELSE Send(w, "error")
    /\ UNCHANGED <<notWorker, row>>

\* mutant: the row of the previous round
RecordAtParent(w) ==
    /\ alive /\ worker[w] = "record"
    /\ baseEpoch[obj[w[1]]] > 1
    /\ PutBlock(w, baseEpoch[obj[w[1]]] - 1, "Mining")
    /\ Goto(w, "proof")
    /\ UNCHANGED notWorker

\* The winner is recorded at the epoch its base has by now.
RecordMining(w) ==
    /\ alive /\ worker[w] = "record"
    /\ PutBlock(w, baseEpoch[obj[w[1]]], "Mining")
    /\ Goto(w, "proof")
    /\ UNCHANGED notWorker

\* Randomness, network version and proof.
ComputeProof(w) ==
    /\ alive /\ worker[w] = "proof"
    /\ Send(w, "wonError") \/ Send(w, "won")
    /\ UNCHANGED <<notWorker, row>>

------------------------------------------------------------------------------
(* The warm-up *)

\* winPoStWarmup, when the loop starts: one goroutine per miner.
Warmup ==
    /\ alive /\ ~inRound
    /\ ~warmed
    /\ warmed' = TRUE
    /\ warming' = wpp
    /\ UNCHANGED <<alive, wpp, inRound, baseVars, worker, result, waiting, wins, outcome, row,
                   listVars>>

\* winPostWarmupForMiner succeeded, or found no sector.
WarmupDone(m) ==
    /\ alive /\ m \in warming
    /\ warming' = warming \ {m}
    /\ UNCHANGED <<alive, wpp, inRound, baseVars, worker, result, waiting, wins, outcome, row,
                   listVars, warmed>>

\* The error is appended without the lock: nothing to append to once the miner has
\* been removed; in a race with a waiter either entry may be lost.
WarmupFailed(m) ==
    /\ alive /\ m \in warming
    /\ \/ /\ m \notin wpp
          /\ alive' = FALSE
          /\ UNCHANGED <<listVars, warming>>
       \/ /\ m \in wpp
          /\ errs' \in {[errs EXCEPT ![m] = s] :
                          s \in {Append(errs[m], warmup)} \cup
                                IF inRound /\ errs[m] # <<>>
                                THEN {errs[m], Append(Front(errs[m]), warmup)} ELSE {}}
          /\ raced' = raced \cup {m}
          /\ warming' = warming \ {m}
          /\ UNCHANGED <<alive, failed>>
    /\ UNCHANGED <<wpp, inRound, baseVars, worker, result, waiting, wins, outcome, row,
                   warmed>>

------------------------------------------------------------------------------
WorkerStep(w) ==
    \/ GetBaseInfo(w) \/ ComputeTicket(w) \/ CheckWinner(w) \/ RecordMining(w) \/ ComputeProof(w)

MineRoundNext ==
    \/ \E m \in Miners : Insert(m) \/ Delete(m)
    \/ \E ms \in SUBSET Miners : Swap(ms)
    \/ \E o \in RoundIds, e \in MinedEpochs : BeginRound(o, e)
    \/ \E m \in Miners : TimeOut(m) \/ (\E w \in Workers : Receive(m, w))
    \/ EndRound
    \/ \E w \in Workers : WorkerStep(w)
    \/ Warmup
    \/ \E m \in Miners : WarmupDone(m) \/ WarmupFailed(m)

(***************************************************************************)
(* The timer of a waiter fires and the waiters' own calls return.  Nothing *)
(* is assumed of the workers: the node, the wallet or the prover may never *)
(* answer.                                                                 *)
(***************************************************************************)
MineRoundSpec ==
    /\ MineRoundInit
    /\ [][MineRoundNext]_roundVars
    /\ WF_roundVars(EndRound \/ \E m \in Miners : TimeOut(m))

------------------------------------------------------------------------------
(* Properties *)

\* A proof that comes after its waiter's timeout (multiminer.go:696) is never used,
\* in the round it was for or a later one, and only a timeout leaves a worker
\* stuck on its channel.
NoStaleWin ==
    /\ \A w \in wins : w[1] = round /\ outcome[w] = "won"
    /\ \A w \in Workers : worker[w] = "send" /\ ~(w[1] = round /\ w[2] \in waiting)
                            => outcome[w] = "timeout"

\* A row of the table says at which epoch and how the round of its writer ended for
\* the miner (multiminer.go:699-729 and 938-945), unless that round ended in a
\* timeout, after which its worker may still write, or the Error could not be written.
RowExcused ==
    \A m \in Miners, e \in 1 .. MaxEpoch + 1 :
       LET k == row[<<m, e>>]
           w == <<k.by, m>>
       IN k # NoRow =>
            \/ /\ epoch[k.by] = e
               /\ k.state = "Mining" => outcome[w] \in {"none", "won"}
               /\ k.state = "Error" => outcome[w] = "wonError"
            \/ outcome[w] \in {"timeout", "unrecorded"}

\* The error list of a miner (multiminer.go:712-740) stays within one entry of its
\* limit and ends with the latest failure, unless a warm-up has written to it.
ErrorListed ==
    \A m \in wpp :
       /\ Len(errs[m]) <= MaxErrCounts + (IF m \in raced THEN 2 ELSE 1)
       /\ failed[m] # 0 /\ m \notin raced => errs[m] # <<>> /\ Last(errs[m]) = failed[m]

\* The process only dies through a goroutine that reads minerWPPMap after lkWPP was
\* given up: a worker whose waiter has timed out, or a warm-up (warmup.go:28).
DeathExcused ==
    alive \/ warming # {} \/ \E w \in Readers : outcome[w] = "timeout"

\* Every round gives lkWPP back (multiminer.go:751), whatever the nodes, wallets and
\* provers it calls do.
RoundEnds == inRound ~> (~inRound \/ ~alive)
==============================================================================
