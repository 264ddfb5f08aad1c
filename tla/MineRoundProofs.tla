--------------------------- MODULE MineRoundProofs ---------------------------
(***************************************************************************)
(* Proofs about MineRound, for any number of miners, rounds, epochs and    *)
(* stragglers and any limit of the error lists.                            *)
(***************************************************************************)
EXTENDS MineRound, SequenceTheorems, TLAPS

\* A round's MiningBase is one of its own or of an earlier round, and stays at the
\* epoch the round was given until the next round.
Bases == round # 0 => obj[round] \in RoundIds /\ baseEpoch[obj[round]] = epoch[round]

\* Rounds to come have left nothing; outside a round nobody waits; whoever is waited
\* for has no outcome yet.
Waiters ==
    /\ \A w \in Workers : w[1] > round => worker[w] = "none" /\ outcome[w] = "none"
    /\ inRound => round # 0
    /\ ~inRound => waiting = {}
    /\ \A m \in waiting : outcome[<<round, m>>] = "none"

\* A worker on its way is waited for, or has been given up.
Watched(w) ==
    worker[w] \in {"none", "gone"} \/ (w[1] = round /\ w[2] \in waiting) \/ outcome[w] = "timeout"

AllWatched == \A w \in Workers : Watched(w)

CollectedWon == \A w \in wins : w[1] = round /\ outcome[w] = "won"

\* The row x that w wrote at epoch e, while w's waiter is there or has taken its result.
Faithful(x, w, e) ==
    /\ epoch[w[1]] = e
    /\ x.state = "Mining" => outcome[w] \in {"none", "won"}
    /\ x.state = "Error" => outcome[w] = "wonError"
    /\ outcome[w] = "none" =>
          worker[w] = "proof" \/ (worker[w] = "send" /\ result[w] \in {"won", "wonError"})

\* A row belongs to a round that has begun.
RowOK(m, e) ==
    LET x == row[<<m, e>>]
        w == <<x.by, m>>
    IN x # NoRow =>
          /\ x.by \in 1 .. round
          /\ outcome[w] \in {"timeout", "unrecorded"} \/ Faithful(x, w, e)

RowsOK == \A m \in Miners, e \in 1 .. MaxEpoch + 1 : RowOK(m, e)

\* A minerWPP is written to by a warm-up at most once.
WarmedOnce ==
    /\ ~warmed => raced = {} /\ warming = {}
    /\ raced \cap warming = {}

ListOK(m) ==
    /\ Len(errs[m]) <= MaxErrCounts + (IF m \in raced THEN 2 ELSE 1)
    /\ failed[m] # 0 /\ m \notin raced => errs[m] # <<>> /\ Last(errs[m]) = failed[m]

ListsOK == \A m \in Miners : ListOK(m)

MineRoundIInv ==
    /\ MineRoundTypeOK
    /\ Bases
    /\ Waiters
    /\ AllWatched
    /\ CollectedWon
    /\ RowsOK
    /\ WarmedOnce
    /\ ListsOK
    /\ DeathExcused

------------------------------------------------------------------------------
(* What the actions of a kind have in common *)

\* A worker is a round and a miner.
LEMMA WorkerPair ==
    /\ \A w \in Workers : w[1] \in RoundIds /\ w[2] \in Miners /\ w = <<w[1], w[2]>>
    /\ \A r \in RoundIds, m \in Miners :
          <<r, m>> \in Workers /\ <<r, m>>[1] = r /\ <<r, m>>[2] = m
  BY DEF Workers

\* Insert, Delete and Swap: outside a round, with minerWPPs made anew.
MapStep(ms) ==
    /\ alive /\ ~inRound
    /\ MayAbort
    /\ wpp' \subseteq Miners
    /\ Fresh(ms)
    /\ UNCHANGED <<inRound, baseVars, worker, result, waiting, wins, outcome, row, warmVars>>

\* The writers of minerWPPMap are such steps.
LEMMA MapSteps ==
    ASSUME MineRoundTypeOK,
           \/ \E m \in Miners : Insert(m) \/ Delete(m)
           \/ \E ms \in SUBSET Miners : Swap(ms)
    PROVE  \E ms \in SUBSET Miners : MapStep(ms)
<1> USE DEF MineRoundTypeOK, MapStep
<1>1. ASSUME NEW m \in Miners, Insert(m) \/ Delete(m) PROVE MapStep({m})
  BY <1>1 DEF Insert, Delete
<1>2. ASSUME NEW ms \in SUBSET Miners, Swap(ms) PROVE MapStep(Miners)
  BY <1>2 DEF Swap, MayAbort
<1> QED BY <1>1, <1>2

\* A worker's step moves that worker, which is neither unstarted nor gone; only
\* RecordMining writes a row.
Moves(w, step, res) ==
    /\ alive /\ worker[w] \notin {"none", "gone"}
    /\ worker' = [worker EXCEPT ![w] = step]
    /\ result' = [result EXCEPT ![w] = res]
    /\ UNCHANGED notWorker
    /\ \/ UNCHANGED row
       \/ step = "proof" /\ PutBlock(w, baseEpoch[obj[w[1]]], "Mining")

\* Where a worker that comes from "proof" goes, and one that goes to "proof" comes from.
Order(w, step, res) ==
    /\ step \notin {"none", "gone"}
    /\ worker[w] = "proof" => step = "send" /\ res \in {"won", "wonError"}
    /\ worker[w] # "send"

\* A step of mineOne is such a step.
LEMMA WorkerMoves ==
    ASSUME MineRoundTypeOK, NEW w \in Workers, WorkerStep(w)
    PROVE  \E step \in WorkerSteps, res \in Results : Moves(w, step, res) /\ Order(w, step, res)
<1>a. worker \in [Workers -> WorkerSteps] /\ result \in [Workers -> Results]
  BY DEF MineRoundTypeOK
<1>b. ASSUME NEW step \in WorkerSteps, Goto(w, step)
      PROVE  worker' = [worker EXCEPT ![w] = step] /\ result' = [result EXCEPT ![w] = result[w]]
  BY <1>a, <1>b DEF Goto
<1>c. result[w] \in Results
  BY <1>a
<1> USE DEF Moves, Order, WorkerSteps, Results
<1>1. CASE GetBaseInfo(w)
  BY <1>1, <1>b, <1>c DEF GetBaseInfo, Send
<1>2. CASE ComputeTicket(w)
  BY <1>2, <1>b, <1>c DEF ComputeTicket, Send
<1>3. CASE CheckWinner(w)
  BY <1>3, <1>b, <1>c DEF CheckWinner, IsRoundWinner, Send
<1>4. CASE RecordMining(w)
  BY <1>4, <1>b, <1>c DEF RecordMining
<1>5. CASE ComputeProof(w)
  BY <1>5, <1>b, <1>c DEF ComputeProof, Send
<1> QED BY <1>1, <1>2, <1>3, <1>4, <1>5 DEF WorkerStep

\* A waiter leaves: the outcome of its round and miner is set.
Leaves(m, out) ==
    /\ alive /\ m \in waiting
    /\ waiting' = waiting \ {m}
    /\ outcome' = [outcome EXCEPT ![<<round, m>>] = out]
    /\ UNCHANGED <<alive, wpp, inRound, baseVars, warmVars>>

\* A waiter that takes the result of its worker.
Takes(m, out) ==
    LET w == <<round, m>> IN
    /\ Leaves(m, out)
    /\ worker[w] = "send" /\ worker' = [worker EXCEPT ![w] = "gone"]
    /\ result' = [result EXCEPT ![w] = "none"]
    /\ \/ out = result[w] /\ out # "wonError" /\ UNCHANGED row
       \/ out = "unrecorded" /\ result[w] = "wonError" /\ UNCHANGED row
       \/ /\ out = "wonError" /\ result[w] = "wonError"
          /\ row' = [row EXCEPT ![<<m, baseEpoch[obj[round]]>>] = [state |-> "Error", by |-> round]]
    /\ wins' = IF out = "won" THEN wins \cup {w} ELSE wins
    /\ UNCHANGED listVars \/ ListError(m, Len(errs[m]) > MaxErrCounts)

\* The two ways a waiter leaves.
LEMMA WaiterLeaves ==
    ASSUME MineRoundTypeOK, NEW m \in Miners
    PROVE  /\ TimeOut(m) => Leaves(m, "timeout")
           /\ \A w \in Workers : Receive(m, w) => \E out \in Outcomes : Takes(m, out)
<1>1. TimeOut(m) => Leaves(m, "timeout")
  BY DEF TimeOut, Leaves
<1>2. ASSUME NEW w \in Workers, Receive(m, w) PROVE \E out \in Outcomes : Takes(m, out)
  <2> DEFINE out == IF result[w] = "wonError" /\ row' = row THEN "unrecorded" ELSE result[w]
  <2>1. w = <<round, m>>
    BY <1>2 DEF Receive, Channel
  <2>2. result[w] \in Results /\ out \in Outcomes
    BY DEF MineRoundTypeOK, Outcomes
  <2>3. Leaves(m, out)
    BY <1>2, <2>1 DEF Receive, Leaves
  <2>4. CASE result[w] = "wonError" /\ row' # row
    <3>1. row' = [row EXCEPT ![<<m, baseEpoch[obj[round]]>>] = [state |-> "Error", by |-> round]]
      BY <1>2, <2>4, <2>1, WorkerPair DEF Receive, PutBlock
    <3> QED BY <1>2, <2>1, <2>2, <2>3, <2>4, <3>1 DEF Receive, Takes
  <2>5. CASE result[w] = "wonError" /\ row' = row
    BY <1>2, <2>1, <2>2, <2>3, <2>5 DEF Receive, Takes
  <2>6. CASE result[w] # "wonError"
    BY <1>2, <2>1, <2>2, <2>3, <2>6 DEF Receive, Takes
  <2> QED BY <2>4, <2>5, <2>6
<1> QED BY <1>1, <1>2

------------------------------------------------------------------------------
(* The error lists *)

\* Appending to a list.
LEMMA AppendTo ==
    ASSUME NEW S, NEW s \in Seq(S), NEW x \in S
    PROVE  /\ Append(s, x) \in Seq(S)
           /\ Append(s, x) # <<>> /\ Last(Append(s, x)) = x
           /\ Len(Append(s, x)) = Len(s) + 1
<1>1. Len(s) \in Nat
  OBVIOUS
<1>2. Append(s, x) \in Seq(S) /\ Len(Append(s, x)) = Len(s) + 1
  OBVIOUS
<1>3. Append(s, x)[Len(s) + 1] = x
  OBVIOUS
<1>4. Append(s, x) # <<>>
  BY <1>1, <1>2
<1> QED BY <1>2, <1>3, <1>4 DEF Last

\* Cutting a list to its first n entries.
LEMMA Cut ==
    ASSUME NEW S, NEW s \in Seq(S), NEW n \in Nat, n <= Len(s)
    PROVE  SubSeq(s, 1, n) \in Seq(S) /\ Len(SubSeq(s, 1, n)) = n
<1>1. ASSUME NEW i \in 1 .. n PROVE s[i] \in S
  <2>1. i \in 1 .. Len(s)
    OBVIOUS
  <2> QED BY <2>1
<1> QED BY <1>1, SubSeqProperties

\* What ListError leaves: a list that ends with the round, one longer than what it kept.
LEMMA Listed ==
    ASSUME MineRoundTypeOK, NEW m \in Miners, NEW full \in BOOLEAN,
           full => Len(errs[m]) >= MaxErrCounts,
           ListError(m, full)
    PROVE  /\ errs' = [errs EXCEPT ![m] = errs'[m]]
           /\ errs'[m] \in Seq(0 .. MaxRounds)
           /\ errs'[m] # <<>> /\ Last(errs'[m]) = round
           /\ Len(errs'[m]) = IF full THEN MaxErrCounts - 1 ELSE Len(errs[m]) + 1
<1> DEFINE S == 0 .. MaxRounds
           kept == IF full THEN SubSeq(errs[m], 1, MaxErrCounts - 2) ELSE errs[m]
<1>1. errs \in [Miners -> Seq(S)] /\ round \in S
  BY DEF MineRoundTypeOK
<1>2. errs[m] \in Seq(S) /\ Len(errs[m]) \in Nat
  BY <1>1
<1>3. kept \in Seq(S) /\ Len(kept) = IF full THEN MaxErrCounts - 2 ELSE Len(errs[m])
  <2>1. CASE full
    <3>1. MaxErrCounts - 2 \in Nat /\ MaxErrCounts - 2 <= Len(errs[m])
      BY <1>2, <2>1, RoundAssumption
    <3>2. SubSeq(errs[m], 1, MaxErrCounts - 2) \in Seq(S)
          /\ Len(SubSeq(errs[m], 1, MaxErrCounts - 2)) = MaxErrCounts - 2
      BY <1>2, <3>1, Cut
    <3> QED BY <2>1, <3>2
  <2>2. CASE ~full
    BY <1>2, <2>2
  <2> QED BY <2>1, <2>2
<1>4. errs' = [errs EXCEPT ![m] = Append(kept, round)]
  BY DEF ListError
<1>5. errs'[m] = Append(kept, round)
  BY <1>1, <1>4
<1> HIDE DEF kept, S
<1>6. /\ Append(kept, round) \in Seq(S)
      /\ Append(kept, round) # <<>> /\ Last(Append(kept, round)) = round
      /\ Len(Append(kept, round)) = Len(kept) + 1
  BY <1>1, <1>3, AppendTo
<1>7. Len(errs'[m]) = IF full THEN MaxErrCounts - 1 ELSE Len(errs[m]) + 1
  BY <1>2, <1>3, <1>5, <1>6, RoundAssumption
<1> QED BY <1>4, <1>5, <1>6, <1>7 DEF S

\* What a warm-up leaves: a list that is at most one entry longer.
LEMMA WarmupListed ==
    ASSUME MineRoundTypeOK, NEW m \in Miners,
           errs' \in {[errs EXCEPT ![m] = s] :
                          s \in {Append(errs[m], warmup)} \cup
                                IF inRound /\ errs[m] # <<>>
                                THEN {errs[m], Append(Front(errs[m]), warmup)} ELSE {}}
    PROVE  /\ errs' = [errs EXCEPT ![m] = errs'[m]]
           /\ errs'[m] \in Seq(0 .. MaxRounds)
           /\ Len(errs'[m]) <= Len(errs[m]) + 1
<1> DEFINE S == 0 .. MaxRounds
<1>1. errs \in [Miners -> Seq(S)] /\ warmup \in S
  BY RoundAssumption DEF MineRoundTypeOK, warmup
<1>2. errs[m] \in Seq(S) /\ Len(errs[m]) \in Nat
  BY <1>1
<1>3. PICK s \in {Append(errs[m], warmup)} \cup
                   IF inRound /\ errs[m] # <<>>
                   THEN {errs[m], Append(Front(errs[m]), warmup)} ELSE {} :
         errs' = [errs EXCEPT ![m] = s]
  OBVIOUS
<1>4. errs'[m] = s
  BY <1>1, <1>3
<1> HIDE DEF S
<1>5. CASE s = Append(errs[m], warmup)
  <2>1. s \in Seq(S) /\ Len(s) = Len(errs[m]) + 1
    BY <1>1, <1>2, <1>5, AppendTo
  <2>2. Len(s) <= Len(errs[m]) + 1
    BY <1>2, <2>1
  <2> QED BY <1>3, <1>4, <2>1, <2>2 DEF S
<1>6. CASE s = errs[m]
  BY <1>2, <1>3, <1>4, <1>6 DEF S
<1>7. CASE errs[m] # <<>> /\ s = Append(Front(errs[m]), warmup)
  <2>1. Len(errs[m]) # 0
    BY <1>2, <1>7, EmptySeq
  <2>2. Len(errs[m]) - 1 \in Nat /\ Len(errs[m]) - 1 <= Len(errs[m])
    BY <1>2, <2>1
  <2>3. Front(errs[m]) \in Seq(S) /\ Len(Front(errs[m])) = Len(errs[m]) - 1
    BY <1>2, <2>2, Cut DEF Front
  <2>4. s \in Seq(S) /\ Len(s) = Len(Front(errs[m])) + 1
    BY <1>1, <1>7, <2>3, AppendTo
  <2>5. Len(s) <= Len(errs[m]) + 1
    BY <1>2, <2>3, <2>4
  <2> QED BY <1>3, <1>4, <2>4, <2>5 DEF S
<1>8. \/ s = Append(errs[m], warmup)
      \/ errs[m] # <<>> /\ (s = errs[m] \/ s = Append(Front(errs[m]), warmup))
  <2> DEFINE a == Append(errs[m], warmup)
             f == Append(Front(errs[m]), warmup)
  <2>1. s \in {a} \cup IF inRound /\ errs[m] # <<>> THEN {errs[m], f} ELSE {}
    BY <1>3
  <2> HIDE DEF a, f
  <2>2. s = a \/ (errs[m] # <<>> /\ (s = errs[m] \/ s = f))
    BY <2>1
  <2> QED BY <2>2 DEF a, f
<1> QED BY <1>5, <1>6, <1>7, <1>8

------------------------------------------------------------------------------
(* Type correctness *)

RowContents == [state : {"none", "Mining", "Error", "Timeout"}, by : 0 .. MaxRounds]

\* A row that PutBlock writes.
LEMMA RowType ==
    ASSUME MineRoundTypeOK, NEW r \in 0 .. MaxRounds, NEW k,
           NEW state \in {"Mining", "Error", "Timeout"}
    PROVE  [row EXCEPT ![k] = [state |-> state, by |-> r]] \in [Rows -> RowContents]
<1>1. [state |-> state, by |-> r] \in RowContents
  BY DEF RowContents
<1>2. row \in [Rows -> RowContents]
  BY DEF MineRoundTypeOK, RowContents
<1> HIDE DEF RowContents
<1> QED BY <1>1, <1>2

\* The MiningBase of the last round is moved to an epoch that has a row.
LEMMA BeginTypes ==
    ASSUME MineRoundTypeOK, Bases, NEW o \in RoundIds, NEW e \in MinedEpochs, BeginRound(o, e)
    PROVE  /\ round' = round + 1 /\ round' \in RoundIds
           /\ obj' = [obj EXCEPT ![round'] = o]
           /\ epoch' = [epoch EXCEPT ![round'] = e]
           /\ baseEpoch' \in [RoundIds -> 0 .. MaxEpoch + 1]
           /\ baseEpoch'[o] = e
<1> DEFINE moved == IF round # 0 /\ wins = {}
                    THEN [baseEpoch EXCEPT ![obj[round]] = NullRound(@)] ELSE baseEpoch
<1>1. moved \in [RoundIds -> 0 .. MaxEpoch + 1]
  <2>1. ASSUME round # 0 PROVE NullRound(baseEpoch[obj[round]]) \in 0 .. MaxEpoch + 1
    <3>1. round \in RoundIds
      BY <2>1, RoundAssumption DEF MineRoundTypeOK, RoundIds
    <3>2. baseEpoch[obj[round]] \in 0 .. MaxEpoch
      BY <2>1, <3>1 DEF MineRoundTypeOK, Bases
    <3> QED BY <3>2, RoundAssumption DEF NullRound
  <2>2. baseEpoch \in [RoundIds -> 0 .. MaxEpoch + 1]
    BY DEF MineRoundTypeOK
  <2> QED BY <2>1, <2>2
<1>2. e \in 0 .. MaxEpoch + 1
  BY RoundAssumption DEF MinedEpochs
<1>3. baseEpoch' = [moved EXCEPT ![o] = e]
  BY DEF BeginRound
<1> HIDE DEF moved
<1>4. baseEpoch' \in [RoundIds -> 0 .. MaxEpoch + 1] /\ baseEpoch'[o] = e
  BY <1>1, <1>2, <1>3
<1> QED BY <1>4 DEF BeginRound

\* While somebody waits, there is a round.
LEMMA Current ==
    ASSUME MineRoundTypeOK, Waiters, NEW m \in waiting
    PROVE  /\ inRound /\ round \in RoundIds /\ round \in 1 .. round
           /\ m \in Miners /\ <<round, m>> \in Workers
<1>1. inRound /\ round # 0
  BY DEF Waiters
<1>2. round \in RoundIds /\ round \in 1 .. round
  BY <1>1, RoundAssumption DEF MineRoundTypeOK, RoundIds
<1> QED BY <1>1, <1>2, WorkerPair DEF MineRoundTypeOK

\* MineRoundTypeOK is preserved.
LEMMA TypeSteps ==
    ASSUME MineRoundTypeOK, Bases, Waiters, [MineRoundNext]_roundVars
    PROVE  MineRoundTypeOK'
<1>1. ASSUME NEW ms \in SUBSET Miners, MapStep(ms) PROVE MineRoundTypeOK'
  <2>1. \A s \in [Miners -> Seq(0 .. MaxRounds)] :
           [m \in Miners |-> IF m \in ms THEN <<>> ELSE s[m]] \in [Miners -> Seq(0 .. MaxRounds)]
    <3> DEFINE T == Seq(0 .. MaxRounds)
    <3>1. <<>> \in T
      OBVIOUS
    <3> HIDE DEF T
    <3>2. \A s \in [Miners -> T] :
             [m \in Miners |-> IF m \in ms THEN <<>> ELSE s[m]] \in [Miners -> T]
      BY <3>1
    <3> QED BY <3>2 DEF T
  <2>2. errs' \in [Miners -> Seq(0 .. MaxRounds)]
    BY <1>1, <2>1 DEF MapStep, Fresh, MineRoundTypeOK
  <2>3. failed' \in [Miners -> 0 .. MaxRounds] /\ raced' \subseteq Miners
    BY <1>1, RoundAssumption DEF MapStep, Fresh, MineRoundTypeOK
  <2>4. alive' \in BOOLEAN
    BY <1>1 DEF MapStep, MayAbort
  <2> QED BY <1>1, <2>2, <2>3, <2>4 DEF MapStep, MineRoundTypeOK, baseVars, warmVars
<1>2. ASSUME NEW o \in RoundIds, NEW e \in MinedEpochs, BeginRound(o, e)
      PROVE  MineRoundTypeOK'
  <2>1. /\ round' \in RoundIds /\ baseEpoch' \in [RoundIds -> 0 .. MaxEpoch + 1]
        /\ obj' = [obj EXCEPT ![round'] = o]
        /\ epoch' = [epoch EXCEPT ![round'] = e]
    BY <1>2, BeginTypes
  <2>2. obj' \in [RoundIds -> 0 .. MaxRounds] /\ epoch' \in [RoundIds -> 0 .. MaxEpoch]
        /\ round' \in 0 .. MaxRounds
    <3>1. obj \in [RoundIds -> 0 .. MaxRounds] /\ epoch \in [RoundIds -> 0 .. MaxEpoch]
      BY DEF MineRoundTypeOK
    <3>2. o \in 0 .. MaxRounds /\ e \in 0 .. MaxEpoch /\ round' \in 0 .. MaxRounds
      BY <2>1, RoundAssumption DEF RoundIds, MinedEpochs
    <3> QED BY <2>1, <3>1, <3>2
  <2>3. worker' \in [Workers -> WorkerSteps]
    <3>1. worker \in [Workers -> WorkerSteps] /\ "info" \in WorkerSteps
      BY DEF MineRoundTypeOK, WorkerSteps
    <3>2. worker' = [w \in Workers |-> IF w \in {round + 1} \X wpp THEN "info" ELSE worker[w]]
      BY <1>2 DEF BeginRound
    <3> QED BY <3>1, <3>2, Zenon
  <2> QED BY <1>2, <2>1, <2>2, <2>3 DEF BeginRound, MineRoundTypeOK, listVars, warmVars
<1>3. ASSUME NEW m \in Miners, NEW full \in BOOLEAN, full => Len(errs[m]) >= MaxErrCounts,
             ListError(m, full)
      PROVE  /\ errs' \in [Miners -> Seq(0 .. MaxRounds)]
             /\ failed' \in [Miners -> 0 .. MaxRounds]
             /\ raced' \subseteq Miners
  <2>1. errs' = [errs EXCEPT ![m] = errs'[m]] /\ errs'[m] \in Seq(0 .. MaxRounds)
    BY <1>3, Listed
  <2>2. errs \in [Miners -> Seq(0 .. MaxRounds)] /\ failed \in [Miners -> 0 .. MaxRounds]
        /\ raced \subseteq Miners /\ round \in 0 .. MaxRounds
    BY DEF MineRoundTypeOK
  <2>3. errs' \in [Miners -> Seq(0 .. MaxRounds)]
    BY <2>1, <2>2, Zenon
  <2> QED BY <1>3, <2>2, <2>3 DEF ListError
<1>4. ASSUME NEW m \in Miners, NEW out \in Outcomes, Leaves(m, out)
      PROVE  outcome' \in [Workers -> Outcomes] /\ waiting' \subseteq Miners
             /\ alive' \in BOOLEAN /\ wpp' \subseteq Miners /\ inRound' \in BOOLEAN
             /\ round' \in 0 .. MaxRounds /\ obj' \in [RoundIds -> 0 .. MaxRounds]
             /\ baseEpoch' \in [RoundIds -> 0 .. MaxEpoch + 1]
             /\ epoch' \in [RoundIds -> 0 .. MaxEpoch]
             /\ warming' \subseteq Miners /\ warmed' \in BOOLEAN
  BY <1>4 DEF Leaves, MineRoundTypeOK, baseVars, warmVars
<1>5. ASSUME NEW m \in Miners, TimeOut(m) PROVE MineRoundTypeOK'
  <2>1. Leaves(m, "timeout") /\ "timeout" \in Outcomes
    BY <1>5, WaiterLeaves DEF Outcomes
  <2>2. ListError(m, Len(errs[m]) >= MaxErrCounts)
    BY <1>5 DEF TimeOut
  <2>3. (Len(errs[m]) >= MaxErrCounts) \in BOOLEAN
    OBVIOUS
  <2>4. row' \in [Rows -> RowContents]
    <3>1. round \in 0 .. MaxRounds /\ row \in [Rows -> RowContents]
      BY DEF MineRoundTypeOK, RowContents
    <3>2. row' = row \/ \E k : row' = [row EXCEPT ![k] = [state |-> "Timeout", by |-> round]]
      BY <1>5 DEF TimeOut, PutBlock
    <3>3. \A k : [row EXCEPT ![k] = [state |-> "Timeout", by |-> round]] \in [Rows -> RowContents]
      BY <3>1, RowType
    <3> QED BY <3>1, <3>2, <3>3
  <2>5. worker' = worker /\ result' = result /\ wins' = wins
    BY <1>5 DEF TimeOut
  <2>6. /\ errs' \in [Miners -> Seq(0 .. MaxRounds)]
        /\ failed' \in [Miners -> 0 .. MaxRounds] /\ raced' \subseteq Miners
    BY <1>3, <2>2, <2>3
  <2> QED BY <1>4, <2>1, <2>4, <2>5, <2>6 DEF MineRoundTypeOK, RowContents
<1>6. ASSUME NEW m \in Miners, NEW out \in Outcomes, Takes(m, out)
      PROVE  MineRoundTypeOK'
  <2>1. row' \in [Rows -> RowContents]
    <3>1. round \in 0 .. MaxRounds /\ row \in [Rows -> RowContents]
      BY DEF MineRoundTypeOK, RowContents
    <3>2. row' = row \/ \E k : row' = [row EXCEPT ![k] = [state |-> "Error", by |-> round]]
      BY <1>6 DEF Takes
    <3>3. \A k : [row EXCEPT ![k] = [state |-> "Error", by |-> round]] \in [Rows -> RowContents]
      BY <3>1, RowType
    <3> QED BY <3>1, <3>2, <3>3
  <2>2. /\ errs' \in [Miners -> Seq(0 .. MaxRounds)]
        /\ failed' \in [Miners -> 0 .. MaxRounds] /\ raced' \subseteq Miners
    <3>1. CASE UNCHANGED listVars
      BY <3>1 DEF MineRoundTypeOK, listVars
    <3>2. CASE ListError(m, Len(errs[m]) > MaxErrCounts)
      <4>1. Len(errs[m]) > MaxErrCounts => Len(errs[m]) >= MaxErrCounts
        BY RoundAssumption DEF MineRoundTypeOK
      <4>2. (Len(errs[m]) > MaxErrCounts) \in BOOLEAN
        OBVIOUS
      <4> QED BY <1>3, <3>2, <4>1, <4>2
    <3> QED BY <1>6, <3>1, <3>2 DEF Takes
  <2>3. worker' \in [Workers -> WorkerSteps] /\ result' \in [Workers -> Results]
    BY <1>6 DEF Takes, MineRoundTypeOK, WorkerSteps, Results
  <2>4. wins' \subseteq Workers
    <3>1. <<round, m>> \in Workers
      BY <1>6, Current DEF Takes, Leaves
    <3> QED BY <1>6, <3>1 DEF Takes, MineRoundTypeOK
  <2>5. Leaves(m, out)
    BY <1>6 DEF Takes
  <2> QED BY <1>4, <2>1, <2>2, <2>3, <2>4, <2>5 DEF MineRoundTypeOK, RowContents
<1>7. ASSUME NEW w \in Workers, NEW step \in WorkerSteps, NEW res \in Results,
             Moves(w, step, res)
      PROVE  MineRoundTypeOK'
  <2>1. worker' \in [Workers -> WorkerSteps] /\ result' \in [Workers -> Results]
    BY <1>7 DEF Moves, MineRoundTypeOK
  <2>2. row' \in [Rows -> RowContents]
    <3>1. w[1] \in 0 .. MaxRounds
      BY WorkerPair, RoundAssumption DEF RoundIds
    <3>2. row \in [Rows -> RowContents]
      BY DEF MineRoundTypeOK, RowContents
    <3>3. row' = row \/ \E k : row' = [row EXCEPT ![k] = [state |-> "Mining", by |-> w[1]]]
      BY <1>7 DEF Moves, PutBlock
    <3>4. \A k : [row EXCEPT ![k] = [state |-> "Mining", by |-> w[1]]] \in [Rows -> RowContents]
      BY <3>1, RowType
    <3> QED BY <3>1, <3>2, <3>3, <3>4
  <2> QED BY <1>7, <2>1, <2>2
          DEF Moves, MineRoundTypeOK, RowContents, notWorker, baseVars, listVars, warmVars
<1>8. CASE EndRound
  BY <1>8 DEF EndRound, MineRoundTypeOK, baseVars, listVars, warmVars
<1>9. CASE Warmup
  BY <1>9 DEF Warmup, MineRoundTypeOK, baseVars, listVars
<1>10. ASSUME NEW m \in Miners, WarmupDone(m) PROVE MineRoundTypeOK'
  BY <1>10 DEF WarmupDone, MineRoundTypeOK, baseVars, listVars
<1>11. ASSUME NEW m \in Miners, WarmupFailed(m) PROVE MineRoundTypeOK'
  <2>1. errs' \in [Miners -> Seq(0 .. MaxRounds)]
    <3>1. errs \in [Miners -> Seq(0 .. MaxRounds)]
      BY DEF MineRoundTypeOK
    <3>2. CASE UNCHANGED listVars
      BY <3>1, <3>2 DEF listVars
    <3>3. CASE ~UNCHANGED listVars
      <4>1. errs' = [errs EXCEPT ![m] = errs'[m]] /\ errs'[m] \in Seq(0 .. MaxRounds)
        BY <1>11, <3>3, WarmupListed DEF WarmupFailed
      <4> QED BY <3>1, <4>1, Zenon
    <3> QED BY <3>2, <3>3
  <2> QED BY <1>11, <2>1 DEF WarmupFailed, MineRoundTypeOK, baseVars, listVars
<1>12. CASE UNCHANGED roundVars
  BY <1>12 DEF roundVars, MineRoundTypeOK, baseVars, listVars, warmVars
<1>13. ASSUME NEW w \in Workers, WorkerStep(w) PROVE MineRoundTypeOK'
  BY <1>7, <1>13, WorkerMoves
<1>14. ASSUME NEW m \in Miners, NEW w \in Workers, Receive(m, w) PROVE MineRoundTypeOK'
  BY <1>6, <1>14, WaiterLeaves
<1> QED BY <1>1, <1>2, <1>5, <1>8, <1>9, <1>10, <1>11, <1>12, <1>13, <1>14, MapSteps
        DEF MineRoundNext

------------------------------------------------------------------------------
(* Rounds, waiters and workers *)

\* The steps of the map and of the warm-ups leave the round alone.
Elsewhere == UNCHANGED <<inRound, round, obj, baseEpoch, epoch, worker, result, waiting, wins,
                         outcome, row>>

\* Every step, by what it does to the round.
LEMMA RoundSteps ==
    ASSUME MineRoundTypeOK, [MineRoundNext]_roundVars
    PROVE  \/ Elsewhere
           \/ \E o \in RoundIds, e \in MinedEpochs : BeginRound(o, e)
           \/ \E m \in Miners : TimeOut(m)
           \/ \E m \in Miners, out \in Outcomes : Takes(m, out)
           \/ EndRound
           \/ \E w \in Workers, step \in WorkerSteps, res \in Results :
                 Moves(w, step, res) /\ Order(w, step, res)
<1>1. (\E ms \in SUBSET Miners : MapStep(ms)) => Elsewhere
  BY DEF MapStep, Elsewhere, baseVars
<1>2. Warmup \/ (\E m \in Miners : WarmupDone(m) \/ WarmupFailed(m)) => Elsewhere
  BY DEF Warmup, WarmupDone, WarmupFailed, Elsewhere, baseVars
<1>3. UNCHANGED roundVars => Elsewhere
  BY DEF Elsewhere, roundVars, baseVars
<1>4. \A m \in Miners, w \in Workers : Receive(m, w) => \E out \in Outcomes : Takes(m, out)
  BY WaiterLeaves
<1>5. \A w \in Workers : WorkerStep(w) =>
         \E step \in WorkerSteps, res \in Results : Moves(w, step, res) /\ Order(w, step, res)
  BY WorkerMoves
<1> QED BY <1>1, <1>2, <1>3, <1>4, <1>5, MapSteps DEF MineRoundNext

\* Only BeginRound moves to another round, base or epoch.
LEMMA BaseSteps ==
    ASSUME MineRoundTypeOK, Bases, [MineRoundNext]_roundVars
    PROVE  /\ Bases'
           /\ UNCHANGED baseVars \/ \E o \in RoundIds, e \in MinedEpochs : BeginRound(o, e)
<1>1. ASSUME NEW o \in RoundIds, NEW e \in MinedEpochs, BeginRound(o, e) PROVE Bases'
  <2>1. /\ round' \in RoundIds /\ obj' = [obj EXCEPT ![round'] = o] /\ baseEpoch'[o] = e
        /\ epoch' = [epoch EXCEPT ![round'] = e]
    BY <1>1, BeginTypes
  <2>2. obj'[round'] = o /\ epoch'[round'] = e
    BY <2>1 DEF MineRoundTypeOK
  <2> QED BY <2>1, <2>2 DEF Bases
<1>2. CASE UNCHANGED baseVars
  BY <1>2 DEF Bases, baseVars
<1>3. Elsewhere => UNCHANGED baseVars
  BY DEF Elsewhere, baseVars
<1>4. \A m \in Miners : TimeOut(m) => UNCHANGED baseVars
  BY DEF TimeOut
<1>5. \A m \in Miners, out \in Outcomes : Takes(m, out) => UNCHANGED baseVars
  BY DEF Takes, Leaves
<1>6. EndRound => UNCHANGED baseVars
  BY DEF EndRound
<1>7. \A w \in Workers, step \in WorkerSteps, res \in Results :
         Moves(w, step, res) => UNCHANGED baseVars
  BY DEF Moves, notWorker
<1> QED BY <1>1, <1>2, <1>3, <1>4, <1>5, <1>6, <1>7, RoundSteps

\* A waiter that leaves sets the outcome of its own worker and of no other.
LEMMA OutcomeOf ==
    ASSUME MineRoundTypeOK, Waiters, NEW m \in waiting, NEW out \in Outcomes, Leaves(m, out)
    PROVE  /\ outcome[<<round, m>>] = "none" /\ outcome'[<<round, m>>] = out
           /\ \A w \in Workers : w # <<round, m>> => outcome'[w] = outcome[w]
  BY Current DEF MineRoundTypeOK, Leaves, Waiters

\* The waiters' places are preserved.
LEMMA WaiterSteps ==
    ASSUME MineRoundTypeOK, Bases, Waiters, AllWatched, CollectedWon,
           [MineRoundNext]_roundVars
    PROVE  Waiters' /\ AllWatched' /\ CollectedWon'
<1>1. CASE Elsewhere
  BY <1>1 DEF Elsewhere, Waiters, AllWatched, Watched, CollectedWon
<1>2. ASSUME NEW o \in RoundIds, NEW e \in MinedEpochs, BeginRound(o, e)
      PROVE  Waiters' /\ AllWatched' /\ CollectedWon'
  <2>1. /\ round' = round + 1 /\ round' \in RoundIds /\ round \in Nat
        /\ ~inRound /\ waiting = {} /\ inRound' /\ waiting' = wpp /\ wpp \subseteq Miners
        /\ wins' = {} /\ outcome' = outcome
        /\ worker' = [w \in Workers |-> IF w \in {round'} \X wpp THEN "info" ELSE worker[w]]
    BY <1>2, BeginTypes DEF BeginRound, Waiters, MineRoundTypeOK
  <2>2. ASSUME NEW w \in Workers
        PROVE  /\ w[1] > round' => worker'[w] = "none" /\ outcome'[w] = "none"
               /\ Watched(w)'
    <3>1. w[1] \in Nat /\ w = <<w[1], w[2]>>
      BY WorkerPair, RoundAssumption DEF RoundIds
    <3>2. w \in {round'} \X wpp <=> w[1] = round' /\ w[2] \in wpp
      BY <3>1
    <3>3. worker'[w] = IF w[1] = round' /\ w[2] \in wpp THEN "info" ELSE worker[w]
      BY <2>1, <3>2
    <3>4. w[1] > round' => w[1] > round
      BY <2>1, <3>1
    <3>5. w[1] > round' => w[1] # round'
      BY <2>1, <3>1 DEF RoundIds
    <3> QED BY <2>1, <3>3, <3>4, <3>5 DEF Waiters, AllWatched, Watched
  <2>3. \A m \in waiting' : outcome'[<<round', m>>] = "none"
    <3> TAKE m \in waiting'
    <3>1. <<round', m>> \in Workers /\ <<round', m>>[1] = round'
      BY <2>1, WorkerPair
    <3>2. <<round', m>>[1] > round
      BY <2>1, <3>1
    <3> QED BY <2>1, <3>1, <3>2 DEF Waiters
  <2>4. round' # 0
    BY <2>1
  <2> QED BY <2>1, <2>2, <2>3, <2>4 DEF Waiters, AllWatched, CollectedWon
<1>3. ASSUME NEW m \in waiting, NEW out \in Outcomes, Leaves(m, out),
             UNCHANGED worker \/ worker' = [worker EXCEPT ![<<round, m>>] = "gone"],
             out = "timeout" \/ worker' = [worker EXCEPT ![<<round, m>>] = "gone"],
             wins' = IF out = "won" THEN wins \cup {<<round, m>>} ELSE wins
      PROVE  Waiters' /\ AllWatched' /\ CollectedWon'
  <2> DEFINE v == <<round, m>>
  <2>1. v \in Workers /\ v[1] = round /\ v[2] = m /\ inRound /\ round \in Nat
    BY Current, WorkerPair DEF MineRoundTypeOK
  <2>2. /\ outcome[v] = "none" /\ outcome'[v] = out
        /\ \A w \in Workers : w # v => outcome'[w] = outcome[w]
    BY <1>3, OutcomeOf
  <2>3. /\ inRound' = inRound /\ round' = round /\ waiting' = waiting \ {m}
    BY <1>3 DEF Leaves, baseVars
  <2>4. /\ worker \in [Workers -> WorkerSteps]
        /\ \A w \in Workers : w # v => worker'[w] = worker[w]
        /\ out = "timeout" \/ worker'[v] = "gone"
    BY <1>3, <2>1 DEF MineRoundTypeOK
  <2> HIDE DEF v
  <2>5. ASSUME NEW w \in Workers
        PROVE  /\ w[1] > round => worker'[w] = "none" /\ outcome'[w] = "none"
               /\ Watched(w)'
    <3>1. w = v => ~(w[1] > round)
      BY <2>1
    <3>2. CASE w = v
      BY <2>2, <2>4, <3>1, <3>2 DEF Watched
    <3>3. CASE w # v
      <4>1. ~(w[1] = round /\ w[2] = m)
        BY <2>1, <3>3, WorkerPair DEF v
      <4> QED BY <2>2, <2>3, <2>4, <3>3, <4>1 DEF Waiters, AllWatched, Watched
    <3> QED BY <3>2, <3>3
  <2>6. ASSUME NEW n \in waiting' PROVE outcome'[<<round', n>>] = "none"
    <3>1. n \in waiting /\ n # m
      BY <2>3
    <3>2. <<round, n>> \in Workers /\ <<round, n>>[2] = n
      BY <3>1, Current, WorkerPair
    <3>3. <<round, n>> # v
      BY <2>1, <3>1, <3>2
    <3> QED BY <2>2, <2>3, <3>1, <3>2, <3>3 DEF Waiters
  <2>7. CollectedWon'
    <3>1. wins \subseteq Workers /\ \A w \in wins : w # v
      BY <2>2 DEF CollectedWon, MineRoundTypeOK
    <3>2. wins' = IF out = "won" THEN wins \cup {v} ELSE wins
      BY <1>3 DEF v
    <3> QED BY <2>1, <2>2, <2>3, <3>1, <3>2 DEF CollectedWon
  <2>8. inRound' /\ round' # 0
    BY <2>1, <2>3 DEF Waiters
  <2> QED BY <2>3, <2>5, <2>6, <2>7, <2>8 DEF Waiters, AllWatched
<1>4. ASSUME NEW m \in Miners, TimeOut(m) PROVE Waiters' /\ AllWatched' /\ CollectedWon'
  <2>1. Leaves(m, "timeout") /\ "timeout" \in Outcomes
    BY <1>4, WaiterLeaves DEF Outcomes
  <2>2. m \in waiting /\ UNCHANGED <<worker, wins>>
    BY <1>4 DEF TimeOut
  <2> QED BY <1>3, <2>1, <2>2
<1>5. ASSUME NEW m \in Miners, NEW out \in Outcomes, Takes(m, out)
      PROVE  Waiters' /\ AllWatched' /\ CollectedWon'
  <2>1. m \in waiting /\ Leaves(m, out)
    BY <1>5 DEF Takes, Leaves
  <2>2. /\ worker' = [worker EXCEPT ![<<round, m>>] = "gone"]
        /\ wins' = IF out = "won" THEN wins \cup {<<round, m>>} ELSE wins
    BY <1>5 DEF Takes
  <2> QED BY <1>3, <2>1, <2>2
<1>6. CASE EndRound
  BY <1>6 DEF EndRound, Waiters, AllWatched, Watched, CollectedWon, baseVars
<1>7. ASSUME NEW w \in Workers, NEW step \in WorkerSteps, NEW res \in Results,
             Moves(w, step, res), Order(w, step, res)
      PROVE  Waiters' /\ AllWatched' /\ CollectedWon'
  <2>1. UNCHANGED <<inRound, round, waiting, wins, outcome>>
    BY <1>7 DEF Moves, notWorker, baseVars
  <2>2. /\ worker[w] \notin {"none", "gone"}
        /\ \A v \in Workers : v # w => worker'[v] = worker[v]
    BY <1>7 DEF Moves, MineRoundTypeOK
  <2>3. Watched(w)'
    BY <2>1, <2>2 DEF AllWatched, Watched
  <2> QED BY <2>1, <2>2, <2>3 DEF Waiters, AllWatched, Watched, CollectedWon
<1> QED BY <1>1, <1>2, <1>4, <1>5, <1>6, <1>7, RoundSteps

------------------------------------------------------------------------------
(* The slash filter's table *)

\* The worker that wrote the row of m at e.
Writer(m, e) == <<row[<<m, e>>].by, m>>

\* What a row that may still become an Error says of its writer.
Proving(w) ==
    worker[w] = "proof" \/ (worker[w] = "send" /\ result[w] \in {"won", "wonError"})

\* A row that a step does not write, whose writer has its outcome left alone, or
\* loses the race against its waiter.
LEMMA RowKept ==
    ASSUME MineRoundTypeOK, RowsOK, NEW m \in Miners, NEW e \in 1 .. MaxEpoch + 1,
           row'[<<m, e>>] = row[<<m, e>>],
           round' \in Nat, round <= round',
           NEW w \in Workers \cup {<<0, m>>}, w = Writer(m, e),
           w \in Workers => /\ epoch'[w[1]] = epoch[w[1]]
                            /\ \/ outcome'[w] = "timeout"
                               \/ /\ outcome'[w] = outcome[w]
                                  /\ outcome[w] = "none" /\ Proving(w) => Proving(w)'
    PROVE  RowOK(m, e)'
<1> DEFINE x == row[<<m, e>>]
<1> SUFFICES ASSUME x # NoRow
             PROVE  /\ x.by \in 1 .. round'
                    /\ \/ outcome'[w] \in {"timeout", "unrecorded"}
                       \/ /\ epoch'[w[1]] = e
                          /\ x.state = "Mining" => outcome'[w] \in {"none", "won"}
                          /\ x.state = "Error" => outcome'[w] = "wonError"
                          /\ outcome'[w] = "none" => Proving(w)'
  BY DEF RowOK, Faithful, Writer, Proving
<1>1. /\ x.by \in 1 .. round
      /\ outcome[w] \in {"timeout", "unrecorded"} \/ Faithful(x, w, e)
  BY DEF RowsOK, RowOK, Writer
<1>2. x.by \in RoundIds /\ x.by \in 1 .. round'
  <2>1. round \in 0 .. MaxRounds
    BY DEF MineRoundTypeOK
  <2> QED BY <1>1, <2>1, RoundAssumption DEF RoundIds
<1>3. w \in Workers
  BY <1>2, WorkerPair DEF Writer
<1>4. CASE outcome'[w] = "timeout"
  BY <1>2, <1>4
<1>5. CASE outcome'[w] = outcome[w] /\ (outcome[w] = "none" /\ Proving(w) => Proving(w)')
  BY <1>1, <1>2, <1>3, <1>5 DEF Faithful, Proving
<1> QED BY <1>3, <1>4, <1>5

\* A row's writer is a worker, or there is no row.
LEMMA WriterType ==
    ASSUME MineRoundTypeOK, NEW m \in Miners, NEW e \in 1 .. MaxEpoch + 1
    PROVE  /\ Writer(m, e) \in Workers \cup {<<0, m>>}
           /\ Writer(m, e)[2] = m
           /\ <<m, e>> \in Rows
<1>1. <<m, e>> \in Rows
  BY DEF Rows
<1>2. row[<<m, e>>].by \in 0 .. MaxRounds
  BY <1>1 DEF MineRoundTypeOK
<1> QED BY <1>1, <1>2, RoundAssumption DEF Writer, Workers, RoundIds

\* RowsOK is preserved.
LEMMA RowSteps ==
    ASSUME MineRoundTypeOK, Bases, Waiters, AllWatched, RowsOK, [MineRoundNext]_roundVars
    PROVE  RowsOK'
<1> SUFFICES ASSUME NEW m \in Miners, NEW e \in 1 .. MaxEpoch + 1
             PROVE  RowOK(m, e)'
  BY DEF RowsOK
<1> DEFINE k == <<m, e>>
<1>w. PICK w \in Workers \cup {<<0, m>>} : w = Writer(m, e)
  BY WriterType
<1>a. w[2] = m /\ k \in Rows
  BY <1>w, WriterType
<1>b. round \in Nat /\ round <= round
  BY DEF MineRoundTypeOK
<1>1. CASE Elsewhere
  <2>1. RowOK(m, e)
    BY DEF RowsOK
  <2> QED BY <1>1, <2>1 DEF Elsewhere, RowOK, Faithful
<1>2. ASSUME NEW o \in RoundIds, NEW f \in MinedEpochs, BeginRound(o, f) PROVE RowOK(m, e)'
  <2>1. /\ round' = round + 1 /\ round' \in RoundIds
        /\ epoch' = [epoch EXCEPT ![round'] = f]
        /\ row' = row /\ outcome' = outcome /\ result' = result
        /\ worker' = [v \in Workers |-> IF v \in {round'} \X wpp THEN "info" ELSE worker[v]]
    BY <1>2, BeginTypes DEF BeginRound
  <2>2. CASE row[k] = NoRow
    BY <2>1, <2>2 DEF RowOK
  <2>3. CASE row[k] # NoRow
    <3>1. row[k].by \in 1 .. round
      BY <2>3 DEF RowsOK, RowOK
    <3>2. w[1] = row[k].by /\ w[1] # round'
      BY <1>w, <1>b, <2>1, <3>1 DEF Writer
    <3>3. w \in Workers => worker'[w] = worker[w] /\ epoch'[w[1]] = epoch[w[1]]
      <4> SUFFICES ASSUME w \in Workers PROVE worker'[w] = worker[w] /\ epoch'[w[1]] = epoch[w[1]]
        OBVIOUS
      <4>1. w[1] \in RoundIds /\ w \notin {round'} \X wpp
        BY <3>2, WorkerPair
      <4> QED BY <2>1, <3>2, <4>1 DEF MineRoundTypeOK
    <3>4. round' \in Nat /\ round <= round'
      BY <1>b, <2>1
    <3>5. w \in Workers => (Proving(w) => Proving(w)')
      BY <2>1, <3>3 DEF Proving
    <3> QED BY <1>w, <2>1, <3>3, <3>4, <3>5, RowKept
  <2> QED BY <2>2, <2>3
<1>3. ASSUME NEW n \in Miners, TimeOut(n) PROVE RowOK(m, e)'
  <2> DEFINE v == <<round, n>>
  <2>1. Leaves(n, "timeout") /\ n \in waiting /\ "timeout" \in Outcomes
    BY <1>3, WaiterLeaves DEF Leaves, Outcomes
  <2>2. outcome'[v] = "timeout" /\ \A u \in Workers : u # v => outcome'[u] = outcome[u]
    BY <2>1, OutcomeOf
  <2>3. UNCHANGED <<worker, result, round, epoch>>
    BY <1>3 DEF TimeOut, baseVars
  <2>4. \/ row' = row
        \/ row' = [row EXCEPT ![<<n, epoch[round]>>] = [state |-> "Timeout", by |-> round]]
    BY <1>3 DEF TimeOut, PutBlock
  <2>5. CASE row'[k] = row[k]
    <3>1. \/ outcome'[w] = "timeout" \/ ~(w \in Workers) \/ outcome'[w] = outcome[w]
      BY <2>2
    <3>2. Proving(w) => Proving(w)'
      BY <2>3 DEF Proving
    <3> QED BY <1>w, <1>b, <2>3, <2>5, <3>1, <3>2, RowKept
  <2>6. CASE row'[k] # row[k]
    <3>1. row' = [row EXCEPT ![<<n, epoch[round]>>] = [state |-> "Timeout", by |-> round]]
          /\ k = <<n, epoch[round]>>
      BY <1>a, <2>4, <2>6 DEF MineRoundTypeOK
    <3>2. row'[k] = [state |-> "Timeout", by |-> round] /\ n = m
      BY <1>a, <3>1 DEF MineRoundTypeOK
    <3>3. row'[k].by = round
      BY <3>2
    <3>4. round \in 1 .. round
      BY <2>1, Current
    <3> QED BY <2>2, <2>3, <3>2, <3>3, <3>4 DEF RowOK
  <2> QED BY <2>5, <2>6
<1>4. ASSUME NEW n \in Miners, NEW out \in Outcomes, Takes(n, out) PROVE RowOK(m, e)'
  <2> DEFINE v == <<round, n>>
             f == baseEpoch[obj[round]]
  <2>1. Leaves(n, out) /\ n \in waiting
    BY <1>4 DEF Takes, Leaves
  <2>2. /\ outcome[v] = "none" /\ outcome'[v] = out
        /\ \A u \in Workers : u # v => outcome'[u] = outcome[u]
    BY <2>1, OutcomeOf
  <2>3. /\ v \in Workers /\ round \in RoundIds /\ round \in 1 .. round /\ v[1] = round
        /\ f = epoch[round]
    BY <2>1, Current, WorkerPair, RoundAssumption DEF RoundIds, Bases
  <2>4. UNCHANGED <<round, epoch>>
    BY <2>1 DEF Leaves, baseVars
  <2>5. /\ worker[v] = "send"
        /\ \A u \in Workers : u # v => worker'[u] = worker[u] /\ result'[u] = result[u]
    BY <1>4 DEF Takes, MineRoundTypeOK
  <2>6. \/ out = result[v] /\ out # "wonError" /\ row' = row
        \/ out = "unrecorded" /\ row' = row
        \/ out = "wonError" /\ row' = [row EXCEPT ![<<n, f>>] = [state |-> "Error", by |-> round]]
    BY <1>4 DEF Takes
  <2> HIDE DEF f
  <2>7. CASE w # v /\ row'[k] = row[k]
    <3>1. w \in Workers => outcome'[w] = outcome[w] /\ (Proving(w) => Proving(w)')
      BY <2>2, <2>5, <2>7 DEF Proving
    <3> QED BY <1>w, <1>b, <2>4, <2>7, <3>1, RowKept
  <2>8. CASE w = v /\ row'[k] = row[k]
    <3> SUFFICES ASSUME row[k] # NoRow PROVE RowOK(m, e)'
      BY <2>8 DEF RowOK
    <3>1. n = m /\ row[k].by = round
      BY <1>w, <2>8 DEF Writer
    <3>2. Faithful(row[k], v, e)
      BY <2>2, <3>1 DEF RowsOK, RowOK
    <3>3. epoch[round] = e /\ row[k].state # "Error" /\ result[v] \in {"won", "wonError"}
      BY <2>2, <2>3, <2>5, <3>2 DEF Faithful
    <3>4. out # "wonError"
      <4> SUFFICES ASSUME out = "wonError" PROVE FALSE
        OBVIOUS
      <4>1. row'[k] = [state |-> "Error", by |-> round]
        BY <1>a, <2>3, <2>6, <3>1, <3>3 DEF MineRoundTypeOK
      <4> QED BY <2>8, <3>3, <4>1
    <3>5. out \in {"won", "unrecorded"}
      BY <2>6, <3>3, <3>4
    <3> QED BY <2>2, <2>3, <2>4, <2>8, <3>1, <3>3, <3>5 DEF RowOK, Faithful
  <2>9. CASE row'[k] # row[k]
    <3>1. out = "wonError" /\ k = <<n, f>>
          /\ row' = [row EXCEPT ![<<n, f>>] = [state |-> "Error", by |-> round]]
      BY <1>a, <2>6, <2>9 DEF MineRoundTypeOK
    <3>2. row'[k] = [state |-> "Error", by |-> round] /\ n = m /\ e = epoch[round]
      BY <1>a, <2>3, <3>1 DEF MineRoundTypeOK
    <3>3. row'[k].by = round /\ row'[k].state = "Error"
      BY <3>2
    <3> QED BY <2>2, <2>3, <2>4, <3>1, <3>2, <3>3 DEF RowOK, Faithful
  <2> QED BY <2>7, <2>8, <2>9
<1>5. CASE EndRound
  <2>1. RowOK(m, e)
    BY DEF RowsOK
  <2> QED BY <1>5, <2>1 DEF EndRound, RowOK, Faithful, baseVars
<1>6. ASSUME NEW v \in Workers, NEW step \in WorkerSteps, NEW res \in Results,
             Moves(v, step, res), Order(v, step, res)
      PROVE  RowOK(m, e)'
  <2>1. UNCHANGED <<round, obj, baseEpoch, epoch, waiting, outcome>>
    BY <1>6 DEF Moves, notWorker, baseVars
  <2>2. /\ worker'[v] = step /\ result'[v] = res
        /\ \A u \in Workers : u # v => worker'[u] = worker[u] /\ result'[u] = result[u]
    BY <1>6 DEF Moves, MineRoundTypeOK
  <2>3. \A u \in Workers : Proving(u) => Proving(u)'
    BY <1>6, <2>2 DEF Proving, Order
  <2>4. CASE row'[k] = row[k]
    BY <1>w, <1>b, <2>1, <2>3, <2>4, RowKept
  <2>5. CASE row'[k] # row[k]
    <3> DEFINE f == baseEpoch[obj[v[1]]]
    <3>1. /\ step = "proof"
          /\ row' = [row EXCEPT ![<<v[2], f>>] = [state |-> "Mining", by |-> v[1]]]
      BY <1>6, <2>5 DEF Moves, PutBlock
    <3> HIDE DEF f
    <3>2. k = <<v[2], f>> /\ row'[k] = [state |-> "Mining", by |-> v[1]]
      BY <1>a, <2>5, <3>1 DEF MineRoundTypeOK
    <3>3. row'[k].by = v[1] /\ row'[k].state = "Mining" /\ v[2] = m /\ f = e
      BY <3>2
    <3>4. v = <<v[1], m>> /\ v[1] \in RoundIds
      BY <3>3, WorkerPair
    <3>5. worker[v] \notin {"none", "gone"}
      BY <1>6 DEF Moves
    <3>6. v[1] \in 1 .. round
      BY <1>b, <3>4, <3>5, RoundAssumption DEF Waiters, RoundIds
    <3>7. CASE outcome[v] = "timeout"
      BY <2>1, <3>3, <3>4, <3>6, <3>7 DEF RowOK
    <3>8. CASE v[1] = round /\ v[2] \in waiting
      <4>1. outcome[v] = "none"
        BY <3>3, <3>4, <3>8 DEF Waiters
      <4>2. epoch[v[1]] = e
        BY <3>3, <3>6, <3>8, <1>b DEF Bases, f
      <4> QED BY <2>1, <2>2, <3>1, <3>3, <3>4, <3>6, <4>1, <4>2 DEF RowOK, Faithful
    <3> QED BY <3>5, <3>7, <3>8 DEF AllWatched, Watched
  <2> QED BY <2>4, <2>5
<1> QED BY <1>1, <1>2, <1>3, <1>4, <1>5, <1>6, RoundSteps

------------------------------------------------------------------------------
(* The error lists and the warm-ups *)

\* A minerWPP is not written to by a warm-up twice: the warm-ups are started once.
LEMMA WarmSteps ==
    ASSUME MineRoundTypeOK, WarmedOnce, [MineRoundNext]_roundVars
    PROVE  WarmedOnce'
<1>1. ASSUME NEW ms \in SUBSET Miners, MapStep(ms) PROVE WarmedOnce'
  BY <1>1 DEF MapStep, Fresh, warmVars, WarmedOnce
<1>2. CASE UNCHANGED <<warming, warmed, raced>>
  BY <1>2 DEF WarmedOnce
<1>3. ASSUME NEW o \in RoundIds, NEW e \in MinedEpochs, BeginRound(o, e)
      PROVE  UNCHANGED <<warming, warmed, raced>>
  BY <1>3 DEF BeginRound, listVars, warmVars
<1>4. ASSUME NEW m \in Miners, TimeOut(m) PROVE UNCHANGED <<warming, warmed, raced>>
  BY <1>4 DEF TimeOut, ListError, warmVars
<1>5. ASSUME NEW m \in Miners, NEW w \in Workers, Receive(m, w)
      PROVE  UNCHANGED <<warming, warmed, raced>>
  BY <1>5 DEF Receive, ListError, listVars, warmVars
<1>6. EndRound => UNCHANGED <<warming, warmed, raced>>
  BY DEF EndRound, listVars, warmVars
<1>7. ASSUME NEW w \in Workers, WorkerStep(w) PROVE UNCHANGED <<warming, warmed, raced>>
  <2>1. UNCHANGED notWorker
    BY <1>7, WorkerMoves DEF Moves
  <2> QED BY <2>1 DEF notWorker, listVars, warmVars
<1>8. CASE Warmup
  BY <1>8 DEF Warmup, WarmedOnce, listVars
<1>9. ASSUME NEW m \in Miners, WarmupDone(m) \/ WarmupFailed(m) PROVE WarmedOnce'
  <2>1. warmed
    BY <1>9 DEF WarmupDone, WarmupFailed, WarmedOnce
  <2> QED BY <1>9, <2>1 DEF WarmupDone, WarmupFailed, WarmedOnce, listVars
<1>10. UNCHANGED roundVars => UNCHANGED <<warming, warmed, raced>>
  BY DEF roundVars, listVars, warmVars
<1> QED BY <1>1, <1>2, <1>3, <1>4, <1>5, <1>6, <1>7, <1>8, <1>9, <1>10, MapSteps
        DEF MineRoundNext

\* A failure put at the end of a list keeps it within its limit.
LEMMA ListedOK ==
    ASSUME MineRoundTypeOK, ListsOK, NEW m \in Miners, NEW full \in BOOLEAN,
           Len(errs[m]) > MaxErrCounts => full, full => Len(errs[m]) >= MaxErrCounts,
           ListError(m, full)
    PROVE  ListsOK'
<1>1. /\ errs' = [errs EXCEPT ![m] = errs'[m]]
      /\ errs'[m] # <<>> /\ Last(errs'[m]) = round
      /\ Len(errs'[m]) = IF full THEN MaxErrCounts - 1 ELSE Len(errs[m]) + 1
  BY Listed
<1>2. raced' = raced /\ failed' = [failed EXCEPT ![m] = round]
  BY DEF ListError
<1>3. errs[m] \in Seq(0 .. MaxRounds)
  BY DEF MineRoundTypeOK
<1>4. Len(errs'[m]) <= MaxErrCounts + 1
  BY <1>1, <1>3, RoundAssumption
<1>5. failed'[m] = round /\ \A n \in Miners : n # m => failed'[n] = failed[n] /\ errs'[n] = errs[n]
  BY <1>1, <1>2 DEF MineRoundTypeOK
<1>6. Len(errs'[m]) <= MaxErrCounts + (IF m \in raced THEN 2 ELSE 1)
  <2>1. Len(errs'[m]) \in Int
    BY <1>1, <1>3, RoundAssumption
  <2> QED BY <1>4, <2>1, RoundAssumption
<1>7. ASSUME NEW n \in Miners PROVE ListOK(n)'
  <2>1. CASE n = m
    BY <1>1, <1>2, <1>5, <1>6, <2>1 DEF ListOK
  <2>2. CASE n # m
    <3>1. errs'[n] = errs[n] /\ failed'[n] = failed[n] /\ raced' = raced
      BY <1>2, <1>5, <2>2
    <3> QED BY <3>1 DEF ListsOK, ListOK
  <2> QED BY <2>1, <2>2
<1> QED BY <1>7 DEF ListsOK

\* ListsOK is preserved.
LEMMA ListSteps ==
    ASSUME MineRoundTypeOK, WarmedOnce, ListsOK, [MineRoundNext]_roundVars
    PROVE  ListsOK'
<1>a. \A m \in Miners : errs[m] \in Seq(0 .. MaxRounds) /\ Len(errs[m]) \in Nat
  BY DEF MineRoundTypeOK
<1>1. ASSUME NEW ms \in SUBSET Miners, MapStep(ms) PROVE ListsOK'
  <2> SUFFICES ASSUME NEW m \in Miners PROVE ListOK(m)'
    BY DEF ListsOK
  <2>1. CASE m \in ms
    <3>1. errs'[m] = <<>> /\ failed'[m] = 0
      BY <1>1, <2>1 DEF MapStep, Fresh
    <3>2. Len(<<>>) = 0
      OBVIOUS
    <3> QED BY <3>1, <3>2, RoundAssumption DEF ListOK
  <2>2. CASE m \notin ms
    <3>1. errs'[m] = errs[m] /\ failed'[m] = failed[m] /\ (m \in raced' <=> m \in raced)
      BY <1>1, <2>2 DEF MapStep, Fresh
    <3> QED BY <3>1 DEF ListsOK, ListOK
  <2> QED BY <2>1, <2>2
<1>2. CASE UNCHANGED listVars
  BY <1>2 DEF ListsOK, ListOK, listVars
<1>3. ASSUME NEW o \in RoundIds, NEW e \in MinedEpochs, BeginRound(o, e) PROVE UNCHANGED listVars
  BY <1>3 DEF BeginRound
<1>4. ASSUME NEW m \in Miners, TimeOut(m) PROVE ListsOK'
  <2>1. ListError(m, Len(errs[m]) >= MaxErrCounts)
    BY <1>4 DEF TimeOut
  <2>2. Len(errs[m]) > MaxErrCounts => Len(errs[m]) >= MaxErrCounts
    BY <1>a, RoundAssumption
  <2>3. (Len(errs[m]) >= MaxErrCounts) \in BOOLEAN
    OBVIOUS
  <2> QED BY <2>1, <2>2, <2>3, ListedOK
<1>5. ASSUME NEW m \in Miners, NEW out \in Outcomes, Takes(m, out) PROVE ListsOK'
  <2>1. CASE ListError(m, Len(errs[m]) > MaxErrCounts)
    <3>1. Len(errs[m]) > MaxErrCounts => Len(errs[m]) >= MaxErrCounts
      BY <1>a, RoundAssumption
    <3>2. (Len(errs[m]) > MaxErrCounts) \in BOOLEAN
      OBVIOUS
    <3> QED BY <2>1, <3>1, <3>2, ListedOK
  <2> QED BY <1>2, <1>5, <2>1 DEF Takes
<1>6. EndRound => UNCHANGED listVars
  BY DEF EndRound
<1>7. ASSUME NEW w \in Workers, WorkerStep(w) PROVE UNCHANGED listVars
  <2>1. UNCHANGED notWorker
    BY <1>7, WorkerMoves DEF Moves
  <2> QED BY <2>1 DEF notWorker
<1>8. Warmup \/ (\E m \in Miners : WarmupDone(m)) => UNCHANGED listVars
  BY DEF Warmup, WarmupDone
<1>9. ASSUME NEW m \in Miners, WarmupFailed(m), ~UNCHANGED listVars PROVE ListsOK'
  <2>1. /\ errs' = [errs EXCEPT ![m] = errs'[m]] /\ errs'[m] \in Seq(0 .. MaxRounds)
        /\ Len(errs'[m]) <= Len(errs[m]) + 1
    BY <1>9, WarmupListed DEF WarmupFailed
  <2>2. m \in warming /\ raced' = raced \cup {m} /\ failed' = failed
    BY <1>9 DEF WarmupFailed
  <2>3. m \notin raced
    BY <2>2 DEF WarmedOnce
  <2>4. Len(errs[m]) <= MaxErrCounts + 1
    BY <2>3 DEF ListsOK, ListOK
  <2>5. Len(errs'[m]) <= MaxErrCounts + 2
    <3>1. Len(errs'[m]) \in Nat
      BY <2>1
    <3> QED BY <1>a, <2>1, <2>4, <3>1, RoundAssumption
  <2>6. ASSUME NEW n \in Miners PROVE ListOK(n)'
    <3>1. CASE n = m
      BY <2>2, <2>5, <3>1 DEF ListOK
    <3>2. CASE n # m
      <4>1. errs'[n] = errs[n] /\ failed'[n] = failed[n] /\ (n \in raced' <=> n \in raced)
        BY <2>1, <2>2, <3>2 DEF MineRoundTypeOK
      <4> QED BY <4>1 DEF ListsOK, ListOK
    <3> QED BY <3>1, <3>2
  <2> QED BY <2>6 DEF ListsOK
<1>10. UNCHANGED roundVars => UNCHANGED listVars
  BY DEF roundVars
<1>11. ASSUME NEW m \in Miners, NEW w \in Workers, Receive(m, w) PROVE ListsOK'
  BY <1>5, <1>11, WaiterLeaves
<1> QED BY <1>1, <1>2, <1>3, <1>4, <1>6, <1>7, <1>8, <1>9, <1>10, <1>11, MapSteps
        DEF MineRoundNext

------------------------------------------------------------------------------
(* The death of the process *)

\* The process dies only outside a round, when every reader of the map has been given
\* up, or by a warm-up that goes on being there.
LEMMA DeathSteps ==
    ASSUME MineRoundTypeOK, Waiters, AllWatched, DeathExcused, [MineRoundNext]_roundVars
    PROVE  DeathExcused'
<1>1. ASSUME NEW ms \in SUBSET Miners, MapStep(ms) PROVE DeathExcused'
  <2>1. UNCHANGED <<worker, outcome, warming>> /\ waiting = {}
    BY <1>1 DEF MapStep, Waiters, warmVars
  <2>2. ASSUME NEW w \in Readers PROVE outcome[w] = "timeout" /\ w \in Readers'
    <3>1. w \in Workers /\ worker[w] \in {"ticket", "winner"}
      BY DEF Readers
    <3> QED BY <2>1, <3>1 DEF AllWatched, Watched, Readers
  <2>3. alive' \/ Readers # {} \/ warming # {}
    BY <1>1 DEF MapStep, MayAbort
  <2> QED BY <2>1, <2>2, <2>3 DEF DeathExcused
<1>2. CASE alive'
  BY <1>2 DEF DeathExcused
<1>3. CASE UNCHANGED roundVars
  BY <1>3 DEF roundVars, warmVars, DeathExcused, Readers
<1>4. ASSUME NEW o \in RoundIds, NEW e \in MinedEpochs, BeginRound(o, e) PROVE alive'
  BY <1>4 DEF BeginRound
<1>5. ASSUME NEW m \in Miners, TimeOut(m) \/ (\E w \in Workers : Receive(m, w)) PROVE alive'
  BY <1>5 DEF TimeOut, Receive
<1>6. EndRound \/ Warmup \/ (\E m \in Miners : WarmupDone(m)) => alive'
  BY DEF EndRound, Warmup, WarmupDone
<1>7. ASSUME NEW w \in Workers, WorkerStep(w) PROVE alive'
  BY <1>7, WorkerMoves DEF Moves, notWorker
<1>8. ASSUME NEW m \in Miners, WarmupFailed(m) PROVE alive' \/ warming' # {}
  BY <1>8 DEF WarmupFailed
<1>9. CASE warming' # {}
  BY <1>9 DEF DeathExcused
<1> QED BY <1>1, <1>2, <1>3, <1>4, <1>5, <1>6, <1>7, <1>8, <1>9, MapSteps DEF MineRoundNext

------------------------------------------------------------------------------
(* The theorems *)

\* The inductive invariant.
LEMMA MineRoundInductive == MineRoundSpec => []MineRoundIInv
<1>1. MineRoundInit => MineRoundIInv
  <2> SUFFICES ASSUME MineRoundInit PROVE MineRoundIInv
    OBVIOUS
  <2>1. MineRoundTypeOK
    <3>1. NoRow \in RowContents
      BY RoundAssumption DEF NoRow, RowContents
    <3>2. row \in [Rows -> RowContents]
      BY <3>1 DEF MineRoundInit
    <3>3. errs \in [Miners -> Seq(0 .. MaxRounds)]
      BY DEF MineRoundInit
    <3>4. /\ worker \in [Workers -> WorkerSteps] /\ result \in [Workers -> Results]
          /\ outcome \in [Workers -> Outcomes]
      BY DEF MineRoundInit, WorkerSteps, Results, Outcomes
    <3>5. /\ obj \in [RoundIds -> 0 .. MaxRounds] /\ failed \in [Miners -> 0 .. MaxRounds]
          /\ baseEpoch \in [RoundIds -> 0 .. MaxEpoch + 1]
          /\ epoch \in [RoundIds -> 0 .. MaxEpoch]
          /\ round \in 0 .. MaxRounds
      BY RoundAssumption DEF MineRoundInit
    <3>6. /\ alive \in BOOLEAN /\ inRound \in BOOLEAN /\ warmed \in BOOLEAN
          /\ wpp \subseteq Miners /\ waiting \subseteq Miners /\ wins \subseteq Workers
          /\ warming \subseteq Miners /\ raced \subseteq Miners
      BY DEF MineRoundInit
    <3> QED BY <3>2, <3>3, <3>4, <3>5, <3>6 DEF MineRoundTypeOK, RowContents
  <2>2. Bases /\ Waiters /\ AllWatched /\ CollectedWon /\ WarmedOnce /\ DeathExcused
    BY DEF MineRoundInit, Bases, Waiters, AllWatched, Watched, CollectedWon, WarmedOnce,
           DeathExcused
  <2>3. RowsOK
    BY WriterType, <2>1 DEF MineRoundInit, RowsOK, RowOK
  <2>4. ListsOK
    <3>1. \A m \in Miners : errs[m] = <<>> /\ failed[m] = 0
      BY DEF MineRoundInit
    <3>2. Len(<<>>) = 0
      OBVIOUS
    <3> QED BY <3>1, <3>2, RoundAssumption DEF ListsOK, ListOK
  <2> QED BY <2>1, <2>2, <2>3, <2>4 DEF MineRoundIInv
<1>2. MineRoundIInv /\ [MineRoundNext]_roundVars => MineRoundIInv'
  BY TypeSteps, BaseSteps, WaiterSteps, RowSteps, WarmSteps, ListSteps, DeathSteps
     DEF MineRoundIInv
<1> QED BY <1>1, <1>2, PTL DEF MineRoundSpec

\* The variables of mineOneForAll, mineOne and the warm-up keep their types: the rounds,
\* bases and lists stay within their bounds.
THEOREM MineRoundTypeCorrect == MineRoundSpec => []MineRoundTypeOK
<1>1. MineRoundIInv => MineRoundTypeOK
  BY DEF MineRoundIInv
<1> QED BY <1>1, MineRoundInductive, PTL

\* No result of a worker is used once its waiter has timed out (multiminer.go:696),
\* with any number of miners, rounds and stragglers.
THEOREM LateProofsAreLost == MineRoundSpec => []NoStaleWin
<1>1. MineRoundIInv => NoStaleWin
  BY DEF MineRoundIInv, NoStaleWin, CollectedWon, AllWatched, Watched
<1> QED BY <1>1, MineRoundInductive, PTL

\* A row of the slash filter's table matches its writer's round, unless that round
\* timed out or its Error could not be written (multiminer.go:699-729, 938-945).
THEOREM RowsMatchRounds == MineRoundSpec => []RowExcused
<1>1. MineRoundIInv => RowExcused
  BY DEF MineRoundIInv, RowExcused, RowsOK, RowOK, Faithful
<1> QED BY <1>1, MineRoundInductive, PTL

\* The error list of a miner stays near its limit and ends with the latest failure
\* (multiminer.go:712-740), unless a warm-up has written to it.
THEOREM ErrorsAreListed == MineRoundSpec => []ErrorListed
<1>1. MineRoundIInv => ErrorListed
  BY DEF MineRoundIInv, ErrorListed, ListsOK, ListOK, MineRoundTypeOK
<1> QED BY <1>1, MineRoundInductive, PTL

\* The process only dies through a worker that was given up, or a warm-up (warmup.go:28).
THEOREM DeathsAreExcused == MineRoundSpec => []DeathExcused
<1>1. MineRoundIInv => DeathExcused
  BY DEF MineRoundIInv
<1> QED BY <1>1, MineRoundInductive, PTL
==============================================================================
