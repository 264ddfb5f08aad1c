----------------------------- MODULE MiningProofs -----------------------------
(***************************************************************************)
(* Proofs about the abstract rounds (Rounds), the broadcast goroutines and *)
(* their filter (BroadCast), and the composition of the two (Mining), for  *)
(* every chain, every set of miners and any number of goroutines and       *)
(* submit nodes.                                                           *)
(*                                                                         *)
(* The theorems about consensus faults of the whole path assume Prompt, as *)
(* the runs do: every goroutine of a round ends before the next round is   *)
(* played.  Those about the lookup by parents assume the local filter.     *)
(***************************************************************************)
EXTENDS Mining, TLAPS

------------------------------------------------------------------------------
(* The abstract rounds *)

\* In an open round the base and its copy agree, and the round was won if it has
\* winners: nothing but the close of the round moves the base.  WorkFollowsLast is not
\* inductive without it.
OpenOnLast == phase = "open" => work = last /\ work \in Base /\ (won <=> winners # {})

RoundsIInv == RoundsTypeOK /\ OpenOnLast /\ WorkFollowsLast

\* A candidate is a base.
LEMMA CandidateType ==
    ASSUME NEW w \in Base \cup {NoBase}, NEW t \in Tipsets
    PROVE  BestCandidate(w, t) \in Base
  BY BaseAssumption, NullAssumption DEF BestCandidate, Base, NoBase

\* The initial states.
LEMMA InitRounds == RoundsInit => RoundsIInv
  BY DEF RoundsInit, RoundsIInv, RoundsTypeOK, OpenOnLast, WorkFollowsLast

\* Every step of the abstract loop.
LEMMA NextRounds == RoundsIInv /\ [RoundsNext]_roundVars => RoundsIInv'
<1> SUFFICES ASSUME RoundsIInv, [RoundsNext]_roundVars PROVE RoundsIInv'
  OBVIOUS
<1> USE DEF RoundsIInv, RoundsTypeOK, OpenOnLast
<1>1. ASSUME NEW t \in Tipsets, MoveHead(t) PROVE RoundsIInv'
  BY <1>1 DEF MoveHead, WorkFollowsLast
<1>2. CASE Adopt
  <2>1. work' \in Base
    BY <1>2, CandidateType DEF Adopt
  <2>2. work'.nulls = 0
    BY <1>2 DEF Adopt, BestCandidate
  <2> QED BY <1>2, <2>1, <2>2 DEF Adopt, WorkFollowsLast
<1>3. ASSUME NEW ws \in SUBSET Miners, NEW t \in Tipsets, PlayRound(ws, t)
      PROVE  RoundsIInv'
  <2>1. work' \in Base
    BY <1>3 DEF PlayRound, Base
  <2> QED BY <1>3, <2>1 DEF PlayRound, WorkFollowsLast
<1>4. CASE CloseRound
  <2>1. work' \in Base
    BY <1>4, BaseAssumption DEF CloseRound, Base
  <2>2. \/ work' = last /\ won
        \/ work'.ts = last.ts /\ work'.nulls = last.nulls + 1 /\ ~won
    BY <1>4 DEF CloseRound, Base
  <2> QED BY <1>4, <2>1, <2>2 DEF CloseRound, WorkFollowsLast
<1>5. CASE Restart
  BY <1>5 DEF Restart, WorkFollowsLast
<1>6. CASE UNCHANGED roundVars
  BY <1>6 DEF roundVars, WorkFollowsLast
<1> QED BY <1>1, <1>2, <1>3, <1>4, <1>5, <1>6 DEF RoundsNext

\* Type correctness of the abstract loop.
THEOREM RoundsTypeCorrect == RoundsSpec => []RoundsTypeOK
<1>1. RoundsIInv => RoundsTypeOK
  BY DEF RoundsIInv
<1> QED BY InitRounds, NextRounds, <1>1, PTL DEF RoundsSpec

\* Between two rounds the base is that of the last round if somebody won it, its next
\* null round if nobody did, or a newly adopted tipset without null rounds.
THEOREM NullRoundsFollow == RoundsSpec => []WorkFollowsLast
<1>1. RoundsIInv => WorkFollowsLast
  BY DEF RoundsIInv
<1> QED BY InitRounds, NextRounds, <1>1, PTL DEF RoundsSpec

------------------------------------------------------------------------------
(* The broadcast goroutines *)

\* The goroutine's block may be, or may still get, out on the network.
Live(j) == Open(j) \/ j \in delivered

SameSlot(j, k) == blk[j].miner = blk[k].miner /\ blk[j].height = blk[k].height

\* Where a goroutine is tells what it has done.
Phases ==
    \A j \in Jobs :
       /\ j \in delivered => pc[j] \in {"Submit", "PutFailed", "PutSuccess", "PutEpoch", "done"}
       /\ j \in kept => pc[j] = "done"
       /\ pc[j] = "PutEpoch" => Filter = "local"

\* A recorded block is found by HasBlock.
KeptIsFound == \A j \in kept : HasBlock(blk[j].miner, blk[j].height)

\* The overlap argument, already for goroutines that have not submitted yet.
SlotExcused ==
    \A j, k \in Jobs : j # k /\ Live(j) /\ Live(k) /\ SameSlot(j, k) => Excused(j, k)

IInv == TypeOK /\ Phases /\ KeptIsFound /\ SlotExcused

------------------------------------------------------------------------------
(* Type correctness *)

\* A MySQL PutBlock leaves a well-formed table.
LEMMA MysqlPutBlockType ==
    ASSUME RowsOK, NEW m \in Miners, NEW h \in Epochs,
           NEW p \in Tipsets \cup {EmptyKey}, NEW c \in Blocks \cup {NoCid},
           NEW s \in StateMining, MysqlPutBlock(m, h, p, c, s)
    PROVE  RowsOK'
<1> DEFINE key == <<m, h>>
<1>1. key \in Miners \X Epochs
  OBVIOUS
<1>2. CASE key \in DOMAIN rows /\ MysqlUpdate(key, p, c, s)
  <2>1. DOMAIN rows' = DOMAIN rows
    BY <1>2 DEF MysqlUpdate
  <2>2. ASSUME NEW k \in DOMAIN rows PROVE rows'[k] \in Row
    BY <1>2, <2>2 DEF MysqlUpdate, RowsOK, Row
  <2> QED BY <2>1, <2>2 DEF RowsOK
<1>3. CASE MysqlCreate(key, p, c, s)
  <2>1. DOMAIN rows' = DOMAIN rows \cup {key}
    BY <1>3 DEF MysqlCreate
  <2>2. ASSUME NEW k \in DOMAIN rows \cup {key} PROVE rows'[k] \in Row
    <3>1. CASE k = key
      BY <1>3, <3>1 DEF MysqlCreate, Row
    <3>2. CASE k # key
      BY <1>3, <2>2, <3>2 DEF MysqlCreate, RowsOK
    <3> QED BY <3>1, <3>2
  <2> QED BY <1>1, <2>1, <2>2 DEF RowsOK
<1> QED BY <1>2, <1>3 DEF MysqlPutBlock, RowsOK

\* A MySQL PutBlock never makes HasBlock false.
LEMMA MysqlPutBlockKeeps ==
    ASSUME RowsOK, NEW m \in Miners, NEW h \in Epochs,
           NEW p \in Tipsets \cup {EmptyKey}, NEW c \in Blocks \cup {NoCid},
           NEW s \in StateMining, MysqlPutBlock(m, h, p, c, s),
           NEW n \in Miners, NEW e \in Epochs, MysqlHasBlock(n, e)
    PROVE  MysqlHasBlock(n, e)'
  BY DEF RowsOK, Row, MysqlPutBlock, MysqlCreate, MysqlUpdate, MysqlHasBlock

\* A MySQL PutBlock of a full header makes HasBlock true of it.
LEMMA MysqlPutBlockRecords ==
    ASSUME RowsOK, NEW b \in Blocks,
           NEW s \in StateMining, s # "Timeout",
           MysqlPutBlock(b.miner, b.height, b.parents, b, s)
    PROVE  MysqlHasBlock(b.miner, b.height)'
  BY NullAssumption DEF RowsOK, Row, MysqlPutBlock, MysqlCreate, MysqlUpdate, MysqlHasBlock

\* The results of MinedBlock are blocks, or NoCid for none.
LEMMA MinedBlockType ==
    ASSUME RowsOK, StoresOK, NEW b \in Blocks
    PROVE  MinedBlock(b) \subseteq Blocks \cup {NoCid}
  BY DEF MinedBlock, MysqlMinedBlock, MysqlCheckSameParentFault, MysqlParentGrinding,
         MysqlHasBlock, LocalMinedBlock, LocalCheckFault, LocalParentGrinding,
         RowsOK, StoresOK, Row

\* The fields of a header.
LEMMA BlockFields ==
    ASSUME NEW b \in Blocks
    PROVE  b.miner \in Miners /\ b.height \in Epochs /\ b.parents \in Tipsets
  BY DEF Blocks

\* The initial state is well formed.
LEMMA InitTypeOK == Init => TypeOK
  BY BroadCastAssumption
  DEF Init, MysqlInit, LocalInit, TypeOK, RowsOK, StoresOK, PCs

\* Every step, a crash and a PutBlock of the loop included, keeps it so.
LEMMA NextTypeOK == TypeOK /\ [Next]_vars => TypeOK'
<1> SUFFICES ASSUME TypeOK, [Next]_vars PROVE TypeOK'
  OBVIOUS
<1>1. ASSUME NEW m \in Miners, NEW h \in Epochs, NEW t \in Tipsets \cup {EmptyKey},
             NEW s \in StateMining, RecordRound(m, h, t, s)
      PROVE  TypeOK'
  <2>1. RowsOK'
    BY <1>1, MysqlPutBlockType DEF RecordRound, TypeOK
  <2> QED BY <1>1, <2>1 DEF RecordRound, TypeOK, StoresOK, jobVars
<1>2. CASE LoopRecords
  BY <1>1, <1>2 DEF LoopRecords, RecordNothing, TypeOK, RowsOK, StoresOK, vars, filterVars,
       jobVars, StateMining
<1>3. ASSUME NEW j \in Jobs, NEW b \in Blocks, GoBroadCast(j, b) PROVE TypeOK'
  BY <1>3 DEF GoBroadCast, TypeOK, RowsOK, StoresOK, filterVars, PCs
<1>4. ASSUME NEW j \in Jobs, CheckHasBlock(j) PROVE TypeOK'
  BY <1>4 DEF CheckHasBlock, TypeOK, RowsOK, StoresOK, filterVars, PCs
<1>5. ASSUME NEW j \in Jobs, CheckMinedBlock(j) PROVE TypeOK'
  <2>1. blk[j] \in Blocks
    BY <1>5 DEF CheckMinedBlock, TypeOK
  <2>2. MinedBlock(blk[j]) \subseteq Blocks \cup {NoCid}
    BY <2>1, MinedBlockType DEF TypeOK
  <2>3. blamed' \subseteq Blocks \X Blocks
    BY <1>5, <2>1, <2>2 DEF CheckMinedBlock, TypeOK
  <2>4. pc' \in [Jobs -> PCs] /\ \A k \in Jobs : pc'[k] # "idle" => blk'[k] \in Blocks
    BY <1>5, <2>1 DEF CheckMinedBlock, TypeOK, PCs
  <2> QED BY <1>5, <2>3, <2>4 DEF CheckMinedBlock, TypeOK, RowsOK, StoresOK, filterVars
<1>6. ASSUME NEW j \in Jobs, SubmitBlock(j) PROVE TypeOK'
  BY <1>6, BroadCastAssumption DEF SubmitBlock, MoreNodes, TypeOK, RowsOK, StoresOK, filterVars, PCs
<1>7. ASSUME NEW j \in Jobs, PutBlock(j) PROVE TypeOK'
  <2> DEFINE b == blk[j]
  <2>1. b \in Blocks /\ b.miner \in Miners /\ b.height \in Epochs /\ b.parents \in Tipsets
    BY <1>7, BlockFields DEF PutBlock, TypeOK
  <2>2. StateAt(pc[j]) \in StateMining
    BY DEF StateAt, StateMining
  <2>3. RowsOK'
    BY <1>7, <2>1, <2>2, MysqlPutBlockType DEF PutBlock, TypeOK, RowsOK, filterVars
  <2>4. StoresOK'
    BY <1>7, <2>1 DEF PutBlock, TypeOK, StoresOK, filterVars, LocalPutParents
  <2>5. pc' \in [Jobs -> PCs] /\ kept' \subseteq Jobs
    BY <1>7 DEF PutBlock, TypeOK, PCs
  <2>6. \A k \in Jobs : pc'[k] # "idle" => blk'[k] \in Blocks
    BY <1>7, <2>1 DEF PutBlock, TypeOK
  <2> HIDE DEF b
  <2> QED BY <1>7, <2>3, <2>4, <2>5, <2>6 DEF PutBlock, TypeOK
<1>8. ASSUME NEW j \in Jobs, PutEpoch(j) PROVE TypeOK'
  <2>1. blk[j] \in Blocks /\ blk[j].miner \in Miners /\ blk[j].height \in Epochs
    BY <1>8, BlockFields DEF PutEpoch, TypeOK
  <2>2. StoresOK' /\ RowsOK'
    BY <1>8, <2>1 DEF PutEpoch, TypeOK, StoresOK, RowsOK, LocalPutEpoch
  <2>3. pc' \in [Jobs -> PCs] /\ kept' \subseteq Jobs
    BY <1>8 DEF PutEpoch, TypeOK, PCs
  <2>4. \A k \in Jobs : pc'[k] # "idle" => blk'[k] \in Blocks
    BY <1>8, <2>1 DEF PutEpoch, TypeOK
  <2> QED BY <1>8, <2>2, <2>3, <2>4 DEF PutEpoch, TypeOK
<1>9. CASE Crash
  BY <1>9 DEF Crash, TypeOK, RowsOK, StoresOK, filterVars, PCs
<1>10. CASE UNCHANGED vars
  BY <1>10 DEF TypeOK, RowsOK, StoresOK, vars, filterVars, jobVars
<1> QED BY <1>2, <1>3, <1>4, <1>5, <1>6, <1>7, <1>8, <1>9, <1>10 DEF Next, JobStep

\* Type correctness of the broadcast goroutines and of both filters' tables.
THEOREM TypeCorrect == Spec => []TypeOK
  BY InitTypeOK, NextTypeOK, PTL DEF Spec

------------------------------------------------------------------------------
(* Nothing on record is forgotten *)

\* No step of any goroutine, round or crash makes HasBlock false.
LEMMA HasBlockStable ==
    ASSUME TypeOK, [Next]_vars, NEW m \in Miners, NEW h \in Epochs, HasBlock(m, h)
    PROVE  HasBlock(m, h)'
<1>1. ASSUME NEW n \in Miners, NEW e \in Epochs, NEW t \in Tipsets \cup {EmptyKey},
             NEW s \in StateMining, RecordRound(n, e, t, s)
      PROVE  HasBlock(m, h)'
  BY <1>1, MysqlPutBlockKeeps DEF RecordRound, TypeOK, HasBlock
<1>2. CASE LoopRecords
  BY <1>1, <1>2 DEF LoopRecords, RecordNothing, HasBlock, MysqlHasBlock, LocalHasBlock,
                    vars, filterVars, StateMining
<1>3. ASSUME UNCHANGED filterVars PROVE HasBlock(m, h)'
  BY <1>3 DEF HasBlock, MysqlHasBlock, LocalHasBlock, filterVars
<1>4. ASSUME NEW j \in Jobs, PutBlock(j) PROVE HasBlock(m, h)'
  <2>1. blk[j] \in Blocks /\ blk[j].miner \in Miners /\ blk[j].height \in Epochs
                          /\ blk[j].parents \in Tipsets
    BY <1>4, BlockFields DEF PutBlock, TypeOK
  <2>2. StateAt(pc[j]) \in StateMining
    BY DEF StateAt, StateMining
  <2>3. CASE Filter = "mysql" /\ ~UNCHANGED filterVars
    <3>1. MysqlPutBlock(blk[j].miner, blk[j].height, blk[j].parents, blk[j], StateAt(pc[j]))
      BY <1>4, <2>3 DEF PutBlock
    <3> QED BY <2>1, <2>2, <2>3, <3>1, MysqlPutBlockKeeps DEF HasBlock, TypeOK
  <2>4. CASE Filter = "local"
    BY <1>4, <2>4 DEF PutBlock, HasBlock, LocalHasBlock, filterVars
  <2> QED BY <1>3, <2>3, <2>4, BroadCastAssumption
<1>5. ASSUME NEW j \in Jobs, PutEpoch(j) PROVE HasBlock(m, h)'
  BY <1>5 DEF PutEpoch, LocalPutEpoch, HasBlock, MysqlHasBlock, LocalHasBlock
<1> QED BY <1>2, <1>3, <1>4, <1>5
    DEF Next, JobStep, GoBroadCast, CheckHasBlock, CheckMinedBlock, SubmitBlock, Crash, vars

\* Once the filter holds a block of a miner at an epoch it always will: neither
\* a PutBlock without a ticket (Mining, Timeout, ChainForked, Error) nor an
\* interleaved broadcast nor a crash takes the record away.
THEOREM RecordsAreKept == Spec => RecordNeverForgotten
<1>1. TypeOK /\ [Next]_vars
      => [\A m \in Miners, h \in Epochs : HasBlock(m, h) => HasBlock(m, h)']_vars
  BY HasBlockStable
<1> QED BY <1>1, TypeCorrect, PTL DEF Spec, RecordNeverForgotten

------------------------------------------------------------------------------
(* Double forks are excused *)

\* Initially no goroutine has done anything.
LEMMA InitIInv == Init => IInv
<1> SUFFICES ASSUME Init PROVE IInv
  OBVIOUS
<1>1. TypeOK
  BY InitTypeOK
<1> QED BY <1>1 DEF Init, IInv, Phases, KeptIsFound, SlotExcused, Live, Open

\* A goroutine's position tells what it has done, step by step.
LEMMA NextPhases == TypeOK /\ Phases /\ [Next]_vars => Phases'
<1> SUFFICES ASSUME TypeOK, Phases, [Next]_vars PROVE Phases'
  OBVIOUS
<1> USE DEF TypeOK, Phases
<1>1. CASE LoopRecords \/ UNCHANGED vars
  BY <1>1 DEF LoopRecords, RecordRound, RecordNothing, vars, jobVars
<1>2. ASSUME NEW j \in Jobs, NEW b \in Blocks, GoBroadCast(j, b) PROVE Phases'
  BY <1>2 DEF GoBroadCast
<1>3. ASSUME NEW j \in Jobs, CheckHasBlock(j) PROVE Phases'
  BY <1>3 DEF CheckHasBlock
<1>4. ASSUME NEW j \in Jobs, CheckMinedBlock(j) PROVE Phases'
  BY <1>4 DEF CheckMinedBlock
<1>5. ASSUME NEW j \in Jobs, SubmitBlock(j) PROVE Phases'
  BY <1>5 DEF SubmitBlock
<1>6. ASSUME NEW j \in Jobs, PutBlock(j) PROVE Phases'
  BY <1>6 DEF PutBlock
<1>7. ASSUME NEW j \in Jobs, PutEpoch(j) PROVE Phases'
  BY <1>7 DEF PutEpoch
<1>8. CASE Crash
  BY <1>8 DEF Crash
<1> QED BY <1>1, <1>2, <1>3, <1>4, <1>5, <1>6, <1>7, <1>8 DEF Next, JobStep

\* What is recorded stays found, and what a goroutine records is found.
LEMMA NextKeptIsFound == TypeOK /\ Phases /\ KeptIsFound /\ [Next]_vars => KeptIsFound'
<1> SUFFICES ASSUME TypeOK, Phases, KeptIsFound, [Next]_vars,
                    NEW j \in kept'
             PROVE  HasBlock(blk[j].miner, blk[j].height)'
  BY DEF KeptIsFound
<1>1. CASE j \in kept
  <2>1. blk[j] \in Blocks /\ blk'[j] = blk[j]
    BY <1>1 DEF TypeOK, Phases, Next, LoopRecords, RecordRound, RecordNothing, GoBroadCast,
                JobStep, CheckHasBlock, CheckMinedBlock, SubmitBlock, PutBlock, PutEpoch,
                Crash, vars, jobVars
  <2>2. HasBlock(blk[j].miner, blk[j].height)
    BY <1>1 DEF KeptIsFound
  <2> DEFINE m == blk[j].miner
             h == blk[j].height
  <2>3. m \in Miners /\ h \in Epochs
    BY <2>1, BlockFields
  <2>4. \A n \in Miners, e \in Epochs : HasBlock(n, e) => HasBlock(n, e)'
    BY HasBlockStable
  <2> QED BY <2>1, <2>2, <2>3, <2>4 DEF HasBlock, MysqlHasBlock, LocalHasBlock
<1>2. CASE j \notin kept
  <2>1. \/ j \in Jobs /\ PutBlock(j) /\ Filter = "mysql"
        \/ j \in Jobs /\ PutEpoch(j) /\ LocalPutEpoch(blk[j])
    BY <1>2 DEF TypeOK, Next, LoopRecords, RecordRound, RecordNothing, GoBroadCast,
                JobStep, CheckHasBlock, CheckMinedBlock, SubmitBlock, PutBlock, PutEpoch,
                Crash, vars, jobVars
  <2>2. CASE j \in Jobs /\ PutBlock(j) /\ Filter = "mysql"
    <3>1. blk[j] \in Blocks /\ blk' = blk
      BY <2>2 DEF PutBlock, TypeOK
    <3>2. MysqlPutBlock(blk[j].miner, blk[j].height, blk[j].parents, blk[j], StateAt(pc[j]))
      BY <1>2, <2>2 DEF PutBlock
    <3>3. StateAt(pc[j]) \in StateMining /\ StateAt(pc[j]) # "Timeout"
      BY DEF StateAt, StateMining
    <3>4. \A b \in Blocks, s \in StateMining :
             s # "Timeout" /\ MysqlPutBlock(b.miner, b.height, b.parents, b, s)
             => MysqlHasBlock(b.miner, b.height)'
      BY MysqlPutBlockRecords DEF TypeOK
    <3> QED BY <2>2, <3>1, <3>2, <3>3, <3>4 DEF HasBlock, MysqlHasBlock
  <2>3. CASE j \in Jobs /\ PutEpoch(j) /\ LocalPutEpoch(blk[j])
    <3>1. Filter = "local" /\ blk' = blk
      BY <2>3 DEF PutEpoch, Phases
    <3> QED BY <2>3, <3>1 DEF HasBlock, LocalHasBlock, LocalPutEpoch
  <2> QED BY <2>1, <2>2, <2>3
<1> QED BY <1>1, <1>2

\* Two goroutines for one slot excuse each other: the step that matters is the
\* one that passes HasBlock, where every other live goroutine is either open (it
\* enters seen) or has ended without a record (else HasBlock had been true).
LEMMA NextSlotExcused == IInv /\ [Next]_vars => SlotExcused'
<1> SUFFICES ASSUME IInv, [Next]_vars,
                    NEW j \in Jobs, NEW k \in Jobs, j # k,
                    Live(j)', Live(k)', SameSlot(j, k)'
             PROVE  Excused(j, k)'
  BY DEF SlotExcused
<1> USE DEF IInv, TypeOK, Phases
<1>1. ASSUME Live(j), Live(k), blk' = blk, seen' = seen,
             pc[j] = "done" => pc'[j] = "done", pc[k] = "done" => pc'[k] = "done",
             \A i \in Jobs : pc[i] = "done" /\ i \in kept' => i \in kept
      PROVE  Excused(j, k)'
  BY <1>1 DEF SlotExcused, SameSlot, Excused, Unrecorded
<1>2. CASE LoopRecords \/ UNCHANGED vars
  BY <1>1, <1>2 DEF LoopRecords, RecordRound, RecordNothing, vars, jobVars, Live, Open
<1>3. ASSUME NEW i \in Jobs, NEW b \in Blocks, GoBroadCast(i, b) PROVE Excused(j, k)'
  <2>1. i # j /\ i # k
    BY <1>3 DEF GoBroadCast, Live, Open
  <2>2. pc'[j] = pc[j] /\ pc'[k] = pc[k] /\ blk'[j] = blk[j] /\ blk'[k] = blk[k]
    BY <1>3, <2>1 DEF GoBroadCast
  <2> QED BY <1>3, <2>2 DEF GoBroadCast, SlotExcused, SameSlot, Excused, Unrecorded, Live, Open
<1>4. ASSUME NEW i \in Jobs, CheckHasBlock(i) PROVE Excused(j, k)'
  <2>1. CASE pc'[i] = "done"
    BY <1>1, <1>4, <2>1 DEF CheckHasBlock, Live, Open
  <2>2. CASE pc'[i] = "MinedBlock"
    <3>1. ~HasBlock(blk[i].miner, blk[i].height) /\ seen'[i] = {l \in Jobs : Open(l)}
      BY <1>4, <2>2 DEF CheckHasBlock
    <3>2. ASSUME NEW l \in Jobs, l # i, Live(l)', SameSlot(i, l)'
          PROVE  l \in seen'[i] \/ Unrecorded(l)'
      <4>1. pc'[l] = pc[l] /\ blk' = blk /\ kept' = kept /\ delivered' = delivered
        BY <1>4, <3>2 DEF CheckHasBlock
      <4>2. CASE Open(l)
        BY <3>1, <4>2
      <4>3. CASE ~Open(l)
        <5>1. l \in delivered /\ pc[l] = "done"
          BY <3>2, <4>1, <4>3 DEF Live, Open
        <5>2. l \notin kept
          BY <3>1, <3>2, <4>1 DEF KeptIsFound, SameSlot
        <5> QED BY <4>1, <5>1, <5>2 DEF Unrecorded
      <4> QED BY <4>2, <4>3
    <3>3. CASE i = j
      BY <3>2, <3>3 DEF Excused, SameSlot
    <3>4. CASE i = k
      BY <3>2, <3>4 DEF Excused, SameSlot
    <3>5. CASE i # j /\ i # k
      BY <1>4, <3>5 DEF CheckHasBlock, SlotExcused, SameSlot, Excused, Unrecorded, Live, Open
    <3> QED BY <3>3, <3>4, <3>5
  <2> QED BY <1>4, <2>1, <2>2 DEF CheckHasBlock
<1>5. ASSUME NEW i \in Jobs, CheckMinedBlock(i) PROVE Excused(j, k)'
  BY <1>1, <1>5 DEF CheckMinedBlock, Live, Open
<1>6. ASSUME NEW i \in Jobs, SubmitBlock(i) PROVE Excused(j, k)'
  BY <1>1, <1>6 DEF SubmitBlock, Live, Open
<1>7. ASSUME NEW i \in Jobs, PutBlock(i) PROVE Excused(j, k)'
  BY <1>1, <1>7 DEF PutBlock, Live, Open
<1>8. ASSUME NEW i \in Jobs, PutEpoch(i) PROVE Excused(j, k)'
  BY <1>1, <1>8 DEF PutEpoch, Live, Open
<1>9. CASE Crash
  BY <1>1, <1>9 DEF Crash, Live, Open
<1> QED BY <1>2, <1>3, <1>4, <1>5, <1>6, <1>7, <1>8, <1>9 DEF Next, JobStep

\* The network receives two blocks of one miner at one height only when the
\* goroutines overlapped or a record was lost; with either filter, for any number
\* of miners, goroutines, forks and submit nodes.
THEOREM DoubleForksAreExcused == Spec => []DoubleForkExcused
<1>1. IInv /\ [Next]_vars => IInv'
  BY NextTypeOK, NextPhases, NextKeptIsFound, NextSlotExcused DEF IInv
<1>2. IInv => DoubleForkExcused
  BY DEF IInv, TypeOK, SlotExcused, DoubleForkExcused, DoubleFork, Live, SameSlot
<1> QED BY InitIInv, <1>1, <1>2, PTL DEF Spec

------------------------------------------------------------------------------
(* The local filter: time offsets are excused, refusals are justified *)

\* Has passed MinedBlock, or its block is out.
Past(j) == pc[j] \in {"Submit", "PutFailed", "PutSuccess", "PutEpoch"} \/ j \in delivered

\* The local filter is only told of a block that a node took.
SuccessDelivered ==
    /\ delivered \subseteq submitted
    /\ \A j \in Jobs : pc[j] \in {"PutSuccess", "PutEpoch"} => j \in delivered
    /\ \A j \in submitted : pc[j] # "idle"

\* Of two goroutines past HasBlock, the second to ask saw the first.
OpenSeen == \A j, k \in Jobs : j # k /\ Open(j) /\ Open(k) => j \in seen[k] \/ k \in seen[j]

\* An entry of either namespace is of a block that a node took.
EntriesDelivered ==
    /\ \A key \in DOMAIN byParents : \E i \in delivered : blk[i] = byParents[key]
    /\ \A key \in DOMAIN byEpoch : \E i \in delivered : blk[i] = byEpoch[key]

\* The parents entry is the first to be put.
ParentsEntered ==
    \A j \in Jobs : pc[j] = "PutEpoch" \/ j \in kept =>
       <<blk[j].miner, blk[j].parents>> \in DOMAIN byParents

\* The two goroutines, or others for the same two blocks whose blocks are out, excuse
\* each other.
PairExcused(j, k) ==
    \E i, l \in Jobs :
       /\ i = j \/ i \in delivered
       /\ l = k \/ l \in delivered
       /\ blk[i] = blk[j] /\ blk[l] = blk[k]
       /\ Excused(i, l)

OffsetsExcused ==
    \A j, k \in Jobs :
       Past(j) /\ Past(k) /\ TimeOffset(blk[j], blk[k]) => PairExcused(j, k)

LocalIInv ==
    /\ TypeOK /\ Phases /\ SuccessDelivered /\ OpenSeen
    /\ EntriesDelivered /\ ParentsEntered /\ OffsetsExcused /\ RefusalNamesSubmitted

\* A goroutine keeps its block; one that has passed HasBlock keeps what it saw, and one
\* that has ended stays as it is.
LEMMA JobKept ==
    ASSUME TypeOK, [Next]_vars, NEW j \in Jobs, pc[j] # "idle"
    PROVE  /\ blk'[j] = blk[j] /\ pc'[j] # "idle"
           /\ pc[j] # "HasBlock" => seen'[j] = seen[j] /\ pc'[j] # "HasBlock"
           /\ pc[j] = "done" => pc'[j] = "done" /\ (j \in kept' <=> j \in kept)
<1> USE DEF TypeOK
<1>1. CASE LoopRecords \/ UNCHANGED vars
  BY <1>1 DEF LoopRecords, RecordRound, RecordNothing, vars, jobVars
<1>2. ASSUME NEW i \in Jobs, NEW b \in Blocks, GoBroadCast(i, b)
      PROVE  UNCHANGED <<seen, kept>> /\ blk'[j] = blk[j] /\ pc'[j] = pc[j]
  BY <1>2 DEF GoBroadCast
<1>3. CASE \E i \in Jobs : CheckHasBlock(i)
  BY <1>3 DEF CheckHasBlock
<1>4. CASE \E i \in Jobs : CheckMinedBlock(i)
  BY <1>4 DEF CheckMinedBlock
<1>5. CASE \E i \in Jobs : SubmitBlock(i)
  BY <1>5 DEF SubmitBlock
<1>6. CASE \E i \in Jobs : PutBlock(i)
  BY <1>6 DEF PutBlock
<1>7. CASE \E i \in Jobs : PutEpoch(i)
  BY <1>7 DEF PutEpoch
<1>8. CASE Crash
  BY <1>8 DEF Crash
<1> QED BY <1>1, <1>2, <1>3, <1>4, <1>5, <1>6, <1>7, <1>8 DEF Next, JobStep

\* What a node took, it keeps.
LEMMA HistoryGrows ==
    ASSUME [Next]_vars
    PROVE  delivered \subseteq delivered' /\ submitted \subseteq submitted'
  BY DEF Next, LoopRecords, RecordRound, RecordNothing, GoBroadCast, JobStep, CheckHasBlock,
         CheckMinedBlock, SubmitBlock, PutBlock, PutEpoch, Crash, vars, jobVars

\* An excuse stays one.
LEMMA ExcuseStays ==
    ASSUME TypeOK, [Next]_vars, NEW j \in Jobs, NEW k \in Jobs, Excused(j, k),
           pc[j] \notin {"idle", "HasBlock"}, pc[k] \notin {"idle", "HasBlock"}
    PROVE  Excused(j, k)'
  BY JobKept DEF Excused, Unrecorded

\* A block reaches a node before the local filter hears of it.
LEMMA NextSuccessDelivered ==
    ASSUME TypeOK, Phases, SuccessDelivered, [Next]_vars
    PROVE  SuccessDelivered'
<1> USE DEF TypeOK, SuccessDelivered
<1>1. CASE LoopRecords \/ UNCHANGED vars
  BY <1>1 DEF LoopRecords, RecordRound, RecordNothing, vars, jobVars
<1>2. ASSUME NEW i \in Jobs, NEW b \in Blocks, GoBroadCast(i, b) PROVE SuccessDelivered'
  BY <1>2 DEF GoBroadCast
<1>3. CASE \E i \in Jobs : CheckHasBlock(i)
  BY <1>3 DEF CheckHasBlock
<1>4. CASE \E i \in Jobs : CheckMinedBlock(i)
  BY <1>4 DEF CheckMinedBlock
<1>5. CASE \E i \in Jobs : SubmitBlock(i)
  BY <1>5 DEF SubmitBlock
<1>6. CASE \E i \in Jobs : PutBlock(i)
  BY <1>6 DEF PutBlock, LocalRecords, StateAt
<1>7. CASE \E i \in Jobs : PutEpoch(i)
  BY <1>7 DEF PutEpoch
<1>8. CASE Crash
  BY <1>8 DEF Crash
<1> QED BY <1>1, <1>2, <1>3, <1>4, <1>5, <1>6, <1>7, <1>8 DEF Next, JobStep

\* Only CheckHasBlock opens a goroutine, and it sees the others that are open.
LEMMA NextOpenSeen ==
    ASSUME TypeOK, OpenSeen, [Next]_vars
    PROVE  OpenSeen'
<1> SUFFICES ASSUME NEW j \in Jobs, NEW k \in Jobs, j # k, Open(j)', Open(k)'
             PROVE  j \in seen'[k] \/ k \in seen'[j]
  BY DEF OpenSeen
<1>1. ASSUME NEW i \in Jobs, Open(i)', ~Open(i)
      PROVE  CheckHasBlock(i) /\ seen' = [seen EXCEPT ![i] = {l \in Jobs : Open(l)}]
  BY <1>1 DEF TypeOK, Open, Next, LoopRecords, RecordRound, RecordNothing, GoBroadCast, JobStep,
              CheckHasBlock, CheckMinedBlock, SubmitBlock, PutBlock, PutEpoch, Crash, vars, jobVars
<1>2. CASE Open(j) /\ Open(k)
  BY <1>2, JobKept DEF OpenSeen, Open
<1>3. ASSUME NEW i \in Jobs, NEW l \in Jobs, i # l, Open(i)', ~Open(i), Open(l)'
      PROVE  l \in seen'[i]
  <2>1. CheckHasBlock(i) /\ seen'[i] = {h \in Jobs : Open(h)}
    BY <1>1, <1>3 DEF TypeOK
  <2>2. Open(l)
    BY <1>3, <2>1 DEF CheckHasBlock, Open, TypeOK
  <2> QED BY <2>1, <2>2
<1> QED BY <1>2, <1>3

\* What the local filter holds was put by a goroutine whose block a node took.
LEMMA NextEntries ==
    ASSUME TypeOK, Phases, SuccessDelivered, EntriesDelivered, ParentsEntered,
           Filter = "local", [Next]_vars
    PROVE  EntriesDelivered' /\ ParentsEntered'
<1>1. \A i \in delivered : i \in Jobs /\ i \in delivered' /\ blk'[i] = blk[i]
  BY JobKept, HistoryGrows DEF TypeOK, Phases
<1>2. \A j \in Jobs : pc[j] = "PutEpoch" \/ j \in kept => blk'[j] = blk[j]
  BY JobKept DEF Phases
<1>3. ASSUME UNCHANGED <<byEpoch, byParents>>,
             \A j \in Jobs : pc'[j] = "PutEpoch" \/ j \in kept' => pc[j] = "PutEpoch" \/ j \in kept
      PROVE  EntriesDelivered' /\ ParentsEntered'
  BY <1>1, <1>2, <1>3 DEF EntriesDelivered, ParentsEntered
<1>4. CASE LoopRecords \/ UNCHANGED vars
  BY <1>3, <1>4 DEF LoopRecords, RecordRound, RecordNothing, vars, jobVars, filterVars
<1>5. ASSUME NEW i \in Jobs, NEW b \in Blocks, GoBroadCast(i, b)
      PROVE  EntriesDelivered' /\ ParentsEntered'
  BY <1>3, <1>5 DEF GoBroadCast, filterVars, TypeOK
<1>6. ASSUME NEW i \in Jobs, CheckHasBlock(i) \/ CheckMinedBlock(i) \/ SubmitBlock(i)
      PROVE  EntriesDelivered' /\ ParentsEntered'
  BY <1>3, <1>6 DEF CheckHasBlock, CheckMinedBlock, SubmitBlock, filterVars, TypeOK
<1>7. ASSUME NEW i \in Jobs, PutBlock(i) PROVE EntriesDelivered' /\ ParentsEntered'
  <2>1. CASE pc'[i] = "done"
    BY <1>3, <1>7, <2>1 DEF PutBlock, filterVars, TypeOK
  <2>2. CASE pc'[i] = "PutEpoch"
    <3>1. LocalPutParents(blk[i]) /\ i \in delivered /\ UNCHANGED <<byEpoch, kept, blk>>
          /\ \A l \in Jobs : l # i => pc'[l] = pc[l]
      BY <1>7, <2>2 DEF PutBlock, LocalRecords, StateAt, SuccessDelivered, TypeOK
    <3> DEFINE put == <<blk[i].miner, blk[i].parents>>
    <3>2. /\ DOMAIN byParents' = DOMAIN byParents \cup {put}
          /\ byParents'[put] = blk[i]
          /\ \A key \in DOMAIN byParents : key # put => byParents'[key] = byParents[key]
      BY <3>1 DEF LocalPutParents
    <3> HIDE DEF put
    <3>3. EntriesDelivered'
      BY <1>1, <3>1, <3>2 DEF EntriesDelivered
    <3>4. ParentsEntered'
      BY <3>1, <3>2 DEF ParentsEntered, put
    <3> QED BY <3>3, <3>4
  <2> QED BY <1>7, <2>1, <2>2 DEF PutBlock, TypeOK
<1>8. ASSUME NEW i \in Jobs, PutEpoch(i) PROVE EntriesDelivered' /\ ParentsEntered'
  <2>1. UNCHANGED <<byParents, blk>> /\ i \in delivered
        /\ \A l \in Jobs : l # i => pc'[l] = pc[l]
    BY <1>8 DEF PutEpoch, SuccessDelivered, TypeOK
  <2>2. ParentsEntered'
    BY <1>8, <2>1 DEF ParentsEntered, PutEpoch
  <2>3. EntriesDelivered'
    <3>1. CASE LocalPutEpoch(blk[i])
      <4> DEFINE put == <<blk[i].miner, blk[i].height>>
      <4>1. /\ DOMAIN byEpoch' = DOMAIN byEpoch \cup {put}
            /\ byEpoch'[put] = blk[i]
            /\ \A key \in DOMAIN byEpoch : key # put => byEpoch'[key] = byEpoch[key]
        BY <3>1 DEF LocalPutEpoch
      <4> HIDE DEF put
      <4> QED BY <1>1, <2>1, <4>1 DEF EntriesDelivered
    <3>2. CASE UNCHANGED byEpoch
      BY <1>1, <2>1, <3>2 DEF EntriesDelivered
    <3> QED BY <1>8, <3>1, <3>2 DEF PutEpoch
  <2> QED BY <2>2, <2>3
<1>9. CASE Crash
  BY <1>3, <1>9 DEF Crash, filterVars, TypeOK
<1> QED BY <1>4, <1>5, <1>6, <1>7, <1>8, <1>9 DEF Next, JobStep

\* A fault is found by an entry of one of the namespaces.
LEMMA NextRefusals ==
    ASSUME TypeOK, Phases, SuccessDelivered, EntriesDelivered, RefusalNamesSubmitted,
           Filter = "local", [Next]_vars
    PROVE  RefusalNamesSubmitted'
<1>1. \A i \in submitted : i \in Jobs /\ i \in submitted' /\ blk'[i] = blk[i]
  BY JobKept, HistoryGrows DEF TypeOK, SuccessDelivered
<1>2. CASE blamed' = blamed
  BY <1>1, <1>2 DEF RefusalNamesSubmitted
<1>3. ASSUME NEW j \in Jobs, CheckMinedBlock(j), blamed' # blamed
      PROVE  RefusalNamesSubmitted'
  <2>1. PICK other \in MinedBlock(blk[j]) \ {NoCid} : blamed' = blamed \cup {<<blk[j], other>>}
    BY <1>3 DEF CheckMinedBlock
  <2>2. \/ \E key \in DOMAIN byParents : other = byParents[key]
        \/ \E key \in DOMAIN byEpoch : other = byEpoch[key]
    BY <2>1 DEF MinedBlock, LocalMinedBlock, LocalCheckFault, LocalParentGrinding
  <2>3. \E i \in submitted : blk[i] = other
    BY <2>2 DEF EntriesDelivered, SuccessDelivered
  <2>4. ASSUME NEW p \in blamed' PROVE \E i \in submitted' : blk'[i] = p[2]
    <3>1. CASE p \in blamed
      BY <1>1, <3>1 DEF RefusalNamesSubmitted
    <3>2. CASE p = <<blk[j], other>>
      BY <1>1, <2>3, <3>2
    <3> QED BY <2>1, <3>1, <3>2
  <2> QED BY <2>4 DEF RefusalNamesSubmitted
<1>4. blamed' = blamed \/ \E j \in Jobs : CheckMinedBlock(j)
  BY DEF Next, LoopRecords, RecordRound, RecordNothing, GoBroadCast, JobStep, CheckHasBlock,
         SubmitBlock, PutBlock, PutEpoch, Crash, vars, jobVars
<1> QED BY <1>2, <1>3, <1>4

\* The step that matters passes MinedBlock: a goroutine for another block on the same
\* parents is open as well, has ended without a record, or its entry was overwritten by
\* another goroutine for this block, with which it has its excuse already.
LEMMA NextOffsets ==
    ASSUME LocalIInv, Filter = "local", [Next]_vars
    PROVE  OffsetsExcused'
<1> USE DEF LocalIInv
<1>1. ASSUME NEW j \in Jobs, Past(j)
      PROVE  pc[j] \notin {"idle", "HasBlock"}
  BY <1>1 DEF Past, Phases
<1>2. ASSUME NEW j \in Jobs, NEW k \in Jobs, Past(j), Past(k), PairExcused(j, k)
      PROVE  PairExcused(j, k)'
  <2>1. PICK i \in Jobs, l \in Jobs :
           /\ i = j \/ i \in delivered
           /\ l = k \/ l \in delivered
           /\ blk[i] = blk[j] /\ blk[l] = blk[k]
           /\ Excused(i, l)
    BY <1>2 DEF PairExcused
  <2>2. pc[i] \notin {"idle", "HasBlock"} /\ pc[l] \notin {"idle", "HasBlock"}
    BY <1>1, <1>2, <2>1 DEF Past
  <2>3. Excused(i, l)'
    BY <2>1, <2>2, ExcuseStays
  <2>4. blk'[i] = blk[i] /\ blk'[l] = blk[l] /\ blk'[j] = blk[j] /\ blk'[k] = blk[k]
    BY <1>1, <1>2, <2>2, JobKept
  <2> QED BY <2>1, <2>3, <2>4, HistoryGrows DEF PairExcused
<1>3. ASSUME NEW j \in Jobs, Past(j)', ~Past(j)
      PROVE  /\ pc[j] = "MinedBlock" /\ pc'[j] = "Submit" /\ NoCid \in MinedBlock(blk[j])
             /\ UNCHANGED <<delivered, blk, kept, seen>>
             /\ \A i \in Jobs : i # j => pc'[i] = pc[i]
  <2> USE DEF TypeOK, Past
  <2>1. CASE LoopRecords \/ UNCHANGED vars
    BY <1>3, <2>1 DEF LoopRecords, RecordRound, RecordNothing, vars, jobVars
  <2>2. CASE \E i \in Jobs, b \in Blocks : GoBroadCast(i, b)
    BY <1>3, <2>2 DEF GoBroadCast
  <2>3. CASE \E i \in Jobs : CheckHasBlock(i)
    BY <1>3, <2>3 DEF CheckHasBlock
  <2>4. CASE \E i \in Jobs : CheckMinedBlock(i)
    BY <1>3, <2>4 DEF CheckMinedBlock
  <2>5. CASE \E i \in Jobs : SubmitBlock(i)
    BY <1>3, <2>5 DEF SubmitBlock
  <2>6. CASE \E i \in Jobs : PutBlock(i)
    BY <1>3, <2>6 DEF PutBlock, LocalRecords, StateAt
  <2>7. CASE \E i \in Jobs : PutEpoch(i)
    BY <1>3, <2>7 DEF PutEpoch
  <2>8. CASE Crash
    BY <1>3, <2>8 DEF Crash
  <2> QED BY <2>1, <2>2, <2>3, <2>4, <2>5, <2>6, <2>7, <2>8 DEF Next, JobStep
<1>4. ASSUME NEW j \in Jobs, NEW k \in Jobs, Past(j), Past(k)', ~Past(k),
             TimeOffset(blk[j], blk[k])
      PROVE  PairExcused(j, k) /\ PairExcused(k, j)
  <2>1. pc[k] = "MinedBlock" /\ NoCid \in MinedBlock(blk[k]) /\ j # k
    BY <1>3, <1>4
  <2>2. CASE pc[j] # "done"
    <3>1. Open(j) /\ Open(k)
      BY <1>1, <1>4, <2>1, <2>2 DEF Open
    <3>2. Excused(j, k) /\ Excused(k, j)
      BY <2>1, <3>1 DEF OpenSeen, Excused
    <3> QED BY <3>2 DEF PairExcused
  <2>3. CASE pc[j] = "done" /\ j \notin kept
    BY <2>3 DEF PairExcused, Excused, Unrecorded
  <2>4. CASE j \in kept
    <3> DEFINE key == <<blk[k].miner, blk[k].parents>>
    <3>1. key = <<blk[j].miner, blk[j].parents>>
      BY <1>4 DEF TimeOffset
    <3>2. key \in DOMAIN byParents
      BY <2>4, <3>1 DEF ParentsEntered
    <3>3. byParents[key] = blk[k]
      <4>1. byParents[key] # NoCid
        BY <3>2, NullAssumption DEF TypeOK, StoresOK
      <4> QED BY <2>1, <3>2, <4>1 DEF MinedBlock, LocalMinedBlock, LocalCheckFault
    <3>4. PICK i \in delivered : blk[i] = blk[k]
      BY <3>2, <3>3 DEF EntriesDelivered
    <3>5. i \in Jobs /\ Past(i) /\ j \in delivered
      BY <1>4, <2>4, <3>4 DEF TypeOK, Past, Phases
    <3>6. PairExcused(j, i)
      BY <1>4, <3>4, <3>5 DEF OffsetsExcused
    <3>7. PairExcused(j, k)
      BY <3>4, <3>6 DEF PairExcused
    <3>8. PairExcused(k, j)
      BY <3>7, <3>5, <3>4, <3>6 DEF PairExcused, Excused
    <3> QED BY <3>7, <3>8
  <2> QED BY <2>2, <2>3, <2>4
<1>5. ASSUME NEW j \in Jobs, NEW k \in Jobs, Past(j), Past(k)', ~Past(k),
             TimeOffset(blk[j], blk[k])
      PROVE  PairExcused(j, k)' /\ PairExcused(k, j)'
  <2>1. /\ UNCHANGED <<delivered, blk, kept, seen>> /\ pc'[k] = "Submit" /\ pc[k] = "MinedBlock"
        /\ \A i \in Jobs : i # k => pc'[i] = pc[i]
    BY <1>3, <1>5
  <2>2. \A i \in Jobs, l \in Jobs : Excused(i, l) => Excused(i, l)'
    BY <2>1 DEF Excused, Unrecorded
  <2> QED BY <1>4, <1>5, <2>1, <2>2 DEF PairExcused
<1>6. ASSUME NEW j \in Jobs, NEW k \in Jobs, Past(j)', Past(k)', TimeOffset(blk[j], blk[k])'
      PROVE  PairExcused(j, k)'
  <2>1. blk'[j] = blk[j] /\ blk'[k] = blk[k]
    BY <1>1, <1>3, <1>6, JobKept
  <2>2. TimeOffset(blk[j], blk[k]) /\ TimeOffset(blk[k], blk[j])
    BY <1>6, <2>1 DEF TimeOffset
  <2>3. CASE Past(j) /\ Past(k)
    BY <1>2, <2>2, <2>3 DEF OffsetsExcused
  <2>4. CASE Past(j) /\ ~Past(k)
    BY <1>5, <1>6, <2>2, <2>4
  <2>5. CASE ~Past(j) /\ Past(k)
    BY <1>5, <1>6, <2>2, <2>5
  <2>6. CASE ~Past(j) /\ ~Past(k)
    <3>1. j = k
      BY <1>3, <1>6, <2>6
    <3> QED BY <2>2, <3>1 DEF TimeOffset
  <2> QED BY <2>3, <2>4, <2>5, <2>6
<1> QED BY <1>6 DEF OffsetsExcused

\* The inductive invariant of the local filter.
LEMMA LocalInductive ==
    ASSUME Filter = "local"
    PROVE  Spec => []LocalIInv
<1>1. Init => LocalIInv
  <2> SUFFICES ASSUME Init PROVE LocalIInv
    OBVIOUS
  <2>1. IInv
    BY InitIInv
  <2>2. SuccessDelivered /\ OpenSeen /\ RefusalNamesSubmitted
    BY DEF Init, SuccessDelivered, OpenSeen, Open, RefusalNamesSubmitted
  <2>3. EntriesDelivered /\ ParentsEntered
    BY DEF Init, LocalInit, EntriesDelivered, ParentsEntered
  <2>4. OffsetsExcused
    BY DEF Init, OffsetsExcused, Past
  <2> QED BY <2>1, <2>2, <2>3, <2>4 DEF LocalIInv, IInv
<1>2. LocalIInv /\ [Next]_vars => LocalIInv'
  BY NextTypeOK, NextPhases, NextSuccessDelivered, NextOpenSeen, NextEntries, NextRefusals,
     NextOffsets DEF LocalIInv
<1> QED BY <1>1, <1>2, PTL DEF Spec

\* With the local filter, the network receives two blocks of one miner on the same
\* parents only when goroutines for them overlapped or a record was lost (local.go:62).
THEOREM TimeOffsetsAreExcused ==
    ASSUME Filter = "local"
    PROVE  Spec => []TimeOffsetExcused
<1>1. LocalIInv => TimeOffsetExcused
  <2> SUFFICES ASSUME LocalIInv, NEW a \in Published, NEW b \in Published, TimeOffset(a, b)
               PROVE  \E i, l \in delivered : blk[i] = a /\ blk[l] = b /\ Excused(i, l)
    BY DEF TimeOffsetExcused
  <2>a. PICK j \in delivered, k \in delivered : blk[j] = a /\ blk[k] = b
    BY DEF Published
  <2>1. j \in Jobs /\ k \in Jobs /\ Past(j) /\ Past(k)
    BY DEF LocalIInv, TypeOK, Past
  <2>2. PairExcused(j, k)
    BY <2>a, <2>1 DEF LocalIInv, OffsetsExcused
  <2> QED BY <2>a, <2>2 DEF PairExcused
<1> QED BY <1>1, LocalInductive, PTL

\* A refusal by the local filter names a block that was submitted to a node (local.go:68).
THEOREM RefusalsAreJustified ==
    ASSUME Filter = "local"
    PROVE  Spec => []RefusalNamesSubmitted
<1>1. LocalIInv => RefusalNamesSubmitted
  BY DEF LocalIInv
<1> QED BY <1>1, LocalInductive, PTL

------------------------------------------------------------------------------
(* The invariant of the composition *)

\* The goroutine has been started and has not ended.
Running(j) == pc[j] \notin {"idle", "done"}

\* The block that the filter holds for a miner and an epoch, NoCid for none.
Entry(m, h) ==
    IF ~HasBlock(m, h) THEN NoCid
    ELSE IF Filter = "mysql" THEN rows[<<m, h>>].cid ELSE byEpoch[<<m, h>>]

MiningTypes == stage \in [Miners -> Stages] /\ fork \in BOOLEAN /\ reorged \in BOOLEAN

\* The height of an open round was checked when it began.
OpenHeight == phase = "open" => RoundHeight(work) \in Epochs

\* Two goroutines that run at the same time work for different miners: a round
\* starts one for each of its winners, after those of the round before have ended.
Alone ==
    \A j, k \in Jobs : Running(j) /\ Running(k) /\ blk[j].miner = blk[k].miner => j = k

\* In an open round the goroutines that run belong to the round.
OneRound == phase = "open" => \A j \in Jobs : Running(j) => stage[blk[j].miner] = "sent"

\* The filter holds no block for the slot of a goroutine that has passed HasBlock.
SlotFree == \A j \in Jobs : Open(j) => Entry(blk[j].miner, blk[j].height) = NoCid

\* What MinedBlock compares a block with.
Agrees(b) ==
    /\ Entry(b.miner, TsHeight[b.parents]) \in TsBlocks[b.parents] \cup {NoCid}
    /\ Filter = "local" /\ <<b.miner, b.parents>> \in DOMAIN byParents
       => byParents[<<b.miner, b.parents>>] = b

\* The answer of MinedBlock stays true for as long as the goroutine runs.
Checked ==
    \A j \in Jobs :
       pc[j] \in {"Submit", "PutFailed", "PutSuccess", "PutEpoch"} => Agrees(blk[j])

UnderParents(b) ==
    <<b.miner, b.parents>> \in DOMAIN byParents /\ byParents[<<b.miner, b.parents>>] = b

\* A recorded block is the one that the filter holds, in both namespaces.
OnRecord ==
    /\ \A j \in kept : Entry(blk[j].miner, blk[j].height) = blk[j]
    /\ Filter = "local" => \A j \in kept : UnderParents(blk[j])
    /\ \A j \in Jobs : pc[j] = "PutEpoch" => UnderParents(blk[j])

\* While the head stays on one chain no block was mined above the head or the base ...
Below ==
    ~reorged =>
       /\ work # NoBase => TsHeight[work.ts] <= TsHeight[head]
       /\ \A j \in Jobs : pc[j] # "idle" =>
             /\ TsHeight[blk[j].parents] <= TsHeight[head]
             /\ work # NoBase => TsHeight[blk[j].parents] <= TsHeight[work.ts]

\* ... and a goroutine that runs has the miner's newest block.
Newest ==
    ~reorged =>
       \A j, k \in Jobs :
          Running(j) /\ pc[k] # "idle" /\ blk[k].miner = blk[j].miner
          => TsHeight[blk[k].parents] <= TsHeight[blk[j].parents]

Faulty(a, b) ==
    \/ DoubleFork(a, b)
    \/ Filter = "local" /\ TimeOffset(a, b)
    \/ ~reorged /\ ParentGrinding(a, b)

\* Of two published blocks that make a fault one is missing from the filter.
FaultsLost ==
    \A j, k \in delivered : Faulty(blk[j], blk[k]) => Unrecorded(j) \/ Unrecorded(k)

\* Without failures what a node took is on its way into the filter or in it.
Smooth ==
    Failures = {} => \A j \in delivered : pc[j] \in {"PutSuccess", "PutEpoch"} \/ j \in kept

\* What holds with and without Prompt.
MiningTInv == RoundsIInv /\ TypeOK /\ Phases /\ MiningTypes /\ OpenHeight

MiningIInv ==
    /\ MiningTInv
    /\ Alone
    /\ OneRound
    /\ SlotFree
    /\ Checked
    /\ OnRecord
    /\ Below
    /\ Newest
    /\ FaultsLost

------------------------------------------------------------------------------
(* A step of the composition is a step of its parts *)

\* A round is played above its tipset.
LEMMA BaseHeight ==
    ASSUME NEW w \in Base
    PROVE  /\ w.ts \in Tipsets
           /\ TsHeight[w.ts] \in Nat
           /\ TsHeight[w.ts] < RoundHeight(w)
<1>1. w.ts \in Tipsets /\ w.nulls \in Nat
  BY BaseAssumption DEF Base
<1>2. TsHeight[w.ts] \in Nat
  BY <1>1, ChainAssumption
<1> QED BY <1>1, <1>2 DEF RoundHeight

\* The block that a round makes for a miner.
LEMMA RoundBlock ==
    ASSUME NEW w \in Base, RoundHeight(w) \in Epochs, NEW m \in Miners, NEW x \in Msgs
    PROVE  [miner |-> m, height |-> RoundHeight(w), parents |-> w.ts, msgs |-> x] \in Blocks
  BY BaseHeight DEF Blocks

\* The records of a round are records of BroadCast.
LEMMA RecordIsStep ==
    ASSUME work \in Base, RoundHeight(work) \in Epochs, NEW m \in Miners,
           NEW p, NEW s, Record(m, p, s),
           \/ p = work.ts /\ s = "Mining"
           \/ p = EmptyKey /\ s \in {"Timeout", "ChainForked", "Error"}
    PROVE  LoopRecords
<1>1. work.ts \in Tipsets /\ TsHeight[work.ts] < RoundHeight(work)
  BY BaseHeight
<1>2. CASE UNCHANGED vars
  BY <1>2 DEF LoopRecords, RecordNothing
<1>3. CASE RecordRound(m, RoundHeight(work), p, s)
  BY <1>1, <1>3 DEF LoopRecords
<1> QED BY <1>2, <1>3 DEF Record

\* Every step is a step of the goroutines and the filter, or leaves them alone.
LEMMA StepIsBroadCast ==
    ASSUME MiningTInv, [MiningNext]_mineVars
    PROVE  [Next]_vars
<1>1. ASSUME Begun PROVE work \in Base /\ RoundHeight(work) \in Epochs
  BY <1>1 DEF Begun, MiningTInv, RoundsIInv, RoundsTypeOK
<1>2. ASSUME phase = "open" PROVE work \in Base /\ RoundHeight(work) \in Epochs
  BY <1>2 DEF MiningTInv, RoundsIInv, OpenOnLast, OpenHeight
<1>3. CASE \E t \in Tipsets : NextHead(t) \/ EndProofs(t)
  BY <1>3 DEF NextHead, EndProofs
<1>4. CASE NewCandidate \/ EndRound \/ RestartLoop
  BY <1>4 DEF NewCandidate, EndRound, RestartLoop
<1>5. ASSUME NEW m \in Miners, Win(m) \/ Fail(m) PROVE Next
  <2>1. \/ Record(m, work.ts, "Mining")
        \/ Record(m, EmptyKey, "Timeout")
        \/ Record(m, EmptyKey, "Error")
    BY <1>5 DEF Win, Fail
  <2>2. Begun
    BY <1>5 DEF Win, Fail
  <2> QED BY <1>1, <2>1, <2>2, RecordIsStep DEF Next
<1>6. ASSUME NEW m \in Miners, RecordFork(m) PROVE Next
  BY <1>2, <1>6, RecordIsStep DEF RecordFork, Next
<1>7. ASSUME NEW m \in Miners, NotCreated(m) PROVE UNCHANGED vars
  BY <1>7 DEF NotCreated
<1>8. ASSUME NEW m \in Miners, NEW j \in Jobs, NEW x \in Msgs, Send(m, j, x) PROVE Next
  BY <1>2, <1>8, RoundBlock DEF Send, Next
<1>9. CASE \E j \in Jobs : JobStep(j)
  BY <1>9 DEF Next
<1>10. CASE CrashAll
  BY <1>10 DEF CrashAll, Next
<1>11. CASE UNCHANGED mineVars
  BY <1>11 DEF mineVars
<1> QED BY <1>3, <1>4, <1>5, <1>6, <1>7, <1>8, <1>9, <1>10, <1>11 DEF MiningNext

\* A step of the rounds, or the crash that empties them.
LEMMA StepIsRound ==
    ASSUME [MiningNext]_mineVars
    PROVE  [RoundsNext]_roundVars \/ CrashAll
<1>1. ASSUME NEW t \in Tipsets, NextHead(t) PROVE RoundsNext
  BY <1>1 DEF NextHead, RoundsNext
<1>2. ASSUME NEW t \in Tipsets, EndProofs(t) PROVE RoundsNext
  <2>1. {m \in Miners : stage[m] = "won"} \in SUBSET Miners
    OBVIOUS
  <2> QED BY <1>2, <2>1 DEF EndProofs, RoundsNext
<1>3. CASE NewCandidate \/ EndRound \/ RestartLoop
  BY <1>3 DEF NewCandidate, EndRound, RestartLoop, RoundsNext
<1>4. CASE \E m \in Miners : Win(m) \/ Fail(m) \/ RecordFork(m) \/ NotCreated(m)
  BY <1>4 DEF Win, Fail, RecordFork, NotCreated
<1>5. CASE \E m \in Miners, j \in Jobs, x \in Msgs : Send(m, j, x)
  BY <1>5 DEF Send
<1>6. CASE UNCHANGED mineVars
  BY <1>6 DEF mineVars
<1> QED BY <1>1, <1>2, <1>3, <1>4, <1>5, <1>6 DEF MiningNext

\* The second reading of the head does not change the height of the round.
LEMMA SameRoundHeight ==
    ASSUME NEW w \in Base, NEW t \in Tipsets, Extends(w, t)
    PROVE  RoundHeight([w EXCEPT !.ts = t]) = RoundHeight(w)
  BY DEF Base, Extends, OtherAtHeight, RoundHeight

\* The stages and marks of a round.
LEMMA NextMiningTypes ==
    ASSUME MiningTypes, [MiningNext]_mineVars
    PROVE  MiningTypes'
<1> USE DEF MiningTypes, Stages
<1>1. CASE \E t \in Tipsets : NextHead(t) \/ EndProofs(t)
  BY <1>1 DEF NextHead, EndProofs, Forks, Grows
<1>2. CASE NewCandidate \/ EndRound \/ RestartLoop \/ CrashAll
  BY <1>2 DEF NewCandidate, EndRound, RestartLoop, CrashAll, NotBegun
<1>3. ASSUME NEW m \in Miners, Win(m) \/ Fail(m) \/ RecordFork(m) \/ NotCreated(m)
      PROVE  MiningTypes'
  BY <1>3 DEF Win, Fail, RecordFork, NotCreated
<1>4. ASSUME NEW m \in Miners, NEW j \in Jobs, NEW x \in Msgs, Send(m, j, x)
      PROVE  MiningTypes'
  BY <1>4 DEF Send
<1>5. CASE (\E j \in Jobs : JobStep(j) /\ UNCHANGED <<roundVars, stage, fork, reorged>>)
           \/ UNCHANGED mineVars
  BY <1>5 DEF mineVars
<1> QED BY <1>1, <1>2, <1>3, <1>4, <1>5 DEF MiningNext

\* A round is only opened at a height of the instance.
LEMMA NextOpenHeight ==
    ASSUME MiningTInv, [MiningNext]_mineVars
    PROVE  OpenHeight'
<1>1. ASSUME NEW t \in Tipsets, EndProofs(t) PROVE OpenHeight'
  <2>1. work \in Base /\ RoundHeight(work) \in Epochs
    BY <1>1 DEF EndProofs, Begun, MiningTInv, RoundsIInv, RoundsTypeOK
  <2>2. work' = IF Extends(work, t) THEN [work EXCEPT !.ts = t] ELSE work
    BY <1>1 DEF EndProofs, PlayRound
  <2>3. RoundHeight(work') = RoundHeight(work)
    BY <2>1, <2>2, SameRoundHeight
  <2>4. RoundHeight(work)' = RoundHeight(work')
    BY DEF RoundHeight
  <2> QED BY <2>1, <2>3, <2>4 DEF OpenHeight
<1>2. CASE phase' = "idle"
  BY <1>2 DEF OpenHeight
<1>3. CASE UNCHANGED <<work, phase>>
  BY <1>3 DEF MiningTInv, OpenHeight, RoundHeight
<1>4. \/ phase' = "idle"
      \/ UNCHANGED <<work, phase>>
      \/ \E t \in Tipsets : EndProofs(t)
  BY DEF MiningNext, NextHead, MoveHead, NewCandidate, Adopt, Win, Fail, RecordFork, NotCreated,
         Send, EndRound, CloseRound, RestartLoop, Restart, CrashAll, mineVars, roundVars
<1> QED BY <1>1, <1>2, <1>3, <1>4

\* The initial states.
LEMMA InitMining == MiningInit => MiningTInv
<1> SUFFICES ASSUME MiningInit PROVE MiningTInv
  OBVIOUS
<1>1. RoundsIInv /\ IInv
  BY InitRounds, InitIInv DEF MiningInit
<1>2. MiningTypes /\ OpenHeight
  BY DEF MiningInit, RoundsInit, MiningTypes, OpenHeight, NotBegun, Stages
<1> QED BY <1>1, <1>2 DEF MiningTInv, IInv

\* Every step.
LEMMA NextMining == MiningTInv /\ [MiningNext]_mineVars => MiningTInv'
<1> SUFFICES ASSUME MiningTInv, [MiningNext]_mineVars PROVE MiningTInv'
  OBVIOUS
<1>1. TypeOK' /\ Phases'
  BY StepIsBroadCast, NextTypeOK, NextPhases DEF MiningTInv
<1>2. RoundsIInv'
  <2>1. CASE CrashAll
    BY <2>1 DEF CrashAll, MiningTInv, RoundsIInv, RoundsTypeOK, OpenOnLast, WorkFollowsLast
  <2> QED BY <2>1, StepIsRound, NextRounds DEF MiningTInv
<1>3. MiningTypes' /\ OpenHeight'
  BY NextMiningTypes, NextOpenHeight DEF MiningTInv
<1> QED BY <1>1, <1>2, <1>3 DEF MiningTInv

\* Type correctness of the block production path, crashes and restarts included.
THEOREM MiningTypeCorrect == MiningSpec => []MiningTypeOK
<1>1. MiningTInv => MiningTypeOK
  BY DEF MiningTInv, MiningTypes, MiningTypeOK, RoundsIInv
<1> QED BY <1>1, InitMining, NextMining, PTL DEF MiningSpec

\* The rounds only use the filter and the goroutines the way BroadCast allows:
\* what is proved of BroadCast holds of the whole path.
THEOREM MiningIsBroadCast == MiningSpec => Spec
<1>1. MiningInit => Init
  BY DEF MiningInit
<1> QED BY <1>1, InitMining, NextMining, StepIsBroadCast, PTL DEF MiningSpec, Spec

\* So, whatever the rounds and the head do and however long a goroutine runs on
\* (multiminer.go:543), two blocks of one miner at one height reach the network only when
\* the goroutines overlapped or a record was lost, and no record is ever taken back.
THEOREM PathForksAreExcused == MiningSpec => []DoubleForkExcused /\ RecordNeverForgotten
  BY MiningIsBroadCast, DoubleForksAreExcused, RecordsAreKept, PTL

\* Null rounds follow lost rounds (multiminer.go:476) also when the process dies and
\* its goroutines outlive their round.
THEOREM MiningNullRounds == MiningSpec => []WorkFollowsLast
<1>1. MiningTInv => WorkFollowsLast
  BY DEF MiningTInv, RoundsIInv
<1> QED BY <1>1, InitMining, NextMining, PTL DEF MiningSpec

------------------------------------------------------------------------------
(* Who writes what *)

\* Only GoBroadCast makes a goroutine run; a goroutine that runs keeps its block.
LEMMA RunsOn ==
    ASSUME TypeOK, [Next]_vars, NEW j \in Jobs, Running(j)'
    PROVE  \/ Running(j) /\ blk'[j] = blk[j]
           \/ pc[j] = "idle" /\ \E b \in Blocks : GoBroadCast(j, b)
<1>1. CASE Running(j)
  BY <1>1, JobKept DEF Running
<1>2. CASE pc[j] = "done"
  BY <1>2, JobKept DEF Running
<1>3. CASE pc[j] = "idle"
  <2> USE DEF TypeOK, Running
  <2>1. CASE LoopRecords \/ UNCHANGED vars
    BY <1>3, <2>1 DEF LoopRecords, RecordRound, RecordNothing, vars, jobVars
  <2>2. CASE \E i \in Jobs, b \in Blocks : GoBroadCast(i, b)
    BY <1>3, <2>2 DEF GoBroadCast
  <2>3. CASE \E i \in Jobs : CheckHasBlock(i) \/ CheckMinedBlock(i) \/ SubmitBlock(i)
    BY <1>3, <2>3 DEF CheckHasBlock, CheckMinedBlock, SubmitBlock
  <2>4. CASE \E i \in Jobs : PutBlock(i) \/ PutEpoch(i)
    BY <1>3, <2>4 DEF PutBlock, PutEpoch
  <2>5. CASE Crash
    BY <1>3, <2>5 DEF Crash
  <2> QED BY <2>1, <2>2, <2>3, <2>4, <2>5 DEF Next, JobStep
<1> QED BY <1>1, <1>2, <1>3 DEF Running

\* HasBlock tells whether there is an entry.
LEMMA EntryFound ==
    ASSUME TypeOK, NEW m \in Miners, NEW h \in Epochs
    PROVE  HasBlock(m, h) <=> Entry(m, h) # NoCid
<1>1. CASE Filter = "mysql"
  BY <1>1 DEF Entry, HasBlock, MysqlHasBlock
<1>2. CASE Filter = "local"
  BY <1>2, NullAssumption DEF Entry, HasBlock, LocalHasBlock, TypeOK, StoresOK
<1> QED BY <1>1, <1>2, BroadCastAssumption

\* A MySQL PutBlock writes the CID of one row, and none when the header has no CID.
LEMMA MysqlPutEntry ==
    ASSUME RowsOK, Filter = "mysql", NEW n \in Miners, NEW e \in Epochs,
           NEW p, NEW c, NEW s, MysqlPutBlock(n, e, p, c, s),
           NEW m \in Miners, NEW h \in Epochs
    PROVE  /\ c = NoCid \/ <<m, h>> # <<n, e>> => Entry(m, h)' = Entry(m, h)
           /\ c # NoCid /\ s # "Timeout" /\ <<m, h>> = <<n, e>> => Entry(m, h)' = c
<1>1. CASE <<n, e>> \in DOMAIN rows /\ MysqlUpdate(<<n, e>>, p, c, s)
  <2>1. /\ DOMAIN rows' = DOMAIN rows
        /\ rows'[<<n, e>>].cid = IF c = NoCid THEN rows[<<n, e>>].cid ELSE c
        /\ <<m, h>> # <<n, e>> => rows'[<<m, h>>] = rows[<<m, h>>]
    BY <1>1 DEF MysqlUpdate
  <2> QED BY <1>1, <2>1 DEF Entry, HasBlock, MysqlHasBlock
<1>2. CASE <<n, e>> \notin DOMAIN rows /\ MysqlCreate(<<n, e>>, p, c, s)
  <2>1. /\ DOMAIN rows' = DOMAIN rows \cup {<<n, e>>}
        /\ rows'[<<n, e>>].cid = c
        /\ <<m, h>> # <<n, e>> /\ <<m, h>> \in DOMAIN rows => rows'[<<m, h>>] = rows[<<m, h>>]
    BY <1>2 DEF MysqlCreate
  <2> QED BY <1>2, <2>1 DEF Entry, HasBlock, MysqlHasBlock
<1>3. CASE s = "Timeout" /\ UNCHANGED rows
  BY <1>3 DEF Entry, HasBlock, MysqlHasBlock
<1> QED BY <1>1, <1>2, <1>3 DEF MysqlPutBlock

\* An entry is written by the goroutine that then counts as kept and ends; the puts of
\* the rounds write none.
LEMMA EntryWritten ==
    ASSUME TypeOK, Phases, [Next]_vars, NEW m \in Miners, NEW h \in Epochs
    PROVE  \/ Entry(m, h)' = Entry(m, h)
           \/ \E j \in Jobs :
                 /\ pc[j] \in {"PutRefused", "PutFailed", "PutSuccess", "PutEpoch"}
                 /\ pc'[j] = "done"
                 /\ blk[j].miner = m /\ blk[j].height = h
                 /\ Entry(m, h)' = blk[j]
<1>1. ASSUME UNCHANGED filterVars PROVE Entry(m, h)' = Entry(m, h)
  BY <1>1 DEF filterVars, Entry, HasBlock, MysqlHasBlock, LocalHasBlock
<1>2. ASSUME NEW n \in Miners, NEW e \in Epochs, NEW p, NEW s, RecordRound(n, e, p, s)
      PROVE  Entry(m, h)' = Entry(m, h)
  BY <1>2, MysqlPutEntry DEF RecordRound, TypeOK
<1>3. CASE LoopRecords
  BY <1>1, <1>2, <1>3 DEF LoopRecords, RecordNothing, vars
<1>4. ASSUME NEW j \in Jobs, PutBlock(j), Filter = "mysql", ~UNCHANGED filterVars
      PROVE  \/ Entry(m, h)' = Entry(m, h)
             \/ blk[j].miner = m /\ blk[j].height = h /\ Entry(m, h)' = blk[j]
  <2>1. MysqlPutBlock(blk[j].miner, blk[j].height, blk[j].parents, blk[j], StateAt(pc[j]))
    BY <1>4 DEF PutBlock
  <2>2. blk[j] \in Blocks /\ blk[j] # NoCid /\ blk[j].miner \in Miners /\ blk[j].height \in Epochs
    BY <1>4, BlockFields, NullAssumption DEF PutBlock, TypeOK
  <2>3. StateAt(pc[j]) # "Timeout"
    BY DEF StateAt
  <2> QED BY <1>4, <2>1, <2>2, <2>3, MysqlPutEntry DEF TypeOK
<1>5. ASSUME NEW j \in Jobs, PutBlock(j)
      PROVE  \/ Entry(m, h)' = Entry(m, h)
             \/ /\ blk[j].miner = m /\ blk[j].height = h /\ Entry(m, h)' = blk[j]
                /\ pc'[j] = "done"
                /\ pc[j] \in {"PutRefused", "PutFailed", "PutSuccess", "PutEpoch"}
  <2>1. CASE Filter = "mysql" /\ ~UNCHANGED filterVars
    <3>1. pc'[j] = "done" /\ pc[j] \in {"PutRefused", "PutFailed", "PutSuccess", "PutEpoch"}
      BY <1>5, <2>1 DEF PutBlock, TypeOK
    <3> QED BY <1>4, <1>5, <2>1, <3>1
  <2>2. CASE Filter = "local" /\ UNCHANGED byEpoch
    BY <2>2 DEF Entry, HasBlock, LocalHasBlock
  <2> QED BY <1>1, <1>5, <2>1, <2>2, BroadCastAssumption DEF PutBlock, filterVars
<1>6. ASSUME NEW j \in Jobs, PutEpoch(j)
      PROVE  \/ Entry(m, h)' = Entry(m, h)
             \/ /\ blk[j].miner = m /\ blk[j].height = h /\ Entry(m, h)' = blk[j]
                /\ pc'[j] = "done" /\ pc[j] = "PutEpoch"
  <2>1. Filter = "local" /\ pc'[j] = "done" /\ pc[j] = "PutEpoch"
    BY <1>6 DEF PutEpoch, Phases, TypeOK
  <2>2. CASE UNCHANGED byEpoch
    BY <2>1, <2>2 DEF Entry, HasBlock, LocalHasBlock
  <2>3. CASE LocalPutEpoch(blk[j])
    <3>1. CASE blk[j].miner = m /\ blk[j].height = h
      BY <2>1, <2>3, <3>1 DEF LocalPutEpoch, Entry, HasBlock, LocalHasBlock
    <3>2. CASE <<m, h>> # <<blk[j].miner, blk[j].height>>
      BY <2>1, <2>3, <3>2 DEF LocalPutEpoch, Entry, HasBlock, LocalHasBlock
    <3> QED BY <2>1, <3>1, <3>2
  <2> QED BY <1>6, <2>2, <2>3 DEF PutEpoch
<1>7. CASE \E j \in Jobs : PutBlock(j) \/ PutEpoch(j)
  BY <1>5, <1>6, <1>7
<1> QED BY <1>1, <1>3, <1>7
    DEF Next, JobStep, GoBroadCast, CheckHasBlock, CheckMinedBlock, SubmitBlock, Crash, vars

\* A goroutine that counts as kept has written its entry.
LEMMA KeptWrites ==
    ASSUME TypeOK, Phases, [Next]_vars, NEW j \in kept', j \notin kept,
           NEW m, NEW h, blk[j].miner = m, blk[j].height = h
    PROVE  /\ j \in Jobs /\ UNCHANGED <<blk, byParents>>
           /\ Entry(m, h)' = blk[j]
           /\ Filter = "local" => pc[j] = "PutEpoch"
<1>1. \/ j \in Jobs /\ PutBlock(j) /\ Filter = "mysql"
      \/ j \in Jobs /\ PutEpoch(j) /\ LocalPutEpoch(blk[j])
  BY DEF TypeOK, Next, LoopRecords, RecordRound, RecordNothing, GoBroadCast,
         JobStep, CheckHasBlock, CheckMinedBlock, SubmitBlock, PutBlock, PutEpoch,
         Crash, vars, jobVars
<1>2. CASE j \in Jobs /\ PutBlock(j) /\ Filter = "mysql"
  <2>1. /\ MysqlPutBlock(blk[j].miner, blk[j].height, blk[j].parents, blk[j], StateAt(pc[j]))
        /\ UNCHANGED <<blk, byParents>>
    BY <1>2 DEF PutBlock
  <2>2. blk[j] \in Blocks /\ blk[j] # NoCid /\ m \in Miners /\ h \in Epochs
    BY <1>2, BlockFields, NullAssumption DEF PutBlock, TypeOK
  <2>3. StateAt(pc[j]) # "Timeout"
    BY DEF StateAt
  <2> QED BY <1>2, <2>1, <2>2, <2>3, MysqlPutEntry DEF TypeOK
<1>3. CASE j \in Jobs /\ PutEpoch(j) /\ LocalPutEpoch(blk[j])
  <2>1. Filter = "local" /\ pc[j] = "PutEpoch" /\ UNCHANGED <<blk, byParents>>
    BY <1>3 DEF PutEpoch, Phases
  <2> QED BY <1>3, <2>1 DEF LocalPutEpoch, Entry, HasBlock, LocalHasBlock
<1> QED BY <1>1, <1>2, <1>3

\* An entry of the other namespace is written by a goroutine about to write the first.
LEMMA ParentsWritten ==
    ASSUME TypeOK, [Next]_vars, NEW key
    PROVE  \/ /\ key \in DOMAIN byParents' <=> key \in DOMAIN byParents
              /\ key \in DOMAIN byParents => byParents'[key] = byParents[key]
           \/ \E j \in Jobs :
                 /\ pc[j] = "PutSuccess" /\ pc'[j] = "PutEpoch"
                 /\ key = <<blk[j].miner, blk[j].parents>>
                 /\ key \in DOMAIN byParents' /\ byParents'[key] = blk[j]
<1>1. CASE UNCHANGED byParents
  BY <1>1
<1>2. ASSUME NEW j \in Jobs, PutBlock(j), ~UNCHANGED byParents
      PROVE  \/ /\ key \in DOMAIN byParents' <=> key \in DOMAIN byParents
                /\ key \in DOMAIN byParents => byParents'[key] = byParents[key]
             \/ /\ pc[j] = "PutSuccess" /\ pc'[j] = "PutEpoch"
                /\ key = <<blk[j].miner, blk[j].parents>>
                /\ key \in DOMAIN byParents' /\ byParents'[key] = blk[j]
  <2>1. LocalPutParents(blk[j]) /\ pc[j] = "PutSuccess" /\ pc'[j] = "PutEpoch"
    BY <1>2 DEF PutBlock, LocalRecords, StateAt, TypeOK, filterVars
  <2>2. CASE key = <<blk[j].miner, blk[j].parents>>
    BY <2>1, <2>2 DEF LocalPutParents
  <2>3. CASE key # <<blk[j].miner, blk[j].parents>> /\ key \in DOMAIN byParents
    BY <2>1, <2>3 DEF LocalPutParents
  <2>4. CASE key # <<blk[j].miner, blk[j].parents>> /\ key \notin DOMAIN byParents
    BY <2>1, <2>4 DEF LocalPutParents
  <2> QED BY <2>2, <2>3, <2>4
<1>3. UNCHANGED byParents \/ \E j \in Jobs : PutBlock(j)
  BY DEF Next, LoopRecords, RecordRound, RecordNothing, GoBroadCast, JobStep, CheckHasBlock,
         CheckMinedBlock, SubmitBlock, PutEpoch, Crash, vars, filterVars
<1> QED BY <1>1, <1>2, <1>3

------------------------------------------------------------------------------
(* One goroutine per miner *)

\* Two goroutines never run for one miner: those of a round have different miners, and
\* with Prompt a round ends its proofs when those of the round before are gone.
LEMMA NextAlone ==
    ASSUME Prompt, MiningTInv, Alone, OneRound, [MiningNext]_mineVars
    PROVE  Alone' /\ OneRound'
<1> USE DEF MiningTInv
<1>1. [Next]_vars
  BY StepIsBroadCast
<1>2. ASSUME \A j \in Jobs : Running(j)' => Running(j) /\ blk'[j] = blk[j],
             phase' = "open" => phase = "open",
             phase' = "open" => \A m \in Miners : stage[m] = "sent" => stage'[m] = "sent"
      PROVE  Alone' /\ OneRound'
  <2>1. ASSUME NEW j \in Jobs, Running(j) PROVE blk[j].miner \in Miners
    BY <2>1, BlockFields DEF Running, TypeOK
  <2> QED BY <1>2, <2>1 DEF Alone, OneRound
<1>3. ASSUME UNCHANGED <<pc, blk>>
      PROVE  \A j \in Jobs : Running(j)' => Running(j) /\ blk'[j] = blk[j]
  BY <1>3 DEF Running
<1>4. ASSUME NEW m \in Miners, NEW p, NEW s, Record(m, p, s)
      PROVE  UNCHANGED <<pc, blk>>
  BY <1>4 DEF Record, RecordRound, vars, jobVars
<1>5. CASE \E t \in Tipsets : NextHead(t)
  BY <1>2, <1>3, <1>5 DEF NextHead, MoveHead, vars, jobVars
<1>6. CASE NewCandidate \/ RestartLoop \/ EndRound
  BY <1>2, <1>3, <1>6 DEF NewCandidate, Adopt, RestartLoop, Restart, EndRound, CloseRound,
                          vars, jobVars
<1>7. ASSUME NEW t \in Tipsets, EndProofs(t) PROVE Alone' /\ OneRound'
  <2>1. \A j \in Jobs : ~Running(j)'
    BY <1>7 DEF EndProofs, Begun, Running, vars, jobVars
  <2> QED BY <2>1 DEF Alone, OneRound
<1>8. ASSUME NEW m \in Miners, Win(m) \/ Fail(m) PROVE Alone' /\ OneRound'
  <2>1. UNCHANGED <<pc, blk>> /\ phase' = "idle"
    BY <1>4, <1>8 DEF Win, Fail, Begun, roundVars
  <2> QED BY <1>2, <1>3, <2>1
<1>9. ASSUME NEW m \in Miners, RecordFork(m) \/ NotCreated(m) PROVE Alone' /\ OneRound'
  <2>1. UNCHANGED <<pc, blk, phase>>
    BY <1>4, <1>9 DEF RecordFork, NotCreated, roundVars, vars, jobVars
  <2>2. \A n \in Miners : stage[n] = "sent" => stage'[n] = "sent"
    BY <1>9 DEF RecordFork, NotCreated, MiningTypes
  <2> QED BY <1>2, <1>3, <2>1, <2>2
<1>10. ASSUME NEW m \in Miners, NEW i \in Jobs, NEW x \in Msgs, Send(m, i, x)
       PROVE  Alone' /\ OneRound'
  <2>1. phase = "open" /\ phase' = "open" /\ stage[m] # "sent"
    BY <1>10 DEF Send, roundVars
  <2>2. stage' = [stage EXCEPT ![m] = "sent"] /\ stage \in [Miners -> Stages]
    BY <1>10 DEF Send, MiningTypes
  <2>3. pc[i] = "idle" /\ blk'[i].miner = m
        /\ \A j \in Jobs : j # i => pc'[j] = pc[j] /\ blk'[j] = blk[j]
    BY <1>10 DEF Send, GoBroadCast, TypeOK
  <2>4. \A j \in Jobs : Running(j) => stage[blk[j].miner] = "sent" /\ blk[j].miner \in Miners
    BY <2>1, BlockFields DEF OneRound, Running, TypeOK
  <2>5. \A j \in Jobs : Running(j)' /\ j # i => Running(j)
    BY <2>3 DEF Running
  <2>6. Alone'
    BY <2>1, <2>3, <2>4, <2>5 DEF Alone
  <2>7. OneRound'
    BY <2>2, <2>3, <2>4, <2>5 DEF OneRound
  <2> QED BY <2>6, <2>7
<1>11. ASSUME NEW i \in Jobs, JobStep(i), UNCHANGED <<roundVars, stage, fork, reorged>>
       PROVE  Alone' /\ OneRound'
  <2>1. pc[i] # "idle" /\ \A j \in Jobs : j # i => pc'[j] = pc[j]
    BY <1>11 DEF JobStep, CheckHasBlock, CheckMinedBlock, SubmitBlock, PutBlock, PutEpoch, TypeOK
  <2>2. \A j \in Jobs : Running(j)' => Running(j) /\ blk'[j] = blk[j]
    BY <1>1, <2>1, RunsOn, JobKept DEF Running
  <2> QED BY <1>2, <1>11, <2>2 DEF roundVars
<1>12. CASE CrashAll
  <2>1. \A j \in Jobs : ~Running(j)'
    BY <1>12 DEF CrashAll, Crash, Running
  <2> QED BY <2>1 DEF Alone, OneRound
<1>13. CASE UNCHANGED mineVars
  BY <1>2, <1>3, <1>13 DEF mineVars, vars, jobVars, roundVars
<1> QED BY <1>5, <1>6, <1>7, <1>8, <1>9, <1>10, <1>11, <1>12, <1>13 DEF MiningNext

------------------------------------------------------------------------------
(* What the filter says stays true *)

\* MinedBlock finds no fault only when the filter agrees with the block.
LEMMA MinedBlockAgrees ==
    ASSUME TypeOK, NEW b \in Blocks, NoCid \in MinedBlock(b)
    PROVE  Agrees(b)
<1> DEFINE e == TsHeight[b.parents]
<1>0. b.miner \in Miners /\ b.parents \in Tipsets /\ e \in Epochs
  BY BlockFields, ChainAssumption
<1>1. CASE Filter = "mysql"
  <2>1. MysqlParentGrinding(b) = NoCid
    BY <1>1 DEF MinedBlock, MysqlMinedBlock
  <2>2. Entry(b.miner, e) \in TsBlocks[b.parents] \cup {NoCid}
    BY <1>1, <2>1 DEF MysqlParentGrinding, Entry, HasBlock, MysqlHasBlock
  <2> QED BY <1>1, <2>2 DEF Agrees
<1>2. CASE Filter = "local"
  <2>1. LocalCheckFault(b) = NoCid /\ LocalParentGrinding(b) = NoCid
    BY <1>2 DEF MinedBlock, LocalMinedBlock
  <2>2. Entry(b.miner, e) \in TsBlocks[b.parents] \cup {NoCid}
    BY <1>2, <2>1, NullAssumption DEF LocalParentGrinding, Entry, HasBlock, LocalHasBlock, TypeOK,
        StoresOK
  <2>3. <<b.miner, b.parents>> \in DOMAIN byParents => byParents[<<b.miner, b.parents>>] = b
    BY <2>1, NullAssumption DEF LocalCheckFault, TypeOK, StoresOK
  <2> QED BY <2>2, <2>3 DEF Agrees
<1> QED BY <1>1, <1>2, BroadCastAssumption

\* A slot stays free until the one goroutine of its miner writes to it.
LEMMA NextSlotFree ==
    ASSUME TypeOK, Phases, Alone, SlotFree, [Next]_vars
    PROVE  SlotFree'
<1> SUFFICES ASSUME NEW j \in Jobs, Open(j)'
             PROVE  (Entry(blk[j].miner, blk[j].height) = NoCid)'
  BY DEF SlotFree
<1>1. CASE Open(j)
  <2>1. PICK m \in Miners, h \in Epochs : m = blk[j].miner /\ h = blk[j].height
    BY <1>1, BlockFields DEF Open, TypeOK
  <2>2. blk'[j] = blk[j]
    BY <1>1, JobKept DEF Open
  <2>3. Entry(m, h) = NoCid
    BY <1>1, <2>1 DEF SlotFree
  <2>4. Entry(m, h)' = Entry(m, h)
    <3>1. ASSUME NEW i \in Jobs, pc[i] \in {"PutRefused", "PutFailed", "PutSuccess", "PutEpoch"},
                 pc'[i] = "done", blk[i].miner = m
          PROVE  FALSE
      BY <1>1, <2>1, <3>1 DEF Alone, Running, Open
    <3> QED BY <3>1, EntryWritten
  <2> QED BY <2>1, <2>2, <2>3, <2>4 DEF Entry, HasBlock, MysqlHasBlock, LocalHasBlock
<1>2. CASE ~Open(j)
  <2>1. /\ pc[j] = "HasBlock" /\ ~HasBlock(blk[j].miner, blk[j].height)
        /\ UNCHANGED <<filterVars, blk>>
    BY <1>2 DEF TypeOK, Open, Next, LoopRecords, RecordRound, RecordNothing, GoBroadCast,
          JobStep, CheckHasBlock, CheckMinedBlock, SubmitBlock, PutBlock, PutEpoch, Crash, vars, jobVars
  <2> QED BY <2>1 DEF Entry, HasBlock, MysqlHasBlock, LocalHasBlock, filterVars
<1> QED BY <1>1, <1>2

\* Only the miner's own goroutine could make the answer of MinedBlock wrong, and what
\* it writes is its own block, above the epoch of the parents.
LEMMA NextChecked ==
    ASSUME TypeOK, Phases, Alone, Checked, [Next]_vars
    PROVE  Checked'
<1> DEFINE After == {"Submit", "PutFailed", "PutSuccess", "PutEpoch"}
<1> SUFFICES ASSUME NEW j \in Jobs, pc'[j] \in After
             PROVE  Agrees(blk[j])'
  BY DEF Checked
<1>1. CASE pc[j] \in After
  <2>1. PICK b \in Blocks : b = blk[j]
    BY <1>1 DEF TypeOK
  <2>2. blk'[j] = b
    BY <1>1, <2>1, JobKept
  <2>3. Agrees(b)
    BY <1>1, <2>1 DEF Checked
  <2>4. ASSUME NEW i \in Jobs, pc[i] \in {"PutRefused", "PutFailed", "PutSuccess", "PutEpoch"},
               blk[i].miner = b.miner
        PROVE  i = j
    BY <1>1, <2>1, <2>4 DEF Alone, Running
  <2>5. PICK m \in Miners, p \in Tipsets, h \in Epochs :
            m = b.miner /\ p = b.parents /\ h = TsHeight[b.parents]
    BY BlockFields, ChainAssumption
  <2>6. h < b.height /\ h \in Nat /\ b.height \in Nat
    BY <2>5, ChainAssumption DEF Blocks
  <2>7. Entry(m, h)' = Entry(m, h)
    BY <2>1, <2>4, <2>5, <2>6, EntryWritten
  <2>8. <<m, p>> \in DOMAIN byParents' =>
           \/ byParents'[<<m, p>>] = b
           \/ <<m, p>> \in DOMAIN byParents /\ byParents'[<<m, p>>] = byParents[<<m, p>>]
    BY <2>1, <2>4, <2>5, ParentsWritten
  <2>9. Entry(m, h)' \in TsBlocks[p] \cup {NoCid}
    BY <2>3, <2>5, <2>7 DEF Agrees
  <2>10. Filter = "local" /\ <<m, p>> \in DOMAIN byParents' => byParents'[<<m, p>>] = b
    BY <2>3, <2>5, <2>8 DEF Agrees
  <2> QED BY <2>2, <2>5, <2>9, <2>10 DEF Agrees, Entry, HasBlock, MysqlHasBlock, LocalHasBlock
<1>2. CASE pc[j] \notin After
  <2>1. /\ pc[j] = "MinedBlock" /\ NoCid \in MinedBlock(blk[j])
        /\ UNCHANGED <<filterVars, blk>>
    BY <1>2 DEF TypeOK, Next, LoopRecords, RecordRound, RecordNothing, GoBroadCast,
          JobStep, CheckHasBlock, CheckMinedBlock, SubmitBlock, PutBlock, LocalRecords, StateAt,
          PutEpoch, Crash, vars, jobVars
  <2>2. Agrees(blk[j])
    BY <2>1, MinedBlockAgrees DEF TypeOK
  <2> QED BY <2>1, <2>2 DEF Agrees, Entry, HasBlock, MysqlHasBlock, LocalHasBlock, filterVars
<1> QED BY <1>1, <1>2

\* A record is never replaced by another block: who writes to the slot had found it
\* free, and who writes under the parents had found them free or taken by its own block.
LEMMA NextOnRecord ==
    ASSUME TypeOK, Phases, Alone, SlotFree, Checked, OnRecord, [Next]_vars
    PROVE  OnRecord'
<1>1. ASSUME NEW b \in Blocks, UnderParents(b), Filter = "local" PROVE UnderParents(b)'
  <2>1. PICK key : key = <<b.miner, b.parents>>
    OBVIOUS
  <2>2. key \in DOMAIN byParents /\ byParents[key] = b
    BY <1>1, <2>1 DEF UnderParents
  <2>3. ASSUME NEW i \in Jobs, pc[i] = "PutSuccess", key = <<blk[i].miner, blk[i].parents>>
        PROVE  blk[i] = b
    BY <1>1, <2>2, <2>3 DEF Checked, Agrees
  <2>4. key \in DOMAIN byParents' /\ byParents'[key] = b
    BY <2>2, <2>3, ParentsWritten
  <2> QED BY <2>1, <2>4 DEF UnderParents
<1>2. ASSUME NEW j \in kept, NEW m \in Miners, NEW h \in Epochs,
             m = blk[j].miner, h = blk[j].height
      PROVE  Entry(m, h)' = blk[j]
  <2>1. Entry(m, h) = blk[j] /\ blk[j] # NoCid
    BY <1>2, NullAssumption DEF OnRecord, TypeOK, Phases
  <2>2. ASSUME NEW i \in Jobs, pc[i] \in {"PutRefused", "PutFailed", "PutSuccess", "PutEpoch"},
               blk[i].miner = m, blk[i].height = h
        PROVE  FALSE
    BY <2>1, <2>2 DEF SlotFree, Open
  <2> QED BY <2>1, <2>2, EntryWritten
<1>3. ASSUME NEW j \in kept'
      PROVE  (Entry(blk[j].miner, blk[j].height) = blk[j])' /\ (Filter = "local" => UnderParents(blk[j])')
  <2>0. j \in Jobs /\ blk[j] \in Blocks /\ blk'[j] = blk[j]
    <3>1. CASE j \in kept
      BY <3>1, JobKept DEF TypeOK, Phases
    <3>2. CASE j \notin kept
      <4>1. PICK m, h : m = blk[j].miner /\ h = blk[j].height
        OBVIOUS
      <4>2. j \in Jobs /\ blk' = blk
        BY <3>2, <4>1, KeptWrites
      <4>3. pc'[j] = "done"
        BY NextPhases, <4>2 DEF Phases
      <4>4. blk'[j] \in Blocks
        BY <4>2, <4>3, NextTypeOK DEF TypeOK
      <4> QED BY <4>2, <4>4
    <3> QED BY <3>1, <3>2
  <2>1. PICK b \in Blocks, m \in Miners, h \in Epochs : b = blk[j] /\ m = b.miner /\ h = b.height
    BY <2>0, BlockFields
  <2>2. Entry(m, h)' = b
    BY <1>2, <2>1, KeptWrites
  <2>3. ASSUME Filter = "local" PROVE UnderParents(b)'
    <3>1. j \in kept \/ pc[j] = "PutEpoch"
      BY <2>1, <2>3, KeptWrites
    <3>2. UnderParents(b)
      BY <2>0, <2>1, <2>3, <3>1 DEF OnRecord
    <3> QED BY <1>1, <2>3, <3>2
  <2>4. (Entry(blk[j].miner, blk[j].height) = blk[j])'
    BY <2>0, <2>1, <2>2 DEF Entry, HasBlock, MysqlHasBlock, LocalHasBlock
  <2>5. Filter = "local" => UnderParents(blk[j])'
    BY <2>0, <2>1, <2>3 DEF UnderParents
  <2> QED BY <2>4, <2>5
<1>4. ASSUME NEW j \in Jobs, pc'[j] = "PutEpoch" PROVE UnderParents(blk[j])'
  <2>1. CASE pc[j] = "PutEpoch"
    <3>1. PICK b \in Blocks : b = blk[j] /\ b = blk'[j]
      BY <2>1, JobKept DEF TypeOK
    <3>2. UnderParents(b)'
      BY <1>1, <2>1, <3>1 DEF OnRecord, Phases
    <3> QED BY <3>1, <3>2 DEF UnderParents
  <2>2. CASE pc[j] # "PutEpoch"
    <3>1. LocalPutParents(blk[j]) /\ blk' = blk
      BY <1>4, <2>2 DEF TypeOK, Next, LoopRecords, RecordRound, RecordNothing, GoBroadCast,
          JobStep, CheckHasBlock, CheckMinedBlock, SubmitBlock, PutBlock,
          PutEpoch, Crash, vars, jobVars
    <3> QED BY <3>1 DEF LocalPutParents, UnderParents
  <2> QED BY <2>1, <2>2
<1> QED BY <1>3, <1>4 DEF OnRecord

------------------------------------------------------------------------------
(* A chain that only grows *)

\* A step that leaves the base of a height that it had, and starts no goroutine.
LEMMA BelowStays ==
    ASSUME MiningTInv, Below, Newest,
           \A j \in Jobs : pc'[j] # "idle" => pc[j] # "idle" /\ blk'[j] = blk[j],
           \A j \in Jobs : Running(j)' => Running(j),
           reorged => reorged',
           ~reorged' => TsHeight[head] <= TsHeight[head'],
           head' \in Tipsets,
           \/ work' = NoBase
           \/ work \in Base /\ work' \in Base /\ TsHeight[work'.ts] = TsHeight[work.ts]
    PROVE  Below' /\ Newest'
<1>1. CASE reorged'
  BY <1>1 DEF Below, Newest
<1>2. CASE ~reorged'
  <2>1. ~reorged
    BY <1>2
  <2>2. TsHeight[head] \in Nat /\ TsHeight[head'] \in Nat
    BY ChainAssumption DEF MiningTInv, RoundsIInv, RoundsTypeOK
  <2>3. \A j \in Jobs : pc[j] # "idle" => TsHeight[blk[j].parents] \in Nat
    BY BlockFields, ChainAssumption DEF MiningTInv, TypeOK
  <2>4. Newest'
    BY <2>1 DEF Newest, Running
  <2>5. CASE work' = NoBase
    BY <1>2, <2>1, <2>2, <2>3, <2>4, <2>5 DEF Below
  <2>6. CASE work \in Base /\ work' \in Base /\ TsHeight[work'.ts] = TsHeight[work.ts]
    <3>1. work # NoBase /\ TsHeight[work.ts] \in Nat
      BY <2>6, NullAssumption, BaseHeight DEF Base, NoBase
    <3>2. TsHeight[work.ts] <= TsHeight[head]
      BY <2>1, <3>1 DEF Below
    <3>3. \A j \in Jobs : pc[j] # "idle" => /\ TsHeight[blk[j].parents] <= TsHeight[head]
                                           /\ TsHeight[blk[j].parents] <= TsHeight[work.ts]
      BY <2>1, <3>1 DEF Below
    <3> QED BY <1>2, <2>2, <2>3, <2>4, <2>6, <3>1, <3>2, <3>3 DEF Below
  <2> QED BY <2>5, <2>6
<1> QED BY <1>1, <1>2

\* While the head stays on one chain heights only grow: those of the head, of the base
\* and of the parents of a miner's blocks.
LEMMA NextBelow ==
    ASSUME MiningTInv, Alone, Alone', Below, Newest, [MiningNext]_mineVars
    PROVE  Below' /\ Newest'
<1> USE DEF MiningTInv
<1>1. [Next]_vars /\ MiningTInv'
  BY StepIsBroadCast, NextMining
<1>2. ASSUME UNCHANGED <<pc, blk>>
      PROVE  /\ \A j \in Jobs : pc'[j] # "idle" => pc[j] # "idle" /\ blk'[j] = blk[j]
             /\ \A j \in Jobs : Running(j)' => Running(j)
  BY <1>2 DEF Running
<1>3. ASSUME UNCHANGED <<head, work>>
      PROVE  /\ TsHeight[head] <= TsHeight[head'] /\ head' \in Tipsets
             /\ \/ work' = NoBase
                \/ work \in Base /\ work' \in Base /\ TsHeight[work'.ts] = TsHeight[work.ts]
  <2>1. head \in Tipsets /\ TsHeight[head] \in Nat
    BY ChainAssumption DEF RoundsIInv, RoundsTypeOK
  <2> QED BY <1>3, <2>1 DEF RoundsIInv, RoundsTypeOK
<1>4. ASSUME NEW m \in Miners, NEW p, NEW s, Record(m, p, s)
      PROVE  UNCHANGED <<pc, blk>>
  BY <1>4 DEF Record, RecordRound, vars, jobVars
<1>5. ASSUME NEW t \in Tipsets, NextHead(t) PROVE Below' /\ Newest'
  <2>1. UNCHANGED <<pc, blk, work>> /\ head' = t /\ reorged' = (reorged \/ ~Grows(t))
    BY <1>5 DEF NextHead, MoveHead, vars, jobVars
  <2>2. TsHeight[head] \in Nat /\ TsHeight[t] \in Nat
    BY ChainAssumption DEF RoundsIInv, RoundsTypeOK
  <2>3. ~reorged' => TsHeight[head] <= TsHeight[head']
    <3>1. ~reorged' => Grows(t)
      BY <2>1
    <3> QED BY <2>1, <2>2, <3>1 DEF Grows
  <2>4. \/ work' = NoBase
        \/ work \in Base /\ work' \in Base /\ TsHeight[work'.ts] = TsHeight[work.ts]
    BY <2>1 DEF RoundsIInv, RoundsTypeOK
  <2> QED BY <1>2, <2>1, <2>3, <2>4, BelowStays DEF MiningTypes
<1>6. CASE NewCandidate
  <2>1. /\ UNCHANGED <<pc, blk, head, reorged>>
        /\ work' = [ts |-> head, nulls |-> 0]
    BY <1>6 DEF NewCandidate, Adopt, BestCandidate, vars, jobVars
  <2>2. TsHeight[head] \in Nat
    BY ChainAssumption DEF RoundsIInv, RoundsTypeOK
  <2>3. Newest'
    BY <2>1 DEF Newest, Running
  <2>4. Below'
    BY <2>1, <2>2 DEF Below
  <2> QED BY <2>3, <2>4
<1>7. ASSUME NEW t \in Tipsets, EndProofs(t) PROVE Below' /\ Newest'
  <2>1. UNCHANGED <<pc, blk, head, reorged>> /\ work \in Base
        /\ work' = IF Extends(work, t) THEN [work EXCEPT !.ts = t] ELSE work
    BY <1>7 DEF EndProofs, Begun, PlayRound, vars, jobVars, RoundsIInv, RoundsTypeOK
  <2>2. work' \in Base /\ TsHeight[work'.ts] = TsHeight[work.ts]
    BY <2>1 DEF Base, Extends, OtherAtHeight
  <2>3. TsHeight[head] <= TsHeight[head'] /\ head' \in Tipsets
    BY <2>1, ChainAssumption DEF RoundsIInv, RoundsTypeOK
  <2> QED BY <1>2, <2>1, <2>2, <2>3, BelowStays
<1>8. CASE EndRound
  <2>1. UNCHANGED <<pc, blk, head, reorged>> /\ work \in Base
        /\ work' \in {work, [work EXCEPT !.nulls = @ + 1]}
    BY <1>8 DEF EndRound, CloseRound, vars, jobVars, RoundsIInv, OpenOnLast
  <2>2. work' # NoBase /\ work' \in Base \cup {NoBase}
    BY <1>1, <2>1, NullAssumption DEF Base, NoBase, RoundsIInv, RoundsTypeOK
  <2>3. work' \in Base /\ TsHeight[work'.ts] = TsHeight[work.ts]
    BY <2>1, <2>2 DEF Base
  <2>4. TsHeight[head] <= TsHeight[head'] /\ head' \in Tipsets
    BY <2>1, ChainAssumption DEF RoundsIInv, RoundsTypeOK
  <2> QED BY <1>2, <2>1, <2>3, <2>4, BelowStays
<1>9. CASE \/ RestartLoop
           \/ \E m \in Miners : Win(m) \/ Fail(m) \/ RecordFork(m) \/ NotCreated(m)
           \/ UNCHANGED mineVars
  <2>1. UNCHANGED <<pc, blk, head, work, reorged>>
    BY <1>4, <1>9 DEF RestartLoop, Restart, Win, Fail, RecordFork, NotCreated, roundVars, vars,
        jobVars,
                      mineVars
  <2> QED BY <1>2, <1>3, <2>1, BelowStays
<1>10. ASSUME NEW i \in Jobs, JobStep(i), UNCHANGED <<roundVars, stage, fork, reorged>>
       PROVE  Below' /\ Newest'
  <2>1. pc[i] # "idle" /\ \A j \in Jobs : j # i => pc'[j] = pc[j]
    BY <1>10 DEF JobStep, CheckHasBlock, CheckMinedBlock, SubmitBlock, PutBlock, PutEpoch, TypeOK
  <2>2. \A j \in Jobs : pc'[j] # "idle" => pc[j] # "idle" /\ blk'[j] = blk[j]
    BY <1>1, <2>1, JobKept
  <2>3. \A j \in Jobs : Running(j)' => Running(j)
    BY <1>1, <2>1, RunsOn DEF Running
  <2> QED BY <1>3, <1>10, <2>2, <2>3, BelowStays DEF roundVars
<1>11. CASE CrashAll
  <2>1. /\ \A j \in Jobs : pc'[j] # "idle" => pc[j] # "idle" /\ blk'[j] = blk[j]
        /\ \A j \in Jobs : Running(j)' => Running(j)
        /\ work' = NoBase /\ UNCHANGED <<head, reorged>>
    BY <1>11 DEF CrashAll, Crash, Running
  <2>2. head \in Tipsets /\ TsHeight[head] \in Nat
    BY ChainAssumption DEF RoundsIInv, RoundsTypeOK
  <2>3. TsHeight[head] <= TsHeight[head'] /\ head' \in Tipsets
    BY <2>1, <2>2
  <2> QED BY <2>1, <2>3, BelowStays
<1>12. ASSUME NEW m \in Miners, NEW i \in Jobs, NEW x \in Msgs, Send(m, i, x)
       PROVE  Below' /\ Newest'
  <2>1. UNCHANGED <<head, work, reorged>> /\ work \in Base /\ work # NoBase
    BY <1>12, NullAssumption DEF Send, roundVars, RoundsIInv, OpenOnLast, Base, NoBase
  <2>2. /\ pc[i] = "idle" /\ blk'[i].parents = work.ts /\ Running(i)'
        /\ \A j \in Jobs : j # i => pc'[j] = pc[j] /\ blk'[j] = blk[j]
    BY <1>12 DEF Send, GoBroadCast, TypeOK, Running
  <2>3. TsHeight[work.ts] \in Nat
    BY <2>1, BaseHeight
  <2>4. Below'
    BY <2>1, <2>2, <2>3 DEF Below
  <2>5. ASSUME ~reorged, NEW j \in Jobs, NEW k \in Jobs,
               Running(j)', pc'[k] # "idle", blk'[k].miner = blk'[j].miner
        PROVE  TsHeight[blk'[k].parents] <= TsHeight[blk'[j].parents]
    <3>1. CASE j = i
      BY <2>1, <2>2, <2>4, <2>5, <3>1 DEF Below
    <3>2. CASE j # i /\ k = i
      BY <2>2, <2>5, <3>2 DEF Alone
    <3>3. CASE j # i /\ k # i
      BY <2>2, <2>5, <3>3 DEF Newest, Running
    <3> QED BY <3>1, <3>2, <3>3
  <2> QED BY <2>1, <2>4, <2>5 DEF Newest
<1> QED BY <1>5, <1>6, <1>7, <1>8, <1>9, <1>10, <1>11, <1>12 DEF MiningNext

------------------------------------------------------------------------------
(* Consensus faults *)

\* The step that matters submits a block: the miner's other published blocks belong to
\* goroutines that have ended, and a record of theirs would have been found.
LEMMA NextFaultsLost ==
    ASSUME MiningIInv, [Next]_vars, reorged => reorged'
    PROVE  FaultsLost'
<1> USE DEF MiningIInv, MiningTInv
<1>1. ASSUME NEW j \in delivered, NEW k \in delivered, Faulty(blk[j], blk[k])'
      PROVE  Unrecorded(j)' \/ Unrecorded(k)'
  <2>1. /\ j \in Jobs /\ pc[j] # "idle" /\ blk'[j] = blk[j]
        /\ k \in Jobs /\ pc[k] # "idle" /\ blk'[k] = blk[k]
    BY JobKept DEF TypeOK, Phases
  <2>2. Faulty(blk[j], blk[k])
    BY <1>1, <2>1 DEF Faulty, DoubleFork, TimeOffset, ParentGrinding
  <2>3. Unrecorded(j) \/ Unrecorded(k)
    BY <2>2 DEF FaultsLost
  <2> QED BY <2>1, <2>3, JobKept DEF Unrecorded
<1>2. ASSUME NEW a \in Blocks, NEW b \in Blocks, a = b PROVE ~Faulty(a, b)'
  <2>1. TsHeight[a.parents] < a.height /\ TsHeight[a.parents] \in Nat /\ a.height \in Nat
    BY BlockFields, ChainAssumption DEF Blocks
  <2> QED BY <1>2, <2>1 DEF Faulty, DoubleFork, TimeOffset, ParentGrinding
<1>3. ASSUME NEW j \in Jobs, SubmitBlock(j), NEW k \in delivered, k # j,
             Faulty(blk[j], blk[k])' \/ Faulty(blk[k], blk[j])'
      PROVE  Unrecorded(k)'
  <2>1. /\ pc[j] = "Submit" /\ k \in Jobs /\ pc[k] # "idle"
        /\ UNCHANGED <<blk, kept>> /\ pc'[k] = pc[k]
    BY <1>3 DEF SubmitBlock, TypeOK, Phases
  <2>2. PICK a \in Blocks, b \in Blocks : a = blk[j] /\ b = blk[k]
    BY <2>1 DEF TypeOK
  <2>3. Faulty(a, b) \/ Faulty(b, a)
    BY <1>3, <2>1, <2>2 DEF Faulty, DoubleFork, TimeOffset, ParentGrinding
  <2>4. a.miner = b.miner
    BY <2>3 DEF Faulty, DoubleFork, TimeOffset, ParentGrinding
  <2>5. pc[k] = "done"
    BY <1>3, <2>1, <2>2, <2>4 DEF Alone, Running
  <2>6. ASSUME k \in kept PROVE FALSE
    <3>1. Entry(b.miner, b.height) = b /\ b # NoCid
      BY <2>2, <2>6, NullAssumption DEF OnRecord
    <3>2. Entry(a.miner, a.height) = NoCid
      BY <2>1, <2>2 DEF SlotFree, Open
    <3>3. Agrees(a)
      BY <2>1, <2>2 DEF Checked
    <3>4. CASE DoubleFork(a, b) \/ DoubleFork(b, a)
      BY <3>1, <3>2, <3>4 DEF DoubleFork
    <3>5. CASE Filter = "local" /\ (TimeOffset(a, b) \/ TimeOffset(b, a))
      BY <2>2, <2>6, <3>3, <3>5 DEF OnRecord, UnderParents, Agrees, TimeOffset
    <3>6. CASE ParentGrinding(b, a)
      BY <3>1, <3>3, <3>6 DEF ParentGrinding, Agrees
    <3>7. CASE ~reorged /\ ParentGrinding(a, b)
      <4>1. TsHeight[b.parents] <= TsHeight[a.parents]
        BY <2>1, <2>2, <2>4, <3>7 DEF Newest, Running
      <4>2. TsHeight[a.parents] < a.height /\ a.height = TsHeight[b.parents]
        BY <3>7 DEF ParentGrinding, Blocks
      <4>3. a.height \in Nat /\ TsHeight[a.parents] \in Nat
        BY BlockFields, ChainAssumption
      <4> QED BY <4>1, <4>2, <4>3
    <3> QED BY <2>3, <3>4, <3>5, <3>6, <3>7 DEF Faulty
  <2> QED BY <2>1, <2>5, <2>6 DEF Unrecorded
<1>4. delivered' = delivered \/ \E j \in Jobs : SubmitBlock(j) /\ delivered' = delivered \cup {j}
  BY DEF Next, LoopRecords, RecordRound, RecordNothing, GoBroadCast, JobStep, CheckHasBlock,
         CheckMinedBlock, SubmitBlock, PutBlock, PutEpoch, Crash, vars, jobVars
<1>5. CASE delivered' = delivered
  BY <1>1, <1>5 DEF FaultsLost
<1>6. ASSUME NEW i \in Jobs, SubmitBlock(i), delivered' = delivered \cup {i} PROVE FaultsLost'
  <2>1. blk[i] \in Blocks /\ blk' = blk
    BY <1>6 DEF SubmitBlock, TypeOK
  <2>2. ~Faulty(blk[i], blk[i])'
    <3>1. PICK a \in Blocks : a = blk[i]
      BY <2>1
    <3> QED BY <1>2, <2>1, <3>1 DEF Faulty, DoubleFork, TimeOffset, ParentGrinding
  <2> QED BY <1>1, <1>3, <1>6, <2>2 DEF FaultsLost
<1> QED BY <1>4, <1>5, <1>6

\* Without failures every submission succeeds and every record is written.
LEMMA NextSmooth ==
    ASSUME TypeOK, Phases, Smooth, [Next]_vars
    PROVE  Smooth'
<1> SUFFICES ASSUME Failures = {}, NEW j \in delivered'
             PROVE  pc'[j] \in {"PutSuccess", "PutEpoch"} \/ j \in kept'
  BY DEF Smooth
<1>1. CASE LoopRecords \/ UNCHANGED vars
  BY <1>1 DEF Smooth, LoopRecords, RecordRound, RecordNothing, vars, jobVars
<1>2. CASE \E i \in Jobs, b \in Blocks : GoBroadCast(i, b)
  BY <1>2 DEF Smooth, GoBroadCast, TypeOK, Phases
<1>3. CASE \E i \in Jobs : CheckHasBlock(i) \/ CheckMinedBlock(i)
  BY <1>3 DEF Smooth, CheckHasBlock, CheckMinedBlock, TypeOK, Phases
<1>4. CASE \E i \in Jobs : SubmitBlock(i)
  BY <1>4 DEF Smooth, SubmitBlock, TypeOK, Phases
<1>5. ASSUME NEW i \in Jobs, PutBlock(i)
      PROVE  pc'[j] \in {"PutSuccess", "PutEpoch"} \/ j \in kept'
  <2>1. delivered' = delivered /\ kept \subseteq kept' /\ \A k \in Jobs : k # i => pc'[k] = pc[k]
    BY <1>5 DEF PutBlock, TypeOK
  <2>2. CASE j # i
    BY <2>1, <2>2 DEF Smooth, TypeOK
  <2>3. CASE j = i
    <3>1. pc[i] = "PutSuccess"
      BY <1>5, <2>1, <2>3 DEF Smooth, PutBlock, Phases
    <3> QED BY <1>5, <2>3, <3>1 DEF PutBlock, LocalRecords, StateAt, TypeOK
  <2> QED BY <2>2, <2>3
<1>6. CASE \E i \in Jobs : PutEpoch(i)
  BY <1>6 DEF Smooth, PutEpoch, TypeOK
<1>7. CASE Crash
  BY <1>7 DEF Crash
<1> QED BY <1>1, <1>2, <1>3, <1>4, <1>5, <1>6, <1>7 DEF Next, JobStep

\* The initial states.
LEMMA InitMiningIInv == MiningInit => MiningIInv /\ Smooth
<1> SUFFICES ASSUME MiningInit PROVE MiningIInv /\ Smooth
  OBVIOUS
<1>1. MiningTInv
  BY InitMining
<1>2. \A j \in Jobs : pc[j] = "idle"
  BY DEF MiningInit, Init
<1>3. delivered = {} /\ kept = {} /\ work = NoBase
  BY DEF MiningInit, Init, RoundsInit
<1>4. Alone /\ OneRound /\ SlotFree /\ Checked /\ Newest
  BY <1>2 DEF Alone, OneRound, SlotFree, Checked, Newest, Running, Open
<1>5. OnRecord /\ Below /\ FaultsLost /\ Smooth
  BY <1>2, <1>3 DEF OnRecord, Below, FaultsLost, Smooth
<1> QED BY <1>1, <1>4, <1>5 DEF MiningIInv

\* A reorganisation is not forgotten, and without Reorgs there is none.
LEMMA NextReorged ==
    ASSUME MiningTypes, [MiningNext]_mineVars
    PROVE  /\ reorged => reorged'
           /\ ~Reorgs /\ ~reorged => ~reorged'
<1>1. ASSUME NEW t \in Tipsets, NextHead(t)
      PROVE  reorged' = (reorged \/ ~Grows(t)) /\ (Reorgs \/ Grows(t))
  BY <1>1 DEF NextHead
<1>2. reorged' = reorged \/ \E t \in Tipsets : NextHead(t)
  BY DEF MiningNext, EndProofs, NewCandidate, Win, Fail, RecordFork, NotCreated, Send, EndRound,
         RestartLoop, CrashAll, mineVars
<1>3. CASE reorged' = reorged
  BY <1>3
<1>4. CASE \E t \in Tipsets : NextHead(t)
  <2>1. PICK t \in Tipsets : NextHead(t)
    BY <1>4
  <2>2. reorged' = (reorged \/ ~Grows(t)) /\ (Reorgs \/ Grows(t))
    BY <1>1, <2>1
  <2>3. Grows(t) \in BOOLEAN /\ reorged \in BOOLEAN
    BY DEF Grows, MiningTypes
  <2> QED BY <2>2, <2>3
<1> QED BY <1>2, <1>3, <1>4

\* Every step.
LEMMA NextMiningIInv ==
    ASSUME Prompt
    PROVE  MiningIInv /\ Smooth /\ [MiningNext]_mineVars => MiningIInv' /\ Smooth'
<1> SUFFICES ASSUME MiningIInv, Smooth, [MiningNext]_mineVars PROVE MiningIInv' /\ Smooth'
  OBVIOUS
<1>1. [Next]_vars
  BY StepIsBroadCast DEF MiningIInv
<1>2. MiningTInv'
  BY NextMining DEF MiningIInv
<1>3. Alone' /\ OneRound'
  BY NextAlone DEF MiningIInv
<1>4. SlotFree' /\ Checked' /\ OnRecord' /\ Smooth'
  BY <1>1, NextSlotFree, NextChecked, NextOnRecord, NextSmooth DEF MiningIInv, MiningTInv
<1>5. Below' /\ Newest'
  BY <1>3, NextBelow DEF MiningIInv
<1>6. FaultsLost'
  BY <1>1, NextFaultsLost, NextReorged DEF MiningIInv, MiningTInv
<1> QED BY <1>2, <1>3, <1>4, <1>5, <1>6 DEF MiningIInv

\* With the local filter, blocks that make a consensus fault reach the network only when
\* the filter was not told of one of them: a crash, a failed PutBlock or a lost answer
\* came between (design-spec.md:38); for parent grinding, as long as the head stays on one chain.
THEOREM FaultsCostARecord ==
    ASSUME Prompt, Filter = "local"
    PROVE  MiningSpec => []FaultCostsARecord
<1>1. MiningIInv => FaultCostsARecord
  BY DEF MiningIInv, FaultsLost, Faulty, FaultCostsARecord
<1> QED BY <1>1, InitMiningIInv, NextMiningIInv, PTL DEF MiningSpec

\* With either filter, and whatever the head does, a process that meets no failure never
\* publishes two blocks of one miner at one height.
THEOREM NoDoubleForks ==
    ASSUME Prompt, Failures = {}
    PROVE  MiningSpec => []NoDoubleFork
<1>1. MiningIInv /\ Smooth => NoDoubleFork
  <2> SUFFICES ASSUME MiningIInv, Smooth, NEW j \in delivered, NEW k \in delivered,
                      DoubleFork(blk[j], blk[k])
               PROVE  FALSE
    BY DEF NoDoubleFork, Published
  <2>1. Unrecorded(j) \/ Unrecorded(k)
    BY DEF MiningIInv, FaultsLost, Faulty
  <2> QED BY <2>1 DEF Smooth, Unrecorded
<1> QED BY <1>1, InitMiningIInv, NextMiningIInv, PTL DEF MiningSpec

\* Nor, while the chain only grows, a block that passes over the miner's own block at
\* the epoch of its parents.
THEOREM NoGrinding ==
    ASSUME Prompt, Failures = {}, ~Reorgs
    PROVE  MiningSpec => []NoParentGrinding
<1>1. MiningIInv /\ Smooth /\ ~reorged => NoParentGrinding
  <2> SUFFICES ASSUME MiningIInv, Smooth, ~reorged, NEW j \in delivered, NEW k \in delivered,
                      ParentGrinding(blk[j], blk[k])
               PROVE  FALSE
    BY DEF NoParentGrinding, Published
  <2>1. Unrecorded(j) \/ Unrecorded(k)
    BY DEF MiningIInv, FaultsLost, Faulty
  <2> QED BY <2>1 DEF Smooth, Unrecorded
<1>2. MiningInit => ~reorged
  BY DEF MiningInit
<1>3. MiningIInv /\ ~reorged /\ [MiningNext]_mineVars => ~reorged'
  BY NextReorged DEF MiningIInv, MiningTInv
<1> QED BY <1>1, <1>2, <1>3, InitMiningIInv, NextMiningIInv, PTL DEF MiningSpec
==============================================================================
