------------------------------ MODULE BroadCast ------------------------------
(***************************************************************************)
(* miner/multiminer.go, broadCastBlock: one goroutine per freshly created  *)
(* block.  It asks the slash filter whether the block may be broadcast,    *)
(* submits it to the sync node and, when that fails, to the configured     *)
(* submit nodes in turn, and records the outcome in the filter.  Nothing   *)
(* makes these steps atomic: goroutines of different rounds interleave,    *)
(* any filter call may fail, a node may take a block and the answer may be *)
(* lost, and the process may crash anywhere; the filter's tables survive.  *)
(*                                                                         *)
(* The rest of the process reaches the filter through RecordRound (the     *)
(* PutBlock calls of mineOne, mineOneForAll and mine, whose headers have   *)
(* no ticket and hence no CID) and starts goroutines through GoBroadCast.  *)
(***************************************************************************)
EXTENDS MysqlSlashFilter, LocalSlashFilter

CONSTANTS
    Filter,         \* "mysql" or "local": the SlashFilter.Type of the config
    Jobs,           \* goroutines, one per call of broadCastBlock (bounds them)
    SubmitNodes,    \* number of extra nodes in the config's SubmitNodes
    Failures        \* what may go wrong: "store", "node", "crash"

ASSUME BroadCastAssumption ==
    /\ Filter \in {"mysql", "local"}
    /\ SubmitNodes \in Nat
    /\ Failures \subseteq {"store", "node", "crash"}

VARIABLES
    pc,         \* the next step of each goroutine
    blk,        \* the block a goroutine broadcasts
    node,       \* the node it submits to: 0 the sync node, i the i-th submit node
    delivered,  \* goroutines whose block some node has taken (the network has it)
    submitted,  \* history: goroutines that have called SyncSubmitBlock
    kept,       \* goroutines that have recorded their block in the filter
    seen,       \* history: the goroutines between HasBlock and their record when
                \*   this one asked HasBlock
    blamed      \* history: <<block, other>> for every block refused because of other

filterVars == <<rows, byEpoch, byParents>>
jobVars == <<pc, blk, node, delivered, submitted, kept, seen, blamed>>
vars == <<filterVars, jobVars>>

PCs == {"idle", "HasBlock", "MinedBlock", "Submit",
        "PutRefused", "PutFailed", "PutSuccess", "PutEpoch", "done"}

TypeOK ==
    /\ RowsOK
    /\ StoresOK
    /\ pc \in [Jobs -> PCs]
    /\ blk \in [Jobs -> Blocks \cup {NoCid}]
    /\ \A j \in Jobs : pc[j] # "idle" => blk[j] \in Blocks
    /\ node \in [Jobs -> 0 .. SubmitNodes]
    /\ delivered \subseteq Jobs
    /\ submitted \subseteq Jobs
    /\ kept \subseteq Jobs
    /\ seen \in [Jobs -> SUBSET Jobs]
    /\ blamed \subseteq Blocks \X Blocks

Published == {blk[j] : j \in delivered}

\* Has passed HasBlock and has neither recorded its block nor given up.
Open(j) == pc[j] \notin {"idle", "HasBlock", "done"}

\* The states recorded by the three PutBlock calls of broadCastBlock.
StateAt(label) == IF label = "PutSuccess" THEN "Success" ELSE "Error"

------------------------------------------------------------------------------
(* The filter behind the interface SlashFilterAPI. *)

HasBlock(miner, height) ==
    IF Filter = "mysql" THEN MysqlHasBlock(miner, height) ELSE LocalHasBlock(miner, height)

MinedBlock(b) ==
    IF Filter = "mysql" THEN MysqlMinedBlock(b) ELSE {LocalMinedBlock(b)}

------------------------------------------------------------------------------
Init ==
    /\ MysqlInit
    /\ LocalInit
    /\ pc = [j \in Jobs |-> "idle"]
    /\ blk = [j \in Jobs |-> NoCid]
    /\ node = [j \in Jobs |-> 0]
    /\ delivered = {}
    /\ submitted = {}
    /\ kept = {}
    /\ seen = [j \in Jobs |-> {}]
    /\ blamed = {}

\* A PutBlock of the mining loop: Mining carries the parents, the others do
\* not.  When it fails the caller only logs, and the local filter ignores it.
RecordRound(miner, height, parents, state) ==
    /\ Filter = "mysql"
    /\ MysqlPutBlock(miner, height, parents, NoCid, state)
    /\ UNCHANGED <<byEpoch, byParents, jobVars>>

RecordNothing == UNCHANGED vars

\* go m.broadCastBlock(ctx, *base, b).  A tipset with one of our blocks exists
\* only after the network got that block.
GoBroadCast(j, b) ==
    /\ pc[j] = "idle"
    /\ TsBlocks[b.parents] \subseteq Published
    /\ pc' = [pc EXCEPT ![j] = "HasBlock"]
    /\ blk' = [blk EXCEPT ![j] = b]
    /\ UNCHANGED <<filterVars, node, delivered, submitted, kept, seen, blamed>>

\* The first check, which ends the goroutine without a record when it fails.
CheckHasBlock(j) ==
    /\ pc[j] = "HasBlock"
    /\ \/ /\ ~HasBlock(blk[j].miner, blk[j].height)
          /\ pc' = [pc EXCEPT ![j] = "MinedBlock"]
          /\ seen' = [seen EXCEPT ![j] = {k \in Jobs : Open(k)}]
       \/ /\ HasBlock(blk[j].miner, blk[j].height) \/ "store" \in Failures
          /\ pc' = [pc EXCEPT ![j] = "done"]
          /\ UNCHANGED seen
    /\ UNCHANGED <<filterVars, blk, node, delivered, submitted, kept, blamed>>

\* The second check: no fault, a fault that names another block, or a failed query.
CheckMinedBlock(j) ==
    /\ pc[j] = "MinedBlock"
    /\ \/ /\ NoCid \in MinedBlock(blk[j])
          /\ pc' = [pc EXCEPT ![j] = "Submit"]
          /\ UNCHANGED blamed
       \/ \E other \in MinedBlock(blk[j]) \ {NoCid} :
            /\ pc' = [pc EXCEPT ![j] = "PutRefused"]
            /\ blamed' = blamed \cup {<<blk[j], other>>}
       \/ /\ "store" \in Failures
          /\ pc' = [pc EXCEPT ![j] = "PutRefused"]
          /\ UNCHANGED blamed
    /\ UNCHANGED <<filterVars, blk, node, delivered, submitted, kept, seen>>

MoreNodesOffByOne(j) == node[j] <= SubmitNodes    \* mutant: one node too many

\* Is there a submit node that has not been tried?
MoreNodes(j) == node[j] < SubmitNodes

\* SyncSubmitBlock, then submitBlock on each submit node until one succeeds.
\* An error does not tell whether the node took the block.
SubmitBlock(j) ==
    /\ pc[j] = "Submit"
    /\ submitted' = submitted \cup {j}
    /\ \/ /\ delivered' = delivered \cup {j}
          /\ pc' = [pc EXCEPT ![j] = "PutSuccess"]
          /\ UNCHANGED node
       \/ /\ "node" \in Failures
          /\ delivered' \in {delivered, delivered \cup {j}}
          /\ MoreNodes(j)
          /\ node' = [node EXCEPT ![j] = @ + 1]
          /\ UNCHANGED pc
       \/ /\ "node" \in Failures
          /\ delivered' \in {delivered, delivered \cup {j}}
          /\ ~MoreNodes(j)
          /\ pc' = [pc EXCEPT ![j] = "PutFailed"]
          /\ UNCHANGED node
    /\ UNCHANGED <<filterVars, blk, kept, seen, blamed>>

\* PutBlock with the full header: one write in MySQL, two in the local
\* datastore and there only for a Success.
PutBlock(j) ==
    /\ pc[j] \in {"PutRefused", "PutFailed", "PutSuccess"}
    /\ \/ /\ Filter = "mysql"
          /\ MysqlPutBlock(blk[j].miner, blk[j].height, blk[j].parents, blk[j], StateAt(pc[j]))
          /\ pc' = [pc EXCEPT ![j] = "done"]
          /\ kept' = kept \cup {j}
          /\ UNCHANGED <<byEpoch, byParents>>
       \/ /\ Filter = "local"
          /\ LocalRecords(StateAt(pc[j]))
          /\ LocalPutParents(blk[j])
          /\ pc' = [pc EXCEPT ![j] = "PutEpoch"]
          /\ UNCHANGED <<rows, byEpoch, kept>>
       \/ /\ (Filter = "local" /\ ~LocalRecords(StateAt(pc[j]))) \/ "store" \in Failures
          /\ pc' = [pc EXCEPT ![j] = "done"]
          /\ UNCHANGED <<filterVars, kept>>
    /\ UNCHANGED <<blk, node, delivered, submitted, seen, blamed>>

\* The second Put of the local PutBlock.
PutEpoch(j) ==
    /\ pc[j] = "PutEpoch"
    /\ \/ LocalPutEpoch(blk[j]) /\ kept' = kept \cup {j}
       \/ "store" \in Failures /\ UNCHANGED <<byEpoch, kept>>
    /\ pc' = [pc EXCEPT ![j] = "done"]
    /\ UNCHANGED <<rows, byParents, blk, node, delivered, submitted, seen, blamed>>

\* The process dies and is restarted: its goroutines are gone, the tables are not.
Crash ==
    /\ "crash" \in Failures
    /\ pc' = [j \in Jobs |-> IF pc[j] = "idle" THEN "idle" ELSE "done"]
    /\ UNCHANGED <<filterVars, blk, node, delivered, submitted, kept, seen, blamed>>

\* The puts of mining rounds: a win is recorded with the base it was won on.
LoopRecords ==
    \/ \E m \in Miners, t \in Tipsets, h \in Epochs :
          /\ TsHeight[t] < h
          /\ \/ RecordRound(m, h, t, "Mining")
             \/ \E s \in {"Timeout", "ChainForked", "Error"} : RecordRound(m, h, EmptyKey, s)
    \/ RecordNothing

JobStep(j) ==
    \/ CheckHasBlock(j)
    \/ CheckMinedBlock(j)
    \/ SubmitBlock(j)
    \/ PutBlock(j)
    \/ PutEpoch(j)

Next ==
    \/ LoopRecords
    \/ \E j \in Jobs, b \in Blocks : GoBroadCast(j, b)
    \/ \E j \in Jobs : JobStep(j)
    \/ Crash

Spec == Init /\ [][Next]_vars

------------------------------------------------------------------------------
(* Properties *)

\* Ended, and the filter was not told of the block.
Unrecorded(j) == pc[j] = "done" /\ j \notin kept

\* One of the goroutines asked HasBlock while the other was between its own
\* HasBlock and its record, or ended without a record.
Excused(j, k) ==
    j \in seen[k] \/ k \in seen[j] \/ Unrecorded(j) \/ Unrecorded(k)

\* broadCastBlock's first check (multiminer.go:543): the network gets two blocks
\* of one miner at one height only if the two goroutines overlapped or one of
\* the records was lost to a crash, a failed PutBlock or an answer that got lost.
DoubleForkExcused ==
    \A j, k \in delivered : DoubleFork(blk[j], blk[k]) => Excused(j, k)

\* MinedBlock's time-offset check (local.go:62): the network gets two blocks of
\* one miner on the same parents only under the same excuses.
TimeOffsetExcused ==
    \A a, b \in Published : TimeOffset(a, b) =>
       \E j, k \in delivered : blk[j] = a /\ blk[k] = b /\ Excused(j, k)

\* What a filter holds is never lost: once HasBlock is true of a miner and an
\* epoch no later PutBlock, of any state, by any goroutine, makes it false.
RecordNeverForgotten ==
    [][\A m \in Miners, h \in Epochs : HasBlock(m, h) => HasBlock(m, h)']_vars

\* Every refusal by MinedBlock names a block that was really submitted to a
\* node: the check looks for "our own block" (slashfilter.go:184, local.go:68).
RefusalNamesSubmitted ==
    \A p \in blamed : \E j \in submitted : blk[j] = p[2]
==============================================================================
