--------------------------- MODULE LocalSlashFilter ---------------------------
(***************************************************************************)
(* node/modules/slashfilter/local.go: the slash filter kept in the node's  *)
(* own datastore under two namespaces, one keyed by (miner, epoch), the    *)
(* other by (miner, parents).  Only a Success is recorded, by two separate *)
(* Puts: the parents entry first, then the epoch entry.                    *)
(***************************************************************************)
EXTENDS ChainData

VARIABLES
    byEpoch,    \* (miner, epoch)   -> block: double-fork, parent-grinding
    byParents   \* (miner, parents) -> block: time-offset

StoresOK ==
    /\ DOMAIN byEpoch \subseteq Miners \X Epochs
    /\ \A k \in DOMAIN byEpoch : byEpoch[k] \in Blocks
    /\ DOMAIN byParents \subseteq Miners \X Tipsets
    /\ \A k \in DOMAIN byParents : byParents[k] \in Blocks

LocalInit ==
    /\ byEpoch = [k \in {} |-> NoCid]
    /\ byParents = [k \in {} |-> NoCid]

LocalHasBlock(miner, height) == <<miner, height>> \in DOMAIN byEpoch

\* "Only successful block generation is recorded locally".
LocalRecordsAnyState(state) == TRUE    \* mutant: the early return is missing

LocalRecords(state) == state = "Success"

\* The two Puts of PutBlock, in this order.
LocalPutParents(b) ==
    LET key == <<b.miner, b.parents>> IN
    byParents' = [k \in DOMAIN byParents \cup {key} |->
                    IF k = key THEN b ELSE byParents[k]]

\* mutant: the entry goes under the parent epoch
LocalPutEpochAtParent(b) ==
    LET key == <<b.miner, TsHeight[b.parents]>> IN
    byEpoch' = [k \in DOMAIN byEpoch \cup {key} |->
                  IF k = key THEN b ELSE byEpoch[k]]

LocalPutEpoch(b) ==
    LET key == <<b.miner, b.height>> IN
    byEpoch' = [k \in DOMAIN byEpoch \cup {key} |->
                  IF k = key THEN b ELSE byEpoch[k]]

\* mutant: the comparison of the two CIDs is inverted
LocalCheckFaultInverted(b) ==
    LET key == <<b.miner, b.parents>> IN
    IF key \in DOMAIN byParents /\ byParents[key] = b THEN byParents[key] ELSE NoCid

\* checkFault on byParents: the block the error names, NoCid for nil.
LocalCheckFault(b) ==
    LET key == <<b.miner, b.parents>> IN
    IF key \in DOMAIN byParents /\ byParents[key] # b THEN byParents[key] ELSE NoCid

\* mutant: the block's own epoch instead of the epoch of the parents
LocalGrindingOwnEpoch(b) ==
    LET parent == <<b.miner, b.height>> IN
    IF parent \in DOMAIN byEpoch /\ byEpoch[parent] \notin TsBlocks[b.parents]
    THEN byEpoch[parent]
    ELSE NoCid

LocalParentGrinding(b) ==
    LET parent == <<b.miner, TsHeight[b.parents]>> IN
    IF parent \in DOMAIN byEpoch /\ byEpoch[parent] \notin TsBlocks[b.parents]
    THEN byEpoch[parent]
    ELSE NoCid

\* The result of MinedBlock: NoCid (no fault) or the block the error names.
LocalMinedBlock(b) ==
    IF LocalCheckFault(b) # NoCid THEN LocalCheckFault(b) ELSE LocalParentGrinding(b)
==============================================================================
