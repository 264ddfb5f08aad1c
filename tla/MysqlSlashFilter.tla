--------------------------- MODULE MysqlSlashFilter ---------------------------
(***************************************************************************)
(* node/modules/slashfilter/slashfilter.go: the slash filter kept in the   *)
(* MySQL table miner_blocks, one row per (miner, epoch).  The columns      *)
(* parent_epoch, winning_at and consuming are never read back by the       *)
(* filter and are left out.  Rows are created and updated, never deleted.  *)
(*                                                                         *)
(* PutBlock runs two statements, a Take and then a Create or an            *)
(* UpdateColumns.  As rows are never deleted, interleaving them with other *)
(* writers has only two outcomes: the write applies to the row as it is at *)
(* the time of the write, or the Create fails on the primary key.  The     *)
(* first is MysqlPutBlock, the second one of the failures of a PutBlock    *)
(* that its callers allow for.                                             *)
(***************************************************************************)
EXTENDS ChainData

VARIABLE rows   \* the table: a function from the primary keys present

Row == [parent_key : Tipsets \cup {EmptyKey},
        cid        : Blocks \cup {NoCid},
        mine_state : StateMining]

RowsOK ==
    /\ DOMAIN rows \subseteq Miners \X Epochs
    /\ \A k \in DOMAIN rows : rows[k] \in Row

MysqlInit == rows = [k \in {} |-> NoCid]

\* mutant: only rows in state Success count
MysqlHasSuccess(miner, height) ==
    /\ <<miner, height>> \in DOMAIN rows
    /\ rows[<<miner, height>>].mine_state = "Success"

\* Does the row of this miner and epoch hold a block?
MysqlHasBlock(miner, height) ==
    /\ <<miner, height>> \in DOMAIN rows
    /\ rows[<<miner, height>>].cid # NoCid

MysqlCreate(key, parents, cid, state) ==
    rows' = [k \in DOMAIN rows \cup {key} |->
               IF k = key
               THEN [parent_key |-> parents, cid |-> cid, mine_state |-> state]
               ELSE rows[k]]

\* mutant: every column is overwritten
MysqlUpdateAllColumns(key, parents, cid, state) ==
    rows' = [rows EXCEPT ![key] =
               [parent_key |-> parents, cid |-> cid, mine_state |-> state]]

\* An update keeps the parent key when the header has no parents, and the CID
\* when the header has no ticket (such a header has no CID of its own).
MysqlUpdate(key, parents, cid, state) ==
    rows' = [rows EXCEPT ![key] =
               [parent_key |-> IF parents = EmptyKey THEN @.parent_key ELSE parents,
                cid        |-> IF cid = NoCid THEN @.cid ELSE cid,
                mine_state |-> state]]

\* A Timeout never creates a row: it is reported as an error instead.
MysqlPutBlock(miner, height, parents, cid, state) ==
    LET key == <<miner, height>> IN
    \/ /\ key \in DOMAIN rows
       /\ MysqlUpdate(key, parents, cid, state)
    \/ /\ key \notin DOMAIN rows
       /\ state # "Timeout"
       /\ MysqlCreate(key, parents, cid, state)
    \/ /\ key \notin DOMAIN rows
       /\ state = "Timeout"
       /\ UNCHANGED rows

\* checkSameParentFault: Take returns one of the matching rows, in no stated
\* order.  The results are the blocks that the error may name, NoCid for nil.
MysqlCheckSameParentFault(b) ==
    LET matching == {k \in DOMAIN rows : k[1] = b.miner /\ rows[k].parent_key = b.parents}
        verdict(cid) == IF cid = b THEN NoCid ELSE cid
    IN IF matching = {} THEN {NoCid} ELSE {verdict(rows[k].cid) : k \in matching}

\* mutant: the previous epoch instead of the epoch of the parents
MysqlGrindingPrevEpoch(b) ==
    LET parent == <<b.miner, b.height - 1>> IN
    IF /\ MysqlHasBlock(b.miner, b.height - 1)
       /\ rows[parent].cid \notin TsBlocks[b.parents]
    THEN rows[parent].cid
    ELSE NoCid

\* The parent-grinding check: the block on record at the parent epoch, if it
\* is not in the parent tipset.
MysqlParentGrinding(b) ==
    LET parent == <<b.miner, TsHeight[b.parents]>> IN
    IF /\ MysqlHasBlock(b.miner, TsHeight[b.parents])
       /\ rows[parent].cid \notin TsBlocks[b.parents]
    THEN rows[parent].cid
    ELSE NoCid

\* The possible results of MinedBlock: NoCid (no fault) or the block the error names.
MysqlMinedBlock(b) ==
    {IF other # NoCid THEN other ELSE MysqlParentGrinding(b) :
       other \in MysqlCheckSameParentFault(b)}
==============================================================================
