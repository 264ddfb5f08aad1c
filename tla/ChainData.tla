------------------------------ MODULE ChainData ------------------------------
(***************************************************************************)
(* The data every part of sophon-miner shares: miner actors, tipsets and   *)
(* block headers, and the three consensus faults the slash filter exists   *)
(* to prevent.  A tipset is an identifier with a height and the blocks OF  *)
(* OUR MINERS that it contains; the blocks of the rest of the network      *)
(* matter only through the identity of the tipset.  A block header is      *)
(* identified with its CID: the fields below are the ones the miner        *)
(* process chooses or compares (the selected messages stand for the rest). *)
(***************************************************************************)
EXTENDS Integers, FiniteSets

CONSTANTS
    Miners,     \* miner actors this process mines for
    Tipsets,    \* tipsets the sync node may report as its head
    Epochs,     \* chain epochs of the instance
    Msgs,       \* results of message selection (they make CIDs differ)
    TsHeight,   \* height of a tipset
    TsBlocks,   \* our miners' blocks in a tipset
    NoCid,      \* an empty cid column, no block
    EmptyKey    \* the key of a header that carries no parents

\* A header on top of tipset b.parents after height - TsHeight - 1 null rounds.
Blocks == {b \in [miner : Miners, height : Epochs, parents : Tipsets, msgs : Msgs] :
             TsHeight[b.parents] < b.height}

ASSUME ChainAssumption ==
    /\ Epochs \subseteq Nat
    /\ TsHeight \in [Tipsets -> Epochs]
    /\ TsBlocks \in [Tipsets -> SUBSET Blocks]
    /\ \A t \in Tipsets : \A b \in TsBlocks[t] : b.height = TsHeight[t]

ASSUME NullAssumption == NoCid \notin Blocks /\ EmptyKey \notin Tipsets

\* types.StateMining, the mine_state column of the miner_blocks table.
StateMining == {"Mining", "Success", "Timeout", "ChainForked", "Error"}

------------------------------------------------------------------------------
(***************************************************************************)
(* The faults, as the comments of the filters name them.  They are a       *)
(* reference definition over pairs of published blocks, independent of     *)
(* what the filters look up.                                               *)
(***************************************************************************)
\* "double-fork mining (2 blocks at one epoch)"
DoubleFork(a, b) ==
    a # b /\ a.miner = b.miner /\ a.height = b.height

\* "time-offset mining faults (2 blocks with the same parents)"
TimeOffset(a, b) ==
    /\ a.miner = b.miner
    /\ a.parents = b.parents
    /\ a.height # b.height

\* "parent-grinding fault (didn't mine on top of our own block)"
ParentGrinding(a, b) ==
    /\ a.miner = b.miner
    /\ a.height = TsHeight[b.parents]
    /\ a \notin TsBlocks[b.parents]
==============================================================================
