------------------------------- MODULE MCMining -------------------------------
(***************************************************************************)
(* A chain with a fork: t1 and t1b at height 1, t1x is t1 with one more    *)
(* block; at height 2, t2 contains our block mined on t1 and t2b none of   *)
(* ours; t3b follows at height 3 without a block of ours.                  *)
(***************************************************************************)
EXTENDS Mining, TLC

CONSTANTS m1, t1, t1x, t1b, t2, t2b, t3b, x, j1, j2, j3

MCMiners == {m1}
MCSteady == {t1, t1x, t2, t2b, t3b}
MCFork == {t1, t1b}
MCReorgs == {t1, t1b, t2, t2b}
MCEpochs == 1 .. 4
MCThreeEpochs == 1 .. 3
MCMsgs == {x}
MCJobs == {j1, j2, j3}
MCTwoJobs == {j1, j2}
MCTsHeight == [t \in Tipsets |-> CASE t \in {t1, t1x, t1b} -> 1 [] t \in {t2, t2b} -> 2 [] t = t3b -> 3]
MCTsTicket == [t \in Tipsets |-> IF t = t1x THEN t1 ELSE t]
MCTsBlocks == [t \in Tipsets |->
                 IF t = t2 THEN {[miner |-> m1, height |-> 2, parents |-> t1, msgs |-> x]} ELSE {}]

Symmetry == Permutations(Jobs)
==============================================================================
