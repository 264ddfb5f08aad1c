----------------------------- MODULE MCBroadCast -----------------------------
(***************************************************************************)
(* A fork at height 1 (t1, t1b), and a tipset at height 2 that contains    *)
(* our block mined on t1 (but not the one mined on t1b).                   *)
(***************************************************************************)
EXTENDS BroadCast, TLC

CONSTANTS m1, t1, t1b, t2, x, j1, j2, j3

MCMiners == {m1}
MCTipsets == {t1, t1b, t2}
MCForks == {t1, t1b}
MCEpochs == 1 .. 3
MCMsgs == {x}
MCJobs == {j1, j2, j3}
MCTwoJobs == {j1, j2}
MCTsHeight == [t \in Tipsets |-> IF t = t2 THEN 2 ELSE 1]
MCTsBlocks == [t \in Tipsets |->
                 IF t = t2 THEN {[miner |-> m1, height |-> 2, parents |-> t1, msgs |-> x]} ELSE {}]

Symmetry == Permutations(Jobs)
==============================================================================
