----------------------------- MODULE MCMiningLoop -----------------------------
(***************************************************************************)
(* Two tipsets of one height with different smallest tickets (a fork), one *)
(* that extends the first of them by a block, and one on the next height.  *)
(***************************************************************************)
EXTENDS MiningLoop

CONSTANTS m1, t1, t1x, t1f, t2, x

MCMiners == {m1}
MCTipsets == {t1, t1x, t1f, t2}
MCEpochs == 1 .. 4
MCMsgs == {x}
MCTsHeight == [t \in Tipsets |-> IF t = t2 THEN 2 ELSE 1]
MCTsTicket == [t \in Tipsets |-> IF t = t1x THEN t1 ELSE t]
MCTsBlocks == [t \in Tipsets |-> {}]
==============================================================================
