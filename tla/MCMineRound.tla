----------------------------- MODULE MCMineRound -----------------------------
(***************************************************************************)
(* One miner, whose rounds follow each other while an earlier worker is    *)
(* still on its way or blocked.  Waiters, workers and rows of two miners   *)
(* have nothing in common but lkWPP and the map.                           *)
(***************************************************************************)
EXTENDS MineRound

CONSTANT m1

MCMiners == {m1}
==============================================================================
