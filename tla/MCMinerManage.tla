---------------------------- MODULE MCMinerManage ----------------------------
(***************************************************************************)
(* One API caller, who starts, stops and updates in any order, beside the  *)
(* poller, the auth server's own changes and the rounds.  The steps of a   *)
(* call concern one miner at a time.                                       *)
(***************************************************************************)
EXTENDS MinerManage

CONSTANTS m1, c1

MCMiners == {m1}
MCCallers == {c1}
==============================================================================
