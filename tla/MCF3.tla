--------------------------------- MODULE MCF3 ---------------------------------
(***************************************************************************)
(* One miner.  Two participants share nothing but the map, which Stop and  *)
(* MonitorMiner walk one after the other.                                  *)
(***************************************************************************)
EXTENDS F3Participant

CONSTANT m1

MCMiners == {m1}
==============================================================================
