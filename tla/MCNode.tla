-------------------------------- MODULE MCNode --------------------------------
(***************************************************************************)
(* Two processes on one repository, each an init or a run as often as it   *)
(* likes, and two clients that stop them.                                  *)
(***************************************************************************)
EXTENDS Node

CONSTANTS p1, p2, c1, c2

MCProcs == {p1, p2}
MCClients == {c1, c2}
==============================================================================
