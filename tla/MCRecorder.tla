------------------------------ MODULE MCRecorder ------------------------------
(***************************************************************************)
(* Two goroutines recording for one miner: an epoch expires as soon as the *)
(* next but one is recorded.                                               *)
(***************************************************************************)
EXTENDS Recorder, TLC

CONSTANTS m1, w1, w2

MCMiners == {m1}
MCWriters == {w1, w2}
Symmetry == Permutations(MCWriters)
==============================================================================
