------------------------------ MODULE MCAlerting ------------------------------
(***************************************************************************)
(* The mining loop and two users of one alert, a channel of one event and  *)
(* files of two: every second event rolls, in one of two seconds.          *)
(***************************************************************************)
EXTENDS Alerting

CONSTANTS l, u1, u2, alert

MCLoop == {l}
MCCallers == {l, u1, u2}
MCTypes == {blockMined, alert}
MCKinds == {mined, raised, resolved}
==============================================================================
