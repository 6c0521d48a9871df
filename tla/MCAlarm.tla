------------------------------- MODULE MCAlarm -------------------------------
(***************************************************************************)
(* The router's clockwork for TLC: choices of update_time and time_between *)
(* with and without a remainder.                                           *)
(***************************************************************************)
EXTENDS RouterAlarm

MCAnyTimings == (1..4) \X (1..7)
=============================================================================
