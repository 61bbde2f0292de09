---------------------------- MODULE MCTimers ----------------------------
(* Instances of Timers for TLC.                                            *)
EXTENDS Timers

CONSTANTS a, b, none
=============================================================================
