---------------------------- MODULE MCExecutor ----------------------------
(* Instances of Executor for TLC.                                          *)
EXTENDS Executor

CONSTANTS main, w1, w2, t1, t2, t3, none
=============================================================================
