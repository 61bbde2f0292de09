---------------------------- MODULE MCRunLoop ----------------------------
(* Instances of RunLoop for TLC.                                           *)
EXTENDS RunLoop

CONSTANTS w1, w2, i1, i2
=============================================================================
