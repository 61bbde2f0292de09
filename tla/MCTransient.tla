--------------------------- MODULE MCTransient ---------------------------
(* Instances of Transient for TLC.                                         *)
EXTENDS Transient

CONSTANTS a, b, c, none
=============================================================================
