---------------------------- MODULE MCStream ----------------------------
(* Instances of Stream, and of Ping inside it, for TLC.                    *)
EXTENDS Stream

CONSTANTS main, w, v, none
=============================================================================
