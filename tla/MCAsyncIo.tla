---------------------------- MODULE MCAsyncIo ----------------------------
(* Instances of AsyncIo, and of Poller inside it, for TLC.                 *)
EXTENDS AsyncIo

CONSTANTS g, f, t, u, none
=============================================================================
