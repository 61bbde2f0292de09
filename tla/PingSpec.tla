---------------------------- MODULE PingSpec ----------------------------
(***************************************************************************)
(* What a ping source promises (sources/ping.rs), whatever is behind it:   *)
(* pings between two callbacks are merged into one, none is forgotten, and *)
(* the source removes itself only when every handle is gone and the last   *)
(* ping has been reported.                                                 *)
(***************************************************************************)

VARIABLES
    pending,  \* pinged since the callback last began?
    calling,  \* is the callback running?
    open,     \* does a Ping handle exist?
    place     \* where the source is; "ended": it removed itself

vars == <<pending, calling, open, place>>

Init == pending \in BOOLEAN /\ ~calling /\ open = TRUE /\ place = "user"

Ping  == open /\ pending' = TRUE /\ UNCHANGED <<calling, open, place>>
Close == open' = FALSE /\ UNCHANGED <<pending, calling, place>>

Callback ==
    /\ pending /\ ~calling /\ place = "loop"
    /\ pending' = FALSE /\ calling' = TRUE
    /\ UNCHANGED <<open, place>>

Return == calling /\ calling' = FALSE /\ UNCHANGED <<pending, open, place>>

End ==
    /\ ~open /\ ~pending /\ ~calling /\ place = "loop"
    /\ place' = "ended"
    /\ UNCHANGED <<pending, calling, open>>

Moves(from, to) == place \in from /\ place' = to /\ UNCHANGED <<pending, calling, open>>

Insert  == Moves({"user"}, "loop")
Enable  == Moves({"disabled"}, "loop")
Disable == Moves({"loop"}, "disabled")
Remove  == Moves({"loop", "disabled"}, "gone")

Next ==
    \/ Ping \/ Close \/ Callback \/ Return \/ End
    \/ Insert \/ Enable \/ Disable \/ Remove

Spec == Init /\ [][Next]_vars
=============================================================================
