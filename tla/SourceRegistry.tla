-------------------------- MODULE SourceRegistry --------------------------
(***************************************************************************)
(* What the event loop promises about its sources (documentation of        *)
(* LoopHandle, PostAction and EventLoop::dispatch): each is absent, enabled *)
(* or disabled; the handle's operations and a callback's result move it    *)
(* between these; and only the callback of an enabled source is called.    *)
(***************************************************************************)
CONSTANTS Sources, None

VARIABLES
    status,  \* "absent", "enabled" or "disabled", for each source
    active   \* the source whose callback runs, or None

vars == <<status, active>>

States == {"absent", "enabled", "disabled"}

TypeOK == status \in [Sources -> States] /\ active \in Sources \cup {None}

Init == status = [s \in Sources |-> "absent"] /\ active = None

Move(s, from, to) == status[s] \in from /\ status' = [status EXCEPT ![s] = to]

Insert(s)  == active # s /\ Move(s, {"absent"}, "enabled") /\ UNCHANGED active
Enable(s)  == active # s /\ Move(s, {"disabled"}, "enabled") /\ UNCHANGED active
Disable(s) == Move(s, {"enabled"}, "disabled") /\ UNCHANGED active
Remove(s)  == Move(s, {"enabled", "disabled"}, "absent") /\ UNCHANGED active

\* An update asked for in the source's own callback supersedes a disable.
UpdateActive(s) == active = s /\ Move(s, {"disabled"}, "enabled") /\ UNCHANGED active

Begin(s) ==
    /\ active = None /\ status[s] = "enabled"
    /\ active' = s /\ UNCHANGED status

\* The callback's post action decides, but never brings a removed source back.
End(s) ==
    /\ active = s /\ active' = None
    /\ \/ UNCHANGED status
       \/ \E to \in States : Move(s, {"enabled", "disabled"}, to)

Next ==
    \E s \in Sources :
        \/ Insert(s) \/ Enable(s) \/ Disable(s) \/ Remove(s) \/ UpdateActive(s)
        \/ Begin(s) \/ End(s)

Spec == Init /\ [][Next]_vars
=============================================================================
