----------------------------- MODULE Poller -----------------------------
(***************************************************************************)
(* The polling system (sys.rs, Poll) and a Generic source on it            *)
(* (sources/generic.rs): registrations of file descriptors under a key,    *)
(* their modes, and the map that emulates level triggering on platforms    *)
(* that only have one-shot registrations.                                  *)
(*                                                                         *)
(* Timers and notifications are in module Timers.  A key is the packed     *)
(* token of the source's slot; no key is given out twice (EventLoop).      *)
(***************************************************************************)
EXTENDS Naturals, Sequences, FiniteSets, SequencesExt

CONSTANTS
    Fds,      \* the file descriptors
    Gen,      \* the one in the Generic
    Flaky,    \* may the poller refuse to delete a registration?
    MaxKey,   \* bound: number of keys given out
    None

Dirs  == {"read", "write"}
Modes == {"Level", "Edge", "OneShot"}
Key   == 1 .. MaxKey
Entry == [key : Key, mode : Modes, dirs : SUBSET Dirs, armed : BOOLEAN]
Event == [fd : Fds, key : Key, dirs : SUBSET Dirs]

ASSUME PollerAssumption ==
    /\ Gen \in Fds /\ IsFiniteSet(Fds) /\ Flaky \in BOOLEAN /\ MaxKey \in Nat
    /\ None \notin Nat \cup Entry

VARIABLES
    emulated,  \* does the platform lack level triggering?
    table,     \* the poller: each fd's registration, or None
    levels,    \* Poll.level_triggered: key, fd and interest
    ready,     \* what the kernel could do with each fd
    lastKey,   \* the last key given out
    batch,     \* the events of this dispatch still to come
    pc,        \* where the loop is
    place,     \* where the Generic is
    mode,      \* Generic.mode, or None when the Generic is gone
    slot,      \* the key of its slot
    token,     \* Generic.token
    stuck      \* history: the fds the poller refused to delete when their owner went

kernel  == <<emulated, table, levels, ready, lastKey>>
cycle   == <<batch, pc>>
generic == <<place, mode, slot, token, stuck>>
vars    == <<kernel, cycle, generic>>

PollerTypeOK ==
    /\ emulated \in BOOLEAN
    /\ table \in [Fds -> Entry \cup {None}]
    /\ levels \subseteq [key : Key, fd : Fds, dirs : SUBSET Dirs]
    /\ ready \in [Fds -> SUBSET Dirs] /\ lastKey \in 0 .. MaxKey
    /\ batch \in Seq(Event) /\ pc \in {"idle", "dispatch", "event"}
    /\ place \in {"out", "loop", "disabled", "dropped"} /\ mode \in Modes \cup {None}
    /\ slot \in Key \cup {None} /\ token \in Key \cup {None} /\ stuck \subseteq Fds

PollerInit ==
    /\ emulated \in BOOLEAN
    /\ table = [f \in Fds |-> None] /\ levels = {}
    /\ ready = [f \in Fds |-> {}] /\ lastKey = 0
    /\ batch = <<>> /\ pc = "idle"
    /\ place = "out" /\ mode \in Modes /\ slot = None /\ token = None
    /\ stuck = {}

----------------------------------------------------------------------------
(* Poll::register, reregister, unregister: what they do to the table and   *)
(* the map when they succeed.                                              *)

\* Without level triggering, every registration is one-shot.
KernelMode(m) == IF emulated THEN "OneShot" ELSE m

Remembered(fd, key, m, dirs) ==
    IF emulated /\ m = "Level"
    THEN {e \in levels : e.key # key} \cup {[key |-> key, fd |-> fd, dirs |-> dirs]}
    ELSE levels

Registers(fd, key, m, dirs) ==
    /\ table' = [table EXCEPT ![fd] =
                    [key |-> key, mode |-> KernelMode(m), dirs |-> dirs, armed |-> TRUE]]
    /\ levels' = Remembered(fd, key, m, dirs)

Unregisters(fd) ==
    /\ table' = [table EXCEPT ![fd] = None]
    /\ levels' = {e \in levels : e.fd # fd}

\* The poller refuses to delete the registration.
Refused(fd) == Flaky /\ table[fd] # None /\ UNCHANGED <<table, levels>>

----------------------------------------------------------------------------
(* Poll::poll.                                                             *)

\* The kernel: an edge-triggered registration fires at each gain.
GainReady(fd, d) ==
    /\ d \notin ready[fd]
    /\ ready' = [ready EXCEPT ![fd] = @ \cup {d}]
    /\ table' = IF table[fd] # None /\ table[fd].mode = "Edge" /\ d \in table[fd].dirs
                THEN [table EXCEPT ![fd].armed = TRUE] ELSE table
    /\ UNCHANGED <<emulated, levels, lastKey, cycle, generic>>

Fires(fd) == table[fd] # None /\ table[fd].armed /\ table[fd].dirs \cap ready[fd] # {}

EventOf(fd) == [fd |-> fd, key |-> table[fd].key, dirs |-> table[fd].dirs \cap ready[fd]]

\* Variant: no registration is armed again.
RearmsNothing(keys) == {}

\* What poll's modify arms again: the fd and interest the map has for the key.
Rearms(keys) == {e \in levels : e.key \in keys}

\* A one-shot or edge-triggered registration is spent; then the re-arming.
\* (A map entry whose file is closed would fail the poll; the registration under
\* its key is closed with the file.)
Poll ==
    LET fired == {fd \in Fds : Fires(fd)}
        again == Rearms({table[fd].key : fd \in fired})
        Spent(fd) == IF fd \in fired /\ table[fd].mode # "Level"
                     THEN [table[fd] EXCEPT !.armed = FALSE] ELSE table[fd]
    IN  /\ pc = "idle" /\ pc' = "dispatch" /\ fired # {}
        /\ batch' \in SetToSeqs({EventOf(fd) : fd \in fired})
        /\ table' = [fd \in Fds |->
                        IF \E e \in again : e.fd = fd
                        THEN LET e == CHOOSE e \in again : e.fd = fd
                             IN  [key |-> e.key, mode |-> "OneShot", dirs |-> e.dirs, armed |-> TRUE]
                        ELSE Spent(fd)]
        /\ UNCHANGED <<emulated, levels, ready, lastKey, generic>>

----------------------------------------------------------------------------
(* The Generic: its owner's calls through the handle, and events.          *)

UserCode == pc \in {"idle", "dispatch"}

NewKey == lastKey' = lastKey + 1 /\ lastKey < MaxKey

\* generic.rs, register
InsertGeneric ==
    /\ UserCode /\ place = "out" /\ table[Gen] = None /\ NewKey
    /\ Registers(Gen, lastKey', mode, {"read"})
    /\ place' = "loop" /\ slot' = lastKey' /\ token' = lastKey'
    /\ UNCHANGED <<emulated, ready, cycle, mode, stuck>>

EnableGeneric ==
    /\ UserCode /\ place = "disabled" /\ table[Gen] = None
    /\ Registers(Gen, slot, mode, {"read"})
    /\ place' = "loop" /\ token' = slot
    /\ UNCHANGED <<emulated, ready, lastKey, cycle, mode, slot, stuck>>

\* The mode is a public field: update makes a change of it effective.
UpdateGeneric(m) ==
    /\ UserCode /\ place = "loop"
    /\ mode' = m /\ Registers(Gen, slot, m, {"read"})
    /\ token' = slot
    /\ UNCHANGED <<emulated, ready, lastKey, cycle, place, slot, stuck>>

\* A disable that fails changes nothing; a removal that fails leaves the fd.
DisableGeneric ==
    /\ UserCode /\ place = "loop"
    /\ Unregisters(Gen) /\ place' = "disabled" /\ token' = None
    /\ UNCHANGED <<emulated, ready, lastKey, cycle, mode, slot, stuck>>

RemoveGeneric ==
    /\ UserCode /\ place \in {"loop", "disabled"}
    /\ \/ Unregisters(Gen) /\ token' = None
       \/ Refused(Gen) /\ UNCHANGED token
    /\ place' = "out" /\ slot' = None
    /\ UNCHANGED <<emulated, ready, lastKey, cycle, mode, stuck>>

\* Variant: the fd is closed or handed out as it is.
DropRegistered ==
    /\ UserCode /\ place = "out"
    /\ place' = "dropped" /\ token' = None /\ mode' = None
    /\ UNCHANGED <<kernel, cycle, slot, stuck>>

\* unwrap and Drop delete the fd themselves, past Poll and its map, and ignore
\* a refusal.
DropGeneric ==
    /\ UserCode /\ place = "out"
    /\ \/ table' = [table EXCEPT ![Gen] = None] /\ UNCHANGED <<levels, stuck>>
       \/ Refused(Gen) /\ stuck' = stuck \cup {Gen}
    /\ place' = "dropped" /\ token' = None /\ mode' = None
    /\ UNCHANGED <<emulated, ready, lastKey, cycle, slot>>

\* Events of a removed source, or with a key that is not the source's token
GenericSkips ==
    /\ pc = "dispatch" /\ batch # <<>> /\ Head(batch).fd = Gen
    /\ place # "loop" \/ Head(batch).key # token
    /\ batch' = Tail(batch)
    /\ UNCHANGED <<kernel, pc, generic>>

\* process_events: the callback may read what there is.
GenericEvent ==
    /\ pc = "dispatch" /\ batch # <<>> /\ Head(batch).fd = Gen
    /\ place = "loop" /\ Head(batch).key = token
    /\ pc' = "event" /\ batch' = Tail(batch)
    /\ ready' \in {ready, [ready EXCEPT ![Gen] = @ \ {"read"}]}
    /\ UNCHANGED <<emulated, table, levels, lastKey, generic>>

EndEvent == pc = "event" /\ pc' = "dispatch" /\ UNCHANGED <<kernel, batch, generic>>

EndDispatch ==
    /\ pc = "dispatch" /\ batch = <<>>
    /\ pc' = "idle"
    /\ UNCHANGED <<kernel, batch, generic>>

GenericUser ==
    \/ InsertGeneric \/ EnableGeneric \/ (\E m \in Modes : UpdateGeneric(m))
    \/ DisableGeneric \/ RemoveGeneric \/ DropGeneric

PollerStep == Poll \/ GenericSkips \/ GenericEvent \/ EndEvent \/ EndDispatch
=============================================================================
