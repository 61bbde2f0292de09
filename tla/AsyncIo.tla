----------------------------- MODULE AsyncIo -----------------------------
(***************************************************************************)
(* The async IO adapter (io.rs) and the tasks that use it, in a loop that  *)
(* polls a Generic as well (module Poller).                                *)
(*                                                                         *)
(* The adapter has one waker, one interest and one stored readiness for    *)
(* both directions.  Its registration is one-shot: an operation that finds *)
(* nothing to do arms it for its own direction, with its own waker.  Tasks *)
(* run between dispatches (block_on) or in the callback of the executor.   *)
(* The nonblocking flag of the file is left out.                           *)
(***************************************************************************)
EXTENDS Poller

CONSTANTS
    Io,      \* the adapter's file descriptor
    Tasks,   \* the tasks that may poll its futures
    Refuses  \* may the poller refuse to register it, or to arm it?

ASSUME IoAssumption ==
    Io \in Fds \ {Gen} /\ IsFiniteSet(Tasks) /\ None \notin Tasks /\ Refuses \in BOOLEAN

VARIABLES
    adapter,  \* what has become of it; its slot is filled while "alive" or "refused"
    ioKey,    \* IoDispatcher.token
    waker,    \* IoDispatcher.waker: a task, or None
    last,     \* IoDispatcher.last_readiness
    task,     \* each task: the direction it waits for, or "runs"
    unarmed   \* history: the task that was the last to wait waits unarmed

dispatcher == <<ioKey, waker, last>>
all        == <<vars, adapter, dispatcher, task, unarmed>>

TypeOK ==
    /\ PollerTypeOK
    /\ adapter \in {"none", "alive", "refused", "gone"}
    /\ ioKey \in Key \cup {None}
    /\ waker \in Tasks \cup {None} /\ last \subseteq Dirs
    /\ task \in [Tasks -> Dirs \cup {"runs"}] /\ unarmed \in BOOLEAN

Init ==
    /\ PollerInit
    /\ adapter = "none" /\ ioKey = None /\ waker = None /\ last = {}
    /\ task = [t \in Tasks |-> "runs"] /\ unarmed = FALSE

----------------------------------------------------------------------------
\* The adapter's life

\* Async::new.  When the registration is refused the file is dropped, and its
\* slot stays filled.
Adapt ==
    /\ UserCode /\ adapter = "none" /\ NewKey
    /\ ioKey' = lastKey' /\ last' = {} /\ waker' = None
    /\ \/ Registers(Io, lastKey', "OneShot", {}) /\ adapter' = "alive"
       \/ Refuses /\ adapter' = "refused" /\ UNCHANGED <<table, levels>>
    /\ UNCHANGED <<emulated, ready, cycle, generic, task, unarmed>>

\* The slot and the last handle of the dispatcher go, and the waker with them;
\* the futures borrow the adapter: they are gone before.
NoAdapter ==
    /\ adapter' = "gone" /\ ioKey' = None /\ waker' = None /\ last' = {}
    /\ task' = [t \in Tasks |-> "runs"] /\ unarmed' = FALSE

\* kill, by Drop and into_inner: a registration that the poller refuses to delete
\* stays, and the slot is emptied all the same.
DropAdapter ==
    /\ UserCode /\ adapter = "alive"
    /\ \/ Unregisters(Io) /\ UNCHANGED stuck
       \/ Refused(Io) /\ stuck' = stuck \cup {Io}
    /\ NoAdapter
    /\ UNCHANGED <<emulated, ready, lastKey, cycle, place, mode, slot, token>>

----------------------------------------------------------------------------
\* The futures, polled by a task

\* Variant: the waker is stored, the registration left as it is.
RegisterWakerOnly(d, refused) == UNCHANGED <<table, levels>>

\* register_waker, after it has stored the waker: the registration is armed, or
\* the poller refuses.
RegisterWaker(d, refused) ==
    \/ ~refused /\ Registers(Io, ioKey, "OneShot", {d})
    \/ refused /\ UNCHANGED <<table, levels>>

Outcomes == {FALSE, Refuses}

Polls(t) == UserCode /\ adapter = "alive" /\ task[t] = "runs"

\* Readable::poll, Writable::poll: takes what the last event said.  When the
\* poller refuses, the future waits all the same.
PollReady(t, d) ==
    /\ Polls(t)
    /\ last' = {}
    /\ IF d \in last
       THEN UNCHANGED <<table, levels, waker, task, unarmed>>
       ELSE \E refused \in Outcomes :
            /\ RegisterWaker(d, refused)
            /\ waker' = t /\ task' = [task EXCEPT ![t] = d] /\ unarmed' = refused
    /\ UNCHANGED <<emulated, ready, lastKey, cycle, generic, adapter, ioKey>>

\* poll_read, poll_write, poll_flush: tries first; the stored readiness stays.
\* When the poller refuses, the task gets its error and goes on.
PollTransfer(t, d) ==
    /\ Polls(t)
    /\ IF d \in ready[Io]
       THEN /\ ready' \in {ready, [ready EXCEPT ![Io] = @ \ {d}]}
            /\ UNCHANGED <<table, levels, waker, task, unarmed>>
       ELSE \E refused \in Outcomes :
            /\ RegisterWaker(d, refused)
            /\ waker' = t /\ unarmed' = FALSE
            /\ task' = IF refused THEN task ELSE [task EXCEPT ![t] = d]
            /\ UNCHANGED ready
    /\ UNCHANGED <<emulated, lastKey, cycle, generic, adapter, ioKey, last>>

\* The future is dropped; the waker stays with the dispatcher.
Cancel(t) ==
    /\ UserCode /\ task[t] # "runs"
    /\ task' = [task EXCEPT ![t] = "runs"]
    /\ unarmed' = (unarmed /\ waker # t)
    /\ UNCHANGED <<vars, adapter, dispatcher>>

----------------------------------------------------------------------------
\* The dispatcher

IoStale ==
    /\ pc = "dispatch" /\ batch # <<>> /\ Head(batch).fd = Io /\ adapter = "gone"
    /\ batch' = Tail(batch)
    /\ UNCHANGED <<kernel, pc, generic, adapter, dispatcher, task, unarmed>>

\* A wake-up of a task that does not wait (any more) changes nothing.
Wake(t) ==
    /\ task' = [u \in Tasks |-> IF u = t THEN "runs" ELSE task[u]]
    /\ waker' = None /\ unarmed' = FALSE

IoEvent ==
    /\ pc = "dispatch" /\ batch # <<>> /\ Head(batch).fd = Io /\ adapter = "alive"
    /\ last' = Head(batch).dirs
    /\ Wake(waker)
    /\ batch' = Tail(batch)
    /\ UNCHANGED <<kernel, pc, generic, adapter, ioKey>>

TaskStep(t) == \E d \in Dirs : PollReady(t, d) \/ PollTransfer(t, d)

LoopStep ==
    \/ (PollerStep /\ UNCHANGED <<adapter, dispatcher, task, unarmed>>)
    \/ IoStale \/ IoEvent

Environment ==
    \/ adapter = "alive" /\ \E d \in Dirs : GainReady(Io, d)
    \/ GainReady(Gen, "read")
    \/ GenericUser

Next ==
    \/ (Environment /\ UNCHANGED <<adapter, dispatcher, task, unarmed>>)
    \/ Adapt \/ DropAdapter
    \/ \E t \in Tasks : TaskStep(t) \/ Cancel(t)
    \/ LoopStep

Spec == Init /\ [][Next]_all

\* The loop is dispatched again and again, and process_events returns.
FairSpec == Spec /\ WF_all(LoopStep)

----------------------------------------------------------------------------
(* Properties.                                                             *)

Waits(t, d) == adapter = "alive" /\ task[t] = d /\ waker = t

\* The task that was the last to wait is woken when its direction is ready,
\* whatever readiness other operations have taken or left before: the dispatcher
\* does not sit on a waker it could call.  (A task that another one's operation
\* came after has lost its place: one waker, io.rs:268.  One whose registration
\* could not be armed is left out: it waits in vain, although io.rs:141 promises
\* `a future that resolves once the associated object becomes ready'.)
WaitersAreWoken ==
    LET Ready == \E t \in Tasks, d \in ready[Io] : Waits(t, d) /\ ~unarmed
    IN  Ready ~> ~Ready

\* A waiting task's registration is as its last operation left it: the poller
\* is armed for its direction, or the event is in the batch; if the poller did
\* not refuse.
WaitersAreArmed ==
    \A t \in Tasks, d \in Dirs : Waits(t, d) /\ ~unarmed =>
        \/ table[Io] # None /\ table[Io].armed /\ d \in table[Io].dirs /\ table[Io].key = ioKey
        \/ \E i \in DOMAIN batch : batch[i].fd = Io

\* Level triggering, native or emulated: a Generic that is ready is served, and
\* again as long as it is ready (sys.rs, Mode::Level), whatever else is polled.
LevelIsServed ==
    (place = "loop" /\ mode = "Level" /\ "read" \in ready[Gen]) ~>
        (pc = "event" \/ place # "loop" \/ mode # "Level" \/ "read" \notin ready[Gen])

\* No registration outlives the owner of its file: a dropped adapter has left the
\* poller, and so has a Generic that was disabled, unwrapped or dropped, whatever
\* was refused before; unless the poller refused the owner's own, last deletion.
NothingOutlivesItsOwner ==
    /\ adapter = "gone" => table[Io] = None \/ Io \in stuck
    /\ place = "dropped" => table[Gen] = None \/ Gen \in stuck
    /\ place = "disabled" => table[Gen] = None
=============================================================================
