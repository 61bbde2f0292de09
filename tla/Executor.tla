---------------------------- MODULE Executor ----------------------------
(***************************************************************************)
(* The executor (sources/futures.rs): tasks, the queue of runnables their  *)
(* wakers fill from any thread, the notified flag that saves pings, the    *)
(* event source that runs the tasks, and its destruction.                  *)
(*                                                                         *)
(* A task is one of the crate async-task: it is scheduled by whoever sets  *)
(* its scheduled flag, who then hands its only Runnable to Sender::send; a *)
(* wake during its own run is carried out when the run ends.  Each step of *)
(* send, and of process_events, is an action: other threads may come in    *)
(* between.  Whether a poll completes a future is its own choice.          *)
(*                                                                         *)
(* The ping is a flag here: the executor holds a Ping itself, so it never  *)
(* closes (the eventfd behind it is in modules Channel and Ping).          *)
(***************************************************************************)
EXTENDS Naturals, Sequences, FiniteSets, SequencesExt

CONSTANTS
    Tasks,   \* the futures that may be scheduled
    Wakers,  \* threads that hold wakers of all tasks
    Main,    \* the loop's thread
    Limit,   \* runnables per process_events, 1024
    None     \* no task

ASSUME ConstantsAssumption ==
    /\ IsFiniteSet(Tasks) /\ IsFiniteSet(Wakers) /\ Main \notin Wakers
    /\ Limit \in Nat \ {0} /\ None \notin Tasks

Threads == Wakers \cup {Main}

VARIABLES
    life,       \* what has become of each task
    scheduled,  \* async-task's flag: a wake was claimed and not yet run
    send,       \* where each thread is in Sender::send
    hand,       \* the runnable it sends
    incoming,   \* State.incoming
    notified,   \* Sender.notified
    pinged,     \* is the ping of the source readable?
    place,      \* who has the Executor
    pc,         \* where the loop's thread is
    current,    \* the task that runs, or None
    budget,     \* runnables left to this process_events
    todo        \* tasks that drop has not yet woken

task   == <<life, scheduled>>
sender == <<send, hand>>
shared == <<incoming, notified, pinged>>
cycle  == <<place, pc, current, budget, todo>>
vars   == <<task, sender, shared, cycle>>

Lives == {
    "new",
    "alive",     \* its future exists
    "finished",  \* Active::Finished, its result stored
    "delivered",
    "dropped"}   \* its future was dropped unfinished

Phases == {
    "out",       \* anywhere else
    "ready",     \* the ping was polled, its event not yet processed
    "clear",     \* drained, about to reset notified
    "recv",      \* in the loop over try_recv
    "running",   \* in a future's poll
    "callback",
    "again",     \* about to ping itself
    "dropping",  \* in Executor::drop, waking tasks
    "draining",  \* and dropping runnables
    "gone"}

Init ==
    /\ life = [t \in Tasks |-> "new"] /\ scheduled = [t \in Tasks |-> FALSE]
    /\ send = [w \in Threads |-> "no"] /\ hand = [w \in Threads |-> None]
    /\ incoming = <<>> /\ notified = FALSE /\ pinged = FALSE
    /\ place = "user" /\ pc = "out" /\ current = None /\ budget = 0 /\ todo = {}

Goto(label) == pc' = label /\ UNCHANGED <<place, current, budget, todo>>

\* The loop's thread is not in the middle of a send.
Free == send[Main] = "no"

----------------------------------------------------------------------------
\* Sender::send, and what leads to it

HandsOver(w, t) == send' = [send EXCEPT ![w] = "push"] /\ hand' = [hand EXCEPT ![w] = t]

\* Waker::wake of t by thread w
Claims(w, t) ==
    IF life[t] # "alive" \/ scheduled[t] THEN UNCHANGED <<scheduled, sender>>
    ELSE /\ scheduled' = [scheduled EXCEPT ![t] = TRUE]
         /\ IF current = t THEN UNCHANGED sender ELSE HandsOver(w, t)

Push(w) ==
    /\ send[w] = "push"
    /\ incoming' = Append(incoming, hand[w])
    /\ send' = [send EXCEPT ![w] = "swap"] /\ hand' = [hand EXCEPT ![w] = None]
    /\ UNCHANGED <<task, notified, pinged, cycle>>

SwapNotified(w) ==
    /\ send[w] = "swap"
    /\ send' = [send EXCEPT ![w] = IF notified THEN "no" ELSE "ping"]
    /\ notified' = TRUE
    /\ UNCHANGED <<task, hand, incoming, pinged, cycle>>

WakeUp(w) ==
    /\ send[w] = "ping"
    /\ send' = [send EXCEPT ![w] = "no"]
    /\ pinged' = TRUE
    /\ UNCHANGED <<task, hand, incoming, notified, cycle>>

Send(w) == Push(w) \/ SwapNotified(w) \/ WakeUp(w)

\* User code on the loop's thread: outside, in a future, in the callback
UserCode == Free /\ pc \in {"out", "ready", "running", "callback"}

Wake(w, t) ==
    /\ send[w] = "no" /\ (w = Main => UserCode)
    /\ life[t] = "alive" /\ ~scheduled[t]
    /\ Claims(w, t)
    /\ UNCHANGED <<life, shared, cycle>>

\* Scheduler::schedule
Schedule(t) ==
    /\ UserCode /\ place # "gone" /\ life[t] = "new"
    /\ life' = [life EXCEPT ![t] = "alive"]
    /\ scheduled' = [scheduled EXCEPT ![t] = TRUE]
    /\ HandsOver(Main, t)
    /\ UNCHANGED <<shared, cycle>>

----------------------------------------------------------------------------
\* Executor::process_events

Poll ==
    /\ Free /\ pc = "out" /\ place = "loop" /\ pinged
    /\ Goto("ready")
    /\ UNCHANGED <<task, sender, shared>>

DrainPing ==
    /\ Free /\ pc = "ready" /\ place = "loop"
    /\ pinged' = FALSE
    /\ Goto("clear")
    /\ UNCHANGED <<task, sender, incoming, notified>>

\* Disabled since the poll: the inner source skips the event.
SkipPing ==
    /\ Free /\ pc = "ready" /\ place = "disabled"
    /\ Goto("again")
    /\ UNCHANGED <<task, sender, shared>>

\* Variant: the flag is left set.
KeepNotified ==
    /\ pc = "clear"
    /\ pc' = "recv" /\ budget' = Limit
    /\ UNCHANGED <<task, sender, shared, place, current, todo>>

ClearNotified ==
    /\ pc = "clear"
    /\ notified' = FALSE
    /\ pc' = "recv" /\ budget' = Limit
    /\ UNCHANGED <<task, sender, incoming, pinged, place, current, todo>>

\* Variant: runnables are taken until there are none.
RunUncounted ==
    /\ Free /\ pc = "recv" /\ incoming # <<>>
    /\ LET t == Head(incoming) IN
       current' = t /\ scheduled' = [scheduled EXCEPT ![t] = FALSE]
    /\ incoming' = Tail(incoming)
    /\ pc' = "running"
    /\ UNCHANGED <<life, sender, notified, pinged, place, budget, todo>>

Run ==
    /\ Free /\ pc = "recv" /\ budget > 0 /\ incoming # <<>>
    /\ LET t == Head(incoming) IN
       current' = t /\ scheduled' = [scheduled EXCEPT ![t] = FALSE]
    /\ incoming' = Tail(incoming)
    /\ pc' = "running" /\ budget' = budget - 1
    /\ UNCHANGED <<life, sender, notified, pinged, place, todo>>

\* The future is still pending; a wake during its run is carried out now.
RunPending ==
    /\ Free /\ pc = "running"
    /\ pc' = "recv" /\ current' = None
    /\ IF scheduled[current] THEN HandsOver(Main, current) ELSE UNCHANGED sender
    /\ UNCHANGED <<task, shared, place, budget, todo>>

\* The future is done: StoreOnDrop stores the result.
RunReady ==
    /\ Free /\ pc = "running"
    /\ life' = [life EXCEPT ![current] = "finished"]
    /\ scheduled' = [scheduled EXCEPT ![current] = FALSE]
    /\ pc' = "callback" /\ current' = None
    /\ UNCHANGED <<sender, shared, place, budget, todo>>

\* The result was taken out before the callback; here it returns.
CallbackReturns ==
    /\ Free /\ pc = "callback"
    /\ life' = [t \in Tasks |-> IF life[t] = "finished" THEN "delivered" ELSE life[t]]
    /\ Goto("recv")
    /\ UNCHANGED <<scheduled, sender, shared>>

QueueEmpty ==
    /\ Free /\ pc = "recv" /\ budget > 0 /\ incoming = <<>>
    /\ Goto("out")
    /\ UNCHANGED <<task, sender, shared>>

LimitReached ==
    /\ Free /\ pc = "recv" /\ budget = 0
    /\ Goto("again")
    /\ UNCHANGED <<task, sender, shared>>

\* Variant: the executor does not come back by itself.
NoSelfPing ==
    /\ pc = "again"
    /\ Goto("out")
    /\ UNCHANGED <<task, sender, shared>>

SelfPing ==
    /\ pc = "again"
    /\ pinged' = TRUE
    /\ Goto("out")
    /\ UNCHANGED <<task, sender, incoming, notified>>

----------------------------------------------------------------------------
\* The user of the loop, between dispatches or in another source's callback,
\* or here in the executor's own callback

Insert ==
    /\ Free /\ pc = "out" /\ place = "user"
    /\ place' = "loop"
    /\ UNCHANGED <<task, sender, shared, pc, current, budget, todo>>

Enable ==
    /\ Free /\ pc \in {"out", "ready"} /\ place = "disabled"
    /\ place' = "loop"
    /\ UNCHANGED <<task, sender, shared, pc, current, budget, todo>>

Disable ==
    /\ UserCode /\ place = "loop"
    /\ place' = "disabled"
    /\ UNCHANGED <<task, sender, shared, pc, current, budget, todo>>

\* Executor::drop: the active tasks are taken,
Drop ==
    /\ Free /\ pc \in {"out", "ready"} /\ place # "gone"
    /\ place' = "gone" /\ pc' = "dropping"
    /\ todo' = {t \in Tasks : life[t] = "alive"}
    /\ UNCHANGED <<task, sender, shared, current, budget>>

\* Variant: tasks are dropped only if their runnable is in the queue.
DropWithoutWake(t) ==
    /\ Free /\ pc = "dropping" /\ t \in todo
    /\ todo' = todo \ {t}
    /\ UNCHANGED <<task, sender, shared, place, pc, current, budget>>

\* each is woken, which queues its runnable,
DropWakes(t) ==
    /\ Free /\ pc = "dropping" /\ t \in todo
    /\ todo' = todo \ {t}
    /\ Claims(Main, t)
    /\ UNCHANGED <<life, shared, place, pc, current, budget>>

DropAllWoken ==
    /\ Free /\ pc = "dropping" /\ todo = {}
    /\ Goto("draining")
    /\ UNCHANGED <<task, sender, shared>>

\* and the queue is emptied; a dropped runnable drops its future.
DropRunnable ==
    /\ pc = "draining" /\ incoming # <<>>
    /\ life' = [life EXCEPT ![Head(incoming)] = "dropped"]
    /\ scheduled' = [scheduled EXCEPT ![Head(incoming)] = FALSE]
    /\ incoming' = Tail(incoming)
    /\ UNCHANGED <<sender, notified, pinged, cycle>>

DropEnds ==
    /\ pc = "draining" /\ incoming = <<>>
    /\ Goto("gone")
    /\ UNCHANGED <<task, sender, shared>>

----------------------------------------------------------------------------
MainStep ==
    \/ Send(Main)
    \/ Poll \/ DrainPing \/ SkipPing \/ ClearNotified \/ Run \/ RunPending \/ RunReady
    \/ CallbackReturns \/ QueueEmpty \/ LimitReached \/ SelfPing
    \/ (\E t \in Tasks : DropWakes(t)) \/ DropAllWoken \/ DropRunnable \/ DropEnds

Next ==
    \/ MainStep
    \/ \E w \in Wakers : Send(w)
    \/ \E w \in Threads, t \in Tasks : Wake(w, t)
    \/ \E t \in Tasks : Schedule(t)
    \/ Insert \/ Enable \/ Disable \/ Drop

Spec == Init /\ [][Next]_vars

\* The loop is dispatched again and again, futures and callbacks return, and a
\* thread in wake() is scheduled.  Nobody need wake anything.
FairSpec == Spec /\ WF_vars(MainStep) /\ \A w \in Wakers : WF_vars(Send(w))

----------------------------------------------------------------------------
\* Properties

\* Every variable keeps its type.
TypeOK ==
    /\ life \in [Tasks -> Lives] /\ scheduled \in [Tasks -> BOOLEAN]
    /\ send \in [Threads -> {"no", "push", "swap", "ping"}]
    /\ hand \in [Threads -> Tasks \cup {None}]
    /\ incoming \in Seq(Tasks) /\ notified \in BOOLEAN /\ pinged \in BOOLEAN
    /\ place \in {"user", "loop", "disabled", "gone"} /\ pc \in Phases
    /\ current \in Tasks \cup {None} /\ budget \in 0 .. Limit /\ todo \subseteq Tasks

\* No wakeup is lost between a thread that skips its ping, because notified is
\* set, and the executor that resets it: runnables in the queue are being
\* looked at, or the ping is or will be sent.
RunnablesAreNoticed ==
    incoming # <<>> /\ place # "gone" =>
        \/ pinged \/ pc \notin {"out", "ready"}
        \/ \E w \in Threads : send[w] \in {"swap", "ping"}

\* A destroyed executor leaves no future behind, except those whose wake a
\* thread had claimed and not yet sent when the queue was emptied.
OnlyLateRunnablesRemain ==
    pc = "gone" => \A t \in Tasks : life[t] = "alive" => scheduled[t]

\* A process_events ends, though tasks wake each other for ever.
BatchEnds == pc = "recv" ~> pc = "out"

\* A task woken from any thread is run, unless the executor leaves the loop.
WokenTasksRun ==
    \A t \in Tasks : scheduled[t] ~> current = t \/ place # "loop"

=============================================================================
