----------------------------- MODULE RunLoop -----------------------------
(***************************************************************************)
(* The loop around dispatch (loop_logic.rs): dispatch, run and block_on,   *)
(* LoopSignal and the waker of block_on, which other threads use, and the  *)
(* idle callbacks.                                                         *)
(*                                                                         *)
(* What dispatch_events does with events is module EventLoop; here it is a *)
(* wait, then user code, or an error.  Threads share the two flags of      *)
(* Signals and the notification of the poller, each touched by one atomic  *)
(* step.  The future of block_on completes once all of its work is done;   *)
(* it keeps the contract of futures: whoever does a piece of work after a  *)
(* poll that returned Pending wakes the waker of that poll.                *)
(***************************************************************************)
EXTENDS Naturals, Sequences, FiniteSets, SequencesExt, Functions

CONSTANTS
    Wakers,  \* threads that work for the future, or hold its waker
    Work,    \* pieces of work the future waits for
    Idles    \* idle callbacks; each may be inserted again once it was called

ASSUME ConstantsAssumption == Work \in Nat /\ IsFiniteSet(Wakers) /\ IsFiniteSet(Idles)

VARIABLES
    call,          \* the method of EventLoop that runs
    timed,         \* was it given a timeout?
    pc,            \* where it is
    stop,          \* Signals.stop
    future_ready,  \* Signals.future_ready
    notified,      \* the poller's pending notification
    done,          \* pieces of work done
    registered,    \* has the future a waker to wake?
    wpc,           \* where each thread is in wake()
    idles,         \* LoopInner.idles
    batch,         \* the idles dispatch_idles has taken and not yet called
    cancelled,     \* those of both lists that were cancelled
    asked          \* history: "no", stop() or stop() and then wakeup() was called

signals == <<stop, future_ready>>
future  == <<done, registered, wpc>>
idling  == <<idles, batch, cancelled>>
vars    == <<call, timed, pc, signals, notified, future, idling, asked>>

Calls == {"none", "dispatch", "run", "block_on"}

Phases == {
    "out",     \* no call
    "check",   \* about to load stop
    "swap",    \* about to swap future_ready
    "poll",    \* about to poll the future
    "wait",    \* in the poller
    "events",  \* in the callbacks of sources
    "idles",   \* in dispatch_idles, between two idles
    "idle",    \* in one of them
    "cb"}      \* in the callback between two dispatches

Init ==
    /\ call = "none" /\ timed = FALSE /\ pc = "out"
    /\ stop = FALSE /\ future_ready = FALSE /\ notified = FALSE
    /\ done = 0 /\ registered = FALSE /\ wpc = [w \in Wakers |-> "no"]
    /\ idles = <<>> /\ batch = <<>> /\ cancelled = {}
    /\ asked = "no"

----------------------------------------------------------------------------
\* The calls

Dispatch ==
    /\ pc = "out"
    /\ call' = "dispatch" /\ pc' = "wait" /\ timed' \in BOOLEAN
    /\ UNCHANGED <<signals, notified, future, idling, asked>>

Run ==
    /\ pc = "out"
    /\ call' = "run" /\ pc' = "check" /\ timed' \in BOOLEAN
    /\ stop' = FALSE /\ asked' = "no"
    /\ UNCHANGED <<future_ready, notified, future, idling>>

\* A new future, none of whose work is done; old wakers may still be about.
BlockOn ==
    /\ pc = "out" /\ done \in {0, Work}
    /\ call' = "block_on" /\ pc' = "check" /\ timed' = FALSE
    /\ stop' = FALSE /\ future_ready' = TRUE /\ asked' = "no"
    /\ done' = 0 /\ registered' = FALSE
    /\ UNCHANGED <<notified, wpc, idling>>

\* The future is dropped with the call; done = Work stands for no future.
Leave == call' = "none" /\ pc' = "out" /\ registered' = FALSE /\ done' = Work

\* Variant: the flag is cleared in the loop, not before it.
CheckAfterClearing ==
    /\ pc = "check"
    /\ pc' = IF call = "run" THEN "wait" ELSE "swap"
    /\ stop' = FALSE
    /\ UNCHANGED <<call, timed, future_ready, notified, future, idling, asked>>

Check ==
    /\ pc = "check"
    /\ IF stop THEN Leave
       ELSE pc' = (IF call = "run" THEN "wait" ELSE "swap") /\ UNCHANGED <<call, done, registered>>
    /\ UNCHANGED <<timed, signals, notified, wpc, idling, asked>>

Swap ==
    /\ pc = "swap"
    /\ pc' = IF future_ready THEN "poll" ELSE "wait"
    /\ future_ready' = FALSE
    /\ UNCHANGED <<call, timed, stop, notified, future, idling, asked>>

PollFuture ==
    /\ pc = "poll"
    /\ IF done = Work THEN Leave
       ELSE pc' = "wait" /\ registered' = TRUE /\ UNCHANGED <<call, done>>
    /\ UNCHANGED <<timed, signals, notified, wpc, idling, asked>>

----------------------------------------------------------------------------
\* One dispatch: the wait, the callbacks of sources, then the idles

Woken == pc' = "events" /\ notified' = FALSE
         /\ UNCHANGED <<call, timed, signals, future, idling, asked>>

WaitEnds == pc = "wait" /\ (notified \/ timed) /\ Woken

EventArrives == pc = "wait" /\ Woken

\* An error of the poll or of a source leaves the call, with `?`.
DispatchError ==
    /\ pc \in {"wait", "events"}
    /\ Leave
    /\ UNCHANGED <<timed, signals, notified, wpc, idling, asked>>

TakeIdles ==
    /\ pc = "events"
    /\ pc' = "idles"
    /\ batch' = idles /\ idles' = <<>>
    /\ UNCHANGED <<call, timed, signals, notified, future, cancelled, asked>>

\* Variant: a cancelled idle ends the walk.
RunIdleUntilCancelled ==
    /\ pc = "idles" /\ batch # <<>>
    /\ pc' = IF Head(batch) \in cancelled THEN "idles" ELSE "idle"
    /\ cancelled' = cancelled \ {Head(batch)}
    /\ batch' = IF Head(batch) \in cancelled THEN <<>> ELSE Tail(batch)
    /\ UNCHANGED <<call, timed, signals, notified, future, idles, asked>>

RunIdle ==
    /\ pc = "idles" /\ batch # <<>>
    /\ pc' = IF Head(batch) \in cancelled THEN "idles" ELSE "idle"
    /\ cancelled' = cancelled \ {Head(batch)}
    /\ batch' = Tail(batch)
    /\ UNCHANGED <<call, timed, signals, notified, future, idles, asked>>

IdleReturns ==
    /\ pc = "idle"
    /\ pc' = "idles"
    /\ UNCHANGED <<call, timed, signals, notified, future, idling, asked>>

IdlesDone ==
    /\ pc = "idles" /\ batch = <<>>
    /\ IF call = "dispatch" THEN Leave
       ELSE pc' = "cb" /\ UNCHANGED <<call, done, registered>>
    /\ UNCHANGED <<timed, signals, notified, wpc, idling, asked>>

CallbackReturns ==
    /\ pc = "cb"
    /\ pc' = "check"
    /\ UNCHANGED <<call, timed, signals, notified, future, idling, asked>>

\* What the thread of the loop does by itself
LoopStep ==
    \/ Check \/ Swap \/ PollFuture
    \/ WaitEnds \/ TakeIdles \/ RunIdle \/ IdleReturns \/ IdlesDone \/ CallbackReturns

----------------------------------------------------------------------------
\* The user of the handle, which stays on this thread; the future of block_on
\* may have one as well

UserCode == pc \in {"out", "poll", "events", "idle", "cb"}

Waiting(i) == Contains(batch \o idles, i)

InsertIdle(i) ==
    /\ UserCode /\ ~Waiting(i)
    /\ idles' = Append(idles, i)
    /\ UNCHANGED <<call, timed, pc, signals, notified, future, batch, cancelled, asked>>

\* Idle::cancel; in the callback itself it panics, the idle being borrowed.
Cancel(i) ==
    /\ UserCode /\ Waiting(i)
    /\ cancelled' = cancelled \cup {i}
    /\ UNCHANGED <<call, timed, pc, signals, notified, future, idles, batch, asked>>

----------------------------------------------------------------------------
\* Any thread: LoopSignal, and the wakers of the future

Stop ==
    /\ stop' = TRUE
    /\ asked' = IF asked = "no" THEN "stop" ELSE asked
    /\ UNCHANGED <<call, timed, pc, future_ready, notified, future, idling>>

Wakeup ==
    /\ notified' = TRUE
    /\ asked' = IF asked = "stop" THEN "wakeup" ELSE asked
    /\ UNCHANGED <<call, timed, pc, signals, future, idling>>

Enters(w) == wpc' = [wpc EXCEPT ![w] = "store"]

DoWork(w) ==
    /\ call = "block_on" /\ wpc[w] = "no" /\ done < Work
    /\ done' = done + 1 /\ registered' = FALSE
    /\ IF registered THEN Enters(w) ELSE UNCHANGED wpc
    /\ UNCHANGED <<call, timed, pc, signals, notified, idling, asked>>

\* wake() for no reason, of this future or of an earlier one
WakeIdly(w) ==
    /\ wpc[w] = "no"
    /\ Enters(w)
    /\ UNCHANGED <<call, timed, pc, signals, notified, done, registered, idling, asked>>

WakeStore(w) ==
    /\ wpc[w] = "store"
    /\ future_ready' = TRUE
    /\ wpc' = [wpc EXCEPT ![w] = "notify"]
    /\ UNCHANGED <<call, timed, pc, stop, notified, done, registered, idling, asked>>

\* Variant: the waker only sets the flag.
WakeQuietly(w) ==
    /\ wpc[w] = "notify"
    /\ wpc' = [wpc EXCEPT ![w] = "no"]
    /\ UNCHANGED <<call, timed, pc, signals, notified, done, registered, idling, asked>>

WakeNotify(w) ==
    /\ wpc[w] = "notify"
    /\ notified' = TRUE
    /\ wpc' = [wpc EXCEPT ![w] = "no"]
    /\ UNCHANGED <<call, timed, pc, signals, done, registered, idling, asked>>

\* Variant: the notification comes before the flag.
WakeReversed(w) ==
    \/ /\ wpc[w] = "store"
       /\ notified' = TRUE
       /\ wpc' = [wpc EXCEPT ![w] = "notify"]
       /\ UNCHANGED <<call, timed, pc, signals, done, registered, idling, asked>>
    \/ /\ wpc[w] = "notify"
       /\ future_ready' = TRUE
       /\ wpc' = [wpc EXCEPT ![w] = "no"]
       /\ UNCHANGED <<call, timed, pc, stop, notified, done, registered, idling, asked>>

Wake(w) == WakeStore(w) \/ WakeNotify(w)

Next ==
    \/ Dispatch \/ Run \/ BlockOn
    \/ LoopStep \/ EventArrives \/ DispatchError
    \/ \E i \in Idles : InsertIdle(i) \/ Cancel(i)
    \/ Stop \/ Wakeup
    \/ \E w \in Wakers : DoWork(w) \/ WakeIdly(w) \/ Wake(w)

Spec == Init /\ [][Next]_vars

\* The loop's thread is scheduled, and so is a thread in wake(); callbacks
\* return.  Nobody need call anything, no event need arrive.
FairSpec ==
    /\ Spec
    /\ WF_vars(LoopStep)
    /\ \A w \in Wakers : WF_vars(Wake(w))

----------------------------------------------------------------------------
\* Properties

\* Every variable keeps its type; an idle waits in at most one list.
TypeOK ==
    /\ call \in Calls /\ timed \in BOOLEAN /\ pc \in Phases
    /\ stop \in BOOLEAN /\ future_ready \in BOOLEAN /\ notified \in BOOLEAN
    /\ done \in 0 .. Work /\ registered \in BOOLEAN
    /\ wpc \in [Wakers -> {"no", "store", "notify"}]
    /\ idles \in Seq(Idles) /\ batch \in Seq(Idles) /\ IsInjective(batch \o idles)
    /\ cancelled \subseteq ToSet(batch \o idles)
    /\ asked \in {"no", "stop", "wakeup"}

\* block_on never waits past a wake: if the future was woken or could make
\* progress, the wait is or will be notified, whenever the wake came between the check of
\* the flag and the wait.
WakeIsSeen ==
    call = "block_on" /\ pc = "wait" /\ (future_ready \/ ~registered) =>
        notified \/ \E w \in Wakers : wpc[w] # "no"

\* A loop asked to stop and then woken up, at any point of run or block_on,
\* does not go on to wait.
StopIsSeen == call \in {"run", "block_on"} /\ pc = "wait" /\ asked = "wakeup" => notified

\* block_on returns once the work of its future is done, though no event of
\* any source ever arrives.
BlockOnReturns == call = "block_on" /\ done = Work ~> call # "block_on"

\* An idle that was inserted is called or was cancelled: an error of the
\* dispatch before it, or a cancelled idle in front of it, does not lose it.
NoIdleIsLost ==
    [][\A i \in Idles : Waiting(i) /\ ~Waiting(i)' =>
            i \in cancelled \/ (i = Head(batch) /\ pc' = "idle")]_vars
=============================================================================
