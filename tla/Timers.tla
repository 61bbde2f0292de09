------------------------------ MODULE Timers ------------------------------
(***************************************************************************)
(* Timers (sources/timer.rs): the heap of registered deadlines that the    *)
(* poll of the loop empties into its batch (sys.rs), the Timer source, and *)
(* the futures that a Timer wakes (TimeoutFuture).                         *)
(*                                                                         *)
(* The loop and its handle are those of module EventLoop, reduced to what  *)
(* timers see: all of it runs on one thread, and time passes anywhere.     *)
(* Other sources appear only as what they do to a batch: an event that     *)
(* ends the wait early, an error that throws the rest of the batch away.   *)
(*                                                                         *)
(* A timer removed from the loop and inserted again has a new token; one   *)
(* that is disabled, enabled or updated keeps its token.  enable does not  *)
(* ask whether the timer is disabled.                                      *)
(***************************************************************************)
EXTENDS Integers, Sequences, FiniteSets, Bags, Functions

CONSTANTS
    Timers,      \* the Timer sources
    Timeouts,    \* those that belong to a TimeoutFuture
    MaxTime,     \* bound: the last instant; every Instant is at most this
    MaxInserts,  \* bound: how often a timer is inserted
    MaxCounter,  \* bound: registrations; below 2^32, where the counter wraps
    None         \* no deadline (it overflowed), no registration, no timer

Instants == 0 .. MaxTime
Token    == [src : Timers, gen : 1 .. MaxInserts]
Counters == 0 .. MaxCounter
Entries  == [deadline : Instants, token : Token, counter : Counters]   \* TimeoutData

ASSUME ConstantsAssumption ==
    /\ IsFiniteSet(Timers) /\ Timeouts \subseteq Timers
    /\ MaxTime \in Nat /\ MaxInserts \in Nat \ {0} /\ MaxCounter \in Nat
    /\ None \notin Nat \cup Timers

VARIABLES
    now,           \* Instant::now()
    heap,          \* TimerWheel.heap: a bag, equal deadlines are in any order
    counter,       \* TimerWheel.counter
    deadline,      \* Timer.deadline
    registration,  \* Timer.registration, its counter
    place,         \* where each timer is
    gen,           \* which of a timer's tokens is the last
    pc,            \* where the loop is
    batch,         \* tokens of the timer events not yet looked at
    running,       \* the timer whose callback runs, or None
    pending,       \* LoopInner.pending_action
    future,        \* what the last poll of each TimeoutFuture led to
    target,        \* history: the deadline of the last registration
    rearmed,       \* history: registered again with an event in the batch
    doubled,       \* history: enabled while it was enabled, under its last token
    silent         \* history: an expiry passed without a callback

timer  == <<deadline, registration, place, gen>>
wheel  == <<heap, counter>>
cycle  == <<pc, batch, running>>
trace  == <<target, rearmed, doubled, silent>>
vars   == <<now, wheel, timer, cycle, pending, future, trace>>

Places  == {"user", "enabled", "disabled"}
Phases  == {"idle", "wait", "others", "dispatch", "callback"}
    \* others: callbacks of other sources, whose events come before the timers'
    \* dispatch: between the events of timers; callback: in the callback of one
Futures == {
    "new",      \* never polled
    "waiting",  \* polled, its waker is stored
    "never",    \* polled without a deadline: nobody will wake it
    "woken",    \* its waker was woken
    "ready"}    \* resolved

Init ==
    /\ now = 0 /\ heap = EmptyBag /\ counter = 0
    /\ deadline \in [Timers -> Instants \cup {None}]
    /\ registration = [t \in Timers |-> None]
    /\ place = [t \in Timers |-> "user"] /\ gen = [t \in Timers |-> 0]
    /\ pc = "idle" /\ batch = <<>> /\ running = None /\ pending = "Continue"
    /\ future = [t \in Timeouts |-> "new"]
    /\ target = deadline /\ rearmed = {} /\ doubled = {} /\ silent = {}

----------------------------------------------------------------------------
\* The heap

Top(h) == {e \in BagToSet(h) : \A f \in BagToSet(h) : e.deadline <= f.deadline}

next_deadline == (CHOOSE e \in Top(heap) : TRUE).deadline

Push(h, token, d, c) == h (+) SetToBag({[deadline |-> d, token |-> token, counter |-> c]})

PoppedIf(h, c) == {h (-) SetToBag({e}) : e \in {x \in Top(h) : x.counter = c}}
OtherOnTop(h, c) == h = EmptyBag \/ \E e \in Top(h) : e.counter # c

\* Variant: only an entry at the top is cancelled.
CancelTop(h, c) == PoppedIf(h, c) \cup {g \in {h} : OtherOnTop(h, c)}

\* One entry if it is at the top, else all those of the counter.
Cancel(h, c) ==
    PoppedIf(h, c)
    \cup {g \in {Restrict(h, {e \in BagToSet(h) : e.counter # c})} : OtherOnTop(h, c)}

\* Variant: the heap is emptied one instant too far.
ExpiredSoon == Restrict(heap, {e \in BagToSet(heap) : e.deadline <= now + 1})

\* next_expired until there is none: the expired entries, earliest first
Expired == Restrict(heap, {e \in BagToSet(heap) : e.deadline <= now})

Copies(b) == UNION {{e} \X (1 .. b[e]) : e \in BagToSet(b)}

Orders(b) ==
    {q \in [1 .. Cardinality(Copies(b)) -> BagToSet(b)] :
        /\ \A e \in BagToSet(b) : Cardinality({i \in DOMAIN q : q[i] = e}) = b[e]
        /\ \A i, j \in DOMAIN q : i < j => q[i].deadline <= q[j].deadline}

----------------------------------------------------------------------------
\* Timer as an event source.  Each gives the new heap, registration, counter.

Current(t) == [src |-> t, gen |-> gen[t]]
InBatch(t) == \E i \in DOMAIN batch : batch[i] = Current(t)

Now(t) == [heap |-> heap, reg |-> registration[t], counter |-> counter, due |-> target[t]]

\* A timer without a deadline registers nothing.
Register(token, d, w) ==
    IF d = None THEN w
    ELSE [heap |-> Push(w.heap, token, d, w.counter), reg |-> w.counter,
          counter |-> w.counter + 1, due |-> d]

Unregister(w) ==
    IF w.reg = None THEN {w}
    ELSE {[w EXCEPT !.heap = h, !.reg = None] : h \in Cancel(w.heap, w.reg)}

Reregister(token, d, w) == {Register(token, d, v) : v \in Unregister(w)}

Becomes(t, w) ==
    /\ w.counter <= MaxCounter
    /\ heap' = w.heap /\ counter' = w.counter
    /\ registration' = [registration EXCEPT ![t] = w.reg]
    /\ target' = [target EXCEPT ![t] = w.due]

\* Registered anew; an event that is already in the batch stays there.
Armed(t) ==
    /\ rearmed' = IF InBatch(t) THEN rearmed \cup {t} ELSE rearmed
    /\ silent' = silent \ {t}

----------------------------------------------------------------------------
\* The user: between dispatches and in callbacks.  The timer of a TimeoutFuture
\* is inserted when it is made, cannot be reached after that, and its callback
\* only wakes.

UserCode == pc \in {"idle", "others"} \/ (pc = "callback" /\ running \notin Timeouts)
Free(t)  == UserCode /\ running # t
Mine(t)  == Free(t) /\ t \notin Timeouts

\* set_deadline, and set_duration which may overflow
SetDeadline(t, d) ==
    /\ Mine(t) /\ deadline[t] # d
    /\ deadline' = [deadline EXCEPT ![t] = d]
    /\ UNCHANGED <<now, wheel, registration, place, gen, cycle, pending, future, trace>>

Insert(t) ==
    /\ Free(t) /\ place[t] = "user" /\ gen[t] < IF t \in Timeouts THEN 1 ELSE MaxInserts
    /\ place' = [place EXCEPT ![t] = "enabled"]
    /\ gen' = [gen EXCEPT ![t] = @ + 1]
    /\ Becomes(t, Register([src |-> t, gen |-> gen[t] + 1], deadline[t], Now(t)))
    /\ rearmed' = rearmed \ {t} /\ silent' = silent \ {t} /\ doubled' = doubled \ {t}
    /\ UNCHANGED <<now, deadline, cycle, pending, future>>

\* An enabled one is registered once more: its entry stays in the heap, under a
\* counter that the timer has forgotten.
Enable(t) ==
    /\ Mine(t) /\ place[t] # "user"
    /\ place' = [place EXCEPT ![t] = "enabled"]
    /\ Becomes(t, Register(Current(t), deadline[t], Now(t)))
    /\ IF deadline[t] = None THEN UNCHANGED <<rearmed, silent>> ELSE Armed(t)
    /\ doubled' = IF place[t] = "enabled" THEN doubled \cup {t} ELSE doubled
    /\ UNCHANGED <<now, deadline, gen, cycle, pending, future>>

Update(t) ==
    /\ Mine(t) /\ place[t] # "user"
    /\ place' = [place EXCEPT ![t] = "enabled"]
    /\ \E w \in Reregister(Current(t), deadline[t], Now(t)) : Becomes(t, w)
    /\ Armed(t)
    /\ UNCHANGED <<now, deadline, gen, cycle, pending, future, doubled>>

Disable(t) ==
    /\ Mine(t) /\ place[t] # "user"
    /\ place' = [place EXCEPT ![t] = "disabled"]
    /\ \E w \in Unregister(Now(t)) : Becomes(t, w)
    /\ UNCHANGED <<now, deadline, gen, cycle, pending, future, rearmed, doubled, silent>>

Remove(t) ==
    /\ Mine(t) /\ place[t] # "user"
    /\ place' = [place EXCEPT ![t] = "user"]
    /\ \E w \in Unregister(Now(t)) : Becomes(t, w)
    /\ UNCHANGED <<now, deadline, gen, cycle, pending, future, rearmed, doubled, silent>>

\* The same of the running timer: stored, or left to the end of its callback
Defer(action) ==
    /\ pc = "callback" /\ running \notin Timeouts /\ place[running] # "user"
    /\ pending' = action
    /\ UNCHANGED <<now, wheel, timer, cycle, future, trace>>

RemoveSelf ==
    /\ pc = "callback" /\ running \notin Timeouts /\ place[running] # "user"
    /\ place' = [place EXCEPT ![running] = "user"]
    /\ UNCHANGED <<now, wheel, deadline, registration, gen, cycle, pending, future, trace>>

PollFuture(t) ==
    /\ UserCode /\ gen[t] = 1 /\ future[t] \in {"new", "waiting", "woken"}
    /\ future' = [future EXCEPT ![t] = IF deadline[t] = None THEN "never"
                                       ELSE IF now >= deadline[t] THEN "ready"
                                       ELSE "waiting"]
    /\ UNCHANGED <<now, wheel, timer, cycle, pending, trace>>

----------------------------------------------------------------------------
\* One dispatch

StartWait ==
    /\ pc = "idle"
    /\ pc' = "wait"
    /\ UNCHANGED <<now, wheel, timer, batch, running, pending, future, trace>>

\* Poll::poll after the wait
PopExpired ==
    /\ \E q \in Orders(Expired) : batch' = [i \in DOMAIN q |-> q[i].token]
    /\ heap' = heap (-) Expired
    /\ pc' = "others"
    /\ UNCHANGED <<now, counter, timer, running, pending, future, trace>>

\* Variant: the poll has no timeout of its own.
WaitWithoutDeadline == FALSE

\* The wait lasts until the first deadline at most.
DeadlineReached == heap # EmptyBag /\ next_deadline <= now

WaitExpires == pc = "wait" /\ DeadlineReached /\ PopExpired

\* The caller's timeout or another source ends it.
WaitInterrupted == pc = "wait" /\ PopExpired

OthersDone ==
    /\ pc = "others"
    /\ pc' = "dispatch"
    /\ UNCHANGED <<now, wheel, timer, batch, running, pending, future, trace>>

Resolves(e) == place[e.src] # "user" /\ gen[e.src] = e.gen

\* Timer::process_events calls back only with a registration and a deadline;
\* an event whose source is gone goes nowhere.
Fires(t) == registration[t] # None /\ deadline[t] # None

SkipEvent ==
    LET e == Head(batch) IN
    /\ pc = "dispatch" /\ batch # <<>> /\ ~(Resolves(e) /\ Fires(e.src))
    /\ batch' = Tail(batch)
    /\ silent' = IF Resolves(e) THEN silent \cup {e.src} ELSE silent
    /\ UNCHANGED <<now, wheel, timer, pc, running, pending, future, target, rearmed, doubled>>

BeginCallback ==
    LET e == Head(batch) IN
    /\ pc = "dispatch" /\ batch # <<>> /\ Resolves(e) /\ Fires(e.src)
    /\ batch' = Tail(batch) /\ running' = e.src /\ pc' = "callback"
    /\ future' = [t \in Timeouts |->
                    IF t = e.src /\ future[t] = "waiting" THEN "woken" ELSE future[t]]
    /\ UNCHANGED <<now, wheel, timer, pending, trace>>

CallbackEnds == pc' = "dispatch" /\ running' = None /\ pending' = "Continue"
                /\ UNCHANGED <<now, gen, batch, future, doubled>>

\* TimeoutAction::Drop, and ToDuration when it overflows (overflowed): Remove
ReturnDrop(overflowed) ==
    LET t == running IN
    /\ pc = "callback" /\ (t \in Timeouts => ~overflowed)
    /\ deadline' = IF overflowed THEN [deadline EXCEPT ![t] = None] ELSE deadline
    /\ place' = [place EXCEPT ![t] = "user"]
    /\ \E w \in Unregister(Now(t)) : Becomes(t, w)
    /\ UNCHANGED <<rearmed, silent>>
    /\ CallbackEnds

\* Variant: the timer is inserted under a new counter, its own stays the old.
NewCounter(t) == counter

ReusedCounter(t) == registration[t]

\* ToInstant or ToDuration: insert_reuse, then the pending action, then the
\* end of a removal
ReturnAgain(d) ==
    LET t == running
        w == [Now(t) EXCEPT !.heap = Push(heap, Current(t), d, ReusedCounter(t)), !.due = d]
        after == CASE pending = "Reregister" -> Reregister(Current(t), d, w)
                   [] pending = "Disable"    -> Unregister(w)
                   [] OTHER                  -> {w}
        gone == place[t] = "user"
    IN  /\ pc = "callback" /\ t \notin Timeouts
        /\ deadline' = [deadline EXCEPT ![t] = d]
        /\ place' = IF ~gone /\ pending # "Continue"
                    THEN [place EXCEPT ![t] = IF pending = "Disable" THEN "disabled" ELSE "enabled"]
                    ELSE place
        /\ \E v \in after : \E u \in IF gone THEN Unregister(v) ELSE {v} : Becomes(t, u)
        /\ Armed(t)
        /\ CallbackEnds

EndDispatch ==
    /\ pc = "dispatch" /\ batch = <<>>
    /\ pc' = "idle"
    /\ UNCHANGED <<now, wheel, timer, batch, running, pending, future, trace>>

\* process_events of another source, or of one made from a timer, failed: the
\* rest of the batch is gone.
DispatchError ==
    /\ pc \in {"others", "dispatch"} /\ batch # <<>>
    /\ pc' = "idle" /\ batch' = <<>>
    /\ silent' = silent \cup {t \in Timers : InBatch(t)}
    /\ UNCHANGED <<now, wheel, timer, running, pending, future, target, rearmed, doubled>>

Tick ==
    /\ now < MaxTime
    /\ now' = now + 1
    /\ UNCHANGED <<wheel, timer, cycle, pending, future, trace>>

----------------------------------------------------------------------------
UserStep ==
    \/ \E t \in Timers : \/ \E d \in Instants \cup {None} : SetDeadline(t, d)
                         \/ Insert(t) \/ Enable(t) \/ Update(t) \/ Disable(t) \/ Remove(t)
    \/ Defer("Reregister") \/ Defer("Disable") \/ RemoveSelf
    \/ \E t \in Timeouts : PollFuture(t)

Return == \/ \E o \in BOOLEAN : ReturnDrop(o)
          \/ \E d \in Instants : ReturnAgain(d)

LoopStep == StartWait \/ WaitExpires \/ OthersDone \/ SkipEvent \/ BeginCallback \/ Return \/ EndDispatch

Next == UserStep \/ LoopStep \/ WaitInterrupted \/ DispatchError \/ Tick

Spec == Init /\ [][Next]_vars

\* The loop is dispatched again and again and callbacks return; time passes.
FairSpec == Spec /\ WF_vars(LoopStep) /\ WF_vars(Tick)

----------------------------------------------------------------------------
\* Properties

\* Every variable keeps its type.
TypeOK ==
    /\ now \in Instants
    /\ IsABag(heap) /\ BagToSet(heap) \subseteq Entries /\ counter \in Counters
    /\ deadline \in [Timers -> Instants \cup {None}]
    /\ registration \in [Timers -> Counters \cup {None}]
    /\ place \in [Timers -> Places] /\ gen \in [Timers -> 0 .. MaxInserts]
    /\ pc \in Phases /\ batch \in Seq(Token) /\ running \in Timers \cup {None}
    /\ pending \in {"Continue", "Reregister", "Disable"}
    /\ future \in [Timeouts -> Futures]
    /\ target \in [Timers -> Instants \cup {None}]
    /\ rearmed \subseteq Timers /\ doubled \subseteq Timers /\ silent \subseteq Timers

\* Timers that may be due twice: registered again while their expiry was waiting
\* in the batch, or enabled while they were enabled.
Excused == rearmed \cup doubled

EntriesOf(t) == {e \in BagToSet(heap) : e.token = Current(t)}

\* A registered timer is in the heap under its counter, or its expiry is in
\* the batch or in its callback: rescheduling, updating and disabling it in
\* any callback never lose it.
RegisteredTimersArePending ==
    \A t \in Timers : registration[t] # None /\ t \notin silent =>
        (\E e \in EntriesOf(t) : e.counter = registration[t]) \/ InBatch(t) \/ running = t

\* A disabled or removed timer leaves nothing behind that could fire it, and
\* an enabled one fires once per deadline; unless it is excused.
OneExpiryPerTimer ==
    \A t \in Timers \ Excused :
        /\ \A e \in EntriesOf(t) : heap[e] = 1 /\ e.counter = registration[t]
        /\ Cardinality(EntriesOf(t)) <= 1
        /\ InBatch(t) => EntriesOf(t) = {}

\* The callback of a timer runs once its deadline is reached
\* ("will fire its event after a certain amount of time specified at creation"),
\* if it was enabled only while it was disabled, as enable's documentation has it.
NeverEarly ==
    [][BeginCallback => Head(batch).src \in doubled \/ now >= target[Head(batch).src]]_vars

\* The same for timers that are not excused.
NeverEarlyUnlessExcused ==
    [][BeginCallback => Head(batch).src \in Excused \/ now >= target[Head(batch).src]]_vars

Serviced(t) == running = t \/ place[t] # "enabled" \/ t \in silent \/ deadline[t] = None

\* A timer that stays enabled fires although no other source has an event:
\* the poll never outsleeps a deadline.
TimersFire == \A t \in Timers : registration[t] # None ~> Serviced(t)

=============================================================================
