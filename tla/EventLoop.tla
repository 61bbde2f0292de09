---------------------------- MODULE EventLoop ----------------------------
(***************************************************************************)
(* The event loop of calloop: the slab of event sources (list.rs), the     *)
(* handle's operations on it (loop_logic.rs, LoopHandle), their effect on  *)
(* the poller and on the list of sources with lifecycle hooks              *)
(* (sources/mod.rs), and one dispatch cycle (loop_logic.rs,                *)
(* dispatch_events): the before_sleep walk, the poll, the                  *)
(* before_handle_events walk, then one event after the other.              *)
(*                                                                         *)
(* The loop is single threaded.  User code runs between two dispatches and *)
(* inside the callback of the running source; it may call any operation of *)
(* the handle there, with any registration token it was ever given.        *)
(*                                                                         *)
(* An event source is a Generic (one file descriptor, sources/generic.rs), *)
(* possibly wrapped by a user type that has lifecycle hooks; the user keeps *)
(* its Dispatcher, so a removed source may be inserted again.  Sub-ids and *)
(* readiness are abstracted: a source has one registration.                *)
(***************************************************************************)
EXTENDS Integers, Sequences, FiniteSets, Retain

CONSTANTS
    Sources,        \* the event sources (dispatchers)
    Lifecycle,      \* those with NEEDS_EXTRA_LIFECYCLE_EVENTS
    Faulty,         \* those whose register, reregister, unregister may fail
    Erring,         \* those whose process_events, before_sleep may fail
    Interruptible,  \* may a poll end with an error or past its timeout?
    VersionMod,     \* 2 ^ BITS_VERSION, the number of slot versions
    MaxReuse,       \* bound: how often one slot is filled
    MaxHooks,       \* bound: length of the lifecycle list
    MaxSynthetic,   \* bound: length of the list of synthetic events
    None            \* no source, no token

Token == [id : Nat \ {0}, version : 0 .. VersionMod - 1]
Event == [tok : Token, src : Sources]                     \* src: whose event it is
Run   == [tok : Token, src : Sources, polled : Sources]   \* src: whose callback runs

ASSUME ConstantsAssumption ==
    /\ Lifecycle \subseteq Sources /\ Faulty \subseteq Sources /\ Erring \subseteq Sources
    /\ IsFiniteSet(Sources)
    /\ Interruptible \in BOOLEAN
    /\ VersionMod \in Nat \ {0} /\ MaxReuse \in Nat \ {0}
    /\ MaxHooks \in Nat /\ MaxSynthetic \in Nat
    /\ None \notin Sources \cup Token \cup Run

VARIABLES
    slots,      \* SourceList.sources: version and source of every slot
    reg,        \* the poller's key for each source's fd = Generic.token
    lifecycle,  \* AdditionalLifecycleEventsSet.values
    pending,    \* LoopInner.pending_action
    synthetic,  \* EventLoop.synthetic_events
    queue,      \* the events of this dispatch not yet looked at
    running,    \* the event whose callback is running, or None
    pc,         \* where the loop is
    hook,       \* next position of a walk over the lifecycle list
    slept,      \* history: sources between before_sleep and before_handle_events
    issued      \* history: the registration tokens given out, with their source

registry == <<slots, reg, lifecycle, issued>>
cycle    == <<synthetic, queue, running, pc, hook, slept>>
vars     == <<registry, pending, cycle>>

PostAction == {"Continue", "Reregister", "Disable", "Remove"}
Slot       == [version : 0 .. VersionMod - 1, source : Sources \cup {None},
               uses : 1 .. MaxReuse]
Phases     == {"idle", "sleep", "wake", "dispatch", "callback", "panicked"}

TypeOK ==
    /\ slots \in Seq(Slot)
    /\ reg \in [Sources -> Token \cup {None}]
    /\ lifecycle \in Seq(Token)
    /\ pending \in PostAction
    /\ synthetic \in Seq(Event)
    /\ queue \in Seq(Event)
    /\ running \in Run \cup {None}
    /\ pc \in Phases
    /\ hook \in Nat \ {0}
    /\ slept \subseteq Sources
    /\ issued \subseteq Event

Init ==
    /\ slots = <<>> /\ reg = [s \in Sources |-> None] /\ lifecycle = <<>>
    /\ pending = "Continue"
    /\ synthetic = <<>> /\ queue = <<>> /\ running = None
    /\ pc = "idle" /\ hook = 1
    /\ slept = {} /\ issued = {}

----------------------------------------------------------------------------
(* The slab of sources.                                                    *)

SameVersion(slot, t) == slot.version = t.version

\* The source a token stands for: a stale token and an empty slot both give None.
Lookup(sl, t) ==
    IF t.id \in DOMAIN sl /\ SameVersion(sl[t.id], t) THEN sl[t.id].source ELSE None

Get(t) == Lookup(slots, t)

Present(s) == \E i \in DOMAIN slots : slots[i].source = s

\* Variant: the version of a reused slot is not incremented.
NextVersionStuck(v) == v

NextVersion(v) == (v + 1) % VersionMod

\* The first slot without a source, or a new one at the end.
IsVacantEntry(id) ==
    /\ id \in 1 .. Len(slots) + 1
    /\ \A j \in 1 .. id - 1 : slots[j].source # None
    /\ id \in DOMAIN slots => slots[id].source = None

\* Variant: the id is the length before the push, less one.
EntryTokenBefore(id) ==
    [id |-> id - 1,
     version |-> IF id \in DOMAIN slots THEN NextVersion(slots[id].version) ELSE 0]

EntryToken(id) ==
    [id |-> id, version |-> IF id \in DOMAIN slots THEN NextVersion(slots[id].version) ELSE 0]

EntryUses(id) == IF id \in DOMAIN slots THEN slots[id].uses + 1 ELSE 1

FillEntry(t, s) ==
    LET entry == [version |-> t.version, source |-> s, uses |-> EntryUses(t.id)]
    IN  IF t.id \in DOMAIN slots THEN [slots EXCEPT ![t.id] = entry] ELSE Append(slots, entry)

Vacate(sl, t) == IF Lookup(sl, t) = None THEN sl ELSE [sl EXCEPT ![t.id].source = None]

----------------------------------------------------------------------------
(* What a dispatcher's register, reregister and unregister may do to the   *)
(* poller and to the lifecycle list: the set of outcomes, successful (ok)  *)
(* or not.  Adding a file descriptor twice, or modifying or deleting one   *)
(* that is not there, fails.                                               *)

Now == [ok |-> TRUE, reg |-> reg, hooks |-> lifecycle]

WithHook(s, t, hooks) == IF s \in Lifecycle THEN Append(hooks, t) ELSE hooks

\* Variant: only the first entry of the source is removed.
WithoutFirstHook(s, t, hooks) == IF s \in Lifecycle THEN WithoutFirst(hooks, t) ELSE hooks

WithoutHook(s, t, hooks) == IF s \in Lifecycle THEN Without(hooks, t) ELSE hooks

\* `fits`: the file descriptor is in the state the poller requires.
Outcomes(s, fits, done, failed) ==
    {w \in {done, failed} : IF w.ok THEN fits ELSE ~fits \/ s \in Faulty}

\* The lifecycle list is extended first, whether the registration succeeds or not.
Register(s, t, w) ==
    LET hooks == WithHook(s, t, w.hooks) IN
    Outcomes(s, w.reg[s] = None,
             [ok |-> TRUE,  reg |-> [w.reg EXCEPT ![s] = t], hooks |-> hooks],
             [ok |-> FALSE, reg |-> w.reg, hooks |-> hooks])

Reregister(s, t, w) ==
    Outcomes(s, w.reg[s] # None,
             [ok |-> TRUE,  reg |-> [w.reg EXCEPT ![s] = t], hooks |-> WithHook(s, t, w.hooks)],
             [ok |-> FALSE, reg |-> w.reg, hooks |-> w.hooks])

\* A failure leaves the source's hooks in the list.
Unregister(s, t, w) ==
    Outcomes(s, w.reg[s] # None,
             [ok |-> TRUE,  reg |-> [w.reg EXCEPT ![s] = None],
              hooks |-> WithoutHook(s, t, w.hooks)],
             [ok |-> FALSE, reg |-> w.reg, hooks |-> w.hooks])

Becomes(w) == reg' = w.reg /\ lifecycle' = w.hooks

----------------------------------------------------------------------------
(* The operations of LoopHandle.  They run between dispatches and in       *)
(* callbacks; the dispatcher of the running source is borrowed there.      *)

UserCode    == pc \in {"idle", "callback"}
Borrowed(s) == pc = "callback" /\ running.src = s
RoomFor(s)  == s \in Lifecycle => Len(lifecycle) < MaxHooks

\* insert_source owns the source, so it is in no other slot.
Insert(s) ==
    /\ UserCode /\ ~Present(s) /\ ~Borrowed(s) /\ RoomFor(s)
    /\ \E id \in 1 .. Len(slots) + 1 :
        /\ IsVacantEntry(id)
        /\ EntryUses(id) <= MaxReuse
        /\ LET t == EntryToken(id) IN
           \E w \in Register(s, t, Now) :
              /\ slots' = FillEntry(t, IF w.ok THEN s ELSE None)
              /\ issued' = IF w.ok THEN issued \cup {[tok |-> t, src |-> s]} ELSE issued
              /\ Becomes(w)
    /\ UNCHANGED <<pending, cycle>>

\* Enabling the running source panics (documented), so no caller does it.
Enable(t) ==
    LET s == Get(t) IN
    /\ UserCode /\ s # None /\ ~Borrowed(s) /\ RoomFor(s)
    /\ \E w \in Register(s, t, Now) : Becomes(w)
    /\ UNCHANGED <<slots, issued, pending, cycle>>

UpdateNow(t) ==
    LET s == Get(t) IN
    /\ UserCode /\ s # None /\ ~Borrowed(s) /\ RoomFor(s)
    /\ \E w \in Reregister(s, t, Now) : Becomes(w)
    /\ UNCHANGED <<slots, issued, pending, cycle>>

DisableNow(t) ==
    LET s == Get(t) IN
    /\ UserCode /\ s # None /\ ~Borrowed(s)
    /\ \E w \in Unregister(s, t, Now) : Becomes(w)
    /\ UNCHANGED <<slots, issued, pending, cycle>>

\* update and disable of the running source are stored for its callback's end.
Defer(t, action) ==
    /\ UserCode /\ Get(t) # None /\ Borrowed(Get(t))
    /\ pending' = action
    /\ UNCHANGED <<registry, cycle>>

Update(t)  == UpdateNow(t)  \/ Defer(t, "Reregister")
Disable(t) == DisableNow(t) \/ Defer(t, "Disable")

Remove(t) ==
    LET s == Get(t) IN
    /\ UserCode /\ s # None
    /\ slots' = Vacate(slots, t)
    /\ \E w \in IF Borrowed(s) THEN {Now} ELSE Unregister(s, t, Now) : Becomes(w)
    /\ UNCHANGED <<issued, pending, cycle>>

UserStep ==
    \/ \E s \in Sources : Insert(s)
    \/ \E i \in issued : Enable(i.tok)
    \/ \E i \in issued : Update(i.tok)
    \/ \E i \in issued : Disable(i.tok)
    \/ \E i \in issued : Remove(i.tok)

----------------------------------------------------------------------------
(* One dispatch.                                                           *)

GoIdle == pc' = "idle" /\ hook' = 1 /\ queue' = <<>> /\ running' = None

StartDispatch ==
    /\ pc = "idle"
    /\ pc' = "sleep" /\ hook' = 1
    /\ UNCHANGED <<registry, pending, synthetic, queue, running, slept>>

Walking(phase) == pc = phase /\ hook \in DOMAIN lifecycle
Walked(phase)  == pc = phase /\ hook = Len(lifecycle) + 1

\* A token of the list without a source: unreachable!() in the code.
BeforeSleep ==
    LET s == Get(lifecycle[hook]) IN
    /\ Walking("sleep")
    /\ IF s = None
       THEN pc' = "panicked" /\ UNCHANGED <<hook, slept>>
       ELSE hook' = hook + 1 /\ slept' = slept \cup {s} /\ UNCHANGED pc
    /\ UNCHANGED <<registry, pending, synthetic, queue, running>>

\* before_sleep returned Ok(Some(..)), with the source's own token.
BeforeSleepWithEvent ==
    LET s == Get(lifecycle[hook]) IN
    /\ Walking("sleep") /\ s # None /\ reg[s] # None
    /\ Len(synthetic) < MaxSynthetic
    /\ synthetic' = Append(synthetic, [tok |-> reg[s], src |-> s])
    /\ hook' = hook + 1 /\ slept' = slept \cup {s}
    /\ UNCHANGED <<registry, pending, queue, running, pc>>

BeforeSleepError ==
    /\ Walking("sleep") /\ Get(lifecycle[hook]) \in Erring
    /\ GoIdle
    /\ UNCHANGED <<registry, pending, synthetic, slept>>

Registered == {s \in Sources : reg[s] # None}

\* What one poll may return: ready sources, each once, in any order.
Batches ==
    {[i \in DOMAIN b |-> [tok |-> reg[b[i]], src |-> b[i]]] :
        b \in {q \in UNION {[1 .. n -> Registered] : n \in 0 .. Cardinality(Registered)} :
                 \A i, j \in DOMAIN q : i # j => q[i] # q[j]}}

Poll ==
    /\ Walked("sleep")
    /\ queue' \in Batches
    /\ pc' = "wake" /\ hook' = 1
    /\ UNCHANGED <<registry, pending, synthetic, running, slept>>

\* A failing wait, or an interrupted one when the timeout has elapsed.
PollInterrupted ==
    /\ Walked("sleep") /\ Interruptible
    /\ GoIdle
    /\ UNCHANGED <<registry, pending, synthetic, slept>>

\* Variant: only the sources with a polled event are told that polling is over.
AwakeIfEvents(s) == IF \E i \in DOMAIN queue : queue[i].src = s THEN slept \ {s} ELSE slept

Awake(s) == slept \ {s}

\* Slots and list are what the first walk saw: its unreachable!() cannot recur.
BeforeHandleEvents ==
    LET s == Get(lifecycle[hook]) IN
    /\ Walking("wake") /\ s # None
    /\ hook' = hook + 1 /\ slept' = Awake(s)
    /\ UNCHANGED <<registry, pending, synthetic, queue, running, pc>>

StartEvents ==
    /\ Walked("wake")
    /\ queue' = synthetic \o queue /\ synthetic' = <<>>
    /\ pc' = "dispatch" /\ hook' = 1
    /\ UNCHANGED <<registry, pending, running, slept>>

\* Variant: an event without a source ends the loop over the events.
NoneAfterStale(q) == <<>>

AfterStale(q) == Tail(q)

\* The slot is vacant or reused: a warning is logged.
StaleEvent ==
    /\ pc = "dispatch" /\ queue # <<>> /\ Get(Head(queue).tok) = None
    /\ queue' = AfterStale(queue)
    /\ UNCHANGED <<registry, pending, synthetic, running, pc, hook, slept>>

\* Variant: a source processes events whatever its registration.
AcceptsAny(s, t) == TRUE

\* Generic.process_events skips a token that is not its own.
Accepts(s, t) == reg[s] = t

BeginCallback ==
    LET e == Head(queue) IN
    /\ pc = "dispatch" /\ queue # <<>> /\ Get(e.tok) # None /\ Accepts(Get(e.tok), e.tok)
    /\ running' = [tok |-> e.tok, src |-> Get(e.tok), polled |-> e.src]
    /\ queue' = Tail(queue) /\ pc' = "callback"
    /\ UNCHANGED <<registry, pending, synthetic, hook, slept>>

\* Variant: the pending action is read and left in place.
PendingKept == pending

PendingTaken == "Continue"

\* Variant: a slot reused in the callback counts as still holding the source.
StillValidVacant(sl, t) ==
    t.id \in DOMAIN sl /\ SameVersion(sl[t.id], t) /\ sl[t.id].source = None

RemovedMeanwhile(sl, t) == Lookup(sl, t) = None

\* Variant: a pending action is dropped.
ReturnedOnly(ret) == ret

\* A pending action counts only if the source returned Continue.
Effective(ret) == IF ret = "Continue" THEN pending ELSE ret

(* What follows process_events: apply the source's post action, or the     *)
(* pending one if it is Continue, then finish a removal.  A failure of the *)
(* first leaves dispatch_events at once.                                   *)
Conclude(s, t, ret, rest) ==
    LET action == Effective(ret)
        after  == IF action = "Remove" THEN Vacate(slots, t) ELSE slots
        first  == CASE action = "Reregister" -> Reregister(s, t, Now)
                    [] action = "Disable"    -> Unregister(s, t, Now)
                    [] OTHER                 -> {Now}
    IN  /\ action = "Reregister" => RoomFor(s)
        /\ pending' = PendingTaken
        /\ slots' = after
        /\ \E w \in first :
             \/ ~w.ok /\ GoIdle /\ Becomes(w)
             \/ /\ w.ok
                /\ \E v \in IF RemovedMeanwhile(after, t) THEN Unregister(s, t, w) ELSE {w} :
                      Becomes(v)
                /\ pc' = "dispatch" /\ queue' = rest /\ running' = None /\ UNCHANGED hook
        /\ UNCHANGED <<issued, synthetic, slept>>

Return(ret) ==
    /\ pc = "callback"
    /\ Conclude(running.src, running.tok, ret, queue)

\* The source is there, but not registered under this token (any more).
SkipEvent ==
    LET e == Head(queue) IN
    /\ pc = "dispatch" /\ queue # <<>> /\ Get(e.tok) # None /\ ~Accepts(Get(e.tok), e.tok)
    /\ Conclude(Get(e.tok), e.tok, "Continue", Tail(queue))

CallbackError ==
    /\ pc = "callback" /\ running.src \in Erring
    /\ GoIdle
    /\ UNCHANGED <<registry, pending, synthetic, slept>>

EndDispatch ==
    /\ pc = "dispatch" /\ queue = <<>>
    /\ GoIdle
    /\ UNCHANGED <<registry, pending, synthetic, slept>>

\* The steps the loop takes by itself, once it has been called and has polled.
LoopStep ==
    \/ BeforeSleep \/ BeforeHandleEvents \/ StartEvents
    \/ StaleEvent \/ BeginCallback \/ SkipEvent \/ EndDispatch
    \/ \E ret \in PostAction : Return(ret)

Next ==
    \/ UserStep
    \/ StartDispatch \/ BeforeSleepWithEvent \/ BeforeSleepError
    \/ Poll \/ PollInterrupted \/ CallbackError
    \/ LoopStep

Spec == Init /\ [][Next]_vars

\* Callbacks return and the loop goes on; nobody has to call dispatch again.
FairSpec == Spec /\ WF_vars(LoopStep)

----------------------------------------------------------------------------
(* Properties.                                                             *)

\* A registration token resolves to the source it was given out for or to
\* nothing, whatever was removed and inserted since (token.rs, list.rs).
TokensResolveToTheirSource == \A i \in issued : Get(i.tok) \in {i.src, None}

\* The callback that runs is the one of the source the event was polled for,
\* although slots are reused while the batch is being dispatched.
EventsReachTheirSource == running # None => running.src = running.polled

\* Outside of its own callback, a source registered in the poller still has the
\* slot its key names: no removal forgets a registration.
RegistrationsAreOwned ==
    \A s \in Sources : reg[s] # None => Get(reg[s]) = s \/ Borrowed(s)

\* The lifecycle list names exactly the registered lifecycle sources: the
\* walks over it reach all of them and never a removed one.
HooksAreOfRegisteredSources ==
    /\ \A k \in DOMAIN lifecycle :
          \E s \in Lifecycle : /\ reg[s] = lifecycle[k]
                               /\ Get(lifecycle[k]) = s \/ Borrowed(s)
    /\ \A s \in Lifecycle : reg[s] # None => \E k \in DOMAIN lifecycle : lifecycle[k] = reg[s]

\* A request stored during a callback is applied when it ends: no other
\* source's callback finds it.
NothingPendingBetweenCallbacks == pending # "Continue" => pc = "callback"

\* While events are processed, every source told that a poll begins was also
\* told that it is over (sources/mod.rs, before_handle_events).
AllAwakeDuringEvents == pc \in {"dispatch", "callback"} => slept = {}

\* What the user has asked for a source, as the loop's state records it.
Status(s) ==
    IF ~Present(s) THEN "absent"
    ELSE IF Borrowed(s) THEN IF pending = "Disable" THEN "disabled" ELSE "enabled"
    ELSE IF reg[s] # None THEN "enabled" ELSE "disabled"

Active == IF pc = "callback" THEN running.src ELSE None

\* A callback that returns Continue leaves every source as the calls made in
\* the callback asked, its own source included.
ContinueKeepsRequests ==
    [][Return("Continue") => \A s \in Sources : Status(s)' = Status(s)]_vars

\* The loop implements the registry of sources its documentation describes.
Registry == INSTANCE SourceRegistry WITH status <- [s \in Sources |-> Status(s)],
                                         active <- Active

RefinesRegistry == Registry!Spec

Awaits(s) ==
    /\ pc \in {"wake", "dispatch", "callback"} /\ reg[s] # None /\ Get(reg[s]) = s
    /\ \E k \in DOMAIN queue : queue[k] = [tok |-> reg[s], src |-> s]

\* An event of the batch is processed, unless its source is disabled or removed
\* first; what the callbacks before it do to other sources cannot lose it.
BatchIsServed == \A s \in Sources : Awaits(s) ~> Borrowed(s) \/ Status(s) # "enabled"

\* The walks never meet a token whose source is gone (unreachable!()).
NeverPanics == pc # "panicked"

=============================================================================
