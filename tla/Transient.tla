---------------------------- MODULE Transient ----------------------------
(***************************************************************************)
(* TransientSource (sources/transient.rs): the state it keeps about an     *)
(* inner source that comes and goes, against what is registered in the     *)
(* poller.  It is a field of a parent source, which passes every call of   *)
(* the event loop on to it, may call remove() and replace() while it       *)
(* processes an event, and returns Reregister when it has to.              *)
(*                                                                         *)
(* The inner sources are registered as file descriptors are: registering   *)
(* one twice fails, changing or deleting one that is not registered fails. *)
(* (A Timer allows more: module Timers.)  Dropping a Generic deletes it    *)
(* from the poller, if the poller lets it; dropping a source of another    *)
(* type leaks its registration.  A dropped source may be made anew.        *)
(***************************************************************************)
EXTENDS Naturals, Sequences, FiniteSets, SequencesExt

CONSTANTS
    Inner,   \* the sources that may be wrapped
    Faulty,  \* those the poller may refuse to register, change or delete
    Leaky,   \* those that may stay registered when they are dropped
    None     \* no source; as an event: one of the parent's own

ASSUME ConstantsAssumption ==
    Faulty \subseteq Leaky /\ Leaky \subseteq Inner /\ IsFiniteSet(Inner) /\ None \notin Inner

VARIABLES
    tag,      \* the variant of TransientSourceState
    src,      \* the source in it (`new` of Replace)
    old,      \* `old` of Replace
    live,     \* the inner sources registered in the poller
    place,    \* where the parent is
    batch,    \* the events of this dispatch still to come: their source
    pc,       \* where the loop is
    post,     \* what the parent will return
    wish,     \* history: what was asked of the wrapped source
    settled,  \* history: did the loop's last call succeed, nothing asked since?
    spaced,   \* history: one change at a time (see LiveSourcesAreHeld)?
    careful,  \* history: has the use been careful (see CarefulUseNeverFails)?
    failed    \* history: has a call of the loop on the parent failed?

state   == <<tag, src, old, live>>
cycle   == <<batch, pc, post>>
history == <<wish, settled, spaced, careful, failed>>
vars    == <<state, place, cycle, history>>

Tags == {"Keep", "Register", "Disable", "Remove", "Replace", "None"}

TypeOK ==
    /\ tag \in Tags /\ live \subseteq Inner
    /\ src \in Inner \cup {None} /\ (src = None <=> tag = "None")
    /\ old \in Inner \cup {None} /\ (old = None <=> tag # "Replace")
    /\ place \in {"out", "loop", "disabled"}
    /\ batch \in Seq(Inner \cup {None})
    /\ pc \in {"idle", "dispatch", "child", "parent"} /\ post \in {"Continue", "Reregister"}
    /\ wish \in {"keep", "disabled", "gone"}
    /\ settled \in BOOLEAN /\ spaced \in BOOLEAN
    /\ careful \in BOOLEAN /\ failed \in BOOLEAN

\* From<T>, or Default
Init ==
    /\ \/ src \in Inner /\ tag = "Register" /\ wish = "keep"
       \/ src = None /\ tag = "None" /\ wish = "gone"
    /\ old = None /\ live = {} /\ place = "out"
    /\ batch = <<>> /\ pc = "idle" /\ post = "Continue"
    /\ settled = FALSE /\ spaced = TRUE /\ careful = TRUE /\ failed = FALSE

----------------------------------------------------------------------------
(* What a call does: the set of its outcomes, with the state they leave.   *)

Now == [ok |-> TRUE, fault |-> FALSE, tag |-> tag, src |-> src, old |-> old, live |-> live]

\* `fits`: the source is as the poller requires.
Attempt(w, s, fits, registered) ==
    {[w EXCEPT !.ok = b, !.fault = (fits /\ ~b), !.live = IF b THEN registered ELSE @] :
        b \in {b \in BOOLEAN : IF b THEN fits ELSE ~fits \/ s \in Faulty}}

Add(w, s)    == Attempt(w, s, s \notin w.live, w.live \cup {s})
Modify(w, s) == Attempt(w, s, s \in w.live, w.live)
Delete(w, s) == Attempt(w, s, s \in w.live, w.live \ {s})

AndThen(outcomes, F(_)) == UNION {IF w.ok THEN F(w) ELSE {w} : w \in outcomes}

\* The source's Drop
Dropped(w, s) ==
    {[w EXCEPT !.live = l] : l \in {w.live \ {s}} \cup {k \in {w.live} : s \in Leaky}}

\* replace_state: what the variant held besides the source is dropped.
ReplaceState(w, t) == {[v EXCEPT !.tag = t, !.old = None] : v \in Dropped(w, w.old)}
Empty(w)           == {[v EXCEPT !.tag = "None", !.src = None] : v \in Dropped(w, w.src)}
Keep(w)            == ReplaceState(w, "Keep")

\* Variant: the state does not change when the source is registered.
RegisteredStill ==
    CASE tag \in {"Keep", "Register", "Disable", "Replace"} -> Add(Now, src)
      [] tag = "Remove" -> Empty(Now)
      [] tag = "None"   -> {Now}

Registered ==
    CASE tag = "Keep"                               -> Add(Now, src)
      [] tag \in {"Register", "Disable", "Replace"} -> AndThen(Add(Now, src), Keep)
      [] tag = "Remove"                             -> Empty(Now)
      [] tag = "None"                               -> {Now}

\* Variant: a source that is to be removed is dropped as it is.
ReregisteredRemoved ==
    CASE tag = "Keep"     -> Modify(Now, src)
      [] tag = "Register" -> AndThen(Add(Now, src), Keep)
      [] tag = "Disable"  -> Delete(Now, src)
      [] tag = "Remove"   -> Empty(Now)
      [] tag = "Replace"  ->
            LET AddNew(w) == Add(w, src)
            IN  AndThen(AndThen(Delete(Now, old), AddNew), Keep)
      [] tag = "None"     -> {Now}

\* Variant: a source that is to be disabled stays registered.
ReregisteredDisabled ==
    CASE tag \in {"Keep", "Disable"} -> Modify(Now, src)
      [] tag = "Register" -> AndThen(Add(Now, src), Keep)
      [] tag = "Remove"   -> AndThen(Delete(Now, src), Empty)
      [] tag = "Replace"  ->
            LET AddNew(w) == Add(w, src)
            IN  AndThen(AndThen(Delete(Now, old), AddNew), Keep)
      [] tag = "None"     -> {Now}

Reregistered ==
    CASE tag = "Keep"     -> Modify(Now, src)
      [] tag = "Register" -> AndThen(Add(Now, src), Keep)
      [] tag = "Disable"  -> Delete(Now, src)
      [] tag = "Remove"   -> AndThen(Delete(Now, src), Empty)
      [] tag = "Replace"  ->
            LET AddNew(w) == Add(w, src)
            IN  AndThen(AndThen(Delete(Now, old), AddNew), Keep)
      [] tag = "None"     -> {Now}

Unregistered ==
    CASE tag \in {"Keep", "Register", "Disable"} -> Delete(Now, src)
      [] tag = "Remove"  -> AndThen(Delete(Now, src), Empty)
      [] tag = "Replace" ->
            LET DeleteNew(w)    == Delete(w, src)
                ToRegister(w) == ReplaceState(w, "Register")
            IN  AndThen(AndThen(Delete(Now, old), DeleteNew), ToRegister)
      [] tag = "None"    -> {Now}

Leaves(w) == tag' = w.tag /\ src' = w.src /\ old' = w.old /\ live' = w.live

\* The loop's call has the outcome w; `wise`: the call was careful.
Answered(w, wise) ==
    /\ Leaves(w)
    /\ settled' = w.ok
    /\ careful' = (careful /\ wise /\ ~w.fault)

----------------------------------------------------------------------------
(* Requests to the wrapper, by the parent in its callback or by its owner  *)
(* from outside of the loop, or in the callback of another source.         *)

Requests ==
    /\ pc \in {"idle", "dispatch", "parent"}
    /\ settled' = FALSE
    /\ post' = IF pc = "parent" THEN "Reregister" ELSE post
    /\ UNCHANGED <<place, batch, pc, failed>>

\* The wrapped source is one that the next reregister can unregister.
Timely == place = "loop" => src \in live

RequestRemove ==
    /\ tag # "None" /\ Requests
    /\ \E w \in ReplaceState(Now, "Remove") : Leaves(w)
    /\ wish' = "gone"
    /\ spaced' = (spaced /\ tag # "Replace") /\ careful' = (careful /\ Timely)

Fresh(new) == new \notin live \cup {src, old}

\* Without a source, the new one is dropped at once.
RequestReplace(new) ==
    /\ tag # "None" /\ Fresh(new) /\ Requests
    /\ \E w \in ReplaceState(Now, "Replace") : Leaves([w EXCEPT !.src = new, !.old = src])
    /\ wish' = "keep"
    /\ spaced' = (spaced /\ tag # "Replace") /\ careful' = (careful /\ Timely)

\* A new wrapper takes the place of this one: meant for one that is empty.
Assign(new) ==
    /\ Fresh(new) /\ Requests
    /\ \E v \in Dropped(Now, old) : \E w \in Dropped(v, src) :
          Leaves([w EXCEPT !.tag = "Register", !.src = new, !.old = None])
    /\ wish' = "keep"
    /\ spaced' = (spaced /\ (tag = "None" \/ place = "out"))
    /\ UNCHANGED careful

----------------------------------------------------------------------------
(* The loop's calls on the parent, from the handle.  None asks whether the *)
(* parent is disabled.                                                     *)

UserCode == pc \in {"idle", "dispatch"}

Reenabled == IF wish = "disabled" THEN "keep" ELSE wish

\* An insertion that fails takes the parent out again.
InsertParent ==
    /\ UserCode /\ place = "out"
    /\ \E w \in Registered :
        /\ Answered(w, TRUE)
        /\ place' = IF w.ok THEN "loop" ELSE "out"
        /\ failed' = (failed \/ ~w.ok)
        /\ wish' = IF w.ok THEN Reenabled ELSE wish
    /\ UNCHANGED <<cycle, spaced>>

\* In the loop, it is a way back for a source that has disabled itself.
EnableParent ==
    /\ UserCode /\ place # "out"
    /\ \E w \in Registered :
        /\ Answered(w, src \notin live)
        /\ place' = IF w.ok THEN "loop" ELSE place
        /\ failed' = (failed \/ ~w.ok)
        /\ wish' = IF w.ok THEN Reenabled ELSE wish
    /\ spaced' = (spaced /\ (place = "loop" => tag \notin {"Remove", "Replace"}))
    /\ UNCHANGED cycle

\* The source has disabled itself: reregister would unregister it again.
Quiet == tag = "Disable" /\ src \notin live

Reregisters ==
    \E w \in Reregistered :
        /\ Answered(w, place = "loop" /\ ~Quiet)
        /\ place' = IF w.ok THEN "loop" ELSE place
        /\ failed' = (failed \/ ~w.ok)

UpdateParent ==
    /\ UserCode /\ place # "out"
    /\ Reregisters
    /\ UNCHANGED <<cycle, wish, spaced>>

DisableParent ==
    /\ UserCode /\ place # "out"
    /\ \E w \in Unregistered :
        /\ Answered(w, place = "loop" /\ (tag = "None" \/ src \in live))
        /\ place' = IF w.ok THEN "disabled" ELSE place
        /\ failed' = (failed \/ ~w.ok)
    /\ UNCHANGED <<cycle, wish, spaced>>

\* A failure is only logged; the user has kept the parent's Dispatcher.
RemoveParent ==
    /\ UserCode /\ place # "out"
    /\ \E w \in Unregistered : Answered(w, TRUE) /\ spaced' = (spaced /\ ~w.fault)
    /\ place' = "out"
    /\ UNCHANGED <<cycle, failed, wish>>

UserStep ==
    \/ RequestRemove
    \/ \E new \in Inner : RequestReplace(new) \/ Assign(new)
    \/ InsertParent \/ EnableParent \/ UpdateParent \/ DisableParent \/ RemoveParent

----------------------------------------------------------------------------
(* One dispatch.                                                           *)

\* Registered inner sources and the parent's own, each at most once.
Poll ==
    /\ pc = "idle"
    /\ \E ready \in SUBSET (live \cup IF place = "loop" THEN {None} ELSE {}) :
          ready # {} /\ batch' \in SetToSeqs(ready)
    /\ pc' = "dispatch"
    /\ UNCHANGED <<state, place, post, history>>

\* Only a source that is kept is asked.
Processes == tag = "Keep"

\* The token of an event is the current source's whenever that is registered:
\* the factory numbers the parent's children from the start every time.
ChildEvent ==
    /\ pc = "dispatch" /\ batch # <<>> /\ Head(batch) # None /\ place # "out"
    /\ Processes /\ src \in live
    /\ pc' = "child" /\ batch' = Tail(batch)
    /\ UNCHANGED <<state, place, post, history>>

ChildReturns(ret) ==
    /\ pc = "child"
    /\ pc' = "parent"
    /\ post' = IF ret = "Continue" THEN "Continue" ELSE "Reregister"
    /\ IF ret \in {"Disable", "Remove"}
       THEN /\ \E w \in ReplaceState(Now, ret) : Leaves(w)
            /\ wish' = IF ret = "Disable" THEN "disabled" ELSE "gone"
            /\ settled' = FALSE
       ELSE UNCHANGED <<state, wish, settled>>
    /\ UNCHANGED <<place, batch, spaced, careful, failed>>

\* Its error leaves the dispatch.
ChildFails ==
    /\ pc = "child"
    /\ pc' = "idle" /\ batch' = <<>>
    /\ UNCHANGED <<state, place, post, history>>

\* The parent's own event, which may change its other sources as well, or one
\* its child does not process
ParentEvent ==
    /\ pc = "dispatch" /\ batch # <<>> /\ place # "out"
    /\ Head(batch) = None \/ ~Processes \/ src \notin live
    /\ pc' = "parent" /\ batch' = Tail(batch)
    /\ post' \in {"Continue", "Reregister"}
    /\ UNCHANGED <<state, place, history>>

StaleEvent ==
    /\ pc = "dispatch" /\ batch # <<>> /\ place = "out"
    /\ batch' = Tail(batch)
    /\ UNCHANGED <<state, place, pc, post, history>>

ParentContinues ==
    /\ pc = "parent" /\ post = "Continue"
    /\ pc' = "dispatch"
    /\ UNCHANGED <<state, place, batch, post, history>>

\* An error ends the dispatch.
ParentReregisters ==
    /\ pc = "parent" /\ post = "Reregister"
    /\ Reregisters
    /\ pc' = IF settled' THEN "dispatch" ELSE "idle"
    /\ batch' = IF settled' THEN batch ELSE <<>>
    /\ post' = "Continue"
    /\ UNCHANGED <<wish, spaced>>

EndDispatch ==
    /\ pc = "dispatch" /\ batch = <<>>
    /\ pc' = "idle"
    /\ UNCHANGED <<state, place, batch, post, history>>

PostAction == {"Continue", "Reregister", "Disable", "Remove"}

LoopStep ==
    \/ Poll \/ ChildEvent \/ ParentEvent \/ StaleEvent
    \/ (\E ret \in PostAction : ChildReturns(ret)) \/ ChildFails
    \/ ParentContinues \/ ParentReregisters \/ EndDispatch

Next == UserStep \/ LoopStep

Spec == Init /\ [][Next]_vars

----------------------------------------------------------------------------
(* Properties.                                                             *)

Wanted == IF place = "loop" /\ wish = "keep" THEN {src} ELSE {}

\* After a call of the loop that succeeded, the poller knows the wrapped source
\* if it is wanted, and no other that the wrapper holds: `The TransientSource will
\* take care of updating the registration of the inner source, even if it actually
\* needs to be unregistered or initially registered' (transient.rs:96-98).
SettledIsWanted == settled => live \cap {src, old} = Wanted

\* No registration is leaked: a source is unregistered before the wrapper drops
\* it, `replace the "child" source without leaking the source's registration'
\* (transient.rs:776-778), by whatever calls and with whatever refusals.  Except:
\* one change follows another before the loop has seen it, as replace() twice
\* (transient.rs:168-171); a full wrapper is assigned to; enable() of a parent in
\* the loop finds a change it should make; a removal's refusal, only logged.
LiveSourcesAreHeld == spaced => live \subseteq {src, old}

\* With care, no call fails but by the poller's fault.  Care is: no remove() or
\* replace() in a loop that does not know the wrapped source, since an earlier
\* change waits or it has disabled itself; no reregistration once it has, but an
\* enable(); no disable of the parent either, nor while a replace() waits; no
\* enable() of a parent whose source is registered, no update() or disable() of a
\* disabled one.
CarefulUseNeverFails == careful => ~failed
=============================================================================
