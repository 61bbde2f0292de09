-------------------------- MODULE Transient_proofs --------------------------
(***************************************************************************)
(* Proofs about Transient, for any inner sources, any part of them that    *)
(* stays registered when dropped, and any that the poller may refuse.      *)
(***************************************************************************)
EXTENDS Transient, SequenceTheorems, FiniteSetTheorems, TLAPS

----------------------------------------------------------------------------
(* The outcomes of a call.                                                 *)

World == [ok : BOOLEAN, fault : BOOLEAN, tag : Tags, src : Inner \cup {None},
          old : Inner \cup {None}, live : SUBSET Inner]

\* What the wrapper holds besides the poller's sources.
SameHolder(v, w) == v.tag = w.tag /\ v.src = w.src /\ v.old = w.old

\* Registering, changing and deleting a source that the wrapper holds.
LEMMA AddOutcome ==
    ASSUME NEW w \in World, NEW s \in Inner, NEW v \in Add(w, s)
    PROVE  /\ v \in World /\ SameHolder(v, w)
           /\ v.ok  => s \notin w.live /\ v.live = w.live \cup {s}
           /\ ~v.ok => v.live = w.live /\ (v.fault <=> s \notin w.live)
  <1>1. PICK b \in BOOLEAN :
            /\ v = [w EXCEPT !.ok = b, !.fault = (s \notin w.live /\ ~b),
                             !.live = IF b THEN w.live \cup {s} ELSE @]
            /\ b => s \notin w.live
    BY DEF Add, Attempt
  <1>2. /\ v.ok = b /\ v.fault = (s \notin w.live /\ ~b) /\ SameHolder(v, w)
        /\ v.live = IF b THEN w.live \cup {s} ELSE w.live
    BY <1>1 DEF World, SameHolder
  <1>3. v \in World
    BY <1>1 DEF World
  <1> QED BY <1>1, <1>2, <1>3

LEMMA ModifyOutcome ==
    ASSUME NEW w \in World, NEW s \in Inner, NEW v \in Modify(w, s)
    PROVE  /\ v \in World /\ SameHolder(v, w) /\ v.live = w.live
           /\ v.ok  => s \in w.live
           /\ ~v.ok => (v.fault <=> s \in w.live)
  BY DEF Modify, Attempt, World, SameHolder

LEMMA DeleteOutcome ==
    ASSUME NEW w \in World, NEW s \in Inner, NEW v \in Delete(w, s)
    PROVE  /\ v \in World /\ SameHolder(v, w)
           /\ v.ok  => s \in w.live /\ v.live = w.live \ {s}
           /\ ~v.ok => v.live = w.live /\ (v.fault <=> s \in w.live)
  BY DEF Delete, Attempt, World, SameHolder

\* A dropped source may stay registered, the others are left alone.
LEMMA DroppedOutcome ==
    ASSUME NEW w \in World, NEW s, NEW v \in Dropped(w, s)
    PROVE  /\ v \in World /\ v.ok = w.ok /\ v.fault = w.fault /\ SameHolder(v, w)
           /\ v.live \subseteq w.live /\ w.live \ {s} \subseteq v.live
  <1>1. PICK l \in SUBSET w.live : v = [w EXCEPT !.live = l] /\ w.live \ {s} \subseteq l
    BY DEF Dropped
  <1> QED BY <1>1 DEF World, SameHolder

LEMMA ReplaceStateOutcome ==
    ASSUME NEW w \in World, NEW t \in Tags, NEW v \in ReplaceState(w, t)
    PROVE  /\ v \in World /\ v.ok = w.ok /\ v.fault = w.fault
           /\ v.tag = t /\ v.src = w.src /\ v.old = None
           /\ v.live \subseteq w.live /\ w.live \ {w.old} \subseteq v.live
  <1>1. PICK d \in Dropped(w, w.old) : v = [d EXCEPT !.tag = t, !.old = None]
    BY DEF ReplaceState
  <1>2. /\ d \in World /\ d.ok = w.ok /\ d.fault = w.fault /\ d.src = w.src
        /\ d.live \subseteq w.live /\ w.live \ {w.old} \subseteq d.live
    BY <1>1, DroppedOutcome DEF SameHolder
  <1> QED BY <1>1, <1>2 DEF World

LEMMA EmptyOutcome ==
    ASSUME NEW w \in World, NEW v \in Empty(w)
    PROVE  /\ v \in World /\ v.ok = w.ok /\ v.fault = w.fault
           /\ v.tag = "None" /\ v.src = None /\ v.old = w.old /\ v.live \subseteq w.live
  <1>1. PICK d \in Dropped(w, w.src) : v = [d EXCEPT !.tag = "None", !.src = None]
    BY DEF Empty
  <1>2. /\ d \in World /\ d.ok = w.ok /\ d.fault = w.fault /\ d.old = w.old
        /\ d.live \subseteq w.live
    BY <1>1, DroppedOutcome DEF SameHolder
  <1>3. v \in World
    BY <1>1, <1>2 DEF World, Tags
  <1> QED BY <1>1, <1>2, <1>3 DEF World

----------------------------------------------------------------------------
(* What the three calls leave.                                             *)

\* The new source is another than the old; part of every step's hypotheses.
TwoSources == tag = "Replace" => src # old

\* What holds of the state, when it is left by an outcome.
Holds(w) ==
    /\ w \in World
    /\ w.src = None <=> w.tag = "None"
    /\ w.old = None <=> w.tag # "Replace"
    /\ w.tag = "Replace" => w.src # w.old

Unchanged(w) == w.tag = tag /\ w.src = src /\ w.old = old

LEMMA NowHolds ==
    ASSUME TypeOK, TwoSources
    PROVE  Holds(Now) /\ Unchanged(Now) /\ Now.live = live /\ Now.ok /\ ~Now.fault
  BY DEF TypeOK, TwoSources, Holds, World, Now, Unchanged

\* What each call makes of the variant, of the source and of its registration,
\* and the reasons for which it fails.
RegisterLeaves(w) ==
    /\ w.ok => /\ tag \in {"Remove", "None"} => w.tag = "None"
               /\ tag \in {"Keep", "Register", "Disable", "Replace"} => w.tag = "Keep"
               /\ w.tag = "Keep" => w.src = src /\ src \in w.live
               /\ w.live \subseteq live \cup IF w.tag = "Keep" THEN {src} ELSE {}
    /\ ~w.ok => Unchanged(w) /\ w.live = live /\ (w.fault \/ src \in live)

ReregisterLeaves(w) ==
    /\ w.ok => /\ tag \in {"Keep", "Register", "Replace"} => w.tag = "Keep"
               /\ tag = "Disable" => w.tag = "Disable"
               /\ tag \in {"Remove", "None"} => w.tag = "None"
               /\ w.tag # "None" => w.src = src /\ (src \in w.live <=> w.tag = "Keep")
               /\ w.live \subseteq live \cup IF w.tag = "Keep" THEN {src} ELSE {}
               /\ tag \in {"Disable", "Remove"} => src \notin w.live
               /\ tag = "Replace" => old \notin w.live
    /\ ~w.ok => /\ Unchanged(w) /\ w.live \subseteq live
                /\ \/ w.fault
                   \/ tag \in {"Keep", "Disable", "Remove"} /\ src \notin live
                   \/ tag = "Register" /\ src \in live
                   \/ tag = "Replace" /\ (old \notin live \/ src \in live)

UnregisterLeaves(w) ==
    /\ w.ok => /\ tag \in {"Keep", "Disable"} => w.tag = tag
               /\ tag \in {"Register", "Replace"} => w.tag = "Register"
               /\ tag \in {"Remove", "None"} => w.tag = "None"
               /\ w.tag # "None" => w.src = src
               /\ w.live \subseteq live \ {src, old}
    /\ ~w.ok => /\ Unchanged(w) /\ w.live \subseteq live
                /\ \/ w.fault
                   \/ tag \notin {"Replace", "None"} /\ src \notin live
                   \/ tag = "Replace" /\ src \notin live /\ old \notin w.live
                   \/ tag = "Replace" /\ old \notin live

LEMMA RegisteredOutcome ==
    ASSUME TypeOK, TwoSources, NEW w \in Registered
    PROVE  Holds(w) /\ RegisterLeaves(w)
  <1> USE NowHolds DEF Holds, Unchanged, SameHolder, RegisterLeaves
  <1>0. tag \in Tags /\ None \notin Inner
    BY ConstantsAssumption DEF TypeOK
  <1>1. CASE tag = "Keep"
    <2>1. w \in Add(Now, src) /\ src \in Inner
      BY <1>1 DEF Registered, TypeOK
    <2>2. /\ w \in World /\ SameHolder(w, Now)
          /\ w.ok  => src \notin live /\ w.live = live \cup {src}
          /\ ~w.ok => w.live = live /\ (w.fault <=> src \notin live)
      BY <2>1, AddOutcome
    <2> QED BY <1>1, <2>1, <2>2
  <1>2. CASE tag \in {"Register", "Disable", "Replace"}
    <2>1. PICK v \in Add(Now, src) : w \in IF v.ok THEN Keep(v) ELSE {v}
      BY <1>2 DEF Registered, AndThen
    <2>2. /\ v \in World /\ SameHolder(v, Now)
          /\ v.ok  => src \notin live /\ v.live = live \cup {src}
          /\ ~v.ok => v.live = live /\ (v.fault <=> src \notin live)
      BY <1>2, <2>1, AddOutcome DEF TypeOK
    <2>3. CASE ~v.ok
      BY <1>0, <2>1, <2>2, <2>3
    <2>4. CASE v.ok
      <3>1. w \in ReplaceState(v, "Keep") /\ "Keep" \in Tags
        BY <2>1, <2>4 DEF Keep, Tags
      <3>2. /\ w \in World /\ w.ok /\ w.tag = "Keep" /\ w.src = src /\ w.old = None
            /\ w.live \subseteq live \cup {src} /\ (live \cup {src}) \ {old} \subseteq w.live
        BY <2>2, <2>4, <3>1, ReplaceStateOutcome
      <3>3. src # None /\ src # old
        BY <1>0, <1>2 DEF TypeOK, TwoSources
      <3> QED BY <1>0, <1>2, <3>2, <3>3
    <2> QED BY <2>3, <2>4
  <1>3. CASE tag = "Remove"
    <2>1. w \in Empty(Now)
      BY <1>3 DEF Registered
    <2>2. /\ w \in World /\ w.ok /\ w.tag = "None" /\ w.src = None /\ w.old = old
          /\ w.live \subseteq live
      BY <2>1, EmptyOutcome
    <2> QED BY <1>0, <1>3, <2>2
  <1>4. CASE tag = "None"
    <2>1. w = Now
      BY <1>4 DEF Registered
    <2> QED BY <1>0, <1>4, <2>1 DEF TypeOK, World
  <1> QED BY <1>0, <1>1, <1>2, <1>3, <1>4 DEF Tags

LEMMA ReregisteredOutcome ==
    ASSUME TypeOK, TwoSources, NEW w \in Reregistered
    PROVE  Holds(w) /\ ReregisterLeaves(w)
  <1> USE NowHolds DEF Holds, Unchanged, SameHolder, ReregisterLeaves
  <1>0. tag \in Tags /\ None \notin Inner /\ "Keep" \in Tags
    BY ConstantsAssumption DEF TypeOK, Tags
  <1>1. CASE tag = "Keep"
    <2>1. w \in Modify(Now, src) /\ src \in Inner
      BY <1>1 DEF Reregistered, TypeOK
    <2>2. /\ w \in World /\ SameHolder(w, Now) /\ w.live = live
          /\ w.ok  => src \in live
          /\ ~w.ok => (w.fault <=> src \in live)
      BY <2>1, ModifyOutcome
    <2> QED BY <1>1, <2>1, <2>2
  <1>2. CASE tag = "Register"
    <2>1. PICK v \in Add(Now, src) : w \in IF v.ok THEN Keep(v) ELSE {v}
      BY <1>2 DEF Reregistered, AndThen
    <2>2. /\ v \in World /\ SameHolder(v, Now)
          /\ v.ok  => src \notin live /\ v.live = live \cup {src}
          /\ ~v.ok => v.live = live /\ (v.fault <=> src \notin live)
      BY <1>2, <2>1, AddOutcome DEF TypeOK
    <2>3. CASE ~v.ok
      BY <1>0, <1>2, <2>1, <2>2, <2>3
    <2>4. CASE v.ok
      <3>1. w \in ReplaceState(v, "Keep")
        BY <2>1, <2>4 DEF Keep
      <3>2. /\ w \in World /\ w.ok /\ w.tag = "Keep" /\ w.src = src /\ w.old = None
            /\ w.live \subseteq live \cup {src} /\ (live \cup {src}) \ {old} \subseteq w.live
        BY <1>0, <2>2, <2>4, <3>1, ReplaceStateOutcome
      <3>3. src # None /\ old = None
        BY <1>2 DEF TypeOK
      <3> QED BY <1>0, <1>2, <3>2, <3>3
    <2> QED BY <2>3, <2>4
  <1>3. CASE tag = "Disable"
    <2>1. w \in Delete(Now, src) /\ src \in Inner
      BY <1>3 DEF Reregistered, TypeOK
    <2>2. /\ w \in World /\ SameHolder(w, Now)
          /\ w.ok  => src \in live /\ w.live = live \ {src}
          /\ ~w.ok => w.live = live /\ (w.fault <=> src \in live)
      BY <2>1, DeleteOutcome
    <2> QED BY <1>3, <2>1, <2>2
  <1>4. CASE tag = "Remove"
    <2>1. PICK v \in Delete(Now, src) : w \in IF v.ok THEN Empty(v) ELSE {v}
      BY <1>4 DEF Reregistered, AndThen
    <2>2. /\ v \in World /\ SameHolder(v, Now)
          /\ v.ok  => src \in live /\ v.live = live \ {src}
          /\ ~v.ok => v.live = live /\ (v.fault <=> src \in live)
      BY <1>4, <2>1, DeleteOutcome DEF TypeOK
    <2>3. CASE ~v.ok
      BY <1>0, <1>4, <2>1, <2>2, <2>3
    <2>4. CASE v.ok
      <3>1. w \in Empty(v)
        BY <2>1, <2>4
      <3>2. /\ w \in World /\ w.ok /\ w.tag = "None" /\ w.src = None /\ w.old = old
            /\ w.live \subseteq live \ {src}
        BY <2>2, <2>4, <3>1, EmptyOutcome
      <3> QED BY <1>4, <3>2
    <2> QED BY <2>3, <2>4
  <1>5. CASE tag = "Replace"
    <2>1. PICK u \in Delete(Now, old) : \E v \in IF u.ok THEN Add(u, src) ELSE {u} :
              w \in IF v.ok THEN Keep(v) ELSE {v}
      BY <1>5 DEF Reregistered, AndThen
    <2>2. /\ u \in World /\ SameHolder(u, Now)
          /\ u.ok  => old \in live /\ u.live = live \ {old}
          /\ ~u.ok => u.live = live /\ (u.fault <=> old \in live)
      BY <1>5, <2>1, DeleteOutcome DEF TypeOK
    <2>3. CASE ~u.ok
      <3>1. w = u
        BY <2>1, <2>3
      <3> QED BY <1>0, <1>5, <2>2, <2>3, <3>1
    <2>4. CASE u.ok
      <3>1. PICK v \in Add(u, src) : w \in IF v.ok THEN Keep(v) ELSE {v}
        BY <2>1, <2>4
      <3>2. src \in Inner /\ src # old
        BY <1>5 DEF TypeOK, TwoSources
      <3>3. /\ v \in World /\ SameHolder(v, u)
            /\ v.ok  => src \notin u.live /\ v.live = u.live \cup {src}
            /\ ~v.ok => v.live = u.live /\ (v.fault <=> src \notin u.live)
        BY <2>2, <3>1, <3>2, AddOutcome
      <3>4. CASE ~v.ok
        BY <1>0, <1>5, <2>2, <2>4, <3>1, <3>2, <3>3, <3>4
      <3>5. CASE v.ok
        <4>1. w \in ReplaceState(v, "Keep")
          BY <3>1, <3>5 DEF Keep
        <4>2. /\ w \in World /\ w.ok /\ w.tag = "Keep" /\ w.src = src /\ w.old = None
              /\ w.live \subseteq (live \ {old}) \cup {src}
              /\ ((live \ {old}) \cup {src}) \ {old} \subseteq w.live
          BY <1>0, <2>2, <2>4, <3>3, <3>5, <4>1, ReplaceStateOutcome
        <4> QED BY <1>0, <1>5, <3>2, <4>2
      <3> QED BY <3>4, <3>5
    <2> QED BY <2>3, <2>4
  <1>6. CASE tag = "None"
    <2>1. w = Now
      BY <1>6 DEF Reregistered
    <2> QED BY <1>0, <1>6, <2>1 DEF TypeOK, World
  <1> QED BY <1>0, <1>1, <1>2, <1>3, <1>4, <1>5, <1>6 DEF Tags

LEMMA UnregisteredOutcome ==
    ASSUME TypeOK, TwoSources, NEW w \in Unregistered
    PROVE  Holds(w) /\ UnregisterLeaves(w)
  <1> USE NowHolds DEF Holds, Unchanged, SameHolder, UnregisterLeaves
  <1>0. tag \in Tags /\ None \notin Inner /\ "Register" \in Tags
        /\ (tag # "Replace" => old \notin live)
    BY ConstantsAssumption DEF TypeOK, Tags
  <1>1. CASE tag \in {"Keep", "Register", "Disable"}
    <2>1. w \in Delete(Now, src) /\ src \in Inner
      BY <1>1 DEF Unregistered, TypeOK
    <2>2. /\ w \in World /\ SameHolder(w, Now)
          /\ w.ok  => src \in live /\ w.live = live \ {src}
          /\ ~w.ok => w.live = live /\ (w.fault <=> src \in live)
      BY <2>1, DeleteOutcome
    <2> QED BY <1>0, <1>1, <2>1, <2>2
  <1>2. CASE tag = "Remove"
    <2>1. PICK v \in Delete(Now, src) : w \in IF v.ok THEN Empty(v) ELSE {v}
      BY <1>2 DEF Unregistered, AndThen
    <2>2. /\ v \in World /\ SameHolder(v, Now)
          /\ v.ok  => src \in live /\ v.live = live \ {src}
          /\ ~v.ok => v.live = live /\ (v.fault <=> src \in live)
      BY <1>2, <2>1, DeleteOutcome DEF TypeOK
    <2>3. CASE ~v.ok
      BY <1>0, <1>2, <2>1, <2>2, <2>3
    <2>4. CASE v.ok
      <3>1. w \in Empty(v)
        BY <2>1, <2>4
      <3>2. /\ w \in World /\ w.ok /\ w.tag = "None" /\ w.src = None /\ w.old = old
            /\ w.live \subseteq live \ {src}
        BY <2>2, <2>4, <3>1, EmptyOutcome
      <3> QED BY <1>0, <1>2, <3>2
    <2> QED BY <2>3, <2>4
  <1>3. CASE tag = "Replace"
    <2>1. PICK u \in Delete(Now, old) : \E v \in IF u.ok THEN Delete(u, src) ELSE {u} :
              w \in IF v.ok THEN ReplaceState(v, "Register") ELSE {v}
      BY <1>3 DEF Unregistered, AndThen
    <2>2. /\ u \in World /\ SameHolder(u, Now)
          /\ u.ok  => old \in live /\ u.live = live \ {old}
          /\ ~u.ok => u.live = live /\ (u.fault <=> old \in live)
      BY <1>3, <2>1, DeleteOutcome DEF TypeOK
    <2>3. CASE ~u.ok
      <3>1. w = u
        BY <2>1, <2>3
      <3> QED BY <1>0, <1>3, <2>2, <2>3, <3>1
    <2>4. CASE u.ok
      <3>1. PICK v \in Delete(u, src) : w \in IF v.ok THEN ReplaceState(v, "Register") ELSE {v}
        BY <2>1, <2>4
      <3>2. src \in Inner /\ src # old
        BY <1>3 DEF TypeOK, TwoSources
      <3>3. /\ v \in World /\ SameHolder(v, u)
            /\ v.ok  => src \in u.live /\ v.live = u.live \ {src}
            /\ ~v.ok => v.live = u.live /\ (v.fault <=> src \in u.live)
        BY <2>2, <3>1, <3>2, DeleteOutcome
      <3>4. CASE ~v.ok
        BY <1>0, <1>3, <2>2, <2>4, <3>1, <3>2, <3>3, <3>4
      <3>5. CASE v.ok
        <4>1. w \in ReplaceState(v, "Register")
          BY <3>1, <3>5
        <4>2. /\ w \in World /\ w.ok /\ w.tag = "Register" /\ w.src = src /\ w.old = None
              /\ w.live \subseteq (live \ {old}) \ {src}
          BY <1>0, <2>2, <2>4, <3>3, <3>5, <4>1, ReplaceStateOutcome
        <4> QED BY <1>0, <1>3, <3>2, <4>2
      <3> QED BY <3>4, <3>5
    <2> QED BY <2>3, <2>4
  <1>4. CASE tag = "None"
    <2>1. w = Now
      BY <1>4 DEF Unregistered
    <2>2. live \subseteq live \ {src, old}
      BY <1>0, <1>4 DEF TypeOK
    <2> QED BY <1>0, <1>4, <2>1, <2>2 DEF TypeOK, World
  <1> QED BY <1>0, <1>1, <1>2, <1>3, <1>4 DEF Tags

----------------------------------------------------------------------------
(* What the requests leave.                                                *)

\* remove(), and what a child returns: the variant changes, nothing else.
LEMMA RequestOutcome ==
    ASSUME TypeOK, TwoSources, NEW t \in Tags \ {"None", "Replace"}, tag # "None",
           NEW w \in ReplaceState(Now, t)
    PROVE  /\ Holds(w) /\ w.tag = t /\ w.src = src /\ w.old = None
           /\ w.live \subseteq live /\ live \ {old} \subseteq w.live
  <1>1. None \notin Inner /\ src # None
    BY ConstantsAssumption DEF TypeOK
  <1>2. Now \in World /\ Now.src = src /\ Now.old = old /\ Now.live = live
    BY NowHolds DEF Holds, Unchanged
  <1>3. /\ w \in World /\ w.tag = t /\ w.src = src /\ w.old = None
        /\ w.live \subseteq live /\ live \ {old} \subseteq w.live
    BY <1>2, ReplaceStateOutcome
  <1> QED BY <1>1, <1>3 DEF Holds

\* replace(): the wrapped source is the old one from then on.
ReplacedBy(v, new) == [v EXCEPT !.src = new, !.old = src]

LEMMA ReplaceOutcome ==
    ASSUME TypeOK, TwoSources, NEW new \in Inner, Fresh(new), tag # "None",
           NEW v \in ReplaceState(Now, "Replace"), NEW w, w = ReplacedBy(v, new)
    PROVE  /\ Holds(w) /\ w.tag = "Replace" /\ w.src = new /\ w.old = src
           /\ w.live \subseteq live /\ live \ {old} \subseteq w.live
  <1>1. None \notin Inner /\ src \in Inner /\ "Replace" \in Tags
    BY ConstantsAssumption DEF TypeOK, Tags
  <1>2. Now \in World /\ Now.src = src /\ Now.old = old /\ Now.live = live
    BY NowHolds DEF Holds, Unchanged
  <1>3. /\ v \in World /\ v.tag = "Replace"
        /\ v.live \subseteq live /\ live \ {old} \subseteq v.live
    BY <1>1, <1>2, ReplaceStateOutcome
  <1>4. w \in World /\ w.tag = "Replace" /\ w.src = new /\ w.old = src /\ w.live = v.live
    BY <1>1, <1>3 DEF World, ReplacedBy
  <1> QED BY <1>1, <1>3, <1>4 DEF Holds, Fresh

\* An assignment: all that was held is dropped.
AssignedTo(v, new) == [v EXCEPT !.tag = "Register", !.src = new, !.old = None]

LEMMA AssignOutcome ==
    ASSUME TypeOK, TwoSources, NEW new \in Inner,
           NEW u \in Dropped(Now, old), NEW v \in Dropped(u, src), NEW w, w = AssignedTo(v, new)
    PROVE  /\ Holds(w) /\ w.tag = "Register" /\ w.src = new /\ w.old = None
           /\ w.live \subseteq live
  <1>1. None \notin Inner /\ "Register" \in Tags
    BY ConstantsAssumption DEF Tags
  <1>2. Now \in World /\ Now.live = live
    BY NowHolds DEF Holds
  <1>3. u \in World /\ u.live \subseteq live
    BY <1>2, DroppedOutcome
  <1>4. v \in World /\ v.live \subseteq live
    BY <1>3, DroppedOutcome
  <1>5. w \in World /\ w.tag = "Register" /\ w.src = new /\ w.old = None /\ w.live = v.live
    BY <1>1, <1>4 DEF World, AssignedTo
  <1> QED BY <1>1, <1>4, <1>5 DEF Holds

----------------------------------------------------------------------------
(* The inductive invariant: the types, what was asked and what the variant *)
(* says, what is registered.                                               *)

HolderOK ==
    /\ tag \in Tags /\ live \subseteq Inner
    /\ src \in Inner \cup {None} /\ (src = None <=> tag = "None")
    /\ old \in Inner \cup {None} /\ (old = None <=> tag # "Replace")
    /\ TwoSources

BatchOK == batch \in Seq(Inner \cup {None})

PhaseOK ==
    /\ place \in {"out", "loop", "disabled"}
    /\ pc \in {"idle", "dispatch", "child", "parent"} /\ post \in {"Continue", "Reregister"}
    /\ wish \in {"keep", "disabled", "gone"}
    /\ settled \in BOOLEAN /\ spaced \in BOOLEAN
    /\ careful \in BOOLEAN /\ failed \in BOOLEAN

\* The variant carries the request that was made last.
WishInv ==
    /\ wish = "keep" <=> tag \in {"Keep", "Register", "Replace"}
    /\ wish = "disabled" <=> tag = "Disable"
    /\ pc = "child" => tag = "Keep"

\* One change at a time: what is registered is held, by a parent in the loop.
SpacedInv ==
    spaced => /\ live \subseteq {src, old}
              /\ place # "loop" => live = {}
              /\ tag = "Replace" => src \notin live

\* With care, a source is in the poller whenever the loop's next call requires
\* it there, and is not whenever the call requires it absent.
CarefulInv ==
    careful =>
        /\ ~failed
        /\ place # "loop" => src \notin live /\ old \notin live
        /\ place = "loop" =>
            /\ tag \in {"Keep", "Remove"} => src \in live
            /\ tag = "Register" => src \notin live
            /\ tag = "Replace" => src \notin live /\ old \in live

Inv == TypeOK /\ TwoSources /\ WishInv /\ SettledIsWanted /\ SpacedInv /\ CarefulInv

\* What every step shows, the batch's type apart.
Kept == HolderOK /\ PhaseOK /\ WishInv /\ SettledIsWanted /\ SpacedInv /\ CarefulInv

LEMMA LeavesHolder ==
    ASSUME NEW w, Holds(w), Leaves(w)
    PROVE  HolderOK'
  BY DEF Holds, Leaves, World, HolderOK, TwoSources

LEMMA BatchStep ==
    ASSUME TypeOK, [Next]_vars
    PROVE  BatchOK'
  <1> USE DEF BatchOK
  <1>1. batch \in Seq(Inner \cup {None}) /\ (batch # <<>> => Tail(batch) \in Seq(Inner \cup {None}))
    BY HeadTailProperties DEF TypeOK
  <1>2. <<>> \in Seq(Inner \cup {None})
    BY EmptySeq
  <1>3. CASE Poll
    <2>1. PICK ready \in SUBSET (Inner \cup {None}) : batch' \in SetToSeqs(ready)
      BY <1>3 DEF Poll, TypeOK
    <2>2. IsFiniteSet(Inner \cup {None})
      BY ConstantsAssumption, FS_AddElement
    <2>3. Cardinality(ready) \in Nat
      BY <2>2, FS_Subset, FS_CardinalityType
    <2>4. batch' \in [1 .. Cardinality(ready) -> Inner \cup {None}]
      BY <2>1 DEF SetToSeqs
    <2> QED BY <2>3, <2>4, SeqDef
  <1>4. CASE UserStep
    BY <1>1, <1>4 DEF UserStep, RequestRemove, RequestReplace, Assign, Requests, InsertParent,
        EnableParent, UpdateParent, DisableParent, RemoveParent, cycle
  <1>5. CASE ChildEvent \/ ParentEvent \/ StaleEvent \/ ChildFails \/ ParentContinues
             \/ ParentReregisters \/ EndDispatch
    BY <1>1, <1>2, <1>5 DEF ChildEvent, ParentEvent, StaleEvent, ChildFails, ParentContinues,
        ParentReregisters, EndDispatch
  <1>6. ASSUME NEW ret \in PostAction, ChildReturns(ret)
        PROVE  BatchOK'
    BY <1>1, <1>6 DEF ChildReturns
  <1>7. CASE UNCHANGED vars
    BY <1>1, <1>7 DEF vars, cycle
  <1> QED BY <1>3, <1>4, <1>5, <1>6, <1>7 DEF Next, LoopStep

LEMMA RequestStep ==
    ASSUME Inv, RequestRemove \/ \E new \in Inner : RequestReplace(new)
    PROVE  Kept'
  <1> USE DEF Inv
  <1>1. None \notin Inner /\ live \subseteq Inner /\ tag # "None"
    BY ConstantsAssumption DEF RequestRemove, RequestReplace, TypeOK
  <1>2. /\ settled' = FALSE /\ UNCHANGED <<place, pc, failed>>
        /\ pc # "child" /\ post' \in {"Continue", "Reregister"}
        /\ spaced' = (spaced /\ tag # "Replace") /\ careful' = (careful /\ Timely)
    BY DEF RequestRemove, RequestReplace, Requests, TypeOK
  <1>3. PICK w : /\ Holds(w) /\ Leaves(w)
                 /\ w.live \subseteq live /\ live \ {old} \subseteq w.live
                 /\ \/ w.tag = "Remove" /\ w.src = src /\ w.old = None /\ wish' = "gone"
                    \/ /\ w.tag = "Replace" /\ w.src \notin live /\ w.old = src
                       /\ wish' = "keep"
    <2>1. CASE RequestRemove
      <3>1. PICK w \in ReplaceState(Now, "Remove") : Leaves(w)
        BY <2>1 DEF RequestRemove
      <3>2. "Remove" \in Tags \ {"None", "Replace"}
        BY DEF Tags
      <3> QED BY <1>1, <2>1, <3>1, <3>2, RequestOutcome DEF RequestRemove
    <2>2. CASE \E new \in Inner : RequestReplace(new)
      <3>1. PICK new \in Inner : RequestReplace(new)
        BY <2>2
      <3>2. PICK v \in ReplaceState(Now, "Replace") : Leaves(ReplacedBy(v, new))
        BY <3>1 DEF RequestReplace, ReplacedBy
      <3>3. PICK w : w = ReplacedBy(v, new)
        OBVIOUS
      <3>4. Fresh(new) /\ new \notin live /\ wish' = "keep"
        BY <3>1 DEF RequestReplace, Fresh
      <3>5. /\ Holds(w) /\ w.tag = "Replace" /\ w.src = new /\ w.old = src
            /\ w.live \subseteq live /\ live \ {old} \subseteq w.live
        BY <1>1, <3>2, <3>3, <3>4, ReplaceOutcome
      <3> QED BY <3>2, <3>3, <3>4, <3>5
    <2> QED BY <2>1, <2>2
  <1>4. HolderOK'
    BY <1>3, LeavesHolder
  <1>5. PhaseOK' /\ SettledIsWanted' /\ WishInv'
    BY <1>2, <1>3 DEF PhaseOK, TypeOK, SettledIsWanted, WishInv, Leaves
  <1>6. tag' = w.tag /\ src' = w.src /\ old' = w.old /\ live' = w.live
    BY <1>3 DEF Leaves
  <1>7. tag # "Replace" => old = None
    BY DEF TypeOK
  <1>8. SpacedInv'
    BY <1>1, <1>2, <1>3, <1>6, <1>7 DEF SpacedInv
  <1>9. CarefulInv'
    <2>1. ASSUME careful' PROVE place = "loop" => src \in live'
      <3>1. src # old
        BY <1>1 DEF TypeOK, TwoSources
      <3> QED BY <1>2, <1>3, <1>6, <2>1, <3>1 DEF Timely
    <2>2. None \notin live'
      BY <1>1, <1>3, <1>6
    <2> QED BY <1>2, <1>3, <1>6, <2>1, <2>2 DEF CarefulInv
  <1> QED BY <1>4, <1>5, <1>8, <1>9 DEF Kept

LEMMA AssignStep ==
    ASSUME Inv, NEW new \in Inner, Assign(new)
    PROVE  Kept'
  <1> USE DEF Inv
  <1>1. PICK u \in Dropped(Now, old) : \E v \in Dropped(u, src) : Leaves(AssignedTo(v, new))
    BY DEF Assign, AssignedTo
  <1>2. PICK v \in Dropped(u, src) : Leaves(AssignedTo(v, new))
    BY <1>1
  <1>3. PICK w : w = AssignedTo(v, new)
    OBVIOUS
  <1>4. /\ Holds(w) /\ Leaves(w) /\ w.tag = "Register" /\ w.src = new /\ w.old = None
        /\ w.live \subseteq live
    BY <1>1, <1>2, <1>3, AssignOutcome
  <1>5. tag' = "Register" /\ src' = new /\ old' = None /\ live' \subseteq live
    BY <1>4 DEF Leaves
  <1>6. /\ settled' = FALSE /\ UNCHANGED <<place, pc, failed, careful>> /\ new \notin live
        /\ pc # "child" /\ post' \in {"Continue", "Reregister"} /\ wish' = "keep"
        /\ spaced' = (spaced /\ (tag = "None" \/ place = "out"))
    BY DEF Assign, Requests, Fresh, TypeOK
  <1>7. None \notin Inner /\ live \subseteq Inner
    BY ConstantsAssumption DEF TypeOK
  <1>8. HolderOK'
    BY <1>4, LeavesHolder
  <1>9. PhaseOK' /\ SettledIsWanted' /\ WishInv'
    BY <1>5, <1>6 DEF PhaseOK, TypeOK, SettledIsWanted, WishInv
  <1>10. SpacedInv'
    <2>1. ASSUME spaced' PROVE live' = {}
      BY <1>5, <1>6, <1>7, <2>1 DEF SpacedInv, TypeOK
    <2> QED BY <1>5, <2>1 DEF SpacedInv
  <1>11. CarefulInv'
    BY <1>5, <1>6, <1>7 DEF CarefulInv
  <1> QED BY <1>8, <1>9, <1>10, <1>11 DEF Kept

LEMMA RegisterStep ==
    ASSUME Inv, InsertParent \/ EnableParent
    PROVE  Kept'
  <1> USE DEF Inv
  <1>1. PICK w \in Registered :
            /\ Leaves(w) /\ settled' = w.ok
            /\ careful' => careful /\ ~w.fault /\ (place = "out" \/ src \notin live)
            /\ place' = IF w.ok THEN "loop" ELSE place
            /\ failed' = (failed \/ ~w.ok)
            /\ wish' = IF w.ok /\ wish = "disabled" THEN "keep" ELSE wish
    BY DEF InsertParent, EnableParent, Answered, Reenabled
  <1>2. /\ UserCode /\ UNCHANGED <<batch, pc, post>> /\ careful' \in BOOLEAN
        /\ spaced' \in BOOLEAN
        /\ spaced' => spaced /\ (place = "loop" => tag \notin {"Remove", "Replace"})
    <2>1. careful' \in BOOLEAN
      BY DEF InsertParent, EnableParent, Answered
    <2>2. CASE InsertParent
      BY <2>1, <2>2 DEF InsertParent, cycle, TypeOK
    <2>3. CASE EnableParent
      BY <2>1, <2>3 DEF EnableParent, cycle
    <2> QED BY <2>2, <2>3
  <1>3. Holds(w) /\ RegisterLeaves(w)
    BY RegisteredOutcome
  <1>4. /\ tag' = w.tag /\ src' = w.src /\ old' = w.old /\ live' = w.live
        /\ w.ok \in BOOLEAN /\ (w.old = None <=> w.tag # "Replace")
        /\ w.src = None <=> w.tag = "None"
        /\ w.live \subseteq Inner /\ None \notin Inner
    BY <1>1, <1>3, ConstantsAssumption DEF Leaves, Holds, World
  <1>5. /\ tag \in Tags /\ (src = None <=> tag = "None")
        /\ old = None <=> tag # "Replace"
        /\ live \subseteq Inner /\ place \in {"out", "loop", "disabled"}
    BY DEF TypeOK
  <1>6. HolderOK'
    BY <1>1, <1>3, LeavesHolder
  <1>7. PhaseOK'
    BY <1>1, <1>2, <1>4 DEF PhaseOK, TypeOK
  <1>8. WishInv'
    BY <1>1, <1>2, <1>3, <1>4, <1>5 DEF WishInv, RegisterLeaves, Unchanged, UserCode, Tags
  <1>9. SettledIsWanted'
    <2>1. ASSUME w.ok PROVE live' \cap {src', old'} = Wanted'
      <3>1. CASE w.tag = "Keep"
        BY <1>1, <1>3, <1>4, <1>8, <2>1, <3>1 DEF RegisterLeaves, Wanted, WishInv
      <3>2. CASE w.tag = "None"
        BY <1>1, <1>3, <1>4, <1>8, <2>1, <3>2 DEF RegisterLeaves, Wanted, WishInv
      <3> QED BY <1>3, <1>5, <2>1, <3>1, <3>2 DEF RegisterLeaves, Tags
    <2> QED BY <1>1, <2>1 DEF SettledIsWanted
  <1>10. SpacedInv'
    <2>1. CASE ~w.ok
      BY <1>1, <1>2, <1>3, <1>4, <2>1 DEF SpacedInv, RegisterLeaves, Unchanged
    <2>2. ASSUME w.ok, spaced' PROVE live' \subseteq {src', old'} /\ place' = "loop" /\ tag' # "Replace"
      <3>1. live \subseteq {src} /\ (tag \in {"Remove", "None"} => live = {})
        BY <1>2, <1>4, <1>5, <2>2 DEF SpacedInv
      <3> QED BY <1>1, <1>3, <1>4, <1>5, <2>2, <3>1 DEF RegisterLeaves, Tags
    <2> QED BY <2>1, <2>2 DEF SpacedInv
  <1>11. CarefulInv'
    <2>1. ASSUME careful' PROVE w.ok /\ ~failed
      BY <1>1, <1>3, <1>5, <2>1 DEF CarefulInv, RegisterLeaves
    <2> QED BY <1>1, <1>3, <1>4, <1>5, <2>1 DEF CarefulInv, RegisterLeaves, Tags
  <1> QED BY <1>6, <1>7, <1>8, <1>9, <1>10, <1>11 DEF Kept

LEMMA ReregisterStep ==
    ASSUME Inv, UpdateParent \/ ParentReregisters
    PROVE  Kept'
  <1> USE DEF Inv
  <1>1. PICK w \in Reregistered :
            /\ Answered(w, place = "loop" /\ ~Quiet)
            /\ place' = IF w.ok THEN "loop" ELSE place
            /\ failed' = (failed \/ ~w.ok)
    BY DEF UpdateParent, ParentReregisters, Reregisters
  <1>2. /\ Leaves(w) /\ settled' = w.ok
        /\ careful' \in BOOLEAN
        /\ careful' => careful /\ ~w.fault /\ place = "loop" /\ ~Quiet
    BY <1>1 DEF Answered, TypeOK
  <1>3. Holds(w) /\ ReregisterLeaves(w)
    BY ReregisteredOutcome
  <1>4. /\ tag' = w.tag /\ src' = w.src /\ old' = w.old /\ live' = w.live
        /\ w.ok \in BOOLEAN /\ (w.old = None <=> w.tag # "Replace")
        /\ w.src = None <=> w.tag = "None"
        /\ w.live \subseteq Inner /\ None \notin Inner
    BY <1>2, <1>3, ConstantsAssumption DEF Leaves, Holds, World
  <1>5. /\ UNCHANGED <<wish, spaced>> /\ pc # "child" /\ pc' \in {"idle", "dispatch"}
        /\ post' \in {"Continue", "Reregister"}
    BY DEF UpdateParent, ParentReregisters, cycle, UserCode, TypeOK
  <1>6. /\ tag \in Tags /\ (src = None <=> tag = "None")
        /\ old = None <=> tag # "Replace"
        /\ live \subseteq Inner /\ place \in {"out", "loop", "disabled"}
    BY DEF TypeOK
  <1>7. HolderOK'
    BY <1>2, <1>3, LeavesHolder
  <1>8. PhaseOK'
    BY <1>1, <1>2, <1>4, <1>5 DEF PhaseOK, TypeOK
  <1>9. WishInv'
    BY <1>3, <1>4, <1>5, <1>6 DEF WishInv, ReregisterLeaves, Unchanged, Tags
  <1>10. SettledIsWanted'
    <2>1. ASSUME w.ok PROVE live' \cap {src', old'} = Wanted'
      <3>1. w.tag \in {"Keep", "Disable", "None"}
        BY <1>3, <1>6, <2>1 DEF ReregisterLeaves, Tags
      <3>2. CASE w.tag = "Keep"
        BY <1>1, <1>3, <1>4, <1>9, <2>1, <3>2 DEF ReregisterLeaves, Wanted, WishInv
      <3>3. CASE w.tag = "Disable"
        BY <1>1, <1>3, <1>4, <1>9, <2>1, <3>3 DEF ReregisterLeaves, Wanted, WishInv
      <3>4. CASE w.tag = "None"
        BY <1>1, <1>3, <1>4, <1>9, <2>1, <3>4 DEF ReregisterLeaves, Wanted, WishInv
      <3> QED BY <3>1, <3>2, <3>3, <3>4
    <2> QED BY <1>2, <2>1 DEF SettledIsWanted
  <1>11. SpacedInv'
    <2>1. CASE ~w.ok
      BY <1>1, <1>3, <1>4, <1>5, <2>1 DEF SpacedInv, ReregisterLeaves, Unchanged
    <2>2. ASSUME w.ok, spaced' PROVE live' \subseteq {src', old'} /\ place' = "loop" /\ tag' # "Replace"
      <3>1. live \subseteq {src, old}
        BY <1>5, <2>2 DEF SpacedInv
      <3> QED BY <1>1, <1>3, <1>4, <1>6, <2>2, <3>1 DEF ReregisterLeaves, Tags
    <2> QED BY <2>1, <2>2 DEF SpacedInv
  <1>12. CarefulInv'
    <2>1. ASSUME careful' PROVE w.ok /\ ~failed /\ place' = "loop"
      <3>1. w.ok
        BY <1>2, <1>3, <1>6, <2>1 DEF CarefulInv, ReregisterLeaves, Quiet, Tags
      <3> QED BY <1>1, <1>2, <2>1, <3>1 DEF CarefulInv
    <2> QED BY <1>1, <1>3, <1>4, <1>6, <2>1 DEF CarefulInv, ReregisterLeaves, Tags
  <1> QED BY <1>7, <1>8, <1>9, <1>10, <1>11, <1>12 DEF Kept

LEMMA UnregisterStep ==
    ASSUME Inv, DisableParent \/ RemoveParent
    PROVE  Kept'
  <1> USE DEF Inv
  <1>1. PICK w \in Unregistered :
            /\ Leaves(w) /\ settled' = w.ok /\ careful' \in BOOLEAN /\ spaced' \in BOOLEAN
            /\ careful' => careful /\ ~w.fault
            /\ spaced' => spaced
            /\ \/ /\ place' = IF w.ok THEN "disabled" ELSE place
                  /\ failed' = (failed \/ ~w.ok)
                  /\ careful' => place = "loop" /\ (tag = "None" \/ src \in live)
               \/ place' = "out" /\ failed' = failed /\ (spaced' => ~w.fault)
    <2>1. CASE DisableParent
      BY <2>1 DEF DisableParent, Answered, TypeOK
    <2>2. CASE RemoveParent
      BY <2>2 DEF RemoveParent, Answered
    <2> QED BY <2>1, <2>2
  <1>2. UserCode /\ UNCHANGED <<pc, post, wish>>
    BY DEF DisableParent, RemoveParent, cycle
  <1>3. Holds(w) /\ UnregisterLeaves(w)
    BY UnregisteredOutcome
  <1>4. /\ tag' = w.tag /\ src' = w.src /\ old' = w.old /\ live' = w.live
        /\ w.ok \in BOOLEAN /\ (w.old = None <=> w.tag # "Replace")
        /\ w.src = None <=> w.tag = "None"
        /\ w.live \subseteq Inner /\ None \notin Inner
    BY <1>1, <1>3, ConstantsAssumption DEF Leaves, Holds, World
  <1>5. /\ tag \in Tags /\ (src = None <=> tag = "None")
        /\ old = None <=> tag # "Replace"
        /\ live \subseteq Inner /\ place \in {"out", "loop", "disabled"}
    BY DEF TypeOK
  <1>6. HolderOK'
    BY <1>1, <1>3, LeavesHolder
  <1>7. PhaseOK'
    BY <1>1, <1>2, <1>4 DEF PhaseOK, TypeOK
  <1>8. WishInv'
    BY <1>2, <1>3, <1>4, <1>5 DEF WishInv, UnregisterLeaves, Unchanged, UserCode, Tags
  <1>9. w.ok => src' \notin live' /\ old' \notin live' /\ place' # "loop"
    BY <1>1, <1>3, <1>4, <1>5 DEF UnregisterLeaves, Tags
  <1>10. SettledIsWanted'
    BY <1>1, <1>9 DEF SettledIsWanted, Wanted
  <1>11. SpacedInv'
    <2>1. ASSUME spaced' PROVE place' # "loop" => live' = {}
      <3>1. live \subseteq {src, old}
        BY <1>1, <2>1 DEF SpacedInv
      <3>2. CASE w.ok
        BY <1>3, <1>4, <3>1, <3>2 DEF UnregisterLeaves
      <3>3. CASE ~w.ok /\ place' = "out" /\ ~w.fault
        <4>1. tag = "Replace" => src \notin live
          BY <1>1, <2>1 DEF SpacedInv
        <4> QED BY <1>3, <1>4, <1>5, <3>1, <3>3, <4>1 DEF UnregisterLeaves
      <3>4. CASE ~w.ok /\ place' = place
        BY <1>1, <1>3, <1>4, <2>1, <3>4 DEF UnregisterLeaves, SpacedInv
      <3> QED BY <1>1, <1>4, <2>1, <3>2, <3>3, <3>4
    <2>2. CASE ~w.ok
      BY <1>1, <1>3, <1>4, <2>1, <2>2 DEF UnregisterLeaves, Unchanged, SpacedInv
    <2>3. CASE w.ok
      BY <1>9, <2>1, <2>3 DEF SpacedInv
    <2> QED BY <1>4, <2>2, <2>3
  <1>12. CarefulInv'
    <2>1. CASE w.ok
      BY <1>1, <1>9, <2>1 DEF CarefulInv
    <2>2. CASE ~w.ok
      <3>1. ASSUME careful' PROVE ~failed' /\ place' = "out" /\ src' \notin live' /\ old' \notin live'
        <4>1. ~(place = "loop" /\ (tag = "None" \/ src \in live))
          BY <1>1, <1>3, <1>5, <2>2, <3>1 DEF CarefulInv, UnregisterLeaves, Tags
        <4>2. /\ place' = "out" /\ failed' = failed /\ careful /\ ~w.fault
              /\ src' = src /\ old' = old /\ live' \subseteq live
          BY <1>1, <1>3, <1>4, <2>2, <3>1, <4>1 DEF UnregisterLeaves, Unchanged
        <4>3. ~failed /\ src \notin live'
          BY <1>5, <4>1, <4>2 DEF CarefulInv, Tags
        <4>4. old \notin live'
          BY <1>3, <1>4, <1>5, <2>2, <4>2 DEF CarefulInv, UnregisterLeaves
        <4> QED BY <4>2, <4>3, <4>4
      <3> QED BY <3>1 DEF CarefulInv
    <2> QED BY <1>4, <2>1, <2>2
  <1> QED BY <1>6, <1>7, <1>8, <1>10, <1>11, <1>12 DEF Kept

\* The steps that leave the wrapper alone.
LEMMA OtherStep ==
    ASSUME Inv, UNCHANGED <<state, place, history>>,
           pc' \in {"idle", "dispatch", "child", "parent"}, post' \in {"Continue", "Reregister"},
           pc' = "child" => tag = "Keep"
    PROVE  Kept'
  <1>1. HolderOK' /\ PhaseOK'
    BY DEF Inv, HolderOK, PhaseOK, TypeOK, TwoSources, state, history
  <1>2. WishInv' /\ SettledIsWanted' /\ SpacedInv' /\ CarefulInv'
    BY DEF Inv, state, history, WishInv, SettledIsWanted, Wanted, SpacedInv, CarefulInv
  <1> QED BY <1>1, <1>2 DEF Kept

LEMMA ChildStep ==
    ASSUME Inv, NEW ret \in PostAction, ChildReturns(ret)
    PROVE  Kept'
  <1> USE DEF Inv
  <1>1. CASE ret \in {"Disable", "Remove"}
    <2>1. PICK w \in ReplaceState(Now, ret) : Leaves(w)
      BY <1>1 DEF ChildReturns
    <2>2. /\ tag = "Keep" /\ old = None /\ None \notin live
          /\ pc' = "parent" /\ post' \in {"Continue", "Reregister"} /\ settled' = FALSE
          /\ wish' = (IF ret = "Disable" THEN "disabled" ELSE "gone")
          /\ UNCHANGED <<place, spaced, careful, failed>>
      BY <1>1, ConstantsAssumption DEF ChildReturns, WishInv, TypeOK
    <2>3. Holds(w) /\ w.tag = ret /\ w.src = src /\ w.old = None /\ w.live = live
      <3>1. ret \in Tags \ {"None", "Replace"} /\ tag # "None"
        BY <1>1, <2>2 DEF Tags
      <3>2. /\ Holds(w) /\ w.tag = ret /\ w.src = src /\ w.old = None
            /\ w.live \subseteq live /\ live \ {old} \subseteq w.live
        BY <2>1, <3>1, RequestOutcome
      <3> QED BY <2>2, <3>2
    <2>4. tag' = ret /\ src' = src /\ old' = old /\ live' = live
      BY <2>1, <2>2, <2>3 DEF Leaves
    <2>5. HolderOK'
      BY <2>1, <2>3, LeavesHolder
    <2>6. PhaseOK' /\ SettledIsWanted' /\ WishInv'
      BY <1>1, <2>2, <2>4 DEF PhaseOK, TypeOK, SettledIsWanted, WishInv
    <2>7. SpacedInv' /\ CarefulInv'
      BY <1>1, <2>2, <2>4 DEF SpacedInv, CarefulInv
    <2> QED BY <2>5, <2>6, <2>7 DEF Kept
  <1>2. CASE ret \notin {"Disable", "Remove"}
    BY <1>2, OtherStep DEF ChildReturns, history
  <1> QED BY <1>1, <1>2

LEMMA QuietStep ==
    ASSUME Inv,
           \/ Poll \/ ChildEvent \/ ParentEvent \/ StaleEvent \/ ChildFails
           \/ ParentContinues \/ EndDispatch \/ UNCHANGED vars
    PROVE  Kept'
  <1>1. post \in {"Continue", "Reregister"} /\ pc \in {"idle", "dispatch", "child", "parent"}
        /\ (pc = "child" => tag = "Keep")
    BY DEF Inv, TypeOK, WishInv
  <1>2. /\ UNCHANGED <<state, place, history>>
        /\ pc' \in {"idle", "dispatch", "child", "parent"} /\ post' \in {"Continue", "Reregister"}
        /\ pc' = "child" => tag = "Keep"
    BY <1>1 DEF Poll, ChildEvent, Processes, ParentEvent, StaleEvent, ChildFails,
                ParentContinues, EndDispatch, vars, cycle
  <1> QED BY <1>2, OtherStep

----------------------------------------------------------------------------
(* The theorems.                                                           *)

LEMMA Invariance == Spec => []Inv
  <1>1. Init => Inv
    <2> SUFFICES ASSUME Init PROVE Inv
      OBVIOUS
    <2>1. <<>> \in Seq(Inner \cup {None}) /\ None \notin Inner
      BY EmptySeq, ConstantsAssumption
    <2>2. TypeOK /\ TwoSources
      BY <2>1 DEF Init, TypeOK, Tags, TwoSources
    <2>3. WishInv /\ SettledIsWanted /\ SpacedInv /\ CarefulInv
      BY DEF Init, WishInv, SettledIsWanted, SpacedInv, CarefulInv
    <2> QED BY <2>2, <2>3 DEF Inv
  <1>2. Inv /\ [Next]_vars => Inv'
    <2> SUFFICES ASSUME Inv, [Next]_vars PROVE Inv'
      OBVIOUS
    <2>1. BatchOK'
      BY BatchStep DEF Inv
    <2>2. Kept'
      BY RequestStep, AssignStep, RegisterStep, ReregisterStep, UnregisterStep, ChildStep,
         QuietStep DEF Next, UserStep, LoopStep
    <2>3. TypeOK' /\ TwoSources'
      BY <2>1, <2>2 DEF Kept, TypeOK, HolderOK, BatchOK, PhaseOK
    <2> QED BY <2>2, <2>3 DEF Inv, Kept
  <1> QED BY <1>1, <1>2, PTL DEF Spec

\* The wrapper holds a source exactly when its variant says so, and an old one
\* exactly while a replacement is pending.
THEOREM TypeCorrect == Spec => []TypeOK
  BY Invariance, PTL DEF Inv

\* As long as one change is made at a time (and with the other exceptions that
\* LiveSourcesAreHeld names), a source is unregistered before the wrapper drops it,
\* also if dropping it would leave it registered: whatever the children return, the
\* parent and the owner ask, and whichever calls fail.
THEOREM NoRegistrationIsLeaked == Spec => []LiveSourcesAreHeld
  <1>1. Inv => LiveSourcesAreHeld
    BY DEF Inv, SpacedInv, LiveSourcesAreHeld
  <1> QED BY <1>1, Invariance, PTL

\* After a call of the loop that succeeded, what is registered is what was
\* asked for, among the sources that the wrapper holds.
THEOREM RegistrationFollowsRequests == Spec => []SettledIsWanted
  BY Invariance, PTL DEF Inv

\* With the care that CarefulUseNeverFails describes, which allows a replace() after
\* the child's Remove, the loop's calls fail only by the poller's own fault.
THEOREM CareAvoidsErrors == Spec => []CarefulUseNeverFails
  <1>1. Inv => CarefulUseNeverFails
    BY DEF Inv, CarefulInv, CarefulUseNeverFails
  <1> QED BY <1>1, Invariance, PTL

=============================================================================
