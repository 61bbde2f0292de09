------------------------- MODULE EventLoop_proofs -------------------------
(***************************************************************************)
(* Theorems about EventLoop, for any set of sources, any bounds and any    *)
(* choice of the sources that have hooks: its types, its tokens whatever   *)
(* fails, its registrations when nothing does, and the conversion of a     *)
(* token into a key of the poller.                                         *)
(***************************************************************************)
EXTENDS EventLoop, Tokens, FiniteSetTheorems, WellFoundedInduction, SequenceTheorems, TLAPS

----------------------------------------------------------------------------
(* What Without (module Retain) keeps and drops.                           *)

\* Every set of natural numbers that is not empty has a least element.
LEMMA LeastNatural ==
    ASSUME NEW T \in SUBSET Nat, T # {}
    PROVE  \E m \in T : \A n \in T : m <= n
<1> DEFINE R == OpToRel(<, Nat)
<1>1. IsWellFoundedOn(R, Nat)
  BY NatLessThanWellFounded
<1>2. PICK m \in T : \A n \in T : ~ (<<n, m>> \in R)
  <2> HIDE DEF R
  <2> QED BY <1>1, WFMin
<1>3. \A n \in T : ~ (n < m)
  BY <1>2 DEF OpToRel
<1> QED BY <1>3

\* The k-th smallest position exists, and no other position has its rank.
LEMMA NthProperties ==
    ASSUME NEW n \in Nat, NEW keep, \A i \in keep : i \in 1 .. n
    PROVE  /\ IsFiniteSet(keep) /\ Cardinality(keep) \in Nat
           /\ \A k \in 1 .. Cardinality(keep) : Nth(keep, k) \in keep
           /\ \A i \in keep : \E k \in 1 .. Cardinality(keep) : Nth(keep, k) = i
<1>0. \A i \in keep : i \in 1 .. n /\ i \in Nat /\ 1 <= i /\ i <= n
  OBVIOUS
<1>1. IsFiniteSet(keep) /\ Cardinality(keep) \in Nat
  <2>1. IsFiniteSet(1 .. n)
    BY FS_Interval
  <2>2. IsFiniteSet(keep)
    BY <2>1, FS_Subset
  <2> QED BY <2>2, FS_CardinalityType
<1>2. \A i \in Nat : /\ IsFiniteSet(Below(keep, i))
                     /\ Cardinality(Below(keep, i)) \in Nat
  BY <1>1, FS_Subset, FS_CardinalityType DEF Below
<1>3. ASSUME NEW k \in 1 .. Cardinality(keep)
      PROVE  \E i \in keep : Cardinality(Below(keep, i)) = k - 1
  <2> DEFINE T == {m \in Nat : Cardinality(Below(keep, m)) >= k}
  <2>1. Below(keep, n + 1) = keep
    BY <1>0 DEF Below
  <2>2. n + 1 \in T
    BY <2>1, <1>1
  <2>3. PICK m \in T : \A x \in T : m <= x
    BY <2>2, LeastNatural
  <2>4. m # 0
    <3>1. Below(keep, 0) = {}
      BY <1>0 DEF Below
    <3> QED BY <3>1, FS_EmptySet
  <2>5. m - 1 \in Nat /\ m - 1 \notin T
    BY <2>3, <2>4
  <2>6. CASE m - 1 \in keep
    <3>1. Below(keep, m) = Below(keep, m - 1) \cup {m - 1}
      BY <1>0, <2>5, <2>6 DEF Below
    <3>2. m - 1 \notin Below(keep, m - 1)
      BY <1>0, <2>5 DEF Below
    <3>3. Cardinality(Below(keep, m)) = Cardinality(Below(keep, m - 1)) + 1
      BY <3>1, <3>2, <2>5, <1>2, FS_AddElement
    <3> QED BY <3>3, <2>5, <2>6, <2>3, <1>2
  <2>7. CASE m - 1 \notin keep
    <3>1. Below(keep, m) = Below(keep, m - 1)
      BY <1>0, <2>5, <2>7 DEF Below
    <3> QED BY <3>1, <2>5, <2>3
  <2> QED BY <2>6, <2>7
<1>4. \A k \in 1 .. Cardinality(keep) :
         Nth(keep, k) \in keep /\ Cardinality(Below(keep, Nth(keep, k))) = k - 1
  BY <1>3 DEF Nth
<1>5. ASSUME NEW i \in keep, NEW j \in keep, i < j
      PROVE  Cardinality(Below(keep, i)) < Cardinality(Below(keep, j))
  <2>1. i \notin Below(keep, i) /\ Below(keep, i) \cup {i} \subseteq Below(keep, j)
    BY <1>0, <1>5 DEF Below
  <2>2. Cardinality(Below(keep, i) \cup {i}) = Cardinality(Below(keep, i)) + 1
    BY <2>1, <1>0, <1>2, FS_AddElement
  <2>3. Cardinality(Below(keep, i) \cup {i}) <= Cardinality(Below(keep, j))
    BY <2>1, <1>0, <1>2, FS_Subset
  <2> QED BY <2>2, <2>3, <1>2
<1>6. ASSUME NEW i \in keep
      PROVE  \E k \in 1 .. Cardinality(keep) : Nth(keep, k) = i
  <2> DEFINE k == Cardinality(Below(keep, i)) + 1
  <2>1. i \notin Below(keep, i) /\ Below(keep, i) \cup {i} \subseteq keep
    BY <1>0 DEF Below
  <2>2. Cardinality(Below(keep, i) \cup {i}) = k
    BY <2>1, <1>0, <1>2, FS_AddElement
  <2>3. k \in 1 .. Cardinality(keep)
    BY <2>1, <2>2, <1>1, <1>2, FS_Subset
  <2>4. Nth(keep, k) \in keep /\ Cardinality(Below(keep, Nth(keep, k))) = Cardinality(Below(keep, i))
    BY <2>3, <1>4, <1>2
  <2>5. Nth(keep, k) = i
    BY <2>4, <1>5, <1>2
  <2> QED BY <2>3, <2>5
<1> QED BY <1>1, <1>4, <1>6

\* Without returns a list of the entries other than t, and all of them.
LEMMA WithoutProperties ==
    ASSUME NEW S, NEW list \in Seq(S), NEW t
    PROVE  /\ Without(list, t) \in Seq(S)
           /\ \A k \in DOMAIN Without(list, t) :
                 /\ Without(list, t)[k] # t
                 /\ \E i \in DOMAIN list : Without(list, t)[k] = list[i]
           /\ \A i \in DOMAIN list :
                 list[i] # t => \E k \in DOMAIN Without(list, t) : Without(list, t)[k] = list[i]
<1> DEFINE keep == {i \in DOMAIN list : list[i] # t}
           n == Cardinality(keep)
<1>1. Len(list) \in Nat /\ DOMAIN list = 1 .. Len(list) /\ keep \in SUBSET (1 .. Len(list))
  BY LenProperties
<1>2. /\ n \in Nat
      /\ \A k \in 1 .. n : Nth(keep, k) \in keep
      /\ \A i \in keep : \E k \in 1 .. n : Nth(keep, k) = i
  BY <1>1, NthProperties
<1>3. Without(list, t) = [k \in 1 .. n |-> list[Nth(keep, k)]]
  BY DEF Without
<1>4. \A k \in 1 .. n : list[Nth(keep, k)] \in S /\ list[Nth(keep, k)] # t
  BY <1>1, <1>2, ElementOfSeq
<1> HIDE DEF n
<1>5. Without(list, t) \in [1 .. n -> S]
  BY <1>3, <1>4
<1>6. Without(list, t) \in Seq(S)
  BY <1>2, <1>5, SeqDef
<1>7. DOMAIN Without(list, t) = 1 .. n
  BY <1>3
<1> QED BY <1>1, <1>2, <1>3, <1>4, <1>6, <1>7

----------------------------------------------------------------------------
(* The slab and the registration outcomes.                                 *)

\* A world before or after a registration call.
World == [ok : BOOLEAN, reg : [Sources -> Token \cup {None}], hooks : Seq(Token)]

LEMMA VersionType ==
    ASSUME NEW v \in 0 .. VersionMod - 1
    PROVE  NextVersion(v) \in 0 .. VersionMod - 1
BY ConstantsAssumption DEF NextVersion

LEMMA LookupType ==
    ASSUME NEW sl \in Seq(Slot), NEW t \in Token
    PROVE  Lookup(sl, t) \in Sources \cup {None}
<1>1. DOMAIN sl = 1 .. Len(sl) /\ \A i \in DOMAIN sl : sl[i] \in Slot
  BY LenProperties, ElementOfSeq
<1> QED BY <1>1 DEF Lookup, Slot

\* Filling an entry keeps the slab a sequence of slots and the others as they were.
LEMMA FillEntryProperties ==
    ASSUME slots \in Seq(Slot), NEW id \in 1 .. Len(slots) + 1,
           EntryUses(id) <= MaxReuse, NEW s \in Sources \cup {None}
    PROVE  LET t == EntryToken(id)  filled == FillEntry(t, s) IN
           /\ t \in Token /\ t.id = id
           /\ filled \in Seq(Slot)
           /\ DOMAIN filled = DOMAIN slots \cup {id}
           /\ filled[id] = [version |-> t.version, source |-> s, uses |-> EntryUses(id)]
           /\ \A i \in DOMAIN slots : i # id => filled[i] = slots[i]
<1> DEFINE t == EntryToken(id)
           entry == [version |-> t.version, source |-> s, uses |-> EntryUses(id)]
<1>1. /\ Len(slots) \in Nat /\ DOMAIN slots = 1 .. Len(slots)
      /\ \A i \in DOMAIN slots : slots[i] \in Slot
  BY LenProperties, ElementOfSeq
<1>2. t \in Token /\ t.id = id
  <2> DEFINE v == IF id \in DOMAIN slots THEN NextVersion(slots[id].version) ELSE 0
  <2>1. v \in 0 .. VersionMod - 1
    <3>1. id \in DOMAIN slots => slots[id].version \in 0 .. VersionMod - 1
      BY <1>1 DEF Slot
    <3>2. 0 \in 0 .. VersionMod - 1
      BY ConstantsAssumption
    <3> QED BY <3>1, <3>2, VersionType
  <2>2. t = [id |-> id, version |-> v]
    BY DEF EntryToken
  <2> HIDE DEF v, t
  <2> QED BY <1>1, <2>1, <2>2 DEF Token
<1>3. entry \in Slot
  BY <1>1, <1>2, ConstantsAssumption DEF Slot, Token, EntryUses
<1>4. FillEntry(t, s) = IF id \in DOMAIN slots THEN [slots EXCEPT ![id] = entry]
                        ELSE Append(slots, entry)
  BY <1>2 DEF FillEntry
<1> HIDE DEF entry
<1>5. CASE id \in DOMAIN slots
  BY <1>1, <1>2, <1>3, <1>4, <1>5, ExceptSeq DEF entry
<1>6. CASE id \notin DOMAIN slots
  <2>1. id = Len(slots) + 1
    BY <1>1, <1>6
  <2>2. /\ Append(slots, entry) \in Seq(Slot)
        /\ Len(Append(slots, entry)) = Len(slots) + 1
        /\ \A i \in 1 .. Len(slots) : Append(slots, entry)[i] = slots[i]
        /\ Append(slots, entry)[Len(slots) + 1] = entry
    BY <1>3, AppendProperties
  <2>3. DOMAIN Append(slots, entry) = 1 .. Len(slots) + 1
    BY <2>2, LenProperties
  <2>4. FillEntry(t, s) = Append(slots, entry)
    BY <1>4, <1>6
  <2>5. 1 .. Len(slots) + 1 = (1 .. Len(slots)) \cup {Len(slots) + 1}
    BY <1>1
  <2> QED BY <2>1, <2>2, <2>3, <2>4, <2>5, <1>1, <1>2 DEF entry
<1> QED BY <1>5, <1>6

LEMMA VacateProperties ==
    ASSUME NEW sl \in Seq(Slot), NEW t \in Token
    PROVE  /\ Vacate(sl, t) \in Seq(Slot)
           /\ DOMAIN Vacate(sl, t) = DOMAIN sl
           /\ \A i \in DOMAIN sl : /\ Vacate(sl, t)[i].version = sl[i].version
                                   /\ Vacate(sl, t)[i].uses = sl[i].uses
                                   /\ Vacate(sl, t)[i].source \in {sl[i].source, None}
           /\ Lookup(Vacate(sl, t), t) = None
<1>1. Len(sl) \in Nat /\ DOMAIN sl = 1 .. Len(sl) /\ \A i \in DOMAIN sl : sl[i] \in Slot
  BY LenProperties, ElementOfSeq
<1>2. CASE Lookup(sl, t) = None
  BY <1>1, <1>2 DEF Vacate
<1>3. CASE Lookup(sl, t) # None
  <2> DEFINE e == [sl[t.id] EXCEPT !.source = None]
  <2>1. t.id \in DOMAIN sl
    BY <1>3 DEF Lookup
  <2>2. e \in Slot
    BY <1>1, <2>1 DEF Slot
  <2>3. Vacate(sl, t) = [sl EXCEPT ![t.id] = e]
    BY <1>3 DEF Vacate
  <2>4. e.version = sl[t.id].version /\ e.uses = sl[t.id].uses /\ e.source = None
    BY <1>1, <2>1 DEF Slot
  <2> HIDE DEF e
  <2>5. /\ Vacate(sl, t) \in Seq(Slot) /\ Len(Vacate(sl, t)) = Len(sl)
        /\ \A j \in 1 .. Len(sl) : Vacate(sl, t)[j] = IF j = t.id THEN e ELSE sl[j]
    BY <1>1, <2>1, <2>2, <2>3, ExceptSeq
  <2> QED BY <1>1, <2>1, <2>4, <2>5, LenProperties DEF Lookup
<1> QED BY <1>2, <1>3

LEMMA WithHookType ==
    ASSUME NEW s, NEW t \in Token, NEW hooks \in Seq(Token)
    PROVE  WithHook(s, t, hooks) \in Seq(Token)
BY AppendProperties DEF WithHook

\* What the three registration calls may do: the registration of no other
\* source changes, and s ends as before or as asked.
LEMMA OutcomeProperties ==
    ASSUME NEW s \in Sources, NEW t \in Token, NEW w \in World
    PROVE  /\ \A v \in Register(s, t, w) :
                 /\ v \in World /\ v.reg \in {w.reg, [w.reg EXCEPT ![s] = t]}
                 /\ ~v.ok => v.reg = w.reg
           /\ \A v \in Reregister(s, t, w) :
                 v \in World /\ v.reg \in {w.reg, [w.reg EXCEPT ![s] = t]}
           /\ \A v \in Unregister(s, t, w) :
                 v \in World /\ v.reg \in {w.reg, [w.reg EXCEPT ![s] = None]}
<1>1. /\ w.reg \in [Sources -> Token \cup {None}] /\ w.hooks \in Seq(Token)
      /\ WithHook(s, t, w.hooks) \in Seq(Token) /\ Without(w.hooks, t) \in Seq(Token)
  BY WithHookType, WithoutProperties DEF World
<1>2. /\ [w.reg EXCEPT ![s] = t] \in [Sources -> Token \cup {None}]
      /\ [w.reg EXCEPT ![s] = None] \in [Sources -> Token \cup {None}]
  BY <1>1
<1>3. \A v \in Register(s, t, w) :
         /\ v \in World /\ v.reg \in {w.reg, [w.reg EXCEPT ![s] = t]}
         /\ ~v.ok => v.reg = w.reg
  <2> DEFINE done   == [ok |-> TRUE,  reg |-> [w.reg EXCEPT ![s] = t], hooks |-> WithHook(s, t, w.hooks)]
             failed == [ok |-> FALSE, reg |-> w.reg, hooks |-> WithHook(s, t, w.hooks)]
  <2>1. Register(s, t, w) \subseteq {done, failed}
    BY DEF Register, Outcomes
  <2>2. done \in World /\ failed \in World
    BY <1>1, <1>2 DEF World
  <2>3. done.reg = [w.reg EXCEPT ![s] = t] /\ failed.reg = w.reg /\ done.ok
    OBVIOUS
  <2> HIDE DEF done, failed
  <2> QED BY <2>1, <2>2, <2>3
<1>4. \A v \in Reregister(s, t, w) :
         v \in World /\ v.reg \in {w.reg, [w.reg EXCEPT ![s] = t]}
  <2> DEFINE done   == [ok |-> TRUE,  reg |-> [w.reg EXCEPT ![s] = t], hooks |-> WithHook(s, t, w.hooks)]
             failed == [ok |-> FALSE, reg |-> w.reg, hooks |-> w.hooks]
  <2>1. Reregister(s, t, w) \subseteq {done, failed}
    BY DEF Reregister, Outcomes
  <2>2. done \in World /\ failed \in World
    BY <1>1, <1>2 DEF World
  <2>3. done.reg = [w.reg EXCEPT ![s] = t] /\ failed.reg = w.reg
    OBVIOUS
  <2> HIDE DEF done, failed
  <2> QED BY <2>1, <2>2, <2>3
<1>5. \A v \in Unregister(s, t, w) :
         v \in World /\ v.reg \in {w.reg, [w.reg EXCEPT ![s] = None]}
  <2> DEFINE done   == [ok |-> TRUE,  reg |-> [w.reg EXCEPT ![s] = None], hooks |-> IF s \in Lifecycle THEN Without(w.hooks, t) ELSE w.hooks]
             failed == [ok |-> FALSE, reg |-> w.reg, hooks |-> w.hooks]
  <2>1. Unregister(s, t, w) \subseteq {done, failed}
    BY DEF Unregister, Outcomes, WithoutHook
  <2>2. done \in World /\ failed \in World
    BY <1>1, <1>2 DEF World
  <2>3. done.reg = [w.reg EXCEPT ![s] = None] /\ failed.reg = w.reg
    OBVIOUS
  <2> HIDE DEF done, failed
  <2> QED BY <2>1, <2>2, <2>3
<1> QED BY <1>3, <1>4, <1>5

\* A batch is a sequence of the keys under which sources are registered.
LEMMA BatchProperties ==
    ASSUME reg \in [Sources -> Token \cup {None}], NEW b \in Batches
    PROVE  /\ b \in Seq(Event)
           /\ \A k \in DOMAIN b : \E s \in Sources :
                 reg[s] # None /\ b[k] = [tok |-> reg[s], src |-> s]
<1>0. PICK n \in 0 .. Cardinality(Registered) : \E q \in [1 .. n -> Registered] :
         b = [i \in DOMAIN q |-> [tok |-> reg[q[i]], src |-> q[i]]]
  BY DEF Batches
<1>1. PICK q \in [1 .. n -> Registered] :
         b = [i \in DOMAIN q |-> [tok |-> reg[q[i]], src |-> q[i]]]
  BY <1>0
<1>2. n \in Nat
  BY FS_Subset, FS_CardinalityType, ConstantsAssumption DEF Registered
<1>3. b = [i \in 1 .. n |-> [tok |-> reg[q[i]], src |-> q[i]]]
  BY <1>1
<1>4. \A i \in 1 .. n : q[i] \in Sources /\ reg[q[i]] # None /\ reg[q[i]] \in Token
  BY <1>1 DEF Registered
<1>5. b \in [1 .. n -> Event]
  BY <1>3, <1>4 DEF Event
<1> QED BY <1>2, <1>3, <1>4, <1>5, SeqDef

\* What applying a post action may do.
LEMMA ConcludeProperties ==
    ASSUME TypeOK, NEW s \in Sources, NEW t \in Token, NEW ret \in PostAction,
           NEW rest \in Seq(Event), Conclude(s, t, ret, rest)
    PROVE  /\ reg' \in [Sources -> Token \cup {None}] /\ lifecycle' \in Seq(Token)
           /\ \A x \in Sources : reg'[x] = reg[x] \/ (x = s /\ reg'[x] \in {t, None})
           /\ slots' \in {slots, Vacate(slots, t)}
           /\ pending' = "Continue" /\ running' = None
           /\ queue' \in {rest, <<>>}
           /\ pc' \in {"idle", "dispatch"}
           /\ hook' \in {1, hook}
           /\ UNCHANGED <<issued, synthetic, slept>>
<1> DEFINE action == Effective(ret)
           after  == IF action = "Remove" THEN Vacate(slots, t) ELSE slots
           first  == CASE action = "Reregister" -> Reregister(s, t, Now)
                       [] action = "Disable"    -> Unregister(s, t, Now)
                       [] OTHER                 -> {Now}
<1>1. Now \in World /\ Now.reg = reg
  BY DEF Now, World, TypeOK
<1>2. PICK w \in first :
         \/ ~w.ok /\ GoIdle /\ Becomes(w)
         \/ /\ w.ok
            /\ \E v \in IF RemovedMeanwhile(after, t) THEN Unregister(s, t, w) ELSE {w} :
                  Becomes(v)
            /\ pc' = "dispatch" /\ queue' = rest /\ running' = None /\ UNCHANGED hook
  BY DEF Conclude
<1>3. w \in World /\ w.reg \in {reg, [reg EXCEPT ![s] = t], [reg EXCEPT ![s] = None]}
  BY <1>1, OutcomeProperties
<1>4. PICK v \in World : /\ Becomes(v)
                         /\ v.reg \in {w.reg, [w.reg EXCEPT ![s] = None]}
  BY <1>2, <1>3, OutcomeProperties
<1>5. reg' = v.reg /\ lifecycle' = v.hooks
  BY <1>4 DEF Becomes
<1>6. /\ pending' = "Continue" /\ slots' = after
      /\ UNCHANGED <<issued, synthetic, slept>>
  BY DEF Conclude, PendingTaken
<1>7. /\ running' = None /\ queue' \in {rest, <<>>} /\ pc' \in {"idle", "dispatch"}
      /\ hook' \in {1, hook}
  BY <1>2 DEF GoIdle
<1>8. reg' \in [Sources -> Token \cup {None}] /\ lifecycle' \in Seq(Token)
  BY <1>4, <1>5 DEF World
<1>9. \A x \in Sources : reg'[x] = reg[x] \/ (x = s /\ reg'[x] \in {t, None})
  BY <1>3, <1>4, <1>5 DEF TypeOK
<1> QED BY <1>6, <1>7, <1>8, <1>9

----------------------------------------------------------------------------
(* Type correctness.  A callback runs exactly when an event is running.    *)

CallbackHasEvent == pc = "callback" <=> running # None

TypeInv == TypeOK /\ CallbackHasEvent

LEMMA TypeInit == Init => TypeInv
<1> SUFFICES ASSUME Init PROVE TypeInv
  OBVIOUS
<1>1. <<>> \in Seq(Slot) /\ <<>> \in Seq(Token) /\ <<>> \in Seq(Event)
  BY EmptySeq
<1> QED BY <1>1, ConstantsAssumption
        DEF Init, TypeInv, TypeOK, CallbackHasEvent, PostAction, Phases

\* The user's operations keep the types: each ends in the world of an outcome.
LEMMA TypeUserStep ==
    ASSUME TypeInv, UserStep
    PROVE  TypeInv'
<1> USE DEF TypeInv, CallbackHasEvent
<1>1. Now \in World /\ slots \in Seq(Slot)
  BY DEF Now, World, TypeOK
<1>2. \A w \in World : Becomes(w) =>
         reg' \in [Sources -> Token \cup {None}] /\ lifecycle' \in Seq(Token)
  BY DEF World, Becomes
<1>3. \A i \in issued : i.tok \in Token /\ i.src \in Sources
  BY DEF TypeOK, Event
<1>4. \A i \in issued : Get(i.tok) \in Sources \cup {None}
  BY <1>1, <1>3, LookupType DEF Get
<1>5. \A i \in issued : Get(i.tok) # None => Get(i.tok) \in Sources
  BY <1>4
<1>6. ASSUME NEW s \in Sources, Insert(s) PROVE TypeInv'
  <2>1. PICK id \in 1 .. Len(slots) + 1 :
          /\ EntryUses(id) <= MaxReuse
          /\ \E w \in Register(s, EntryToken(id), Now) :
                /\ slots' = FillEntry(EntryToken(id), IF w.ok THEN s ELSE None)
                /\ issued' = IF w.ok THEN issued \cup {[tok |-> EntryToken(id), src |-> s]}
                             ELSE issued
                /\ Becomes(w)
    BY <1>6 DEF Insert
  <2>2. PICK w \in Register(s, EntryToken(id), Now) :
                /\ slots' = FillEntry(EntryToken(id), IF w.ok THEN s ELSE None)
                /\ issued' = IF w.ok THEN issued \cup {[tok |-> EntryToken(id), src |-> s]}
                             ELSE issued
                /\ Becomes(w)
    BY <2>1
  <2>3. EntryToken(id) \in Token /\ slots' \in Seq(Slot)
    BY <1>1, <2>1, <2>2, FillEntryProperties
  <2>4. w \in World
    BY <1>1, <2>2, <2>3, OutcomeProperties
  <2>5. reg' \in [Sources -> Token \cup {None}] /\ lifecycle' \in Seq(Token)
    BY <1>2, <2>2, <2>4
  <2>6. issued' \subseteq Event
    BY <2>2, <2>3 DEF TypeOK, Event
  <2> QED BY <1>6, <2>3, <2>5, <2>6 DEF Insert, TypeOK, cycle
<1>7. ASSUME NEW i \in issued, Enable(i.tok) PROVE TypeInv'
  <2>1. PICK w \in Register(Get(i.tok), i.tok, Now) : Becomes(w)
    BY <1>7 DEF Enable
  <2>2. w \in World
    BY <1>1, <1>3, <1>5, <1>7, <2>1, OutcomeProperties DEF Enable
  <2> QED BY <1>2, <1>7, <2>1, <2>2 DEF Enable, TypeOK, cycle
<1>8. ASSUME NEW i \in issued, NEW action \in PostAction, Defer(i.tok, action) PROVE TypeInv'
  BY <1>8 DEF Defer, TypeOK, cycle, registry
<1>9. ASSUME NEW i \in issued, Update(i.tok) PROVE TypeInv'
  <2>1. CASE UpdateNow(i.tok)
    <3>1. PICK w \in Reregister(Get(i.tok), i.tok, Now) : Becomes(w)
      BY <2>1 DEF UpdateNow
    <3>2. w \in World
      BY <1>1, <1>3, <1>5, <2>1, <3>1, OutcomeProperties DEF UpdateNow
    <3> QED BY <1>2, <2>1, <3>1, <3>2 DEF UpdateNow, TypeOK, cycle
  <2>2. CASE Defer(i.tok, "Reregister")
    BY <1>8, <2>2 DEF PostAction
  <2> QED BY <1>9, <2>1, <2>2 DEF Update
<1>10. ASSUME NEW i \in issued, Disable(i.tok) PROVE TypeInv'
  <2>1. CASE DisableNow(i.tok)
    <3>1. PICK w \in Unregister(Get(i.tok), i.tok, Now) : Becomes(w)
      BY <2>1 DEF DisableNow
    <3>2. w \in World
      BY <1>1, <1>3, <1>5, <2>1, <3>1, OutcomeProperties DEF DisableNow
    <3> QED BY <1>2, <2>1, <3>1, <3>2 DEF DisableNow, TypeOK, cycle
  <2>2. CASE Defer(i.tok, "Disable")
    BY <1>8, <2>2 DEF PostAction
  <2> QED BY <1>10, <2>1, <2>2 DEF Disable
<1>11. ASSUME NEW i \in issued, Remove(i.tok) PROVE TypeInv'
  <2>1. PICK w \in IF Borrowed(Get(i.tok)) THEN {Now} ELSE Unregister(Get(i.tok), i.tok, Now) :
           Becomes(w)
    BY <1>11 DEF Remove
  <2>2. w \in World
    BY <1>1, <1>3, <1>5, <1>11, <2>1, OutcomeProperties DEF Remove
  <2>3. slots' \in Seq(Slot)
    BY <1>1, <1>3, <1>11, VacateProperties DEF Remove
  <2> QED BY <1>2, <1>11, <2>1, <2>2, <2>3 DEF Remove, TypeOK, cycle
<1> QED BY <1>6, <1>7, <1>9, <1>10, <1>11 DEF UserStep

\* So do the loop's own steps.
LEMMA TypeLoopSteps ==
    ASSUME TypeInv, Next, ~UserStep
    PROVE  TypeInv'
<1> USE DEF TypeInv, CallbackHasEvent
<1>1. \A t \in Token : Get(t) \in Sources \cup {None}
  BY LookupType DEF TypeOK, Get
<1>2. ASSUME NEW k \in DOMAIN lifecycle
      PROVE  lifecycle[k] \in Token /\ Get(lifecycle[k]) \in Sources \cup {None}
  BY <1>1, LenProperties, ElementOfSeq DEF TypeOK
<1>3. queue # <<>> => Head(queue) \in Event /\ Tail(queue) \in Seq(Event)
  BY HeadTailProperties DEF TypeOK
<1>4. CASE StartDispatch
  BY <1>4 DEF StartDispatch, TypeOK, registry, Phases
<1>5. CASE BeforeSleep
  <2>1. hook \in DOMAIN lifecycle
    BY <1>5 DEF BeforeSleep, Walking
  <2>2. Get(lifecycle[hook]) \in Sources \cup {None}
    BY <2>1, <1>2
  <2> QED BY <1>5, <2>2 DEF BeforeSleep, Walking, TypeOK, registry, Phases
<1>6. CASE BeforeSleepWithEvent
  <2> DEFINE s == Get(lifecycle[hook])
  <2>1. hook \in DOMAIN lifecycle /\ s \in Sources /\ reg[s] \in Token
    BY <1>6, <1>2 DEF BeforeSleepWithEvent, Walking, TypeOK
  <2>2. [tok |-> reg[s], src |-> s] \in Event
    BY <2>1 DEF Event
  <2>3. synthetic' \in Seq(Event)
    BY <1>6, <2>2, AppendProperties DEF BeforeSleepWithEvent, TypeOK
  <2> QED BY <1>6, <2>1, <2>3 DEF BeforeSleepWithEvent, Walking, TypeOK, registry
<1>7. ASSUME GoIdle, UNCHANGED <<registry, pending, synthetic, slept>> PROVE TypeInv'
  BY <1>7, EmptySeq DEF GoIdle, TypeOK, registry, Phases
<1>8. CASE BeforeSleepError
  BY <1>7, <1>8 DEF BeforeSleepError
<1>9. CASE Poll
  BY <1>9, BatchProperties DEF Poll, Walked, TypeOK, registry, Phases
<1>10. CASE PollInterrupted
  BY <1>7, <1>10 DEF PollInterrupted
<1>11. CASE BeforeHandleEvents
  BY <1>11 DEF BeforeHandleEvents, Walking, Awake, TypeOK, registry
<1>12. CASE StartEvents
  <2>1. synthetic \o queue \in Seq(Event) /\ <<>> \in Seq(Event)
    BY ConcatProperties, EmptySeq DEF TypeOK
  <2> QED BY <1>12, <2>1 DEF StartEvents, Walked, TypeOK, registry, Phases
<1>13. CASE StaleEvent
  BY <1>3, <1>13 DEF StaleEvent, AfterStale, TypeOK, registry
<1>14. CASE BeginCallback
  <2> DEFINE e == Head(queue)
  <2>1. e \in Event /\ Get(e.tok) \in Sources /\ Tail(queue) \in Seq(Event)
    BY <1>1, <1>3, <1>14 DEF BeginCallback, Event
  <2>2. [tok |-> e.tok, src |-> Get(e.tok), polled |-> e.src] \in Run
    BY <2>1 DEF Event, Run
  <2>3. running' = [tok |-> e.tok, src |-> Get(e.tok), polled |-> e.src]
    BY <1>14 DEF BeginCallback
  <2>4. running' # None
    BY <2>2, <2>3, ConstantsAssumption DEF Run
  <2> QED BY <1>14, <2>1, <2>2, <2>3, <2>4 DEF BeginCallback, TypeOK, registry, Phases
<1>15. ASSUME NEW s \in Sources, NEW t \in Token, NEW ret \in PostAction,
              NEW rest \in Seq(Event), Conclude(s, t, ret, rest)
       PROVE  TypeInv'
  <2>1. slots' \in Seq(Slot)
    <3>1. Vacate(slots, t) \in Seq(Slot)
      BY VacateProperties DEF TypeOK
    <3> QED BY <1>15, <3>1, ConcludeProperties DEF TypeOK
  <2>2. queue' \in {rest, <<>>} /\ hook' \in {1, hook} /\ pending' = "Continue"
    BY <1>15, ConcludeProperties
  <2>3. queue' \in Seq(Event)
    BY <2>2, EmptySeq
  <2>4. hook' \in Nat \ {0} /\ pending' \in PostAction
    BY <2>2 DEF TypeOK, PostAction
  <2> QED BY <1>15, <2>1, <2>3, <2>4, ConcludeProperties DEF TypeOK, Phases
<1>16. ASSUME NEW ret \in PostAction, Return(ret) PROVE TypeInv'
  BY <1>15, <1>16 DEF Return, TypeOK, Run
<1>17. CASE SkipEvent
  <2>1. Head(queue).tok \in Token /\ Get(Head(queue).tok) \in Sources /\ "Continue" \in PostAction
    BY <1>1, <1>3, <1>17 DEF SkipEvent, Event, PostAction
  <2> QED BY <1>3, <1>15, <1>17, <2>1 DEF SkipEvent
<1>18. CASE CallbackError
  BY <1>7, <1>18 DEF CallbackError
<1>19. CASE EndDispatch
  BY <1>7, <1>19 DEF EndDispatch
<1> QED BY <1>4, <1>5, <1>6, <1>8, <1>9, <1>10, <1>11, <1>12, <1>13, <1>14, <1>16, <1>17,
           <1>18, <1>19 DEF Next, LoopStep

LEMMA TypeStep == TypeInv /\ [Next]_vars => TypeInv'
<1>1. ASSUME TypeInv, UNCHANGED vars PROVE TypeInv'
  BY <1>1 DEF TypeInv, TypeOK, CallbackHasEvent, vars, registry, cycle
<1> QED BY <1>1, TypeUserStep, TypeLoopSteps

\* In every reachable state the variables have their types.
THEOREM TypeCorrect == Spec => []TypeOK
<1>1. TypeInv => TypeOK
  BY DEF TypeInv
<1> QED BY <1>1, TypeInit, TypeStep, PTL DEF Spec

----------------------------------------------------------------------------
(* Token safety.  As long as no slot is filled more often than there are   *)
(* versions, a slot's version only grows, so the tokens given out for      *)
(* earlier sources of the slot never match again; and every token in the   *)
(* poller, in the batch and in the running event was given out, to the     *)
(* source it is used for.                                                  *)

VersionIsReuse == \A id \in DOMAIN slots : slots[id].version = slots[id].uses - 1

IssuedInOrder ==
    \A i \in issued :
        /\ i.tok.id \in DOMAIN slots
        /\ i.tok.version <= slots[i.tok.id].version
        /\ i.tok.version = slots[i.tok.id].version => slots[i.tok.id].source \in {i.src, None}

KeysAreIssued == \A s \in Sources : reg[s] # None => [tok |-> reg[s], src |-> s] \in issued

EventsAreIssued ==
    /\ \A k \in DOMAIN queue : queue[k] \in issued
    /\ \A k \in DOMAIN synthetic : synthetic[k] \in issued

RunningIsIssued ==
    running # None => /\ [tok |-> running.tok, src |-> running.src] \in issued
                      /\ running.src = running.polled

SlabInv  == VersionIsReuse /\ IssuedInOrder
TokenInv == TypeInv /\ SlabInv /\ KeysAreIssued /\ EventsAreIssued /\ RunningIsIssued

LEMMA TokenInit == Init => TokenInv
<1> SUFFICES ASSUME Init PROVE TokenInv
  OBVIOUS
<1>1. DOMAIN <<>> = {}
  OBVIOUS
<1> QED BY <1>1, TypeInit DEF Init, TokenInv, SlabInv, VersionIsReuse, IssuedInOrder,
           KeysAreIssued, EventsAreIssued, RunningIsIssued

\* A token that was given out resolves to its source or to nothing.
LEMMA IssuedResolve ==
    ASSUME SlabInv
    PROVE  \A i \in issued : Get(i.tok) \in {i.src, None}
BY DEF SlabInv, IssuedInOrder, Get, Lookup, SameVersion

LEMMA VersionGrows ==
    ASSUME NEW v \in Nat, v + 1 < VersionMod
    PROVE  NextVersion(v) = v + 1
BY ConstantsAssumption DEF NextVersion

\* A filled slot has a version that none of its tokens has.
LEMMA SlabFill ==
    ASSUME MaxReuse <= VersionMod, TypeOK, SlabInv,
           NEW id \in 1 .. Len(slots) + 1, EntryUses(id) <= MaxReuse,
           NEW s \in Sources, NEW ok \in BOOLEAN,
           id \in DOMAIN slots => slots[id].source = None,
           slots' = FillEntry(EntryToken(id), IF ok THEN s ELSE None),
           issued' = IF ok THEN issued \cup {[tok |-> EntryToken(id), src |-> s]} ELSE issued
    PROVE  SlabInv'
<1> DEFINE t == EntryToken(id)
           src == IF ok THEN s ELSE None
<1>1. /\ t \in Token /\ t.id = id
      /\ DOMAIN slots' = DOMAIN slots \cup {id}
      /\ slots'[id] = [version |-> t.version, source |-> src, uses |-> EntryUses(id)]
      /\ \A i \in DOMAIN slots : i # id => slots'[i] = slots[i]
  <2>1. src \in Sources \cup {None} /\ slots' = FillEntry(t, src) /\ slots \in Seq(Slot)
    BY DEF TypeOK
  <2>2. \A o \in Sources \cup {None} :
          LET filled == FillEntry(t, o) IN
          /\ t \in Token /\ t.id = id
          /\ DOMAIN filled = DOMAIN slots \cup {id}
          /\ filled[id] = [version |-> t.version, source |-> o, uses |-> EntryUses(id)]
          /\ \A i \in DOMAIN slots : i # id => filled[i] = slots[i]
    BY <2>1, FillEntryProperties
  <2> HIDE DEF src, t
  <2> QED BY <2>1, <2>2
<1>2. \A i \in DOMAIN slots : slots[i] \in Slot
  BY LenProperties, ElementOfSeq DEF TypeOK
<1>3. t.version = EntryUses(id) - 1
  <2>1. CASE id \in DOMAIN slots
    <3>1. slots[id].version \in Nat /\ slots[id].version + 1 = slots[id].uses
      BY <1>2, <2>1, ConstantsAssumption DEF Slot, SlabInv, VersionIsReuse
    <3>2. slots[id].version + 1 < VersionMod
      BY <2>1, <3>1, ConstantsAssumption DEF EntryUses
    <3> QED BY <2>1, <3>1, <3>2, VersionGrows DEF EntryToken, EntryUses
  <2>2. CASE id \notin DOMAIN slots
    BY <2>2 DEF EntryToken, EntryUses
  <2> QED BY <2>1, <2>2
<1>4. VersionIsReuse'
  BY <1>1, <1>3 DEF SlabInv, VersionIsReuse
<1>5. id \in DOMAIN slots => slots[id].version \in Int /\ slots[id].version < t.version
  BY <1>2, <1>3, ConstantsAssumption DEF SlabInv, VersionIsReuse, EntryUses, Slot
<1>6. ASSUME NEW i \in issued
      PROVE  /\ i.tok.id \in DOMAIN slots'
             /\ i.tok.version <= slots'[i.tok.id].version
             /\ i.tok.version = slots'[i.tok.id].version
                  => slots'[i.tok.id].source \in {i.src, None}
  <2>1. /\ i.tok.id \in DOMAIN slots /\ i.tok.version <= slots[i.tok.id].version
        /\ i.tok.version = slots[i.tok.id].version => slots[i.tok.id].source \in {i.src, None}
    BY DEF SlabInv, IssuedInOrder
  <2>2. i.tok.version \in Int /\ t.version \in Int
    BY <1>1, ConstantsAssumption DEF TypeOK, Event, Token
  <2>3. CASE i.tok.id = id
    <3>1. i.tok.version < t.version
      BY <1>5, <2>1, <2>2, <2>3
    <3> QED BY <1>1, <2>1, <2>2, <2>3, <3>1
  <2>4. CASE i.tok.id # id
    BY <1>1, <2>1, <2>4
  <2> QED BY <2>3, <2>4
<1>7. t.version <= slots'[id].version /\ id \in DOMAIN slots' /\ (ok => slots'[id].source = s)
  BY <1>1, ConstantsAssumption DEF Token
<1>8. IssuedInOrder'
  <2> SUFFICES ASSUME NEW i \in issued'
               PROVE  /\ i.tok.id \in DOMAIN slots'
                      /\ i.tok.version <= slots'[i.tok.id].version
                      /\ i.tok.version = slots'[i.tok.id].version
                           => slots'[i.tok.id].source \in {i.src, None}
    BY DEF IssuedInOrder
  <2>1. CASE i \in issued
    BY <1>6, <2>1
  <2>2. CASE i \notin issued
    <3>1. ok /\ i = [tok |-> t, src |-> s]
      BY <2>2
    <3>2. i.tok = t /\ i.src = s
      BY <3>1
    <3> QED BY <1>1, <1>7, <3>1, <3>2
  <2> QED BY <2>1, <2>2
<1> QED BY <1>4, <1>8 DEF SlabInv

LEMMA SlabVacate ==
    ASSUME TypeOK, SlabInv, NEW t \in Token,
           slots' \in {slots, Vacate(slots, t)}, UNCHANGED issued
    PROVE  SlabInv'
<1>1. /\ DOMAIN slots' = DOMAIN slots
      /\ \A i \in DOMAIN slots : /\ slots'[i].version = slots[i].version
                                 /\ slots'[i].uses = slots[i].uses
                                 /\ slots'[i].source \in {slots[i].source, None}
  BY VacateProperties DEF TypeOK
<1>2. VersionIsReuse'
  BY <1>1 DEF SlabInv, VersionIsReuse
<1>3. IssuedInOrder'
  BY <1>1 DEF SlabInv, IssuedInOrder
<1> QED BY <1>2, <1>3 DEF SlabInv

\* A registration changed under a token of its source keeps the keys issued.
LEMMA KeysStep ==
    ASSUME KeysAreIssued, issued \subseteq issued', NEW s \in Sources, NEW t,
           \A x \in Sources : reg'[x] = reg[x] \/ (x = s /\ reg'[x] \in {t, None}),
           reg'[s] = t => t = None \/ reg[s] = t \/ [tok |-> t, src |-> s] \in issued'
    PROVE  KeysAreIssued'
BY DEF KeysAreIssued

LEMMA TokenUserStep ==
    ASSUME MaxReuse <= VersionMod, TokenInv, UserStep
    PROVE  TokenInv'
<1>1. TypeInv'
  BY TypeUserStep DEF TokenInv
<1>2. TypeOK /\ Now \in World /\ Now.reg = reg
  BY DEF TokenInv, TypeInv, TypeOK, Now, World
<1>3. \A i \in issued : i.tok \in Token /\ i.src \in Sources /\ i = [tok |-> i.tok, src |-> i.src]
  BY <1>2 DEF TypeOK, Event
<1>4. \A i \in issued : Get(i.tok) # None => Get(i.tok) = i.src
  BY IssuedResolve DEF TokenInv
<1>5. ASSUME UNCHANGED <<synthetic, queue, running>>, issued \subseteq issued'
      PROVE  EventsAreIssued' /\ RunningIsIssued'
  BY <1>5 DEF TokenInv, EventsAreIssued, RunningIsIssued
<1>6. ASSUME NEW i \in issued, UNCHANGED issued, Get(i.tok) # None,
             reg' \in {reg, [reg EXCEPT ![Get(i.tok)] = i.tok], [reg EXCEPT ![Get(i.tok)] = None]}
      PROVE  KeysAreIssued'
  BY <1>2, <1>3, <1>4, <1>6 DEF TokenInv, KeysAreIssued, TypeOK
<1>7. ASSUME UNCHANGED <<slots, issued>> PROVE SlabInv'
  BY <1>7 DEF TokenInv, SlabInv, VersionIsReuse, IssuedInOrder
<1>8. ASSUME NEW s \in Sources, Insert(s) PROVE TokenInv'
  <2>1. PICK id \in 1 .. Len(slots) + 1 :
          /\ IsVacantEntry(id)
          /\ EntryUses(id) <= MaxReuse
          /\ \E w \in Register(s, EntryToken(id), Now) :
                /\ slots' = FillEntry(EntryToken(id), IF w.ok THEN s ELSE None)
                /\ issued' = IF w.ok THEN issued \cup {[tok |-> EntryToken(id), src |-> s]}
                             ELSE issued
                /\ Becomes(w)
    BY <1>8 DEF Insert
  <2> DEFINE t == EntryToken(id)
  <2>2. PICK w \in Register(s, t, Now) :
                /\ slots' = FillEntry(t, IF w.ok THEN s ELSE None)
                /\ issued' = IF w.ok THEN issued \cup {[tok |-> t, src |-> s]} ELSE issued
                /\ Becomes(w)
    BY <2>1
  <2>3. t \in Token
    BY <1>2, <2>1, FillEntryProperties DEF TypeOK
  <2>4. w \in World /\ w.reg \in {reg, [reg EXCEPT ![s] = t]} /\ (~w.ok => w.reg = reg)
    BY <1>2, <2>2, <2>3, OutcomeProperties
  <2>5. w.ok \in BOOLEAN
    BY <2>4 DEF World
  <2>6. SlabInv'
    BY <1>2, <2>1, <2>2, <2>5, SlabFill DEF TokenInv, IsVacantEntry
  <2>7. KeysAreIssued'
    <3>1. CASE w.ok
      BY <1>2, <2>2, <2>4, <3>1 DEF TokenInv, KeysAreIssued, TypeOK, Becomes
    <3>2. CASE ~w.ok
      BY <2>2, <2>4, <3>2 DEF TokenInv, KeysAreIssued, Becomes
    <3> QED BY <3>1, <3>2
  <2>8. UNCHANGED <<synthetic, queue, running>> /\ issued \subseteq issued'
    BY <1>8, <2>2 DEF Insert, cycle
  <2> QED BY <1>1, <1>5, <2>6, <2>7, <2>8 DEF TokenInv
<1>9. ASSUME NEW i \in issued, Enable(i.tok) PROVE TokenInv'
  <2>1. PICK w \in Register(Get(i.tok), i.tok, Now) : Becomes(w)
    BY <1>9 DEF Enable
  <2>2. reg' \in {reg, [reg EXCEPT ![Get(i.tok)] = i.tok]}
    BY <1>2, <1>3, <1>4, <1>9, <2>1, OutcomeProperties DEF Enable, Becomes
  <2> QED BY <1>1, <1>5, <1>6, <1>7, <1>9, <2>2 DEF Enable, TokenInv, cycle
<1>10. ASSUME NEW i \in issued, NEW action, Defer(i.tok, action) PROVE TokenInv'
  BY <1>1, <1>5, <1>7, <1>10 DEF Defer, TokenInv, KeysAreIssued, registry, cycle
<1>11. ASSUME NEW i \in issued, Update(i.tok) PROVE TokenInv'
  <2>1. CASE UpdateNow(i.tok)
    <3>1. PICK w \in Reregister(Get(i.tok), i.tok, Now) : Becomes(w)
      BY <2>1 DEF UpdateNow
    <3>2. reg' \in {reg, [reg EXCEPT ![Get(i.tok)] = i.tok]}
      BY <1>2, <1>3, <1>4, <2>1, <3>1, OutcomeProperties DEF UpdateNow, Becomes
    <3> QED BY <1>1, <1>5, <1>6, <1>7, <2>1, <3>2 DEF UpdateNow, TokenInv, cycle
  <2> QED BY <1>10, <1>11, <2>1 DEF Update
<1>12. ASSUME NEW i \in issued, Disable(i.tok) PROVE TokenInv'
  <2>1. CASE DisableNow(i.tok)
    <3>1. PICK w \in Unregister(Get(i.tok), i.tok, Now) : Becomes(w)
      BY <2>1 DEF DisableNow
    <3>2. reg' \in {reg, [reg EXCEPT ![Get(i.tok)] = None]}
      BY <1>2, <1>3, <1>4, <2>1, <3>1, OutcomeProperties DEF DisableNow, Becomes
    <3> QED BY <1>1, <1>5, <1>6, <1>7, <2>1, <3>2 DEF DisableNow, TokenInv, cycle
  <2> QED BY <1>10, <1>12, <2>1 DEF Disable
<1>13. ASSUME NEW i \in issued, Remove(i.tok) PROVE TokenInv'
  <2>1. PICK w \in IF Borrowed(Get(i.tok)) THEN {Now} ELSE Unregister(Get(i.tok), i.tok, Now) :
           Becomes(w)
    BY <1>13 DEF Remove
  <2>2. reg' \in {reg, [reg EXCEPT ![Get(i.tok)] = None]}
    BY <1>2, <1>3, <1>4, <1>13, <2>1, OutcomeProperties DEF Remove, Becomes
  <2>3. SlabInv'
    BY <1>2, <1>3, <1>13, SlabVacate DEF Remove, TokenInv
  <2> QED BY <1>1, <1>5, <1>6, <1>13, <2>2, <2>3 DEF Remove, TokenInv, cycle
<1> QED BY <1>8, <1>9, <1>11, <1>12, <1>13 DEF UserStep

LEMMA TokenLoopSteps ==
    ASSUME MaxReuse <= VersionMod, TokenInv, Next, ~UserStep
    PROVE  TokenInv'
<1>1. TypeInv'
  BY TypeLoopSteps DEF TokenInv
<1>2. TypeOK /\ CallbackHasEvent
  BY DEF TokenInv, TypeInv
<1>3. \A t \in Token : Get(t) \in Sources \cup {None}
  BY <1>2, LookupType DEF TypeOK, Get
<1>4. ASSUME NEW q \in Seq(Event), q # <<>>, \A k \in DOMAIN q : q[k] \in issued
      PROVE  Head(q) \in issued /\ \A k \in DOMAIN Tail(q) : Tail(q)[k] \in issued
  <2>1. /\ Len(q) \in Nat /\ DOMAIN q = 1 .. Len(q) /\ Head(q) = q[1]
        /\ Tail(q) \in Seq(Event) /\ Len(Tail(q)) = Len(q) - 1
        /\ \A k \in 1 .. Len(Tail(q)) : Tail(q)[k] = q[k + 1]
    BY <1>4, HeadTailProperties, LenProperties
  <2>2. 1 \in DOMAIN q
    BY <1>4, <2>1, EmptySeq
  <2>3. DOMAIN Tail(q) = 1 .. Len(q) - 1
    BY <2>1, LenProperties
  <2> QED BY <1>4, <2>1, <2>2, <2>3
<1>5. queue # <<>> =>
        Head(queue) \in issued /\ \A k \in DOMAIN Tail(queue) : Tail(queue)[k] \in issued
  BY <1>2, <1>4 DEF TypeOK, TokenInv, EventsAreIssued
<1>6. \A k \in DOMAIN <<>> : <<>>[k] \in issued
  OBVIOUS
<1>7. ASSUME UNCHANGED registry PROVE SlabInv' /\ KeysAreIssued'
  BY <1>7 DEF TokenInv, SlabInv, VersionIsReuse, IssuedInOrder, KeysAreIssued, registry
<1>8. ASSUME UNCHANGED <<issued, running>> PROVE RunningIsIssued'
  BY <1>8 DEF TokenInv, RunningIsIssued
<1>9. ASSUME UNCHANGED <<issued, queue, synthetic>> PROVE EventsAreIssued'
  BY <1>9 DEF TokenInv, EventsAreIssued
<1>10. CASE StartDispatch
  BY <1>1, <1>7, <1>8, <1>9, <1>10 DEF StartDispatch, TokenInv, registry
<1>11. CASE BeforeSleep
  BY <1>1, <1>7, <1>8, <1>9, <1>11 DEF BeforeSleep, TokenInv, registry
<1>12. CASE BeforeSleepWithEvent
  <2> DEFINE s == Get(lifecycle[hook])
             e == [tok |-> reg[s], src |-> s]
  <2>1. hook \in DOMAIN lifecycle /\ s # None /\ reg[s] # None
    BY <1>12 DEF BeforeSleepWithEvent, Walking
  <2>2. s \in Sources
    BY <1>2, <1>3, <2>1, LenProperties, ElementOfSeq DEF TypeOK
  <2>3. e \in issued
    BY <2>1, <2>2 DEF TokenInv, KeysAreIssued
  <2>4. e \in Event
    BY <1>2, <2>3 DEF TypeOK
  <2>5. synthetic' = Append(synthetic, e) /\ UNCHANGED <<registry, queue, running>>
    BY <1>12 DEF BeforeSleepWithEvent
  <2> HIDE DEF e
  <2>6. \A k \in DOMAIN synthetic' : synthetic'[k] \in issued
    <3>1. /\ Len(synthetic) \in Nat /\ DOMAIN synthetic = 1 .. Len(synthetic)
          /\ synthetic' \in Seq(Event) /\ Len(synthetic') = Len(synthetic) + 1
          /\ \A k \in 1 .. Len(synthetic) : synthetic'[k] = synthetic[k]
          /\ synthetic'[Len(synthetic) + 1] = e
      BY <1>2, <2>4, <2>5, AppendProperties, LenProperties DEF TypeOK
    <3>2. DOMAIN synthetic' = 1 .. Len(synthetic) + 1
      BY <3>1, LenProperties
    <3>3. \A k \in 1 .. Len(synthetic) : synthetic[k] \in issued
      BY <3>1 DEF TokenInv, EventsAreIssued
    <3> QED BY <2>3, <3>1, <3>2, <3>3
  <2>7. EventsAreIssued'
    BY <2>5, <2>6 DEF TokenInv, EventsAreIssued, registry
  <2> QED BY <1>1, <1>7, <1>8, <2>5, <2>7 DEF TokenInv, registry
<1>13. ASSUME GoIdle, UNCHANGED <<registry, synthetic>> PROVE TokenInv'
  BY <1>1, <1>6, <1>7, <1>13
     DEF GoIdle, TokenInv, EventsAreIssued, RunningIsIssued, registry
<1>14. CASE BeforeSleepError
  BY <1>13, <1>14 DEF BeforeSleepError
<1>15. CASE Poll
  <2>1. queue' \in Batches /\ UNCHANGED <<registry, synthetic, running>>
    BY <1>15 DEF Poll
  <2>2. \A k \in DOMAIN queue' : queue'[k] \in issued
    BY <1>2, <2>1, BatchProperties DEF TypeOK, TokenInv, KeysAreIssued
  <2>3. EventsAreIssued'
    BY <2>1, <2>2 DEF TokenInv, EventsAreIssued, registry
  <2> QED BY <1>1, <1>7, <1>8, <2>1, <2>3 DEF TokenInv, registry
<1>16. CASE PollInterrupted
  BY <1>13, <1>16 DEF PollInterrupted
<1>17. CASE BeforeHandleEvents
  BY <1>1, <1>7, <1>8, <1>9, <1>17 DEF BeforeHandleEvents, TokenInv, registry
<1>18. CASE StartEvents
  <2>1. queue' = synthetic \o queue /\ synthetic' = <<>> /\ UNCHANGED <<registry, running>>
    BY <1>18 DEF StartEvents
  <2>2. \A k \in DOMAIN queue' : queue'[k] \in issued
    <3>1. /\ Len(synthetic) \in Nat /\ DOMAIN synthetic = 1 .. Len(synthetic)
          /\ Len(queue) \in Nat /\ DOMAIN queue = 1 .. Len(queue)
          /\ queue' \in Seq(Event) /\ Len(queue') = Len(synthetic) + Len(queue)
          /\ \A k \in 1 .. Len(synthetic) + Len(queue) :
                queue'[k] = IF k <= Len(synthetic) THEN synthetic[k]
                            ELSE queue[k - Len(synthetic)]
      BY <1>2, <2>1, ConcatProperties, LenProperties DEF TypeOK
    <3>2. DOMAIN queue' = 1 .. Len(synthetic) + Len(queue)
      BY <3>1, LenProperties
    <3> QED BY <3>1, <3>2 DEF TokenInv, EventsAreIssued
  <2>3. EventsAreIssued'
    BY <1>6, <2>1, <2>2 DEF EventsAreIssued, registry
  <2> QED BY <1>1, <1>7, <1>8, <2>1, <2>3 DEF TokenInv, registry
<1>19. CASE StaleEvent
  <2>1. EventsAreIssued'
    BY <1>5, <1>19 DEF StaleEvent, AfterStale, TokenInv, EventsAreIssued, registry
  <2> QED BY <1>1, <1>7, <1>8, <1>19, <2>1 DEF StaleEvent, TokenInv, registry
<1>20. CASE BeginCallback
  <2> DEFINE e == Head(queue)
  <2>1. /\ e \in issued /\ Get(e.tok) = e.src
        /\ UNCHANGED <<registry, synthetic>> /\ queue' = Tail(queue)
        /\ running' = [tok |-> e.tok, src |-> Get(e.tok), polled |-> e.src]
    BY <1>5, <1>20, IssuedResolve DEF BeginCallback, TokenInv
  <2>2. e = [tok |-> e.tok, src |-> e.src]
    BY <1>2, <2>1 DEF TypeOK, Event
  <2> HIDE DEF e
  <2>3. /\ running'.tok = e.tok /\ running'.src = e.src /\ running'.polled = e.src
    BY <2>1
  <2>4. RunningIsIssued'
    BY <2>1, <2>2, <2>3 DEF RunningIsIssued, registry
  <2>5. EventsAreIssued'
    BY <1>5, <1>20, <2>1 DEF BeginCallback, TokenInv, EventsAreIssued, registry
  <2> QED BY <1>1, <1>7, <2>1, <2>4, <2>5 DEF TokenInv
<1>21. ASSUME NEW s \in Sources, NEW t \in Token, NEW ret \in PostAction,
              NEW rest \in Seq(Event), Conclude(s, t, ret, rest),
              [tok |-> t, src |-> s] \in issued, \A k \in DOMAIN rest : rest[k] \in issued
       PROVE  TokenInv'
  <2>1. /\ \A x \in Sources : reg'[x] = reg[x] \/ (x = s /\ reg'[x] \in {t, None})
        /\ slots' \in {slots, Vacate(slots, t)}
        /\ running' = None /\ queue' \in {rest, <<>>}
        /\ UNCHANGED <<issued, synthetic>>
    BY <1>2, <1>21, ConcludeProperties
  <2>2. SlabInv'
    BY <1>2, <2>1, SlabVacate DEF TokenInv
  <2>3. KeysAreIssued'
    BY <1>21, <2>1, KeysStep DEF TokenInv
  <2>4. EventsAreIssued'
    BY <1>6, <1>21, <2>1 DEF TokenInv, EventsAreIssued
  <2>5. RunningIsIssued'
    BY <2>1 DEF RunningIsIssued
  <2> QED BY <1>1, <2>2, <2>3, <2>4, <2>5 DEF TokenInv
<1>22. ASSUME NEW ret \in PostAction, Return(ret) PROVE TokenInv'
  <2>1. /\ running # None /\ running.src \in Sources /\ running.tok \in Token
        /\ queue \in Seq(Event) /\ Conclude(running.src, running.tok, ret, queue)
    BY <1>2, <1>22 DEF Return, TypeOK, CallbackHasEvent, Run
  <2> QED BY <1>21, <2>1 DEF TokenInv, RunningIsIssued, EventsAreIssued
<1>23. CASE SkipEvent
  <2> DEFINE e == Head(queue)
  <2>1. /\ e \in issued /\ Get(e.tok) = e.src /\ queue # <<>>
        /\ Conclude(e.src, e.tok, "Continue", Tail(queue))
    BY <1>5, <1>23, IssuedResolve DEF SkipEvent, TokenInv
  <2>2. e.src \in Sources /\ e.tok \in Token /\ e = [tok |-> e.tok, src |-> e.src]
    BY <1>2, <2>1 DEF TypeOK, Event
  <2>3. Tail(queue) \in Seq(Event) /\ "Continue" \in PostAction
    BY <1>2, <2>1, HeadTailProperties DEF TypeOK, PostAction
  <2> QED BY <1>5, <1>21, <2>1, <2>2, <2>3
<1>24. CASE CallbackError
  BY <1>13, <1>24 DEF CallbackError
<1>25. CASE EndDispatch
  BY <1>13, <1>25 DEF EndDispatch
<1> QED BY <1>10, <1>11, <1>12, <1>14, <1>15, <1>16, <1>17, <1>18, <1>19, <1>20, <1>22,
           <1>23, <1>24, <1>25 DEF Next, LoopStep

LEMMA TokenStep == MaxReuse <= VersionMod /\ TokenInv /\ [Next]_vars => TokenInv'
<1>1. ASSUME TokenInv, UNCHANGED vars PROVE TokenInv'
  <2>1. TypeInv'
    BY <1>1, TypeStep DEF TokenInv
  <2> QED BY <1>1, <2>1 DEF TokenInv, SlabInv, VersionIsReuse, IssuedInOrder, KeysAreIssued,
             EventsAreIssued, RunningIsIssued, vars, registry, cycle
<1> QED BY <1>1, TokenUserStep, TokenLoopSteps

\* While no slot is filled more often than there are versions, a registration
\* token never resolves to another source than its own, and an event reaches
\* the callback of the source it was polled for, whatever faults occur.
THEOREM TokenSafety ==
    ASSUME MaxReuse <= VersionMod
    PROVE  Spec => [](TokensResolveToTheirSource /\ EventsReachTheirSource)
<1>1. TokenInv => TokensResolveToTheirSource /\ EventsReachTheirSource
  BY IssuedResolve
     DEF TokenInv, TokensResolveToTheirSource, RunningIsIssued, EventsReachTheirSource
<1>2. TokenInv /\ [Next]_vars => TokenInv'
  BY TokenStep
<1> QED BY <1>1, <1>2, TokenInit, PTL DEF Spec
----------------------------------------------------------------------------
(* The registrations: who owns the poller's keys and the entries of the    *)
(* lifecycle list, what a callback defers, the walks over the list, and    *)
(* the registry of sources that the loop implements.                       *)
(*                                                                         *)
(* Most of it holds when no call of a source fails, and TLC shows that it  *)
(* does not hold otherwise: a failed unregister leaves a registration and  *)
(* a hook behind, a failed callback leaves its pending action.             *)

\* Registering, changing and deleting fails only where the poller must refuse;
\* callbacks succeed; and no slot is filled more often than it has versions.
NoFailure == Faulty = {} /\ Erring = {} /\ MaxReuse <= VersionMod

----------------------------------------------------------------------------
(* The outcome of a call that cannot fail by itself is determined.         *)

Hooked(hooks, t) == \E k \in DOMAIN hooks : hooks[k] = t

LEMMA HookedWith ==
    ASSUME NEW s, NEW t \in Token, NEW hooks \in Seq(Token), NEW u
    PROVE  Hooked(WithHook(s, t, hooks), u) <=> Hooked(hooks, u) \/ (s \in Lifecycle /\ u = t)
  <1>1. /\ Len(hooks) \in Nat /\ DOMAIN hooks = 1 .. Len(hooks)
        /\ Append(hooks, t) \in Seq(Token) /\ Len(Append(hooks, t)) = Len(hooks) + 1
        /\ \A k \in 1 .. Len(hooks) : Append(hooks, t)[k] = hooks[k]
        /\ Append(hooks, t)[Len(hooks) + 1] = t
    BY LenProperties, AppendProperties
  <1>2. DOMAIN Append(hooks, t) = (1 .. Len(hooks)) \cup {Len(hooks) + 1}
    BY <1>1, LenProperties
  <1> QED BY <1>1, <1>2 DEF WithHook, Hooked

LEMMA HookedWithout ==
    ASSUME NEW s, NEW t \in Token, NEW hooks \in Seq(Token), NEW u
    PROVE  Hooked(WithoutHook(s, t, hooks), u) <=> Hooked(hooks, u) /\ (s \in Lifecycle => u # t)
  BY WithoutProperties DEF WithoutHook, Hooked

LEMMA RegisterOutcome ==
    ASSUME NoFailure, NEW s \in Sources, NEW t, NEW w \in World, NEW v \in Register(s, t, w)
    PROVE  /\ v.hooks = WithHook(s, t, w.hooks)
           /\ w.reg[s] = None => v.ok /\ v.reg = [w.reg EXCEPT ![s] = t]
           /\ w.reg[s] # None => ~v.ok /\ v.reg = w.reg
  BY DEF NoFailure, Register, Outcomes

LEMMA ReregisterOutcome ==
    ASSUME NoFailure, NEW s \in Sources, NEW t, NEW w \in World, NEW v \in Reregister(s, t, w)
    PROVE  /\ w.reg[s] # None => /\ v.ok /\ v.reg = [w.reg EXCEPT ![s] = t]
                                 /\ v.hooks = WithHook(s, t, w.hooks)
           /\ w.reg[s] = None => ~v.ok /\ v.reg = w.reg /\ v.hooks = w.hooks
  BY DEF NoFailure, Reregister, Outcomes

LEMMA UnregisterOutcome ==
    ASSUME NoFailure, NEW s \in Sources, NEW t, NEW w \in World, NEW v \in Unregister(s, t, w)
    PROVE  /\ w.reg[s] # None => /\ v.ok /\ v.reg = [w.reg EXCEPT ![s] = None]
                                 /\ v.hooks = WithoutHook(s, t, w.hooks)
           /\ w.reg[s] = None => ~v.ok /\ v.reg = w.reg /\ v.hooks = w.hooks
  BY DEF NoFailure, Unregister, Outcomes

----------------------------------------------------------------------------
(* What a callback defers.                                                 *)

PendingInv == NothingPendingBetweenCallbacks /\ pending # "Remove"

LEMMA PendingStep ==
    ASSUME Erring = {}, TypeInv, PendingInv, [Next]_vars
    PROVE  PendingInv'
  <1> USE DEF PendingInv, NothingPendingBetweenCallbacks
  <1>1. ASSUME NEW t, Defer(t, "Reregister") \/ Defer(t, "Disable")
        PROVE  PendingInv'
    BY <1>1 DEF Defer, Borrowed, cycle
  <1>2. CASE UserStep
    BY <1>1, <1>2 DEF UserStep, Insert, Enable, Update, UpdateNow, Disable, DisableNow, Remove, cycle
  <1>3. CASE StartDispatch \/ BeforeSleep \/ BeforeSleepWithEvent \/ Poll \/ PollInterrupted
             \/ BeforeHandleEvents \/ StartEvents
    BY <1>3 DEF StartDispatch, BeforeSleep, BeforeSleepWithEvent, Walking, Walked, Poll,
                PollInterrupted, BeforeHandleEvents, StartEvents, GoIdle
  <1>4. CASE BeforeSleepError \/ CallbackError
    BY <1>4 DEF BeforeSleepError, CallbackError
  <1>5. CASE StaleEvent \/ BeginCallback \/ EndDispatch
    BY <1>5 DEF StaleEvent, BeginCallback, EndDispatch, GoIdle
  <1>6. CASE SkipEvent \/ \E ret \in PostAction : Return(ret)
    <2>1. pending' = "Continue"
      BY <1>6 DEF SkipEvent, Return, Conclude, PendingTaken
    <2> QED BY <2>1
  <1>7. CASE UNCHANGED vars
    BY <1>7 DEF vars, cycle
  <1> QED BY <1>2, <1>3, <1>4, <1>5, <1>6, <1>7 DEF Next, LoopStep

\* An update or a disable that a callback asks for itself is applied when it
\* returns, or superseded; as long as callbacks do not fail, no later callback
\* finds it.
THEOREM NothingIsLeftPending ==
    ASSUME Erring = {}
    PROVE  Spec => []NothingPendingBetweenCallbacks
  <1>1. Init => TypeInv /\ PendingInv
    BY TypeInit DEF Init, PendingInv, NothingPendingBetweenCallbacks
  <1>2. TypeInv /\ PendingInv /\ [Next]_vars => TypeInv' /\ PendingInv'
    BY TypeStep, PendingStep
  <1>3. PendingInv => NothingPendingBetweenCallbacks
    BY DEF PendingInv
  <1> QED BY <1>1, <1>2, <1>3, PTL DEF Spec

----------------------------------------------------------------------------
(* The walks over the lifecycle list.  Nothing changes the list, or a slot, *)
(* between the two walks, so the second wakes what the first put to sleep.  *)

WalkInv ==
    /\ pc = "sleep" =>
          \A s \in slept : \E k \in DOMAIN lifecycle : k < hook /\ Get(lifecycle[k]) = s
    /\ pc = "wake" =>
          \A s \in slept : \E k \in DOMAIN lifecycle : k >= hook /\ Get(lifecycle[k]) = s
    /\ pc \in {"idle", "dispatch", "callback"} => slept = {}

LEMMA WalkStep ==
    ASSUME Erring = {}, Interruptible = FALSE, TypeInv, WalkInv, [Next]_vars
    PROVE  WalkInv'
  <1> USE DEF WalkInv
  <1>1. DOMAIN lifecycle = 1 .. Len(lifecycle) /\ Len(lifecycle) \in Nat /\ hook \in Nat \ {0}
    BY LenProperties DEF TypeInv, TypeOK
  <1>2. CASE UserStep
    BY <1>2 DEF UserStep, UserCode, Insert, Enable, Update, UpdateNow, Disable, DisableNow,
                Defer, Remove, cycle
  <1>3. CASE StartDispatch
    BY <1>3 DEF StartDispatch
  <1>4. CASE BeforeSleep \/ BeforeSleepWithEvent
    <2>1. /\ pc = "sleep" /\ hook \in DOMAIN lifecycle /\ UNCHANGED <<slots, lifecycle>>
          /\ pc' = "panicked" \/ (pc' = "sleep" /\ hook' = hook + 1
                                  /\ slept' = slept \cup {Get(lifecycle[hook])})
      BY <1>4 DEF BeforeSleep, BeforeSleepWithEvent, Walking, registry
    <2>2. ASSUME pc' = "sleep", NEW s \in slept'
          PROVE  \E k \in DOMAIN lifecycle : k < hook' /\ Get(lifecycle[k]) = s
      <3>1. CASE s \in slept
        BY <1>1, <2>1, <2>2, <3>1
      <3>2. CASE s = Get(lifecycle[hook])
        BY <1>1, <2>1, <2>2, <3>2
      <3> QED BY <2>1, <2>2, <3>1, <3>2
    <2> QED BY <2>1, <2>2 DEF Get
  <1>5. CASE Poll
    BY <1>1, <1>5 DEF Poll, Walked, Get, registry
  <1>6. CASE PollInterrupted \/ BeforeSleepError
    BY <1>6 DEF PollInterrupted, BeforeSleepError
  <1>7. CASE BeforeHandleEvents
    <2>1. /\ pc = "wake" /\ pc' = "wake" /\ hook' = hook + 1 /\ UNCHANGED <<slots, lifecycle>>
          /\ slept' = slept \ {Get(lifecycle[hook])}
      BY <1>7 DEF BeforeHandleEvents, Walking, Awake, registry
    <2>2. ASSUME NEW s \in slept'
          PROVE  \E k \in DOMAIN lifecycle : k >= hook' /\ Get(lifecycle[k]) = s
      <3>1. PICK k \in DOMAIN lifecycle : k >= hook /\ Get(lifecycle[k]) = s
        BY <2>1, <2>2
      <3>2. k # hook
        BY <2>1, <2>2, <3>1
      <3> QED BY <1>1, <2>1, <3>1, <3>2
    <2> QED BY <2>1, <2>2 DEF Get
  <1>8. CASE StartEvents
    BY <1>1, <1>8 DEF StartEvents, Walked
  <1>9. CASE StaleEvent \/ BeginCallback \/ EndDispatch \/ CallbackError
    BY <1>9 DEF StaleEvent, BeginCallback, EndDispatch, CallbackError, GoIdle
  <1>10. CASE SkipEvent \/ \E ret \in PostAction : Return(ret)
    <2>1. pc \in {"dispatch", "callback"} /\ slept' = slept /\ pc' \in {"idle", "dispatch"}
      BY <1>10 DEF SkipEvent, Return, Conclude, GoIdle
    <2> QED BY <2>1
  <1>11. CASE UNCHANGED vars
    BY <1>11 DEF vars, cycle, registry, Get
  <1> QED BY <1>2, <1>3, <1>4, <1>5, <1>6, <1>7, <1>8, <1>9, <1>10, <1>11 DEF Next, LoopStep

\* A source that was told that the loop goes to sleep is told that it is awake
\* before any event is processed, unless a before_sleep or the poll fails in
\* between; registrations may fail.
THEOREM AwakeBeforeEvents ==
    ASSUME Erring = {}, Interruptible = FALSE
    PROVE  Spec => []AllAwakeDuringEvents
  <1>1. Init => TypeInv /\ WalkInv
    BY TypeInit DEF Init, WalkInv
  <1>2. TypeInv /\ WalkInv /\ [Next]_vars => TypeInv' /\ WalkInv'
    BY TypeStep, WalkStep
  <1>3. WalkInv => AllAwakeDuringEvents
    BY DEF WalkInv, AllAwakeDuringEvents
  <1> QED BY <1>1, <1>2, <1>3, PTL DEF Spec

----------------------------------------------------------------------------
(* Who owns the registrations.                                             *)

\* A source is in one slot at most.
OneSlotEach ==
    \A i, j \in DOMAIN slots :
        slots[i].source # None /\ slots[i].source = slots[j].source => i = j

\* The source whose callback runs is registered under the event's token until
\* the callback returns, though it may have been removed from its slot.
RunningIsRegistered ==
    running # None => /\ reg[running.src] = running.tok
                      /\ Get(running.tok) = running.src \/ ~Present(running.src)

\* The entries of the lifecycle list are the keys of the lifecycle sources.
HooksAreKeys ==
    \A t \in Token : Hooked(lifecycle, t) <=> \E s \in Lifecycle : reg[s] = t

OwnerInv == OneSlotEach /\ RegistrationsAreOwned /\ RunningIsRegistered /\ HooksAreKeys

RegistrationInv == TokenInv /\ PendingInv /\ OwnerInv

\* What the loop knows of a slot whose token was given out.
LEMMA GetProperties ==
    ASSUME TokenInv, NEW t \in Token, Get(t) # None
    PROVE  /\ Get(t) \in Sources /\ Present(Get(t))
           /\ t.id \in DOMAIN slots /\ slots[t.id].version = t.version
           /\ slots[t.id].source = Get(t)
           /\ Lookup(slots, t) = Get(t)
  <1>1. Get(t) \in Sources \cup {None}
    BY LookupType DEF Get, TokenInv, TypeInv, TypeOK
  <1> QED BY <1>1 DEF Get, Lookup, SameVersion, Present

LEMMA RunningProperties ==
    ASSUME TypeInv
    PROVE  /\ running # None => running.src \in Sources /\ running.tok \in Token
           /\ \A s : Borrowed(s) <=> running # None /\ running.src = s
  BY DEF TypeInv, TypeOK, CallbackHasEvent, Borrowed, Run

\* Two tokens of a source that is present are the same, and the key of a
\* present source is its token.
LEMMA SameToken ==
    ASSUME TokenInv, OneSlotEach, NEW t \in Token, NEW u \in Token,
           Get(t) # None, Get(t) = Get(u)
    PROVE  t = u
  <1>1. t.id = u.id /\ t.version = u.version
    BY GetProperties DEF OneSlotEach
  <1> QED BY <1>1 DEF Token

LEMMA KeyOfPresent ==
    ASSUME RegistrationInv, NEW t \in Token, Get(t) # None, reg[Get(t)] # None
    PROVE  reg[Get(t)] = t
  <1> DEFINE s == Get(t)
  <1>1. s \in Sources /\ Present(s) /\ reg[s] \in Token
    BY GetProperties DEF RegistrationInv, TokenInv, TypeInv, TypeOK
  <1>2. Get(reg[s]) = s
    BY <1>1, RunningProperties
       DEF RegistrationInv, TokenInv, OwnerInv, RegistrationsAreOwned, RunningIsRegistered
  <1> HIDE DEF s
  <1>3. Get(t) = s
    BY DEF s
  <1> QED BY <1>1, <1>2, <1>3, SameToken, ConstantsAssumption DEF RegistrationInv, OwnerInv

\* No two sources are registered under one key.
LEMMA KeysDiffer ==
    ASSUME RegistrationInv, NEW x \in Sources, NEW y \in Sources, reg[x] # None, reg[x] = reg[y]
    PROVE  x = y
  <1>1. /\ [tok |-> reg[x], src |-> x] \in issued /\ [tok |-> reg[y], src |-> y] \in issued
    BY DEF RegistrationInv, TokenInv, KeysAreIssued
  <1>2. Get(reg[x]) \in {x, None} /\ Get(reg[x]) \in {y, None}
    BY <1>1, IssuedResolve DEF RegistrationInv, TokenInv
  <1>3. \/ Get(reg[x]) = x \/ Get(reg[y]) = y \/ (Borrowed(x) /\ Borrowed(y))
    BY DEF RegistrationInv, OwnerInv, RegistrationsAreOwned
  <1> QED BY <1>2, <1>3, ConstantsAssumption DEF Borrowed

\* A token that was given out for a present source is its slot's.
LEMMA IssuedProperties ==
    ASSUME RegistrationInv, NEW i \in issued, Get(i.tok) # None
    PROVE  i.tok \in Token /\ Get(i.tok) \in Sources
  BY GetProperties DEF RegistrationInv, TokenInv, TypeInv, TypeOK, Event

----------------------------------------------------------------------------
(* The four ways in which registrations change.                            *)

\* Nothing changes; a callback may have begun or ended without an effect.
LEMMA OwnerKept ==
    ASSUME RegistrationInv, UNCHANGED <<slots, reg, lifecycle, running, pc>>
    PROVE  OwnerInv'
  BY DEF RegistrationInv, OwnerInv, OneSlotEach, RegistrationsAreOwned, RunningIsRegistered,
         HooksAreKeys, Get, Borrowed, Present

LEMMA OwnerIdle ==
    ASSUME RegistrationInv, UNCHANGED <<slots, reg, lifecycle>>,
           running = None, running' = None, pc # "callback", pc' # "callback"
    PROVE  OwnerInv'
  BY DEF RegistrationInv, OwnerInv, OneSlotEach, RegistrationsAreOwned, RunningIsRegistered,
         HooksAreKeys, Get, Borrowed, Present

\* A present source is registered under its token.
LEMMA OwnerLink ==
    ASSUME RegistrationInv, UNCHANGED <<slots, running, pc>>,
           NEW t \in Token, NEW s \in Sources, s = Get(t), ~Borrowed(s),
           reg' = [reg EXCEPT ![s] = t],
           lifecycle' = WithHook(s, t, lifecycle)
    PROVE  OwnerInv'
  <1>. s # None
    BY ConstantsAssumption
  <1>1. /\ s \in Sources /\ reg[s] \in {None, t}
        /\ reg \in [Sources -> Token \cup {None}] /\ lifecycle \in Seq(Token)
        /\ Lifecycle \subseteq Sources /\ None \notin Token
    BY GetProperties, KeyOfPresent, ConstantsAssumption
       DEF RegistrationInv, TokenInv, TypeInv, TypeOK
  <1>2. OneSlotEach'
    BY DEF RegistrationInv, OwnerInv, OneSlotEach
  <1>3. RegistrationsAreOwned'
    BY <1>1 DEF RegistrationInv, OwnerInv, RegistrationsAreOwned, Get, Borrowed
  <1>4. RunningIsRegistered'
    <2>1. running # None => running.src \in Sources /\ running.src # s
      BY RunningProperties DEF RegistrationInv, TokenInv
    <2> QED BY <1>1, <2>1 DEF RegistrationInv, OwnerInv, RunningIsRegistered, Get, Present
  <1>5. HooksAreKeys'
    <2> SUFFICES ASSUME NEW u \in Token
                 PROVE  Hooked(lifecycle', u) <=> \E x \in Lifecycle : reg'[x] = u
      BY DEF HooksAreKeys
    <2>1. Hooked(lifecycle', u) <=> Hooked(lifecycle, u) \/ (s \in Lifecycle /\ u = t)
      BY <1>1, HookedWith
    <2>2. Hooked(lifecycle, u) <=> \E x \in Lifecycle : reg[x] = u
      BY DEF RegistrationInv, OwnerInv, HooksAreKeys
    <2>3. \A x \in Lifecycle : reg'[x] = IF x = s THEN t ELSE reg[x]
      BY <1>1
    <2> QED BY <1>1, <2>1, <2>2, <2>3
  <1> QED BY <1>2, <1>3, <1>4, <1>5 DEF OwnerInv

\* A slot is vacated: its source is in none, the others stay where they were.
LEMMA VacateFrame ==
    ASSUME TokenInv, OneSlotEach, NEW t \in Token, NEW s \in Sources, s = Get(t),
           slots' \in {slots, Vacate(slots, t)}
    PROVE  /\ OneSlotEach'
           /\ \A u \in Token : Get(u) # None /\ Get(u) # s => Get(u)' = Get(u)
           /\ \A x \in Sources : x # s => (Present(x)' <=> Present(x))
           /\ \A x \in Sources : Present(x)' => Present(x)
           /\ slots' = Vacate(slots, t) => ~Present(s)'
           /\ Get(t)' = IF slots' = slots THEN s ELSE None
  <1>. s # None
    BY ConstantsAssumption
  <1>0. slots \in Seq(Slot) /\ DOMAIN slots = 1 .. Len(slots) /\ s \in Sources
        /\ t.id \in DOMAIN slots /\ slots[t.id].source = s /\ slots[t.id].version = t.version
        /\ None \notin Sources
    BY GetProperties, LenProperties, ConstantsAssumption DEF TokenInv, TypeInv, TypeOK
  <1>1. /\ DOMAIN slots' = DOMAIN slots
        /\ \A i \in DOMAIN slots : /\ slots'[i].version = slots[i].version
                                   /\ slots'[i].source \in {slots[i].source, None}
                                   /\ i # t.id => slots'[i].source = slots[i].source
        /\ slots' = Vacate(slots, t) => slots'[t.id].source = None
    <2>1. Vacate(slots, t) = [slots EXCEPT ![t.id].source = None]
      BY GetProperties DEF Vacate
    <2>2. \A i \in DOMAIN slots : i # t.id => Vacate(slots, t)[i] = slots[i]
      BY <2>1
    <2>3. Lookup(Vacate(slots, t), t) = None /\ DOMAIN Vacate(slots, t) = DOMAIN slots
          /\ Vacate(slots, t)[t.id].version = t.version
      BY <1>0, VacateProperties
    <2>4. Vacate(slots, t)[t.id].source = None
      BY <1>0, <2>3 DEF Lookup, SameVersion
    <2> QED BY <1>0, <2>2, <2>4, VacateProperties
  <1>2. \A i \in DOMAIN slots : slots[i].source # None /\ slots[i].source # s
                                   => slots'[i].source = slots[i].source
    BY <1>0, <1>1
  <1>3. OneSlotEach'
    BY <1>1 DEF OneSlotEach
  <1>4. \A u \in Token : Get(u) # None /\ Get(u) # s => Get(u)' = Get(u)
    BY <1>1, <1>2, GetProperties DEF Get, Lookup, SameVersion
  <1>5. \A x \in Sources : Present(x)' => Present(x)
    BY <1>0, <1>1 DEF Present
  <1>6. \A x \in Sources : x # s => (Present(x) => Present(x)')
    BY <1>0, <1>1, <1>2 DEF Present
  <1>7. slots' = Vacate(slots, t) => ~Present(s)'
    <2> SUFFICES ASSUME slots' = Vacate(slots, t), NEW i \in DOMAIN slots, slots'[i].source = s
                 PROVE  FALSE
      BY <1>1 DEF Present
    <2>1. slots[i].source = s
      BY <1>0, <1>1
    <2>2. i = t.id
      BY <1>0, <2>1 DEF OneSlotEach
    <2> QED BY <1>0, <1>1, <2>2
  <1>8. Get(t)' = IF slots' = slots THEN s ELSE None
    BY <1>0, <1>1 DEF Get, Lookup, SameVersion
  <1> QED BY <1>3, <1>4, <1>5, <1>6, <1>7, <1>8

\* A source is unregistered, and leaves its slot or not.
LEMMA OwnerUnlink ==
    ASSUME RegistrationInv, UNCHANGED <<running, pc>>,
           NEW t \in Token, NEW s \in Sources, s = Get(t), ~Borrowed(s), reg[s] # None,
           slots' \in {slots, Vacate(slots, t)},
           reg' = [reg EXCEPT ![s] = None],
           lifecycle' = WithoutHook(s, t, lifecycle)
    PROVE  OwnerInv'
  <1>. s # None
    BY ConstantsAssumption
  <1>1. /\ s \in Sources /\ reg[s] = t
        /\ reg \in [Sources -> Token \cup {None}] /\ lifecycle \in Seq(Token)
        /\ slots \in Seq(Slot)
        /\ Lifecycle \subseteq Sources /\ None \notin Token
    BY GetProperties, KeyOfPresent, ConstantsAssumption
       DEF RegistrationInv, TokenInv, TypeInv, TypeOK
  <1>2. HooksAreKeys'
    <2> SUFFICES ASSUME NEW u \in Token
                 PROVE  Hooked(lifecycle', u) <=> \E x \in Lifecycle : reg'[x] = u
      BY DEF HooksAreKeys
    <2>1. Hooked(lifecycle', u) <=> Hooked(lifecycle, u) /\ (s \in Lifecycle => u # t)
      BY <1>1, HookedWithout
    <2>2. Hooked(lifecycle, u) <=> \E x \in Lifecycle : reg[x] = u
      BY DEF RegistrationInv, OwnerInv, HooksAreKeys
    <2>3. \A x \in Lifecycle : reg'[x] = IF x = s THEN None ELSE reg[x]
      BY <1>1
    <2>4. \A x \in Lifecycle : reg[x] = t => x = s
      BY <1>1, KeysDiffer
    <2> QED BY <1>1, <2>1, <2>2, <2>3, <2>4
  <1>3. OneSlotEach'
    BY VacateFrame DEF RegistrationInv, OwnerInv
  <1>4. \A u \in Token : Get(u) # None /\ Get(u) # s => Get(u)' = Get(u)
    BY VacateFrame DEF RegistrationInv, OwnerInv
  <1>5. \A x \in Sources : Present(x)' => Present(x)
    BY VacateFrame DEF RegistrationInv, OwnerInv
  <1>6. RegistrationsAreOwned'
    <2> SUFFICES ASSUME NEW x \in Sources, reg'[x] # None, ~Borrowed(x)'
                 PROVE  Get(reg[x])' = x
      BY <1>1 DEF RegistrationsAreOwned
    <2>1. x # s /\ reg'[x] = reg[x] /\ Get(reg[x]) = x /\ reg[x] \in Token
      BY <1>1 DEF RegistrationInv, OwnerInv, RegistrationsAreOwned, Borrowed
    <2> QED BY <1>4, <2>1, ConstantsAssumption
  <1>7. RunningIsRegistered'
    <2>1. running # None => /\ running.src \in Sources /\ running.src # s
                            /\ running.tok \in Token
      BY RunningProperties DEF RegistrationInv, TokenInv
    <2> QED BY <1>1, <1>4, <1>5, <2>1, ConstantsAssumption
            DEF RegistrationInv, OwnerInv, RunningIsRegistered
  <1> QED BY <1>2, <1>3, <1>6, <1>7 DEF OwnerInv

\* The running source leaves its slot, and stays registered until it returns.
LEMMA OwnerRemoveRunning ==
    ASSUME RegistrationInv, UNCHANGED <<reg, lifecycle, running, pc>>,
           NEW t \in Token, NEW s \in Sources, s = Get(t), Borrowed(s), slots' = Vacate(slots, t)
    PROVE  OwnerInv'
  <1>. s # None
    BY ConstantsAssumption
  <1>1. /\ s \in Sources /\ running # None /\ running.src = s /\ None \notin Token
        /\ reg \in [Sources -> Token \cup {None}] /\ reg[s] = running.tok
        /\ \A x : Borrowed(x)' <=> Borrowed(x)
    BY GetProperties, RunningProperties, ConstantsAssumption
       DEF RegistrationInv, TokenInv, TypeInv, TypeOK, OwnerInv, RunningIsRegistered, Borrowed
  <1>2. /\ OneSlotEach' /\ ~Present(s)'
        /\ \A u \in Token : Get(u) # None /\ Get(u) # s => Get(u)' = Get(u)
    BY VacateFrame DEF RegistrationInv, OwnerInv
  <1>3. HooksAreKeys'
    BY DEF RegistrationInv, OwnerInv, HooksAreKeys
  <1>4. RegistrationsAreOwned'
    <2> SUFFICES ASSUME NEW x \in Sources, reg[x] # None, ~Borrowed(x)
                 PROVE  Get(reg[x])' = x
      BY <1>1 DEF RegistrationsAreOwned
    <2>1. x # s /\ Get(reg[x]) = x /\ reg[x] \in Token
      BY <1>1 DEF RegistrationInv, OwnerInv, RegistrationsAreOwned
    <2> QED BY <1>2, <2>1, ConstantsAssumption
  <1>5. RunningIsRegistered'
    BY <1>1, <1>2 DEF RunningIsRegistered, Present
  <1> QED BY <1>2, <1>3, <1>4, <1>5 DEF OwnerInv

\* A new source takes a vacant slot.
LEMMA OwnerInsert ==
    ASSUME RegistrationInv, TokenInv', UNCHANGED <<running, pc>>,
           NEW s \in Sources, ~Present(s), ~Borrowed(s),
           NEW id \in 1 .. Len(slots) + 1, IsVacantEntry(id), EntryUses(id) <= MaxReuse,
           NEW t, t = EntryToken(id),
           slots' = FillEntry(t, s),
           reg' = [reg EXCEPT ![s] = t],
           lifecycle' = WithHook(s, t, lifecycle)
    PROVE  /\ OwnerInv' /\ Present(s)'
           /\ \A x \in Sources : x # s => (Present(x)' <=> Present(x))
  <1>1. /\ reg \in [Sources -> Token \cup {None}] /\ lifecycle \in Seq(Token)
        /\ slots \in Seq(Slot) /\ Lifecycle \subseteq Sources
        /\ None \notin Token /\ None \notin Sources
    BY ConstantsAssumption DEF RegistrationInv, TokenInv, TypeInv, TypeOK
  <1>2. reg[s] = None
    BY <1>1, GetProperties DEF RegistrationInv, OwnerInv, RegistrationsAreOwned
  <1>3. /\ t \in Token /\ t.id = id
        /\ DOMAIN slots' = DOMAIN slots \cup {id}
        /\ slots'[id] = [version |-> t.version, source |-> s, uses |-> EntryUses(id)]
        /\ \A i \in DOMAIN slots : i # id => slots'[i] = slots[i]
        /\ id \in DOMAIN slots => slots[id].source = None
    <2>1. \A o \in Sources \cup {None} :
            LET filled == FillEntry(EntryToken(id), o) IN
            /\ EntryToken(id) \in Token /\ EntryToken(id).id = id
            /\ DOMAIN filled = DOMAIN slots \cup {id}
            /\ filled[id] = [version |-> EntryToken(id).version, source |-> o,
                             uses |-> EntryUses(id)]
            /\ \A i \in DOMAIN slots : i # id => filled[i] = slots[i]
      BY <1>1, FillEntryProperties
    <2>2. id \in DOMAIN slots => slots[id].source = None
      BY DEF IsVacantEntry
    <2> QED BY <2>1, <2>2
  <1>4. slots'[id].source = s /\ slots'[id].version = t.version
    BY <1>3
  <1>5. \A u \in Token : Get(u) # None => Get(u)' = Get(u)
    BY <1>3, GetProperties DEF RegistrationInv, Get, Lookup, SameVersion
  <1>6. Get(t)' = s
    BY <1>3, <1>4 DEF Get, Lookup, SameVersion
  <1>7. Present(s)' /\ \A x \in Sources : x # s => (Present(x)' <=> Present(x))
    BY <1>1, <1>3, <1>4 DEF Present
  <1>8. OneSlotEach'
    <2> SUFFICES ASSUME NEW i \in DOMAIN slots', NEW j \in DOMAIN slots',
                        slots'[i].source # None, slots'[i].source = slots'[j].source
                 PROVE  i = j
      BY DEF OneSlotEach
    <2>1. \A k \in DOMAIN slots : k # id => slots'[k].source = slots[k].source /\ slots[k].source # s
      BY <1>3 DEF Present
    <2> QED BY <1>3, <1>4, <2>1 DEF RegistrationInv, OwnerInv, OneSlotEach
  <1>9. HooksAreKeys'
    <2> SUFFICES ASSUME NEW u \in Token
                 PROVE  Hooked(lifecycle', u) <=> \E x \in Lifecycle : reg'[x] = u
      BY DEF HooksAreKeys
    <2>1. Hooked(lifecycle', u) <=> Hooked(lifecycle, u) \/ (s \in Lifecycle /\ u = t)
      BY <1>1, <1>3, HookedWith
    <2>2. Hooked(lifecycle, u) <=> \E x \in Lifecycle : reg[x] = u
      BY DEF RegistrationInv, OwnerInv, HooksAreKeys
    <2>3. \A x \in Lifecycle : reg'[x] = IF x = s THEN t ELSE reg[x]
      BY <1>1
    <2> QED BY <1>1, <1>2, <2>1, <2>2, <2>3
  <1>10. RegistrationsAreOwned'
    <2> SUFFICES ASSUME NEW x \in Sources, reg'[x] # None, ~Borrowed(x)'
                 PROVE  Get(reg[x])' = x
      BY DEF RegistrationsAreOwned
    <2>1. CASE x = s
      <3>1. reg'[x] = t
        BY <1>1, <2>1
      <3> QED BY <1>6, <2>1, <3>1 DEF Get
    <2>2. CASE x # s
      <3>1. reg'[x] = reg[x] /\ reg[x] \in Token /\ Get(reg[x]) = x
        BY <1>1, <2>2 DEF RegistrationInv, OwnerInv, RegistrationsAreOwned, Borrowed
      <3> QED BY <1>1, <1>5, <3>1 DEF Get
    <2> QED BY <2>1, <2>2
  <1>11. RunningIsRegistered'
    <2>1. running # None => /\ running.src \in Sources /\ running.src # s
                            /\ running.tok \in Token
      BY RunningProperties DEF RegistrationInv, TokenInv
    <2> QED BY <1>1, <1>5, <1>7, <2>1 DEF RegistrationInv, OwnerInv, RunningIsRegistered
  <1> QED BY <1>7, <1>8, <1>9, <1>10, <1>11 DEF OwnerInv

\* A source that is registered nowhere leaves its slot.
LEMMA OwnerVacate ==
    ASSUME RegistrationInv, UNCHANGED <<reg, lifecycle, running, pc>>,
           NEW t \in Token, NEW s \in Sources, s = Get(t), ~Borrowed(s), reg[s] = None,
           slots' = Vacate(slots, t)
    PROVE  OwnerInv'
  <1>1. /\ reg \in [Sources -> Token \cup {None}] /\ None \notin Token /\ None \notin Sources
        /\ \A x : Borrowed(x)' <=> Borrowed(x)
    BY ConstantsAssumption DEF RegistrationInv, TokenInv, TypeInv, TypeOK, Borrowed
  <1>2. /\ OneSlotEach' /\ \A x \in Sources : Present(x)' => Present(x)
        /\ \A u \in Token : Get(u) # None /\ Get(u) # s => Get(u)' = Get(u)
    BY VacateFrame DEF RegistrationInv, OwnerInv
  <1>3. HooksAreKeys'
    BY DEF RegistrationInv, OwnerInv, HooksAreKeys
  <1>4. RegistrationsAreOwned'
    <2> SUFFICES ASSUME NEW x \in Sources, reg[x] # None, ~Borrowed(x)
                 PROVE  Get(reg[x])' = x
      BY <1>1 DEF RegistrationsAreOwned
    <2>1. x # s /\ Get(reg[x]) = x /\ reg[x] \in Token
      BY <1>1 DEF RegistrationInv, OwnerInv, RegistrationsAreOwned
    <2> QED BY <1>1, <1>2, <2>1
  <1>5. RunningIsRegistered'
    <2>1. running # None => /\ running.src \in Sources /\ running.src # s
                            /\ running.tok \in Token
      BY RunningProperties DEF RegistrationInv, TokenInv
    <2> QED BY <1>1, <1>2, <2>1 DEF RegistrationInv, OwnerInv, RunningIsRegistered
  <1> QED BY <1>2, <1>3, <1>4, <1>5 DEF OwnerInv

----------------------------------------------------------------------------
(* What each operation of the handle does when no call fails by itself.    *)

LEMMA NowProperties ==
    ASSUME RegistrationInv
    PROVE  /\ Now \in World /\ Now.reg = reg /\ Now.hooks = lifecycle
           /\ reg \in [Sources -> Token \cup {None}] /\ None \notin Token /\ None \notin Sources
  BY ConstantsAssumption DEF Now, World, RegistrationInv, TokenInv, TypeInv, TypeOK

LEMMA RegisterNow ==
    ASSUME NoFailure, RegistrationInv, NEW s \in Sources, NEW t, NEW v \in Register(s, t, Now)
    PROVE  /\ v.hooks = WithHook(s, t, lifecycle)
           /\ reg[s] = None => v.ok /\ v.reg = [reg EXCEPT ![s] = t]
           /\ reg[s] # None => ~v.ok /\ v.reg = reg
  <1> DEFINE w == Now
  <1>1. w.reg = reg /\ w.hooks = lifecycle /\ w \in World /\ v \in Register(s, t, w)
    BY NowProperties
  <1> HIDE DEF w
  <1> QED BY <1>1, RegisterOutcome

LEMMA ReregisterNow ==
    ASSUME NoFailure, RegistrationInv, NEW s \in Sources, NEW t, NEW v \in Reregister(s, t, Now)
    PROVE  /\ reg[s] # None => /\ v.ok /\ v.reg = [reg EXCEPT ![s] = t]
                               /\ v.hooks = WithHook(s, t, lifecycle)
           /\ reg[s] = None => ~v.ok /\ v.reg = reg /\ v.hooks = lifecycle
  <1> DEFINE w == Now
  <1>1. w.reg = reg /\ w.hooks = lifecycle /\ w \in World /\ v \in Reregister(s, t, w)
    BY NowProperties
  <1> HIDE DEF w
  <1> QED BY <1>1, ReregisterOutcome

LEMMA UnregisterNow ==
    ASSUME NoFailure, RegistrationInv, NEW s \in Sources, NEW t, NEW v \in Unregister(s, t, Now)
    PROVE  /\ reg[s] # None => /\ v.ok /\ v.reg = [reg EXCEPT ![s] = None]
                               /\ v.hooks = WithoutHook(s, t, lifecycle)
           /\ reg[s] = None => ~v.ok /\ v.reg = reg /\ v.hooks = lifecycle
  <1> DEFINE w == Now
  <1>1. w.reg = reg /\ w.hooks = lifecycle /\ w \in World /\ v \in Unregister(s, t, w)
    BY NowProperties
  <1> HIDE DEF w
  <1> QED BY <1>1, UnregisterOutcome

LEMMA InsertEffect ==
    ASSUME NoFailure, RegistrationInv, TokenInv', NEW s \in Sources, Insert(s)
    PROVE  /\ OwnerInv' /\ ~Present(s) /\ ~Borrowed(s) /\ Present(s)' /\ reg'[s] # None
           /\ \A x \in Sources : x # s => (Present(x)' <=> Present(x)) /\ reg'[x] = reg[x]
           /\ UNCHANGED <<pending, running, pc>>
  <1>1. PICK id \in 1 .. Len(slots) + 1 :
          /\ IsVacantEntry(id)
          /\ EntryUses(id) <= MaxReuse
          /\ \E w \in Register(s, EntryToken(id), Now) :
                /\ slots' = FillEntry(EntryToken(id), IF w.ok THEN s ELSE None)
                /\ Becomes(w)
    BY DEF Insert
  <1>2. PICK w \in Register(s, EntryToken(id), Now) :
                /\ slots' = FillEntry(EntryToken(id), IF w.ok THEN s ELSE None)
                /\ Becomes(w)
    BY <1>1
  <1>3. ~Present(s) /\ ~Borrowed(s) /\ UNCHANGED <<pending, running, pc>>
    BY DEF Insert, cycle
  <1>4. reg[s] = None
    BY <1>3, NowProperties, GetProperties
       DEF RegistrationInv, OwnerInv, RegistrationsAreOwned
  <1>5. w.ok /\ w.reg = [reg EXCEPT ![s] = EntryToken(id)]
        /\ w.hooks = WithHook(s, EntryToken(id), lifecycle)
    BY <1>2, <1>4, RegisterNow
  <1>6. /\ slots' = FillEntry(EntryToken(id), s)
        /\ reg' = [reg EXCEPT ![s] = EntryToken(id)]
        /\ lifecycle' = WithHook(s, EntryToken(id), lifecycle)
    BY <1>2, <1>5 DEF Becomes
  <1>7. /\ OwnerInv' /\ Present(s)'
        /\ \A x \in Sources : x # s => (Present(x)' <=> Present(x))
    BY <1>1, <1>3, <1>6, OwnerInsert
  <1>8. EntryToken(id) \in Token
    BY <1>1, FillEntryProperties DEF RegistrationInv, TokenInv, TypeInv, TypeOK
  <1> QED BY <1>3, <1>6, <1>7, <1>8, NowProperties

LEMMA EnableEffect ==
    ASSUME NoFailure, RegistrationInv, NEW t \in Token, NEW s, s = Get(t), Enable(t)
    PROVE  /\ s \in Sources /\ Present(s) /\ ~Borrowed(s) /\ OwnerInv'
           /\ UNCHANGED <<slots, pending, running, pc>>
           /\ reg' = [reg EXCEPT ![s] = t]
  <1>1. /\ s \in Sources /\ Present(s) /\ ~Borrowed(s)
        /\ UNCHANGED <<slots, pending, running, pc>>
        /\ reg[s] \in {None, t}
    BY GetProperties, KeyOfPresent DEF Enable, cycle, RegistrationInv
  <1>2. PICK w \in Register(s, t, Now) : Becomes(w)
    BY DEF Enable
  <1>3. w.hooks = WithHook(s, t, lifecycle)
        /\ (reg[s] = None => w.reg = [reg EXCEPT ![s] = t]) /\ (reg[s] # None => w.reg = reg)
    BY <1>1, <1>2, RegisterNow
  <1>4. reg[s] = t => [reg EXCEPT ![s] = t] = reg
    BY <1>1, NowProperties
  <1>5. reg' = [reg EXCEPT ![s] = t] /\ lifecycle' = WithHook(s, t, lifecycle)
    BY <1>1, <1>2, <1>3, <1>4, NowProperties DEF Becomes
  <1>6. OwnerInv'
    BY <1>1, <1>5, OwnerLink
  <1> QED BY <1>1, <1>5, <1>6

LEMMA UpdateNowEffect ==
    ASSUME NoFailure, RegistrationInv, NEW t \in Token, NEW s, s = Get(t), UpdateNow(t)
    PROVE  OwnerInv' /\ UNCHANGED <<slots, reg, pending, running, pc>>
  <1>1. /\ s \in Sources /\ ~Borrowed(s)
        /\ UNCHANGED <<slots, pending, running, pc>>
        /\ reg[s] \in {None, t}
    BY GetProperties, KeyOfPresent DEF UpdateNow, cycle, RegistrationInv
  <1>2. PICK w \in Reregister(s, t, Now) : Becomes(w)
    BY DEF UpdateNow
  <1>3. reg' = w.reg /\ lifecycle' = w.hooks
    BY <1>2 DEF Becomes
  <1>4. CASE reg[s] = None
    <2>1. w.reg = reg /\ w.hooks = lifecycle
      BY <1>1, <1>2, <1>4, ReregisterNow
    <2> QED BY <1>1, <1>3, <2>1, OwnerKept
  <1>5. CASE reg[s] # None
    <2>1. w.reg = [reg EXCEPT ![s] = t] /\ w.hooks = WithHook(s, t, lifecycle)
      BY <1>1, <1>2, <1>5, ReregisterNow
    <2>2. [reg EXCEPT ![s] = t] = reg
      BY <1>1, <1>5, NowProperties
    <2> QED BY <1>1, <1>3, <2>1, <2>2, OwnerLink
  <1> QED BY <1>4, <1>5

LEMMA DisableNowEffect ==
    ASSUME NoFailure, RegistrationInv, NEW t \in Token, NEW s, s = Get(t), DisableNow(t)
    PROVE  /\ s \in Sources /\ Present(s) /\ ~Borrowed(s) /\ OwnerInv'
           /\ UNCHANGED <<slots, pending, running, pc>>
           /\ reg' = [reg EXCEPT ![s] = None]
  <1>1. /\ s \in Sources /\ Present(s) /\ ~Borrowed(s)
        /\ UNCHANGED <<slots, pending, running, pc>>
    BY GetProperties DEF DisableNow, cycle, RegistrationInv
  <1>2. PICK w \in Unregister(s, t, Now) : Becomes(w)
    BY DEF DisableNow
  <1>3. reg' = w.reg /\ lifecycle' = w.hooks
    BY <1>2 DEF Becomes
  <1>4. CASE reg[s] = None
    <2>1. w.reg = reg /\ w.hooks = lifecycle
      BY <1>1, <1>2, <1>4, UnregisterNow
    <2>2. [reg EXCEPT ![s] = None] = reg
      BY <1>1, <1>4, NowProperties
    <2> QED BY <1>1, <1>3, <2>1, <2>2, OwnerKept
  <1>5. CASE reg[s] # None
    <2>1. w.reg = [reg EXCEPT ![s] = None] /\ w.hooks = WithoutHook(s, t, lifecycle)
      BY <1>1, <1>2, <1>5, UnregisterNow
    <2> QED BY <1>1, <1>3, <1>5, <2>1, OwnerUnlink
  <1> QED BY <1>4, <1>5

LEMMA RemoveEffect ==
    ASSUME NoFailure, RegistrationInv, NEW t \in Token, NEW s, s = Get(t), Remove(t)
    PROVE  /\ s \in Sources /\ Present(s) /\ ~Present(s)' /\ OwnerInv'
           /\ \A x \in Sources : x # s => (Present(x)' <=> Present(x)) /\ reg'[x] = reg[x]
           /\ UNCHANGED <<pending, running, pc>>
  <1>1. /\ s \in Sources /\ Present(s) /\ slots' = Vacate(slots, t)
        /\ UNCHANGED <<pending, running, pc>>
    BY GetProperties DEF Remove, cycle, RegistrationInv
  <1>2. /\ ~Present(s)' /\ \A x \in Sources : x # s => (Present(x)' <=> Present(x))
    BY <1>1, VacateFrame DEF RegistrationInv, OwnerInv
  <1>3. PICK w \in IF Borrowed(s) THEN {Now} ELSE Unregister(s, t, Now) : Becomes(w)
    BY DEF Remove
  <1>4. reg' = w.reg /\ lifecycle' = w.hooks
    BY <1>3 DEF Becomes
  <1>5. CASE Borrowed(s)
    <2>1. w.reg = reg /\ w.hooks = lifecycle
      BY <1>3, <1>5, NowProperties
    <2>2. OwnerInv'
      BY <1>1, <1>4, <1>5, <2>1, OwnerRemoveRunning
    <2> QED BY <1>1, <1>2, <1>4, <2>1, <2>2
  <1>6. CASE ~Borrowed(s) /\ reg[s] = None
    <2>1. w.reg = reg /\ w.hooks = lifecycle
      BY <1>1, <1>3, <1>6, UnregisterNow
    <2>2. OwnerInv'
      BY <1>1, <1>4, <1>6, <2>1, OwnerVacate
    <2> QED BY <1>1, <1>2, <1>4, <2>1, <2>2
  <1>7. CASE ~Borrowed(s) /\ reg[s] # None
    <2>1. w.reg = [reg EXCEPT ![s] = None] /\ w.hooks = WithoutHook(s, t, lifecycle)
      BY <1>1, <1>3, <1>7, UnregisterNow
    <2>2. OwnerInv'
      BY <1>1, <1>4, <1>7, <2>1, OwnerUnlink
    <2> QED BY <1>1, <1>2, <1>4, <2>1, <2>2, NowProperties
  <1> QED BY <1>5, <1>6, <1>7

----------------------------------------------------------------------------
(* The end of a callback.                                                  *)

\* Without failures, the running source stays in its slot and registered, or
\* its registration and its hooks are removed; it stays as it was, with a
\* callback that returns Continue and deferred nothing.
LEMMA ConcludeOutcome ==
    ASSUME NoFailure, RegistrationInv, pc = "callback", NEW ret \in PostAction,
           NEW s \in Sources, s = running.src, NEW t \in Token, t = running.tok,
           Conclude(s, t, ret, queue)
    PROVE  /\ pc' = "dispatch" /\ running' = None /\ pending' = "Continue"
           /\ slots' \in {slots, Vacate(slots, t)} /\ (ret = "Continue" => slots' = slots)
           /\ \/ /\ Get(t) = s /\ slots' = slots /\ reg' = reg
                 /\ \A u \in Token : Hooked(lifecycle', u) <=> Hooked(lifecycle, u)
                 /\ ret = "Continue" => pending # "Disable"
              \/ /\ reg' = [reg EXCEPT ![s] = None]
                 /\ \A u \in Token : Hooked(lifecycle', u)
                                        <=> Hooked(lifecycle, u) /\ (s \in Lifecycle => u # t)
                 /\ ret = "Continue" => Get(t) = None \/ pending = "Disable"
  <1> DEFINE action == Effective(ret)
             after  == IF action = "Remove" THEN Vacate(slots, t) ELSE slots
             first  == CASE action = "Reregister" -> Reregister(s, t, Now)
                         [] action = "Disable"    -> Unregister(s, t, Now)
                         [] OTHER                 -> {Now}
  <1>1. /\ Now \in World /\ Now.reg = reg /\ Now.hooks = lifecycle /\ Now.ok
        /\ reg \in [Sources -> Token \cup {None}] /\ lifecycle \in Seq(Token)
        /\ slots \in Seq(Slot) /\ None \notin Token
    BY ConstantsAssumption DEF Now, World, RegistrationInv, TokenInv, TypeInv, TypeOK
  <1>2. reg[s] = t /\ t # None /\ Get(t) \in {s, None}
    <2>1. running # None /\ [tok |-> t, src |-> s] \in issued
      BY DEF RegistrationInv, TokenInv, TypeInv, CallbackHasEvent, RunningIsIssued
    <2> QED BY <1>1, <2>1, IssuedResolve
            DEF RegistrationInv, TokenInv, OwnerInv, RunningIsRegistered
  <1>3. PICK w \in first :
           \/ ~w.ok /\ GoIdle /\ Becomes(w)
           \/ /\ w.ok
              /\ \E v \in IF RemovedMeanwhile(after, t) THEN Unregister(s, t, w) ELSE {w} :
                    Becomes(v)
              /\ pc' = "dispatch" /\ queue' = queue /\ running' = None /\ UNCHANGED hook
    BY DEF Conclude
  <1>4. slots' = after /\ pending' = "Continue"
    BY DEF Conclude, PendingTaken
  <1>5. w \in World
    BY <1>1, <1>3, OutcomeProperties
  <1>6. w.ok /\ \/ /\ action # "Disable" /\ w.reg = reg
                   /\ w.hooks \in {lifecycle, WithHook(s, t, lifecycle)}
                \/ /\ action = "Disable" /\ w.reg = [reg EXCEPT ![s] = None]
                   /\ w.hooks = WithoutHook(s, t, lifecycle)
    <2>1. CASE action = "Reregister"
      <3>0. w \in Reregister(s, t, Now) /\ reg[s] # None
        BY <1>1, <1>2, <1>3, <2>1
      <3>1. w.ok /\ w.reg = [reg EXCEPT ![s] = t] /\ w.hooks = WithHook(s, t, lifecycle)
        <4> HIDE DEF action, after, first
        <4> QED BY <3>0, ReregisterNow
      <3>2. [reg EXCEPT ![s] = t] = reg
        BY <1>1, <1>2
      <3> QED BY <2>1, <3>1, <3>2
    <2>2. CASE action = "Disable"
      <3>0. w \in Unregister(s, t, Now) /\ reg[s] # None
        BY <1>1, <1>2, <1>3, <2>2
      <3>1. w.ok /\ w.reg = [reg EXCEPT ![s] = None] /\ w.hooks = WithoutHook(s, t, lifecycle)
        <4> HIDE DEF action, after, first
        <4> QED BY <3>0, UnregisterNow
      <3> QED BY <2>2, <3>1
    <2>3. CASE action \notin {"Reregister", "Disable"}
      BY <1>1, <1>3, <2>3
    <2> QED BY <2>1, <2>2, <2>3
  <1>7. PICK v \in IF RemovedMeanwhile(after, t) THEN Unregister(s, t, w) ELSE {w} : Becomes(v)
    BY <1>3, <1>6
  <1>8. reg' = v.reg /\ lifecycle' = v.hooks
    BY <1>7 DEF Becomes
  <1>9. s \in Lifecycle => Hooked(lifecycle, t)
    BY <1>2 DEF RegistrationInv, OwnerInv, HooksAreKeys
  <1>10. \A u \in Token :
            /\ Hooked(WithHook(s, t, lifecycle), u) <=> Hooked(lifecycle, u)
            /\ Hooked(WithoutHook(s, t, lifecycle), u)
                  <=> Hooked(lifecycle, u) /\ (s \in Lifecycle => u # t)
    <2> TAKE u \in Token
    <2> HIDE DEF action, after, first
    <2>1. Hooked(WithHook(s, t, lifecycle), u)
             <=> Hooked(lifecycle, u) \/ (s \in Lifecycle /\ u = t)
      BY <1>1, HookedWith
    <2>2. Hooked(WithoutHook(s, t, lifecycle), u)
             <=> Hooked(lifecycle, u) /\ (s \in Lifecycle => u # t)
      BY <1>1, HookedWithout
    <2> QED BY <1>9, <2>1, <2>2
  <1>11. \A u \in Token : action # "Disable" => (Hooked(w.hooks, u) <=> Hooked(lifecycle, u))
    BY <1>6, <1>10
  <1>12. w.hooks \in Seq(Token) /\ w.reg \in [Sources -> Token \cup {None}]
    BY <1>5 DEF World
  <1>13. CASE RemovedMeanwhile(after, t)
    <2>1. v \in Unregister(s, t, w)
      BY <1>7, <1>13
    <2>2. CASE action = "Disable"
      <3>1. w.reg[s] = None
        BY <1>1, <1>6, <2>2
      <3>2. v.reg = [reg EXCEPT ![s] = None] /\ v.hooks = WithoutHook(s, t, lifecycle)
        BY <1>5, <1>6, <2>1, <2>2, <3>1, UnregisterOutcome
      <3>3. ret = "Continue" => pending = "Disable"
        BY <2>2 DEF Effective
      <3>4. ret = "Continue" => slots' = slots
        BY <1>4, <2>2
      <3> QED BY <1>3, <1>4, <1>6, <1>8, <1>10, <3>2, <3>3, <3>4
    <2>3. CASE action # "Disable"
      <3>1. w.reg = reg /\ w.reg[s] # None
        BY <1>2, <1>6, <2>3
      <3>2. v.reg = [reg EXCEPT ![s] = None] /\ v.hooks = WithoutHook(s, t, w.hooks)
        BY <1>5, <2>1, <3>1, UnregisterOutcome
      <3>3. \A u \in Token : Hooked(v.hooks, u)
                                <=> Hooked(lifecycle, u) /\ (s \in Lifecycle => u # t)
        <4> TAKE u \in Token
        <4> HIDE DEF action, after, first
        <4>1. Hooked(WithoutHook(s, t, w.hooks), u)
                 <=> Hooked(w.hooks, u) /\ (s \in Lifecycle => u # t)
          BY <1>12, HookedWithout
        <4>2. Hooked(w.hooks, u) <=> Hooked(lifecycle, u)
          BY <1>11, <2>3
        <4> QED BY <3>2, <4>1, <4>2
      <3>4. ret = "Continue" => slots' = slots /\ Get(t) = None
        BY <1>4, <1>13 DEF Effective, RegistrationInv, PendingInv, RemovedMeanwhile, Get
      <3> QED BY <1>3, <1>4, <1>6, <1>8, <3>2, <3>3, <3>4
    <2> QED BY <2>2, <2>3
  <1>14. CASE ~RemovedMeanwhile(after, t)
    <2>1. v = w /\ action # "Remove" /\ after = slots /\ Get(t) = s
      BY <1>1, <1>2, <1>7, <1>14, VacateProperties DEF RemovedMeanwhile, Get
    <2>2. CASE action = "Disable"
      <3>1. ret = "Continue" => pending = "Disable"
        BY <2>2 DEF Effective
      <3> QED BY <1>3, <1>4, <1>6, <1>8, <1>10, <2>1, <2>2, <3>1
    <2>3. CASE action # "Disable"
      <3>1. ret = "Continue" => pending # "Disable"
        BY <2>3 DEF Effective
      <3> QED BY <1>3, <1>4, <1>6, <1>8, <1>11, <2>1, <2>3, <3>1
    <2> QED BY <2>2, <2>3
  <1> QED BY <1>13, <1>14

LEMMA OwnerConclude ==
    ASSUME NoFailure, RegistrationInv, pc = "callback", NEW ret \in PostAction, Return(ret)
    PROVE  OwnerInv'
  <1> DEFINE s == running.src
             t == running.tok
  <1>1. /\ s \in Sources /\ t \in Token /\ running # None /\ \A x : Borrowed(x) <=> x = s
        /\ None \notin Token /\ None \notin Sources
        /\ reg \in [Sources -> Token \cup {None}] /\ Lifecycle \subseteq Sources
    BY RunningProperties, ConstantsAssumption
       DEF RegistrationInv, TokenInv, TypeInv, TypeOK, CallbackHasEvent
  <1>2. reg[s] = t /\ (Get(t) = s \/ (Get(t) = None /\ ~Present(s)))
    <2>1. [tok |-> t, src |-> s] \in issued
      BY <1>1 DEF RegistrationInv, TokenInv, RunningIsIssued
    <2>2. Get(t) \in {s, None}
      BY <2>1, IssuedResolve DEF RegistrationInv, TokenInv
    <2> QED BY <1>1, <2>2 DEF RegistrationInv, OwnerInv, RunningIsRegistered
  <1>3. Conclude(s, t, ret, queue)
    BY DEF Return
  <1>4. \A x \in Sources : reg[x] = t => x = s
    BY <1>1, <1>2, KeysDiffer
  <1> HIDE DEF s, t
  <1>5. s = running.src /\ t = running.tok
    BY DEF s, t
  <1>6. /\ pc' = "dispatch" /\ running' = None
        /\ slots' \in {slots, Vacate(slots, t)}
        /\ \/ /\ Get(t) = s /\ slots' = slots /\ reg' = reg
              /\ \A u \in Token : Hooked(lifecycle', u) <=> Hooked(lifecycle, u)
           \/ /\ reg' = [reg EXCEPT ![s] = None]
              /\ \A u \in Token : Hooked(lifecycle', u)
                                     <=> Hooked(lifecycle, u) /\ (s \in Lifecycle => u # t)
    BY <1>1, <1>3, <1>5, ConcludeOutcome
  <1>7. RunningIsRegistered' /\ \A x : ~Borrowed(x)'
    BY <1>6 DEF RunningIsRegistered, Borrowed
  <1>8. /\ OneSlotEach'
        /\ \A u \in Token : Get(u) # None /\ Get(u) # s => Get(u)' = Get(u)
    <2>1. CASE slots' = slots
      BY <2>1 DEF RegistrationInv, OwnerInv, OneSlotEach, Get
    <2>2. CASE Get(t) = s
      BY <1>1, <1>6, <2>2, VacateFrame DEF RegistrationInv, OwnerInv
    <2>3. CASE Get(t) = None
      BY <1>6, <2>1, <2>3 DEF Vacate, Get
    <2> QED BY <1>2, <2>2, <2>3
  <1>9. \A u \in Token : Hooked(lifecycle, u) <=> \E x \in Lifecycle : reg[x] = u
    BY DEF RegistrationInv, OwnerInv, HooksAreKeys
  <1>10. HooksAreKeys'
    <2> SUFFICES ASSUME NEW u \in Token
                 PROVE  Hooked(lifecycle', u) <=> \E x \in Lifecycle : reg'[x] = u
      BY DEF HooksAreKeys
    <2>1. CASE reg' = reg /\ (Hooked(lifecycle', u) <=> Hooked(lifecycle, u))
      BY <1>9, <2>1
    <2>2. CASE /\ reg' = [reg EXCEPT ![s] = None]
               /\ Hooked(lifecycle', u) <=> Hooked(lifecycle, u) /\ (s \in Lifecycle => u # t)
      <3>1. \A x \in Lifecycle : reg'[x] = IF x = s THEN None ELSE reg[x]
        BY <1>1, <2>2
      <3> QED BY <1>1, <1>2, <1>4, <1>9, <2>2, <3>1
    <2> QED BY <1>6, <2>1, <2>2
  <1>11. RegistrationsAreOwned'
    <2> SUFFICES ASSUME NEW x \in Sources, reg'[x] # None
                 PROVE  Get(reg[x])' = x
      BY DEF RegistrationsAreOwned
    <2>1. CASE x = s
      <3>1. reg' = reg /\ slots' = slots /\ Get(t) = s
        BY <1>1, <1>6, <2>1
      <3> QED BY <1>2, <2>1, <3>1 DEF Get
    <2>2. CASE x # s
      <3>1. reg'[x] = reg[x] /\ reg[x] \in Token
        BY <1>1, <1>6, <2>2
      <3>2. Get(reg[x]) = x
        BY <1>1, <2>2, <3>1 DEF RegistrationInv, OwnerInv, RegistrationsAreOwned
      <3>3. Lookup(slots', reg[x]) = x
        BY <1>1, <1>8, <2>2, <3>1, <3>2 DEF Get
      <3> QED BY <3>1, <3>3 DEF Get
    <2> QED BY <2>1, <2>2
  <1> QED BY <1>7, <1>8, <1>10, <1>11 DEF OwnerInv

----------------------------------------------------------------------------
(* The invariant holds of every step.                                      *)

LEMMA OwnerUserStep ==
    ASSUME NoFailure, RegistrationInv, TokenInv', UserStep
    PROVE  OwnerInv'
  <1>1. ASSUME NEW s \in Sources, Insert(s) PROVE OwnerInv'
    BY <1>1, InsertEffect
  <1>2. \A i \in issued : i.tok \in Token
    BY DEF RegistrationInv, TokenInv, TypeInv, TypeOK, Event
  <1>3. ASSUME NEW i \in issued, Enable(i.tok) PROVE OwnerInv'
    BY <1>2, <1>3, EnableEffect
  <1>4. ASSUME NEW i \in issued, NEW action, Defer(i.tok, action) PROVE OwnerInv'
    BY <1>4, OwnerKept DEF Defer, registry, cycle
  <1>5. ASSUME NEW i \in issued, Update(i.tok) PROVE OwnerInv'
    BY <1>2, <1>4, <1>5, UpdateNowEffect DEF Update
  <1>6. ASSUME NEW i \in issued, Disable(i.tok) PROVE OwnerInv'
    BY <1>2, <1>4, <1>6, DisableNowEffect DEF Disable
  <1>7. ASSUME NEW i \in issued, Remove(i.tok) PROVE OwnerInv'
    BY <1>2, <1>7, RemoveEffect
  <1> QED BY <1>1, <1>3, <1>5, <1>6, <1>7 DEF UserStep

\* An event for a disabled source, or for an earlier registration of it, does
\* nothing: there is no pending action.
LEMMA SkipEffect ==
    ASSUME RegistrationInv, SkipEvent
    PROVE  UNCHANGED <<registry, pending, running, pc>> /\ pc = "dispatch"
  <1>1. /\ pc = "dispatch" /\ pending = "Continue" /\ running = None
        /\ Get(Head(queue).tok) # None
        /\ Conclude(Get(Head(queue).tok), Head(queue).tok, "Continue", Tail(queue))
    BY DEF SkipEvent, RegistrationInv, PendingInv, NothingPendingBetweenCallbacks,
           TokenInv, TypeInv, CallbackHasEvent
  <1>2. Effective("Continue") = "Continue" /\ ~RemovedMeanwhile(slots, Head(queue).tok)
    BY <1>1 DEF Effective, RemovedMeanwhile, Get
  <1>3. \E w \in {Now} :
          \/ ~w.ok /\ GoIdle /\ Becomes(w)
          \/ /\ w.ok /\ \E v \in {w} : Becomes(v)
             /\ pc' = "dispatch" /\ running' = None
    BY <1>1, <1>2 DEF Conclude
  <1>4. slots' = slots /\ pending' = "Continue" /\ UNCHANGED issued
    BY <1>1, <1>2 DEF Conclude, PendingTaken
  <1> QED BY <1>1, <1>3, <1>4 DEF Now, Becomes, registry

LEMMA BeginEffect ==
    ASSUME RegistrationInv, BeginCallback
    PROVE  /\ OwnerInv' /\ UNCHANGED <<registry, pending>>
           /\ running = None /\ pc' = "callback" /\ running' # None
           /\ running'.src \in Sources /\ Present(running'.src) /\ reg[running'.src] # None
           /\ pending = "Continue"
  <1> DEFINE e == Head(queue)
  <1>1. e \in Event /\ pc = "dispatch" /\ running = None /\ pending = "Continue"
    BY HeadTailProperties DEF BeginCallback, RegistrationInv, TokenInv, TypeInv, TypeOK,
       CallbackHasEvent, PendingInv, NothingPendingBetweenCallbacks
  <1>2. e.tok \in Token
    BY <1>1 DEF Event
  <1>3. /\ Get(e.tok) # None /\ reg[Get(e.tok)] = e.tok
        /\ running' = [tok |-> e.tok, src |-> Get(e.tok), polled |-> e.src]
        /\ pc' = "callback" /\ UNCHANGED <<slots, reg, lifecycle, issued, pending>>
    BY DEF BeginCallback, Accepts, registry
  <1>4. Get(e.tok) \in Sources /\ Present(Get(e.tok))
    BY <1>2, <1>3, GetProperties DEF RegistrationInv
  <1>5. running'.src = Get(e.tok) /\ running'.tok = e.tok
    BY <1>3
  <1>6. running' \in Run
    BY <1>1, <1>2, <1>3, <1>4 DEF Run, Event
  <1>7. running' # None /\ None \notin Token
    BY <1>6, ConstantsAssumption
  <1> HIDE DEF e
  <1>8. RegistrationsAreOwned'
    BY <1>1, <1>3 DEF RegistrationInv, OwnerInv, RegistrationsAreOwned, Borrowed, Get
  <1>9. RunningIsRegistered'
    BY <1>3, <1>5 DEF RunningIsRegistered, Get
  <1>10. OneSlotEach' /\ HooksAreKeys'
    BY <1>3 DEF RegistrationInv, OwnerInv, OneSlotEach, HooksAreKeys
  <1> QED BY <1>1, <1>2, <1>3, <1>4, <1>5, <1>7, <1>8, <1>9, <1>10 DEF OwnerInv, registry

\* The steps of the loop that neither begin nor end a callback.
QuietStep ==
    \/ StartDispatch \/ BeforeSleep \/ BeforeSleepWithEvent \/ Poll \/ PollInterrupted
    \/ BeforeHandleEvents \/ StartEvents \/ StaleEvent \/ EndDispatch \/ SkipEvent

LEMMA QuietEffect ==
    ASSUME RegistrationInv, QuietStep
    PROVE  /\ UNCHANGED <<slots, reg, lifecycle, pending, running>>
           /\ running = None /\ pc # "callback" /\ pc' # "callback"
  <1>1. pc # "callback" => running = None
    BY DEF RegistrationInv, TokenInv, TypeInv, CallbackHasEvent
  <1>2. CASE StartDispatch \/ BeforeSleep \/ BeforeSleepWithEvent
    BY <1>1, <1>2 DEF StartDispatch, BeforeSleep, BeforeSleepWithEvent, Walking, registry
  <1>3. CASE Poll \/ PollInterrupted \/ BeforeHandleEvents
    BY <1>1, <1>3 DEF Poll, PollInterrupted, BeforeHandleEvents, Walking, Walked, GoIdle, registry
  <1>4. CASE StartEvents \/ StaleEvent \/ EndDispatch
    BY <1>1, <1>4 DEF StartEvents, StaleEvent, EndDispatch, Walked, GoIdle, registry
  <1>5. CASE SkipEvent
    BY <1>1, <1>5, SkipEffect DEF registry
  <1> QED BY <1>2, <1>3, <1>4, <1>5 DEF QuietStep

\* Without failures, a step is one of these.
LEMMA StepCases ==
    ASSUME NoFailure, RegistrationInv, Next
    PROVE  UserStep \/ QuietStep \/ BeginCallback \/ \E ret \in PostAction : Return(ret)
  BY DEF Next, LoopStep, QuietStep, NoFailure, BeforeSleepError, CallbackError

LEMMA RegistrationInit == Init => RegistrationInv
  <1> SUFFICES ASSUME Init PROVE RegistrationInv
    OBVIOUS
  <1>1. DOMAIN <<>> = {} /\ None \notin Token /\ Lifecycle \subseteq Sources
    BY ConstantsAssumption
  <1> QED BY <1>1, TokenInit
          DEF Init, RegistrationInv, PendingInv, NothingPendingBetweenCallbacks, OwnerInv,
              OneSlotEach, RegistrationsAreOwned, RunningIsRegistered, HooksAreKeys, Hooked

LEMMA RegistrationStep ==
    ASSUME NoFailure, RegistrationInv, [Next]_vars
    PROVE  RegistrationInv'
  <1>1. TokenInv'
    BY TokenStep DEF RegistrationInv, NoFailure
  <1>2. PendingInv'
    BY PendingStep DEF RegistrationInv, NoFailure, TokenInv
  <1>3. ASSUME UserStep PROVE OwnerInv'
    BY <1>1, <1>3, OwnerUserStep
  <1>4. ASSUME QuietStep PROVE OwnerInv'
    BY <1>4, QuietEffect, OwnerIdle
  <1>5. ASSUME BeginCallback PROVE OwnerInv'
    BY <1>5, BeginEffect
  <1>6. ASSUME NEW ret \in PostAction, Return(ret) PROVE OwnerInv'
    BY <1>6, OwnerConclude DEF Return
  <1>7. ASSUME UNCHANGED vars PROVE OwnerInv'
    BY <1>7, OwnerKept DEF vars, registry, cycle
  <1>8. OwnerInv'
    BY <1>3, <1>4, <1>5, <1>6, <1>7, StepCases
  <1> QED BY <1>1, <1>2, <1>8 DEF RegistrationInv

LEMMA RegistrationHolds ==
    ASSUME NoFailure
    PROVE  Spec => []RegistrationInv
  <1>1. RegistrationInv /\ [Next]_vars => RegistrationInv'
    BY RegistrationStep
  <1> QED BY <1>1, RegistrationInit, PTL DEF Spec

\* A source registered in the poller has the slot that its key names, outside
\* of its own callback: insertions, removals and the end of a callback that
\* removed its source leave no registration behind.
THEOREM EveryRegistrationIsOwned ==
    ASSUME NoFailure
    PROVE  Spec => []RegistrationsAreOwned
  <1>1. RegistrationInv => RegistrationsAreOwned
    BY DEF RegistrationInv, OwnerInv
  <1> QED BY <1>1, RegistrationHolds, PTL

\* The walks over the lifecycle list reach every registered source that has
\* hooks, and no other.
THEOREM HooksFollowRegistrations ==
    ASSUME NoFailure
    PROVE  Spec => []HooksAreOfRegisteredSources
  <1>1. RegistrationInv => HooksAreOfRegisteredSources
    <2> SUFFICES ASSUME RegistrationInv PROVE HooksAreOfRegisteredSources
      OBVIOUS
    <2>1. /\ \A k \in DOMAIN lifecycle : lifecycle[k] \in Token
          /\ \A s \in Lifecycle : reg[s] # None => reg[s] \in Token
          /\ None \notin Token /\ Lifecycle \subseteq Sources
      BY ConstantsAssumption, LenProperties, ElementOfSeq
         DEF RegistrationInv, TokenInv, TypeInv, TypeOK
    <2>2. ASSUME NEW k \in DOMAIN lifecycle
          PROVE  \E s \in Lifecycle : /\ reg[s] = lifecycle[k]
                                      /\ Get(lifecycle[k]) = s \/ Borrowed(s)
      <3>1. PICK s \in Lifecycle : reg[s] = lifecycle[k]
        BY <2>1 DEF RegistrationInv, OwnerInv, HooksAreKeys, Hooked
      <3>2. Get(reg[s]) = s \/ Borrowed(s)
        BY <2>1, <3>1 DEF RegistrationInv, OwnerInv, RegistrationsAreOwned
      <3> QED BY <3>1, <3>2
    <2>3. ASSUME NEW s \in Lifecycle, reg[s] # None
          PROVE  \E k \in DOMAIN lifecycle : lifecycle[k] = reg[s]
      BY <2>1, <2>3 DEF RegistrationInv, OwnerInv, HooksAreKeys, Hooked
    <2> QED BY <2>2, <2>3 DEF HooksAreOfRegisteredSources
  <1> QED BY <1>1, RegistrationHolds, PTL

\* The unreachable!() of the walk before the poll is unreachable as long as no
\* call of a source fails.
THEOREM WalksDoNotPanic ==
    ASSUME NoFailure
    PROVE  Spec => []NeverPanics
  <1>1. Init => NeverPanics
    BY DEF Init, NeverPanics
  <1>2. ASSUME RegistrationInv, NeverPanics, [Next]_vars
        PROVE  NeverPanics'
    <2>1. CASE BeforeSleep
      <3>1. PICK k \in DOMAIN lifecycle : k = hook
        BY <2>1 DEF BeforeSleep, Walking
      <3>2. lifecycle[k] \in Token /\ None \notin Token /\ Lifecycle \subseteq Sources
            /\ None \notin Sources
        BY <1>2, ConstantsAssumption, LenProperties, ElementOfSeq
           DEF RegistrationInv, TokenInv, TypeInv, TypeOK
      <3>3. PICK s \in Lifecycle : reg[s] = lifecycle[k]
        BY <1>2, <3>2 DEF RegistrationInv, OwnerInv, HooksAreKeys, Hooked
      <3>4. Get(lifecycle[k]) = s \/ Borrowed(s)
        BY <1>2, <3>2, <3>3 DEF RegistrationInv, OwnerInv, RegistrationsAreOwned
      <3>5. ~Borrowed(s)
        BY <2>1 DEF BeforeSleep, Walking, Borrowed
      <3> QED BY <1>2, <2>1, <3>1, <3>2, <3>4, <3>5 DEF BeforeSleep, NeverPanics
    <2>2. CASE UserStep
      BY <1>2, <2>2 DEF UserStep, Insert, Enable, Update, UpdateNow, Disable, DisableNow,
                        Defer, Remove, cycle, NeverPanics
    <2>3. CASE StartDispatch \/ BeforeSleepWithEvent \/ Poll \/ PollInterrupted
               \/ BeforeHandleEvents \/ StartEvents
      BY <1>2, <2>3 DEF StartDispatch, BeforeSleepWithEvent, Poll, PollInterrupted,
                        BeforeHandleEvents, StartEvents, GoIdle, NeverPanics
    <2>4. CASE StaleEvent \/ EndDispatch \/ SkipEvent \/ BeginCallback
               \/ \E ret \in PostAction : Return(ret)
      BY <1>2, <2>4 DEF StaleEvent, EndDispatch, SkipEvent, BeginCallback, Return, Conclude,
                        GoIdle, NeverPanics
    <2>5. CASE BeforeSleepError \/ CallbackError
      BY <2>5 DEF BeforeSleepError, CallbackError, GoIdle, NeverPanics
    <2>6. CASE UNCHANGED vars
      BY <1>2, <2>6 DEF vars, cycle, NeverPanics
    <2> QED BY <1>2, <2>1, <2>2, <2>3, <2>4, <2>5, <2>6 DEF Next, LoopStep
  <1> QED BY <1>1, <1>2, RegistrationHolds, PTL DEF Spec

----------------------------------------------------------------------------
(* What the user has asked for, and the registry that the loop implements. *)

\* The end of a callback changes the status of its own source only, never
\* brings it back, and changes nothing that was not asked for.
LEMMA ReturnEffect ==
    ASSUME NoFailure, RegistrationInv, NEW ret \in PostAction, Return(ret),
           NEW s, s = running.src
    PROVE  /\ s \in Sources /\ pc = "callback" /\ pc' = "dispatch"
           /\ \A x \in Sources : x # s => Status(x)' = Status(x)
           /\ ~Present(s) => Status(s)' = Status(s)
           /\ ret = "Continue" => Status(s)' = Status(s)
  <1>1. pc = "callback" /\ running # None /\ s \in Sources /\ running.tok \in Token
    BY RunningProperties DEF Return, RegistrationInv, TokenInv, TypeInv, CallbackHasEvent
  <1>2. PICK t \in Token : t = running.tok
    BY <1>1
  <1>3. /\ reg[s] = t /\ (Get(t) = s \/ ~Present(s))
        /\ reg \in [Sources -> Token \cup {None}] /\ None \notin Token /\ None \notin Sources
    BY <1>1, <1>2, ConstantsAssumption
       DEF RegistrationInv, TokenInv, TypeInv, TypeOK, OwnerInv, RunningIsRegistered
  <1>4. Conclude(s, t, ret, queue)
    BY <1>2 DEF Return
  <1>5. /\ pc' = "dispatch" /\ pending' = "Continue"
        /\ slots' \in {slots, Vacate(slots, t)} /\ (ret = "Continue" => slots' = slots)
        /\ \/ /\ Get(t) = s /\ slots' = slots /\ reg' = reg
              /\ ret = "Continue" => pending # "Disable"
           \/ /\ reg' = [reg EXCEPT ![s] = None]
              /\ ret = "Continue" => Get(t) = None \/ pending = "Disable"
    BY <1>1, <1>2, <1>4, ConcludeOutcome
  <1>6. /\ \A x \in Sources : x # s => reg'[x] = reg[x] /\ ~Borrowed(x)
        /\ Borrowed(s) /\ \A x : ~Borrowed(x)'
    BY <1>1, <1>3, <1>5 DEF Borrowed
  <1>7. /\ \A x \in Sources : x # s => (Present(x)' <=> Present(x))
        /\ Present(s)' => Present(s)
    <2>1. CASE slots' = slots
      BY <2>1 DEF Present
    <2>2. CASE Get(t) = s
      BY <1>1, <1>5, <2>2, VacateFrame DEF RegistrationInv, OwnerInv
    <2>3. CASE Get(t) = None
      BY <1>5, <2>1, <2>3 DEF Vacate, Get
    <2>4. Get(t) \in {s, None}
      <3>1. [tok |-> t, src |-> s] \in issued
        BY <1>1, <1>2 DEF RegistrationInv, TokenInv, RunningIsIssued
      <3> QED BY <3>1, IssuedResolve DEF RegistrationInv, TokenInv
    <2> QED BY <2>2, <2>3, <2>4
  <1>8. ASSUME ret = "Continue" PROVE Status(s)' = Status(s)
    <2>1. Present(s)' <=> Present(s)
      BY <1>5, <1>8 DEF Present
    <2>2. CASE Get(t) = s /\ reg' = reg /\ pending # "Disable"
      BY <1>3, <1>6, <2>1, <2>2 DEF Status
    <2>3. CASE reg'[s] = None /\ Get(t) = None
      <3>1. ~Present(s)
        BY <1>1, <1>3, <2>3
      <3> QED BY <2>1, <3>1 DEF Status
    <2>4. CASE reg'[s] = None /\ pending = "Disable"
      BY <1>6, <2>1, <2>4 DEF Status
    <2> QED BY <1>1, <1>3, <1>5, <1>8, <2>2, <2>3, <2>4
  <1>9. \A x \in Sources : x # s => Status(x)' = Status(x)
    BY <1>6, <1>7 DEF Status
  <1>10. ~Present(s) => Status(s)' = Status(s)
    BY <1>7 DEF Status
  <1> QED BY <1>1, <1>5, <1>8, <1>9, <1>10

\* A callback that returns Continue leaves every source as the calls made in
\* the callback asked, its own source included.
THEOREM RequestsAreKept ==
    ASSUME NoFailure
    PROVE  Spec => ContinueKeepsRequests
  <1>1. ASSUME RegistrationInv, Return("Continue")
        PROVE  \A s \in Sources : Status(s)' = Status(s)
    <2>1. "Continue" \in PostAction
      BY DEF PostAction
    <2>2. PICK s : s = running.src
      OBVIOUS
    <2> QED BY <1>1, <2>1, <2>2, ReturnEffect
  <1>2. RegistrationInv /\ [Next]_vars
            => [Return("Continue") => \A s \in Sources : Status(s)' = Status(s)]_vars
    BY <1>1
  <1> QED BY <1>2, RegistrationHolds, PTL DEF Spec, ContinueKeepsRequests

LEMMA StatusType == \A s : Status(s) \in Registry!States /\ (Status(s) = "absent" <=> ~Present(s))
  BY DEF Status, Registry!States

LEMMA StatusMoves ==
    ASSUME NEW s \in Sources, NEW from, NEW to, Status(s) \in from, Status(s)' = to,
           \A x \in Sources : x # s => Status(x)' = Status(x)
    PROVE  Registry!Move(s, from, to)
  BY DEF Registry!Move

LEMMA RegistryStutters ==
    ASSUME \A x \in Sources : Status(x)' = Status(x), Active' = Active
    PROVE  UNCHANGED Registry!vars
  BY DEF Registry!vars

\* An operation of the handle changes the status of one source, or nothing.
LEMMA RegistryUserStep ==
    ASSUME NoFailure, RegistrationInv, TokenInv', UserStep
    PROVE  [Registry!Next]_(Registry!vars)
  <1>1. /\ \A i \in issued : i.tok \in Token
        /\ None \notin Token /\ None \notin Sources
        /\ reg \in [Sources -> Token \cup {None}]
    BY ConstantsAssumption DEF RegistrationInv, TokenInv, TypeInv, TypeOK, Event
  <1>2. ASSUME UNCHANGED <<running, pc>>
        PROVE  /\ Active' = Active /\ \A x : Borrowed(x)' <=> Borrowed(x)
               /\ \A x \in Sources : Borrowed(x) <=> Active = x
    BY <1>1, <1>2 DEF Active, Borrowed
  <1>3. ASSUME NEW s \in Sources, Insert(s)
        PROVE  Registry!Insert(s)
    <2>1. /\ ~Present(s) /\ ~Borrowed(s) /\ Present(s)' /\ reg'[s] # None
          /\ \A x \in Sources : x # s => (Present(x)' <=> Present(x)) /\ reg'[x] = reg[x]
          /\ UNCHANGED <<pending, running, pc>>
      BY <1>3, InsertEffect
    <2>2. Status(s) = "absent" /\ Status(s)' = "enabled"
      BY <1>2, <2>1 DEF Status
    <2>3. \A x \in Sources : x # s => Status(x)' = Status(x)
      BY <1>2, <2>1 DEF Status
    <2>4. Registry!Move(s, {"absent"}, "enabled")
      BY <2>2, <2>3, StatusMoves
    <2> QED BY <1>2, <2>1, <2>4 DEF Registry!Insert
  <1>4. ASSUME NEW i \in issued, Enable(i.tok)
        PROVE  UNCHANGED Registry!vars \/ \E s \in Sources : Registry!Enable(s)
    <2>1. PICK s : s = Get(i.tok)
      OBVIOUS
    <2>2. /\ s \in Sources /\ Present(s) /\ ~Borrowed(s)
          /\ UNCHANGED <<slots, pending, running, pc>>
          /\ reg' = [reg EXCEPT ![s] = i.tok]
      BY <1>1, <1>4, <2>1, EnableEffect
    <2>3. Status(s)' = "enabled" /\ Status(s) \in {"enabled", "disabled"}
      BY <1>1, <1>2, <2>2 DEF Status, Present
    <2>4. \A x \in Sources : x # s => Status(x)' = Status(x)
      BY <1>1, <1>2, <2>2 DEF Status, Present
    <2>5. CASE Status(s) = "enabled"
      BY <1>2, <2>2, <2>3, <2>4, <2>5, RegistryStutters
    <2>6. CASE Status(s) = "disabled"
      <3>1. Registry!Move(s, {"disabled"}, "enabled")
        BY <2>2, <2>3, <2>4, <2>6, StatusMoves
      <3> QED BY <1>2, <2>2, <3>1 DEF Registry!Enable
    <2> QED BY <2>3, <2>5, <2>6
  <1>5. ASSUME NEW i \in issued, UpdateNow(i.tok)
        PROVE  UNCHANGED Registry!vars
    <2>1. UNCHANGED <<slots, reg, pending, running, pc>>
      BY <1>1, <1>5, UpdateNowEffect
    <2>2. \A x \in Sources : Status(x)' = Status(x)
      BY <1>2, <2>1 DEF Status, Present
    <2> QED BY <1>2, <2>1, <2>2, RegistryStutters
  <1>6. ASSUME NEW i \in issued, NEW action, Defer(i.tok, action), NEW s, s = Get(i.tok)
        PROVE  /\ s \in Sources /\ Active = s /\ Active' = Active
               /\ Status(s)' = IF action = "Disable" THEN "disabled" ELSE "enabled"
               /\ Status(s) \in {"enabled", "disabled"}
               /\ \A x \in Sources : x # s => Status(x)' = Status(x)
    <2>1. /\ s \in Sources /\ Present(s) /\ Borrowed(s) /\ pending' = action
          /\ UNCHANGED <<slots, reg, running, pc>>
      BY <1>1, <1>6, GetProperties DEF Defer, RegistrationInv, registry, cycle
    <2>2. \A x \in Sources : x # s => ~Borrowed(x)
      BY <2>1 DEF Borrowed
    <2> QED BY <1>2, <2>1, <2>2 DEF Status, Present
  <1>7. ASSUME NEW i \in issued, Defer(i.tok, "Reregister")
        PROVE  UNCHANGED Registry!vars \/ \E s \in Sources : Registry!UpdateActive(s)
    <2>1. PICK s : s = Get(i.tok)
      OBVIOUS
    <2>2. /\ s \in Sources /\ Active = s /\ Active' = Active
          /\ Status(s)' = "enabled" /\ Status(s) \in {"enabled", "disabled"}
          /\ \A x \in Sources : x # s => Status(x)' = Status(x)
      BY <1>6, <1>7, <2>1
    <2>3. CASE Status(s) = "enabled"
      BY <2>2, <2>3, RegistryStutters
    <2>4. CASE Status(s) = "disabled"
      <3>1. Registry!Move(s, {"disabled"}, "enabled")
        BY <2>2, <2>4, StatusMoves
      <3> QED BY <2>2, <3>1 DEF Registry!UpdateActive
    <2> QED BY <2>2, <2>3, <2>4
  <1>8. ASSUME NEW i \in issued, DisableNow(i.tok) \/ Defer(i.tok, "Disable")
        PROVE  UNCHANGED Registry!vars \/ \E s \in Sources : Registry!Disable(s)
    <2>1. PICK s : s = Get(i.tok)
      OBVIOUS
    <2>2. /\ s \in Sources /\ Active' = Active
          /\ Status(s)' = "disabled" /\ Status(s) \in {"enabled", "disabled"}
          /\ \A x \in Sources : x # s => Status(x)' = Status(x)
      <3>1. CASE DisableNow(i.tok)
        <4>1. /\ s \in Sources /\ Present(s) /\ ~Borrowed(s)
              /\ UNCHANGED <<slots, pending, running, pc>>
              /\ reg' = [reg EXCEPT ![s] = None]
          BY <1>1, <2>1, <3>1, DisableNowEffect
        <4> QED BY <1>1, <1>2, <4>1 DEF Status, Present
      <3>2. CASE Defer(i.tok, "Disable")
        BY <1>6, <2>1, <3>2
      <3> QED BY <1>8, <3>1, <3>2
    <2>3. CASE Status(s) = "disabled"
      BY <2>2, <2>3, RegistryStutters
    <2>4. CASE Status(s) = "enabled"
      <3>1. Registry!Move(s, {"enabled"}, "disabled")
        BY <2>2, <2>4, StatusMoves
      <3> QED BY <2>2, <3>1 DEF Registry!Disable
    <2> QED BY <2>2, <2>3, <2>4
  <1>9. ASSUME NEW i \in issued, Remove(i.tok)
        PROVE  \E s \in Sources : Registry!Remove(s)
    <2>1. PICK s : s = Get(i.tok)
      OBVIOUS
    <2>2. /\ s \in Sources /\ Present(s) /\ ~Present(s)'
          /\ \A x \in Sources : x # s => (Present(x)' <=> Present(x)) /\ reg'[x] = reg[x]
          /\ UNCHANGED <<pending, running, pc>>
      BY <1>1, <1>9, <2>1, RemoveEffect
    <2>3. /\ Status(s) \in {"enabled", "disabled"} /\ Status(s)' = "absent"
          /\ \A x \in Sources : x # s => Status(x)' = Status(x)
      BY <1>2, <2>2 DEF Status
    <2>4. Registry!Move(s, {"enabled", "disabled"}, "absent")
      BY <2>2, <2>3, StatusMoves
    <2> QED BY <1>2, <2>2, <2>4 DEF Registry!Remove
  <1> QED BY <1>3, <1>4, <1>5, <1>7, <1>8, <1>9
          DEF UserStep, Update, Disable, Registry!Next

LEMMA RegistryStep ==
    ASSUME NoFailure, RegistrationInv, [Next]_vars
    PROVE  [Registry!Next]_(Registry!vars)
  <1>1. TokenInv'
    BY TokenStep DEF RegistrationInv, NoFailure
  <1>2. ASSUME UserStep
        PROVE  [Registry!Next]_(Registry!vars)
    BY <1>1, <1>2, RegistryUserStep
  <1>3. ASSUME QuietStep
        PROVE  UNCHANGED Registry!vars
    <2>1. /\ UNCHANGED <<slots, reg, pending>>
          /\ pc # "callback" /\ pc' # "callback"
      BY <1>3, QuietEffect
    <2>2. Active' = Active /\ \A x : ~Borrowed(x) /\ ~Borrowed(x)'
      BY <2>1 DEF Active, Borrowed
    <2>3. \A x \in Sources : Status(x)' = Status(x)
      BY <2>1, <2>2 DEF Status, Present
    <2> QED BY <2>2, <2>3, RegistryStutters
  <1>4. ASSUME BeginCallback
        PROVE  \E s \in Sources : Registry!Begin(s)
    <2>1. PICK s : s = running'.src
      OBVIOUS
    <2>2. /\ s \in Sources /\ Present(s) /\ reg[s] # None /\ pending = "Continue"
          /\ UNCHANGED <<slots, reg, pending>> /\ pc # "callback" /\ pc' = "callback"
      BY <1>4, <2>1, BeginEffect DEF registry, BeginCallback
    <2>3. Active = None /\ Active' = s
      BY <2>1, <2>2 DEF Active
    <2>4. \A x : ~Borrowed(x) /\ (Borrowed(x)' <=> x = s)
      BY <2>1, <2>2 DEF Borrowed
    <2>5. Status(s) = "enabled" /\ \A x \in Sources : Status(x)' = Status(x)
      BY <2>2, <2>4 DEF Status, Present
    <2> QED BY <2>2, <2>3, <2>5 DEF Registry!Begin
  <1>5. ASSUME NEW ret \in PostAction, Return(ret)
        PROVE  \E s \in Sources : Registry!End(s)
    <2>1. PICK s : s = running.src
      OBVIOUS
    <2>2. /\ s \in Sources /\ pc = "callback" /\ pc' = "dispatch"
          /\ \A x \in Sources : x # s => Status(x)' = Status(x)
          /\ ~Present(s) => Status(s)' = Status(s)
      BY <1>5, <2>1, ReturnEffect
    <2>3. Active = s /\ Active' = None
      BY <2>1, <2>2 DEF Active
    <2>4. CASE Present(s)
      <3>1. Status(s) \in {"enabled", "disabled"} /\ Status(s)' \in Registry!States
        BY <2>4 DEF Status, Registry!States
      <3>2. PICK to \in Registry!States : Status(s)' = to
        BY <3>1
      <3>3. Registry!Move(s, {"enabled", "disabled"}, to)
        BY <2>2, <3>1, <3>2, StatusMoves
      <3> QED BY <2>2, <2>3, <3>3 DEF Registry!End
    <2>5. CASE ~Present(s)
      <3>1. \A x \in Sources : Status(x)' = Status(x)
        BY <2>2, <2>5
      <3> QED BY <2>2, <2>3, <3>1 DEF Registry!End
    <2> QED BY <2>4, <2>5
  <1>6. ASSUME UNCHANGED vars
        PROVE  UNCHANGED Registry!vars
    BY <1>6, RegistryStutters DEF vars, registry, cycle, Status, Active, Present, Borrowed
  <1> QED BY <1>2, <1>3, <1>4, <1>5, <1>6, StepCases DEF Registry!Next

\* Without failures the loop implements the registry of sources that its
\* documentation describes: slots, versions, keys, the lifecycle list and the
\* pending action never do more than the three states of a source allow, and
\* only enabled sources are called.
THEOREM ImplementsRegistry ==
    ASSUME NoFailure
    PROVE  Spec => RefinesRegistry
  <1>1. Init => Registry!Init
    BY DEF Init, Registry!Init, Status, Present, Active
  <1>2. RegistrationInv /\ [Next]_vars => [Registry!Next]_(Registry!vars)
    BY RegistryStep
  <1> QED BY <1>1, <1>2, RegistrationHolds, PTL DEF Spec, RefinesRegistry, Registry!Spec

----------------------------------------------------------------------------
(* How a token (module Tokens) becomes a key of the poller and back.       *)

\* A product grows with its first factor by at least the second.
LEMMA ProductLess ==
    ASSUME NEW a \in Nat, NEW b \in Nat, NEW c \in Nat, a < b
    PROVE  a * c + c <= b * c
  <1>1. (a + 1) * c = a * c + c
    OBVIOUS
  <1>2. PICK d \in Nat : b = a + 1 + d
    <2>1. b - a - 1 \in Nat /\ b = a + 1 + (b - a - 1)
      OBVIOUS
    <2> QED BY <2>1
  <1>3. b * c = (a + 1) * c + d * c /\ d * c \in Nat
    BY <1>2
  <1> QED BY <1>1, <1>3

\* Division takes apart what was put together, and Quotient the converse.
LEMMA DivMod ==
    ASSUME NEW a \in Nat, NEW b \in Nat \ {0}, NEW r \in 0 .. b - 1
    PROVE  (a * b + r) \div b = a /\ (a * b + r) % b = r
  OBVIOUS

LEMMA Quotient ==
    ASSUME NEW n \in Nat, NEW b \in Nat \ {0}
    PROVE  n = (n \div b) * b + (n % b) /\ n % b \in 0 .. b - 1 /\ n \div b \in Nat
  OBVIOUS

\* What a word holds that drops nothing
Word(l, t) == t.id * (l.versions * l.subs) + t.version * l.subs + t.sub_id

LEMMA UnpackWord ==
    ASSUME NEW l, IsLayout(l), NEW t \in TokenInner(l)
    PROVE  Word(l, t) \in Nat /\ Unpack(l, Word(l, t)) = t
  <1>1. PICK v \in Nat \ {0}, s \in Nat \ {0} : v = l.versions /\ s = l.subs
    BY DEF IsLayout
  <1>2. PICK i \in Nat, x \in 0 .. v - 1, u \in 0 .. s - 1 : t = [id |-> i, version |-> x, sub_id |-> u]
    BY <1>1 DEF TokenInner
  <1>3. PICK n \in Nat : n = i * (v * s) + x * s + u
    <2>1. i * (v * s) \in Nat /\ x * s \in Nat
      OBVIOUS
    <2> QED BY <2>1
  <1>4. PICK b \in Nat \ {0} : b = v * s
    OBVIOUS
  <1>5. PICK r \in Nat : r = x * s + u /\ r < b
    <2>1. x * s + s <= v * s
      BY ProductLess
    <2>2. x * s \in Nat
      OBVIOUS
    <2> QED BY <1>4, <2>1, <2>2
  <1>6. n = i * b + r /\ r \in 0 .. b - 1
    <2>1. i * b \in Nat /\ x * s \in Nat
      OBVIOUS
    <2> QED BY <1>3, <1>4, <1>5, <2>1
  <1>7. n \div b = i
    BY <1>6, DivMod
  <1>8. PICK m \in Nat : m = i * v + x
    OBVIOUS
  <1>9. n = m * s + u
    <2>1. m * s = (i * v) * s + x * s /\ (i * v) * s = i * (v * s)
      BY <1>8
    <2>2. i * (v * s) \in Nat /\ x * s \in Nat /\ m * s \in Nat
      OBVIOUS
    <2> QED BY <1>3, <2>1, <2>2
  <1>10. n \div s = m /\ n % s = u
    BY <1>9, DivMod
  <1>11. m % v = x
    BY <1>8, DivMod
  <1>12. n = Word(l, t)
    BY <1>1, <1>2, <1>3 DEF Word
  <1>13. Unpack(l, n) = [id |-> i, version |-> x, sub_id |-> u]
    BY <1>1, <1>4, <1>7, <1>10, <1>11 DEF Unpack
  <1> QED BY <1>2, <1>12, <1>13

\* Of a target: the bits of versions and sub-ids are the low bits of a word.
Target(l) == \E n \in Nat \ {0} : l.words = n * (l.versions * l.subs)

\* The room for ids, and what a shift of the id keeps of it.
LEMMA IdsOfTarget ==
    ASSUME NEW v \in Nat \ {0}, NEW s \in Nat \ {0}, NEW n \in Nat \ {0}
    PROVE  /\ (n * (v * s)) \div (v * s) = n
           /\ \A i \in Nat : (i * (v * s)) % (n * (v * s)) = (i % n) * (v * s)
  <1>1. PICK b \in Nat \ {0} : b = v * s
    OBVIOUS
  <1>2. (n * b) \div b = n
    <2>1. n * b + 0 = n * b /\ 0 \in 0 .. b - 1
      OBVIOUS
    <2> QED BY <2>1, DivMod
  <1>3. ASSUME NEW i \in Nat PROVE (i * b) % (n * b) = (i % n) * b
    <2>1. PICK c \in Nat \ {0} : c = n * b
      OBVIOUS
    <2>2. PICK d \in Nat, r \in 0 .. n - 1 : i = d * n + r /\ r = i % n
      <3>1. i = (i \div n) * n + (i % n) /\ i \div n \in Nat /\ i % n \in 0 .. n - 1
        BY Quotient
      <3> QED BY <3>1
    <2>3. r * b + b <= n * b
      BY ProductLess
    <2>4. i * b = d * c + r * b
      <3>1. i * b = (d * n) * b + r * b /\ (d * n) * b = d * (n * b)
        BY <2>2
      <3> QED BY <2>1, <3>1
    <2>5. r * b \in 0 .. c - 1
      <3>1. r * b \in Nat
        OBVIOUS
      <3> QED BY <2>1, <2>3, <3>1
    <2>6. (i * b) % c = r * b
      <3>1. PICK q \in 0 .. c - 1 : q = r * b
        BY <2>5
      <3>2. (d * c + q) % c = q
        BY DivMod
      <3> QED BY <2>4, <3>1, <3>2
    <2> QED BY <2>1, <2>2, <2>6
  <1> QED BY <1>1, <1>2, <1>3

\* On every target a token that went through the poller as a key comes back with
\* its version and sub-id, and with its id if a word has room for it: a key then
\* belongs to the source it was registered for, and to another one otherwise.
THEOREM TokensSurviveThePoller ==
    ASSUME NEW l, IsLayout(l), Target(l), NEW t \in TokenInner(l)
    PROVE  /\ Pack(l, t) \in 0 .. l.words - 1
           /\ Unpack(l, Pack(l, t)) = [t EXCEPT !.id = @ % (l.words \div (l.versions * l.subs))]
           /\ SameSource(Unpack(l, Pack(l, t)), t) <=> t.id \in Ids(l)
  <1>1. PICK v \in Nat \ {0}, s \in Nat \ {0}, n \in Nat \ {0} :
            v = l.versions /\ s = l.subs /\ l.words = n * (v * s)
    BY DEF IsLayout, Target
  <1>2. PICK i \in Nat, x \in 0 .. v - 1, u \in 0 .. s - 1 : i = t.id /\ x = t.version /\ u = t.sub_id
    BY <1>1 DEF TokenInner
  <1>3. PICK j \in 0 .. n - 1 : j = i % n /\ (j = i <=> i < n)
    OBVIOUS
  <1>4. PICK p : p = Pack(l, t)
    OBVIOUS
  <1>5. PICK w \in TokenInner(l) : w = [id |-> j, version |-> x, sub_id |-> u]
    <2>1. j \in Nat /\ x \in 0 .. l.versions - 1 /\ u \in 0 .. l.subs - 1
      BY <1>1
    <2> QED BY <2>1 DEF TokenInner
  <1>6. p = Word(l, w)
    <2>1. (i * (v * s)) % (n * (v * s)) = j * (v * s)
      BY <1>3, IdsOfTarget
    <2>2. (i * v) * s = i * (v * s)
      OBVIOUS
    <2> QED BY <1>1, <1>2, <1>4, <1>5, <2>1, <2>2 DEF Pack, Word
  <1>7. p < l.words
    <2>1. j * (v * s) + v * s <= n * (v * s)
      BY ProductLess
    <2>2. x * s + s <= v * s
      BY ProductLess
    <2>3. j * (v * s) \in Nat /\ x * s \in Nat /\ v * s \in Nat /\ n * (v * s) \in Nat
      OBVIOUS
    <2>4. p = j * (v * s) + x * s + u
      BY <1>1, <1>5, <1>6 DEF Word
    <2> QED BY <1>1, <2>1, <2>2, <2>3, <2>4
  <1>8. p \in Nat /\ Unpack(l, p) = w
    BY <1>6, UnpackWord
  <1>9. l.words \div (l.versions * l.subs) = n
    <2>1. (n * (v * s)) \div (v * s) = n
      BY IdsOfTarget
    <2> QED BY <1>1, <2>1
  <1>10. t = [id |-> i, version |-> x, sub_id |-> u]
    BY <1>2 DEF TokenInner
  <1>11. Unpack(l, p) = [t EXCEPT !.id = @ % n]
    BY <1>3, <1>5, <1>8, <1>10
  <1>12. SameSource(Unpack(l, p), t) <=> i < n
    BY <1>3, <1>5, <1>8, <1>10 DEF SameSource
  <1> QED BY <1>1, <1>2, <1>4, <1>7, <1>8, <1>9, <1>11, <1>12 DEF Ids

=============================================================================
