--------------------------- MODULE AsyncIo_proofs ---------------------------
(***************************************************************************)
(* Proofs about AsyncIo and the poller under it, for any file descriptors, *)
(* tasks and keys, with native or emulated level triggering, whether or    *)
(* not the poller refuses to register or to arm the adapter, or to delete  *)
(* the registration of either.                                             *)
(***************************************************************************)
EXTENDS AsyncIo, FiniteSetTheorems, SequenceTheorems, TLAPS

----------------------------------------------------------------------------
(* Batches.                                                                *)

\* SetToSeqs has every element of a finite set in every sequence.
LEMMA SetToSeqsProperties ==
    ASSUME NEW S, IsFiniteSet(S), NEW q \in SetToSeqs(S)
    PROVE  /\ q \in Seq(S)
           /\ \A e \in S : \E i \in DOMAIN q : q[i] = e
  <1> DEFINE n == Cardinality(S)
  <1>1. n \in Nat /\ q \in [1 .. n -> S] /\ \A i, j \in 1 .. n : i # j => q[i] # q[j]
    BY FS_CardinalityType DEF SetToSeqs
  <1> HIDE DEF n
  <1>2. ASSUME NEW e \in S, \A i \in 1 .. n : q[i] # e
        PROVE  FALSE
    <2>1. IsFiniteSet(S \ {e}) /\ Cardinality(S \ {e}) = n - 1
      BY FS_RemoveElement DEF n
    <2>2. IsFiniteSet(1 .. n) /\ Cardinality(1 .. n) = n
      <3>1. IsFiniteSet(1 .. n) /\ Cardinality(1 .. n) = IF 1 > n THEN 0 ELSE n - 1 + 1
        BY <1>1, FS_Interval
      <3> QED BY <1>1, <3>1
    <2>3. q \in [1 .. n -> S \ {e}]
      BY <1>1, <1>2
    <2>4. \E x, y \in 1 .. n : x # y /\ q[x] = q[y]
      <3>1. Cardinality(S \ {e}) < Cardinality(1 .. n)
        BY <1>1, <2>1, <2>2
      <3> QED BY <2>1, <2>2, <2>3, <3>1, FS_PigeonHole
    <2> QED BY <1>1, <2>4
  <1>3. q \in Seq(S) /\ DOMAIN q = 1 .. n
    BY <1>1, SeqDef
  <1> QED BY <1>2, <1>3

Fired == {fd \in Fds : Fires(fd)}

LEMMA FiredFinite == IsFiniteSet({EventOf(fd) : fd \in Fired})
  <1> DEFINE S == {EventOf(f) : f \in Fired}
             g == [f \in Fired |-> EventOf(f)]
  <1>1. IsFiniteSet(Fired)
    BY PollerAssumption, FS_Subset DEF Fired
  <1>2. g \in Surjection(Fired, S)
    BY DEF Surjection
  <1> HIDE DEF S, g
  <1>3. IsFiniteSet(S)
    BY <1>1, <1>2, FS_Surjection
  <1> QED BY <1>3 DEF S

\* The batch has an event for every file descriptor that fires.
LEMMA BatchProperties ==
    ASSUME NEW q \in SetToSeqs({EventOf(fd) : fd \in Fired}), NEW fd \in Fired
    PROVE  \E i \in DOMAIN q : q[i] = EventOf(fd)
  <1> DEFINE S == {EventOf(f) : f \in Fired}
  <1>1. IsFiniteSet(S) /\ EventOf(fd) \in S /\ q \in SetToSeqs(S)
    BY FiredFinite
  <1> HIDE DEF S
  <1> QED BY <1>1, SetToSeqsProperties

LEMMA TailProperties ==
    ASSUME NEW S, NEW q \in Seq(S), q # <<>>
    PROVE  /\ Tail(q) \in Seq(S) /\ Head(q) \in S
           /\ \A i \in DOMAIN q : q[i] # Head(q) => \E j \in DOMAIN Tail(q) : Tail(q)[j] = q[i]
  <1>1. /\ Len(q) \in Nat /\ Len(Tail(q)) = Len(q) - 1 /\ Head(q) = q[1] /\ Head(q) \in S
        /\ Tail(q) \in Seq(S)
        /\ \A k \in 1 .. Len(Tail(q)) : Tail(q)[k] = q[k + 1]
        /\ DOMAIN q = 1 .. Len(q) /\ DOMAIN Tail(q) = 1 .. Len(Tail(q))
    BY HeadTailProperties, LenProperties
  <1>2. ASSUME NEW i \in DOMAIN q, q[i] # Head(q)
        PROVE  \E j \in DOMAIN Tail(q) : Tail(q)[j] = q[i]
    <2>1. i - 1 \in 1 .. Len(Tail(q)) /\ Tail(q)[i - 1] = q[i]
      BY <1>1, <1>2
    <2> QED BY <1>1, <2>1
  <1> QED BY <1>1, <1>2

----------------------------------------------------------------------------
(* What the calls of the poller do to its table and its map.               *)

LEMMA RegistersEffect ==
    ASSUME PollerTypeOK, NEW fd \in Fds, NEW key \in Key, NEW m \in Modes,
           NEW dirs \in SUBSET Dirs, Registers(fd, key, m, dirs)
    PROVE  /\ table' \in [Fds -> Entry \cup {None}]
           /\ table'[fd] \in Entry /\ table'[fd].key = key
           /\ table'[fd].armed /\ table'[fd].dirs = dirs
           /\ \A f \in Fds \ {fd} : table'[f] = table[f]
           /\ levels' \in SUBSET [key : Key, fd : Fds, dirs : SUBSET Dirs]
           /\ \A e \in levels' : e \in levels \/ (e.fd = fd /\ e.key = key)
           /\ m = "OneShot" => levels' = levels
  <1> DEFINE entry == [key |-> key, mode |-> KernelMode(m), dirs |-> dirs, armed |-> TRUE]
  <1>1. entry \in Entry
    BY DEF KernelMode, Modes, Entry
  <1>2. table' = [table EXCEPT ![fd] = entry] /\ table \in [Fds -> Entry \cup {None}]
    BY DEF Registers, PollerTypeOK
  <1>3. /\ entry.key = key /\ entry.armed /\ entry.dirs = dirs
    OBVIOUS
  <1>4. /\ levels' \in SUBSET [key : Key, fd : Fds, dirs : SUBSET Dirs]
        /\ \A e \in levels' : e \in levels \/ (e.fd = fd /\ e.key = key)
        /\ m = "OneShot" => levels' = levels
    BY DEF Registers, Remembered, PollerTypeOK
  <1> HIDE DEF entry
  <1> QED BY <1>1, <1>2, <1>3, <1>4

LEMMA UnregistersEffect ==
    ASSUME PollerTypeOK, NEW fd \in Fds, Unregisters(fd)
    PROVE  /\ table' \in [Fds -> Entry \cup {None}]
           /\ table'[fd] = None /\ \A f \in Fds \ {fd} : table'[f] = table[f]
           /\ levels' \in SUBSET levels
  BY DEF Unregisters, PollerTypeOK

\* The type invariant, with what makes the keys of new registrations keys.
TypeInv ==
    /\ TypeOK
    /\ adapter = "alive" => ioKey # None
    /\ place \in {"loop", "disabled"} => slot # None
    /\ place # "dropped" => mode \in Modes

\* The registrations in the poller and in the map: whose they are, and that the
\* key under which the adapter is registered, or was when its owner went, is in
\* none of the map, which only knows the Generic's.
KeyOfIo(k) == table[Io] # None /\ table[Io].key = k

KeyInv ==
    /\ \A f \in Fds \ {Gen, Io} : table[f] = None
    /\ adapter \in {"none", "refused"} => table[Io] = None
    /\ adapter = "alive" => KeyOfIo(ioKey)
    /\ adapter = "gone" => table[Io] = None \/ Io \in stuck
    /\ table[Io] # None => table[Io].key <= lastKey
    /\ slot # None => slot <= lastKey /\ ~KeyOfIo(slot)
    /\ \A e \in levels : e.fd = Gen /\ e.key <= lastKey /\ ~KeyOfIo(e.key)
    /\ pc = "idle" => batch = <<>>

ArmedInv == KeyInv /\ WaitersAreArmed /\ NothingOutlivesItsOwner

LEMMA Constants ==
    /\ Gen \in Fds /\ Io \in Fds /\ Io # Gen
    /\ None \notin Key /\ None \notin Entry /\ None \notin Tasks /\ MaxKey \in Nat
  BY PollerAssumption, IoAssumption DEF Key

\* A poll: whose event is in the batch, and what is registered afterwards.
LEMMA PollEffect ==
    ASSUME TypeInv, Poll
    PROVE  /\ table' \in [Fds -> Entry \cup {None}] /\ batch' \in Seq(Event)
           /\ KeyInv => /\ \A f \in Fds : table[f] = None => table'[f] = None
                        /\ table[Io] # None =>
                              table'[Io] # None /\ table'[Io].key = table[Io].key
                        /\ \/ table'[Io] = table[Io]
                           \/ \E i \in DOMAIN batch' : batch'[i].fd = Io
  <1> DEFINE again == Rearms({table[f].key : f \in Fired})
             Spent(f) == IF f \in Fired /\ table[f].mode # "Level"
                         THEN [table[f] EXCEPT !.armed = FALSE] ELSE table[f]
             Chosen(f) == CHOOSE e \in again : e.fd = f
             Rearmed(f) == [key |-> Chosen(f).key, mode |-> "OneShot",
                            dirs |-> Chosen(f).dirs, armed |-> TRUE]
  <1>1. /\ batch' \in SetToSeqs({EventOf(f) : f \in Fired})
        /\ table' = [f \in Fds |-> IF \E e \in again : e.fd = f THEN Rearmed(f) ELSE Spent(f)]
    BY DEF Poll, Fired
  <1>2. /\ table \in [Fds -> Entry \cup {None}]
        /\ levels \in SUBSET [key : Key, fd : Fds, dirs : SUBSET Dirs]
    BY DEF TypeInv, TypeOK, PollerTypeOK
  <1>3. \A f \in Fired : f \in Fds /\ table[f] # None /\ table[f] \in Entry
    BY <1>2 DEF Fired, Fires
  <1>4. ASSUME NEW f \in Fds, \E e \in again : e.fd = f
        PROVE  Rearmed(f) \in Entry
    <2>1. Chosen(f) \in levels
      BY <1>4 DEF Rearms
    <2> QED BY <1>2, <2>1 DEF Entry, Modes
  <1>5. ASSUME NEW f \in Fds
        PROVE  Spent(f) \in Entry \cup {None}
    BY <1>2, <1>3 DEF Entry
  <1>6. table' \in [Fds -> Entry \cup {None}]
    BY <1>1, <1>4, <1>5
  <1>7. \A f \in Fired : EventOf(f) \in Event /\ EventOf(f).fd = f
    BY <1>3 DEF EventOf, Event, Entry, Fired
  <1>8. batch' \in Seq(Event)
    <2> DEFINE n == Cardinality({EventOf(f) : f \in Fired})
    <2>1. PICK q \in [1 .. n -> {EventOf(f) : f \in Fired}] : batch' = q
      BY <1>1 DEF SetToSeqs
    <2>2. q \in [1 .. n -> Event]
      BY <1>7, <2>1
    <2>3. IsFiniteSet({EventOf(f) : f \in Fired})
      BY FiredFinite
    <2>4. n \in Nat
      BY <2>3, FS_CardinalityType
    <2> HIDE DEF n
    <2> QED BY <2>1, <2>2, <2>4, SeqDef
  <1>9. ASSUME KeyInv, NEW e \in again
        PROVE  e.fd = Gen /\ Gen \in Fired
    <2>1. PICK f \in Fired : e.key = table[f].key
      BY DEF Rearms
    <2>2. e \in levels
      BY DEF Rearms
    <2>3. f # Io
      BY <1>3, <1>9, <2>1, <2>2 DEF KeyInv, KeyOfIo
    <2> QED BY <1>3, <1>9, <2>1, <2>2, <2>3 DEF KeyInv
  <1>10. ASSUME KeyInv, NEW f \in Fds, table[f] = None
         PROVE  table'[f] = None
    <2>1. f \notin Fired
      BY <1>3, <1>10
    <2>2. ~ \E e \in again : e.fd = f
      BY <1>9, <1>10, <2>1
    <2> QED BY <1>1, <1>10, <2>1, <2>2
  <1>11. ASSUME KeyInv
         PROVE  table'[Io] = Spent(Io)
    <2>1. ~ \E e \in again : e.fd = Io
      BY <1>9, <1>11, Constants
    <2> QED BY <1>1, <2>1, Constants
  <1>12. ASSUME KeyInv, table[Io] # None
         PROVE  table'[Io] # None /\ table'[Io].key = table[Io].key
    <2>1. table[Io] \in Entry
      BY <1>2, <1>12, Constants
    <2>2. [table[Io] EXCEPT !.armed = FALSE] \in Entry
      BY <2>1 DEF Entry
    <2>3. [table[Io] EXCEPT !.armed = FALSE].key = table[Io].key
      BY <2>1 DEF Entry
    <2> QED BY <1>11, <1>12, <2>1, <2>2, <2>3, Constants
  <1>13. ASSUME KeyInv
         PROVE  table'[Io] = table[Io] \/ \E i \in DOMAIN batch' : batch'[i].fd = Io
    <2>1. CASE Io \notin Fired
      BY <1>11, <1>13, <2>1
    <2>2. CASE Io \in Fired
      <3>1. PICK i \in DOMAIN batch' : batch'[i] = EventOf(Io)
        BY <1>1, <2>2, BatchProperties
      <3> QED BY <1>7, <2>2, <3>1
    <2> QED BY <2>1, <2>2
  <1> QED BY <1>6, <1>8, <1>10, <1>12, <1>13

----------------------------------------------------------------------------
(* Type correctness.                                                       *)

LEMMA TypeInit == Init => TypeInv
  <1> SUFFICES ASSUME Init PROVE TypeInv
    OBVIOUS
  <1>1. <<>> \in Seq(Event) /\ 0 \in 0 .. MaxKey
    BY EmptySeq, Constants
  <1> QED BY <1>1 DEF Init, PollerInit, TypeInv, TypeOK, PollerTypeOK

LEMMA KeyIsNew ==
    ASSUME PollerTypeOK, NewKey
    PROVE  lastKey' \in Key /\ lastKey' \in 0 .. MaxKey /\ lastKey' = lastKey + 1 /\ lastKey \in Nat
  BY Constants DEF NewKey, PollerTypeOK, Key

\* The owner of the Generic.
LEMMA TypeGeneric ==
    ASSUME TypeInv, GenericUser, UNCHANGED <<adapter, dispatcher, task, unarmed>>
    PROVE  TypeInv'
  <1> USE DEF TypeInv, TypeOK, dispatcher
  <1>1. PollerTypeOK /\ {"read"} \in SUBSET Dirs /\ (place # "dropped" => mode \in Modes)
    BY DEF PollerTypeOK, Dirs
  <1>2. CASE InsertGeneric
    <2>1. NewKey /\ Registers(Gen, lastKey', mode, {"read"})
      BY <1>2 DEF InsertGeneric
    <2>2. lastKey' \in Key /\ lastKey' \in 0 .. MaxKey
      BY <1>1, <2>1, KeyIsNew
    <2>3. PICK k \in Key : k = lastKey'
      BY <2>2
    <2>4. Registers(Gen, k, mode, {"read"}) /\ mode \in Modes
      BY <1>1, <1>2, <2>1, <2>3 DEF InsertGeneric
    <2>5. table' \in [Fds -> Entry \cup {None}]
          /\ levels' \in SUBSET [key : Key, fd : Fds, dirs : SUBSET Dirs]
      BY <1>1, <2>4, RegistersEffect, Constants
    <2> QED BY <1>2, <2>2, <2>5, Constants DEF InsertGeneric, PollerTypeOK, cycle
  <1>3. CASE EnableGeneric
    <2>1. slot \in Key /\ Registers(Gen, slot, mode, {"read"}) /\ mode \in Modes
      BY <1>1, <1>3 DEF EnableGeneric, PollerTypeOK
    <2>2. table' \in [Fds -> Entry \cup {None}]
          /\ levels' \in SUBSET [key : Key, fd : Fds, dirs : SUBSET Dirs]
      BY <1>1, <2>1, RegistersEffect, Constants
    <2> QED BY <1>3, <2>1, <2>2 DEF EnableGeneric, PollerTypeOK, cycle
  <1>4. ASSUME NEW m \in Modes, UpdateGeneric(m)
        PROVE  TypeInv'
    <2>1. slot \in Key /\ Registers(Gen, slot, m, {"read"})
      BY <1>4 DEF UpdateGeneric, PollerTypeOK
    <2>2. table' \in [Fds -> Entry \cup {None}]
          /\ levels' \in SUBSET [key : Key, fd : Fds, dirs : SUBSET Dirs]
      BY <1>1, <2>1, RegistersEffect, Constants
    <2> QED BY <1>4, <2>1, <2>2 DEF UpdateGeneric, PollerTypeOK, cycle
  <1>5. ASSUME Unregisters(Gen)
        PROVE  table' \in [Fds -> Entry \cup {None}]
               /\ levels' \in SUBSET [key : Key, fd : Fds, dirs : SUBSET Dirs]
    <2>1. table' \in [Fds -> Entry \cup {None}] /\ levels' \in SUBSET levels
      BY <1>1, <1>5, UnregistersEffect, Constants
    <2> QED BY <2>1 DEF PollerTypeOK
  <1>6. CASE DisableGeneric
    BY <1>5, <1>6 DEF DisableGeneric, PollerTypeOK, cycle
  <1>7. CASE RemoveGeneric
    <2>1. CASE Unregisters(Gen)
      BY <1>5, <1>7, <2>1 DEF RemoveGeneric, PollerTypeOK, cycle
    <2>2. CASE Refused(Gen)
      BY <1>7, <2>2, Constants DEF RemoveGeneric, Refused, PollerTypeOK, cycle
    <2> QED BY <1>7, <2>1, <2>2 DEF RemoveGeneric
  <1>8. CASE DropGeneric
    BY <1>8, Constants DEF DropGeneric, Refused, PollerTypeOK, cycle
  <1> QED BY <1>2, <1>3, <1>4, <1>6, <1>7, <1>8 DEF GenericUser

\* The readiness of the file descriptors.
LEMMA TypeGain ==
    ASSUME TypeInv, NEW fd \in Fds, NEW d \in Dirs, GainReady(fd, d),
           UNCHANGED <<adapter, dispatcher, task, unarmed>>
    PROVE  TypeInv' /\ table' \in [Fds -> Entry \cup {None}]
  <1>1. table \in [Fds -> Entry \cup {None}]
    BY DEF TypeInv, TypeOK, PollerTypeOK
  <1>2. table' \in [Fds -> Entry \cup {None}]
    <2>1. CASE table' = table
      BY <1>1, <2>1
    <2>2. CASE table[fd] # None /\ table' = [table EXCEPT ![fd].armed = TRUE]
      <3>1. [table[fd] EXCEPT !.armed = TRUE] \in Entry
        BY <1>1, <2>2 DEF Entry
      <3>2. table' = [table EXCEPT ![fd] = [table[fd] EXCEPT !.armed = TRUE]]
        BY <2>2
      <3> QED BY <1>1, <3>1, <3>2
    <2> QED BY <2>1, <2>2 DEF GainReady
  <1>3. ready' \in [Fds -> SUBSET Dirs]
    BY DEF GainReady, TypeInv, TypeOK, PollerTypeOK
  <1> QED BY <1>2, <1>3 DEF TypeInv, TypeOK, PollerTypeOK, GainReady, cycle, generic, dispatcher

\* The adapter and the tasks.
LEMMA TypeAdapter ==
    ASSUME TypeInv, Adapt \/ DropAdapter \/ \E t \in Tasks : TaskStep(t) \/ Cancel(t)
    PROVE  TypeInv'
  <1> USE DEF TypeInv, TypeOK, dispatcher
  <1>1. PollerTypeOK /\ {} \in SUBSET Dirs /\ "OneShot" \in Modes
    BY DEF Modes
  <1>2. ASSUME NEW key \in Key, NEW dirs \in SUBSET Dirs, Registers(Io, key, "OneShot", dirs)
        PROVE  table' \in [Fds -> Entry \cup {None}]
               /\ levels' \in SUBSET [key : Key, fd : Fds, dirs : SUBSET Dirs]
    BY <1>1, <1>2, RegistersEffect, Constants
  <1>3. CASE Adapt
    <2>1. lastKey' \in Key /\ lastKey' \in 0 .. MaxKey /\ ioKey' = lastKey'
      BY <1>1, <1>3, KeyIsNew DEF Adapt
    <2>2. PICK k \in Key : k = lastKey'
      BY <2>1
    <2>3. table' \in [Fds -> Entry \cup {None}]
          /\ levels' \in SUBSET [key : Key, fd : Fds, dirs : SUBSET Dirs]
      BY <1>1, <1>2, <1>3, <2>2 DEF Adapt, PollerTypeOK
    <2> QED BY <1>3, <2>1, <2>3, Constants DEF Adapt, PollerTypeOK, cycle, generic
  <1>4. CASE DropAdapter
    <2>1. /\ table' \in [Fds -> Entry \cup {None}] /\ levels' \in SUBSET levels
          /\ stuck' \subseteq Fds
      <3>1. CASE Unregisters(Io) /\ UNCHANGED stuck
        BY <1>1, <3>1, UnregistersEffect, Constants DEF PollerTypeOK
      <3>2. CASE Refused(Io) /\ stuck' = stuck \cup {Io}
        BY <3>2, Constants DEF Refused, PollerTypeOK
      <3> QED BY <1>4, <3>1, <3>2 DEF DropAdapter
    <2> QED BY <1>4, <2>1 DEF DropAdapter, NoAdapter, PollerTypeOK, cycle
  <1>5. ASSUME NEW d \in Dirs, NEW refused \in Outcomes, RegisterWaker(d, refused),
               adapter = "alive"
        PROVE  /\ table' \in [Fds -> Entry \cup {None}]
               /\ levels' \in SUBSET [key : Key, fd : Fds, dirs : SUBSET Dirs]
    <2>1. CASE Registers(Io, ioKey, "OneShot", {d})
      <3>1. ioKey \in Key /\ {d} \in SUBSET Dirs
        BY <1>5
      <3> QED BY <1>2, <2>1, <3>1
    <2>2. CASE UNCHANGED <<table, levels>>
      BY <1>1, <2>2 DEF PollerTypeOK
    <2> QED BY <1>5, <2>1, <2>2 DEF RegisterWaker
  <1>6. ASSUME NEW t \in Tasks, NEW d \in Dirs, PollReady(t, d) PROVE TypeInv'
    <2>1. /\ table' \in [Fds -> Entry \cup {None}]
          /\ levels' \in SUBSET [key : Key, fd : Fds, dirs : SUBSET Dirs]
          /\ waker' \in Tasks \cup {None} /\ task' \in [Tasks -> Dirs \cup {"runs"}]
          /\ unarmed' \in BOOLEAN
      BY <1>5, <1>6, IoAssumption DEF PollReady, Polls, PollerTypeOK, Outcomes
    <2> QED BY <1>6, <2>1 DEF PollReady, PollerTypeOK, cycle, generic
  <1>7. ASSUME NEW t \in Tasks, NEW d \in Dirs, PollTransfer(t, d) PROVE TypeInv'
    <2>1. /\ table' \in [Fds -> Entry \cup {None}]
          /\ levels' \in SUBSET [key : Key, fd : Fds, dirs : SUBSET Dirs]
          /\ waker' \in Tasks \cup {None} /\ task' \in [Tasks -> Dirs \cup {"runs"}]
          /\ unarmed' \in BOOLEAN
      BY <1>5, <1>7 DEF PollTransfer, Polls, PollerTypeOK
    <2>2. ready' \in [Fds -> SUBSET Dirs]
      BY <1>7 DEF PollTransfer, PollerTypeOK
    <2> QED BY <1>7, <2>1, <2>2 DEF PollTransfer, PollerTypeOK, cycle, generic
  <1>8. ASSUME NEW t \in Tasks, Cancel(t) PROVE TypeInv'
    BY <1>8 DEF Cancel, vars, kernel, cycle, generic, PollerTypeOK
  <1> QED BY <1>3, <1>4, <1>6, <1>7, <1>8 DEF TaskStep

\* The loop.
LEMMA TypeLoop ==
    ASSUME TypeInv, LoopStep
    PROVE  TypeInv'
  <1> USE DEF TypeInv, TypeOK, dispatcher
  <1>1. batch # <<>> => Tail(batch) \in Seq(Event) /\ Head(batch) \in Event
    BY TailProperties DEF PollerTypeOK
  <1>2. CASE Poll /\ UNCHANGED <<adapter, dispatcher, task, unarmed>>
    <2>1. table' \in [Fds -> Entry \cup {None}] /\ batch' \in Seq(Event)
      BY <1>2, PollEffect
    <2> QED BY <1>2, <2>1 DEF Poll, PollerTypeOK, generic
  <1>3. CASE GenericSkips /\ UNCHANGED <<adapter, dispatcher, task, unarmed>>
    BY <1>1, <1>3 DEF GenericSkips, PollerTypeOK, kernel, generic
  <1>4. CASE GenericEvent /\ UNCHANGED <<adapter, dispatcher, task, unarmed>>
    <2>1. ready' \in [Fds -> SUBSET Dirs]
      BY <1>4 DEF GenericEvent, PollerTypeOK
    <2> QED BY <1>1, <1>4, <2>1 DEF GenericEvent, PollerTypeOK, generic
  <1>5. CASE EndEvent /\ UNCHANGED <<adapter, dispatcher, task, unarmed>>
    BY <1>5 DEF EndEvent, PollerTypeOK, kernel, generic
  <1>6. CASE EndDispatch /\ UNCHANGED <<adapter, dispatcher, task, unarmed>>
    BY <1>6 DEF EndDispatch, PollerTypeOK, kernel, generic
  <1>7. CASE IoStale
    BY <1>1, <1>7 DEF IoStale, PollerTypeOK, kernel, generic
  <1>8. CASE IoEvent
    <2>1. last' \subseteq Dirs
      BY <1>1, <1>8 DEF IoEvent, Event
    <2>2. /\ task' \in [Tasks -> Dirs \cup {"runs"}] /\ waker' \in Tasks \cup {None}
          /\ unarmed' = FALSE
      BY <1>8 DEF IoEvent, Wake
    <2> QED BY <1>1, <1>8, <2>1, <2>2 DEF IoEvent, PollerTypeOK, kernel, generic
  <1> QED BY <1>2, <1>3, <1>4, <1>5, <1>6, <1>7, <1>8 DEF LoopStep, PollerStep

LEMMA TypeStep == TypeInv /\ [Next]_all => TypeInv'
  <1>1. ASSUME TypeInv, UNCHANGED all PROVE TypeInv'
    BY <1>1 DEF TypeInv, TypeOK, PollerTypeOK, all, vars, kernel, cycle, generic, dispatcher
  <1>2. ASSUME TypeInv, Environment, UNCHANGED <<adapter, dispatcher, task, unarmed>> PROVE TypeInv'
    <2>1. "read" \in Dirs
      BY DEF Dirs
    <2> QED BY <1>2, <2>1, TypeGeneric, TypeGain, Constants DEF Environment
  <1> QED BY <1>1, <1>2, TypeAdapter, TypeLoop DEF Next

\* In every reachable state the variables have their types.
THEOREM TypeCorrect == Spec => []TypeOK
  <1>1. TypeInv => TypeOK
    BY DEF TypeInv
  <1> QED BY <1>1, TypeInit, TypeStep, PTL DEF Spec

----------------------------------------------------------------------------
(* Registrations and their owners.                                         *)

\* The calls of the Generic's owner leave the adapter's registration alone, and
\* bring no key of the adapter into the map.
LEMMA GenericEffect ==
    ASSUME TypeInv, ArmedInv, GenericUser, UNCHANGED <<adapter, dispatcher, task, unarmed>>
    PROVE  /\ \A f \in Fds \ {Gen} : table'[f] = table[f]
           /\ \A e \in levels' : e.fd = Gen /\ e.key <= lastKey' /\ ~KeyOfIo(e.key)
           /\ slot' # None => slot' <= lastKey' /\ ~KeyOfIo(slot')
           /\ place' = "dropped" => table'[Gen] = None \/ Gen \in stuck'
           /\ place' = "disabled" => table'[Gen] = None
           /\ Io \in stuck' <=> Io \in stuck
           /\ lastKey' \in Nat /\ lastKey <= lastKey' /\ UNCHANGED cycle
  <1> USE DEF TypeInv, TypeOK, ArmedInv, KeyInv, NothingOutlivesItsOwner
  <1>1. /\ PollerTypeOK /\ {"read"} \in SUBSET Dirs /\ lastKey \in Nat
        /\ place # "dropped" => mode \in Modes
        /\ table[Io] # None => table[Io].key \in Nat /\ table[Io].key <= lastKey
        /\ \A e \in levels : e.fd = Gen /\ e.key \in Nat /\ e.key <= lastKey /\ ~KeyOfIo(e.key)
        /\ slot # None => slot \in Nat /\ slot <= lastKey /\ ~KeyOfIo(slot)
    BY Constants DEF PollerTypeOK, Dirs, Key, Entry
  <1>2. CASE InsertGeneric
    <2>1. PICK k \in Key : k = lastKey + 1 /\ lastKey' = k
      BY <1>1, <1>2, KeyIsNew DEF InsertGeneric
    <2>2. Registers(Gen, k, mode, {"read"}) /\ mode \in Modes
      BY <1>1, <1>2, <2>1 DEF InsertGeneric
    <2>3. /\ \A f \in Fds \ {Gen} : table'[f] = table[f]
          /\ \A e \in levels' : e \in levels \/ (e.fd = Gen /\ e.key = k)
      BY <1>1, <2>2, RegistersEffect, Constants
    <2>4. k \in Nat /\ k # None /\ ~KeyOfIo(k)
      BY <1>1, <2>1, Constants DEF Key, KeyOfIo
    <2>5. \A e \in levels' : e.fd = Gen /\ e.key <= lastKey' /\ ~KeyOfIo(e.key)
      BY <1>1, <2>1, <2>3, <2>4
    <2>6. place' = "loop" /\ slot' = k /\ UNCHANGED <<cycle, stuck>>
      BY <1>2, <2>1 DEF InsertGeneric
    <2> QED BY <1>1, <2>1, <2>3, <2>4, <2>5, <2>6
  <1>3. ASSUME NEW m \in Modes, Registers(Gen, slot, m, {"read"}), slot # None,
               UNCHANGED <<slot, lastKey>>
        PROVE  /\ \A f \in Fds \ {Gen} : table'[f] = table[f]
               /\ \A e \in levels' : e.fd = Gen /\ e.key <= lastKey' /\ ~KeyOfIo(e.key)
    <2>1. slot \in Key
      BY <1>1, <1>3 DEF PollerTypeOK
    <2>2. /\ \A f \in Fds \ {Gen} : table'[f] = table[f]
          /\ \A e \in levels' : e \in levels \/ (e.fd = Gen /\ e.key = slot)
      BY <1>1, <1>3, <2>1, RegistersEffect, Constants
    <2> QED BY <1>1, <1>3, <2>2
  <1>4. CASE EnableGeneric
    BY <1>1, <1>3, <1>4 DEF EnableGeneric, cycle
  <1>5. ASSUME NEW m \in Modes, UpdateGeneric(m)
        PROVE  /\ \A f \in Fds \ {Gen} : table'[f] = table[f]
               /\ \A e \in levels' : e.fd = Gen /\ e.key <= lastKey' /\ ~KeyOfIo(e.key)
               /\ place' = "loop" /\ UNCHANGED <<slot, lastKey, cycle, stuck>>
    BY <1>1, <1>3, <1>5 DEF UpdateGeneric, cycle
  <1>6. ASSUME Unregisters(Gen)
        PROVE  /\ table'[Gen] = None /\ (\A f \in Fds \ {Gen} : table'[f] = table[f])
               /\ levels' \in SUBSET levels
    BY <1>1, <1>6, UnregistersEffect, Constants
  <1>7. ASSUME Refused(Gen)
        PROVE  UNCHANGED <<table, levels>>
    BY <1>7 DEF Refused
  <1>8. CASE DisableGeneric
    <2>1. place' = "disabled" /\ UNCHANGED <<lastKey, cycle, slot, stuck>>
      BY <1>8 DEF DisableGeneric
    <2> QED BY <1>1, <1>6, <1>8, <2>1 DEF DisableGeneric
  <1>9. CASE RemoveGeneric
    <2>1. place' = "out" /\ slot' = None /\ UNCHANGED <<lastKey, cycle, stuck>>
      BY <1>9 DEF RemoveGeneric
    <2>2. CASE Unregisters(Gen)
      BY <1>1, <1>6, <2>1, <2>2
    <2>3. CASE Refused(Gen)
      BY <1>1, <1>7, <2>1, <2>3
    <2> QED BY <1>9, <2>2, <2>3 DEF RemoveGeneric
  <1>10. CASE DropGeneric
    <2>1. place' = "dropped" /\ UNCHANGED <<lastKey, cycle, slot>>
      BY <1>10 DEF DropGeneric
    <2>2. CASE table' = [table EXCEPT ![Gen] = None] /\ UNCHANGED <<levels, stuck>>
      <3>1. table'[Gen] = None /\ \A f \in Fds \ {Gen} : table'[f] = table[f]
        BY <1>1, <2>2, Constants DEF PollerTypeOK
      <3> QED BY <1>1, <2>1, <2>2, <3>1, Constants
    <2>3. CASE Refused(Gen) /\ stuck' = stuck \cup {Gen}
      BY <1>1, <1>7, <2>1, <2>3, Constants
    <2> QED BY <1>10, <2>2, <2>3 DEF DropGeneric
  <1> QED BY <1>1, <1>2, <1>4, <1>5, <1>8, <1>9, <1>10 DEF GenericUser

\* A step that leaves the adapter, its registration and its events as they are
\* keeps its waiters armed.
LEMMA ArmedFrame ==
    ASSUME WaitersAreArmed, UNCHANGED <<adapter, ioKey, waker, task, unarmed>>,
           table'[Io] = table[Io],
           \A i \in DOMAIN batch : batch[i].fd = Io =>
               \E j \in DOMAIN batch' : batch'[j].fd = Io
    PROVE  WaitersAreArmed'
  BY DEF WaitersAreArmed, Waits

LEMMA ArmedGeneric ==
    ASSUME TypeInv, ArmedInv, GenericUser, UNCHANGED <<adapter, dispatcher, task, unarmed>>
    PROVE  ArmedInv'
  <1>1. /\ \A f \in Fds \ {Gen} : table'[f] = table[f]
        /\ \A e \in levels' : e.fd = Gen /\ e.key <= lastKey' /\ ~KeyOfIo(e.key)
        /\ slot' # None => slot' <= lastKey' /\ ~KeyOfIo(slot')
        /\ place' = "dropped" => table'[Gen] = None \/ Gen \in stuck'
        /\ place' = "disabled" => table'[Gen] = None
        /\ Io \in stuck' <=> Io \in stuck
        /\ lastKey' \in Nat /\ lastKey <= lastKey' /\ UNCHANGED cycle
    BY GenericEffect
  <1>2. /\ UNCHANGED <<adapter, ioKey, waker, task, unarmed, batch, pc>> /\ table'[Io] = table[Io]
        /\ lastKey \in Nat /\ (table[Io] # None => table[Io].key \in Nat)
    BY <1>1, Constants DEF dispatcher, cycle, TypeInv, TypeOK, PollerTypeOK, Key, Entry
  <1>3. KeyInv'
    BY <1>1, <1>2, Constants DEF ArmedInv, KeyInv, KeyOfIo
  <1>4. WaitersAreArmed'
    BY <1>2, ArmedFrame DEF ArmedInv
  <1>5. NothingOutlivesItsOwner'
    BY <1>1, <1>2 DEF ArmedInv, NothingOutlivesItsOwner
  <1> QED BY <1>3, <1>4, <1>5 DEF ArmedInv

\* A gain of readiness arms an edge-triggered registration, and changes no other.
LEMMA ArmedGain ==
    ASSUME TypeInv, ArmedInv, NEW fd \in Fds, NEW d \in Dirs, GainReady(fd, d),
           UNCHANGED <<adapter, dispatcher, task, unarmed>>
    PROVE  ArmedInv'
  <1>1. table \in [Fds -> Entry \cup {None}]
    BY DEF TypeInv, TypeOK, PollerTypeOK
  <1>2. ASSUME NEW f \in Fds
        PROVE  /\ table'[f] = None <=> table[f] = None
               /\ table[f] # None => /\ table'[f].key = table[f].key
                                     /\ table'[f].dirs = table[f].dirs
                                     /\ table[f].armed => table'[f].armed
    <2>1. CASE table' = table
      BY <2>1
    <2>2. CASE table[fd] # None /\ table' = [table EXCEPT ![fd].armed = TRUE]
      <3>1. table[fd] \in Entry
        BY <1>1, <2>2
      <3>2. PICK entry \in Entry : entry = [table[fd] EXCEPT !.armed = TRUE]
        BY <3>1 DEF Entry
      <3>3. entry.key = table[fd].key /\ entry.dirs = table[fd].dirs /\ entry.armed
        BY <3>1, <3>2 DEF Entry
      <3>4. table'[fd] = entry /\ \A x \in Fds \ {fd} : table'[x] = table[x]
        BY <1>1, <2>2, <3>2
      <3> QED BY <2>2, <3>2, <3>3, <3>4, Constants
    <2> QED BY <2>1, <2>2 DEF GainReady
  <1>3. UNCHANGED <<adapter, ioKey, waker, task, unarmed, batch, pc, levels, lastKey,
                    place, slot, stuck>>
    BY DEF GainReady, cycle, generic, dispatcher
  <1>4. KeyInv'
    BY <1>2, <1>3, Constants DEF ArmedInv, KeyInv, KeyOfIo
  <1>5. WaitersAreArmed'
    BY <1>2, <1>3, Constants DEF ArmedInv, WaitersAreArmed, Waits
  <1>6. NothingOutlivesItsOwner'
    BY <1>2, <1>3, Constants DEF ArmedInv, NothingOutlivesItsOwner
  <1> QED BY <1>4, <1>5, <1>6 DEF ArmedInv

\* The adapter: its key is new, its registration its own; it leaves none, or one
\* that the poller refused to delete, under a key that no one else gets.
LEMMA ArmedAdapter ==
    ASSUME TypeInv, ArmedInv, Adapt \/ DropAdapter
    PROVE  ArmedInv'
  <1> USE DEF ArmedInv
  <1>1. /\ PollerTypeOK /\ {} \in SUBSET Dirs /\ "OneShot" \in Modes /\ lastKey \in Nat
        /\ \A e \in levels : e.key \in Nat
        /\ slot # None => slot \in Nat
    BY Constants DEF TypeInv, TypeOK, PollerTypeOK, Modes, Key
  <1>2. CASE Adapt
    <2>1. PICK k \in Key : k = lastKey + 1 /\ lastKey' = k /\ ioKey' = k
      BY <1>1, <1>2, KeyIsNew DEF Adapt
    <2>2. k \in Nat /\ k # None
      BY <2>1, Constants DEF Key
    <2>3. /\ \A f \in Fds \ {Io} : table'[f] = table[f]
          /\ table'[Io] # None => table'[Io].key = k
          /\ \/ adapter' = "alive" /\ table'[Io] # None
             \/ adapter' = "refused" /\ table'[Io] = None
          /\ levels' = levels
      <3>1. CASE Registers(Io, lastKey', "OneShot", {}) /\ adapter' = "alive"
        <4>1. Registers(Io, k, "OneShot", {})
          BY <2>1, <3>1
        <4> QED BY <1>1, <3>1, <4>1, RegistersEffect, Constants
      <3>2. CASE adapter' = "refused" /\ UNCHANGED <<table, levels>>
        <4>1. table[Io] = None
          BY <1>2 DEF Adapt, KeyInv
        <4> QED BY <3>2, <4>1
      <3> QED BY <1>2, <3>1, <3>2 DEF Adapt
    <2>4. waker' = None /\ UNCHANGED <<batch, pc, place, slot, stuck>>
      BY <1>2 DEF Adapt, cycle, generic
    <2>5. KeyInv'
      <3>1. \A e \in levels' : e.fd = Gen /\ e.key <= lastKey' /\ ~KeyOfIo(e.key)'
        BY <1>1, <2>1, <2>2, <2>3 DEF KeyInv, KeyOfIo
      <3>2. slot' # None => slot' <= lastKey' /\ ~KeyOfIo(slot)'
        BY <1>1, <2>1, <2>2, <2>3, <2>4 DEF KeyInv, KeyOfIo
      <3>3. /\ \A f \in Fds \ {Gen, Io} : table'[f] = None
            /\ pc' = "idle" => batch' = <<>>
        BY <2>3, <2>4 DEF KeyInv
      <3>4. /\ adapter' \in {"none", "refused"} => table'[Io] = None
            /\ adapter' = "alive" => KeyOfIo(ioKey)'
            /\ adapter' # "gone"
            /\ table'[Io] # None => table'[Io].key <= lastKey'
        BY <2>1, <2>2, <2>3 DEF KeyOfIo
      <3> QED BY <3>1, <3>2, <3>3, <3>4 DEF KeyInv
    <2>6. WaitersAreArmed'
      BY <2>4, Constants DEF WaitersAreArmed, Waits
    <2>7. NothingOutlivesItsOwner'
      BY <2>3, <2>4, Constants DEF NothingOutlivesItsOwner
    <2> QED BY <2>5, <2>6, <2>7
  <1>3. CASE DropAdapter
    <2>1. adapter' = "gone" /\ UNCHANGED <<batch, pc, place, slot, lastKey>>
      BY <1>3 DEF DropAdapter, NoAdapter, cycle
    <2>2. /\ \A f \in Fds \ {Io} : table'[f] = table[f]
          /\ table'[Io] = None \/ (table'[Io] = table[Io] /\ Io \in stuck')
          /\ Gen \in stuck' <=> Gen \in stuck
          /\ levels' \in SUBSET levels
      <3>1. CASE Unregisters(Io) /\ UNCHANGED stuck
        BY <1>1, <3>1, UnregistersEffect, Constants
      <3>2. CASE Refused(Io) /\ stuck' = stuck \cup {Io}
        BY <3>2, Constants DEF Refused
      <3> QED BY <1>3, <3>1, <3>2 DEF DropAdapter
    <2>3. KeyInv'
      BY <2>1, <2>2, Constants DEF KeyInv, KeyOfIo
    <2>4. WaitersAreArmed'
      BY <2>1 DEF WaitersAreArmed, Waits
    <2>5. NothingOutlivesItsOwner'
      BY <2>1, <2>2, Constants DEF NothingOutlivesItsOwner
    <2> QED BY <2>3, <2>4, <2>5
  <1> QED BY <1>2, <1>3

\* The tasks: the one that waits last has its own direction armed, unless the
\* poller refused.
LEMMA ArmedTask ==
    ASSUME TypeInv, ArmedInv, NEW t \in Tasks, TaskStep(t) \/ Cancel(t)
    PROVE  ArmedInv'
  <1> USE DEF ArmedInv
  <1>1. /\ PollerTypeOK /\ "OneShot" \in Modes /\ ioKey \in Key \cup {None}
        /\ adapter = "alive" => ioKey # None
        /\ task \in [Tasks -> Dirs \cup {"runs"}] /\ "runs" \notin Dirs
    BY DEF TypeInv, TypeOK, Modes, Dirs
  <1>2. UNCHANGED <<adapter, ioKey, batch, pc, place, slot, lastKey, stuck>>
    BY DEF TaskStep, PollReady, PollTransfer, Cancel, vars, kernel, cycle, generic, dispatcher
  \* It waits, armed: of the others' operations, this one takes the waker.
  <1>3. ASSUME NEW d \in Dirs, Registers(Io, ioKey, "OneShot", {d}), adapter = "alive",
               waker' = t, task' = [task EXCEPT ![t] = d]
        PROVE  ArmedInv'
    <2>1. ioKey \in Key /\ {d} \in SUBSET Dirs
      BY <1>1, <1>3
    <2>2. /\ table'[Io] \in Entry /\ table'[Io].key = ioKey
          /\ table'[Io].armed /\ table'[Io].dirs = {d}
          /\ \A f \in Fds \ {Io} : table'[f] = table[f]
          /\ levels' = levels
      BY <1>1, <1>3, <2>1, RegistersEffect, Constants
    <2>3. table[Io] # None /\ table[Io].key = ioKey /\ table'[Io] # None
      BY <1>3, <2>2, Constants DEF KeyInv, KeyOfIo
    <2>4. KeyInv'
      BY <1>2, <1>3, <2>2, <2>3, Constants DEF KeyInv, KeyOfIo
    <2>5. ASSUME NEW u \in Tasks, NEW c \in Dirs, Waits(u, c)'
          PROVE  table'[Io] # None /\ table'[Io].armed /\ c \in table'[Io].dirs
                 /\ table'[Io].key = ioKey'
      <3>1. u = t /\ c = d
        BY <1>1, <1>3, <2>5 DEF Waits
      <3> QED BY <1>2, <2>2, <3>1, Constants
    <2>6. WaitersAreArmed'
      BY <2>5 DEF WaitersAreArmed
    <2>7. NothingOutlivesItsOwner'
      BY <1>2, <1>3, <2>2, Constants DEF NothingOutlivesItsOwner
    <2> QED BY <2>4, <2>6, <2>7
  \* It is refused, has what it wants, or gives up: it does not wait, or unarmed.
  <1>4. ASSUME UNCHANGED <<table, levels>>,
               \A u \in Tasks, d \in Dirs :
                   Waits(u, d)' /\ ~unarmed' => Waits(u, d) /\ ~unarmed
        PROVE  ArmedInv'
    <2>1. KeyInv' /\ NothingOutlivesItsOwner'
      BY <1>2, <1>4, Constants DEF KeyInv, KeyOfIo, NothingOutlivesItsOwner
    <2>2. WaitersAreArmed'
      BY <1>2, <1>4 DEF WaitersAreArmed
    <2> QED BY <2>1, <2>2
  <1>5. ASSUME NEW d \in Dirs, PollReady(t, d)
        PROVE  ArmedInv'
    <2>1. CASE UNCHANGED <<table, levels, waker, task, unarmed>>
      BY <1>2, <1>4, <2>1 DEF Waits
    <2>2. ASSUME NEW refused \in Outcomes, RegisterWaker(d, refused), waker' = t,
                 task' = [task EXCEPT ![t] = d], unarmed' = refused
          PROVE  ArmedInv'
      <3>1. CASE refused
        BY <1>4, <2>2, <3>1 DEF RegisterWaker
      <3>2. CASE ~refused
        BY <1>3, <1>5, <2>2, <3>2 DEF RegisterWaker, PollReady, Polls
      <3> QED BY <3>1, <3>2
    <2> QED BY <1>5, <2>1, <2>2 DEF PollReady
  <1>6. ASSUME NEW d \in Dirs, PollTransfer(t, d)
        PROVE  ArmedInv'
    <2>1. CASE UNCHANGED <<table, levels, waker, task, unarmed>>
      BY <1>2, <1>4, <2>1 DEF Waits
    <2>2. ASSUME NEW refused \in Outcomes, RegisterWaker(d, refused), waker' = t,
                 task' = IF refused THEN task ELSE [task EXCEPT ![t] = d]
          PROVE  ArmedInv'
      <3>1. CASE refused
        <4>1. task[t] = "runs"
          BY <1>6 DEF PollTransfer, Polls
        <4>2. \A u \in Tasks, c \in Dirs : ~Waits(u, c)'
          BY <1>1, <2>2, <3>1, <4>1 DEF Waits
        <4> QED BY <1>4, <2>2, <3>1, <4>2 DEF RegisterWaker
      <3>2. CASE ~refused
        BY <1>3, <1>6, <2>2, <3>2 DEF RegisterWaker, PollTransfer, Polls
      <3> QED BY <3>1, <3>2
    <2> QED BY <1>6, <2>1, <2>2 DEF PollTransfer
  <1>7. CASE Cancel(t)
    <2>1. /\ UNCHANGED <<table, levels, adapter, waker>>
          /\ task' = [task EXCEPT ![t] = "runs"] /\ unarmed' = (unarmed /\ waker # t)
      BY <1>7 DEF Cancel, vars, kernel, dispatcher
    <2>2. ASSUME NEW u \in Tasks, NEW d \in Dirs, Waits(u, d)', ~unarmed'
          PROVE  Waits(u, d) /\ ~unarmed
      <3>1. u # t
        BY <1>1, <2>1, <2>2 DEF Waits
      <3> QED BY <1>1, <2>1, <2>2, <3>1 DEF Waits
    <2> QED BY <1>4, <2>1, <2>2
  <1> QED BY <1>5, <1>6, <1>7 DEF TaskStep

\* A poll fires the adapter's registration only into the batch.
LEMMA ArmedPoll ==
    ASSUME TypeInv, ArmedInv, Poll, UNCHANGED <<adapter, dispatcher, task, unarmed>>
    PROVE  ArmedInv'
  <1> USE DEF ArmedInv
  <1>1. /\ \A f \in Fds : table[f] = None => table'[f] = None
        /\ table[Io] # None => table'[Io] # None /\ table'[Io].key = table[Io].key
        /\ table'[Io] = table[Io] \/ \E i \in DOMAIN batch' : batch'[i].fd = Io
    BY PollEffect
  <1>2. /\ UNCHANGED <<adapter, ioKey, waker, task, unarmed, levels, lastKey, place, slot, stuck>>
        /\ pc = "idle" /\ pc' = "dispatch"
    BY DEF Poll, generic, dispatcher
  <1>3. KeyInv'
    BY <1>1, <1>2, Constants DEF KeyInv, KeyOfIo
  <1>4. WaitersAreArmed'
    <2>1. CASE table'[Io] = table[Io]
      <3>1. batch = <<>>
        BY <1>2 DEF KeyInv
      <3> QED BY <1>2, <2>1, <3>1, ArmedFrame
    <2>2. CASE \E i \in DOMAIN batch' : batch'[i].fd = Io
      BY <2>2 DEF WaitersAreArmed
    <2> QED BY <1>1, <2>1, <2>2
  <1>5. NothingOutlivesItsOwner'
    BY <1>1, <1>2, Constants DEF NothingOutlivesItsOwner
  <1> QED BY <1>3, <1>4, <1>5

\* The events: those of the adapter stay in the batch until its dispatcher has
\* taken the waker.
LEMMA ArmedLoop ==
    ASSUME TypeInv, ArmedInv, LoopStep
    PROVE  ArmedInv'
  <1> USE DEF ArmedInv
  <1>1. batch \in Seq(Event)
    BY DEF TypeInv, TypeOK, PollerTypeOK
  <1>2. ASSUME UNCHANGED <<adapter, ioKey, table, levels, lastKey, place, slot, stuck>>,
               pc' # "idle" \/ batch' = <<>>
        PROVE  KeyInv' /\ NothingOutlivesItsOwner'
    BY <1>2 DEF KeyInv, KeyOfIo, NothingOutlivesItsOwner
  <1>3. ASSUME UNCHANGED <<adapter, ioKey, waker, task, unarmed, table>>, batch # <<>>,
               Head(batch).fd # Io, batch' = Tail(batch)
        PROVE  WaitersAreArmed'
    <2>1. \A i \in DOMAIN batch : batch[i].fd = Io => \E j \in DOMAIN batch' : batch'[j].fd = Io
      BY <1>1, <1>3, TailProperties
    <2> QED BY <1>3, <2>1, ArmedFrame
  <1>4. CASE GenericSkips /\ UNCHANGED <<adapter, dispatcher, task, unarmed>>
    BY <1>2, <1>3, <1>4, Constants DEF GenericSkips, kernel, generic, dispatcher
  <1>5. CASE GenericEvent /\ UNCHANGED <<adapter, dispatcher, task, unarmed>>
    BY <1>2, <1>3, <1>5, Constants DEF GenericEvent, generic, dispatcher
  <1>6. CASE EndEvent /\ UNCHANGED <<adapter, dispatcher, task, unarmed>>
    BY <1>2, <1>6, ArmedFrame DEF EndEvent, kernel, generic, dispatcher
  <1>7. CASE EndDispatch /\ UNCHANGED <<adapter, dispatcher, task, unarmed>>
    BY <1>2, <1>7, ArmedFrame DEF EndDispatch, kernel, generic, dispatcher
  <1>8. CASE IoStale
    <2>1. WaitersAreArmed'
      BY <1>8 DEF IoStale, WaitersAreArmed, Waits
    <2> QED BY <1>2, <1>8, <2>1 DEF IoStale, kernel, generic, dispatcher
  <1>9. CASE IoEvent
    <2>1. WaitersAreArmed'
      BY <1>9, Constants DEF IoEvent, Wake, WaitersAreArmed, Waits
    <2> QED BY <1>2, <1>9, <2>1 DEF IoEvent, kernel, generic
  <1> QED BY <1>4, <1>5, <1>6, <1>7, <1>8, <1>9, ArmedPoll DEF LoopStep, PollerStep

LEMMA ArmedInit == Init => ArmedInv
  BY Constants, LenProperties, EmptySeq
     DEF Init, PollerInit, ArmedInv, KeyInv, KeyOfIo, WaitersAreArmed, Waits, NothingOutlivesItsOwner

LEMMA ArmedStep == TypeInv /\ ArmedInv /\ [Next]_all => ArmedInv'
  <1>1. ASSUME ArmedInv, UNCHANGED all PROVE ArmedInv'
    BY <1>1 DEF ArmedInv, KeyInv, KeyOfIo, WaitersAreArmed, Waits, NothingOutlivesItsOwner,
                all, vars, kernel, cycle, generic, dispatcher
  <1>2. ASSUME TypeInv, ArmedInv, Environment, UNCHANGED <<adapter, dispatcher, task, unarmed>>
        PROVE  ArmedInv'
    <2>1. "read" \in Dirs
      BY DEF Dirs
    <2> QED BY <1>2, <2>1, ArmedGeneric, ArmedGain, Constants DEF Environment
  <1> QED BY <1>1, <1>2, ArmedAdapter, ArmedTask, ArmedLoop DEF Next

LEMMA ArmedAlways == Spec => []ArmedInv
  BY TypeInit, TypeStep, ArmedInit, ArmedStep, PTL DEF Spec

\* A task that waits for the adapter, and was the last to ask, can be woken: the
\* poller is armed for its direction, or the event is on its way; unless the poller
\* refused to arm the registration and the task was told to wait all the same
\* (Readable, Writable).  A refusal after it, of another's operation, does not
\* disarm it: that task takes the waker.
THEOREM WaitersStayArmed == Spec => []WaitersAreArmed
  <1>1. ArmedInv => WaitersAreArmed
    BY DEF ArmedInv
  <1> QED BY <1>1, ArmedAlways, PTL

\* A dropped adapter, and a Generic that was unwrapped or dropped, have no
\* registration in the poller, or one that it refused to delete when they went, the
\* only one that can be left; a Generic that was disabled has none at all.
THEOREM NoRegistrationOutlives == Spec => []NothingOutlivesItsOwner
  <1>1. ArmedInv => NothingOutlivesItsOwner
    BY DEF ArmedInv
  <1> QED BY <1>1, ArmedAlways, PTL

============================================================================
