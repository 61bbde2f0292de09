-------------------------- MODULE Channel_proofs --------------------------
(***************************************************************************)
(* Proofs about Channel, for any number of sender threads, any capacities  *)
(* (0 included), batch limit and eventfd cap.                              *)
(***************************************************************************)
EXTENDS Channel, TLAPS

USE DEF mpsc

----------------------------------------------------------------------------
\* send_ping never leaves the eventfd at 0, not even at its cap, and never
\* past its cap: what lets senders ping without looking at the counter.
LEMMA PingedIsPositive ==
    ASSUME NEW c \in 0 .. MaxCounter
    PROVE  Pinged(c) \in 0 .. MaxCounter /\ Pinged(c) > 0
  BY ConstantsAssumption DEF Pinged, IncrementPing

\* A batch is at most MAX_EVENTS_CHECK messages, whatever the capacity.
LEMMA BatchIsLimited ==
    ASSUME capacity \in 0 .. UsizeMax
    PROVE  Batch \in 0 .. MaxEventsCheck
  BY ConstantsAssumption DEF Batch, SaturatingSucc

\* Push and Take, the only changes of the queue while the Channel lives, keep
\* its type; a synchronous queue never passes its capacity.
LEMMA PushType ==
    ASSUME TypeOK, Push
    PROVE  queued' \in Nat /\ (sync => queued' <= capacity) /\ rx' \in Receiver
  BY ConstantsAssumption DEF TypeOK, Push, Full, Rendezvous, Receiver

LEMMA TakeType ==
    ASSUME TypeOK, Take
    PROVE  /\ queued' \in Nat /\ (sync => queued' <= capacity)
           /\ pc' \in [Senders -> SenderPC]
  <1>1. CASE queued > 0 /\ queued' = queued - 1 /\ UNCHANGED pc
    BY <1>1, ConstantsAssumption DEF TypeOK
  <1>2. CASE \E s \in Senders : pc[s] = "offering" /\ Goto(s, "signal") /\ UNCHANGED queued
    BY <1>2 DEF TypeOK, Goto, SenderPC
  <1>3. QED
    BY <1>1, <1>2 DEF Take

\* The type invariant is inductive.
LEMMA TypeStep ==
    ASSUME TypeOK, [Next]_vars
    PROVE  TypeOK'
  <1> USE DEF TypeOK
  <1>1. ASSUME NEW s \in Senders, Sender(s)
        PROVE  TypeOK'
    <2> USE <1>1 DEF Goto, SenderPC
    <2>1. CASE Send(s)
      BY <2>1, PushType DEF Send
    <2>2. CASE TrySend(s)
      BY <2>2, PushType DEF TrySend, TryPush
    <2>3. CASE SyncSend(s)
      BY <2>3, PushType DEF SyncSend, TryPush
    <2>4. CASE DropSender(s)
      BY <2>4 DEF DropSender
    <2>5. CASE Ping(s)
      <3>1. AfterPing(pc[s]) \in SenderPC
        BY <2>5 DEF Ping, AfterPing
      <3>2. counter' \in 0 .. MaxCounter
        BY <2>5, PingedIsPositive DEF Ping
      <3>3. QED
        BY <2>5, <3>1, <3>2 DEF Ping
    <2>6. CASE BlockedSend(s)
      BY <2>6, PushType DEF BlockedSend
    <2>7. CASE OfferRefused(s)
      BY <2>7 DEF OfferRefused
    <2>8. CASE DropSharedPing(s)
      BY <2>8 DEF DropSharedPing
    <2>9. CASE \E t \in Senders : Clone(s, t)
      BY <2>9 DEF Clone
    <2>10. QED
      BY <1>1, <2>1, <2>2, <2>3, <2>4, <2>5, <2>6, <2>7, <2>8, <2>9 DEF Sender, Continue
  <1>2. CASE Poll
    BY <1>2 DEF Poll, Receiver
  <1>3. CASE DrainPing
    BY <1>3, BatchIsLimited, ConstantsAssumption DEF DrainPing, Receiver
  <1>4. CASE SkipPing
    BY <1>4 DEF SkipPing, Receiver
  <1>5. CASE TryRecv
    <2>1. CASE Take /\ budget' = budget - 1 /\ UNCHANGED <<rx, closed>>
      <3>1. budget' \in 0 .. MaxEventsCheck
        BY <1>5, <2>1, ConstantsAssumption DEF TryRecv
      <3>2. QED
        BY <1>5, <2>1, <3>1, TakeType DEF TryRecv
    <2>2. CASE /\ rx' = IF Disconnected THEN "closed" ELSE "clear"
               /\ closed' = (closed \/ Disconnected)
               /\ UNCHANGED <<queued, pc, budget>>
      <3>1. rx' \in Receiver
        BY <2>2 DEF Receiver
      <3>2. closed' \in BOOLEAN
        BY <2>2 DEF Disconnected
      <3>3. QED
        BY <1>5, <2>2, <3>1, <3>2 DEF TryRecv
    <2>3. QED
      BY <1>5, <2>1, <2>2 DEF TryRecv
  <1>6. CASE BatchDone
    BY <1>6 DEF BatchDone, Receiver
  <1>7. CASE Return
    <2>1. counter' \in 0 .. MaxCounter
      BY <1>7, PingedIsPositive DEF Return, Renotified
    <2>2. queued' \in Nat /\ (sync' => queued' <= capacity') /\ place' \in Places
      BY <1>7, ConstantsAssumption DEF Return, Leave, Places
    <2>3. QED
      BY <1>7, <2>1, <2>2, ConstantsAssumption DEF Return, Receiver
  <1>8. CASE User
    <2> USE DEF Places, Receiver
    <2>1. CASE Insert \/ Enable \/ Disable
      BY <2>1 DEF Insert, Enable, Disable
    <2>2. CASE Remove \/ Drop
      BY <2>2, ConstantsAssumption DEF Remove, Drop, Leave
    <2>3. CASE TryRecvByHand
      BY <2>3, TakeType DEF TryRecvByHand
    <2>4. CASE RecvByHand
      BY <2>4 DEF RecvByHand
    <2>5. CASE RecvAnswered
      BY <2>5, TakeType DEF RecvAnswered
    <2>6. QED
      BY <1>8, <2>1, <2>2, <2>3, <2>4, <2>5 DEF User
  <1>9. CASE UNCHANGED vars
    BY <1>9 DEF vars
  <1>10. QED
    BY <1>1, <1>2, <1>3, <1>4, <1>5, <1>6, <1>7, <1>8, <1>9 DEF Next, Dispatch

LEMMA TypeInit == Init => TypeOK
  <1> SUFFICES ASSUME Init
               PROVE  TypeOK
    OBVIOUS
  <1>1. pc \in [Senders -> SenderPC]
    BY DEF Init, SenderPC
  <1>2. capacity \in 0 .. UsizeMax
    <2>1. UsizeMax \in 0 .. UsizeMax
      BY ConstantsAssumption
    <2>2. capacity = UsizeMax \/ capacity \in Bounds
      BY DEF Init
    <2>3. QED
      BY <2>1, <2>2, ConstantsAssumption
  <1>3. sync \in BOOLEAN /\ closed \in BOOLEAN
    BY DEF Init
  <1>4. 0 \in 0 .. MaxCounter /\ 0 \in 0 .. MaxEventsCheck
    BY ConstantsAssumption
  <1>5. queued \in Nat /\ (sync => queued <= capacity)
    BY <1>2 DEF Init
  <1>6. place \in Places /\ rx \in Receiver
    BY DEF Init, Places, Receiver
  <1>7. QED
    BY <1>1, <1>2, <1>3, <1>4, <1>5, <1>6 DEF Init, TypeOK

\* Every reachable state is well typed, the eventfd stays below its cap and
\* a synchronous queue within its capacity.
THEOREM TypeCorrect == Spec => []TypeOK
  BY TypeInit, TypeStep, PTL DEF Spec

----------------------------------------------------------------------------
\* No lost wakeup.  Both invariants are inductive given the types: whichever
\* step takes one reason to look again away puts another in its place.

LEMMA AnnouncedInit == Init => MessageIsAnnounced /\ EndIsAnnounced
  <1> SUFFICES ASSUME Init
               PROVE  queued = 0 /\ ~Disconnected
    BY DEF MessageIsAnnounced, EndIsAnnounced
  <1>1. PICK s \in Senders : pc = [t \in Senders |-> IF t = s THEN "idle" ELSE "none"]
    BY DEF Init
  <1>2. QED
    BY <1>1 DEF Init, Disconnected

\* A step of a sender: the push is followed by the ping of the same thread.
LEMMA SenderAnnounces ==
    ASSUME TypeOK, MessageIsAnnounced, NEW s \in Senders, Sender(s)
    PROVE  MessageIsAnnounced'
  <1> DEFINE Labels == {"signal", "retry", "closing"}
  <1> USE DEF TypeOK, Goto, MessageIsAnnounced, Awaited
  <1>1. CASE Send(s) \/ TrySend(s) \/ SyncSend(s)
    <2>1. pc'[s] \in Labels
      BY <1>1 DEF Send, TrySend, SyncSend, TryPush
    <2>2. QED
      BY <2>1
  <1>2. CASE Ping(s)
    BY <1>2, PingedIsPositive DEF Ping
  <1>3. CASE BlockedSend(s) /\ Push /\ Goto(s, "signal")
    <2>1. pc'[s] \in Labels
      BY <1>3
    <2>2. QED
      BY <2>1
  <1>4. ASSUME UNCHANGED <<queued, counter, rx>>,
               \A t \in Senders : pc[t] \in Labels => pc'[t] \in Labels
        PROVE  MessageIsAnnounced'
    BY <1>4
  <1>5. CASE BlockedSend(s) /\ UNCHANGED <<queued, rx>>
    BY <1>4, <1>5 DEF BlockedSend
  <1>6. CASE OfferRefused(s)
    BY <1>4, <1>6 DEF OfferRefused
  <1>7. CASE DropSender(s)
    BY <1>4, <1>7 DEF DropSender
  <1>8. CASE DropSharedPing(s)
    BY <1>4, <1>8 DEF DropSharedPing
  <1>9. CASE \E t \in Senders : Clone(s, t)
    BY <1>4, <1>9 DEF Clone
  <1>10. QED
    BY <1>1, <1>2, <1>3, <1>5, <1>6, <1>7, <1>8, <1>9 DEF Sender, Continue, BlockedSend

LEMMA MessageStep ==
    ASSUME TypeOK, MessageIsAnnounced, [Next]_vars
    PROVE  MessageIsAnnounced'
  <1> USE DEF TypeOK, MessageIsAnnounced, Awaited
  <1>1. CASE \E s \in Senders : Sender(s)
    BY <1>1, SenderAnnounces
  <1>2. CASE Poll \/ DrainPing \/ SkipPing \/ BatchDone
    BY <1>2 DEF Poll, DrainPing, SkipPing, BatchDone
  <1>3. CASE TryRecv
    BY <1>3 DEF TryRecv, HasMessage
  <1>4. CASE Return
    BY <1>4, PingedIsPositive DEF Return, Renotified, Leave
  <1>5. ASSUME Take, UNCHANGED <<counter>>,
               rx' = rx \/ rx = "waiting"
        PROVE  MessageIsAnnounced'
    <2>1. queued' > 0 => queued > 0
      BY <1>5 DEF Take
    <2>2. \A s \in Senders : pc[s] \in {"signal", "retry", "closing"} => pc'[s] = pc[s]
      BY <1>5 DEF Take, Goto
    <2>3. QED
      BY <1>5, <2>1, <2>2
  <1>6. CASE User
    <2>1. CASE Insert \/ Enable \/ Disable \/ RecvByHand
      BY <2>1 DEF Insert, Enable, Disable, RecvByHand
    <2>2. CASE Remove \/ Drop
      BY <2>2 DEF Remove, Drop, Leave
    <2>3. CASE TryRecvByHand
      BY <2>3, <1>5 DEF TryRecvByHand
    <2>4. CASE RecvAnswered
      BY <2>4, <1>5 DEF RecvAnswered
    <2>5. QED
      BY <1>6, <2>1, <2>2, <2>3, <2>4 DEF User
  <1>7. CASE UNCHANGED vars
    BY <1>7 DEF vars
  <1>8. QED
    BY <1>1, <1>2, <1>3, <1>4, <1>6, <1>7 DEF Next, Dispatch

\* For every number of senders, capacity and interleaving: a message in the
\* queue is being looked for or a ping for it is, or is about to be, written.
THEOREM NoMessageStranded == Spec => []MessageIsAnnounced
  BY TypeCorrect, AnnouncedInit, MessageStep, PTL DEF Spec

\* A step of a sender: the last to drop its mpsc half still has, or leaves to
\* another that is dropping, the ping to write.
LEMMA SenderAnnouncesEnd ==
    ASSUME TypeOK, EndIsAnnounced, NEW s \in Senders, Sender(s)
    PROVE  EndIsAnnounced'
  <1> DEFINE Dropping == {"releasing", "closing"}
  <1> USE DEF TypeOK, Goto, EndIsAnnounced, Awaited
  <1>1. ASSUME pc'[s] \notin {"none"} \cup Dropping
        PROVE  EndIsAnnounced'
    BY <1>1 DEF Disconnected
  <1>2. CASE Send(s) \/ TrySend(s) \/ SyncSend(s)
    BY <1>1, <1>2 DEF Send, TrySend, SyncSend, TryPush
  <1>3. CASE BlockedSend(s) \/ OfferRefused(s)
    BY <1>1, <1>3 DEF BlockedSend, OfferRefused
  <1>4. CASE \E t \in Senders : Clone(s, t)
    BY <1>1, <1>4 DEF Clone
  <1>5. CASE Ping(s)
    BY <1>5, PingedIsPositive DEF Ping
  <1>6. CASE DropSender(s)
    <2>1. pc'[s] \in Dropping
      BY <1>6 DEF DropSender
    <2>2. QED
      BY <2>1
  <1>7. CASE DropSharedPing(s)
    <2>1. CASE \A t \in Senders \ {s} : pc[t] = "none"
      <3>1. pc'[s] \in Dropping
        BY <1>7, <2>1 DEF DropSharedPing
      <3>2. QED
        BY <3>1
    <2>2. CASE \E t \in Senders \ {s} : pc[t] # "none"
      <3>1. PICK t \in Senders \ {s} : pc[t] # "none"
        BY <2>2
      <3>2. pc'[t] = pc[t]
        BY <1>7, <3>1 DEF DropSharedPing
      <3>3. Disconnected' => pc'[t] \in Dropping
        BY <3>1, <3>2 DEF Disconnected
      <3>4. QED
        BY <3>3
    <2>3. QED
      BY <2>1, <2>2
  <1>8. QED
    BY <1>2, <1>3, <1>4, <1>5, <1>6, <1>7 DEF Sender, Continue

\* While its event or a recv() is in process, the Channel is not dropped:
\* without this a return of process_events could bring a dropped one back.
BusyIsAlive == rx # "idle" => Alive

LEMMA BusyStep ==
    ASSUME TypeOK, BusyIsAlive, [Next]_vars
    PROVE  BusyIsAlive'
  <1> USE DEF TypeOK, BusyIsAlive, Alive
  <1>1. ASSUME NEW s \in Senders, Sender(s)
        PROVE  rx' \in {rx, "idle"} /\ UNCHANGED place
    BY <1>1 DEF Sender, Continue, Send, TrySend, SyncSend, TryPush, Push, Clone, Ping,
                BlockedSend, OfferRefused, DropSender, DropSharedPing
  <1>2. CASE Dispatch
    BY <1>2 DEF Dispatch, Poll, DrainPing, SkipPing, TryRecv, BatchDone, Return
  <1>3. CASE User
    BY <1>3 DEF User, Insert, Enable, Disable, Remove, Drop, Leave,
                TryRecvByHand, RecvByHand, RecvAnswered
  <1>4. CASE UNCHANGED vars
    BY <1>4 DEF vars
  <1>5. QED
    BY <1>1, <1>2, <1>3, <1>4 DEF Next

LEMMA EndStep ==
    ASSUME TypeOK, BusyIsAlive, EndIsAnnounced, [Next]_vars
    PROVE  EndIsAnnounced'
  <1> USE DEF TypeOK, EndIsAnnounced, Awaited
  <1>1. CASE \E s \in Senders : Sender(s)
    BY <1>1, SenderAnnouncesEnd
  <1>2. CASE Poll \/ DrainPing \/ SkipPing \/ BatchDone
    BY <1>2 DEF Poll, DrainPing, SkipPing, BatchDone, Disconnected, Alive
  <1>3. ASSUME Take
        PROVE  Disconnected' => Disconnected /\ UNCHANGED pc
    <2>1. CASE UNCHANGED pc
      BY <2>1 DEF Disconnected
    <2>2. CASE \E s \in Senders : Goto(s, "signal")
      <3>1. PICK s \in Senders : pc'[s] = "signal"
        BY <2>2 DEF Goto
      <3>2. QED
        BY <3>1 DEF Disconnected
    <2>3. QED
      BY <1>3, <2>1, <2>2 DEF Take
  <1>4. CASE TryRecv
    BY <1>3, <1>4 DEF TryRecv, Disconnected, Alive
  <1>5. CASE Return
    BY <1>5, PingedIsPositive
       DEF Return, Renotified, Leave, Disconnected, Alive, BusyIsAlive
  <1>6. CASE User
    <2>1. CASE Insert \/ Enable \/ Disable \/ RecvByHand
      BY <2>1 DEF Insert, Enable, Disable, RecvByHand, Disconnected, Alive
    <2>2. CASE Remove \/ Drop
      BY <2>2 DEF Remove, Drop, Leave, Disconnected, Alive
    <2>3. CASE TryRecvByHand
      BY <1>3, <2>3 DEF TryRecvByHand, Alive
    <2>4. CASE RecvAnswered
      BY <1>3, <2>4 DEF RecvAnswered, Disconnected, Alive
    <2>5. QED
      BY <1>6, <2>1, <2>2, <2>3, <2>4 DEF User
  <1>7. CASE UNCHANGED vars
    BY <1>7 DEF vars, Disconnected, Alive
  <1>8. QED
    BY <1>1, <1>2, <1>4, <1>5, <1>6, <1>7 DEF Next, Dispatch

\* For every number of senders, capacity and order of drops: when the last
\* sender is gone, Closed was delivered or the loop will look again.
THEOREM NoEndMissed == Spec => []EndIsAnnounced
  <1>1. Init => BusyIsAlive
    BY DEF Init, BusyIsAlive
  <1>2. QED
    BY <1>1, TypeCorrect, AnnouncedInit, BusyStep, EndStep, PTL DEF Spec
============================================================================
