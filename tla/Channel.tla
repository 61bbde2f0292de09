----------------------------- MODULE Channel -----------------------------
(***************************************************************************)
(* The channel event source (sources/channel.rs): threads push messages    *)
(* into an mpsc queue and ping; the loop drains the ping, takes a batch of *)
(* messages and pings itself when there may be more.  The ping is an       *)
(* eventfd (sources/ping/eventfd.rs) registered level triggered.           *)
(*                                                                         *)
(* Every step that another thread can see is an action: pushing, pinging,  *)
(* giving up the mpsc half and giving up the ping half of a sender; the    *)
(* poll, the drain, each try_recv and the return of process_events.        *)
(*                                                                         *)
(* Messages are counted, not named: std's mpsc keeps their order.  While a *)
(* Channel exists its own Ping keeps FlagOnDrop alive, so the eventfd      *)
(* never carries INCREMENT_CLOSE.  Sends from a callback on the loop's     *)
(* thread are steps of a sender between two try_recvs.                     *)
(***************************************************************************)
EXTENDS Naturals, FiniteSets

CONSTANTS
    Senders,         \* threads, each owning at most one Sender
    Bounds,          \* arguments of sync_channel
    UsizeMax,        \* usize::MAX, the capacity of channel()
    MaxEventsCheck,  \* MAX_EVENTS_CHECK
    MaxCounter,      \* the largest value of the eventfd
    MaxQueue         \* bound: length of an unbounded queue

ASSUME ConstantsAssumption ==
    /\ IsFiniteSet(Senders) /\ Senders # {}
    /\ UsizeMax \in Nat \ {0} /\ Bounds \subseteq 0 .. UsizeMax
    /\ MaxEventsCheck \in Nat \ {0} /\ MaxQueue \in Nat \ {0}
    /\ MaxCounter \in Nat \ {0, 1}

VARIABLES
    sync,      \* made by sync_channel()?
    capacity,  \* Channel.capacity
    queued,    \* messages in the mpsc queue
    pc,        \* where each sender's thread is
    counter,   \* the eventfd
    place,     \* who has the Channel
    rx,        \* where its receiving end is
    budget,    \* try_recvs left to this process_events
    closed     \* history: Event::Closed was delivered

mpsc == <<sync, capacity>>
vars == <<mpsc, queued, pc, counter, place, rx, budget, closed>>

SenderPC == {
    "none",       \* no Sender
    "idle",       \* between two calls
    "signal",     \* about to ping, then return
    "retry",      \* try_send was Full: about to ping, then block
    "blocked",    \* in mpsc::SyncSender::send
    "offering",   \* there, parked on a rendezvous channel
    "releasing",  \* mpsc half dropped, about to drop the Arc of the ping
    "closing"}    \* in PingOnDrop::drop, about to ping

Places == {"user", "loop", "disabled", "removed", "dropped"}
    \* removed: by its own callback, which still runs

Receiver == {
    "idle",
    "waiting",  \* in recv(), called by hand
    "ready",    \* polled, its event not yet processed
    "recv",     \* ping drained, in the loop over try_recv
    "clear",    \* that loop ended on Empty,
    "closed",   \* on Disconnected,
    "again"}    \* or at its maximum

----------------------------------------------------------------------------
\* The eventfd and the queue

IncrementPing == 2

\* send_ping: at its cap the counter stays, EAGAIN is a success.
Pinged(c) == IF c + IncrementPing <= MaxCounter THEN c + IncrementPing ELSE c

Rendezvous == capacity = 0
Alive == place # "dropped"
Disconnected == \A s \in Senders : pc[s] \in {"none", "releasing", "closing"}
Offered == \E s \in Senders : pc[s] = "offering"
HasMessage == queued > 0 \/ Offered

Full == sync /\ IF Rendezvous THEN rx # "waiting" ELSE queued >= capacity

Goto(s, label) == pc' = [pc EXCEPT ![s] = label]

\* A message enters the queue, or the hands of a blocked recv().
Push ==
    /\ ~Full
    /\ IF Rendezvous
       THEN rx' = "idle" /\ UNCHANGED queued
       ELSE queued < MaxQueue /\ queued' = queued + 1 /\ UNCHANGED rx

\* A message leaves the queue, or the hands of a parked sender.
Take ==
    \/ queued > 0 /\ queued' = queued - 1 /\ UNCHANGED pc
    \/ \E s \in Senders : pc[s] = "offering" /\ Goto(s, "signal") /\ UNCHANGED queued

\* Variant: the addition wraps.
WrappingSucc(n) == (n + 1) % (UsizeMax + 1)

SaturatingSucc(n) == IF n = UsizeMax THEN n ELSE n + 1

\* Variant: no limit of 1024.
BatchOfCapacity == SaturatingSucc(capacity)

Batch == IF SaturatingSucc(capacity) <= MaxEventsCheck
         THEN SaturatingSucc(capacity) ELSE MaxEventsCheck

----------------------------------------------------------------------------
Init ==
    /\ \/ sync = FALSE /\ capacity = UsizeMax
       \/ sync = TRUE /\ capacity \in Bounds
    /\ \E s \in Senders : pc = [t \in Senders |-> IF t = s THEN "idle" ELSE "none"]
    /\ queued = 0 /\ counter = 0 /\ budget = 0
    /\ place = "user" /\ rx = "idle" /\ closed = FALSE

----------------------------------------------------------------------------
\* The senders.  A call that fails because the Channel is gone returns at
\* once and changes nothing; it is not an action.

Clone(s, t) ==
    /\ pc[s] = "idle" /\ pc[t] = "none"
    /\ Goto(t, "idle")
    /\ UNCHANGED <<mpsc, queued, counter, place, rx, budget, closed>>

\* Sender::send
Send(s) ==
    /\ ~sync /\ Alive /\ pc[s] = "idle"
    /\ Push /\ Goto(s, "signal")
    /\ UNCHANGED <<mpsc, counter, place, budget, closed>>

\* SyncSender::try_send up to the ping, which follows Ok and Full alike
TryPush(s, ifFull) ==
    /\ sync /\ Alive /\ pc[s] = "idle"
    /\ \/ Push /\ Goto(s, "signal")
       \/ Full /\ Goto(s, ifFull) /\ UNCHANGED <<queued, rx>>
    /\ UNCHANGED <<mpsc, counter, place, budget, closed>>

TrySend(s)  == TryPush(s, "signal")
SyncSend(s) == TryPush(s, "retry")

AfterPing(label) == CASE label = "signal"  -> "idle"
                      [] label = "retry"   -> "blocked"
                      [] label = "closing" -> "none"

Ping(s) ==
    /\ pc[s] \in {"signal", "retry", "closing"}
    /\ counter' = Pinged(counter)
    /\ Goto(s, AfterPing(pc[s]))
    /\ UNCHANGED <<mpsc, queued, place, rx, budget, closed>>

\* The blocking half of SyncSender::send
BlockedSend(s) ==
    /\ pc[s] = "blocked"
    /\ \/ Alive /\ Push /\ Goto(s, "signal")
       \/ Alive /\ Full /\ Rendezvous /\ Goto(s, "offering") /\ UNCHANGED <<queued, rx>>
       \/ ~Alive /\ Goto(s, "idle") /\ UNCHANGED <<queued, rx>>
    /\ UNCHANGED <<mpsc, counter, place, budget, closed>>

OfferRefused(s) ==
    /\ pc[s] = "offering" /\ ~Alive
    /\ Goto(s, "idle")
    /\ UNCHANGED <<mpsc, queued, counter, place, rx, budget, closed>>

\* Variant: no PingOnDrop.
DropSenderSilently(s) ==
    /\ pc[s] = "idle"
    /\ Goto(s, "none")
    /\ UNCHANGED <<mpsc, queued, counter, place, rx, budget, closed>>

\* Drop of a Sender or SyncSender: fields in order, the mpsc half first.
\* Each Sender has its PingOnDrop, the clones of a SyncSender share one.
DropSender(s) ==
    /\ pc[s] = "idle"
    /\ Goto(s, IF sync THEN "releasing" ELSE "closing")
    /\ UNCHANGED <<mpsc, queued, counter, place, rx, budget, closed>>

DropSharedPing(s) ==
    /\ pc[s] = "releasing"
    /\ Goto(s, IF \A t \in Senders \ {s} : pc[t] = "none" THEN "closing" ELSE "none")
    /\ UNCHANGED <<mpsc, queued, counter, place, rx, budget, closed>>

----------------------------------------------------------------------------
\* The loop's thread: one dispatch of this source

Poll ==
    /\ place = "loop" /\ rx = "idle" /\ counter > 0
    /\ rx' = "ready"
    /\ UNCHANGED <<mpsc, queued, pc, counter, place, budget, closed>>

\* Channel::process_events up to its loop: PingSource drains the eventfd
DrainPing ==
    /\ rx = "ready" /\ place = "loop"
    /\ counter' = 0 /\ budget' = Batch /\ rx' = "recv"
    /\ UNCHANGED <<mpsc, queued, pc, place, closed>>

\* Variant: the ping of a disabled source is drained all the same.
SkipDrainedPing ==
    /\ rx = "ready" /\ place = "disabled"
    /\ rx' = "clear" /\ counter' = 0
    /\ UNCHANGED <<mpsc, queued, pc, place, budget, closed>>

\* A source disabled since the poll: Generic's token check skips the closure,
\* so the ping is not drained and process_events goes on as at its maximum.
SkipPing ==
    /\ rx = "ready" /\ place = "disabled"
    /\ rx' = "again"
    /\ UNCHANGED <<mpsc, queued, pc, counter, place, budget, closed>>

\* Variants: no count of the messages taken; a closed channel looks empty.
TryRecvUncounted ==
    /\ rx = "recv" /\ budget > 0
    /\ \/ Take /\ UNCHANGED <<rx, budget, closed>>
       \/ /\ ~HasMessage
          /\ rx' = IF Disconnected THEN "closed" ELSE "clear"
          /\ closed' = (closed \/ Disconnected)
          /\ UNCHANGED <<queued, pc, budget>>
    /\ UNCHANGED <<mpsc, counter, place>>

TryRecvOpen ==
    /\ rx = "recv" /\ budget > 0
    /\ \/ Take /\ budget' = budget - 1 /\ UNCHANGED rx
       \/ ~HasMessage /\ rx' = "clear" /\ UNCHANGED <<queued, pc, budget>>
    /\ UNCHANGED <<mpsc, counter, place, closed>>

TryRecv ==
    /\ rx = "recv" /\ budget > 0
    /\ \/ Take /\ budget' = budget - 1 /\ UNCHANGED <<rx, closed>>
       \/ /\ ~HasMessage
          /\ rx' = IF Disconnected THEN "closed" ELSE "clear"
          /\ closed' = (closed \/ Disconnected)
          /\ UNCHANGED <<queued, pc, budget>>
    /\ UNCHANGED <<mpsc, counter, place>>

BatchDone ==
    /\ rx = "recv" /\ budget = 0
    /\ rx' = "again"
    /\ UNCHANGED <<mpsc, queued, pc, counter, place, budget, closed>>

\* The Channel leaves the loop: its user has a Dispatcher of it, or it drops.
Leave ==
    \/ place' = "user" /\ UNCHANGED queued
    \/ place' = "dropped" /\ queued' = 0

\* Variant: no second notification.
NotRenotified == counter

\* After the loop over try_recv: notify again if it stopped at its maximum
Renotified == IF rx = "again" THEN Pinged(counter) ELSE counter

Return ==
    /\ rx \in {"clear", "closed", "again"}
    /\ counter' = Renotified
    /\ rx' = "idle" /\ budget' = 0
    /\ IF rx = "closed" \/ place = "removed" THEN Leave ELSE UNCHANGED <<place, queued>>
    /\ UNCHANGED <<mpsc, pc, closed>>

Dispatch == Poll \/ DrainPing \/ SkipPing \/ TryRecv \/ BatchDone \/ Return

----------------------------------------------------------------------------
\* The user of the loop: before or after a dispatch, or in the callback of
\* another source after the poll (rx = "ready"), or in its own (rx = "recv")

Insert ==
    /\ place = "user" /\ rx = "idle"
    /\ place' = "loop"
    /\ UNCHANGED <<mpsc, queued, pc, counter, rx, budget, closed>>

Enable ==
    /\ place = "disabled" /\ rx \in {"idle", "ready"}
    /\ place' = "loop"
    /\ UNCHANGED <<mpsc, queued, pc, counter, rx, budget, closed>>

Disable ==
    /\ place = "loop" /\ rx \in {"idle", "ready", "recv"}
    /\ place' = "disabled"
    /\ UNCHANGED <<mpsc, queued, pc, counter, rx, budget, closed>>

Remove ==
    /\ place \in {"loop", "disabled"}
    /\ \/ rx \in {"idle", "ready"} /\ rx' = "idle" /\ Leave
       \/ rx = "recv" /\ place' = "removed" /\ UNCHANGED <<queued, rx>>
    /\ UNCHANGED <<mpsc, pc, counter, budget, closed>>

Drop ==
    /\ place = "user" /\ rx = "idle"
    /\ place' = "dropped" /\ queued' = 0
    /\ UNCHANGED <<mpsc, pc, counter, rx, budget, closed>>

\* Channel::try_recv and Channel::recv by hand; recv blocks until it has an answer
TryRecvByHand ==
    /\ place = "user" /\ rx = "idle"
    /\ Take
    /\ UNCHANGED <<mpsc, counter, place, rx, budget, closed>>

RecvByHand ==
    /\ place = "user" /\ rx = "idle" /\ ~HasMessage /\ ~Disconnected
    /\ rx' = "waiting"
    /\ UNCHANGED <<mpsc, queued, pc, counter, place, budget, closed>>

RecvAnswered ==
    /\ rx = "waiting"
    /\ \/ Take
       \/ Disconnected /\ ~HasMessage /\ UNCHANGED <<queued, pc>>
    /\ rx' = "idle"
    /\ UNCHANGED <<mpsc, counter, place, budget, closed>>

User == Insert \/ Enable \/ Disable \/ Remove \/ Drop
        \/ TryRecvByHand \/ RecvByHand \/ RecvAnswered

----------------------------------------------------------------------------
\* What a thread that entered a call goes on to do
Continue(s) == Ping(s) \/ BlockedSend(s) \/ OfferRefused(s) \/ DropSharedPing(s)

Sender(s) ==
    \/ Send(s) \/ TrySend(s) \/ SyncSend(s) \/ DropSender(s)
    \/ Continue(s)
    \/ \E t \in Senders : Clone(s, t)

Next == Dispatch \/ User \/ \E s \in Senders : Sender(s)

Spec == Init /\ [][Next]_vars

\* The loop is dispatched again and again and its callbacks return; a thread
\* in a call is scheduled.  No sender need send, none need drop.
FairSpec ==
    /\ Spec
    /\ WF_vars(Dispatch)
    /\ \A s \in Senders : WF_vars(Continue(s))

----------------------------------------------------------------------------
\* Properties

\* Every variable keeps its type; the eventfd never passes its cap and the
\* queue of a synchronous channel never its capacity.
TypeOK ==
    /\ sync \in BOOLEAN /\ capacity \in 0 .. UsizeMax
    /\ queued \in Nat /\ (sync => queued <= capacity)
    /\ pc \in [Senders -> SenderPC]
    /\ counter \in 0 .. MaxCounter
    /\ place \in Places /\ rx \in Receiver
    /\ budget \in 0 .. MaxEventsCheck
    /\ closed \in BOOLEAN

\* Something will make the poll report the channel, or it is being served.
Awaited(labels) ==
    \/ counter > 0 \/ rx \in {"recv", "again"}
    \/ \E s \in Senders : pc[s] \in labels

\* No wakeup is lost between a sender's push and its ping, or between the
\* loop's drain and its last try_recv: a message in the queue is seen by the
\* running process_events, or a ping is or will be written for it.
MessageIsAnnounced ==
    queued > 0 => Awaited({"signal", "retry", "closing"})

\* The same for the end of the channel: once the last mpsc half is dropped,
\* Closed was delivered or the loop will look again (the field order that
\* "Dropped after `sender` so receiver is guaranteed to get `Disconnected`
\* after ping" is about).
EndIsAnnounced ==
    Disconnected /\ ~closed /\ Alive => Awaited({"releasing", "closing"})

\* A process_events ends, however fast other threads refill the queue.
BatchEnds == rx = "recv" ~> rx = "idle"

\* While the channel stays in the loop, its queue never rests: it is empty
\* again and again, or messages are delivered again and again.
MessagesMove ==
    []<>(queued = 0 \/ place # "loop") \/ []<><<queued' < queued>>_vars

\* When the last sender is dropped, Closed is delivered, unless the channel
\* leaves the loop.
CloseIsReported == Disconnected ~> (closed \/ place # "loop")

\* A thread stays in a blocking send only if the channel is kept out of the
\* loop or other senders always get there first.
SendReturns(s) ==
    \/ []<>(pc[s] \notin {"blocked", "offering"})
    \/ []<>(place # "loop")
    \/ []<>(\E t \in Senders \ {s} : pc[t] = "signal")

\* SyncSender::send on a channel with a buffer returns.
BufferedSendReturns == Rendezvous \/ \A s \in Senders : SendReturns(s)

\* "this function will block until the event loop empties it and it can
\* deliver the message" (SyncSender::send), of any bound.
BlockedSendReturns == \A s \in Senders : SendReturns(s)
============================================================================
