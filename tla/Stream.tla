----------------------------- MODULE Stream -----------------------------
(***************************************************************************)
(* The two uses of a ping source: by itself, with handles on any thread,   *)
(* and inside a StreamSource (sources/stream.rs), where the only Ping is   *)
(* in the waker the stream is polled with.  The stream is any one whose    *)
(* wake-up contract holds: a poll that returns Pending has stored the      *)
(* waker, and who adds an item or ends the stream then wakes it.           *)
(*                                                                         *)
(* The stream is polled in the callback of the ping source.  It may also   *)
(* wake itself during a poll and yield, as cooperative streams do.         *)
(***************************************************************************)
EXTENDS Ping

CONSTANT MaxItems   \* bound: items of the stream not yet taken

ASSUME ItemsAssumption == MaxItems \in Nat \ {0}

VARIABLES
    use,       \* "ping" or "stream"
    items,     \* items the stream holds
    ended,     \* has the producer ended it?
    reported,  \* end_of_stream: the callback was given None
    stored,    \* does the stream hold our waker?
    polled     \* the last poll_next of this process_events: "no", "pending", "end"

stream == <<items, ended, reported, stored, polled>>
all    == <<vars, use, stream>>

Producers == Threads \ {Main}

StreamTypeOK ==
    /\ TypeOK
    /\ use \in {"ping", "stream"} /\ items \in 0 .. MaxItems
    /\ ended \in BOOLEAN /\ reported \in BOOLEAN /\ stored \in BOOLEAN
    /\ polled \in {"no", "pending", "end"}

\* Variant: StreamSource::new does not ping.
NotPingedByNew(u) == FALSE

\* StreamSource::new pings, so that the first dispatch polls the stream.
PingedByNew(u) == u = "stream"

StreamInit ==
    /\ use \in {"ping", "stream"}
    /\ InitWith(PingedByNew(use))
    /\ items = 0 /\ ended = FALSE /\ reported = FALSE /\ stored = FALSE /\ polled = "no"

----------------------------------------------------------------------------
\* The stream and its producers

\* A producer adds an item, or ends the stream, and goes on to wake the loop.
Produce(w) ==
    /\ use = "stream" /\ w \in Producers /\ at[w] = "no" /\ ~ended
    /\ \/ items < MaxItems /\ items' = items + 1 /\ UNCHANGED ended
       \/ ended' = TRUE /\ UNCHANGED items
    /\ Moves(w, "wake")
    /\ UNCHANGED <<backend, handles, cycle, file, iocp, use, reported, stored, polled>>

\* It takes the stored waker, PingWaker::wake, if there is one.
TakeWaker(w) ==
    /\ at[w] = "wake"
    /\ Moves(w, IF stored THEN "ping" ELSE "no")
    /\ stored' = FALSE
    /\ UNCHANGED <<backend, handles, cycle, file, iocp, use, items, ended, reported, polled>>

\* while let Ready(evt) = poll_next(..)
Polls == use = "stream" /\ pc = "callback" /\ at[Main] = "no" /\ polled = "no"

PollItem ==
    /\ Polls /\ items > 0
    /\ items' = items - 1
    /\ UNCHANGED <<vars, use, ended, reported, stored, polled>>

PollEnd ==
    /\ Polls /\ items = 0 /\ ended
    /\ polled' = "end" /\ reported' = TRUE
    /\ UNCHANGED <<vars, use, items, ended, stored>>

PollPending ==
    /\ Polls /\ items = 0 /\ ~ended
    /\ polled' = "pending" /\ stored' = TRUE
    /\ UNCHANGED <<vars, use, items, ended, reported>>

\* The stream wakes itself and returns Pending, items or not.
PollYields ==
    /\ Polls
    /\ polled' = "pending"
    /\ Moves(Main, "ping")
    /\ UNCHANGED <<backend, handles, cycle, file, iocp, use, items, ended, reported, stored>>

\* The callback ends with a poll that was not Ready, or with None.
EndPolling ==
    /\ use = "stream" => polled # "no"
    /\ EndCallback
    /\ UNCHANGED <<use, stream>>

\* The end of the stream removes the source, whatever the ping source returned.
Action(action) == IF polled = "end" THEN "Remove" ELSE action

StreamReturns ==
    /\ Returns(Action(post))
    /\ polled' = "no"
    /\ UNCHANGED <<use, items, ended, reported, stored>>

StreamStep == PollItem \/ PollEnd \/ PollPending \/ PollYields

LoopStep ==
    \/ (Process /\ UNCHANGED <<use, stream>>)
    \/ EndPolling \/ StreamReturns

StreamNext ==
    \/ \E w \in Threads :
        \/ (use = "ping" /\ HandleStep(w) /\ UNCHANGED <<use, stream>>)
        \/ (ThreadStep(w) /\ UNCHANGED <<use, stream>>)
        \/ Produce(w) \/ TakeWaker(w)
    \/ (UserStep /\ UNCHANGED <<use, stream>>)
    \/ StreamStep
    \/ LoopStep

\* Calls in progress go on; user code returns to the loop, callbacks return, and
\* the loop is dispatched again: strong, as what user code may do disables them.
Fairness ==
    /\ \A w \in Threads : WF_all(ThreadStep(w) /\ UNCHANGED <<use, stream>>) /\ WF_all(TakeWaker(w))
    /\ SF_all(LoopStep) /\ WF_all(StreamStep)

StreamSpec == StreamInit /\ [][StreamNext]_all
FairSpec   == StreamSpec /\ Fairness

----------------------------------------------------------------------------
(* Properties.                                                             *)

\* Each backend keeps the promise of ping.rs: a recorded ping is neither forgotten
\* nor reported twice, and a source that removes itself has no handle and no ping left.  The
\* end of a stream counts as a removal by its user.
Promise == INSTANCE PingSpec WITH
    pending <- Pending,
    calling <- pc = "callback",
    open    <- Open,
    place   <- IF reported /\ place = "ended" THEN "gone" ELSE place

RefinesPing == Promise!Spec

\* An item, or the end of the stream, that the loop does not know of is being
\* announced: the first ping or a wake-up is under way, or the stream is about to
\* be polled.  Without it the stream sleeps for ever (stream.rs, new).
ItemsAreAnnounced ==
    use = "stream" /\ (items > 0 \/ (ended /\ ~reported)) /\ place \notin {"gone", "ended"} =>
        \/ Pending
        \/ pc = "callback" /\ polled = "no"
        \/ \E w \in Threads : at[w] = "ping" \/ (at[w] = "wake" /\ stored)

\* The loop's thread waits for the lock its own callback runs under (iocp.rs:143).
Stuck == Locked /\ at[Main] # "no"

\* Pings or items that keep coming hold the reading loop of the pipe, or the
\* polling loop of the stream, for ever.
Flooded ==
    \/ backend = "pipe" /\ \E w \in Threads : at[w] = "ping"
    \/ use = "stream" /\ \E w \in Threads : at[w] = "wake"

\* A ping of a registered source is answered by its callback, whether it came
\* before the registration or after (eventfd and pipe are level triggered, iocp
\* posts again), unless user code takes the source out of the loop.  Two changes of
\* the key on iocp may leave a ping without a packet until the next one (lost), and
\* changes that never end may keep ahead of the packets.
PingsAreAnswered ==
    \/ []<>Flooded \/ []<><<\E k \in Keys : Update(k)>>_vars
    \/ (Pending /\ place = "loop" ~> ~Pending \/ place # "loop" \/ Stuck \/ lost)

\* When the last handle is gone, the source removes itself (ping.rs:56-57), on
\* the backends with a file, unless the eventfd was at its cap.
CloseIsSeen ==
    backend # "iocp" /\ ~Open /\ ~lost /\ place = "loop" ~> place # "loop"
=============================================================================
