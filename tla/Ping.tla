------------------------------ MODULE Ping ------------------------------
(***************************************************************************)
(* The ping source on its three backends: an eventfd (sources/ping/        *)
(* eventfd.rs), a pipe (pipe.rs) and an I/O completion port (iocp.rs).     *)
(* Ping handles live on any thread; each step another thread may come in   *)
(* between is an action.                                                   *)
(*                                                                         *)
(* Bounds of the model: a thread holds at most one handle; the eventfd and *)
(* the pipe overflow at Cap; no registration while MaxPackets packets are  *)
(* in the completion port.  The source is not dropped before the handles.  *)
(***************************************************************************)
EXTENDS Naturals, Sequences, FiniteSets, FiniteSetsExt

CONSTANTS
    Threads,     \* threads that may hold a Ping
    Main,        \* the loop's thread, one of them
    Backends,    \* the platforms: a subset of {"eventfd", "pipe", "iocp"}
    Cap,         \* the eventfd's largest value, the pipe's capacity
    ReadSize,    \* bytes per read of the pipe, 32
    Keys,        \* keys the source may be registered under
    MaxPackets,  \* bound: packets in the port when the source is registered
    None         \* no key

ASSUME ConstantsAssumption ==
    /\ Main \in Threads /\ IsFiniteSet(Threads)
    /\ Backends \subseteq {"eventfd", "pipe", "iocp"}
    /\ Cap \in Nat /\ Cap >= 2 /\ ReadSize \in Nat \ {0}
    /\ Keys # {} /\ None \notin Keys /\ MaxPackets \in Nat

VARIABLES
    backend,
    handles,   \* threads with a Ping; on iocp, those the Arc still counts
    at,        \* where each thread is in ping or in a drop
    place,     \* where the source is
    pc,        \* where the loop's thread is in process_events
    post,      \* the post action process_events will return
    fd,        \* the eventfd's counter, the bytes in the pipe
    got,       \* what process_events has read from it
    lost,      \* history: the close increment did not fit the eventfd, or a
               \* ping is left without a packet in the completion port
    notified,  \* iocp: Counter.notified
    key,       \* iocp: PollState.packet, None without poll_state
    inserted,  \* iocp: PollState.inserted
    port,      \* iocp: the keys of the packets in the completion port
    event      \* iocp: the key of the packet that was polled

senders == <<handles, at>>
cycle   == <<place, pc, post, event>>
file    == <<fd, got, lost>>
iocp    == <<notified, key, inserted, port>>
vars    == <<backend, senders, cycle, file, iocp>>

TypeOK ==
    /\ backend \in Backends /\ handles \subseteq Threads
    /\ at \in [Threads -> {"no", "ping", "notify", "close", "wake"}]
    /\ place \in {"user", "loop", "disabled", "gone", "ended"}
    /\ pc \in {"out", "ready", "reading", "callback", "check", "return"}
    /\ post \in {"Continue", "Disable", "Remove"}
    /\ fd \in 0 .. Cap /\ got \in 0 .. Cap /\ lost \in BOOLEAN
    /\ notified \in BOOLEAN /\ key \in Keys \cup {None} /\ inserted \in BOOLEAN
    /\ port \in Seq(Keys) /\ event \in Keys \cup {None}

IncrementPing  == IF backend = "eventfd" THEN 2 ELSE 1
IncrementClose == 1

\* make_ping, and perhaps a first ping; the only handle is on the loop's thread
InitWith(pinged) ==
    /\ backend \in Backends
    /\ handles = {Main} /\ at = [w \in Threads |-> "no"]
    /\ place = "user" /\ pc = "out" /\ post = "Continue" /\ event = None
    /\ fd = (IF pinged /\ backend # "iocp" THEN IncrementPing ELSE 0)
    /\ got = 0 /\ lost = FALSE
    /\ notified = (pinged /\ backend = "iocp")
    /\ key = None /\ inserted = FALSE /\ port = <<>>

Init == InitWith(FALSE)

\* A write that does not fit leaves the file as it is.
Written(n) == IF fd + n <= Cap THEN fd + n ELSE fd

\* iocp: process_events keeps the mutex until it returns, the callback included.
Locked == backend = "iocp" /\ pc \in {"callback", "check"}

\* The write end of the pipe, or the FlagOnDrop, exists.
Open == handles # {} \/ \E w \in Threads : at[w] = "close"

Moves(w, label) == at' = [at EXCEPT ![w] = label]

\* The loop's thread calls out between dispatches, in other sources' callbacks
\* and in this one's.
MayCall(w) == at[w] = "no" /\ (w = Main => pc \in {"out", "ready", "callback"})

----------------------------------------------------------------------------
\* Ping handles

\* PollState::notify
Notify ==
    IF key = None \/ inserted THEN UNCHANGED <<inserted, port>>
    ELSE inserted' = TRUE /\ port' = Append(port, key)

Clone(w, v) ==
    /\ MayCall(w) /\ w \in handles /\ v \notin handles /\ at[v] = "no"
    /\ handles' = handles \cup {v}
    /\ UNCHANGED <<backend, at, cycle, file, iocp>>

BeginPing(w) ==
    /\ MayCall(w) /\ w \in handles
    /\ Moves(w, "ping")
    /\ UNCHANGED <<backend, handles, cycle, file, iocp>>

Send(w) ==
    /\ at[w] = "ping" /\ ~Locked
    /\ Moves(w, "no")
    /\ IF backend = "iocp"
       THEN notified' = TRUE /\ Notify /\ UNCHANGED <<key, fd>>
       ELSE fd' = Written(IncrementPing) /\ UNCHANGED iocp
    /\ UNCHANGED <<backend, handles, cycle, got, lost>>

\* On iocp the count is read first, and the handle is still counted.
Drop(w) ==
    /\ MayCall(w) /\ w \in handles
    /\ IF backend = "iocp"
       THEN Moves(w, IF Cardinality(handles) + 1 <= 2 THEN "notify" ELSE "close") /\ UNCHANGED handles
       ELSE Moves(w, IF handles = {w} THEN "close" ELSE "no") /\ handles' = handles \ {w}
    /\ UNCHANGED <<backend, cycle, file, iocp>>

DropNotifies(w) ==
    /\ at[w] = "notify" /\ ~Locked
    /\ Moves(w, "close") /\ Notify
    /\ UNCHANGED <<backend, handles, cycle, file, notified, key>>

\* Variant: the last handle goes without a mark.
CloseQuietly(w) ==
    /\ at[w] = "close"
    /\ Moves(w, "no") /\ handles' = handles \ {w}
    /\ UNCHANGED <<backend, cycle, file, iocp>>

\* FlagOnDrop::drop; the end of the pipe; the count of the Arc
Close(w) ==
    /\ at[w] = "close"
    /\ Moves(w, "no") /\ handles' = handles \ {w}
    /\ IF backend = "eventfd"
       THEN fd' = Written(IncrementClose) /\ lost' = (fd + IncrementClose > Cap)
       ELSE UNCHANGED <<fd, lost>>
    /\ UNCHANGED <<backend, cycle, got, iocp>>

ThreadStep(w) == Send(w) \/ DropNotifies(w) \/ Close(w)

----------------------------------------------------------------------------
\* Registration, by user code outside of this source's callback

UserCode == pc \in {"out", "ready"} /\ at[Main] = "no"

\* Variant: a ping that came before is not posted.
RegisterQuietly(k) == key' = k /\ inserted' = FALSE /\ UNCHANGED port

\* PollState::new posts a packet if the source is notified already.
Register(k) ==
    /\ key' = k /\ inserted' = notified
    /\ port' = IF notified THEN Append(port, k) ELSE port

Enable ==
    /\ UserCode /\ place \in {"user", "disabled"} /\ Len(port) < MaxPackets
    /\ place' = "loop"
    /\ IF backend = "iocp" THEN \E k \in Keys : Register(k) ELSE UNCHANGED <<key, inserted, port>>
    /\ UNCHANGED <<backend, senders, pc, post, event, file, notified>>

\* Only the completion port tells one registration from another.
Update(k) ==
    /\ UserCode /\ place = "loop" /\ backend = "iocp" /\ k # key /\ Len(port) < MaxPackets
    /\ key' = k
    /\ port' = IF inserted THEN Append(port, k) ELSE port
    /\ UNCHANGED <<backend, senders, cycle, file, notified, inserted>>

Unregister == key' = None /\ inserted' = FALSE

Leave(where) ==
    /\ UserCode /\ place \in {"loop", "disabled"} /\ place # where
    /\ place' = where /\ Unregister
    /\ UNCHANGED <<backend, senders, pc, post, event, file, notified, port>>

UserStep == Enable \/ (\E k \in Keys : Update(k)) \/ Leave("disabled") \/ Leave("gone")

----------------------------------------------------------------------------
\* process_events

Readable == place = "loop" /\ IF backend = "eventfd" THEN fd > 0 ELSE fd > 0 \/ ~Open

\* A packet arrives whatever has become of the source.
Poll ==
    /\ UserCode /\ pc = "out"
    /\ IF backend = "iocp"
       THEN port # <<>> /\ event' = Head(port) /\ port' = Tail(port)
       ELSE Readable /\ UNCHANGED <<event, port>>
    /\ pc' = "ready"
    /\ UNCHANGED <<backend, senders, place, post, file, notified, key, inserted>>

\* Disabled or removed since the poll.
SkipEvent ==
    /\ UserCode /\ pc = "ready"
    /\ place # "loop" /\ (backend = "iocp" => place \in {"gone", "ended"})
    /\ pc' = "out" /\ event' = None
    /\ UNCHANGED <<backend, senders, place, post, file, iocp>>

\* What remains after the drain is decided by what was drained.
HasPing(counter)  == counter >= 2
HasClose(counter) == counter % 2 = 1

\* Variant: a read that finds the close mark reports nothing else.
DrainCloseFirst ==
    /\ UserCode /\ pc = "ready" /\ place = "loop" /\ backend = "eventfd"
    /\ fd' = 0
    /\ post' = IF HasClose(fd) THEN "Remove" ELSE "Continue"
    /\ pc' = IF HasPing(fd) /\ ~HasClose(fd) THEN "callback" ELSE "return"
    /\ UNCHANGED <<backend, senders, place, event, got, lost, iocp>>

Drain ==
    /\ UserCode /\ pc = "ready" /\ place = "loop" /\ backend = "eventfd"
    /\ fd' = 0
    /\ post' = IF HasClose(fd) THEN "Remove" ELSE "Continue"
    /\ pc' = IF HasPing(fd) THEN "callback" ELSE "return"
    /\ UNCHANGED <<backend, senders, place, event, got, lost, iocp>>

BeginReading ==
    /\ UserCode /\ pc = "ready" /\ place = "loop" /\ backend = "pipe"
    /\ pc' = "reading" /\ got' = 0
    /\ UNCHANGED <<backend, senders, place, post, event, fd, lost, iocp>>

Read ==
    /\ pc = "reading" /\ fd > 0
    /\ fd' = fd - Min({fd, ReadSize}) /\ got' = 1
    /\ UNCHANGED <<backend, senders, cycle, lost, iocp>>

\* Nothing to read: EAGAIN while the pipe is open, 0 bytes when it is closed.
ReadNothing ==
    /\ pc = "reading" /\ fd = 0
    /\ post' = IF Open THEN "Continue" ELSE "Remove"
    /\ pc' = IF got > 0 THEN "callback" ELSE "return"
    /\ got' = 0
    /\ UNCHANGED <<backend, senders, place, event, fd, lost, iocp>>

\* A packet posted under a former key is skipped.  Its processing marks the
\* current packet as not inserted: the next change of key does not post again.
Forgotten == key # None /\ event # key /\ notified /\ \A i \in DOMAIN port : port[i] # key

\* iocp: locks; a source without poll_state disables itself.
ProcessPacket ==
    /\ UserCode /\ pc = "ready" /\ backend = "iocp" /\ place \in {"loop", "disabled"}
    /\ IF key = None
       THEN post' = "Disable" /\ pc' = "return" /\ UNCHANGED <<inserted, notified>>
       ELSE /\ inserted' = FALSE
            /\ pc' = IF event # key THEN "return" ELSE IF notified THEN "callback" ELSE "check"
            /\ notified' = (notified /\ event # key)
            /\ post' = "Continue"
    /\ lost' = (lost \/ Forgotten)
    /\ UNCHANGED <<backend, senders, place, event, fd, got, key, port>>

EndCallback ==
    /\ pc = "callback" /\ at[Main] = "no"
    /\ pc' = IF backend = "iocp" THEN "check" ELSE "return"
    /\ UNCHANGED <<backend, senders, place, post, event, file, iocp>>

CheckHandles ==
    /\ pc = "check"
    /\ post' = IF handles = {} THEN "Remove" ELSE "Continue"
    /\ pc' = "return"
    /\ UNCHANGED <<backend, senders, place, event, file, iocp>>

\* The loop applies the post action.
Returns(action) ==
    /\ pc = "return"
    /\ pc' = "out" /\ post' = "Continue" /\ event' = None
    /\ IF action = "Remove" THEN place' = "ended" /\ Unregister
       ELSE IF action = "Disable" THEN Unregister /\ UNCHANGED place
       ELSE UNCHANGED <<place, key, inserted>>
    /\ UNCHANGED <<backend, senders, file, notified, port>>

Process ==
    \/ Poll \/ SkipEvent \/ Drain \/ BeginReading \/ Read \/ ReadNothing
    \/ ProcessPacket \/ CheckHandles

HandleStep(w) ==
    BeginPing(w) \/ Drop(w) \/ \E v \in Threads : Clone(w, v)

Next ==
    \/ \E w \in Threads : HandleStep(w) \/ ThreadStep(w)
    \/ UserStep
    \/ Process \/ EndCallback \/ Returns(post)

Spec == Init /\ [][Next]_vars

\* Pinged since the callback last began, as each backend records it.
Pending ==
    CASE backend = "eventfd" -> HasPing(fd)
      [] backend = "pipe"    -> fd > 0 \/ got > 0
      [] backend = "iocp"    -> notified
=============================================================================
