--------------------------- MODULE Stream_proofs ---------------------------
(***************************************************************************)
(* Proofs about Ping and Stream, on each of the three backends, for any    *)
(* number of threads, any cap of the eventfd and capacity of the pipe      *)
(* from 2 on, any size of its reads and any bound on items and packets.    *)
(***************************************************************************)
EXTENDS Stream, SequenceTheorems, TLAPS

----------------------------------------------------------------------------
(* The inductive invariant.                                                *)

\* Who holds what: a thread that pings or drops has a handle, or pings for the
\* waker of the stream, whose handle nobody drops.  On the backends with a file
\* the last handle is closed once.
HandleInv ==
    /\ use = "stream" => handles = {Main} /\ \A w \in Threads : at[w] \in {"no", "ping", "wake"}
    /\ use = "ping" => \A w \in Threads : at[w] # "wake" /\ (at[w] \in {"ping", "notify"} => w \in handles)
    /\ backend = "iocp" => \A w \in Threads : at[w] = "close" => w \in handles
    /\ backend # "iocp" => \A w \in Threads :
        /\ at[w] # "notify"
        /\ at[w] = "close" => handles = {} /\ \A v \in Threads : at[v] = "close" => v = w

\* The counter of the eventfd is odd only when every handle is gone.
FileInv ==
    /\ backend = "eventfd" /\ Open => fd % 2 = 0
    /\ pc # "reading" => got = 0

\* In process_events the source is in the loop, and it is removed only when there
\* is no handle left and nothing to report.
CycleInv ==
    /\ pc \in {"callback", "check", "reading"} => place = "loop"
    /\ pc = "reading" => backend = "pipe"
    /\ pc = "check" => backend = "iocp"
    /\ backend = "iocp" /\ pc \in {"callback", "check"} => ~notified /\ post # "Remove"
    /\ key # None => place = "loop"
    /\ post = "Remove" => pc \in {"callback", "return"} /\ ~Open /\ ~Pending /\ place = "loop"

\* The end of the stream is reported by the process_events that removes it.
EndInv ==
    /\ polled # "no" => pc \in {"callback", "check", "return"} /\ place = "loop"
    /\ polled = "end" => reported
    /\ reported => polled = "end" \/ place = "ended"

\* Until its end the stream holds the waker, or will be polled again.
WakerInv ==
    use = "stream" /\ ~reported /\ place \notin {"gone", "ended"} =>
        \/ Pending
        \/ pc = "callback" /\ polled = "no"
        \/ \E w \in Threads : at[w] = "ping"
        \/ stored /\ (items > 0 \/ ended => \E w \in Threads : at[w] = "wake")

\* What was reported as the end is the end.
DrainedInv == reported => ended /\ items = 0

RestInv == FileInv /\ CycleInv /\ EndInv
PingInv == HandleInv /\ RestInv
----------------------------------------------------------------------------
(* Type correctness.                                                       *)

\* Both files count up to Cap, whatever is written and read.
LEMMA WrittenType ==
    ASSUME fd \in 0 .. Cap, NEW n \in {1, 2}
    PROVE  Written(n) \in 0 .. Cap /\ Written(n) \in {fd, fd + n}
  BY ConstantsAssumption DEF Written

LEMMA MinProperties ==
    ASSUME NEW a \in Nat, NEW b \in Nat
    PROVE  Min({a, b}) \in {a, b} /\ Min({a, b}) <= a /\ Min({a, b}) <= b
  <1>1. \E m \in {a, b} : \A x \in {a, b} : m <= x
    <2>1. CASE a <= b
      BY <2>1
    <2>2. CASE b <= a
      BY <2>2
    <2> QED BY <2>1, <2>2
  <1>2. Min({a, b}) \in {a, b} /\ \A x \in {a, b} : Min({a, b}) <= x
    BY <1>1 DEF Min
  <1> QED BY <1>2

\* The port is a sequence of keys.
LEMMA PortType ==
    ASSUME port \in Seq(Keys), NEW k \in Keys
    PROVE  /\ Append(port, k) \in Seq(Keys)
           /\ port # <<>> => Tail(port) \in Seq(Keys) /\ Head(port) \in Keys
  BY AppendProperties, HeadTailProperties

LEMMA TypeInit == StreamInit => StreamTypeOK
  <1>1. <<>> \in Seq(Keys)
    BY EmptySeq
  <1> SUFFICES ASSUME StreamInit PROVE StreamTypeOK
    OBVIOUS
  <1>2. TypeOK
    <2>1. PICK b \in BOOLEAN : InitWith(b)
      BY DEF StreamInit, PingedByNew
    <2>2. fd \in 0 .. Cap /\ got \in 0 .. Cap
      BY <2>1, ConstantsAssumption DEF InitWith, IncrementPing
    <2>3. notified \in BOOLEAN
      BY <2>1 DEF InitWith
    <2> QED BY <1>1, <2>1, <2>2, <2>3, ConstantsAssumption DEF InitWith, TypeOK
  <1>3. items \in 0 .. MaxItems
    BY ItemsAssumption DEF StreamInit
  <1> QED BY <1>2, <1>3 DEF StreamInit, StreamTypeOK

\* The handles.
LEMMA TypeHandles ==
    ASSUME TypeOK, NEW w \in Threads, HandleStep(w) \/ ThreadStep(w)
    PROVE  TypeOK'
  <1> USE DEF TypeOK, cycle, file, iocp
  <1>1. ASSUME NEW label \in {"no", "ping", "notify", "close", "wake"}, Moves(w, label)
        PROVE  at' \in [Threads -> {"no", "ping", "notify", "close", "wake"}]
    BY <1>1 DEF Moves
  <1>2. CASE BeginPing(w)
    BY <1>1, <1>2 DEF BeginPing
  <1>3. CASE Drop(w)
    <2>1. PICK label \in {"no", "notify", "close"} : Moves(w, label)
      BY <1>3 DEF Drop
    <2> QED BY <1>1, <1>3, <2>1 DEF Drop
  <1>4. ASSUME NEW v \in Threads, Clone(w, v)
        PROVE  TypeOK'
    BY <1>4 DEF Clone
  <1>5. ASSUME Notify
        PROVE  inserted' \in BOOLEAN /\ port' \in Seq(Keys)
    BY <1>5, PortType DEF Notify
  <1>6. CASE Send(w)
    <2>1. fd' \in 0 .. Cap /\ notified' \in BOOLEAN /\ inserted' \in BOOLEAN /\ port' \in Seq(Keys)
          /\ key' \in Keys \cup {None}
      BY <1>5, <1>6, WrittenType DEF Send, IncrementPing
    <2> QED BY <1>1, <1>6, <2>1 DEF Send
  <1>7. CASE DropNotifies(w)
    BY <1>1, <1>5, <1>7 DEF DropNotifies
  <1>8. CASE Close(w)
    <2>1. fd' \in {fd, Written(IncrementClose)} /\ IncrementClose \in {1, 2}
      BY <1>8 DEF Close, IncrementClose
    <2>2. fd' \in 0 .. Cap
      BY <2>1, WrittenType
    <2>3. lost' \in BOOLEAN
      <3>1. CASE backend = "eventfd" /\ fd + IncrementClose > Cap
        BY <1>8, <3>1 DEF Close
      <3>2. CASE backend = "eventfd" /\ ~(fd + IncrementClose > Cap)
        BY <1>8, <3>2 DEF Close
      <3>3. CASE backend # "eventfd"
        BY <1>8, <3>3 DEF Close
      <3> QED BY <3>1, <3>2, <3>3
    <2> QED BY <1>1, <1>8, <2>2, <2>3 DEF Close
  <1> QED BY <1>2, <1>3, <1>4, <1>6, <1>7, <1>8 DEF HandleStep, ThreadStep

\* The registration.
LEMMA TypeUser ==
    ASSUME TypeOK, UserStep
    PROVE  TypeOK'
  <1> USE DEF TypeOK, senders, file
  <1>1. CASE Enable
    <2>1. key' \in Keys \cup {None} /\ inserted' \in BOOLEAN /\ port' \in Seq(Keys)
      BY <1>1, PortType DEF Enable, Register
    <2> QED BY <1>1, <2>1 DEF Enable
  <1>2. ASSUME NEW k \in Keys, Update(k)
        PROVE  TypeOK'
    <2>1. port' \in Seq(Keys)
      BY <1>2, PortType DEF Update
    <2> QED BY <1>2, <2>1 DEF Update, cycle
  <1>3. ASSUME NEW where \in {"disabled", "gone"}, Leave(where)
        PROVE  TypeOK'
    BY <1>3 DEF Leave, Unregister
  <1> QED BY <1>1, <1>2, <1>3 DEF UserStep

\* The loop's thread.
LEMMA TypeProcess ==
    ASSUME TypeOK, Process \/ EndCallback \/ \E action \in {"Continue", "Disable", "Remove"} : Returns(action)
    PROVE  TypeOK'
  <1> USE DEF TypeOK, senders, file, iocp
  <1>1. CASE Poll
    BY <1>1, HeadTailProperties DEF Poll
  <1>2. CASE SkipEvent
    BY <1>2 DEF SkipEvent
  <1>3. CASE Drain
    BY <1>3, ConstantsAssumption DEF Drain
  <1>4. CASE BeginReading
    BY <1>4, ConstantsAssumption DEF BeginReading
  <1>5. CASE Read
    <2>1. fd \in Nat /\ fd <= Cap /\ Cap \in Nat /\ ReadSize \in Nat /\ 1 \in 0 .. Cap
      BY ConstantsAssumption
    <2>2. PICK m \in Nat : m = Min({fd, ReadSize}) /\ m <= fd
      BY <2>1, MinProperties
    <2>3. fd' = fd - m
      BY <1>5, <2>2 DEF Read
    <2>4. fd' \in 0 .. Cap
      <3> HIDE DEF TypeOK
      <3> QED BY <2>1, <2>2, <2>3
    <2> QED BY <1>5, <2>1, <2>4 DEF Read, cycle
  <1>6. CASE ReadNothing
    BY <1>6, ConstantsAssumption DEF ReadNothing
  <1>7. CASE ProcessPacket
    <2>1. lost' \in BOOLEAN
      BY <1>7 DEF ProcessPacket
    <2>2. notified' \in BOOLEAN /\ inserted' \in BOOLEAN
      BY <1>7 DEF ProcessPacket
    <2> QED BY <1>7, <2>1, <2>2 DEF ProcessPacket
  <1>8. CASE CheckHandles
    BY <1>8 DEF CheckHandles
  <1>9. CASE EndCallback
    BY <1>9 DEF EndCallback
  <1>10. ASSUME NEW action \in {"Continue", "Disable", "Remove"}, Returns(action)
         PROVE  TypeOK'
    BY <1>10 DEF Returns, Unregister
  <1> QED BY <1>1, <1>2, <1>3, <1>4, <1>5, <1>6, <1>7, <1>8, <1>9, <1>10 DEF Process

LEMMA TypeStep == StreamTypeOK /\ [StreamNext]_all => StreamTypeOK'
  <1> SUFFICES ASSUME StreamTypeOK, [StreamNext]_all PROVE StreamTypeOK'
    OBVIOUS
  <1> USE DEF StreamTypeOK
  <1>1. CASE UNCHANGED all
    BY <1>1 DEF TypeOK, all, vars, senders, cycle, file, iocp, stream
  <1>2. CASE TypeOK' /\ UNCHANGED <<use, stream>>
    BY <1>2 DEF stream
  <1>3. ASSUME NEW w \in Threads, Produce(w) \/ TakeWaker(w)
        PROVE  StreamTypeOK'
    <2>1. TypeOK'
      BY <1>3 DEF Produce, TakeWaker, Moves, TypeOK, cycle, file, iocp
    <2>2. items' \in 0 .. MaxItems
      BY <1>3, ItemsAssumption DEF Produce, TakeWaker
    <2> QED BY <1>3, <2>1, <2>2 DEF Produce, TakeWaker
  <1>4. CASE StreamStep
    <2>1. TypeOK'
      BY <1>4, ConstantsAssumption
         DEF StreamStep, PollItem, PollEnd, PollPending, PollYields, Moves, TypeOK,
             vars, senders, cycle, file, iocp
    <2>2. items' \in 0 .. MaxItems
      BY <1>4, ItemsAssumption DEF StreamStep, PollItem, PollEnd, PollPending, PollYields
    <2> QED BY <1>4, <2>1, <2>2 DEF StreamStep, PollItem, PollEnd, PollPending, PollYields
  <1>5. CASE EndPolling
    BY <1>2, <1>5, TypeProcess DEF EndPolling
  <1>6. CASE StreamReturns
    <2>1. Action(post) \in {"Continue", "Disable", "Remove"}
      BY DEF Action, TypeOK
    <2>2. TypeOK'
      BY <1>6, <2>1, TypeProcess DEF StreamReturns
    <2> QED BY <1>6, <2>2 DEF StreamReturns
  <1> QED BY <1>1, <1>2, <1>3, <1>4, <1>5, <1>6, TypeHandles, TypeUser, TypeProcess
          DEF StreamNext, LoopStep

\* In every reachable state the variables have their types: neither file holds
\* more than its cap.
THEOREM TypeCorrect == StreamSpec => []StreamTypeOK
  BY TypeInit, TypeStep, PTL DEF StreamSpec

----------------------------------------------------------------------------
(* The handles and the files.                                              *)

\* What Pending and Open say, in this state and in the next.
LEMMA PendingIs ==
    ASSUME TypeOK
    PROVE  /\ Pending \in BOOLEAN
           /\ backend = "eventfd" => (Pending <=> fd >= 2)
           /\ backend = "pipe" => (Pending <=> fd > 0 \/ got > 0)
           /\ backend = "iocp" => (Pending <=> notified)
           /\ backend \in {"eventfd", "pipe", "iocp"}
  <1>1. backend \in {"eventfd", "pipe", "iocp"} /\ notified \in BOOLEAN
    BY ConstantsAssumption DEF TypeOK
  <1>2. CASE backend = "eventfd"
    BY <1>2 DEF Pending, HasPing
  <1>3. CASE backend = "pipe"
    BY <1>3 DEF Pending
  <1>4. CASE backend = "iocp"
    BY <1>1, <1>4 DEF Pending
  <1> QED BY <1>1, <1>2, <1>3, <1>4

LEMMA PendingIsNext ==
    ASSUME TypeOK'
    PROVE  /\ Pending' \in BOOLEAN
           /\ backend' = "eventfd" => (Pending' <=> fd' >= 2)
           /\ backend' = "pipe" => (Pending' <=> fd' > 0 \/ got' > 0)
           /\ backend' = "iocp" => (Pending' <=> notified')
           /\ backend' \in {"eventfd", "pipe", "iocp"}
  <1>1. backend' \in {"eventfd", "pipe", "iocp"} /\ notified' \in BOOLEAN
    BY ConstantsAssumption DEF TypeOK
  <1>2. CASE backend' = "eventfd"
    BY <1>2 DEF Pending, HasPing
  <1>3. CASE backend' = "pipe"
    BY <1>3 DEF Pending
  <1>4. CASE backend' = "iocp"
    BY <1>1, <1>4 DEF Pending
  <1> QED BY <1>1, <1>2, <1>3, <1>4

LEMMA PendingFrame ==
    ASSUME UNCHANGED <<backend, fd, got, notified>>
    PROVE  Pending' = Pending
  BY DEF Pending, HasPing

\* A thread that is in a call on a handle keeps the source open.
LEMMA CallersAreOpen ==
    ASSUME HandleInv, use \in {"ping", "stream"}, Main \in Threads, NEW w \in Threads,
           at[w] \in {"ping", "notify", "close", "wake"} \/ w \in handles
    PROVE  Open
  BY DEF HandleInv, Open

LEMMA HandlesAreOpen ==
    ASSUME StreamTypeOK, HandleInv, NEW w \in Threads, HandleStep(w) \/ ThreadStep(w)
    PROVE  Open
  <1>1. at[w] \in {"ping", "notify", "close"} \/ w \in handles
    BY DEF HandleStep, ThreadStep, BeginPing, Drop, Clone, Send, DropNotifies, Close
  <1> QED BY <1>1, CallersAreOpen, ConstantsAssumption DEF StreamTypeOK

\* Moves of a thread between labels that are not "close" change nothing in Open.
LEMMA OpenFrame ==
    ASSUME StreamTypeOK, NEW w \in Threads, NEW label \in {"no", "ping", "notify", "wake"},
           Moves(w, label), at[w] # "close", UNCHANGED handles
    PROVE  Open' = Open
  BY DEF StreamTypeOK, TypeOK, Moves, Open

LEMMA HandleStepInv ==
    ASSUME StreamTypeOK, HandleInv, [StreamNext]_all
    PROVE  HandleInv'
  <1> USE ConstantsAssumption DEF StreamTypeOK, TypeOK, HandleInv
  <1>1. ASSUME UNCHANGED <<use, backend, senders>>
        PROVE  HandleInv'
    BY <1>1 DEF senders
  <1>2. ASSUME NEW w \in Threads, HandleStep(w), use = "ping", UNCHANGED <<use, stream>>
        PROVE  HandleInv'
    <2>1. CASE BeginPing(w)
      BY <1>2, <2>1 DEF BeginPing, MayCall, Moves
    <2>2. CASE Drop(w) /\ backend = "iocp"
      BY <1>2, <2>2 DEF Drop, MayCall, Moves
    <2>3. CASE Drop(w) /\ backend # "iocp" /\ handles = {w}
      BY <1>2, <2>3 DEF Drop, MayCall, Moves
    <2>4. CASE Drop(w) /\ backend # "iocp" /\ handles # {w}
      BY <1>2, <2>4 DEF Drop, MayCall, Moves
    <2>5. ASSUME NEW v \in Threads, Clone(w, v)
          PROVE  HandleInv'
      BY <1>2, <2>5 DEF Clone
    <2> QED BY <1>2, <2>1, <2>2, <2>3, <2>4, <2>5 DEF HandleStep
  <1>3. ASSUME NEW w \in Threads, ThreadStep(w), UNCHANGED <<use, stream>>
        PROVE  HandleInv'
    <2>1. CASE Send(w)
      BY <1>3, <2>1 DEF Send, Moves
    <2>2. CASE DropNotifies(w)
      BY <1>3, <2>2 DEF DropNotifies, Moves
    <2>3. CASE Close(w) /\ backend = "iocp"
      BY <1>3, <2>3 DEF Close, Moves
    <2>4. CASE Close(w) /\ backend # "iocp"
      BY <1>3, <2>4 DEF Close, Moves
    <2> QED BY <1>3, <2>1, <2>2, <2>3, <2>4 DEF ThreadStep
  <1>4. ASSUME NEW w \in Threads, Produce(w) \/ TakeWaker(w)
        PROVE  HandleInv'
    BY <1>4 DEF Produce, TakeWaker, Moves
  <1>5. CASE UserStep /\ UNCHANGED <<use, stream>>
    BY <1>1, <1>5 DEF UserStep, Enable, Update, Leave
  <1>6. CASE StreamStep
    <2>1. CASE PollYields
      BY <2>1 DEF PollYields, Polls, Moves
    <2>2. CASE PollItem \/ PollEnd \/ PollPending
      BY <1>1, <2>2 DEF PollItem, PollEnd, PollPending, vars
    <2> QED BY <1>6, <2>1, <2>2 DEF StreamStep
  <1>7. CASE LoopStep
    <2>1. CASE Process /\ UNCHANGED <<use, stream>>
      BY <1>1, <2>1 DEF Process, Poll, SkipEvent, Drain, BeginReading, Read, ReadNothing,
                        ProcessPacket, CheckHandles
    <2>2. CASE EndPolling
      BY <1>1, <2>2 DEF EndPolling, EndCallback
    <2>3. CASE StreamReturns
      BY <1>1, <2>3 DEF StreamReturns, Returns
    <2> QED BY <1>7, <2>1, <2>2, <2>3 DEF LoopStep
  <1>8. CASE UNCHANGED all
    BY <1>1, <1>8 DEF all, vars
  <1> QED BY <1>2, <1>3, <1>4, <1>5, <1>6, <1>7, <1>8 DEF StreamNext

----------------------------------------------------------------------------
(* The rest of the invariant.                                              *)

\* Steps that leave the threads alone.
LEMMA SendersFrame ==
    ASSUME UNCHANGED senders
    PROVE  Open' = Open
  BY DEF senders, Open

\* The handles: whoever calls on one keeps the source open.
LEMMA HandlesKeepRest ==
    ASSUME StreamTypeOK, HandleInv, RestInv, StreamTypeOK', NEW w \in Threads,
           HandleStep(w) \/ ThreadStep(w), UNCHANGED <<use, stream>>
    PROVE  RestInv'
  <1>1. Open /\ post # "Remove"
    BY HandlesAreOpen DEF RestInv, CycleInv
  <1>2. UNCHANGED <<backend, place, pc, post, key, got, reported, polled>>
    BY DEF HandleStep, ThreadStep, BeginPing, Drop, Clone, Send, DropNotifies, Close,
           cycle, file, iocp, stream
  <1>3. ASSUME backend = "eventfd", Open' PROVE fd' % 2 = 0
    <2>1. fd % 2 = 0 /\ fd \in Nat
      BY <1>1, <1>3, <1>2 DEF RestInv, FileInv, StreamTypeOK, TypeOK
    <2>2. CASE Close(w)
      <3>1. \A v \in Threads : at'[v] # "close"
        BY <1>3, <2>2 DEF HandleInv, Close, Moves, StreamTypeOK, TypeOK
      <3>2. handles' = {}
        BY <1>3, <2>2 DEF HandleInv, Close
      <3> QED BY <1>3, <3>1, <3>2 DEF Open
    <2>3. CASE Send(w)
      <3>1. fd' \in {fd, fd + 2}
        BY <1>3, <2>3 DEF Send, Written, IncrementPing
      <3>2. (fd + 2) % 2 = 0
        BY <2>1
      <3> QED BY <2>1, <3>1, <3>2
    <2>4. CASE HandleStep(w) \/ DropNotifies(w)
      BY <2>1, <2>4 DEF HandleStep, BeginPing, Drop, Clone, DropNotifies, file
    <2> QED BY <2>2, <2>3, <2>4 DEF ThreadStep
  <1>4. FileInv'
    BY <1>2, <1>3 DEF RestInv, FileInv
  <1>5. ASSUME backend = "iocp", pc \in {"callback", "check"} PROVE ~notified'
    <2>1. ~notified /\ Locked
      BY <1>5 DEF RestInv, CycleInv, Locked
    <2> QED BY <2>1 DEF HandleStep, ThreadStep, BeginPing, Drop, Clone, Send, DropNotifies,
                        Close, iocp
  <1>6. CycleInv'
    BY <1>1, <1>2, <1>5 DEF RestInv, CycleInv
  <1>7. EndInv'
    BY <1>2 DEF RestInv, EndInv
  <1> QED BY <1>4, <1>6, <1>7 DEF RestInv

\* The stream and its producers.
LEMMA StreamKeepsRest ==
    ASSUME StreamTypeOK, HandleInv, RestInv,
           StreamStep \/ \E w \in Threads : Produce(w) \/ TakeWaker(w)
    PROVE  RestInv' /\ Open /\ Open' /\ UNCHANGED <<backend, handles, cycle, file, iocp, use>>
  <1>1. use = "stream" /\ Open
    <2>1. use = "stream"
      BY DEF StreamStep, PollItem, PollEnd, PollPending, PollYields, Polls, Produce, TakeWaker,
             HandleInv, StreamTypeOK
    <2> QED BY <2>1, ConstantsAssumption DEF HandleInv, Open
  <1>2. UNCHANGED <<backend, handles, cycle, file, iocp, use>>
    BY DEF StreamStep, PollItem, PollEnd, PollPending, PollYields, Produce, TakeWaker, vars, senders
  <1>3. Open'
    BY <1>1, <1>2, ConstantsAssumption DEF HandleInv, Open
  <1>4. FileInv' /\ CycleInv'
    <2>1. post # "Remove"
      BY <1>1 DEF RestInv, CycleInv
    <2> QED BY <1>1, <1>2, <2>1 DEF RestInv, FileInv, CycleInv, cycle, file, iocp
  <1>5. EndInv'
    <2>1. CASE StreamStep
      <3>1. place = "loop" /\ pc = "callback"
        BY <2>1 DEF StreamStep, PollItem, PollEnd, PollPending, PollYields, Polls, RestInv, CycleInv
      <3> QED BY <1>2, <2>1, <3>1
              DEF StreamStep, PollItem, PollEnd, PollPending, PollYields, Polls, RestInv, EndInv, cycle
    <2>2. CASE \E w \in Threads : Produce(w) \/ TakeWaker(w)
      BY <1>2, <2>2 DEF Produce, TakeWaker, RestInv, EndInv, cycle
    <2> QED BY <2>1, <2>2
  <1> QED BY <1>1, <1>2, <1>3, <1>4, <1>5 DEF RestInv

\* The user moves the source between two calls of process_events.
LEMMA UserKeepsRest ==
    ASSUME StreamTypeOK, RestInv, UserStep, UNCHANGED <<use, stream>>
    PROVE  RestInv'
  <1>1. /\ pc \in {"out", "ready"} /\ place # "ended" /\ place' # "ended" /\ post # "Remove"
        /\ UNCHANGED <<backend, senders, pc, post, fd, got, notified, reported, polled>>
    BY DEF UserStep, Enable, Update, Leave, UserCode, file, cycle, stream, RestInv, CycleInv
  <1>2. Open' = Open
    BY <1>1, SendersFrame
  <1>3. FileInv' /\ EndInv'
    BY <1>1, <1>2 DEF RestInv, FileInv, EndInv
  <1>4. key' # None => place' = "loop"
    BY DEF UserStep, Enable, Update, Leave, Unregister, RestInv, CycleInv, cycle
  <1>5. CycleInv'
    BY <1>1, <1>4 DEF RestInv, CycleInv
  <1> QED BY <1>3, <1>5 DEF RestInv

\* process_events: a removal is decided when nothing is left to report.
LEMMA ProcessKeepsRest ==
    ASSUME StreamTypeOK, StreamTypeOK', HandleInv, RestInv, Process, UNCHANGED <<use, stream>>
    PROVE  RestInv'
  <1> USE DEF RestInv
  <1>1. /\ UNCHANGED <<backend, senders, reported, polled>> /\ Open' = Open
        /\ TypeOK /\ TypeOK'
    BY SendersFrame DEF Process, Poll, SkipEvent, Drain, BeginReading, Read, ReadNothing,
                        ProcessPacket, CheckHandles, stream, StreamTypeOK
  <1>2. EndInv'
    <2>1. CASE polled = "no"
      BY <1>1, <2>1 DEF EndInv, Process, Poll, SkipEvent, Drain, BeginReading, Read, ReadNothing,
                        ProcessPacket, CheckHandles, cycle
    <2>2. CASE polled # "no"
      BY <1>1, <2>2 DEF EndInv, Process, Poll, SkipEvent, Drain, BeginReading, Read, ReadNothing,
                        ProcessPacket, CheckHandles, cycle
    <2> QED BY <2>1, <2>2
  <1>3. CASE Poll \/ SkipEvent
    <2>1. UNCHANGED <<place, post, file, notified, key>> /\ pc \in {"out", "ready"} /\ pc' \in {"out", "ready"}
      BY <1>3 DEF Poll, SkipEvent, iocp
    <2>2. post # "Remove"
      BY <2>1 DEF CycleInv
    <2> QED BY <1>1, <1>2, <2>1, <2>2 DEF FileInv, CycleInv, file
  <1>4. CASE Drain
    <2>1. fd \in Nat /\ fd' = 0 /\ UNCHANGED <<place, got, notified, key>> /\ place = "loop"
          /\ backend = "eventfd" /\ pc = "ready" /\ pc' \in {"callback", "return"} /\ got = 0
      BY <1>1, <1>4 DEF Drain, file, iocp, FileInv, TypeOK
    <2>2. FileInv'
      BY <1>1, <2>1 DEF FileInv
    <2>3. ~Pending'
      BY <1>1, <2>1, PendingIsNext
    <2>4. post' = "Remove" => ~Open
      BY <1>4, <2>1 DEF Drain, HasClose, FileInv
    <2>5. CycleInv'
      BY <1>1, <2>1, <2>3, <2>4 DEF CycleInv
    <2> QED BY <1>2, <2>2, <2>5
  <1>5. CASE BeginReading
    <2>1. UNCHANGED <<place, post, fd, notified, key>> /\ backend = "pipe" /\ place = "loop"
          /\ pc = "ready" /\ pc' = "reading" /\ post # "Remove"
      BY <1>5 DEF BeginReading, iocp, CycleInv
    <2> QED BY <1>1, <1>2, <2>1 DEF FileInv, CycleInv
  <1>6. CASE Read
    <2>1. UNCHANGED <<place, post, pc, notified, key>> /\ backend = "pipe" /\ pc = "reading" /\ post # "Remove"
      BY <1>6 DEF Read, iocp, cycle, CycleInv
    <2> QED BY <1>1, <1>2, <2>1 DEF FileInv, CycleInv
  <1>7. CASE ReadNothing
    <2>1. UNCHANGED <<place, fd, notified, key>> /\ fd = 0 /\ got' = 0 /\ backend = "pipe" /\ place = "loop"
          /\ pc = "reading" /\ pc' \in {"callback", "return"}
      BY <1>7 DEF ReadNothing, iocp, CycleInv
    <2>2. ~Pending'
      BY <1>1, <2>1, PendingIsNext
    <2>3. post' = "Remove" => ~Open
      BY <1>7 DEF ReadNothing
    <2> QED BY <1>1, <1>2, <2>1, <2>2, <2>3 DEF FileInv, CycleInv
  <1>8. CASE ProcessPacket
    <2>1. UNCHANGED <<place, fd, got, key>> /\ backend = "iocp" /\ pc = "ready" /\ post' # "Remove"
          /\ pc' \in {"callback", "check", "return"}
      BY <1>8 DEF ProcessPacket
    <2>2. pc' \in {"callback", "check"} => key # None /\ ~notified'
      BY <1>8 DEF ProcessPacket
    <2> QED BY <1>1, <1>2, <2>1, <2>2 DEF FileInv, CycleInv
  <1>9. CASE CheckHandles
    <2>1. UNCHANGED <<place, fd, got, notified, key>> /\ backend = "iocp" /\ pc = "check" /\ pc' = "return"
          /\ place = "loop" /\ ~notified
      BY <1>9 DEF CheckHandles, file, iocp, CycleInv
    <2>2. ~Pending'
      BY <1>1, <2>1, PendingIsNext
    <2>3. post' = "Remove" => ~Open
      BY <1>9, <2>1 DEF CheckHandles, HandleInv, Open
    <2> QED BY <1>1, <1>2, <2>1, <2>2, <2>3 DEF FileInv, CycleInv
  <1> QED BY <1>3, <1>4, <1>5, <1>6, <1>7, <1>8, <1>9 DEF Process

\* The callback ends, and the loop applies the post action.
LEMMA EndKeepsRest ==
    ASSUME StreamTypeOK, RestInv, EndPolling \/ StreamReturns
    PROVE  RestInv'
  <1> USE DEF RestInv
  <1>1. CASE EndPolling
    <2>1. /\ UNCHANGED <<backend, senders, place, post, fd, got, notified, key, reported, polled>>
          /\ pc = "callback" /\ pc' = IF backend = "iocp" THEN "check" ELSE "return"
      BY <1>1 DEF EndPolling, EndCallback, file, iocp, stream
    <2>2. Open' = Open /\ Pending' = Pending
      BY <2>1, SendersFrame, PendingFrame
    <2>3. post = "Remove" => backend # "iocp"
      BY <2>1 DEF CycleInv
    <2> QED BY <2>1, <2>2, <2>3 DEF FileInv, CycleInv, EndInv
  <1>2. CASE StreamReturns
    <2>1. /\ UNCHANGED <<backend, senders, fd, got, notified, reported>>
          /\ pc = "return" /\ pc' = "out" /\ post' = "Continue" /\ polled' = "no"
      BY <1>2 DEF StreamReturns, Returns, file
    <2>2. Open' = Open
      BY <2>1, SendersFrame
    <2>3. key' # None => place' = "loop"
      BY <1>2 DEF StreamReturns, Returns, Unregister, CycleInv
    <2>4. reported => place' = "ended"
      BY <1>2 DEF StreamReturns, Returns, Action, EndInv
    <2> QED BY <2>1, <2>2, <2>3, <2>4 DEF FileInv, CycleInv, EndInv
  <1> QED BY <1>1, <1>2

LEMMA PingInit == StreamInit => PingInv
  <1> SUFFICES ASSUME StreamInit PROVE PingInv
    OBVIOUS
  <1>1. PICK pinged \in BOOLEAN : InitWith(pinged)
    BY DEF StreamInit, PingedByNew
  <1>2. HandleInv
    BY <1>1 DEF InitWith, HandleInv, StreamInit
  <1>3. fd % 2 = 0 \/ backend # "eventfd"
    <2>1. fd \in {0, 2} \/ backend # "eventfd"
      BY <1>1 DEF InitWith, IncrementPing
    <2>2. 0 % 2 = 0 /\ 2 % 2 = 0
      OBVIOUS
    <2> QED BY <2>1, <2>2
  <1>4. RestInv
    BY <1>1, <1>3 DEF InitWith, RestInv, FileInv, CycleInv, EndInv, StreamInit
  <1> QED BY <1>2, <1>4 DEF PingInv

LEMMA PingStep == StreamTypeOK /\ PingInv /\ [StreamNext]_all => PingInv'
  <1> SUFFICES ASSUME StreamTypeOK, PingInv, [StreamNext]_all PROVE PingInv'
    OBVIOUS
  <1> USE DEF PingInv
  <1>1. HandleInv' /\ StreamTypeOK'
    BY HandleStepInv, TypeStep
  <1>2. CASE UNCHANGED all
    <2>1. Open' = Open /\ Pending' = Pending
      BY <1>2, SendersFrame, PendingFrame DEF all, vars, file, iocp
    <2> QED BY <1>1, <1>2, <2>1 DEF RestInv, FileInv, CycleInv, EndInv, all, vars, cycle, file, iocp, stream
  <1>3. ASSUME NEW w \in Threads, HandleStep(w) \/ ThreadStep(w), UNCHANGED <<use, stream>>
        PROVE  PingInv'
    BY <1>1, <1>3, HandlesKeepRest
  <1>4. CASE StreamStep \/ \E w \in Threads : Produce(w) \/ TakeWaker(w)
    BY <1>1, <1>4, StreamKeepsRest
  <1>5. CASE UserStep /\ UNCHANGED <<use, stream>>
    BY <1>1, <1>5, UserKeepsRest
  <1>6. CASE Process /\ UNCHANGED <<use, stream>>
    BY <1>1, <1>6, ProcessKeepsRest
  <1>7. CASE EndPolling \/ StreamReturns
    BY <1>1, <1>7, EndKeepsRest
  <1> QED BY <1>2, <1>3, <1>4, <1>5, <1>6, <1>7 DEF StreamNext, LoopStep

----------------------------------------------------------------------------
(* The refinement of PingSpec: each step is one of its actions, or a       *)
(* stutter.                                                                *)

\* Where PingSpec has the source.
Place == IF reported /\ place = "ended" THEN "gone" ELSE place

\* A step that changes nothing PingSpec sees.
LEMMA Stutters ==
    ASSUME Pending' = Pending, Open' = Open, UNCHANGED <<place, reported>>,
           pc' = pc \/ (pc # "callback" /\ pc' # "callback")
    PROVE  UNCHANGED Promise!vars
  BY DEF Promise!vars

LEMMA RefinesInit == StreamInit => Promise!Init
  <1> SUFFICES ASSUME StreamInit PROVE Promise!Init
    OBVIOUS
  <1>1. PICK pinged \in BOOLEAN : InitWith(pinged)
    BY DEF StreamInit, PingedByNew
  <1>2. Pending \in BOOLEAN
    BY TypeInit, PendingIs DEF StreamTypeOK
  <1>3. Open = TRUE
    BY <1>1 DEF InitWith, Open
  <1> QED BY <1>1, <1>2, <1>3 DEF InitWith, Promise!Init

\* A ping is recorded, at the cap of the eventfd and of the pipe too.
LEMMA SendIsPending ==
    ASSUME StreamTypeOK, StreamTypeOK', PingInv, NEW w \in Threads, Send(w)
    PROVE  Pending'
  <1>1. TypeOK /\ TypeOK' /\ backend' = backend
    BY DEF StreamTypeOK, Send
  <1>2. CASE backend = "eventfd"
    <2>1. Open
      BY HandlesAreOpen DEF ThreadStep, PingInv
    <2>2. fd % 2 = 0 /\ fd' = Written(2)
      BY <1>2, <2>1 DEF PingInv, RestInv, FileInv, Send, IncrementPing
    <2>3. fd' >= 2
      BY <1>1, <2>2, ConstantsAssumption DEF Written, TypeOK
    <2> QED BY <1>1, <1>2, <2>3, PendingIsNext
  <1>3. CASE backend = "pipe"
    <2>1. fd' = Written(1)
      BY <1>3 DEF Send, IncrementPing
    <2>2. fd' > 0
      BY <1>1, <2>1, ConstantsAssumption DEF Written, TypeOK
    <2> QED BY <1>1, <1>3, <2>2, PendingIsNext
  <1>4. CASE backend = "iocp"
    BY <1>1, <1>4, PendingIsNext DEF Send
  <1> QED BY <1>1, <1>2, <1>3, <1>4, PendingIs

\* The handles: Send is a Ping, the last Close a Close.
LEMMA HandlesRefine ==
    ASSUME StreamTypeOK, StreamTypeOK', PingInv, NEW w \in Threads,
           HandleStep(w) \/ ThreadStep(w), UNCHANGED <<use, stream>>
    PROVE  [Promise!Next]_(Promise!vars)
  <1> USE DEF PingInv
  <1>1. Open /\ TypeOK /\ TypeOK'
    BY HandlesAreOpen DEF StreamTypeOK
  <1>2. UNCHANGED <<backend, place, pc, reported>>
    BY DEF HandleStep, ThreadStep, BeginPing, Drop, Clone, Send, DropNotifies, Close,
           cycle, stream
  <1>3. CASE HandleStep(w) \/ DropNotifies(w)
    <2>1. UNCHANGED <<fd, got, notified>>
      BY <1>3 DEF HandleStep, BeginPing, Drop, Clone, DropNotifies, file, iocp
    <2>2. Open'
      <3>1. CASE BeginPing(w)
        BY <1>1, <3>1, OpenFrame DEF BeginPing, MayCall
      <3>2. CASE Drop(w)
        BY <3>2 DEF Drop, Moves, Open, StreamTypeOK, TypeOK
      <3>3. CASE \E v \in Threads : Clone(w, v)
        BY <3>3 DEF Clone, Open
      <3>4. CASE DropNotifies(w)
        BY <3>4 DEF DropNotifies, Moves, Open, StreamTypeOK, TypeOK
      <3> QED BY <1>3, <3>1, <3>2, <3>3, <3>4 DEF HandleStep
    <2> QED BY <1>1, <1>2, <2>1, <2>2, PendingFrame, Stutters
  <1>4. CASE Send(w)
    <2>1. Open' = Open
      BY <1>4, OpenFrame DEF Send
    <2>2. Pending'
      BY <1>4, SendIsPending
    <2>3. Pending' = TRUE
      BY <1>1, <2>2, PendingIsNext
    <2>4. Promise!Ping
      BY <1>1, <1>2, <2>1, <2>3 DEF Promise!Ping
    <2> QED BY <2>4 DEF Promise!Next
  <1>5. CASE Close(w)
    <2>1. UNCHANGED <<got, notified>>
      BY <1>5 DEF Close, iocp
    <2>2. Pending' = Pending
      <3>1. CASE backend = "eventfd"
        <4>1. fd % 2 = 0 /\ fd' \in {fd, fd + 1} /\ fd \in Nat
          BY <1>1, <1>5, <3>1 DEF RestInv, FileInv, Close, IncrementClose, Written, TypeOK
        <4>2. fd' >= 2 <=> fd >= 2
          BY <4>1
        <4> QED BY <1>1, <1>2, <3>1, <4>2, PendingIs, PendingIsNext
      <3>2. CASE backend # "eventfd"
        BY <1>2, <1>5, <2>1, <3>2, PendingFrame DEF Close
      <3> QED BY <3>1, <3>2
    <2>3. Open' \in BOOLEAN
      BY DEF Open
    <2>4. CASE Open'
      BY <1>1, <1>2, <2>2, <2>4, Stutters
    <2>5. CASE ~Open'
      <3>1. Promise!Close
        BY <1>2, <2>2, <2>5 DEF Promise!Close
      <3> QED BY <3>1 DEF Promise!Next
    <2> QED BY <2>4, <2>5
  <1> QED BY <1>3, <1>4, <1>5 DEF ThreadStep

\* The stream and its producers: nothing that PingSpec sees.
LEMMA StreamRefines ==
    ASSUME StreamTypeOK, PingInv, StreamStep \/ \E w \in Threads : Produce(w) \/ TakeWaker(w)
    PROVE  UNCHANGED Promise!vars
  <1> USE DEF PingInv
  <1>1. Open /\ Open' /\ UNCHANGED <<backend, handles, cycle, file, iocp, use>>
    BY StreamKeepsRest
  <1>2. Pending' = Pending
    BY <1>1, PendingFrame DEF file, iocp
  <1>3. Place' = Place
    <2>1. CASE StreamStep
      <3>1. place = "loop"
        BY <2>1 DEF StreamStep, PollItem, PollEnd, PollPending, PollYields, Polls, RestInv, CycleInv
      <3> QED BY <1>1, <3>1 DEF Place, cycle
    <2>2. CASE \E w \in Threads : Produce(w) \/ TakeWaker(w)
      BY <1>1, <2>2 DEF Produce, TakeWaker, Place, cycle
    <2> QED BY <2>1, <2>2
  <1> QED BY <1>1, <1>2, <1>3 DEF Promise!vars, Place, cycle

\* The user: the same steps.
LEMMA UserRefines ==
    ASSUME StreamTypeOK, PingInv, UserStep, UNCHANGED <<use, stream>>
    PROVE  [Promise!Next]_(Promise!vars)
  <1>1. UNCHANGED <<backend, senders, pc, fd, got, notified, reported>>
    BY DEF UserStep, Enable, Update, Leave, file, cycle, stream
  <1>2. Open' = Open /\ Pending' = Pending
    BY <1>1, SendersFrame, PendingFrame
  <1>3. CASE Enable
    <2>1. place \in {"user", "disabled"} /\ place' = "loop"
      BY <1>3 DEF Enable
    <2>2. Promise!Insert \/ Promise!Enable
      BY <1>1, <1>2, <2>1 DEF Promise!Insert, Promise!Enable, Promise!Moves
    <2> QED BY <2>2 DEF Promise!Next
  <1>4. CASE \E k \in Keys : Update(k)
    BY <1>1, <1>2, <1>4, Stutters DEF Update, cycle
  <1>5. CASE Leave("disabled")
    <2>1. place = "loop" /\ place' = "disabled"
      BY <1>5 DEF Leave
    <2>2. Promise!Disable
      BY <1>1, <1>2, <2>1 DEF Promise!Disable, Promise!Moves
    <2> QED BY <2>2 DEF Promise!Next
  <1>6. CASE Leave("gone")
    <2>1. place \in {"loop", "disabled"} /\ place' = "gone"
      BY <1>6 DEF Leave
    <2>2. Promise!Remove
      BY <1>1, <1>2, <2>1 DEF Promise!Remove, Promise!Moves
    <2> QED BY <2>2 DEF Promise!Next
  <1> QED BY <1>3, <1>4, <1>5, <1>6 DEF UserStep

\* process_events: whatever takes the record of a ping goes on to the callback.
LEMMA ProcessRefines ==
    ASSUME StreamTypeOK, StreamTypeOK', PingInv, Process, UNCHANGED <<use, stream>>
    PROVE  [Promise!Next]_(Promise!vars)
  <1> USE DEF PingInv, RestInv
  <1>1. /\ UNCHANGED <<backend, senders, place, reported>> /\ Open' = Open /\ TypeOK /\ TypeOK'
        /\ Pending \in BOOLEAN
    BY SendersFrame, PendingIs
       DEF Process, Poll, SkipEvent, Drain, BeginReading, Read, ReadNothing,
           ProcessPacket, CheckHandles, cycle, stream, StreamTypeOK
  \* Nothing was pending, or it goes to the callback.
  <1>2. ASSUME Pending' = Pending, pc # "callback", pc' # "callback"
        PROVE  UNCHANGED Promise!vars
    BY <1>1, <1>2, Stutters
  <1>3. ASSUME Pending, ~Pending', pc # "callback", pc' = "callback", place = "loop"
        PROVE  Promise!Next
    <2>1. Promise!Callback
      BY <1>1, <1>3 DEF Promise!Callback
    <2> QED BY <2>1 DEF Promise!Next
  <1>4. ~Pending /\ ~Pending' => Pending' = Pending
    BY <1>1, PendingIsNext
  <1>5. CASE Poll \/ SkipEvent \/ CheckHandles
    <2>1. UNCHANGED <<fd, got, notified>> /\ pc # "callback" /\ pc' # "callback"
      BY <1>5 DEF Poll, SkipEvent, CheckHandles, file, iocp
    <2> QED BY <1>1, <1>2, <2>1, PendingFrame
  <1>6. CASE Drain
    <2>1. backend = "eventfd" /\ fd' = 0 /\ pc = "ready" /\ place = "loop"
          /\ pc' = IF fd >= 2 THEN "callback" ELSE "return"
      BY <1>6 DEF Drain, HasPing
    <2>2. ~Pending' /\ (Pending <=> fd >= 2)
      BY <1>1, <2>1, PendingIs, PendingIsNext
    <2> QED BY <1>2, <1>3, <1>4, <2>1, <2>2
  <1>7. CASE BeginReading
    <2>1. UNCHANGED <<fd, notified>> /\ got' = 0 /\ got = 0 /\ pc = "ready" /\ pc' = "reading"
      BY <1>7 DEF BeginReading, iocp, FileInv
    <2> QED BY <1>1, <1>2, <2>1, PendingFrame
  <1>8. CASE Read
    <2>1. backend = "pipe" /\ fd > 0 /\ got' = 1 /\ pc = "reading" /\ pc' = "reading"
      BY <1>8 DEF Read, cycle, CycleInv
    <2>2. Pending /\ Pending'
      BY <1>1, <2>1, PendingIs, PendingIsNext
    <2>3. Pending' = Pending
      BY <1>1, <2>2, PendingIsNext
    <2> QED BY <1>2, <2>1, <2>3
  <1>9. CASE ReadNothing
    <2>1. backend = "pipe" /\ fd = 0 /\ fd' = 0 /\ got' = 0 /\ pc = "reading" /\ place = "loop"
          /\ pc' = IF got > 0 THEN "callback" ELSE "return"
      BY <1>9 DEF ReadNothing, CycleInv
    <2>2. ~Pending' /\ (Pending <=> got > 0)
      BY <1>1, <2>1, PendingIs, PendingIsNext
    <2> QED BY <1>2, <1>3, <1>4, <2>1, <2>2
  <1>10. CASE ProcessPacket
    <2>1. backend = "iocp" /\ pc = "ready" /\ (Pending <=> notified) /\ (Pending' <=> notified')
      BY <1>1, <1>10, PendingIs, PendingIsNext DEF ProcessPacket
    <2>2. CASE key = None \/ event # key
      <3>1. (notified' <=> notified) /\ pc' # "callback"
        BY <1>10, <2>2 DEF ProcessPacket
      <3>2. Pending' = Pending
        BY <1>1, <2>1, <3>1, PendingIsNext
      <3> QED BY <1>2, <2>1, <3>1, <3>2
    <2>3. CASE key # None /\ event = key
      <3>1. ~notified' /\ (pc' = IF notified THEN "callback" ELSE "check") /\ place = "loop"
        BY <1>10, <2>3 DEF ProcessPacket, CycleInv
      <3> QED BY <1>2, <1>3, <1>4, <2>1, <3>1
    <2> QED BY <2>2, <2>3
  <1> QED BY <1>5, <1>6, <1>7, <1>8, <1>9, <1>10 DEF Process

\* The callback returns; a source that removes itself has nothing left, or the
\* stream has ended.
LEMMA EndRefines ==
    ASSUME StreamTypeOK, PingInv, EndPolling \/ StreamReturns
    PROVE  [Promise!Next]_(Promise!vars)
  <1> USE DEF PingInv, RestInv
  <1>1. UNCHANGED <<backend, senders, fd, got, notified, reported>>
    BY DEF EndPolling, EndCallback, StreamReturns, Returns, file, iocp, stream
  <1>2. Open' = Open /\ Pending' = Pending
    BY <1>1, SendersFrame, PendingFrame
  <1>3. CASE EndPolling
    <2>1. pc = "callback" /\ pc' # "callback" /\ place' = place
      BY <1>3 DEF EndPolling, EndCallback
    <2>2. Promise!Return
      BY <1>1, <1>2, <2>1 DEF Promise!Return
    <2> QED BY <2>2 DEF Promise!Next
  <1>4. CASE StreamReturns
    <2>1. pc = "return" /\ pc' = "out" /\ place' \in {place, "ended"}
      BY <1>4 DEF StreamReturns, Returns
    <2>2. CASE place' = place
      BY <1>1, <1>2, <2>1, <2>2, Stutters
    <2>3. CASE place' # place
      <3>1. Action(post) = "Remove" /\ place' = "ended"
        BY <1>4, <2>3 DEF StreamReturns, Returns
      <3>2. CASE polled = "end"
        <4>1. reported /\ place = "loop"
          BY <3>2 DEF EndInv
        <4>2. Promise!Remove
          BY <1>1, <1>2, <2>1, <3>1, <4>1 DEF Promise!Remove, Promise!Moves
        <4> QED BY <4>2 DEF Promise!Next
      <3>3. CASE polled # "end"
        <4>1. ~Open /\ ~Pending /\ place = "loop" /\ ~reported
          BY <3>1, <3>3 DEF Action, CycleInv, EndInv
        <4>2. Promise!End
          BY <1>1, <1>2, <2>1, <3>1, <4>1 DEF Promise!End
        <4> QED BY <4>2 DEF Promise!Next
      <3> QED BY <3>2, <3>3
    <2> QED BY <2>2, <2>3
  <1> QED BY <1>3, <1>4

LEMMA RefinesStep ==
    StreamTypeOK /\ PingInv /\ [StreamNext]_all => [Promise!Next]_(Promise!vars)
  <1> SUFFICES ASSUME StreamTypeOK, PingInv, [StreamNext]_all
               PROVE  [Promise!Next]_(Promise!vars)
    OBVIOUS
  <1>1. StreamTypeOK'
    BY TypeStep
  <1>2. CASE UNCHANGED all
    BY <1>2, SendersFrame, PendingFrame, Stutters DEF all, vars, cycle, file, iocp, stream
  <1>3. ASSUME NEW w \in Threads, HandleStep(w) \/ ThreadStep(w), UNCHANGED <<use, stream>>
        PROVE  [Promise!Next]_(Promise!vars)
    BY <1>1, <1>3, HandlesRefine
  <1>4. CASE StreamStep \/ \E w \in Threads : Produce(w) \/ TakeWaker(w)
    BY <1>4, StreamRefines
  <1>5. CASE UserStep /\ UNCHANGED <<use, stream>>
    BY <1>5, UserRefines
  <1>6. CASE Process /\ UNCHANGED <<use, stream>>
    BY <1>1, <1>6, ProcessRefines
  <1>7. CASE EndPolling \/ StreamReturns
    BY <1>7, EndRefines
  <1> QED BY <1>2, <1>3, <1>4, <1>5, <1>6, <1>7 DEF StreamNext, LoopStep

\* The eventfd, the pipe and the completion port each keep what PingSpec promises:
\* no ping is forgotten or reported twice, and the source removes itself only when
\* every handle is gone and nothing is left to report.
THEOREM ImplementsPing == StreamSpec => RefinesPing
  <1>1. StreamSpec => []StreamTypeOK /\ []PingInv
    BY TypeInit, TypeStep, PingInit, PingStep, PTL DEF StreamSpec
  <1>2. StreamSpec => Promise!Init /\ [][Promise!Next]_(Promise!vars)
    BY <1>1, RefinesInit, RefinesStep, PTL DEF StreamSpec
  <1> QED BY <1>2 DEF RefinesPing, Promise!Spec

----------------------------------------------------------------------------
(* The items of a stream.                                                  *)

\* The loop knows, or is told, that it has to poll the stream.
Told == Pending \/ (pc = "callback" /\ polled = "no") \/ \E w \in Threads : at[w] = "ping"

LEMMA WakerInit == StreamInit => WakerInv
  <1> SUFFICES ASSUME StreamInit, use = "stream" PROVE Pending
    BY DEF WakerInv
  <1>1. InitWith(TRUE) /\ TypeOK
    BY TypeInit DEF StreamInit, PingedByNew, StreamTypeOK
  <1>2. backend = "eventfd" => fd = 2
    BY <1>1 DEF InitWith, IncrementPing
  <1>3. backend = "pipe" => fd = 1
    BY <1>1 DEF InitWith, IncrementPing
  <1>4. backend = "iocp" => notified
    BY <1>1 DEF InitWith
  <1> QED BY <1>1, <1>2, <1>3, <1>4, PendingIs

LEMMA WakerStep == StreamTypeOK /\ PingInv /\ WakerInv /\ [StreamNext]_all => WakerInv'
  <1> SUFFICES ASSUME StreamTypeOK, PingInv, WakerInv, [StreamNext]_all,
                      use' = "stream", ~reported', place' \notin {"gone", "ended"}
               PROVE  Told' \/ (stored' /\ (items' > 0 \/ ended' => \E w \in Threads : at'[w] = "wake"))
    BY DEF WakerInv, Told
  <1> DEFINE Waits == stored /\ (items > 0 \/ ended => \E w \in Threads : at[w] = "wake")
  <1>1. /\ StreamTypeOK' /\ TypeOK /\ TypeOK' /\ use' = use /\ ~reported
        /\ place \notin {"gone", "ended"}
    <2>1. UNCHANGED use
      BY DEF StreamNext, Produce, TakeWaker, StreamStep, PollItem, PollEnd, PollPending,
             PollYields, LoopStep, EndPolling, StreamReturns, all
    <2>2. ~reported
      BY DEF StreamNext, Produce, TakeWaker, StreamStep, PollItem, PollEnd, PollPending,
             PollYields, LoopStep, EndPolling, StreamReturns, all, stream
    <2>3. place \notin {"gone", "ended"}
      <3>1. [Promise!Next]_(Promise!vars)
        BY RefinesStep
      <3>2. Place \notin {"gone", "ended"} \/ Place' \in {"gone", "ended"}
        BY <3>1 DEF Promise!Next, Promise!vars, Promise!Ping, Promise!Close, Promise!Callback,
                    Promise!Return, Promise!End, Promise!Insert, Promise!Enable,
                    Promise!Disable, Promise!Remove, Promise!Moves, Place
      <3> QED BY <2>2, <3>2 DEF Place
    <2> QED BY <2>1, <2>2, <2>3, TypeStep DEF StreamTypeOK
  <1>2. Told \/ Waits
    BY <1>1 DEF WakerInv, Told
  <1>3. ASSUME UNCHANGED <<at, stream>>, Told => Told'
        PROVE  Told' \/ Waits'
    BY <1>2, <1>3 DEF stream
  <1>4. ASSUME UNCHANGED <<backend, fd, got, notified, pc, polled>>, pc # "callback" \/ polled # "no",
               UNCHANGED at
        PROVE  Told => Told'
    BY <1>4, PendingFrame DEF Told
  <1>5. CASE UNCHANGED all
    BY <1>2, <1>5, PendingFrame DEF Told, all, vars, senders, cycle, file, iocp, stream
  <1>6. ASSUME NEW w \in Threads, ThreadStep(w), UNCHANGED <<use, stream>>
        PROVE  Told'
    <2>1. Send(w)
      BY <1>1, <1>6 DEF PingInv, HandleInv, ThreadStep, DropNotifies, Close
    <2> QED BY <1>1, <2>1, SendIsPending DEF Told
  <1>7. ASSUME NEW w \in Threads, Produce(w)
        PROVE  Told' \/ Waits'
    <2>1. Told => Told'
      BY <1>7, PendingFrame DEF Produce, Moves, Told, TypeOK, cycle, file, iocp
    <2>2. at'[w] = "wake" /\ stored' = stored
      BY <1>1, <1>7 DEF Produce, Moves, TypeOK
    <2> QED BY <1>2, <2>1, <2>2
  <1>8. ASSUME NEW w \in Threads, TakeWaker(w)
        PROVE  Told' \/ Waits'
    <2>1. CASE stored
      <3>1. at'[w] = "ping"
        BY <1>1, <1>8, <2>1 DEF TakeWaker, Moves, TypeOK
      <3> QED BY <3>1 DEF Told
    <2>2. CASE ~stored
      <3>1. Told
        BY <1>2, <2>2
      <3>2. Told'
        BY <1>1, <1>8, <3>1, PendingFrame DEF TakeWaker, Moves, Told, TypeOK, cycle, file, iocp
      <3> QED BY <3>2
    <2> QED BY <2>1, <2>2
  <1>9. CASE UserStep /\ UNCHANGED <<use, stream>>
    <2>1. UNCHANGED <<backend, senders, pc, fd, got, notified>> /\ pc # "callback"
      BY <1>9 DEF UserStep, Enable, Update, Leave, UserCode, file, cycle
    <2> QED BY <1>3, <1>4, <1>9, <2>1 DEF senders, stream
  <1>10. CASE StreamStep
    <2>1. CASE PollItem
      BY <2>1, PendingFrame DEF PollItem, Polls, Told, vars, cycle
    <2>2. CASE PollEnd
      BY <1>1, <2>2 DEF PollEnd
    <2>3. CASE PollPending
      BY <2>3, <1>1 DEF PollPending, StreamTypeOK, vars
    <2>4. CASE PollYields
      <3>1. at'[Main] = "ping" /\ Main \in Threads
        BY <1>1, <2>4, ConstantsAssumption DEF PollYields, Moves, TypeOK
      <3> QED BY <3>1 DEF Told
    <2> QED BY <1>10, <2>1, <2>2, <2>3, <2>4 DEF StreamStep
  <1>11. CASE Process /\ UNCHANGED <<use, stream>>
    <2>1. UNCHANGED <<at, polled>> /\ pc # "callback"
      BY <1>11 DEF Process, Poll, SkipEvent, Drain, BeginReading, Read, ReadNothing,
                   ProcessPacket, CheckHandles, senders, stream
    <2>2. pc' = "callback" => polled = "no"
      BY <1>11 DEF Process, Poll, SkipEvent, Drain, BeginReading, Read, ReadNothing,
                   ProcessPacket, CheckHandles, cycle, PingInv, RestInv, EndInv, CycleInv
    <2>3. Pending => Pending' \/ pc' = "callback"
      <3>1. [Promise!Next]_(Promise!vars)
        BY <1>1, <1>11, ProcessRefines
      <3> QED BY <3>1 DEF Promise!Next, Promise!vars, Promise!Ping, Promise!Close, Promise!Callback,
                          Promise!Return, Promise!End, Promise!Insert, Promise!Enable,
                          Promise!Disable, Promise!Remove, Promise!Moves
    <2> QED BY <1>3, <1>11, <2>1, <2>2, <2>3 DEF Told
  <1>12. CASE EndPolling
    <2>1. UNCHANGED <<backend, senders, fd, got, notified, stream>> /\ polled # "no"
      BY <1>1, <1>12 DEF EndPolling, EndCallback, file, iocp
    <2> QED BY <1>3, <2>1, PendingFrame DEF Told, senders
  <1>13. CASE StreamReturns
    <2>1. /\ UNCHANGED <<backend, senders, fd, got, notified, items, ended, stored>>
          /\ pc = "return"
      BY <1>13 DEF StreamReturns, Returns, file
    <2> QED BY <1>2, <2>1, PendingFrame DEF Told, senders
  <1> QED BY <1>1, <1>5, <1>6, <1>7, <1>8, <1>9, <1>10, <1>11, <1>12, <1>13 DEF StreamNext, LoopStep

LEMMA DrainedStep == StreamTypeOK /\ DrainedInv /\ [StreamNext]_all => DrainedInv'
  <1> SUFFICES ASSUME StreamTypeOK, DrainedInv, [StreamNext]_all PROVE DrainedInv'
    OBVIOUS
  <1> USE DEF DrainedInv
  <1>1. CASE UNCHANGED <<items, ended, reported>>
    BY <1>1
  <1>2. ASSUME NEW w \in Threads, Produce(w) \/ TakeWaker(w) PROVE DrainedInv'
    BY <1>2 DEF Produce, TakeWaker
  <1>3. CASE PollItem
    BY <1>3 DEF PollItem, StreamTypeOK
  <1>4. CASE PollEnd
    BY <1>4 DEF PollEnd
  <1>5. CASE PollPending \/ PollYields
    BY <1>5 DEF PollPending, PollYields
  <1> QED BY <1>1, <1>2, <1>3, <1>4, <1>5 DEF StreamStep, StreamNext, LoopStep, EndPolling, StreamReturns, all, stream

\* An item of a stream, or its end, does not sleep: as long as the source is there,
\* the loop knows of it or is being told (the first ping, a waker, a wake-up).
THEOREM NoItemSleeps == StreamSpec => []ItemsAreAnnounced
  <1>1. StreamTypeOK /\ DrainedInv /\ WakerInv => ItemsAreAnnounced
    <2> SUFFICES ASSUME StreamTypeOK, DrainedInv, WakerInv, use = "stream",
                        items > 0 \/ (ended /\ ~reported), place \notin {"gone", "ended"}
                 PROVE  \/ Pending
                        \/ pc = "callback" /\ polled = "no"
                        \/ \E w \in Threads : at[w] = "ping" \/ (at[w] = "wake" /\ stored)
      BY DEF ItemsAreAnnounced
    <2>1. ~reported
      BY DEF DrainedInv, StreamTypeOK
    <2> QED BY <2>1 DEF WakerInv
  <1>2. StreamInit => DrainedInv
    BY DEF StreamInit, DrainedInv
  <1> QED BY <1>1, <1>2, TypeInit, TypeStep, PingInit, PingStep, WakerInit, WakerStep, DrainedStep, PTL
          DEF StreamSpec

============================================================================
