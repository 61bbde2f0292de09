-------------------------- MODULE RunLoop_proofs --------------------------
(***************************************************************************)
(* Proofs about RunLoop, for any number of threads, idles and pieces of    *)
(* work.                                                                   *)
(***************************************************************************)
EXTENDS RunLoop, SequenceTheorems, TLAPS

----------------------------------------------------------------------------
\* Lists of idles: what is waiting is what is in one of the two.

LEMMA ContainsConcat ==
    ASSUME NEW S, NEW q \in Seq(S), NEW r \in Seq(S), NEW e
    PROVE  Contains(q \o r, e) <=> Contains(q, e) \/ Contains(r, e)
  <1>1. /\ Len(q) \in Nat /\ Len(r) \in Nat
        /\ q \o r \in Seq(S) /\ Len(q \o r) = Len(q) + Len(r)
        /\ \A k \in 1 .. Len(q) + Len(r) :
              (q \o r)[k] = IF k <= Len(q) THEN q[k] ELSE r[k - Len(q)]
    BY LenProperties, ConcatProperties
  <1>2. ASSUME NEW k \in 1 .. Len(r), r[k] = e
        PROVE  Contains(q \o r, e)
    <2>1. Len(q) + k \in 1 .. Len(q \o r) /\ (q \o r)[Len(q) + k] = r[k]
      BY <1>1
    <2> QED BY <1>2, <2>1 DEF Contains
  <1>3. ASSUME NEW k \in 1 .. Len(q), q[k] = e
        PROVE  Contains(q \o r, e)
    <2>1. k \in 1 .. Len(q \o r) /\ (q \o r)[k] = q[k]
      BY <1>1
    <2> QED BY <1>3, <2>1 DEF Contains
  <1>4. ASSUME NEW j \in 1 .. Len(q \o r), (q \o r)[j] = e
        PROVE  Contains(q, e) \/ Contains(r, e)
    <2>1. CASE j <= Len(q)
      BY <1>1, <1>4, <2>1 DEF Contains
    <2>2. CASE ~(j <= Len(q))
      <3>1. j - Len(q) \in 1 .. Len(r) /\ r[j - Len(q)] = e
        BY <1>1, <1>4, <2>2
      <3> QED BY <3>1 DEF Contains
    <2> QED BY <2>1, <2>2
  <1> QED BY <1>2, <1>3, <1>4 DEF Contains

\* A queue is its head and its tail.
LEMMA ContainsHeadTail ==
    ASSUME NEW S, NEW q \in Seq(S), q # <<>>, NEW e
    PROVE  Contains(q, e) <=> e = Head(q) \/ Contains(Tail(q), e)
  <1>1. /\ Len(q) \in Nat \ {0} /\ Len(Tail(q)) = Len(q) - 1
        /\ Head(q) = q[1]
        /\ \A k \in 1 .. Len(Tail(q)) : Tail(q)[k] = q[k + 1]
    BY EmptySeq, HeadTailProperties
  <1>2. ASSUME NEW k \in 1 .. Len(q), q[k] = e, k # 1
        PROVE  Contains(Tail(q), e)
    <2>1. k - 1 \in 1 .. Len(Tail(q)) /\ Tail(q)[k - 1] = e
      BY <1>1, <1>2
    <2> QED BY <2>1 DEF Contains
  <1>3. ASSUME NEW j \in 1 .. Len(Tail(q)), Tail(q)[j] = e
        PROVE  Contains(q, e)
    <2>1. j + 1 \in 1 .. Len(q) /\ q[j + 1] = e
      BY <1>1, <1>3
    <2> QED BY <2>1 DEF Contains
  <1> QED BY <1>1, <1>2, <1>3 DEF Contains

LEMMA ContainsAppend ==
    ASSUME NEW S, NEW q \in Seq(S), NEW e \in S, NEW f
    PROVE  Contains(Append(q, e), f) <=> f = e \/ Contains(q, f)
  <1>1. /\ Len(q) \in Nat /\ Len(Append(q, e)) = Len(q) + 1
        /\ \A k \in 1 .. Len(q) : Append(q, e)[k] = q[k]
        /\ Append(q, e)[Len(q) + 1] = e
    BY LenProperties, AppendProperties
  <1>2. 1 .. Len(Append(q, e)) = (1 .. Len(q)) \cup {Len(q) + 1}
    BY <1>1
  <1> QED BY <1>1, <1>2 DEF Contains

\* The elements of Seq(S) as a set, and what keeps them distinct.
LEMMA ToSetContains ==
    ASSUME NEW S, NEW q \in Seq(S), NEW e
    PROVE  e \in ToSet(q) <=> Contains(q, e)
  BY LenProperties DEF ToSet, Contains

LEMMA InjectiveAppend ==
    ASSUME NEW S, NEW q \in Seq(S), NEW e \in S, IsInjective(q), ~Contains(q, e)
    PROVE  IsInjective(Append(q, e))
  <1>1. /\ Len(q) \in Nat /\ DOMAIN q = 1 .. Len(q)
        /\ Append(q, e) \in Seq(S) /\ Len(Append(q, e)) = Len(q) + 1
        /\ \A k \in 1 .. Len(q) : Append(q, e)[k] = q[k]
        /\ Append(q, e)[Len(q) + 1] = e
    BY LenProperties, AppendProperties
  <1>2. DOMAIN Append(q, e) = (1 .. Len(q)) \cup {Len(q) + 1}
    BY <1>1, LenProperties
  <1>3. \A k \in 1 .. Len(q) : q[k] # e
    BY DEF Contains
  <1> QED BY <1>1, <1>2, <1>3 DEF IsInjective

LEMMA InjectiveTail ==
    ASSUME NEW S, NEW q \in Seq(S), q # <<>>, IsInjective(q)
    PROVE  IsInjective(Tail(q)) /\ ~Contains(Tail(q), Head(q))
  <1>1. /\ Len(q) \in Nat \ {0} /\ DOMAIN q = 1 .. Len(q)
        /\ Tail(q) \in Seq(S) /\ Len(Tail(q)) = Len(q) - 1
        /\ Head(q) = q[1]
        /\ \A k \in 1 .. Len(Tail(q)) : Tail(q)[k] = q[k + 1]
    BY EmptySeq, LenProperties, HeadTailProperties
  <1>2. DOMAIN Tail(q) = 1 .. Len(q) - 1
    BY <1>1, LenProperties
  <1>3. \A k \in 1 .. Len(q) - 1 : k + 1 \in DOMAIN q /\ k + 1 # 1
    BY <1>1
  <1>4. 1 \in DOMAIN q
    BY <1>1
  <1>5. \A j, k \in 1 .. Len(q) - 1 : j + 1 = k + 1 => j = k
    BY <1>1
  <1> QED BY <1>1, <1>2, <1>3, <1>4, <1>5 DEF IsInjective, Contains

LEMMA TailConcat ==
    ASSUME NEW S, NEW q \in Seq(S), NEW r \in Seq(S), q # <<>>
    PROVE  /\ q \o r \in Seq(S) /\ q \o r # <<>>
           /\ Head(q \o r) = Head(q) /\ Tail(q \o r) = Tail(q) \o r
  <1>1. /\ Len(q) \in Nat \ {0} /\ Len(r) \in Nat
        /\ q \o r \in Seq(S) /\ Len(q \o r) = Len(q) + Len(r)
        /\ \A k \in 1 .. Len(q) + Len(r) :
              (q \o r)[k] = IF k <= Len(q) THEN q[k] ELSE r[k - Len(q)]
    BY EmptySeq, LenProperties, ConcatProperties
  <1>2. q \o r # <<>>
    BY <1>1, EmptySeq
  <1>3. Head(q \o r) = Head(q)
    BY <1>1
  <1>4. /\ Tail(q) \in Seq(S) /\ Len(Tail(q)) = Len(q) - 1
        /\ \A k \in 1 .. Len(q) - 1 : Tail(q)[k] = q[k + 1]
        /\ Tail(q \o r) \in Seq(S) /\ Len(Tail(q \o r)) = Len(q) + Len(r) - 1
        /\ \A k \in 1 .. Len(q) + Len(r) - 1 : Tail(q \o r)[k] = (q \o r)[k + 1]
    BY <1>1, <1>2, HeadTailProperties
  <1>5. /\ Tail(q) \o r \in Seq(S) /\ Len(Tail(q) \o r) = Len(q) - 1 + Len(r)
        /\ \A k \in 1 .. Len(q) - 1 + Len(r) :
              (Tail(q) \o r)[k] = IF k <= Len(q) - 1 THEN Tail(q)[k] ELSE r[k - (Len(q) - 1)]
    BY <1>1, <1>4, ConcatProperties
  <1>6. ASSUME NEW k \in 1 .. Len(q) + Len(r) - 1
        PROVE  Tail(q \o r)[k] = (Tail(q) \o r)[k]
    <2>1. k + 1 \in 1 .. Len(q) + Len(r) /\ k + 1 - Len(q) = k - (Len(q) - 1)
      BY <1>1
    <2> QED BY <1>1, <1>4, <1>5, <2>1
  <1> QED BY <1>1, <1>2, <1>3, <1>4, <1>5, <1>6, SeqEqual

LEMMA AppendConcat ==
    ASSUME NEW S, NEW q \in Seq(S), NEW r \in Seq(S), NEW e \in S
    PROVE  q \o Append(r, e) = Append(q \o r, e)
  <1>1. <<e>> \in Seq(S) /\ Append(r, e) = r \o <<e>>
    BY AppendIsConcat
  <1>2. q \o r \in Seq(S)
    BY ConcatProperties
  <1> QED BY <1>1, <1>2, AppendIsConcat, ConcatAssociative

----------------------------------------------------------------------------
\* Types.  The idles that wait, batch \o idles, are distinct, and only idles
\* that wait are marked cancelled.

\* The types of what is not a list of idles, and the idles' part of the type.
FlagsOK ==
    /\ call \in Calls /\ timed \in BOOLEAN /\ pc \in Phases
    /\ stop \in BOOLEAN /\ future_ready \in BOOLEAN /\ notified \in BOOLEAN
    /\ done \in 0 .. Work /\ registered \in BOOLEAN
    /\ wpc \in [Wakers -> {"no", "store", "notify"}]
    /\ asked \in {"no", "stop", "wakeup"}

IdlesOK ==
    /\ idles \in Seq(Idles) /\ batch \in Seq(Idles) /\ IsInjective(batch \o idles)
    /\ cancelled \subseteq ToSet(batch \o idles)

LEMMA TypeSplit == TypeOK <=> FlagsOK /\ IdlesOK
  BY DEF TypeOK, FlagsOK, IdlesOK

LEMMA TypeInit == Init => FlagsOK /\ IdlesOK
  <1> SUFFICES ASSUME Init PROVE FlagsOK /\ IdlesOK
    OBVIOUS
  <1>1. <<>> \in Seq(Idles) /\ <<>> \o <<>> = <<>>
    BY EmptySeq, ConcatEmptySeq
  <1>2. IsInjective(<<>>)
    BY DEF IsInjective
  <1>3. IdlesOK
    BY <1>1, <1>2 DEF Init, IdlesOK
  <1>4. 0 \in 0 .. Work
    BY ConstantsAssumption
  <1>5. FlagsOK
    BY <1>4 DEF Init, FlagsOK, Calls, Phases
  <1> QED BY <1>3, <1>5

\* dispatch_idles takes the list when the last batch has been called.
BatchTaken == pc \notin {"idles", "idle"} => batch = <<>>

LEMMA IdlesStep ==
    ASSUME IdlesOK, BatchTaken, [Next]_vars
    PROVE  IdlesOK'
  <1> USE DEF IdlesOK
  <1>1. /\ batch \o idles \in Seq(Idles)
        /\ \A i : i \in ToSet(batch \o idles) <=> Contains(batch \o idles, i)
    BY ConcatProperties, ToSetContains
  <1>2. CASE UNCHANGED idling
    BY <1>2 DEF idling
  <1>3. ASSUME NEW i \in Idles, InsertIdle(i)
        PROVE  IdlesOK'
    <2>1. idles' = Append(idles, i) /\ UNCHANGED <<batch, cancelled>>
      BY <1>3 DEF InsertIdle
    <2>2. (batch \o idles)' = Append(batch \o idles, i) /\ idles' \in Seq(Idles)
      BY <2>1, AppendConcat, AppendProperties
    <2>3. Append(batch \o idles, i) \in Seq(Idles)
      BY <1>1, AppendProperties
    <2>4. IsInjective((batch \o idles)')
      BY <1>1, <1>3, <2>2, InjectiveAppend DEF InsertIdle, Waiting
    <2>5. ASSUME NEW j \in cancelled PROVE j \in ToSet((batch \o idles)')
      <3>1. Contains(batch \o idles, j)
        BY <1>1, <2>5
      <3>2. Contains(Append(batch \o idles, i), j)
        BY <1>1, <3>1, ContainsAppend
      <3> QED BY <2>2, <2>3, <3>2, ToSetContains
    <2> QED BY <2>1, <2>2, <2>4, <2>5
  <1>4. ASSUME NEW i \in Idles, Cancel(i)
        PROVE  IdlesOK'
    BY <1>1, <1>4 DEF Cancel, Waiting
  <1>5. CASE TakeIdles
    <2>1. batch = <<>> /\ batch' = idles /\ idles' = <<>> /\ UNCHANGED cancelled
      BY <1>5 DEF TakeIdles, BatchTaken
    <2>2. (batch \o idles)' = batch \o idles
      BY <2>1, ConcatEmptySeq
    <2> QED BY <2>1, <2>2, EmptySeq
  <1>6. CASE RunIdle
    <2>1. /\ batch # <<>> /\ batch' = Tail(batch) /\ UNCHANGED idles
          /\ cancelled' = cancelled \ {Head(batch)}
      BY <1>6 DEF RunIdle
    <2>2. /\ (batch \o idles)' = Tail(batch \o idles) /\ batch \o idles # <<>>
          /\ Head(batch \o idles) = Head(batch)
      BY <2>1, TailConcat
    <2>3. Tail(batch \o idles) \in Seq(Idles) /\ batch' \in Seq(Idles)
      BY <1>1, <2>1, <2>2, HeadTailProperties
    <2>4. IsInjective((batch \o idles)')
      BY <1>1, <2>2, InjectiveTail
    <2>5. ASSUME NEW j \in cancelled' PROVE j \in ToSet((batch \o idles)')
      <3>1. Contains(batch \o idles, j) /\ j # Head(batch)
        BY <1>1, <2>1, <2>5
      <3>2. Contains(Tail(batch \o idles), j)
        BY <1>1, <2>2, <3>1, ContainsHeadTail
      <3> QED BY <2>2, <2>3, <3>2, ToSetContains
    <2> QED BY <2>1, <2>3, <2>4, <2>5
  <1>7. CASE Dispatch \/ Run \/ BlockOn \/ EventArrives \/ DispatchError \/ Stop \/ Wakeup
    BY <1>2, <1>7 DEF Dispatch, Run, BlockOn, EventArrives, Woken, DispatchError, Stop, Wakeup
  <1>8. CASE Check \/ Swap \/ PollFuture \/ WaitEnds \/ IdleReturns \/ IdlesDone \/ CallbackReturns
    BY <1>2, <1>8
       DEF Check, Swap, PollFuture, WaitEnds, Woken, IdleReturns, IdlesDone, CallbackReturns
  <1>9. ASSUME NEW w \in Wakers, DoWork(w) \/ WakeIdly(w) \/ Wake(w)
        PROVE  IdlesOK'
    BY <1>2, <1>9 DEF DoWork, WakeIdly, Wake, WakeStore, WakeNotify
  <1>10. CASE UNCHANGED vars
    BY <1>2, <1>10 DEF vars
  <1> QED BY <1>3, <1>4, <1>5, <1>6, <1>7, <1>8, <1>9, <1>10 DEF Next, LoopStep

LEMMA BatchStep ==
    ASSUME BatchTaken, [Next]_vars
    PROVE  BatchTaken'
  <1> USE DEF BatchTaken
  <1>1. CASE Dispatch \/ Run \/ BlockOn \/ EventArrives \/ DispatchError \/ Stop \/ Wakeup
    BY <1>1 DEF Dispatch, Run, BlockOn, EventArrives, Woken, DispatchError, Leave,
                Stop, Wakeup, idling
  <1>2. CASE LoopStep
    BY <1>2 DEF LoopStep, Check, Swap, PollFuture, Leave, WaitEnds, Woken, TakeIdles, RunIdle,
                IdleReturns, IdlesDone, CallbackReturns, idling
  <1>3. ASSUME NEW i \in Idles, InsertIdle(i) \/ Cancel(i)
        PROVE  BatchTaken'
    BY <1>3 DEF InsertIdle, Cancel
  <1>4. ASSUME NEW w \in Wakers, DoWork(w) \/ WakeIdly(w) \/ Wake(w)
        PROVE  BatchTaken'
    BY <1>4 DEF DoWork, WakeIdly, Wake, WakeStore, WakeNotify, idling
  <1>5. CASE UNCHANGED vars
    BY <1>5 DEF vars, idling
  <1> QED BY <1>1, <1>2, <1>3, <1>4, <1>5 DEF Next

LEMMA FlagsStep ==
    ASSUME FlagsOK, [Next]_vars
    PROVE  FlagsOK'
  <1> USE DEF FlagsOK, Calls, Phases, future, signals
  <1>1. /\ 0 \in 0 .. Work /\ Work \in 0 .. Work
        /\ done < Work => done + 1 \in 0 .. Work
    BY ConstantsAssumption
  <1>2. CASE Dispatch
    BY <1>2 DEF Dispatch
  <1>3. CASE Run
    BY <1>3 DEF Run
  <1>4. CASE BlockOn
    BY <1>1, <1>4 DEF BlockOn
  <1>5. CASE EventArrives \/ WaitEnds
    BY <1>5 DEF EventArrives, WaitEnds, Woken
  <1>6. CASE DispatchError
    BY <1>1, <1>6 DEF DispatchError, Leave
  <1>7. CASE Stop \/ Wakeup
    BY <1>7 DEF Stop, Wakeup
  <1>8. CASE Check
    BY <1>1, <1>8 DEF Check, Leave
  <1>9. CASE PollFuture
    BY <1>1, <1>9 DEF PollFuture, Leave
  <1>10. CASE Swap
    BY <1>10 DEF Swap
  <1>11. CASE TakeIdles \/ RunIdle \/ IdleReturns \/ CallbackReturns
    BY <1>11 DEF TakeIdles, RunIdle, IdleReturns, CallbackReturns
  <1>12. CASE IdlesDone
    BY <1>1, <1>12 DEF IdlesDone, Leave
  <1>13. ASSUME NEW i \in Idles, InsertIdle(i) \/ Cancel(i)
         PROVE  FlagsOK'
    BY <1>13 DEF InsertIdle, Cancel
  <1>14. ASSUME NEW w \in Wakers, DoWork(w)
         PROVE  FlagsOK'
    BY <1>1, <1>14 DEF DoWork, Enters
  <1>15. ASSUME NEW w \in Wakers, WakeIdly(w)
         PROVE  FlagsOK'
    BY <1>15 DEF WakeIdly, Enters
  <1>16. ASSUME NEW w \in Wakers, Wake(w)
         PROVE  FlagsOK'
    BY <1>16 DEF Wake, WakeStore, WakeNotify
  <1>17. CASE UNCHANGED vars
    BY <1>17 DEF vars
  <1> QED BY <1>2, <1>3, <1>4, <1>5, <1>6, <1>7, <1>8, <1>9, <1>10, <1>11, <1>12, <1>13,
             <1>14, <1>15, <1>16, <1>17 DEF Next, LoopStep

TypeInv == FlagsOK /\ IdlesOK /\ BatchTaken

LEMMA TypeInvariance == Spec => []TypeInv
  <1>1. Init => TypeInv
    BY TypeInit DEF Init, TypeInv, BatchTaken
  <1>2. TypeInv /\ [Next]_vars => TypeInv'
    BY FlagsStep, IdlesStep, BatchStep DEF TypeInv
  <1> QED BY <1>1, <1>2, PTL DEF Spec

\* In every reachable state, an idle waits in one place only, and nothing is
\* marked cancelled that does not wait (an Idle handle outlives its callback).
THEOREM TypeCorrect == Spec => []TypeOK
  <1>1. TypeInv => TypeOK
    BY TypeSplit DEF TypeInv
  <1> QED BY <1>1, TypeInvariance, PTL

----------------------------------------------------------------------------
\* The waker of block_on

\* A future without a waker, which was not polled since it could make
\* progress, has its flag set, or someone is about to set it; and once the
\* flag is set after the loop has looked, the notification is there or on
\* its way.  The first is about every phase but "poll", where the flag has
\* been swapped and the future is polled for it; the second about the phases
\* from which the loop goes to wait without looking at the flag again.
WakeInv ==
    /\ call = "block_on" /\ pc # "poll" /\ ~registered /\ ~future_ready
          => \E w \in Wakers : wpc[w] = "store"
    /\ call = "block_on" /\ pc \in {"poll", "wait"} /\ future_ready
          => notified \/ \E w \in Wakers : wpc[w] = "notify"

\* A request to stop is in the flag until the next run or block_on clears it,
\* and the wakeup after it is in the notification until the loop looks at the
\* flag.
StopInv ==
    /\ asked # "no" => stop
    /\ call \in {"run", "block_on"} /\ pc \in {"swap", "poll", "wait"} /\ asked = "wakeup"
          => notified

LEMMA WakeStep ==
    ASSUME FlagsOK, WakeInv, [Next]_vars
    PROVE  WakeInv'
  <1> USE DEF FlagsOK, WakeInv, future, signals
  <1>1. CASE Dispatch \/ Run \/ BlockOn \/ Stop \/ Wakeup
    BY <1>1 DEF Dispatch, Run, BlockOn, Stop, Wakeup
  <1>2. CASE Check \/ DispatchError \/ IdlesDone
    BY <1>2 DEF Check, DispatchError, IdlesDone, Leave
  <1>3. CASE Swap
    BY <1>3 DEF Swap
  <1>4. CASE PollFuture
    BY <1>4 DEF PollFuture, Leave
  <1>5. CASE EventArrives \/ WaitEnds
    BY <1>5 DEF EventArrives, WaitEnds, Woken
  <1>6. CASE TakeIdles \/ RunIdle \/ IdleReturns \/ CallbackReturns
    BY <1>6 DEF TakeIdles, RunIdle, IdleReturns, CallbackReturns
  <1>7. ASSUME NEW i \in Idles, InsertIdle(i) \/ Cancel(i)
        PROVE  WakeInv'
    BY <1>7 DEF InsertIdle, Cancel
  <1>8. ASSUME NEW w \in Wakers, DoWork(w)
        PROVE  WakeInv'
    <2>1. \A v \in Wakers : wpc[v] # "no" => wpc'[v] = wpc[v]
      BY <1>8 DEF DoWork, Enters
    <2>2. registered => wpc'[w] = "store"
      BY <1>8 DEF DoWork, Enters
    <2> QED BY <1>8, <2>1, <2>2 DEF DoWork
  <1>9. ASSUME NEW w \in Wakers, WakeIdly(w)
        PROVE  WakeInv'
    <2>1. \A v \in Wakers : wpc[v] # "no" => wpc'[v] = wpc[v]
      BY <1>9 DEF WakeIdly, Enters
    <2> QED BY <1>9, <2>1 DEF WakeIdly
  <1>10. ASSUME NEW w \in Wakers, WakeStore(w)
         PROVE  WakeInv'
    BY <1>10 DEF WakeStore
  <1>11. ASSUME NEW w \in Wakers, WakeNotify(w)
         PROVE  WakeInv'
    <2>1. \A v \in Wakers : wpc[v] = "store" => wpc'[v] = "store"
      BY <1>11 DEF WakeNotify
    <2> QED BY <1>11, <2>1 DEF WakeNotify
  <1>12. CASE UNCHANGED vars
    BY <1>12 DEF vars
  <1> QED BY <1>1, <1>2, <1>3, <1>4, <1>5, <1>6, <1>7, <1>8, <1>9, <1>10, <1>11, <1>12
          DEF Next, LoopStep, Wake

LEMMA StopStep ==
    ASSUME FlagsOK, StopInv, [Next]_vars
    PROVE  StopInv'
  <1> USE DEF FlagsOK, StopInv, signals
  <1>1. CASE Dispatch \/ Run \/ BlockOn
    BY <1>1 DEF Dispatch, Run, BlockOn
  <1>2. CASE Stop \/ Wakeup
    BY <1>2 DEF Stop, Wakeup
  <1>3. CASE Check \/ DispatchError \/ IdlesDone
    BY <1>3 DEF Check, DispatchError, IdlesDone, Leave
  <1>4. CASE Swap \/ PollFuture
    BY <1>4 DEF Swap, PollFuture, Leave
  <1>5. CASE EventArrives \/ WaitEnds
    BY <1>5 DEF EventArrives, WaitEnds, Woken
  <1>6. CASE TakeIdles \/ RunIdle \/ IdleReturns \/ CallbackReturns
    BY <1>6 DEF TakeIdles, RunIdle, IdleReturns, CallbackReturns
  <1>7. ASSUME NEW i \in Idles, InsertIdle(i) \/ Cancel(i)
        PROVE  StopInv'
    BY <1>7 DEF InsertIdle, Cancel
  <1>8. ASSUME NEW w \in Wakers, DoWork(w) \/ WakeIdly(w) \/ Wake(w)
        PROVE  StopInv'
    BY <1>8 DEF DoWork, WakeIdly, Wake, WakeStore, WakeNotify
  <1>9. CASE UNCHANGED vars
    BY <1>9 DEF vars
  <1> QED BY <1>1, <1>2, <1>3, <1>4, <1>5, <1>6, <1>7, <1>8, <1>9 DEF Next, LoopStep

\* block_on does not go to sleep over a wake: whenever it is about to wait
\* with its flag set, or for a future that could make progress, the poller is
\* notified or some thread is still inside wake(), which will notify it.
THEOREM NoWakeIsMissed == Spec => []WakeIsSeen
  <1>1. Init => WakeInv
    BY DEF Init, WakeInv
  <1>2. TypeInv /\ WakeInv /\ [Next]_vars => WakeInv'
    BY WakeStep DEF TypeInv
  <1>3. WakeInv => WakeIsSeen
    BY DEF WakeInv, WakeIsSeen
  <1> QED BY <1>1, <1>2, <1>3, TypeInvariance, PTL DEF Spec

\* stop() and then wakeup(), from any thread and at any point of run or
\* block_on, keep the loop from waiting once more.
THEOREM NoStopIsMissed == Spec => []StopIsSeen
  <1>1. Init => StopInv
    BY DEF Init, StopInv
  <1>2. TypeInv /\ StopInv /\ [Next]_vars => StopInv'
    BY StopStep DEF TypeInv
  <1>3. StopInv => StopIsSeen
    BY DEF StopInv, StopIsSeen
  <1> QED BY <1>1, <1>2, <1>3, TypeInvariance, PTL DEF Spec

----------------------------------------------------------------------------
\* The idles

\* An idle leaves the lists only when it is called or was cancelled: taking
\* the list for a batch overwrites no idle of the batch before, and an error
\* of the dispatch leaves the list as it is.
LEMMA IdleKept ==
    ASSUME TypeInv, [Next]_vars, NEW i \in Idles, Waiting(i), ~Waiting(i)'
    PROVE  i \in cancelled \/ (i = Head(batch) /\ pc' = "idle")
  <1>1. /\ idles \in Seq(Idles) /\ batch \in Seq(Idles) /\ batch \o idles \in Seq(Idles)
    BY ConcatProperties DEF TypeInv, IdlesOK
  <1>2. ~(UNCHANGED <<idles, batch>>)
    BY DEF Waiting
  <1>3. ASSUME NEW j \in Idles, InsertIdle(j)
        PROVE  FALSE
    <2>1. (batch \o idles)' = Append(batch \o idles, j)
      BY <1>1, <1>3, AppendConcat DEF InsertIdle
    <2>2. Contains(batch \o idles, i)
      BY DEF Waiting
    <2>3. Contains(Append(batch \o idles, j), i)
      BY <1>1, <2>2, ContainsAppend
    <2> QED BY <2>1, <2>3 DEF Waiting
  <1>4. CASE TakeIdles
    <2>1. batch = <<>> /\ batch' = idles /\ idles' = <<>>
      BY <1>4 DEF TakeIdles, TypeInv, BatchTaken
    <2>2. (batch \o idles)' = batch \o idles
      BY <1>1, <2>1, ConcatEmptySeq
    <2> QED BY <2>2 DEF Waiting
  <1>5. CASE RunIdle
    <2>1. /\ batch # <<>> /\ batch' = Tail(batch) /\ UNCHANGED idles
          /\ pc' = IF Head(batch) \in cancelled THEN "idles" ELSE "idle"
      BY <1>5 DEF RunIdle
    <2>2. /\ (batch \o idles)' = Tail(batch \o idles) /\ batch \o idles # <<>>
          /\ Head(batch \o idles) = Head(batch)
      BY <1>1, <2>1, TailConcat
    <2>3. i = Head(batch)
      BY <1>1, <2>2, ContainsHeadTail DEF Waiting
    <2> QED BY <2>1, <2>3
  <1> QED
    BY <1>2, <1>3, <1>4, <1>5
    DEF Next, LoopStep, vars, idling, Dispatch, Run, BlockOn, Check, Swap, PollFuture,
        WaitEnds, EventArrives, Woken, DispatchError, IdleReturns, IdlesDone,
        CallbackReturns, Cancel, Stop, Wakeup, DoWork, WakeIdly, Wake, WakeStore, WakeNotify

\* No idle callback is lost, by a step of any caller or thread.
THEOREM IdlesAreKept == Spec => NoIdleIsLost
  <1>1. TypeInv /\ [Next]_vars =>
            [\A i \in Idles : Waiting(i) /\ ~Waiting(i)' =>
                i \in cancelled \/ (i = Head(batch) /\ pc' = "idle")]_vars
    BY IdleKept
  <1> QED BY <1>1, TypeInvariance, PTL DEF Spec, NoIdleIsLost

============================================================================
