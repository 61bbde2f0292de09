-------------------------- MODULE Executor_proofs --------------------------
(***************************************************************************)
(* Proofs about Executor, for any tasks, any threads that wake them and    *)
(* any limit on the runnables of one process_events.                       *)
(***************************************************************************)
EXTENDS Executor, SequenceTheorems, TLAPS

----------------------------------------------------------------------------
\* Types, with what a thread that pushes holds and what runs.

TypeInv ==
    /\ TypeOK
    /\ \A w \in Threads : send[w] = "push" => hand[w] \in Tasks
    /\ pc = "running" => current \in Tasks

LEMMA TypeSend ==
    ASSUME TypeInv, NEW w \in Threads, Send(w)
    PROVE  TypeInv'
  <1> USE DEF TypeInv, TypeOK, task, cycle
  <1>1. CASE Push(w)
    <2>1. incoming' \in Seq(Tasks)
      BY <1>1, AppendProperties DEF Push
    <2> QED BY <1>1, <2>1 DEF Push
  <1>2. CASE SwapNotified(w)
    BY <1>2 DEF SwapNotified
  <1>3. CASE WakeUp(w)
    BY <1>3 DEF WakeUp
  <1> QED BY <1>1, <1>2, <1>3 DEF Send

LEMMA TypeStep ==
    ASSUME TypeInv, [Next]_vars
    PROVE  TypeInv'
  <1> USE DEF TypeInv, TypeOK, task, sender, shared, Goto
  <1>1. CASE \E w \in Threads : Send(w)
    BY <1>1, TypeSend
  <1>2. Main \in Threads /\ Wakers \subseteq Threads
    BY DEF Threads
  <1>3. CASE Poll \/ DrainPing \/ SkipPing
    BY <1>3 DEF Poll, DrainPing, SkipPing, Phases
  <1>4. CASE ClearNotified
    <2>1. Limit \in 0 .. Limit
      BY ConstantsAssumption
    <2> QED BY <1>4, <2>1 DEF ClearNotified, Phases
  <1>5. CASE Run
    <2>1. Head(incoming) \in Tasks /\ incoming' \in Seq(Tasks)
      BY <1>5, HeadTailProperties DEF Run
    <2>2. budget' \in 0 .. Limit
      BY <1>5, ConstantsAssumption DEF Run
    <2> QED BY <1>5, <2>1, <2>2 DEF Run, Phases
  <1>6. CASE RunPending
    BY <1>2, <1>6 DEF RunPending, HandsOver, Phases
  <1>7. CASE RunReady
    BY <1>7 DEF RunReady, Phases, Lives
  <1>8. CASE CallbackReturns
    BY <1>8 DEF CallbackReturns, Phases, Lives
  <1>9. CASE QueueEmpty \/ LimitReached \/ SelfPing \/ DropAllWoken \/ DropEnds
    BY <1>9 DEF QueueEmpty, LimitReached, SelfPing, DropAllWoken, DropEnds, Phases
  <1>10. ASSUME NEW t \in Tasks, DropWakes(t)
         PROVE  TypeInv'
    BY <1>2, <1>10 DEF DropWakes, Claims, HandsOver
  <1>11. CASE DropRunnable
    <2>1. Head(incoming) \in Tasks /\ incoming' \in Seq(Tasks)
      BY <1>11, HeadTailProperties DEF DropRunnable
    <2> QED BY <1>11, <2>1 DEF DropRunnable, cycle, Lives
  <1>12. ASSUME NEW w \in Threads, NEW t \in Tasks, Wake(w, t)
         PROVE  TypeInv'
    BY <1>12 DEF Wake, Claims, HandsOver, cycle
  <1>13. ASSUME NEW t \in Tasks, Schedule(t)
         PROVE  TypeInv'
    BY <1>2, <1>13 DEF Schedule, HandsOver, cycle, Lives
  <1>14. CASE Insert \/ Enable \/ Disable \/ Drop
    BY <1>14 DEF Insert, Enable, Disable, Drop, Phases
  <1>15. CASE UNCHANGED vars
    BY <1>15 DEF vars, cycle
  <1> QED BY <1>1, <1>2, <1>3, <1>4, <1>5, <1>6, <1>7, <1>8, <1>9, <1>10, <1>11, <1>12,
             <1>13, <1>14, <1>15 DEF Next, MainStep

LEMMA TypeInvariance == Spec => []TypeInv
  <1>1. Init => TypeInv
    <2> SUFFICES ASSUME Init PROVE TypeInv
      OBVIOUS
    <2>1. <<>> \in Seq(Tasks) /\ 0 \in 0 .. Limit
      BY EmptySeq, ConstantsAssumption
    <2> QED BY <2>1 DEF Init, TypeInv, TypeOK, Lives, Phases
  <1> QED BY <1>1, TypeStep, PTL DEF Spec

\* Only tasks are ever queued and run: a thread in send holds a runnable until
\* it has pushed it.
THEOREM TypeCorrect == Spec => []TypeOK
  BY TypeInvariance, PTL DEF TypeInv

----------------------------------------------------------------------------
\* The flag that saves pings

\* The flag may be trusted by a thread that skips its ping: while it is set
\* the ping is there, or whoever set it is about to send it, or the executor,
\* which has drained the ping, is about to reset the flag, before it looks at
\* the queue.
NoticeInv ==
    /\ notified => pinged \/ pc = "clear" \/ \E w \in Threads : send[w] = "ping"
    /\ pc = "ready" => pinged
    /\ RunnablesAreNoticed

LEMMA NoticeSend ==
    ASSUME TypeInv, NoticeInv, NEW w \in Threads, Send(w)
    PROVE  NoticeInv'
  <1> USE DEF TypeInv, TypeOK, NoticeInv, RunnablesAreNoticed, task, cycle
  <1>1. CASE Push(w)
    <2>1. /\ send'[w] = "swap" /\ UNCHANGED <<notified, pinged, pc, place>>
          /\ \A v \in Threads : send[v] = "ping" => send'[v] = "ping"
      BY <1>1 DEF Push
    <2> QED BY <2>1
  <1>2. CASE SwapNotified(w)
    <2>1. /\ UNCHANGED <<incoming, pinged, pc, place>>
          /\ \A v \in Threads : send[v] = "ping" => send'[v] = "ping"
          /\ ~notified => send'[w] = "ping"
      BY <1>2 DEF SwapNotified
    <2> QED BY <2>1
  <1>3. CASE WakeUp(w)
    BY <1>3 DEF WakeUp
  <1> QED BY <1>1, <1>2, <1>3 DEF Send

\* A thread enters send from "no" only: nobody's pending ping is forgotten.
LEMMA NoticeWake ==
    ASSUME TypeInv, NoticeInv, UNCHANGED <<shared, place, pc>>,
           \A v \in Threads : send[v] # "no" => send'[v] = send[v]
    PROVE  NoticeInv'
  BY DEF NoticeInv, RunnablesAreNoticed, shared

LEMMA NoticeStep ==
    ASSUME TypeInv, NoticeInv, [Next]_vars
    PROVE  NoticeInv'
  <1> USE DEF NoticeInv, RunnablesAreNoticed, task, sender, shared, Goto
  <1>1. CASE \E w \in Threads : Send(w)
    BY <1>1, NoticeSend
  <1>2. Main \in Threads /\ Wakers \subseteq Threads
    BY DEF Threads
  <1>3. CASE Poll \/ DrainPing \/ SkipPing \/ ClearNotified
    BY <1>3 DEF Poll, DrainPing, SkipPing, ClearNotified
  <1>4. CASE Run \/ RunReady \/ CallbackReturns
    BY <1>4 DEF Run, RunReady, CallbackReturns
  <1>5. CASE RunPending
    BY <1>2, <1>5 DEF RunPending, HandsOver, Free, TypeInv, TypeOK
  <1>6. CASE QueueEmpty \/ LimitReached \/ SelfPing
    BY <1>6 DEF QueueEmpty, LimitReached, SelfPing
  <1>7. ASSUME NEW t \in Tasks, DropWakes(t)
        PROVE  NoticeInv'
    <2>1. \A v \in Threads : send[v] # "no" => send'[v] = send[v]
      BY <1>2, <1>7 DEF DropWakes, Claims, HandsOver, Free, TypeInv, TypeOK
    <2> QED BY <1>7, <2>1, NoticeWake DEF DropWakes
  <1>8. CASE DropAllWoken \/ DropRunnable \/ DropEnds
    BY <1>8 DEF DropAllWoken, DropRunnable, DropEnds, cycle
  <1>9. ASSUME NEW w \in Threads, NEW t \in Tasks, Wake(w, t)
        PROVE  NoticeInv'
    <2>1. \A v \in Threads : send[v] # "no" => send'[v] = send[v]
      BY <1>9 DEF Wake, Claims, HandsOver, TypeInv, TypeOK
    <2> QED BY <1>9, <2>1, NoticeWake DEF Wake, cycle
  <1>10. ASSUME NEW t \in Tasks, Schedule(t)
         PROVE  NoticeInv'
    <2>1. \A v \in Threads : send[v] # "no" => send'[v] = send[v]
      BY <1>2, <1>10 DEF Schedule, HandsOver, UserCode, Free, TypeInv, TypeOK
    <2> QED BY <1>10, <2>1, NoticeWake DEF Schedule, cycle
  <1>11. CASE Insert \/ Enable \/ Disable \/ Drop
    BY <1>11 DEF Insert, Enable, Disable, Drop
  <1>12. CASE UNCHANGED vars
    BY <1>12 DEF vars, cycle
  <1> QED BY <1>1, <1>2, <1>3, <1>4, <1>5, <1>6, <1>7, <1>8, <1>9, <1>10, <1>11, <1>12
          DEF Next, MainStep

\* Runnables in the queue of a living executor never wait unnoticed: no
\* order of push, swap and ping in any number of threads, against drain, reset
\* and the walk of the queue in the executor, leaves them without a ping.
THEOREM NoRunnableIsForgotten == Spec => []RunnablesAreNoticed
  <1>1. Init => NoticeInv
    BY DEF Init, NoticeInv, RunnablesAreNoticed
  <1>2. NoticeInv => RunnablesAreNoticed
    BY DEF NoticeInv
  <1> QED BY <1>1, <1>2, TypeInvariance, NoticeStep, PTL DEF Spec

----------------------------------------------------------------------------
\* Executor::drop

\* Once the executor is gone no task is scheduled any more, and each that
\* lives is still to be woken by drop, or its wake was claimed by some thread,
\* and is claimed for ever: nothing is run.
DropInv ==
    /\ pc \in {"dropping", "draining", "gone"} <=> place = "gone"
    /\ place = "gone" => \A t \in Tasks : life[t] = "alive" => scheduled[t] \/ t \in todo
    /\ pc \in {"draining", "gone"} => todo = {}

LEMMA DropStep ==
    ASSUME TypeInv, DropInv, [Next]_vars
    PROVE  DropInv'
  <1> USE DEF DropInv, task, sender, shared, cycle, Goto
  <1>1. ASSUME NEW w \in Threads, Send(w)
        PROVE  DropInv'
    BY <1>1 DEF Send, Push, SwapNotified, WakeUp
  <1>2. Main \in Threads /\ Wakers \subseteq Threads
    BY DEF Threads
  <1>3. CASE Poll \/ DrainPing \/ SkipPing \/ ClearNotified
    BY <1>3 DEF Poll, DrainPing, SkipPing, ClearNotified
  <1>4. CASE Run \/ RunPending \/ RunReady \/ CallbackReturns
    BY <1>4 DEF Run, RunPending, RunReady, CallbackReturns
  <1>5. CASE QueueEmpty \/ LimitReached \/ SelfPing
    BY <1>5 DEF QueueEmpty, LimitReached, SelfPing
  <1>6. ASSUME NEW t \in Tasks, DropWakes(t)
        PROVE  DropInv'
    BY <1>6 DEF DropWakes, Claims, TypeInv, TypeOK
  <1>7. CASE DropAllWoken \/ DropEnds
    BY <1>7 DEF DropAllWoken, DropEnds
  <1>8. CASE DropRunnable
    <2>1. Head(incoming) \in Tasks
      BY <1>8, HeadTailProperties DEF DropRunnable, TypeInv, TypeOK
    <2>2. \A t \in Tasks : life'[t] = "alive" => life[t] = "alive" /\ scheduled'[t] = scheduled[t]
      BY <1>8, <2>1 DEF DropRunnable, TypeInv, TypeOK
    <2> QED BY <1>8, <2>2 DEF DropRunnable
  <1>9. ASSUME NEW w \in Threads, NEW t \in Tasks, Wake(w, t)
        PROVE  DropInv'
    BY <1>9 DEF Wake, Claims, TypeInv, TypeOK
  <1>10. ASSUME NEW t \in Tasks, Schedule(t)
         PROVE  DropInv'
    BY <1>10 DEF Schedule
  <1>11. CASE Insert \/ Enable \/ Disable \/ Drop
    BY <1>11 DEF Insert, Enable, Disable, Drop
  <1>12. CASE UNCHANGED vars
    BY <1>12 DEF vars
  <1> QED BY <1>1, <1>2, <1>3, <1>4, <1>5, <1>6, <1>7, <1>8, <1>9, <1>10, <1>11, <1>12
          DEF Next, MainStep

\* A destroyed executor has dropped every future, but for those whose wake
\* some thread had claimed: the drop's own wake of the others took effect.
THEOREM NoFutureIsLeft == Spec => []OnlyLateRunnablesRemain
  <1>1. Init => DropInv
    BY DEF Init, DropInv
  <1>2. DropInv => OnlyLateRunnablesRemain
    BY DEF DropInv, OnlyLateRunnablesRemain
  <1> QED BY <1>1, <1>2, TypeInvariance, DropStep, PTL DEF Spec

============================================================================
