--------------------------- MODULE Timers_proofs ---------------------------
(***************************************************************************)
(* Proofs about Timers, for any timers and timeouts and any bounds.        *)
(***************************************************************************)
EXTENDS Timers, FiniteSetTheorems, SequenceTheorems, TLAPS

----------------------------------------------------------------------------
(* The inductive invariant.                                                *)

Data == [deadline : Instants, token : Token, counter : Nat]

\* The heap is a finite bag of entries, all under counters given out before c.
HeapOK(h, c) ==
    /\ IsABag(h) /\ IsFiniteSet(BagToSet(h))
    /\ \A e \in BagToSet(h) : e \in Data /\ e.counter < c

\* A counter belongs to one timer, and to its last token.
CounterInv ==
    /\ HeapOK(heap, counter)
    /\ \A t \in Timers : registration[t] # None => registration[t] < counter
    /\ \A t, u \in Timers : registration[t] # None /\ registration[t] = registration[u] => t = u
    /\ \A t \in Timers, e \in BagToSet(heap) : e.counter = registration[t] => e.token = Current(t)

\* No token is from the future.
TokenInv ==
    /\ \A e \in BagToSet(heap) : e.token.gen <= gen[e.token.src]
    /\ \A i \in DOMAIN batch : batch[i].gen <= gen[batch[i].src]
    /\ \A t \in Timers : place[t] # "user" \/ running = t => gen[t] >= 1

\* Only an enabled timer is registered, and one whose callback runs, which is not
\* disabled before the end of it.
PlaceInv ==
    /\ \A t \in Timers : place[t] # "enabled" /\ running # t => registration[t] = None
    /\ running # None <=> pc = "callback"
    /\ running # None => registration[running] # None /\ place[running] # "disabled"
    /\ pc \in {"idle", "wait"} => batch = <<>>

\* A timer that is not excused (see Timers) is due once, at
\* its target: in the heap, in the batch or in its callback.
Once(t) ==
    /\ \A e \in EntriesOf(t) :
        /\ heap[e] = 1 /\ e.counter = registration[t] /\ e.deadline = target[t]
        /\ \A f \in EntriesOf(t) : f = e
    /\ InBatch(t) => EntriesOf(t) = {} /\ target[t] # None /\ now >= target[t]
    /\ \A i, j \in DOMAIN batch : batch[i] = Current(t) /\ batch[j] = Current(t) => i = j
    /\ running = t => EntriesOf(t) = {} /\ ~InBatch(t)

OnceInv == \A t \in Timers \ Excused : Once(t)

TimerInv == CounterInv /\ TokenInv /\ PlaceInv /\ OnceInv /\ RegisteredTimersArePending

----------------------------------------------------------------------------
(* The heap's operations.                                                  *)

LEMMA PushEffect ==
    ASSUME NEW h, NEW c \in Nat, HeapOK(h, c), NEW token \in Token, NEW d \in Instants,
           NEW k \in Nat, NEW m \in Nat, c <= m, k < m,
           NEW new, new = [deadline |-> d, token |-> token, counter |-> k]
    PROVE  /\ HeapOK(Push(h, token, d, k), m)
           /\ BagToSet(Push(h, token, d, k)) = BagToSet(h) \cup {new}
           /\ \A e \in BagToSet(h) \ {new} : Push(h, token, d, k)[e] = h[e]
           /\ new \notin BagToSet(h) => Push(h, token, d, k)[new] = 1
  <1> DEFINE g == Push(h, token, d, k)
  <1>1. g = [e \in DOMAIN h \cup {new} |->
                (IF e \in DOMAIN h THEN h[e] ELSE 0) + (IF e \in {new} THEN 1 ELSE 0)]
    BY DEF Push, SetToBag, (+)
  <1>2. \A e \in DOMAIN h : h[e] \in Nat /\ h[e] > 0
    BY DEF HeapOK, IsABag, BagToSet
  <1> HIDE DEF g
  <1>3. DOMAIN g = DOMAIN h \cup {new}
    BY <1>1
  <1>4. \A e \in DOMAIN g : g[e] \in Nat /\ g[e] > 0
    BY <1>1, <1>2
  <1>5. IsABag(g)
    BY <1>1, <1>3, <1>4 DEF IsABag
  <1>6. IsFiniteSet(DOMAIN g)
    BY <1>3, FS_AddElement DEF HeapOK, BagToSet
  <1>7. \A e \in DOMAIN g : e \in Data /\ e.counter < m
    BY <1>3 DEF HeapOK, BagToSet, Data
  <1>8. \A e \in DOMAIN h \ {new} : g[e] = h[e]
    BY <1>1, <1>2
  <1>9. new \notin DOMAIN h => g[new] = 1
    BY <1>1
  <1> QED BY <1>3, <1>5, <1>6, <1>7, <1>8, <1>9 DEF HeapOK, BagToSet, g

\* A part of the heap, with the copies it had there.
LEMMA PartOfHeap ==
    ASSUME NEW h, NEW c \in Nat, HeapOK(h, c), NEW S \in SUBSET BagToSet(h), NEW g,
           DOMAIN g = S, \A e \in S : g[e] \in Nat /\ g[e] > 0, g = [e \in S |-> g[e]]
    PROVE  HeapOK(g, c)
  <1>1. IsFiniteSet(S)
    BY FS_Subset DEF HeapOK
  <1>2. IsABag(g)
    BY DEF IsABag
  <1> QED BY <1>1, <1>2 DEF HeapOK, BagToSet

LEMMA RestrictEffect ==
    ASSUME NEW h, NEW c \in Nat, HeapOK(h, c), NEW S \in SUBSET BagToSet(h)
    PROVE  /\ HeapOK(Restrict(h, S), c)
           /\ BagToSet(Restrict(h, S)) = S /\ \A e \in S : Restrict(h, S)[e] = h[e]
  <1> DEFINE g == Restrict(h, S)
  <1>1. DOMAIN g = S /\ g = [e \in S |-> g[e]] /\ \A e \in S : g[e] = h[e]
    BY DEF Restrict
  <1>2. \A e \in S : g[e] \in Nat /\ g[e] > 0
    BY <1>1 DEF HeapOK, IsABag, BagToSet
  <1> HIDE DEF g
  <1>3. HeapOK(g, c)
    BY <1>1, <1>2, PartOfHeap
  <1> QED BY <1>1, <1>3 DEF g, BagToSet

\* One copy of an entry is taken.
LEMMA PopEffect ==
    ASSUME NEW h, NEW c \in Nat, HeapOK(h, c), NEW x \in BagToSet(h)
    PROVE  /\ HeapOK(h (-) SetToBag({x}), c)
           /\ BagToSet(h (-) SetToBag({x})) = {e \in BagToSet(h) : e = x => h[e] > 1}
           /\ \A e \in BagToSet(h) \ {x} : (h (-) SetToBag({x}))[e] = h[e]
  <1> DEFINE g == h (-) SetToBag({x})
             B == [e \in DOMAIN h |-> IF e \in {x} THEN h[e] - 1 ELSE h[e]]
             S == {e \in DOMAIN h : B[e] > 0}
  <1>1. g = [e \in S |-> B[e]]
    BY DEF SetToBag, (-)
  <1>2. \A e \in DOMAIN h : h[e] \in Nat /\ h[e] > 0
    BY DEF HeapOK, IsABag, BagToSet
  <1>3. \A e \in DOMAIN h : B[e] = IF e = x THEN h[e] - 1 ELSE h[e]
    OBVIOUS
  <1> HIDE DEF g, B
  <1>4. S = {e \in DOMAIN h : e = x => h[e] > 1}
    BY <1>2, <1>3
  <1>5. DOMAIN g = S /\ g = [e \in S |-> g[e]] /\ \A e \in S : g[e] \in Nat /\ g[e] > 0
    BY <1>1, <1>2, <1>3
  <1>6. HeapOK(g, c)
    BY <1>5, PartOfHeap DEF BagToSet
  <1>7. \A e \in DOMAIN h \ {x} : g[e] = h[e]
    BY <1>1, <1>2, <1>3
  <1> QED BY <1>4, <1>5, <1>6, <1>7 DEF g, BagToSet

\* What cancel takes is under the counter; all of it, if there is one entry of one copy.
LEMMA CancelEffect ==
    ASSUME NEW h, NEW c \in Nat, HeapOK(h, c), NEW k \in Nat, NEW g \in Cancel(h, k)
    PROVE  /\ HeapOK(g, c) /\ BagToSet(g) \subseteq BagToSet(h)
           /\ \A e \in BagToSet(h) : e.counter # k => e \in BagToSet(g) /\ g[e] = h[e]
           /\ (\A e \in BagToSet(h) : e.counter = k =>
                  h[e] = 1 /\ \A f \in BagToSet(h) : f.counter = k => f = e)
              => \A e \in BagToSet(g) : e.counter # k
  <1>1. CASE g \in PoppedIf(h, k)
    <2>1. PICK x \in BagToSet(h) : x.counter = k /\ g = h (-) SetToBag({x})
      BY <1>1 DEF PoppedIf, Top
    <2>2. /\ HeapOK(g, c)
          /\ BagToSet(g) = {e \in BagToSet(h) : e = x => h[e] > 1}
          /\ \A e \in BagToSet(h) \ {x} : g[e] = h[e]
      BY <2>1, PopEffect
    <2>3. ASSUME \A e \in BagToSet(h) : e.counter = k =>
                    h[e] = 1 /\ \A f \in BagToSet(h) : f.counter = k => f = e,
                 NEW e \in BagToSet(g)
          PROVE  e.counter # k
      <3>1. h[x] = 1 /\ \A f \in BagToSet(h) : f.counter = k => f = x
        BY <2>1, <2>3
      <3> QED BY <2>2, <2>3, <3>1
    <2> QED BY <2>1, <2>2, <2>3
  <1>2. CASE g = Restrict(h, {e \in BagToSet(h) : e.counter # k})
    BY <1>2, RestrictEffect
  <1> QED BY <1>1, <1>2 DEF Cancel

LEMMA ExpiredEffect ==
    ASSUME NEW c \in Nat, HeapOK(heap, c)
    PROVE  /\ HeapOK(Expired, c)
           /\ BagToSet(Expired) = {e \in BagToSet(heap) : e.deadline <= now}
           /\ \A e \in BagToSet(Expired) : Expired[e] = heap[e]
           /\ HeapOK(heap (-) Expired, c)
           /\ BagToSet(heap (-) Expired) = {e \in BagToSet(heap) : ~(e.deadline <= now)}
           /\ \A e \in BagToSet(heap (-) Expired) : (heap (-) Expired)[e] = heap[e]
  <1> DEFINE E == {e \in DOMAIN heap : e.deadline <= now}
             B == [e \in DOMAIN heap |-> IF e \in DOMAIN Expired THEN heap[e] - Expired[e] ELSE heap[e]]
             S == {e \in DOMAIN heap : B[e] > 0}
             g == heap (-) Expired
  <1>1. HeapOK(Expired, c) /\ DOMAIN Expired = E /\ \A e \in E : Expired[e] = heap[e]
    BY RestrictEffect DEF Expired, BagToSet
  <1>2. g = [e \in S |-> B[e]]
    BY DEF (-)
  <1>3. \A e \in DOMAIN heap : heap[e] \in Nat /\ heap[e] > 0
    BY DEF HeapOK, IsABag, BagToSet
  <1>4. \A e \in DOMAIN heap : B[e] = IF e \in E THEN 0 ELSE heap[e]
    BY <1>1, <1>3
  <1> HIDE DEF g, B
  <1>5. S = {e \in DOMAIN heap : ~(e.deadline <= now)}
    BY <1>3, <1>4
  <1>6. DOMAIN g = S /\ g = [e \in S |-> g[e]] /\ \A e \in S : g[e] = heap[e]
    BY <1>2, <1>4, <1>5
  <1>7. HeapOK(g, c)
    BY <1>3, <1>6, PartOfHeap DEF BagToSet
  <1> QED BY <1>1, <1>5, <1>6, <1>7 DEF g, BagToSet

\* A batch: every entry of the bag is in it, as often as in the bag.
LEMMA OrdersEffect ==
    ASSUME NEW b, NEW c \in Nat, HeapOK(b, c), NEW q \in Orders(b)
    PROVE  /\ q \in Seq(BagToSet(b))
           /\ \A e \in BagToSet(b) : \E i \in DOMAIN q : q[i] = e
           /\ \A e \in BagToSet(b) : b[e] = 1 =>
                  \A i, j \in DOMAIN q : q[i] = e /\ q[j] = e => i = j
  <1> DEFINE n == Cardinality(Copies(b))
             At(e) == {i \in DOMAIN q : q[i] = e}
  <1>1. q \in [1 .. n -> BagToSet(b)] /\ \A e \in BagToSet(b) : Cardinality(At(e)) = b[e]
    BY DEF Orders
  <1>2. n \in Nat
    <2> DEFINE F == {{e} \X (1 .. b[e]) : e \in BagToSet(b)}
               f == [e \in BagToSet(b) |-> {e} \X (1 .. b[e])]
    <2>1. f \in Surjection(BagToSet(b), F)
      BY DEF Surjection
    <2> HIDE DEF f
    <2>2. IsFiniteSet(F)
      BY <2>1, FS_Surjection DEF HeapOK
    <2>3. ASSUME NEW e \in BagToSet(b)
          PROVE  IsFiniteSet({e} \X (1 .. b[e]))
      <3>1. PICK m \in Nat : m = b[e]
        BY DEF HeapOK, IsABag, BagToSet
      <3>2. IsFiniteSet(1 .. m)
        BY FS_Interval
      <3>3. IsFiniteSet({e})
        BY FS_Singleton
      <3> QED BY <3>1, <3>2, <3>3, FS_Product
    <2>4. IsFiniteSet(UNION F)
      BY <2>2, <2>3, FS_UNION
    <2> QED BY <2>4, FS_CardinalityType DEF Copies
  <1> HIDE DEF n
  <1>3. q \in Seq(BagToSet(b)) /\ DOMAIN q = 1 .. n
    BY <1>1, <1>2, SeqDef
  <1>4. \A e \in BagToSet(b) : IsFiniteSet(At(e))
    <2>1. IsFiniteSet(1 .. n)
      BY <1>2, FS_Interval
    <2> QED BY <1>3, <2>1, FS_Subset
  <1>5. ASSUME NEW e \in BagToSet(b) PROVE At(e) # {}
    <2>1. Cardinality(At(e)) > 0
      BY <1>1 DEF HeapOK, IsABag, BagToSet
    <2> QED BY <2>1, FS_EmptySet
  <1>6. ASSUME NEW e \in BagToSet(b), b[e] = 1, NEW i \in DOMAIN q, NEW j \in DOMAIN q, q[i] = e, q[j] = e
        PROVE  i = j
    <2>1. i \in At(e) /\ j \in At(e) /\ IsFiniteSet(At(e)) /\ Cardinality(At(e)) = 1
      BY <1>1, <1>4, <1>6
    <2>2. \E x : At(e) = {x}
      <3> HIDE DEF At
      <3> QED BY <2>1, FS_Singleton
    <2> QED BY <2>1, <2>2
  <1> QED BY <1>3, <1>5, <1>6

LEMMA Constants ==
    /\ None \notin Nat /\ None \notin Timers /\ None \notin Instants /\ None \notin Counters
    /\ MaxTime \in Nat /\ MaxInserts \in Nat /\ MaxCounter \in Nat /\ Timeouts \subseteq Timers
    /\ Counters \subseteq Nat /\ Instants \subseteq Nat
  BY ConstantsAssumption DEF Instants, Counters

----------------------------------------------------------------------------
(* What an operation makes of the wheel, the timer t and its token k: w has  *)
(* the heap, the timer's registration, the counter and the deadline after it.*)

WheelOK(t, k, w) ==
    /\ w = [heap |-> w.heap, reg |-> w.reg, counter |-> w.counter, due |-> w.due]
    /\ w.counter \in Nat /\ counter <= w.counter /\ HeapOK(w.heap, w.counter)
    /\ w.due \in Instants \cup {None}
    /\ \A e \in BagToSet(heap) : e.token.src # t => e \in BagToSet(w.heap) /\ w.heap[e] = heap[e]
    /\ \A e \in BagToSet(w.heap) :
        /\ e.token.src # t => e \in BagToSet(heap)
        /\ e.token.src = t => e.token.gen <= k.gen
        /\ e \in BagToSet(heap) \/ e.counter >= counter \/ e.counter = registration[t]
        /\ e.counter = w.reg => e.token = k
    /\ w.reg # None => /\ w.reg \in Nat /\ w.reg < w.counter
                       /\ w.reg = registration[t] \/ w.reg >= counter

\* A registration is in the heap.
Held(k, w) == w.reg # None => \E e \in BagToSet(w.heap) : e.token = k /\ e.counter = w.reg

\* The heap has nothing else of the timer, or nothing at all.
Single(k, w) ==
    \A e \in BagToSet(w.heap) : e.token = k =>
        /\ w.heap[e] = 1 /\ e.counter = w.reg /\ e.deadline = w.due
        /\ \A f \in BagToSet(w.heap) : f.token = k => f = e

Clear(k, w) == \A e \in BagToSet(w.heap) : e.token # k

LEMMA NowIsOK ==
    ASSUME TypeOK, CounterInv, TokenInv, NEW t \in Timers, NEW k \in Token,
           k.src = t, k.gen >= gen[t], k = Current(t) \/ registration[t] = None
    PROVE  WheelOK(t, k, Now(t))
  <1> DEFINE w == Now(t)
  <1>1. /\ w = [heap |-> w.heap, reg |-> w.reg, counter |-> w.counter, due |-> w.due]
        /\ w.heap = heap /\ w.reg = registration[t] /\ w.counter = counter /\ w.due = target[t]
    BY DEF Now
  <1> HIDE DEF w
  <1>2. counter \in Nat /\ target[t] \in Instants \cup {None} /\ HeapOK(heap, counter)
    BY Constants DEF TypeOK, CounterInv
  <1>3. registration[t] # None => registration[t] \in Nat /\ registration[t] < counter
    BY Constants DEF TypeOK, CounterInv
  <1>4. \A e \in BagToSet(heap) : e.token.src = t => e.token.gen <= k.gen
    <2>1. \A e \in BagToSet(heap) : e.token.gen \in Nat
      BY <1>2 DEF HeapOK, Data, Token
    <2>2. gen[t] \in Nat /\ k.gen \in Nat
      BY DEF TypeOK, Token
    <2> QED BY <2>1, <2>2 DEF TokenInv
  <1>5. \A e \in BagToSet(heap) : e.counter = registration[t] => e.token = k
    BY <1>2, Constants DEF CounterInv, HeapOK, Data
  <1> QED BY <1>1, <1>2, <1>3, <1>4, <1>5 DEF WheelOK, w

LEMMA UnregisterEffect ==
    ASSUME NEW t \in Timers, NEW k \in Token, k.src = t,
           NEW w, WheelOK(t, k, w), NEW v \in Unregister(w)
    PROVE  /\ WheelOK(t, k, v) /\ v.reg = None /\ v.due = w.due /\ Held(k, v)
           /\ Single(k, w) => Clear(k, v)
           /\ Clear(k, w) => Clear(k, v)
  <1>1. \A e \in BagToSet(w.heap) : e.counter # None
    BY Constants DEF WheelOK, HeapOK, Data
  <1>2. CASE w.reg = None
    <2>1. v = w
      BY <1>2 DEF Unregister
    <2> QED BY <1>1, <1>2, <2>1 DEF Single, Clear, Held
  <1>3. CASE w.reg # None
    <2>1. PICK g \in Cancel(w.heap, w.reg) : v = [w EXCEPT !.heap = g, !.reg = None]
      BY <1>3 DEF Unregister
    <2>2. v = [heap |-> g, reg |-> None, counter |-> w.counter, due |-> w.due]
      BY <2>1 DEF WheelOK
    <2>3. /\ v.heap = g /\ v.reg = None /\ v.counter = w.counter /\ v.due = w.due
          /\ v = [heap |-> v.heap, reg |-> v.reg, counter |-> v.counter, due |-> v.due]
      BY <2>2
    <2>4. w.counter \in Nat /\ HeapOK(w.heap, w.counter) /\ w.reg \in Nat
      BY <1>3 DEF WheelOK
    <2>5. /\ HeapOK(g, w.counter) /\ BagToSet(g) \subseteq BagToSet(w.heap)
          /\ \A e \in BagToSet(w.heap) : e.counter # w.reg => e \in BagToSet(g) /\ g[e] = w.heap[e]
          /\ (\A e \in BagToSet(w.heap) : e.counter = w.reg =>
                w.heap[e] = 1 /\ \A f \in BagToSet(w.heap) : f.counter = w.reg => f = e)
             => \A e \in BagToSet(g) : e.counter # w.reg
      BY <2>4, CancelEffect
    <2>6. \A e \in BagToSet(w.heap) : e.counter = w.reg => e.token = k
      BY DEF WheelOK
    <2>7. WheelOK(t, k, v)
      <3>1. ASSUME NEW e \in BagToSet(heap), e.token.src # t
            PROVE  e \in BagToSet(g) /\ g[e] = heap[e]
        <4>1. e \in BagToSet(w.heap) /\ w.heap[e] = heap[e]
          BY <3>1 DEF WheelOK
        <4>2. e.counter # w.reg
          BY <2>6, <3>1, <4>1
        <4> QED BY <2>5, <4>1, <4>2
      <3>2. ASSUME NEW e \in BagToSet(g)
            PROVE  /\ e.token.src # t => e \in BagToSet(heap)
                   /\ e.token.src = t => e.token.gen <= k.gen
                   /\ e \in BagToSet(heap) \/ e.counter >= counter \/ e.counter = registration[t]
                   /\ e.counter # None
        BY <1>1, <2>5 DEF WheelOK
      <3>3. counter <= w.counter /\ w.due \in Instants \cup {None}
        BY DEF WheelOK
      <3> QED BY <2>3, <2>4, <2>5, <3>1, <3>2, <3>3 DEF WheelOK
    <2>8. ASSUME Single(k, w) PROVE Clear(k, v)
      <3>1. \A e \in BagToSet(g) : e.counter # w.reg
        BY <2>5, <2>6, <2>8 DEF Single
      <3> QED BY <2>3, <2>5, <2>8, <3>1 DEF Single, Clear
    <2>9. Clear(k, w) => Clear(k, v)
      BY <2>3, <2>5 DEF Clear
    <2> QED BY <2>3, <2>7, <2>8, <2>9 DEF Held
  <1> QED BY <1>2, <1>3

LEMMA RegisterEffect ==
    ASSUME NEW t \in Timers, NEW k \in Token, k.src = t, NEW d \in Instants \cup {None},
           counter \in Nat, NEW w, WheelOK(t, k, w), d # None \/ w.reg = None
    PROVE  /\ WheelOK(t, k, Register(k, d, w)) /\ Held(k, Register(k, d, w))
           /\ Clear(k, w) => Single(k, Register(k, d, w))
  <1>1. CASE d = None
    BY <1>1 DEF Register, Held, Single, Clear
  <1>2. CASE d # None
    <2> DEFINE v == Register(k, d, w)
    <2>1. PICK new : new = [deadline |-> d, token |-> k, counter |-> w.counter]
      OBVIOUS
    <2>2. PICK g : g = Push(w.heap, k, d, w.counter)
      OBVIOUS
    <2>3. /\ v = [heap |-> v.heap, reg |-> v.reg, counter |-> v.counter, due |-> v.due]
          /\ v.heap = g /\ v.reg = w.counter /\ v.counter = w.counter + 1 /\ v.due = d
      BY <1>2, <2>2 DEF Register
    <2> HIDE DEF v
    <2>4. w.counter \in Nat /\ HeapOK(w.heap, w.counter) /\ counter <= w.counter
      BY DEF WheelOK
    <2>10. w.counter <= w.counter + 1 /\ w.counter < w.counter + 1 /\ w.counter + 1 \in Nat
      BY <2>4
    <2>5. /\ HeapOK(g, w.counter + 1) /\ BagToSet(g) = BagToSet(w.heap) \cup {new}
          /\ \A e \in BagToSet(w.heap) \ {new} : g[e] = w.heap[e]
          /\ new \notin BagToSet(w.heap) => g[new] = 1
      <3>1. PICK c \in Nat : c = w.counter
        BY <2>4
      <3>2. PICK m \in Nat : m = w.counter + 1
        BY <2>10
      <3>3. d \in Instants /\ HeapOK(w.heap, c) /\ c <= m /\ c < m
        BY <1>2, <2>4, <3>1, <3>2
      <3>4. g = Push(w.heap, k, d, c) /\ new = [deadline |-> d, token |-> k, counter |-> c]
        BY <2>1, <2>2, <3>1
      <3>5. /\ HeapOK(Push(w.heap, k, d, c), m)
            /\ BagToSet(Push(w.heap, k, d, c)) = BagToSet(w.heap) \cup {new}
            /\ \A e \in BagToSet(w.heap) \ {new} : Push(w.heap, k, d, c)[e] = w.heap[e]
            /\ new \notin BagToSet(w.heap) => Push(w.heap, k, d, c)[new] = 1
        BY <3>3, <3>4, PushEffect
      <3> QED BY <3>2, <3>4, <3>5
    <2>6. \A e \in BagToSet(w.heap) : e.counter # w.counter /\ e # new
      BY <2>1, <2>4 DEF HeapOK, Data
    <2>7. WheelOK(t, k, v)
      <3>1. ASSUME NEW e \in BagToSet(heap), e.token.src # t
            PROVE  e \in BagToSet(g) /\ g[e] = heap[e]
        <4>1. e \in BagToSet(w.heap) /\ w.heap[e] = heap[e]
          BY <3>1 DEF WheelOK
        <4> QED BY <2>5, <2>6, <4>1
      <3>2. ASSUME NEW e \in BagToSet(g)
            PROVE  /\ e.token.src # t => e \in BagToSet(heap)
                   /\ e.token.src = t => e.token.gen <= k.gen
                   /\ e \in BagToSet(heap) \/ e.counter >= counter \/ e.counter = registration[t]
                   /\ e.counter = w.counter => e.token = k
        <4>1. CASE e = new
          BY <2>1, <2>4, <4>1 DEF Token
        <4>2. CASE e \in BagToSet(w.heap)
          BY <2>6, <4>2 DEF WheelOK
        <4> QED BY <2>5, <4>1, <4>2
      <3>3. /\ counter <= w.counter + 1 /\ d \in Instants \cup {None}
            /\ w.counter >= counter
        BY <2>4
      <3> QED BY <2>3, <2>4, <2>5, <2>10, <3>1, <3>2, <3>3 DEF WheelOK
    <2>8. Held(k, v)
      BY <2>1, <2>3, <2>5 DEF Held
    <2>9. Clear(k, w) => Single(k, v)
      BY <2>1, <2>3, <2>5, <2>6 DEF Single, Clear
    <2> QED BY <2>7, <2>8, <2>9 DEF v
  <1> QED BY <1>1, <1>2

LEMMA ReregisterEffect ==
    ASSUME NEW t \in Timers, NEW k \in Token, k.src = t, NEW d \in Instants \cup {None},
           counter \in Nat, NEW w, WheelOK(t, k, w), NEW v \in Reregister(k, d, w)
    PROVE  WheelOK(t, k, v) /\ Held(k, v) /\ (Single(k, w) => Single(k, v))
  <1>1. PICK u \in Unregister(w) : v = Register(k, d, u)
    BY DEF Reregister
  <1>2. WheelOK(t, k, u) /\ u.reg = None /\ (Single(k, w) => Clear(k, u))
    BY UnregisterEffect
  <1> QED BY <1>1, <1>2, RegisterEffect

LEMMA FieldsOf ==
    ASSUME NEW w, NEW g, NEW r, NEW c, NEW d,
           w = [heap |-> g, reg |-> r, counter |-> c, due |-> d]
    PROVE  /\ w.heap = g /\ w.reg = r /\ w.counter = c /\ w.due = d
           /\ w = [heap |-> w.heap, reg |-> w.reg, counter |-> w.counter, due |-> w.due]
  OBVIOUS

\* insert_reuse: the counter of the timer again
Again(t, d) ==
    [Now(t) EXCEPT !.heap = Push(heap, Current(t), d, ReusedCounter(t)), !.due = d]

LEMMA AgainEffect ==
    ASSUME TypeOK, CounterInv, TokenInv, NEW t \in Timers, NEW d \in Instants,
           registration[t] # None, Current(t) \in Token,
           NEW w, w = Again(t, d)
    PROVE  /\ WheelOK(t, Current(t), w) /\ Held(Current(t), w)
           /\ EntriesOf(t) = {} => Single(Current(t), w)
  <1>1. PICK k \in Token : k = Current(t) /\ k.src = t
    BY DEF Current
  <1>2. PICK r \in Nat : r = registration[t] /\ r < counter
    BY Constants DEF TypeOK, CounterInv
  <1>3. PICK g : g = Push(heap, k, d, r)
    OBVIOUS
  <1>4. PICK new : new = [deadline |-> d, token |-> k, counter |-> r]
    OBVIOUS
  <1>5. w = [heap |-> g, reg |-> r, counter |-> counter, due |-> d]
    BY <1>1, <1>2, <1>3 DEF Again, Now, ReusedCounter
  <1>6. /\ w.heap = g /\ w.reg = r /\ w.counter = counter /\ w.due = d
        /\ w = [heap |-> w.heap, reg |-> w.reg, counter |-> w.counter, due |-> w.due]
    BY <1>5, FieldsOf
  <1>7. counter \in Nat /\ HeapOK(heap, counter)
    BY Constants DEF TypeOK, CounterInv
  <1>8. /\ HeapOK(g, counter) /\ BagToSet(g) = BagToSet(heap) \cup {new}
        /\ \A e \in BagToSet(heap) \ {new} : g[e] = heap[e]
        /\ new \notin BagToSet(heap) => g[new] = 1
    BY <1>2, <1>3, <1>4, <1>7, PushEffect
  <1>9. \A e \in BagToSet(heap) : e.token.src = t => e.token.gen <= k.gen
    BY <1>1 DEF TokenInv, Current
  <1>10. \A e \in BagToSet(heap) : e.counter = r => e.token = k
    BY <1>1, <1>2 DEF CounterInv
  <1>11. WheelOK(t, k, w)
    <2>1. \A e \in BagToSet(heap) : e.token.src # t => e # new
      BY <1>1, <1>4
    <2>2. new.token = k /\ new.counter = r /\ k.gen <= k.gen
      BY <1>4 DEF Token
    <2> QED BY <1>1, <1>2, <1>6, <1>7, <1>8, <1>9, <1>10, <2>1, <2>2 DEF WheelOK
  <1>12. Held(k, w)
    BY <1>4, <1>6, <1>8 DEF Held
  <1>13. ASSUME EntriesOf(t) = {} PROVE Single(k, w)
    <2>1. \A e \in BagToSet(heap) : e.token # k
      BY <1>1, <1>13 DEF EntriesOf
    <2>2. new.token = k /\ new.counter = r /\ new.deadline = d
      BY <1>4
    <2> QED BY <1>6, <1>8, <2>1, <2>2 DEF Single
  <1> QED BY <1>1, <1>11, <1>12, <1>13

----------------------------------------------------------------------------
(* What such an operation preserves, when the timer's callback does not go  *)
(* on running and its place and its history change with it.                 *)

Pending(t) ==
    registration[t] # None /\ t \notin silent =>
        (\E e \in EntriesOf(t) : e.counter = registration[t]) \/ InBatch(t) \/ running = t

\* What is left of t is due once: the new entry, or what was due before.
DueOnce(t, k, w) ==
    \/ t \in Excused'
    \/ Single(k, w) /\ ~InBatch(t)'
    \/ Clear(k, w) /\ w.due = target[t] /\ t \notin Excused /\ gen' = gen

WheelStep(t, k, w) ==
    /\ WheelOK(t, k, w) /\ Held(k, w) /\ DueOnce(t, k, w) /\ Becomes(t, w)
    /\ place' \in [Timers -> Places] /\ (place'[t] # "enabled" => w.reg = None)
    /\ gen' \in [Timers -> 0 .. MaxInserts] /\ gen'[t] = k.gen /\ gen'[t] >= gen[t]
    /\ rearmed' \cup doubled' \subseteq Timers /\ silent' \subseteq Timers
    /\ \A u \in Timers \ {t} : /\ place'[u] = place[u] /\ gen'[u] = gen[u]
                               /\ (u \in Excused' <=> u \in Excused)
                               /\ (u \in silent' <=> u \in silent)
    /\ now' = now /\ batch' = batch
    /\ \/ running # t /\ running' = running /\ pc' = pc
       \/ running = t /\ running' = None /\ pc' = "dispatch"

LEMMA WheelStepCounters ==
    ASSUME TypeOK, TimerInv, NEW t \in Timers, NEW k \in Token, k.src = t,
           NEW w, WheelStep(t, k, w)
    PROVE  /\ CounterInv' /\ IsABag(heap)' /\ BagToSet(heap)' \subseteq Entries /\ counter' \in Counters
           /\ registration' \in [Timers -> Counters \cup {None}]
           /\ target' \in [Timers -> Instants \cup {None}]
  <1>1. /\ w.counter <= MaxCounter /\ heap' = w.heap /\ counter' = w.counter
        /\ registration'[t] = w.reg /\ target'[t] = w.due
        /\ \A u \in Timers \ {t} : registration'[u] = registration[u] /\ target'[u] = target[u]
    BY DEF WheelStep, Becomes, TypeOK
  <1>2. /\ w.counter \in Nat /\ counter \in Nat /\ counter <= w.counter /\ HeapOK(w.heap, w.counter)
        /\ w.due \in Instants \cup {None}
        /\ w.reg # None => /\ w.reg \in Nat /\ w.reg < w.counter
                           /\ w.reg = registration[t] \/ w.reg >= counter
    BY Constants DEF WheelStep, WheelOK, TypeOK
  <1>3. \A u \in Timers : registration[u] # None => registration[u] \in Nat /\ registration[u] < counter
    BY Constants DEF TypeOK, TimerInv, CounterInv
  <1>4. \A u \in Timers \ {t} : registration[u] # None => registration[u] # w.reg /\ registration[u] # registration[t]
    <2>1. \A u \in Timers \ {t} : registration[u] # None => registration[u] # registration[t]
      BY DEF TimerInv, CounterInv
    <2> QED BY <1>2, <1>3, <2>1
  <1>5. \A u \in Timers : registration'[u] # None => registration'[u] < counter'
    BY <1>1, <1>2, <1>3
  <1>6. \A u, v \in Timers : registration'[u] # None /\ registration'[u] = registration'[v] => u = v
    <2>1. \A u, v \in Timers : registration[u] # None /\ registration[u] = registration[v] => u = v
      BY DEF TimerInv, CounterInv
    <2> QED BY <1>1, <1>4, <2>1
  <1>7. ASSUME NEW u \in Timers, NEW e \in BagToSet(w.heap), e.counter = registration'[u]
        PROVE  e.token = [src |-> u, gen |-> gen'[u]]
    <2>1. e.counter \in Nat /\ e.token \in Token
      BY <1>2 DEF HeapOK, Data
    <2>2. CASE u = t
      <3>1. e.token = k
        BY <1>1, <1>7, <2>2 DEF WheelStep, WheelOK
      <3> QED BY <2>2, <3>1 DEF WheelStep, Token
    <2>3. CASE u # t
      <3>1. registration[u] = e.counter /\ registration[u] # None /\ gen'[u] = gen[u]
        BY <1>1, <1>7, <2>1, <2>3, Constants DEF WheelStep
      <3>2. e.counter < counter /\ e.counter # registration[t]
        BY <1>3, <1>4, <2>3, <3>1
      <3>3. e \in BagToSet(heap)
        BY <1>2, <2>1, <3>2 DEF WheelStep, WheelOK
      <3> QED BY <3>1, <3>3 DEF TimerInv, CounterInv, Current
    <2> QED BY <2>2, <2>3
  <1>8. CounterInv'
    <2>1. HeapOK(heap, counter)'
      BY <1>1, <1>2 DEF HeapOK, BagToSet, IsABag
    <2>2. BagToSet(heap)' = BagToSet(w.heap)
      BY <1>1 DEF BagToSet
    <2> QED BY <1>5, <1>6, <1>7, <2>1, <2>2 DEF CounterInv, Current
  <1>9. IsABag(heap)' /\ BagToSet(heap)' \subseteq Entries /\ counter' \in Counters
    <2>1. counter' \in Counters
      BY <1>1, <1>2, Constants DEF Counters
    <2>2. \A e \in BagToSet(w.heap) : e \in Data /\ e.counter \in Counters
      <3>1. \A e \in BagToSet(w.heap) : e \in Data /\ e.counter < w.counter
        BY <1>2 DEF HeapOK
      <3>2. \A e \in BagToSet(w.heap) : e.counter \in Nat
        BY <3>1 DEF Data
      <3> QED BY <1>1, <1>2, <3>1, <3>2, Constants DEF Counters
    <2>3. BagToSet(w.heap) \subseteq Entries
      BY <2>2 DEF Data, Entries
    <2>4. IsABag(w.heap)
      BY <1>2 DEF HeapOK
    <2> QED BY <1>1, <2>1, <2>3, <2>4 DEF BagToSet, IsABag
  <1>10. registration' \in [Timers -> Counters \cup {None}]
    <2>1. w.reg \in Counters \cup {None}
      BY <1>1, <1>2, Constants DEF Counters
    <2> QED BY <2>1 DEF WheelStep, Becomes, TypeOK
  <1>11. target' \in [Timers -> Instants \cup {None}]
    BY <1>2 DEF WheelStep, Becomes, TypeOK
  <1> QED BY <1>8, <1>9, <1>10, <1>11

LEMMA WheelStepTokens ==
    ASSUME TypeOK, TimerInv, NEW t \in Timers, NEW k \in Token, k.src = t,
           NEW w, WheelStep(t, k, w)
    PROVE  TokenInv' /\ PlaceInv'
  <1>1. /\ heap' = w.heap /\ registration'[t] = w.reg
        /\ \A u \in Timers \ {t} : registration'[u] = registration[u]
    BY DEF WheelStep, Becomes, TypeOK
  <1>2. ASSUME NEW u \in Timers
        PROVE  gen'[u] >= gen[u] /\ gen[u] \in Nat /\ gen'[u] \in Nat
    <2>1. gen[u] \in Nat /\ gen'[u] \in Nat
      BY Constants DEF WheelStep, TypeOK
    <2>2. gen'[u] = gen[u] \/ gen'[u] >= gen[u]
      BY DEF WheelStep
    <2> QED BY <2>1, <2>2
  <1>3. k.gen >= 1 /\ k.gen \in Nat
    BY DEF Token
  <1>4. ASSUME NEW e \in BagToSet(w.heap)
        PROVE  e.token.gen <= gen'[e.token.src]
    <2>1. e.token \in Token
      BY DEF WheelStep, WheelOK, HeapOK, Data
    <2>2. CASE e.token.src = t
      BY <2>2 DEF WheelStep, WheelOK
    <2>3. CASE e.token.src # t
      <3>1. e \in BagToSet(heap)
        BY <2>3 DEF WheelStep, WheelOK
      <3>2. e.token.src \in Timers \ {t}
        BY <2>1, <2>3 DEF Token
      <3> QED BY <3>1, <3>2 DEF TimerInv, TokenInv, WheelStep
    <2> QED BY <2>2, <2>3
  <1>5. ASSUME NEW i \in DOMAIN batch
        PROVE  batch[i].gen <= gen'[batch[i].src]
    <2>1. batch[i] \in Token
      BY DEF TypeOK
    <2>2. batch[i].gen \in Nat /\ batch[i].src \in Timers
      BY <2>1 DEF Token
    <2>3. batch[i].gen <= gen[batch[i].src]
      BY DEF TimerInv, TokenInv
    <2> QED BY <1>2, <2>2, <2>3
  <1>6. ASSUME NEW u \in Timers, place'[u] # "user" \/ running' = u
        PROVE  gen'[u] >= 1
    <2>1. CASE u = t
      BY <1>3, <2>1 DEF WheelStep
    <2>2. CASE u # t
      <3>1. place[u] # "user" \/ running = u
        BY <1>6, <2>2, Constants DEF WheelStep
      <3> QED BY <2>2, <3>1 DEF WheelStep, TimerInv, TokenInv
    <2> QED BY <2>1, <2>2
  <1>7. TokenInv'
    <2>1. BagToSet(heap)' = BagToSet(w.heap) /\ batch' = batch
      BY <1>1 DEF BagToSet, WheelStep
    <2> QED BY <1>4, <1>5, <1>6, <2>1 DEF TokenInv
  <1>8. ASSUME NEW u \in Timers, place'[u] # "enabled", running' # u
        PROVE  registration'[u] = None
    <2>1. CASE u = t
      BY <1>1, <1>8, <2>1 DEF WheelStep
    <2>2. CASE u # t
      <3>1. place[u] # "enabled" /\ running # u
        BY <1>8, <2>2 DEF WheelStep
      <3> QED BY <1>1, <2>2, <3>1 DEF TimerInv, PlaceInv
    <2> QED BY <2>1, <2>2
  <1>9. /\ running' # None <=> pc' = "callback"
        /\ running' # None => registration'[running'] # None /\ place'[running'] # "disabled"
        /\ pc' \in {"idle", "wait"} => batch' = <<>>
    <2>1. CASE running # t /\ running' = running /\ pc' = pc
      <3>1. running # None => running \in Timers \ {t}
        BY <2>1 DEF TypeOK
      <3> QED BY <1>1, <2>1, <3>1 DEF TimerInv, PlaceInv, WheelStep
    <2>2. CASE running = t /\ running' = None /\ pc' = "dispatch"
      BY <2>2
    <2> QED BY <2>1, <2>2 DEF WheelStep
  <1>10. PlaceInv'
    BY <1>8, <1>9 DEF PlaceInv
  <1> QED BY <1>7, <1>10

LEMMA WheelStepDue ==
    ASSUME TypeOK, TimerInv, NEW t \in Timers, NEW k \in Token, k.src = t,
           NEW w, WheelStep(t, k, w)
    PROVE  OnceInv' /\ RegisteredTimersArePending'
  <1>1. /\ heap' = w.heap /\ registration'[t] = w.reg /\ target'[t] = w.due
        /\ \A u \in Timers \ {t} : registration'[u] = registration[u] /\ target'[u] = target[u]
    BY DEF WheelStep, Becomes, TypeOK
  <1>2. /\ now' = now /\ batch' = batch /\ gen'[t] = k.gen /\ running' # t
        /\ \A u \in Timers \ {t} : gen'[u] = gen[u] /\ (running' = u => running = u)
        /\ \A u \in Timers \ {t} : (u \in Excused' <=> u \in Excused) /\ (u \in silent' <=> u \in silent)
        /\ \A u \in Timers \ {t} : running = u => running' = u
    BY Constants DEF WheelStep
  <1>3. BagToSet(heap)' = BagToSet(w.heap)
    BY <1>1 DEF BagToSet
  <1>4. Current(t)' = k
    BY <1>2 DEF Current, Token
  <1>5. EntriesOf(t)' = {e \in BagToSet(w.heap) : e.token = k}
    BY <1>3, <1>4 DEF EntriesOf
  <1>6. ASSUME NEW u \in Timers \ {t}
        PROVE  /\ Current(u)' = Current(u) /\ EntriesOf(u)' = EntriesOf(u) /\ InBatch(u)' = InBatch(u)
               /\ \A e \in EntriesOf(u) : heap'[e] = heap[e]
    <2>1. Current(u)' = Current(u) /\ Current(u).src # t
      BY <1>2 DEF Current
    <2>2. InBatch(u)' = InBatch(u)
      BY <1>2, <2>1 DEF InBatch
    <2>3. \A e \in BagToSet(heap) : e.token = Current(u) => e \in BagToSet(w.heap) /\ w.heap[e] = heap[e]
      BY <2>1 DEF WheelStep, WheelOK
    <2>4. \A e \in BagToSet(w.heap) : e.token = Current(u) => e \in BagToSet(heap)
      BY <2>1 DEF WheelStep, WheelOK
    <2> QED BY <1>1, <1>3, <2>1, <2>2, <2>3, <2>4 DEF EntriesOf
  <1>7. ASSUME NEW u \in Timers \ {t}, u \notin Excused'
        PROVE  Once(u)'
    <2>1. Once(u)
      BY <1>2, <1>7 DEF TimerInv, OnceInv
    <2> QED BY <1>1, <1>2, <1>6, <2>1 DEF Once
  <1>8. ASSUME t \notin Excused' PROVE Once(t)'
    <2>1. CASE Single(k, w) /\ ~InBatch(t)'
      <3>1. \A i \in DOMAIN batch' : batch'[i] # Current(t)'
        BY <2>1 DEF InBatch
      <3> QED BY <1>1, <1>2, <1>5, <2>1, <3>1 DEF Once, Single
    <2>2. CASE Clear(k, w) /\ w.due = target[t] /\ t \notin Excused /\ gen' = gen
      <3>1. Once(t)
        BY <2>2 DEF TimerInv, OnceInv
      <3>2. EntriesOf(t)' = {}
        BY <1>5, <2>2 DEF Clear
      <3>3. Current(t)' = Current(t) /\ InBatch(t)' = InBatch(t)
        BY <1>2, <2>2 DEF Current, InBatch
      <3> QED BY <1>1, <1>2, <2>2, <3>1, <3>2, <3>3 DEF Once
    <2> QED BY <1>8, <2>1, <2>2 DEF WheelStep, DueOnce
  <1>9. OnceInv'
    BY <1>7, <1>8 DEF OnceInv
  <1>10. ASSUME NEW u \in Timers \ {t} PROVE Pending(u)'
    <2>1. Pending(u)
      BY DEF TimerInv, RegisteredTimersArePending, Pending
    <2> QED BY <1>1, <1>2, <1>6, <2>1 DEF Pending
  <1>11. Pending(t)'
    <2>1. w.reg # None => \E e \in BagToSet(w.heap) : e.token = k /\ e.counter = w.reg
      BY DEF WheelStep, Held
    <2> QED BY <1>1, <1>5, <2>1 DEF Pending
  <1>12. RegisteredTimersArePending'
    BY <1>10, <1>11 DEF RegisteredTimersArePending, Pending
  <1> QED BY <1>9, <1>12

----------------------------------------------------------------------------
(* The steps.                                                              *)

LEMMA WheelStepEffect ==
    ASSUME TypeOK, TimerInv, NEW t \in Timers, NEW k \in Token, k.src = t,
           NEW w, WheelStep(t, k, w),
           deadline' \in [Timers -> Instants \cup {None}], UNCHANGED future,
           pc' \in Phases, pending' \in {"Continue", "Reregister", "Disable"}
    PROVE  TypeOK' /\ TimerInv'
  <1>1. /\ IsABag(heap)' /\ BagToSet(heap)' \subseteq Entries /\ counter' \in Counters
        /\ registration' \in [Timers -> Counters \cup {None}]
        /\ target' \in [Timers -> Instants \cup {None}]
    BY WheelStepCounters
  <1>2. now' \in Instants /\ batch' \in Seq(Token) /\ running' \in Timers \cup {None}
    BY DEF TypeOK, WheelStep
  <1>3. TypeOK'
    BY <1>1, <1>2 DEF TypeOK, WheelStep
  <1>4. CounterInv' /\ TokenInv' /\ PlaceInv' /\ OnceInv' /\ RegisteredTimersArePending'
    BY WheelStepCounters, WheelStepTokens, WheelStepDue
  <1> QED BY <1>3, <1>4 DEF TimerInv

\* The current token of a timer that was inserted, and what it is due for.
LEMMA CurrentFacts ==
    ASSUME TypeOK, TimerInv, NEW t \in Timers, place[t] # "user" \/ running = t
    PROVE  /\ Current(t) \in Token /\ Current(t).src = t /\ Current(t).gen = gen[t]
           /\ WheelOK(t, Current(t), Now(t))
           /\ t \notin Excused => Single(Current(t), Now(t))
  <1>1. gen[t] >= 1 /\ gen[t] \in 0 .. MaxInserts
    BY DEF TypeOK, TimerInv, TokenInv
  <1>2. Current(t) \in Token /\ Current(t).src = t /\ Current(t).gen = gen[t]
    BY <1>1, Constants DEF Current, Token
  <1>3. gen[t] >= gen[t]
    BY <1>1, Constants
  <1>4. WheelOK(t, Current(t), Now(t))
    BY <1>2, <1>3, NowIsOK DEF TimerInv
  <1>5. ASSUME t \notin Excused PROVE Single(Current(t), Now(t))
    <2>1. Once(t)
      BY <1>5 DEF TimerInv, OnceInv
    <2> QED BY <2>1 DEF Once, Single, EntriesOf, Now
  <1> QED BY <1>2, <1>4, <1>5

\* Armed changes the history of one timer.
LEMMA ArmedEffect ==
    ASSUME TypeOK, NEW t \in Timers, Armed(t), batch' = batch, gen' = gen,
           doubled' \in {doubled, doubled \cup {t}}
    PROVE  /\ rearmed' \cup doubled' \subseteq Timers /\ silent' \subseteq Timers
           /\ \A u \in Timers \ {t} : (u \in Excused' <=> u \in Excused) /\ (u \in silent' <=> u \in silent)
           /\ t \notin Excused' => t \notin Excused /\ ~InBatch(t) /\ ~InBatch(t)'
  <1>1. InBatch(t)' = InBatch(t)
    BY DEF InBatch, Current
  <1>2. CASE InBatch(t)
    BY <1>1, <1>2 DEF Armed, TypeOK, Excused
  <1>3. CASE ~InBatch(t)
    BY <1>1, <1>3 DEF Armed, TypeOK, Excused
  <1> QED BY <1>2, <1>3

LEMMA InsertStep ==
    ASSUME TypeOK, TimerInv, NEW t \in Timers, Insert(t)
    PROVE  TypeOK' /\ TimerInv'
  <1>1. PICK g \in Nat : g = gen[t] + 1 /\ g >= 1 /\ g <= MaxInserts /\ g \in 1 .. MaxInserts
    <2>1. gen[t] \in Nat /\ gen[t] + 1 <= MaxInserts
      <3>1. gen[t] \in Nat /\ MaxInserts \in Nat \ {0}
        BY ConstantsAssumption DEF TypeOK
      <3> QED BY <3>1 DEF Insert
    <2> QED BY <2>1, Constants
  <1>2. PICK k \in Token : k = [src |-> t, gen |-> gen[t] + 1] /\ k.src = t /\ k.gen = g
    <2>1. [src |-> t, gen |-> g] \in Token
      BY <1>1 DEF Token
    <2> QED BY <1>1, <2>1
  <1>3. /\ running # t /\ registration[t] = None
        /\ deadline[t] \in Instants \cup {None} /\ counter \in Nat /\ gen[t] \in Nat
    BY Constants DEF Insert, Free, TimerInv, PlaceInv, TypeOK
  <1>4. WheelOK(t, k, Now(t)) /\ Now(t).reg = None
    <2>1. k.gen >= gen[t]
      BY <1>1, <1>2, <1>3
    <2> QED BY <1>2, <1>3, <2>1, NowIsOK DEF TimerInv, Now
  <1>5. Clear(k, Now(t))
    <2>1. \A e \in BagToSet(heap) : e.token.src = t => e.token.gen <= gen[t]
      BY DEF TimerInv, TokenInv
    <2>2. \A e \in BagToSet(heap) : e.token # k
      BY <1>1, <1>2, <1>3, <2>1
    <2> QED BY <2>2 DEF Clear, Now
  <1>6. PICK w : w = Register(k, deadline[t], Now(t))
    OBVIOUS
  <1>7. WheelOK(t, k, w) /\ Held(k, w) /\ Single(k, w)
    BY <1>2, <1>3, <1>4, <1>5, <1>6, RegisterEffect
  <1>8. gen' \in [Timers -> 0 .. MaxInserts] /\ gen'[t] = k.gen /\ gen'[t] >= gen[t]
    <2>1. g \in 0 .. MaxInserts /\ g >= gen[t]
      BY <1>1, <1>3, Constants
    <2> QED BY <1>1, <1>2, <2>1 DEF Insert, TypeOK
  <1>9. ~InBatch(t)'
    <2>1. \A i \in DOMAIN batch : batch[i].src = t => batch[i].gen <= gen[t]
      BY DEF TimerInv, TokenInv
    <2>2. Current(t)' = k
      BY <1>2, <1>8 DEF Current
    <2>3. \A i \in DOMAIN batch : batch[i] # k
      BY <1>1, <1>2, <1>3, <2>1
    <2> QED BY <2>2, <2>3 DEF InBatch, Insert, cycle
  <1>10. WheelStep(t, k, w)
    <2>1. Becomes(t, w)
      BY <1>2, <1>6 DEF Insert
    <2>2. /\ place' \in [Timers -> Places] /\ place'[t] = "enabled"
          /\ \A u \in Timers \ {t} : place'[u] = place[u] /\ gen'[u] = gen[u]
      BY DEF Insert, TypeOK, Places
    <2>3. /\ rearmed' \cup doubled' \subseteq Timers /\ silent' \subseteq Timers
          /\ \A u \in Timers \ {t} : (u \in Excused' <=> u \in Excused) /\ (u \in silent' <=> u \in silent)
      BY DEF Insert, TypeOK, Excused
    <2>4. now' = now /\ batch' = batch /\ running' = running /\ pc' = pc
      BY DEF Insert, cycle
    <2> QED BY <1>3, <1>7, <1>8, <1>9, <2>1, <2>2, <2>3, <2>4 DEF WheelStep, DueOnce
  <1> QED BY <1>2, <1>10, WheelStepEffect DEF Insert, cycle, TypeOK

\* A step that touches neither the wheel nor a registration, and no batch.
LEMMA QuietStep ==
    ASSUME TypeOK, TimerInv, TypeOK', UNCHANGED <<heap, counter, registration, gen, batch, running, target>>,
           Excused \subseteq Excused', silent' = silent, now' >= now,
           running' # None <=> pc' = "callback", pc' \in {"idle", "wait"} => batch' = <<>>,
           \A t \in Timers : place'[t] = place[t] \/ (running = t /\ place'[t] # "disabled")
    PROVE  TimerInv'
  <1>1. \A t \in Timers : Current(t)' = Current(t) /\ InBatch(t)' = InBatch(t) /\ EntriesOf(t)' = EntriesOf(t)
    BY DEF Current, InBatch, EntriesOf, BagToSet
  <1>2. CounterInv'
    BY <1>1 DEF TimerInv, CounterInv, HeapOK, BagToSet, IsABag
  <1>3. TokenInv'
    <2>1. \A t \in Timers : place'[t] # "user" => place[t] # "user" \/ running = t
      OBVIOUS
    <2> QED BY <2>1 DEF TimerInv, TokenInv, BagToSet
  <1>4. PlaceInv'
    <2>1. running # None => place'[running] # "disabled"
      BY DEF TimerInv, PlaceInv, TypeOK
    <2> QED BY <2>1 DEF TimerInv, PlaceInv
  <1>5. ASSUME NEW t \in Timers \ Excused' PROVE Once(t)'
    <2>1. Once(t)
      BY DEF TimerInv, OnceInv
    <2>2. target[t] # None /\ now >= target[t] => now' >= target[t]
      <3>1. now \in Nat /\ now' \in Nat /\ (target[t] # None => target[t] \in Nat)
        BY Constants DEF TypeOK
      <3> QED BY <3>1
    <2> QED BY <1>1, <2>1, <2>2 DEF Once
  <1>6. RegisteredTimersArePending'
    BY <1>1 DEF TimerInv, RegisteredTimersArePending
  <1> QED BY <1>2, <1>3, <1>4, <1>5, <1>6 DEF TimerInv, OnceInv

\* The timer is registered by Enable: once more if it was enabled.
LEMMA EnableStep ==
    ASSUME TypeOK, TimerInv, NEW t \in Timers, Enable(t)
    PROVE  TypeOK' /\ TimerInv'
  <1>1. running # t /\ place[t] \in {"enabled", "disabled"}
    BY DEF Enable, Mine, Free, TypeOK, Places
  <1>2. PICK k \in Token : /\ k = Current(t) /\ k.src = t /\ k.gen = gen[t]
                           /\ WheelOK(t, k, Now(t))
                           /\ t \notin Excused => Single(k, Now(t))
    BY <1>1, CurrentFacts
  <1>3. deadline[t] \in Instants \cup {None} /\ counter \in Nat
    BY Constants DEF TypeOK
  <1>4. PICK w : w = Register(k, deadline[t], Now(t)) /\ Becomes(t, w)
    BY <1>2 DEF Enable
  <1>5. /\ now' = now /\ batch' = batch /\ running' = running /\ pc' = pc /\ gen' = gen
        /\ deadline' = deadline /\ pending' = pending /\ future' = future
        /\ place' = [place EXCEPT ![t] = "enabled"]
        /\ doubled' = IF place[t] = "enabled" THEN doubled \cup {t} ELSE doubled
        /\ deadline[t] = None => rearmed' = rearmed /\ silent' = silent
        /\ deadline[t] # None => Armed(t)
    BY DEF Enable, cycle
  <1>6. /\ rearmed' \cup doubled' \subseteq Timers /\ silent' \subseteq Timers
        /\ \A u \in Timers \ {t} : (u \in Excused' <=> u \in Excused) /\ (u \in silent' <=> u \in silent)
        /\ t \notin Excused' => t \notin Excused
        /\ t \notin Excused' /\ deadline[t] # None => ~InBatch(t)'
    <2>1. CASE deadline[t] = None
      BY <1>5, <2>1 DEF TypeOK, Excused
    <2>2. CASE deadline[t] # None
      BY <1>5, <2>2, ArmedEffect
    <2> QED BY <2>1, <2>2
  <1>7. CASE place[t] = "enabled" /\ deadline[t] = None
    <2>1. w = Now(t)
      BY <1>4, <1>7 DEF Register
    <2>2. UNCHANGED <<heap, counter, registration, target>>
      BY <1>4, <2>1 DEF Becomes, Now, TypeOK
    <2>3. place' = place /\ Excused \subseteq Excused' /\ silent' = silent
      BY <1>5, <1>7 DEF TypeOK, Excused
    <2>4. TypeOK'
      BY <1>5, <1>6, <2>2, <2>3 DEF TypeOK
    <2>5. now' >= now
      BY <1>5, Constants DEF TypeOK
    <2>6. /\ running' # None <=> pc' = "callback"
          /\ pc' \in {"idle", "wait"} => batch' = <<>>
      BY <1>5 DEF TimerInv, PlaceInv
    <2> QED BY <1>5, <2>2, <2>3, <2>4, <2>5, <2>6, QuietStep
  <1>8. CASE place[t] = "disabled" \/ deadline[t] # None
    <2>1. place[t] = "disabled" => Now(t).reg = None
      BY <1>1 DEF TimerInv, PlaceInv, Now
    <2>2. /\ Clear(k, Now(t)) => Single(k, w)
          /\ WheelOK(t, k, w) /\ Held(k, w)
      BY <1>2, <1>3, <1>4, <1>8, <2>1, RegisterEffect
    <2>3. DueOnce(t, k, w)
      <3>1. CASE t \in Excused'
        BY <3>1 DEF DueOnce
      <3>2. CASE t \notin Excused'
        <4>1. place[t] = "disabled" /\ t \notin Excused
          BY <1>1, <1>5, <1>6, <3>2 DEF Excused
        <4>2. Clear(k, Now(t))
          <5>1. \A e \in BagToSet(heap) : e.counter # None
            BY Constants DEF TimerInv, CounterInv, HeapOK, Data
          <5> QED BY <1>2, <2>1, <4>1, <5>1 DEF Single, Clear, Now
        <4>3. CASE deadline[t] = None
          <5>1. w = Now(t) /\ w.due = target[t]
            BY <1>4, <4>3 DEF Register, Now
          <5> QED BY <1>5, <4>1, <4>2, <5>1 DEF DueOnce
        <4>4. CASE deadline[t] # None
          BY <1>6, <2>2, <3>2, <4>2, <4>4 DEF DueOnce
        <4> QED BY <4>3, <4>4
      <3> QED BY <3>1, <3>2
    <2>4. /\ place' \in [Timers -> Places] /\ place'[t] = "enabled"
          /\ \A u \in Timers \ {t} : place'[u] = place[u]
      BY <1>5 DEF TypeOK, Places
    <2>5. gen' \in [Timers -> 0 .. MaxInserts] /\ gen'[t] = k.gen /\ gen'[t] >= gen[t]
      <3>1. gen[t] \in Nat
        BY DEF TypeOK
      <3> QED BY <1>2, <1>5, <3>1 DEF TypeOK
    <2>6. WheelStep(t, k, w)
      BY <1>1, <1>4, <1>5, <1>6, <2>2, <2>3, <2>4, <2>5 DEF WheelStep
    <2> QED BY <1>2, <1>5, <2>6, WheelStepEffect DEF TypeOK
  <1> QED BY <1>1, <1>7, <1>8

\* The timer is registered anew by Update.
LEMMA UpdateStep ==
    ASSUME TypeOK, TimerInv, NEW t \in Timers, Update(t)
    PROVE  TypeOK' /\ TimerInv'
  <1>1. running # t /\ place[t] # "user"
    BY DEF Update, Mine, Free
  <1>2. PICK k \in Token : /\ k = Current(t) /\ k.src = t /\ k.gen = gen[t]
                           /\ WheelOK(t, k, Now(t))
                           /\ t \notin Excused => Single(k, Now(t))
    BY <1>1, CurrentFacts
  <1>3. deadline[t] \in Instants \cup {None} /\ counter \in Nat
    BY Constants DEF TypeOK
  <1>4. PICK w : /\ Becomes(t, w) /\ WheelOK(t, k, w) /\ Held(k, w)
                 /\ t \notin Excused => Single(k, w)
    <2>1. PICK w \in Reregister(k, deadline[t], Now(t)) : Becomes(t, w)
      BY <1>2 DEF Update
    <2>2. WheelOK(t, k, w) /\ Held(k, w) /\ (Single(k, Now(t)) => Single(k, w))
      BY <1>2, <1>3, <2>1, ReregisterEffect
    <2> QED BY <1>2, <2>1, <2>2
  <1>5. /\ now' = now /\ batch' = batch /\ running' = running /\ pc' = pc /\ gen' = gen
        /\ deadline' = deadline /\ pending' = pending /\ future' = future /\ Armed(t)
        /\ doubled' = doubled
        /\ place' = [place EXCEPT ![t] = "enabled"]
    BY DEF Update, cycle
  <1>6. /\ rearmed' \cup doubled' \subseteq Timers /\ silent' \subseteq Timers
        /\ \A u \in Timers \ {t} : (u \in Excused' <=> u \in Excused) /\ (u \in silent' <=> u \in silent)
        /\ t \notin Excused' => t \notin Excused /\ ~InBatch(t) /\ ~InBatch(t)'
    BY <1>5, ArmedEffect
  <1>7. WheelStep(t, k, w)
    <2>1. DueOnce(t, k, w)
      BY <1>4, <1>6 DEF DueOnce
    <2>2. /\ place' \in [Timers -> Places] /\ place'[t] = "enabled"
          /\ \A u \in Timers \ {t} : place'[u] = place[u]
      BY <1>5 DEF TypeOK, Places
    <2>3. gen' \in [Timers -> 0 .. MaxInserts] /\ gen'[t] = k.gen /\ gen'[t] >= gen[t]
      <3>1. gen[t] \in Nat
        BY DEF TypeOK
      <3> QED BY <1>2, <1>5, <3>1 DEF TypeOK
    <2> QED BY <1>1, <1>4, <1>5, <1>6, <2>1, <2>2, <2>3 DEF WheelStep
  <1> QED BY <1>2, <1>5, <1>7, WheelStepEffect DEF TypeOK

LEMMA DisableRemoveStep ==
    ASSUME TypeOK, TimerInv, NEW t \in Timers, Disable(t) \/ Remove(t)
    PROVE  TypeOK' /\ TimerInv'
  <1>1. running # t /\ place[t] # "user"
    BY DEF Disable, Remove, Mine, Free
  <1>2. PICK k \in Token : /\ k = Current(t) /\ k.src = t /\ k.gen = gen[t]
                           /\ WheelOK(t, k, Now(t))
                           /\ t \notin Excused => Single(k, Now(t))
    BY <1>1, CurrentFacts
  <1>3. PICK w \in Unregister(Now(t)) : Becomes(t, w)
    BY DEF Disable, Remove
  <1>4. /\ WheelOK(t, k, w) /\ Held(k, w) /\ w.reg = None /\ w.due = target[t]
        /\ t \notin Excused => Clear(k, w)
    <2>1. Now(t).due = target[t]
      BY DEF Now
    <2> QED BY <1>2, <1>3, <2>1, UnregisterEffect
  <1>5. /\ now' = now /\ batch' = batch /\ running' = running /\ pc' = pc /\ gen' = gen
        /\ deadline' = deadline /\ pending' = pending /\ future' = future
        /\ rearmed' = rearmed /\ doubled' = doubled /\ silent' = silent
    BY DEF Disable, Remove, cycle
  <1>6. WheelStep(t, k, w)
    <2>1. DueOnce(t, k, w) /\ Excused' = Excused
      BY <1>4, <1>5 DEF DueOnce, Excused
    <2>2. place' \in [Timers -> Places] /\ \A u \in Timers \ {t} : place'[u] = place[u]
      BY DEF TypeOK, Places, Disable, Remove
    <2>3. gen' \in [Timers -> 0 .. MaxInserts] /\ gen'[t] = k.gen /\ gen'[t] >= gen[t]
      <3>1. gen[t] \in Nat
        BY DEF TypeOK
      <3> QED BY <1>2, <1>5, <3>1 DEF TypeOK
    <2>4. rearmed \cup doubled \subseteq Timers /\ silent \subseteq Timers
      BY DEF TypeOK
    <2> QED BY <1>1, <1>3, <1>4, <1>5, <2>1, <2>2, <2>3, <2>4 DEF WheelStep
  <1> QED BY <1>2, <1>5, <1>6, WheelStepEffect DEF TypeOK

\* The end of a callback: the timer runs no more.
LEMMA ReturnStep ==
    ASSUME TypeOK, TimerInv, NEW t \in Timers, running = t, CallbackEnds,
           NEW w, WheelOK(t, Current(t), w), Held(Current(t), w), Becomes(t, w),
           DueOnce(t, Current(t), w),
           deadline' \in [Timers -> Instants \cup {None}],
           place' \in [Timers -> Places], place'[t] # "enabled" => w.reg = None,
           rearmed' \cup doubled' \subseteq Timers, silent' \subseteq Timers,
           \A u \in Timers \ {t} : /\ place'[u] = place[u]
                                   /\ (u \in Excused' <=> u \in Excused)
                                   /\ (u \in silent' <=> u \in silent)
    PROVE  TypeOK' /\ TimerInv'
  <1>1. PICK k \in Token : k = Current(t) /\ k.src = t /\ k.gen = gen[t]
    BY CurrentFacts
  <1>2. gen' \in [Timers -> 0 .. MaxInserts] /\ gen'[t] = k.gen /\ gen'[t] >= gen[t]
    <2>1. gen[t] \in Nat
      BY DEF TypeOK
    <2> QED BY <1>1, <2>1 DEF CallbackEnds, TypeOK
  <1>3. /\ now' = now /\ batch' = batch /\ gen' = gen /\ future' = future
        /\ running' = None /\ pc' = "dispatch" /\ pending' = "Continue"
    BY DEF CallbackEnds
  <1>4. WheelStep(t, k, w)
    BY <1>1, <1>2, <1>3 DEF WheelStep
  <1> QED BY <1>1, <1>3, <1>4, WheelStepEffect DEF Phases

LEMMA ReturnDropStep ==
    ASSUME TypeOK, TimerInv, NEW o \in BOOLEAN, ReturnDrop(o)
    PROVE  TypeOK' /\ TimerInv'
  <1>1. PICK t \in Timers : running = t
    BY DEF ReturnDrop, TimerInv, PlaceInv, TypeOK
  <1>2. PICK k \in Token : /\ k = Current(t) /\ k.src = t
                           /\ WheelOK(t, k, Now(t))
                           /\ t \notin Excused => Single(k, Now(t))
    BY <1>1, CurrentFacts
  <1>3. PICK w \in Unregister(Now(t)) : Becomes(t, w)
    BY <1>1 DEF ReturnDrop
  <1>4. /\ WheelOK(t, k, w) /\ Held(k, w) /\ w.reg = None /\ w.due = target[t]
        /\ t \notin Excused => Clear(k, w)
    <2>1. Now(t).due = target[t]
      BY DEF Now
    <2> QED BY <1>2, <1>3, <2>1, UnregisterEffect
  <1>5. /\ rearmed' = rearmed /\ doubled' = doubled /\ silent' = silent /\ gen' = gen /\ CallbackEnds
        /\ place' = [place EXCEPT ![t] = "user"]
        /\ deadline' = [deadline EXCEPT ![t] = None] \/ deadline' = deadline
    BY <1>1 DEF ReturnDrop, CallbackEnds
  <1>6. DueOnce(t, k, w) /\ Excused' = Excused
    BY <1>4, <1>5 DEF DueOnce, Excused
  <1>7. deadline' \in [Timers -> Instants \cup {None}] /\ place' \in [Timers -> Places]
    BY <1>5 DEF TypeOK, Places
  <1>8. /\ rearmed' \cup doubled' \subseteq Timers /\ silent' \subseteq Timers
        /\ \A u \in Timers \ {t} : /\ place'[u] = place[u]
                                   /\ (u \in Excused' <=> u \in Excused)
                                   /\ (u \in silent' <=> u \in silent)
    BY <1>5, <1>6 DEF TypeOK
  <1> QED BY <1>1, <1>2, <1>3, <1>4, <1>5, <1>6, <1>7, <1>8, ReturnStep

LEMMA ReturnAgainStep ==
    ASSUME TypeOK, TimerInv, NEW d \in Instants, ReturnAgain(d)
    PROVE  TypeOK' /\ TimerInv'
  <1>1. PICK t \in Timers : running = t
    BY DEF ReturnAgain, TimerInv, PlaceInv, TypeOK
  <1>2. PICK k \in Token : /\ k = Current(t) /\ k.src = t
                           /\ t \notin Excused => Single(k, Now(t))
    BY <1>1, CurrentFacts
  <1>3. PICK w : w = Again(t, d)
    OBVIOUS
  <1>4. /\ WheelOK(t, k, w) /\ Held(k, w)
        /\ EntriesOf(t) = {} => Single(k, w)
    <2>1. registration[t] # None
      BY <1>1, Constants DEF TimerInv, PlaceInv
    <2> QED BY <1>2, <1>3, <2>1, AgainEffect DEF TimerInv
  <1>5. /\ CallbackEnds /\ Armed(t) /\ deadline' = [deadline EXCEPT ![t] = d]
        /\ place' = IF place[t] # "user" /\ pending # "Continue"
                    THEN [place EXCEPT ![t] = IF pending = "Disable" THEN "disabled" ELSE "enabled"]
                    ELSE place
    BY <1>1 DEF ReturnAgain
  <1>6. PICK v : /\ \/ pending = "Reregister" /\ v \in Reregister(k, d, w)
                    \/ pending = "Disable" /\ v \in Unregister(w)
                    \/ pending = "Continue" /\ v = w
                 /\ \E u \in IF place[t] = "user" THEN Unregister(v) ELSE {v} : Becomes(t, u)
    BY <1>1, <1>2, <1>3 DEF ReturnAgain, Again, TypeOK
  <1>7. /\ WheelOK(t, k, v) /\ Held(k, v)
        /\ Single(k, w) => Single(k, v)
        /\ pending = "Disable" => v.reg = None
    <2>1. CASE pending = "Reregister" /\ v \in Reregister(k, d, w)
      <3>1. counter \in Nat
        BY Constants DEF TypeOK
      <3> QED BY <1>2, <1>4, <2>1, <3>1, ReregisterEffect
    <2>2. CASE pending = "Disable" /\ v \in Unregister(w)
      <3>1. Clear(k, v) => Single(k, v)
        BY DEF Clear, Single
      <3> QED BY <1>2, <1>4, <2>2, <3>1, UnregisterEffect
    <2>3. CASE pending = "Continue" /\ v = w
      BY <1>4, <2>3
    <2> QED BY <1>6, <2>1, <2>2, <2>3
  <1>8. PICK x : /\ Becomes(t, x)
                 /\ \/ place[t] = "user" /\ x \in Unregister(v)
                    \/ place[t] # "user" /\ x = v
    BY <1>6
  <1>9. /\ WheelOK(t, k, x) /\ Held(k, x)
        /\ Single(k, w) => Single(k, x)
        /\ place[t] = "user" \/ pending = "Disable" => x.reg = None
    <2>1. CASE place[t] = "user" /\ x \in Unregister(v)
      <3>1. Clear(k, x) => Single(k, x)
        BY DEF Clear, Single
      <3> QED BY <1>2, <1>7, <2>1, <3>1, UnregisterEffect
    <2>2. CASE place[t] # "user" /\ x = v
      BY <1>7, <2>2
    <2> QED BY <1>8, <2>1, <2>2
  <1>10. /\ rearmed' \cup doubled' \subseteq Timers /\ silent' \subseteq Timers
         /\ \A u \in Timers \ {t} : (u \in Excused' <=> u \in Excused) /\ (u \in silent' <=> u \in silent)
         /\ t \notin Excused' => t \notin Excused /\ ~InBatch(t) /\ ~InBatch(t)'
    BY <1>5, ArmedEffect DEF CallbackEnds
  <1>11. DueOnce(t, k, x)
    <2>1. t \notin Excused => EntriesOf(t) = {}
      BY <1>1 DEF TimerInv, OnceInv, Once
    <2> QED BY <1>4, <1>9, <1>10, <2>1 DEF DueOnce
  <1>12. place' \in [Timers -> Places] /\ \A u \in Timers \ {t} : place'[u] = place[u]
    BY <1>5 DEF TypeOK, Places
  <1>13. ASSUME place'[t] # "enabled" PROVE x.reg = None
    <2>1. place[t] # "disabled"
      BY <1>1, Constants DEF TimerInv, PlaceInv
    <2>2. CASE place[t] = "user"
      BY <1>9, <2>2
    <2>3. CASE place[t] = "enabled"
      BY <1>5, <1>9, <1>13, <2>3 DEF TypeOK
    <2> QED BY <2>1, <2>2, <2>3 DEF TypeOK, Places
  <1>14. deadline' \in [Timers -> Instants \cup {None}]
    BY <1>5 DEF TypeOK
  <1> QED BY <1>1, <1>2, <1>5, <1>8, <1>9, <1>10, <1>11, <1>12, <1>13, <1>14, ReturnStep

LEMMA QuietSteps ==
    ASSUME TypeOK, TimerInv,
           \/ \E t \in Timers, d \in Instants \cup {None} : SetDeadline(t, d)
           \/ Defer("Reregister") \/ Defer("Disable") \/ RemoveSelf
           \/ \E t \in Timeouts : PollFuture(t)
           \/ StartWait \/ OthersDone \/ EndDispatch \/ Tick
           \/ UNCHANGED vars
    PROVE  TypeOK' /\ TimerInv'
  <1>1. now \in Nat /\ now >= now
    BY Constants DEF TypeOK
  <1>2. /\ running # None <=> pc = "callback"
        /\ pc \in {"idle", "wait"} => batch = <<>>
    BY DEF TimerInv, PlaceInv
  <1>3. CASE \E t \in Timers, d \in Instants \cup {None} : SetDeadline(t, d)
    <2>1. PICK t \in Timers, d \in Instants \cup {None} : SetDeadline(t, d)
      BY <1>3
    <2>2. TypeOK'
      BY <2>1 DEF SetDeadline, TypeOK, wheel, cycle, trace
    <2> QED BY <1>1, <1>2, <2>1, <2>2, QuietStep DEF SetDeadline, Excused, wheel, cycle, trace
  <1>4. CASE Defer("Reregister") \/ Defer("Disable")
    <2>1. TypeOK'
      BY <1>4 DEF Defer, TypeOK, wheel, timer, cycle, trace
    <2> QED BY <1>1, <1>2, <1>4, <2>1, QuietStep DEF Defer, Excused, wheel, timer, cycle, trace
  <1>5. CASE RemoveSelf
    <2>1. running \in Timers
      BY <1>2, <1>5 DEF RemoveSelf, TypeOK
    <2>2. TypeOK'
      BY <1>5, <2>1 DEF RemoveSelf, TypeOK, Places, wheel, cycle, trace
    <2>3. \A t \in Timers : place'[t] = place[t] \/ (running = t /\ place'[t] # "disabled")
      BY <1>5, <2>1 DEF RemoveSelf, TypeOK
    <2> QED BY <1>1, <1>2, <1>5, <2>2, <2>3, QuietStep DEF RemoveSelf, Excused, wheel, cycle, trace
  <1>6. CASE \E t \in Timeouts : PollFuture(t)
    <2>1. PICK t \in Timeouts : PollFuture(t)
      BY <1>6
    <2>2. TypeOK'
      BY <2>1 DEF PollFuture, TypeOK, Futures, wheel, timer, cycle, trace
    <2> QED BY <1>1, <1>2, <2>1, <2>2, QuietStep DEF PollFuture, Excused, wheel, timer, cycle, trace
  <1>7. CASE StartWait \/ OthersDone \/ EndDispatch
    <2>1. TypeOK'
      BY <1>7 DEF StartWait, OthersDone, EndDispatch, TypeOK, Phases, wheel, timer, trace
    <2>2. UNCHANGED <<now, heap, counter, registration, place, gen, batch, running, target, rearmed, doubled, silent>>
      BY <1>7 DEF StartWait, OthersDone, EndDispatch, wheel, timer, trace
    <2>3. /\ pc # "callback" /\ pc' # "callback"
          /\ pc' \in {"idle", "wait"} => batch = <<>>
      BY <1>2, <1>7 DEF StartWait, OthersDone, EndDispatch
    <2> QED BY <1>1, <1>2, <2>1, <2>2, <2>3, QuietStep DEF Excused
  <1>8. CASE Tick
    <2>1. now' \in Instants /\ now' >= now
      BY <1>1, <1>8, Constants DEF Tick, TypeOK, Instants
    <2>2. TypeOK'
      BY <1>8, <2>1 DEF Tick, TypeOK, wheel, timer, cycle, trace
    <2> QED BY <1>2, <1>8, <2>1, <2>2, QuietStep DEF Tick, Excused, wheel, timer, cycle, trace
  <1>9. CASE UNCHANGED vars
    <2>1. TypeOK'
      BY <1>9 DEF vars, TypeOK, wheel, timer, cycle, trace
    <2> QED BY <1>1, <1>2, <1>9, <2>1, QuietStep DEF vars, Excused, wheel, timer, cycle, trace
  <1> QED BY <1>3, <1>4, <1>5, <1>6, <1>7, <1>8, <1>9

\* The poll moves what expired from the heap into the batch.
LEMMA PopStep ==
    ASSUME TypeOK, TimerInv, pc = "wait", PopExpired
    PROVE  TypeOK' /\ TimerInv'
  <1>1. PICK q \in Orders(Expired) : batch' = [i \in DOMAIN q |-> q[i].token]
    BY DEF PopExpired
  <1>2. /\ HeapOK(heap, counter) /\ counter \in Nat
        /\ running = None /\ batch = <<>>
    BY Constants DEF TypeOK, TimerInv, CounterInv, PlaceInv
  <1>3. /\ UNCHANGED <<now, counter, deadline, registration, place, gen, running, pending, future>>
        /\ UNCHANGED <<target, rearmed, doubled, silent>> /\ pc' = "others" /\ heap' = heap (-) Expired
    BY DEF PopExpired, timer, trace
  <1>4. /\ HeapOK(Expired, counter)
        /\ BagToSet(Expired) = {e \in BagToSet(heap) : e.deadline <= now}
        /\ \A e \in BagToSet(Expired) : Expired[e] = heap[e]
        /\ HeapOK(heap (-) Expired, counter)
        /\ BagToSet(heap (-) Expired) = {e \in BagToSet(heap) : ~(e.deadline <= now)}
        /\ \A e \in BagToSet(heap (-) Expired) : (heap (-) Expired)[e] = heap[e]
    BY <1>2, ExpiredEffect
  <1>5. /\ HeapOK(heap', counter)
        /\ BagToSet(heap)' = {e \in BagToSet(heap) : ~(e.deadline <= now)}
        /\ \A e \in BagToSet(heap)' : heap'[e] = heap[e]
    <2>1. BagToSet(heap)' = BagToSet(heap (-) Expired)
      BY <1>3 DEF BagToSet
    <2> QED BY <1>3, <1>4, <2>1
  <1>6. /\ q \in Seq(BagToSet(Expired))
        /\ \A e \in BagToSet(Expired) : \E i \in DOMAIN q : q[i] = e
        /\ \A e \in BagToSet(Expired) : Expired[e] = 1 =>
               \A i, j \in DOMAIN q : q[i] = e /\ q[j] = e => i = j
    BY <1>1, <1>2, <1>4, OrdersEffect
  <1>7. /\ DOMAIN batch' = DOMAIN q
        /\ \A i \in DOMAIN q : /\ q[i] \in BagToSet(heap) /\ q[i].deadline <= now
                               /\ q[i] \in Data /\ batch'[i] = q[i].token
    BY <1>1, <1>2, <1>4, <1>6 DEF HeapOK
  <1>8. batch' \in Seq(Token)
    <2>1. PICK n \in Nat : DOMAIN q = 1 .. n
      BY <1>6, LenProperties
    <2>2. \A i \in 1 .. n : batch'[i] \in Token
      BY <1>7, <2>1 DEF Data
    <2>3. batch' = [i \in 1 .. n |-> batch'[i]]
      BY <1>1, <2>1
    <2> QED BY <2>2, <2>3, SeqDef
  <1>9. TypeOK'
    <2>1. IsABag(heap)' /\ BagToSet(heap)' \subseteq Entries
      BY <1>5 DEF HeapOK, IsABag, TypeOK
    <2> QED BY <1>3, <1>8, <2>1 DEF TypeOK, Phases
  <1>10. \A t \in Timers : Current(t)' = Current(t)
    BY <1>3 DEF Current
  <1>11. \A t \in Timers : EntriesOf(t)' = {e \in EntriesOf(t) : ~(e.deadline <= now)}
    BY <1>5, <1>10 DEF EntriesOf
  <1>12. CounterInv'
    <2>1. HeapOK(heap, counter)'
      BY <1>3, <1>5 DEF HeapOK, IsABag, BagToSet
    <2> QED BY <1>3, <1>5, <1>10, <2>1 DEF TimerInv, CounterInv
  <1>13. TokenInv'
    BY <1>3, <1>5, <1>7 DEF TimerInv, TokenInv
  <1>14. PlaceInv'
    BY <1>2, <1>3 DEF TimerInv, PlaceInv
  <1>15. ASSUME NEW t \in Timers \ Excused PROVE Once(t)'
    <2>1. Once(t)
      BY DEF TimerInv, OnceInv
    <2>2. \A i \in DOMAIN q : q[i].token = Current(t) => q[i] \in EntriesOf(t)
      BY <1>7 DEF EntriesOf
    <2>3. ASSUME NEW i \in DOMAIN q, q[i].token = Current(t)
          PROVE  /\ EntriesOf(t)' = {} /\ target[t] # None /\ now >= target[t]
                 /\ \A j \in DOMAIN q : q[j].token = Current(t) => i = j
      <3>1. /\ heap[q[i]] = 1 /\ q[i].deadline = target[t] /\ q[i] \in BagToSet(Expired)
            /\ \A f \in EntriesOf(t) : f = q[i]
        BY <1>4, <1>7, <2>1, <2>2, <2>3 DEF Once
      <3>2. target[t] # None /\ now >= target[t]
        <4>1. q[i].deadline \in Nat /\ now \in Nat
          BY <1>7, Constants DEF Data, TypeOK
        <4> QED BY <1>7, <3>1, <4>1, Constants
      <3>3. EntriesOf(t)' = {}
        BY <1>7, <1>11, <3>1
      <3>4. ASSUME NEW j \in DOMAIN q, q[j].token = Current(t) PROVE i = j
        <4>1. q[j] = q[i] /\ Expired[q[i]] = 1
          BY <1>4, <2>2, <3>1, <3>4
        <4> QED BY <1>6, <3>1, <4>1
      <3> QED BY <3>2, <3>3, <3>4
    <2>4. \A e \in EntriesOf(t)' : e \in EntriesOf(t) /\ heap'[e] = heap[e]
      BY <1>5, <1>11 DEF EntriesOf
    <2> QED BY <1>2, <1>3, <1>7, <1>10, <2>1, <2>3, <2>4, Constants DEF Once, InBatch
  <1>16. ASSUME NEW t \in Timers PROVE Pending(t)'
    <2>1. ASSUME registration[t] # None, t \notin silent
          PROVE  (\E e \in EntriesOf(t)' : e.counter = registration[t]) \/ InBatch(t)'
      <3>1. PICK e \in EntriesOf(t) : e.counter = registration[t]
        BY <1>2, <2>1, Constants DEF TimerInv, RegisteredTimersArePending, InBatch
      <3>2. CASE e.deadline <= now
        <4>1. e \in BagToSet(Expired) /\ e.token = Current(t)
          BY <1>4, <3>2 DEF EntriesOf
        <4>2. PICK i \in DOMAIN q : q[i] = e
          BY <1>6, <4>1
        <4> QED BY <1>7, <1>10, <4>1, <4>2 DEF InBatch
      <3>3. CASE ~(e.deadline <= now)
        BY <1>11, <3>1, <3>3
      <3> QED BY <3>2, <3>3
    <2> QED BY <1>3, <2>1 DEF Pending
  <1>17. OnceInv' /\ RegisteredTimersArePending'
    BY <1>3, <1>15, <1>16 DEF OnceInv, Excused, RegisteredTimersArePending, Pending
  <1> QED BY <1>9, <1>12, <1>13, <1>14, <1>17 DEF TimerInv

LEMMA TailFacts ==
    ASSUME NEW q \in Seq(Token), q # <<>>
    PROVE  /\ Head(q) \in Token /\ Head(q) = q[1] /\ 1 \in DOMAIN q /\ Tail(q) \in Seq(Token)
           /\ \A i \in DOMAIN Tail(q) : i \in Nat /\ i >= 1 /\ i + 1 \in DOMAIN q /\ Tail(q)[i] = q[i + 1]
           /\ \A i \in DOMAIN q : i # 1 => i - 1 \in DOMAIN Tail(q) /\ Tail(q)[i - 1] = q[i]
  <1>1. /\ Head(q) \in Token /\ Tail(q) \in Seq(Token) /\ Head(q) = q[1]
        /\ Len(Tail(q)) = Len(q) - 1 /\ \A i \in 1 .. Len(Tail(q)) : Tail(q)[i] = q[i + 1]
    BY HeadTailProperties
  <1>2. DOMAIN q = 1 .. Len(q) /\ DOMAIN Tail(q) = 1 .. Len(Tail(q)) /\ Len(q) \in Nat /\ Len(q) # 0
    BY <1>1, LenProperties, EmptySeq
  <1> QED BY <1>1, <1>2

\* The batch loses its first event, in SkipEvent and BeginCallback.
LEMMA TailStep ==
    ASSUME TypeOK, TimerInv, batch # <<>>, batch' = Tail(batch), running = None,
           UNCHANGED <<now, heap, counter, registration, place, gen, target, rearmed, doubled>>
    PROVE  /\ CounterInv' /\ batch' \in Seq(Token)
           /\ \A i \in DOMAIN batch' : batch'[i].gen <= gen'[batch'[i].src]
           /\ \A t \in Timers :
                /\ Current(t)' = Current(t) /\ EntriesOf(t)' = EntriesOf(t)
                /\ InBatch(t)' => InBatch(t)
                /\ InBatch(t) => InBatch(t)' \/ Head(batch) = Current(t)
                /\ t \notin Excused =>
                     /\ (running' = t => Head(batch) = Current(t)) => Once(t)'
                     /\ Head(batch) = Current(t) => ~InBatch(t)'
  <1>1. /\ Head(batch) = batch[1] /\ 1 \in DOMAIN batch /\ Tail(batch) \in Seq(Token)
        /\ \A i \in DOMAIN batch' : i \in Nat /\ i >= 1 /\ i + 1 \in DOMAIN batch /\ batch'[i] = batch[i + 1]
        /\ \A i \in DOMAIN batch : i # 1 => i - 1 \in DOMAIN batch' /\ batch'[i - 1] = batch[i]
    BY TailFacts DEF TypeOK
  <1>2. CounterInv'
    BY DEF TimerInv, CounterInv, HeapOK, BagToSet, IsABag, Current
  <1>3. \A i \in DOMAIN batch' : batch'[i].gen <= gen'[batch'[i].src]
    BY <1>1 DEF TimerInv, TokenInv
  <1>4. ASSUME NEW t \in Timers
        PROVE  /\ Current(t)' = Current(t) /\ EntriesOf(t)' = EntriesOf(t)
               /\ InBatch(t)' => InBatch(t)
               /\ InBatch(t) => InBatch(t)' \/ Head(batch) = Current(t)
    <2>1. Current(t)' = Current(t) /\ EntriesOf(t)' = EntriesOf(t)
      BY DEF Current, EntriesOf, BagToSet
    <2> QED BY <1>1, <2>1 DEF InBatch
  <1>5. ASSUME NEW t \in Timers, t \notin Excused, Head(batch) = Current(t)
        PROVE  ~InBatch(t)' /\ EntriesOf(t) = {}
    <2>1. Once(t)
      BY <1>5 DEF TimerInv, OnceInv
    <2>2. ASSUME NEW i \in DOMAIN batch', batch'[i] = Current(t) PROVE FALSE
      <3>1. i \in Nat /\ i >= 1 /\ i + 1 \in DOMAIN batch /\ batch[i + 1] = Current(t)
        BY <1>1, <2>2
      <3>2. i + 1 = 1
        BY <1>1, <1>5, <2>1, <3>1 DEF Once
      <3> QED BY <3>1, <3>2
    <2>3. InBatch(t)
      BY <1>1, <1>5 DEF InBatch
    <2> QED BY <1>4, <2>1, <2>2, <2>3 DEF InBatch, Once
  <1>6. ASSUME NEW t \in Timers, t \notin Excused, running' = t => Head(batch) = Current(t)
        PROVE  Once(t)'
    <2>1. Once(t)
      BY <1>6 DEF TimerInv, OnceInv
    <2>2. ASSUME NEW i \in DOMAIN batch', NEW j \in DOMAIN batch',
                 batch'[i] = Current(t), batch'[j] = Current(t)
          PROVE  i = j
      <3>1. /\ i + 1 \in DOMAIN batch /\ batch[i + 1] = Current(t) /\ i \in Nat
            /\ j + 1 \in DOMAIN batch /\ batch[j + 1] = Current(t) /\ j \in Nat
        BY <1>1, <2>2
      <3>2. i + 1 = j + 1
        BY <2>1, <3>1 DEF Once
      <3> QED BY <3>1, <3>2
    <2>3. running' = t => EntriesOf(t)' = {} /\ ~InBatch(t)'
      BY <1>4, <1>5, <1>6
    <2> QED BY <1>4, <2>1, <2>2, <2>3 DEF Once
  <1> QED BY <1>1, <1>2, <1>3, <1>4, <1>5, <1>6

LEMMA SkipEventStep ==
    ASSUME TypeOK, TimerInv, SkipEvent
    PROVE  TypeOK' /\ TimerInv'
  <1>1. /\ pc = "dispatch" /\ batch # <<>> /\ batch' = Tail(batch)
        /\ ~(Resolves(Head(batch)) /\ Fires(Head(batch).src))
        /\ silent' = IF Resolves(Head(batch)) THEN silent \cup {Head(batch).src} ELSE silent
        /\ UNCHANGED <<now, heap, counter, deadline, registration, place, gen, pc, running>>
        /\ UNCHANGED <<pending, future, target, rearmed, doubled>>
    BY DEF SkipEvent, wheel, timer
  <1>2. running = None
    BY <1>1 DEF TimerInv, PlaceInv
  <1>3. Head(batch) \in Token
    BY <1>1, TailFacts DEF TypeOK
  <1>4. /\ CounterInv' /\ batch' \in Seq(Token)
        /\ \A i \in DOMAIN batch' : batch'[i].gen <= gen'[batch'[i].src]
        /\ \A t \in Timers :
             /\ Current(t)' = Current(t) /\ EntriesOf(t)' = EntriesOf(t)
             /\ InBatch(t) => InBatch(t)' \/ Head(batch) = Current(t)
             /\ t \notin Excused => ((running' = t => Head(batch) = Current(t)) => Once(t)')
    BY <1>1, <1>2, TailStep
  <1>5. TypeOK'
    BY <1>1, <1>3, <1>4 DEF TypeOK, Token
  <1>6. TokenInv' /\ PlaceInv'
    <2>1. BagToSet(heap)' = BagToSet(heap)
      BY <1>1 DEF BagToSet
    <2>2. TokenInv'
      BY <1>1, <1>4, <2>1 DEF TimerInv, TokenInv
    <2> QED BY <1>1, <1>2, <2>2 DEF TimerInv, PlaceInv
  <1>7. OnceInv'
    BY <1>1, <1>2, <1>4, Constants DEF OnceInv, Excused
  <1>8. ASSUME NEW t \in Timers PROVE Pending(t)'
    <2>1. ASSUME registration[t] # None, t \notin silent'
          PROVE  (\E e \in EntriesOf(t) : e.counter = registration[t]) \/ InBatch(t)'
      <3>1. t \notin silent
        BY <1>1, <2>1
      <3>2. (\E e \in EntriesOf(t) : e.counter = registration[t]) \/ InBatch(t)
        BY <1>2, <2>1, <3>1, Constants DEF TimerInv, RegisteredTimersArePending
      <3>3. Head(batch) # Current(t)
        <4>1. place[t] # "user"
          BY <1>2, <2>1, Constants DEF TimerInv, PlaceInv
        <4>2. Head(batch) = Current(t) => Resolves(Head(batch)) /\ Head(batch).src = t
          BY <4>1 DEF Resolves, Current
        <4> QED BY <1>1, <2>1, <4>2
      <3> QED BY <1>4, <3>2, <3>3
    <2> QED BY <1>1, <1>4, <2>1 DEF Pending
  <1> QED BY <1>4, <1>5, <1>6, <1>7, <1>8 DEF TimerInv, RegisteredTimersArePending, Pending

LEMMA BeginCallbackStep ==
    ASSUME TypeOK, TimerInv, BeginCallback
    PROVE  TypeOK' /\ TimerInv'
  <1>1. PICK r \in Timers : /\ r = Head(batch).src /\ batch # <<>> /\ Head(batch) \in Token
                            /\ Head(batch) = Current(r)
    <2>1. Head(batch) \in Token /\ batch # <<>>
      BY TailFacts DEF TypeOK, BeginCallback
    <2>2. Head(batch) = [src |-> Head(batch).src, gen |-> Head(batch).gen]
      BY <2>1 DEF Token
    <2> QED BY <2>1, <2>2 DEF BeginCallback, Resolves, Current, Token
  <1>2. /\ pc = "dispatch" /\ pc' = "callback" /\ running' = r /\ batch' = Tail(batch)
        /\ place[r] # "user" /\ registration[r] # None
        /\ UNCHANGED <<now, heap, counter, deadline, registration, place, gen>>
        /\ UNCHANGED <<pending, target, rearmed, doubled, silent>>
    BY <1>1 DEF BeginCallback, Resolves, Fires, wheel, timer, trace
  <1>3. running = None
    BY <1>2 DEF TimerInv, PlaceInv
  <1>4. /\ CounterInv' /\ batch' \in Seq(Token)
        /\ \A i \in DOMAIN batch' : batch'[i].gen <= gen'[batch'[i].src]
        /\ \A t \in Timers :
             /\ Current(t)' = Current(t) /\ EntriesOf(t)' = EntriesOf(t)
             /\ InBatch(t) => InBatch(t)' \/ Head(batch) = Current(t)
             /\ t \notin Excused => ((running' = t => Head(batch) = Current(t)) => Once(t)')
    BY <1>1, <1>2, <1>3, TailStep
  <1>5. TypeOK'
    <2>1. future' \in [Timeouts -> Futures]
      BY DEF BeginCallback, TypeOK, Futures
    <2> QED BY <1>2, <1>4, <2>1 DEF TypeOK, Phases
  <1>6. TokenInv' /\ PlaceInv'
    <2>1. BagToSet(heap)' = BagToSet(heap)
      BY <1>2 DEF BagToSet
    <2>2. TokenInv'
      BY <1>2, <1>4, <2>1 DEF TimerInv, TokenInv
    <2>3. place[r] # "disabled"
      BY <1>2, <1>3, Constants DEF TimerInv, PlaceInv
    <2> QED BY <1>2, <1>3, <2>2, <2>3, Constants DEF TimerInv, PlaceInv
  <1>7. OnceInv'
    BY <1>1, <1>2, <1>4 DEF OnceInv, Excused
  <1>8. ASSUME NEW t \in Timers PROVE Pending(t)'
    <2>1. ASSUME registration[t] # None, t \notin silent, t # r
          PROVE  (\E e \in EntriesOf(t) : e.counter = registration[t]) \/ InBatch(t)'
      <3>1. (\E e \in EntriesOf(t) : e.counter = registration[t]) \/ InBatch(t)
        BY <1>3, <2>1, Constants DEF TimerInv, RegisteredTimersArePending
      <3>2. Head(batch) # Current(t)
        BY <1>1, <2>1 DEF Current
      <3> QED BY <1>4, <3>1, <3>2
    <2> QED BY <1>2, <1>4, <2>1 DEF Pending
  <1> QED BY <1>4, <1>5, <1>6, <1>7, <1>8 DEF TimerInv, RegisteredTimersArePending, Pending

LEMMA DispatchErrorStep ==
    ASSUME TypeOK, TimerInv, DispatchError
    PROVE  TypeOK' /\ TimerInv'
  <1>1. /\ pc \in {"others", "dispatch"} /\ pc' = "idle" /\ batch' = <<>>
        /\ silent' = silent \cup {t \in Timers : InBatch(t)}
        /\ UNCHANGED <<now, heap, counter, deadline, registration, place, gen, running>>
        /\ UNCHANGED <<pending, future, target, rearmed, doubled>>
    BY DEF DispatchError, wheel, timer
  <1>2. running = None
    BY <1>1 DEF TimerInv, PlaceInv
  <1>3. DOMAIN batch' = {} /\ batch' \in Seq(Token)
    BY <1>1, EmptySeq
  <1>4. \A t \in Timers : Current(t)' = Current(t) /\ EntriesOf(t)' = EntriesOf(t) /\ ~InBatch(t)'
    BY <1>1, <1>3 DEF Current, EntriesOf, InBatch, BagToSet
  <1>5. TypeOK'
    BY <1>1, <1>3 DEF TypeOK, Phases
  <1>6. CounterInv' /\ TokenInv' /\ PlaceInv'
    <2>1. CounterInv'
      BY <1>1, <1>4 DEF TimerInv, CounterInv, HeapOK, BagToSet, IsABag
    <2>2. TokenInv'
      BY <1>1, <1>3 DEF TimerInv, TokenInv, BagToSet
    <2> QED BY <1>1, <1>2, <2>1, <2>2 DEF TimerInv, PlaceInv
  <1>7. ASSUME NEW t \in Timers \ Excused PROVE Once(t)'
    <2>1. Once(t)
      BY DEF TimerInv, OnceInv
    <2> QED BY <1>1, <1>3, <1>4, <2>1 DEF Once
  <1>8. RegisteredTimersArePending'
    <2>1. \A t \in Timers : t \notin silent' => t \notin silent /\ ~InBatch(t)
      BY <1>1
    <2> QED BY <1>1, <1>4, <2>1 DEF TimerInv, RegisteredTimersArePending
  <1> QED BY <1>1, <1>5, <1>6, <1>7, <1>8 DEF TimerInv, OnceInv, Excused

----------------------------------------------------------------------------
(* The theorems.                                                           *)

LEMMA InitHolds == Init => TypeOK /\ TimerInv
  <1> SUFFICES ASSUME Init PROVE TypeOK /\ TimerInv
    OBVIOUS
  <1>1. heap = [e \in {} |-> 1] /\ DOMAIN heap = {} /\ IsABag(heap)
    BY DEF Init, EmptyBag, SetToBag, IsABag
  <1>2. BagToSet(heap) = {} /\ batch = <<>> /\ DOMAIN batch = {} /\ batch \in Seq(Token)
    BY <1>1, EmptySeq DEF Init, BagToSet
  <1>3. TypeOK
    <2>1. 0 \in Instants /\ 0 \in Counters /\ 0 \in 0 .. MaxInserts
      BY Constants DEF Instants, Counters
    <2> QED BY <1>1, <1>2, <2>1 DEF Init, TypeOK, Places, Phases, Futures
  <1>4. CounterInv /\ TokenInv /\ PlaceInv
    <2>1. HeapOK(heap, counter)
      BY <1>1, <1>2, FS_EmptySet DEF HeapOK
    <2>2. CounterInv
      BY <1>2, <2>1 DEF Init, CounterInv
    <2>3. TokenInv
      BY <1>2, Constants DEF Init, TokenInv
    <2>4. PlaceInv
      BY Constants DEF Init, PlaceInv
    <2> QED BY <2>2, <2>3, <2>4
  <1>5. OnceInv /\ RegisteredTimersArePending
    <2>1. \A t \in Timers : EntriesOf(t) = {} /\ ~InBatch(t) /\ running # t
      BY <1>2, Constants DEF Init, EntriesOf, InBatch
    <2> QED BY <1>2, <2>1 DEF Init, OnceInv, Once, RegisteredTimersArePending
  <1> QED BY <1>3, <1>4, <1>5 DEF TimerInv

LEMMA NextHolds == TypeOK /\ TimerInv /\ [Next]_vars => TypeOK' /\ TimerInv'
  <1> SUFFICES ASSUME TypeOK, TimerInv, [Next]_vars PROVE TypeOK' /\ TimerInv'
    OBVIOUS
  <1>1. CASE UserStep
    <2>1. CASE \E t \in Timers : Insert(t)
      BY <2>1, InsertStep
    <2>2. CASE \E t \in Timers : Enable(t) \/ Update(t)
      BY <2>2, EnableStep, UpdateStep
    <2>3. CASE \E t \in Timers : Disable(t) \/ Remove(t)
      BY <2>3, DisableRemoveStep
    <2>4. CASE \/ \E t \in Timers, d \in Instants \cup {None} : SetDeadline(t, d)
               \/ Defer("Reregister") \/ Defer("Disable") \/ RemoveSelf
               \/ \E t \in Timeouts : PollFuture(t)
      BY <2>4, QuietSteps
    <2> QED BY <1>1, <2>1, <2>2, <2>3, <2>4 DEF UserStep
  <1>2. CASE Return
    BY <1>2, ReturnDropStep, ReturnAgainStep DEF Return
  <1>3. CASE WaitExpires \/ WaitInterrupted
    BY <1>3, PopStep DEF WaitExpires, WaitInterrupted
  <1>4. CASE StartWait \/ OthersDone \/ EndDispatch \/ Tick \/ UNCHANGED vars
    BY <1>4, QuietSteps
  <1>5. CASE SkipEvent
    BY <1>5, SkipEventStep
  <1>6. CASE BeginCallback
    BY <1>6, BeginCallbackStep
  <1>7. CASE DispatchError
    BY <1>7, DispatchErrorStep
  <1> QED BY <1>1, <1>2, <1>3, <1>4, <1>5, <1>6, <1>7 DEF Next, LoopStep

LEMMA InvHolds == Spec => [](TypeOK /\ TimerInv)
  BY InitHolds, NextHolds, PTL DEF Spec

\* Every variable keeps its type.
THEOREM TypeCorrect == Spec => []TypeOK
  BY InvHolds, PTL

\* A registered timer is in the heap under its counter, or its expiry is in the batch
\* or in its callback: no update, disabling or rescheduling, whichever callback of
\* whichever batch it happens in, loses a deadline (TimerWheel's insert_reuse and
\* cancel, Timer's register, reregister and unregister).
THEOREM NoTimerIsLost == Spec => []RegisteredTimersArePending
  <1>1. TypeOK /\ TimerInv => RegisteredTimersArePending
    BY DEF TimerInv
  <1> QED BY <1>1, InvHolds, PTL

\* Unless it was registered again while its expiry waited in the batch, or enabled
\* while it was enabled (which Timer::register does not refuse), a timer has
\* at most one entry in the heap, its registration's, and none once it expired:
\* what was cancelled cannot fire, what was rescheduled fires once.
THEOREM NoTimerFiresTwice == Spec => []OneExpiryPerTimer
  <1>1. TypeOK /\ TimerInv => OneExpiryPerTimer
    <2> SUFFICES ASSUME TypeOK, TimerInv, NEW t \in Timers \ Excused
                 PROVE  /\ \A e \in EntriesOf(t) : heap[e] = 1 /\ e.counter = registration[t]
                        /\ Cardinality(EntriesOf(t)) <= 1
                        /\ InBatch(t) => EntriesOf(t) = {}
      BY DEF OneExpiryPerTimer
    <2>1. Once(t)
      BY DEF TimerInv, OnceInv
    <2>2. EntriesOf(t) = {} \/ \E e : EntriesOf(t) = {e}
      <3>1. ASSUME NEW e \in EntriesOf(t) PROVE EntriesOf(t) = {e}
        BY <2>1 DEF Once
      <3> QED BY <3>1
    <2>3. Cardinality(EntriesOf(t)) <= 1
      <3>1. CASE EntriesOf(t) = {}
        <4>1. Cardinality(EntriesOf(t)) = 0
          BY <3>1, FS_EmptySet
        <4> QED BY <4>1
      <3>2. CASE \E e : EntriesOf(t) = {e}
        <4>1. Cardinality(EntriesOf(t)) = 1
          BY <3>2, FS_Singleton
        <4> QED BY <4>1
      <3> QED BY <2>2, <3>1, <3>2
    <2> QED BY <2>1, <2>3 DEF Once
  <1> QED BY <1>1, InvHolds, PTL

\* The callback of a timer runs once its deadline is reached, unless the timer was
\* registered again while its expiry waited in the batch, or enabled while it was
\* enabled.
THEOREM NoTimerIsEarly == Spec => NeverEarlyUnlessExcused
  <1>1. ASSUME TypeOK, TimerInv, BeginCallback
        PROVE  Head(batch).src \in Excused \/ now >= target[Head(batch).src]
    <2>1. PICK r \in Timers : r = Head(batch).src /\ InBatch(r)
      <3>1. Head(batch) \in Token /\ Head(batch) = batch[1] /\ 1 \in DOMAIN batch
        BY <1>1, TailFacts DEF TypeOK, BeginCallback
      <3>2. Head(batch) = [src |-> Head(batch).src, gen |-> Head(batch).gen] /\ Head(batch).src \in Timers
        BY <3>1 DEF Token
      <3>3. Head(batch) = Current(Head(batch).src)
        BY <1>1, <3>2 DEF BeginCallback, Resolves, Current
      <3> QED BY <3>1, <3>2, <3>3 DEF InBatch
    <2>2. r \notin Excused => Once(r)
      BY <1>1 DEF TimerInv, OnceInv
    <2> QED BY <2>1, <2>2 DEF Once
  <1>2. TypeOK /\ TimerInv /\ [Next]_vars
        => [BeginCallback => Head(batch).src \in Excused \/ now >= target[Head(batch).src]]_vars
    BY <1>1
  <1> QED BY <1>2, InvHolds, PTL DEF Spec, NeverEarlyUnlessExcused

=============================================================================
