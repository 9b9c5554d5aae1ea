--------------------------- MODULE ReadyQueue_proofs -------------------------
(***************************************************************************)
(* The ready queue is type correct and refines the unbounded FIFO queue,   *)
(* for every initial capacity and every number of outstanding entries.     *)
(***************************************************************************)
EXTENDS ReadyQueue, SequenceTheorems, TLAPS

\* `urem` of an index that is already inside the ring.
LEMMA ModInside ==
  ASSUME NEW c \in Nat, NEW x \in Nat, x < c
  PROVE  x % c = x
  BY SMT

\* `urem` of an index that has passed the end of the ring once.
LEMMA ModWrapped ==
  ASSUME NEW c \in Nat, NEW x \in Nat, c > 0, c <= x, x < 2 * c
  PROVE  x % c = x - c
  BY SMTT(30)

\* The size of the live window, and the size after tail has advanced without
\* meeting head.
LEMMA Advance ==
  ASSUME NEW c \in Nat, NEW h \in 0 .. c - 1, NEW t \in 0 .. c - 1, NEW u \in 0 .. c - 1,
         u = IF t + 1 < c THEN t + 1 ELSE 0, u # h
  PROVE  /\ (IF u >= h THEN u - h ELSE u - h + c) = (IF t >= h THEN t - h ELSE t - h + c) + 1
         /\ (IF t >= h THEN t - h ELSE t - h + c) + 1 < c
<1>1. CASE t + 1 < c /\ t >= h
  BY <1>1
<1>2. CASE t + 1 < c /\ t < h
  BY <1>2
<1>3. CASE t + 1 = c
  BY <1>3
<1> QED BY <1>1, <1>2, <1>3

\* Within the window only its end lies at tail.
LEMMA OnlyEnd ==
  ASSUME NEW c \in Nat, NEW h \in 0 .. c - 1, NEW t \in 0 .. c - 1, NEW n \in Nat,
         n = IF t >= h THEN t - h ELSE t - h + c, NEW k \in 0 .. n
  PROVE  (IF h + k < c THEN h + k ELSE h + k - c) = t <=> k = n
<1>1. CASE t >= h
  BY <1>1
<1>2. CASE t < h
  BY <1>2
<1> QED BY <1>1, <1>2

\* A function on 1 .. n is a sequence of length n.
LEMMA FunctionIsSeq ==
  ASSUME NEW S, NEW n \in Nat, NEW f \in [1 .. n -> S]
  PROVE  f \in Seq(S) /\ Len(f) = n
<1>1. f \in Seq(S)
  BY SeqDef
<1> QED BY <1>1, LenProperties

\* What the code keeps true of a ring between two calls: the indices are inside
\* it and its live window was written throughout.
RingOK(r) ==
  /\ r = [q |-> r.q, cap |-> r.cap, head |-> r.head, tail |-> r.tail]
  /\ r.cap \in Nat
  /\ r.q \in [0 .. r.cap - 1 -> Entry \cup {Junk}]
  /\ r.head \in Nat /\ r.tail \in Nat
  /\ r.cap = 0 => r.head = 0 /\ r.tail = 0
  /\ r.cap > 0 => r.head < r.cap /\ r.tail < r.cap /\ r.cap > 1
  /\ \A i \in 1 .. Size(r) : Contents(r)[i] \in Entry

\* A ring with a slot to write: allocated, and not full.
Roomy(r) == RingOK(r) /\ r.cap > 0 /\ ~Full(r)

LEMMA SizeOK ==
  ASSUME NEW r, RingOK(r)
  PROVE  /\ Size(r) \in Nat
         /\ r.cap > 0 => Size(r) < r.cap
         /\ r.cap = 0 => Size(r) = 0
  BY DEF RingOK, Size

LEMMA ContentsSeq ==
  ASSUME NEW r, RingOK(r)
  PROVE  Contents(r) \in Seq(Entry) /\ Len(Contents(r)) = Size(r)
<1>1. Size(r) \in Nat /\ Contents(r) \in [1 .. Size(r) -> Entry]
  BY SizeOK DEF RingOK, Contents
<1> QED BY <1>1, FunctionIsSeq

\* The i-th live entry is in one slot of the ring, wrapped at most once.
LEMMA Index ==
  ASSUME NEW r, RingOK(r), NEW k \in Nat, r.cap > 0, k < r.cap
  PROVE  /\ (r.head + k) % r.cap = IF r.head + k < r.cap THEN r.head + k
                                   ELSE r.head + k - r.cap
         /\ (r.head + k) % r.cap \in 0 .. r.cap - 1
<1>1. r.cap \in Nat /\ r.head \in Nat /\ r.head < r.cap
  BY DEF RingOK
<1>2. r.head + k \in Nat /\ r.head + k < 2 * r.cap
  BY <1>1
<1>3. CASE r.head + k < r.cap
  <2>1. (r.head + k) % r.cap = r.head + k
    BY <1>1, <1>2, <1>3, ModInside
  <2> QED BY <2>1, <1>1, <1>2, <1>3
<1>4. CASE r.cap <= r.head + k
  <2>1. (r.head + k) % r.cap = r.head + k - r.cap
    BY <1>1, <1>2, <1>4, ModWrapped
  <2> QED BY <2>1, <1>1, <1>2, <1>4
<1> QED BY <1>1, <1>2, <1>3, <1>4

\* Growing a ring keeps its entries in order and leaves room for one more.
LEMMA GrowOK ==
  ASSUME NEW r, RingOK(r)
  PROVE  Roomy(Grow(r)) /\ Contents(Grow(r)) = Contents(r)
<1> DEFINE g == Grow(r)
           n == Size(r)
<1>1. /\ r.cap \in Nat /\ n \in Nat
      /\ r.cap > 0 => n < r.cap /\ r.cap > 1
      /\ r.cap = 0 => n = 0
  BY SizeOK DEF RingOK
<1>2. /\ g.cap = IF r.cap = 0 THEN InitCap ELSE 2 * r.cap
      /\ g.head = 0 /\ g.tail = n
      /\ g = [q |-> g.q, cap |-> g.cap, head |-> g.head, tail |-> g.tail]
      /\ g.q = [i \in 0 .. g.cap - 1 |->
                  IF i < n THEN r.q[(r.head + i) % r.cap] ELSE Junk]
  BY DEF Grow
<1>3. g.cap \in Nat /\ g.cap > 1 /\ n + 1 < g.cap
  BY <1>1, <1>2, QueueAssumption
<1>4. Size(g) = n
  BY <1>1, <1>2 DEF Size
<1>5. \A i \in 1 .. n : g.q[i - 1] = Contents(r)[i] /\ Contents(r)[i] \in Entry
  <2> TAKE i \in 1 .. n
  <2>1. i - 1 \in 0 .. g.cap - 1 /\ i - 1 < n /\ r.head \in Nat
    BY <1>1, <1>3 DEF RingOK
  <2>2. r.head + (i - 1) = r.head + i - 1
    BY <2>1
  <2> QED BY <1>2, <2>1, <2>2 DEF Contents, RingOK
<1>6. g.q \in [0 .. g.cap - 1 -> Entry \cup {Junk}]
  <2> SUFFICES ASSUME NEW i \in 0 .. g.cap - 1
               PROVE  g.q[i] \in Entry \cup {Junk}
    BY <1>2
  <2>1. CASE i < n
    <3>1. i + 1 \in 1 .. n /\ (i + 1) - 1 = i
      BY <1>1, <1>3, <2>1
    <3> QED BY <1>5, <3>1
  <2>2. CASE ~(i < n)
    BY <1>2, <2>2
  <2> QED BY <2>1, <2>2
<1>7. \A i \in 1 .. n : (g.head + i - 1) % g.cap = i - 1
  <2> TAKE i \in 1 .. n
  <2>1. i - 1 \in Nat /\ i - 1 < g.cap /\ g.head + i - 1 = i - 1
    BY <1>1, <1>2, <1>3
  <2> QED BY <2>1, <1>3, ModInside
<1>8. Contents(g) = Contents(r)
  BY <1>4, <1>5, <1>7 DEF Contents
<1>9. RingOK(g)
  BY <1>1, <1>2, <1>3, <1>4, <1>5, <1>6, <1>8 DEF RingOK
<1>10. ~Full(g)
  <2>1. (n + 1) % g.cap = n + 1
    BY <1>1, <1>3, ModInside
  <2> QED BY <1>1, <1>2, <2>1 DEF Full
<1> QED BY <1>3, <1>8, <1>9, <1>10 DEF Roomy

\* Before it stores, enqueue has an allocated ring with a free slot, holding
\* what the ring held.
LEMMA ReadyOK ==
  ASSUME NEW r, RingOK(r)
  PROVE  Roomy(Ready(r)) /\ Contents(Ready(r)) = Contents(r)
<1> DEFINE r1 == IF r.cap = 0 THEN Grow(r) ELSE r
<1>1. RingOK(r1) /\ r1.cap > 0 /\ Contents(r1) = Contents(r)
  BY GrowOK DEF Roomy, RingOK
<1>2. CASE Full(r1)
  BY <1>1, <1>2, GrowOK DEF Ready
<1>3. CASE ~Full(r1)
  BY <1>1, <1>3 DEF Ready, Roomy
<1> QED BY <1>2, <1>3

\* A store appends, and leaves a ring that is not past its capacity.
LEMMA StoreOK ==
  ASSUME NEW r, Roomy(r), NEW e \in Entry
  PROVE  RingOK(Store(r, e)) /\ Contents(Store(r, e)) = Append(Contents(r), e)
<1> DEFINE s == Store(r, e)
           n == Size(r)
<1>1. /\ RingOK(r) /\ r.cap \in Nat /\ r.cap > 1 /\ n \in Nat /\ n < r.cap
      /\ r.head \in 0 .. r.cap - 1 /\ r.tail \in 0 .. r.cap - 1
      /\ r.q \in [0 .. r.cap - 1 -> Entry \cup {Junk}]
  BY SizeOK DEF Roomy, RingOK
<1>2. (r.tail + 1) % r.cap = IF r.tail + 1 < r.cap THEN r.tail + 1 ELSE 0
  <2>1. CASE r.tail + 1 < r.cap
    BY <1>1, <2>1, ModInside
  <2>2. CASE r.tail + 1 = r.cap
    BY <1>1, <2>2, ModWrapped
  <2> QED BY <1>1, <2>1, <2>2
<1>3. /\ s = [q |-> s.q, cap |-> s.cap, head |-> s.head, tail |-> s.tail]
      /\ s.cap = r.cap /\ s.head = r.head
      /\ s.tail = IF r.tail + 1 < r.cap THEN r.tail + 1 ELSE 0
      /\ s.tail # r.head /\ s.tail \in 0 .. r.cap - 1
      /\ s.q = [r.q EXCEPT ![r.tail] = e]
  BY <1>1, <1>2 DEF Store, Roomy, Full
<1>4. n = IF r.tail >= r.head THEN r.tail - r.head ELSE r.tail - r.head + r.cap
  BY DEF Size
<1>5. Size(s) = n + 1 /\ n + 1 < r.cap
  <2> HIDE DEF s, n
  <2>1. Size(s) = IF s.tail >= s.head THEN s.tail - s.head ELSE s.tail - s.head + s.cap
    BY DEF Size
  <2> QED BY <1>1, <1>3, <1>4, <2>1, Advance
<1>6. ASSUME NEW k \in 0 .. n
      PROVE  /\ (r.head + k) % r.cap \in 0 .. r.cap - 1
             /\ (r.head + k) % r.cap = r.tail <=> k = n
  <2>1. k \in Nat /\ k < r.cap
    BY <1>1
  <2>2. /\ (r.head + k) % r.cap = IF r.head + k < r.cap THEN r.head + k ELSE r.head + k - r.cap
        /\ (r.head + k) % r.cap \in 0 .. r.cap - 1
    BY <1>1, <2>1, Index
  <2>3. (IF r.head + k < r.cap THEN r.head + k ELSE r.head + k - r.cap) = r.tail <=> k = n
    <3> HIDE DEF n
    <3> QED BY <1>1, <1>4, OnlyEnd
  <2> QED BY <2>2, <2>3
<1>7. /\ s.q[(r.head + n) % r.cap] = e
      /\ \A k \in 0 .. n - 1 : s.q[(r.head + k) % r.cap] = r.q[(r.head + k) % r.cap]
  <2>1. n \in 0 .. n /\ \A k \in 0 .. n - 1 : k \in 0 .. n /\ k # n
    BY <1>1
  <2> HIDE DEF s, n
  <2> QED BY <1>1, <1>3, <1>6, <2>1
<1>8. \A i \in 1 .. n + 1 :
        Contents(s)[i] = IF i = n + 1 THEN e ELSE Contents(r)[i]
  <2> TAKE i \in 1 .. n + 1
  <2>1. i - 1 \in 0 .. n /\ r.head + i - 1 = r.head + (i - 1)
    BY <1>1
  <2>2. Contents(s)[i] = s.q[(r.head + (i - 1)) % r.cap]
    BY <1>3, <1>5, <2>1 DEF Contents
  <2>3. CASE i = n + 1
    <3>1. i - 1 = n
      BY <1>1, <2>3
    <3> QED BY <1>7, <2>2, <2>3, <3>1
  <2>4. CASE i \in 1 .. n
    <3>1. i - 1 \in 0 .. n - 1 /\ i # n + 1
      BY <1>1, <2>4
    <3>2. Contents(r)[i] = r.q[(r.head + (i - 1)) % r.cap]
      BY <2>1, <2>4 DEF Contents
    <3> QED BY <1>7, <2>2, <3>1, <3>2
  <2> QED BY <1>1, <2>3, <2>4
<1>9. Contents(r) \in Seq(Entry) /\ Len(Contents(r)) = n
  BY <1>1, ContentsSeq
<1>10. \A i \in 1 .. n + 1 : Contents(s)[i] \in Entry
  BY <1>1, <1>8, <1>9, ElementOfSeq
<1>11. RingOK(s)
  <2>1. s.q \in [0 .. s.cap - 1 -> Entry \cup {Junk}]
    BY <1>1, <1>3
  <2>2. s.tail \in Nat /\ s.tail < s.cap /\ s.head < s.cap /\ s.cap > 1
    BY <1>1, <1>3
  <2> HIDE DEF s
  <2> QED BY <1>1, <1>3, <1>5, <1>10, <2>1, <2>2 DEF RingOK
<1>12. Contents(s) = Append(Contents(r), e)
  <2> DEFINE c == Contents(s)
             d == Append(Contents(r), e)
  <2>1. c \in Seq(Entry) /\ Len(c) = n + 1
    BY <1>5, <1>11, ContentsSeq
  <2>2. /\ d \in Seq(Entry) /\ Len(d) = n + 1
        /\ \A i \in 1 .. n + 1 : d[i] = IF i = n + 1 THEN e ELSE Contents(r)[i]
    BY <1>9, AppendProperties
  <2> HIDE DEF c, d
  <2>3. \A i \in 1 .. Len(c) : c[i] = d[i]
    BY <1>8, <2>1, <2>2 DEF c
  <2> QED BY <2>1, <2>2, <2>3, SeqEqual DEF c, d
<1> QED BY <1>11, <1>12

\* Taking the entry at head removes the oldest entry and no other.
LEMMA TakeOK ==
  ASSUME NEW r, RingOK(r), r.head # r.tail
  PROVE  LET s == [q |-> r.q, cap |-> r.cap, head |-> (r.head + 1) % r.cap, tail |-> r.tail]
         IN  /\ RingOK(s)
             /\ Contents(r) \in Seq(Entry) /\ Contents(r) # <<>>
             /\ r.q[r.head] = Head(Contents(r)) /\ r.q[r.head] \in Entry
             /\ Contents(s) = Tail(Contents(r))
<1> DEFINE s == [q |-> r.q, cap |-> r.cap, head |-> (r.head + 1) % r.cap, tail |-> r.tail]
           n == Size(r)
<1>1. /\ r.cap \in Nat /\ r.cap > 1 /\ n \in Nat /\ n < r.cap /\ n > 0
      /\ r.head \in 0 .. r.cap - 1 /\ r.tail \in 0 .. r.cap - 1
  BY SizeOK DEF RingOK, Size
<1>2. (r.head + 1) % r.cap = IF r.head + 1 < r.cap THEN r.head + 1 ELSE 0
  BY <1>1, Index
<1>3. /\ s = [q |-> s.q, cap |-> s.cap, head |-> s.head, tail |-> s.tail]
      /\ s.cap = r.cap /\ s.tail = r.tail /\ s.q = r.q
      /\ s.head = (r.head + 1) % r.cap
  BY DEF RingOK
<1>4. Size(s) = n - 1
  BY <1>1, <1>2, <1>3 DEF Size
<1>5. Contents(r) \in Seq(Entry) /\ Len(Contents(r)) = n
  BY ContentsSeq
<1>6. ASSUME NEW i \in 1 .. n - 1
      PROVE  (s.head + i - 1) % s.cap = (r.head + (i + 1) - 1) % r.cap
  <2>1. i \in Nat /\ i < r.cap /\ r.head + (i + 1) - 1 = r.head + i
    BY <1>1
  <2>2. (r.head + i) % r.cap = IF r.head + i < r.cap THEN r.head + i ELSE r.head + i - r.cap
    BY <2>1, <1>1, Index
  <2>3. CASE r.head + 1 < r.cap
    BY <1>1, <1>2, <1>3, <2>1, <2>3
  <2>4. CASE r.head + 1 = r.cap
    <3>1. s.head = 0 /\ s.head + i - 1 = i - 1 /\ i - 1 \in Nat /\ i - 1 < s.cap
      BY <1>1, <1>2, <1>3, <2>1, <2>4
    <3>2. (i - 1) % s.cap = i - 1
      BY <1>1, <1>3, <3>1, ModInside
    <3> QED BY <1>1, <2>1, <2>2, <2>4, <3>1, <3>2
  <2> QED BY <1>1, <2>3, <2>4
<1>7. r.q[r.head] = Head(Contents(r)) /\ r.q[r.head] \in Entry /\ Contents(r) # <<>>
  <2>1. (r.head + 1 - 1) % r.cap = r.head
    BY <1>1, ModInside
  <2>2. 1 \in 1 .. n
    BY <1>1
  <2>3. Contents(r)[1] = r.q[r.head]
    BY <2>1, <2>2 DEF Contents
  <2> QED BY <1>1, <1>5, <2>2, <2>3, ElementOfSeq
<1>8. \A i \in 1 .. n - 1 : Contents(s)[i] = Contents(r)[i + 1] /\ Contents(s)[i] \in Entry
  <2> TAKE i \in 1 .. n - 1
  <2>1. i + 1 \in 1 .. n
    BY <1>1
  <2>2. Contents(s)[i] = Contents(r)[i + 1]
    BY <1>3, <1>4, <1>6, <2>1 DEF Contents
  <2> QED BY <1>5, <2>1, <2>2, ElementOfSeq
<1>9. RingOK(s)
  <2>1. s.head \in Nat /\ s.head < s.cap
    BY <1>1, <1>2, <1>3
  <2>2. /\ s.q \in [0 .. s.cap - 1 -> Entry \cup {Junk}]
        /\ s.cap \in Nat /\ s.cap > 1 /\ s.tail \in Nat /\ s.tail < s.cap
    BY <1>1, <1>3 DEF RingOK
  <2> HIDE DEF s
  <2> QED BY <1>1, <1>3, <1>4, <1>8, <2>1, <2>2 DEF RingOK
<1>10. Contents(s) = Tail(Contents(r))
  <2> DEFINE c == Contents(s)
             d == Tail(Contents(r))
  <2>1. c \in Seq(Entry) /\ Len(c) = n - 1
    BY <1>4, <1>9, ContentsSeq
  <2>2. /\ d \in Seq(Entry) /\ Len(d) = n - 1
        /\ \A i \in 1 .. n - 1 : d[i] = Contents(r)[i + 1]
    BY <1>5, <1>7, HeadTailProperties
  <2> HIDE DEF c, d
  <2>3. \A i \in 1 .. Len(c) : c[i] = d[i]
    BY <1>8, <2>1, <2>2 DEF c
  <2> QED BY <2>1, <2>2, <2>3, SeqEqual DEF c, d
<1> QED BY <1>5, <1>7, <1>9, <1>10

-----------------------------------------------------------------------------
\* The inductive invariant of the globals.
IInv == RingOK(Ring) /\ current \in Entry

LEMMA IInvTypes == IInv <=> TypeOK /\ WindowWritten
<1> USE DEF Ring
<1> QED BY DEF IInv, RingOK, TypeOK, WindowWritten, Size, Contents

LEMMA IInvInit == Init => IInv
<1> SUFFICES ASSUME Init PROVE IInv
  OBVIOUS
<1>1. Size(Ring) = 0
  BY DEF Init, Size, Ring
<1>2. q \in [0 .. cap - 1 -> Entry \cup {Junk}]
  BY DEF Init, NoSlots
<1> QED BY <1>1, <1>2 DEF IInv, Init, RingOK, Ring, Entry

\* What one enqueue does to the invariant and to the abstract queue.
LEMMA EnqueueStep ==
  ASSUME IInv, NEW e \in Entry, Enqueue(e)
  PROVE  IInv' /\ Fifo!Put(e)
<1>1. Ring' = Store(Ready(Ring), e)
  BY DEF Enqueue, Ring, Store
<1>2. RingOK(Ring') /\ Contents(Ring') = Append(Contents(Ring), e)
  BY <1>1, ReadyOK, StoreOK DEF IInv
<1>3. current' = current
  BY DEF Enqueue
<1>4. RingOK(Ring)' /\ Contents(Ring)' = Append(Contents(Ring), e)
  BY <1>2 DEF RingOK, Contents, Size
<1> QED BY <1>3, <1>4 DEF IInv, Fifo!Put, Entry

LEMMA RunOneStep ==
  ASSUME IInv, RunOne
  PROVE  IInv' /\ Fifo!Take
<1>1. /\ Ring' = [q |-> Ring.q, cap |-> Ring.cap, head |-> (Ring.head + 1) % Ring.cap,
                  tail |-> Ring.tail]
      /\ Ring.head # Ring.tail /\ current' = Ring.q[Ring.head]
  BY DEF RunOne, Ring
<1>2. /\ RingOK(Ring') /\ Contents(Ring) # <<>>
      /\ Contents(Ring') = Tail(Contents(Ring))
      /\ current' = Head(Contents(Ring)) /\ current' \in Entry
  BY <1>1, TakeOK DEF IInv
<1>3. RingOK(Ring)' /\ Contents(Ring)' = Tail(Contents(Ring))
  BY <1>2 DEF RingOK, Contents, Size
<1> QED BY <1>2, <1>3 DEF IInv, Fifo!Take, Entry

LEMMA IInvNext == IInv /\ [Next]_vars => IInv' /\ [Fifo!Next]_(Fifo!vars)
<1> SUFFICES ASSUME IInv, [Next]_vars PROVE IInv' /\ [Fifo!Next]_(Fifo!vars)
  OBVIOUS
<1>1. CASE RunOne
  BY <1>1, RunOneStep DEF Fifo!Next
<1>2. CASE Yield
  <2>1. current \in Entry
    BY DEF IInv
  <2> QED BY <1>2, <2>1, EnqueueStep DEF Yield, Fifo!Next
<1>3. ASSUME NEW t \in Task, Enqueue(t)
      PROVE  IInv' /\ [Fifo!Next]_(Fifo!vars)
  BY <1>3, EnqueueStep DEF Entry, Fifo!Next
<1>4. CASE UNCHANGED vars
  BY <1>4 DEF vars, IInv, RingOK, Ring, Size, Contents, Entry, Fifo!vars
<1> QED BY <1>1, <1>2, <1>3, <1>4 DEF Next

\* The globals keep their types and the window holds only entries that an
\* enqueue wrote, whatever the capacity and however often the ring has grown.
THEOREM QueueSafe == Spec => [](TypeOK /\ WindowWritten)
<1>1. Spec => []IInv
  BY IInvInit, IInvNext, PTL DEF Spec
<1> QED BY <1>1, IInvTypes, PTL

\* emitAsyncScheduler's growable ring implements the unbounded FIFO queue: no
\* entry is ever overwritten, lost, repeated or reordered.
THEOREM QueueRefines == Spec => Refines
<1>1. Init => Fifo!Init
  <2> SUFFICES ASSUME Init PROVE Fifo!Init
    OBVIOUS
  <2>1. Size(Ring) = 0
    BY DEF Init, Size, Ring
  <2> QED BY <2>1 DEF Init, Fifo!Init, Contents
<1> QED BY <1>1, IInvInit, IInvNext, PTL DEF Spec, Refines, Fifo!Spec
====
