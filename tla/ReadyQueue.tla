------------------------------ MODULE ReadyQueue -----------------------------
(***************************************************************************)
(* The ready queue that the MIR backend emits into every program           *)
(* (emitAsyncScheduler): a heap ring @nolang_ready_q of @nolang_ready_cap  *)
(* slots, live in [head, tail), that doubles and is compacted to slot 0    *)
(* when the next tail would meet head.  One slot is always kept free, so   *)
(* head = tail means empty.                                                *)
(***************************************************************************)
EXTENDS Integers, Sequences

CONSTANTS Task,            \* the %task blocks a program may enqueue
          Null,            \* the null i8*
          Junk,            \* what malloc leaves in a slot nobody wrote
          InitCap,         \* the first capacity (256 in the code)
          MaxOutstanding   \* bound: entries enqueued and not yet taken

ASSUME QueueAssumption ==
  /\ InitCap \in Nat /\ InitCap > 1
  /\ MaxOutstanding \in Nat
  /\ Null \notin Task /\ Junk \notin Task \cup {Null}

\* async-yield() outside a driven task enqueues the null current task.
Entry == Task \cup {Null}

VARIABLES q,        \* the slots of @nolang_ready_q
          cap,      \* @nolang_ready_cap
          head,     \* @nolang_ready_head
          tail,     \* @nolang_ready_tail
          current   \* @nolang_current_task, as the event loop sets it

vars == <<q, cap, head, tail, current>>

NoSlots == [i \in {} |-> Junk]

\* The ring as the four globals describe it, so that grow and store compose.
Ring == [q |-> q, cap |-> cap, head |-> head, tail |-> tail]

\* The number of iterations of the compaction loop: from head until tail, mod cap.
Size(r) == IF r.tail >= r.head THEN r.tail - r.head ELSE r.tail - r.head + r.cap

\* The entries of a ring, oldest first, in the order that loop visits them.
Contents(r) == [i \in 1 .. Size(r) |-> r.q[(r.head + i - 1) % r.cap]]

\* Mutant: grow forgets where the live window starts: it copies from slot 0.
Grow_FromZero(r) ==
  LET n == Size(r)
      newcap == IF r.cap = 0 THEN InitCap ELSE 2 * r.cap
  IN  [q |-> [i \in 0 .. newcap - 1 |-> IF i < n THEN r.q[i] ELSE Junk],
       cap |-> newcap, head |-> 0, tail |-> n]

\* nolang_ready_grow: double, copy [head, tail) down to slot 0.
Grow(r) ==
  LET n == Size(r)
      newcap == IF r.cap = 0 THEN InitCap ELSE 2 * r.cap
  IN  [q    |-> [i \in 0 .. newcap - 1 |->
                   IF i < n THEN r.q[(r.head + i) % r.cap] ELSE Junk],
       cap  |-> newcap,
       head |-> 0,
       tail |-> n]

\* Mutant: the ring is refilled over its oldest entry, as the 256-slot ring was.
Full_Never(r) == FALSE

\* The `chk` block: the next tail would collide with head.
Full(r) == (r.tail + 1) % r.cap = r.head

\* Mutant: the tail is advanced without the urem.
Store_NoWrap(r, e) == [q    |-> [r.q EXCEPT ![r.tail] = e],
                       cap  |-> r.cap,
                       head |-> r.head,
                       tail |-> r.tail + 1]

\* The `store` block.
Store(r, e) == [q    |-> [r.q EXCEPT ![r.tail] = e],
                cap  |-> r.cap,
                head |-> r.head,
                tail |-> (r.tail + 1) % r.cap]

\* The ring the `store` block finds: allocated, and with room for one entry.
Ready(r) ==
  LET r1 == IF r.cap = 0 THEN Grow(r) ELSE r
  IN  IF Full(r1) THEN Grow(r1) ELSE r1

Init == /\ q = NoSlots
        /\ cap = 0 /\ head = 0 /\ tail = 0
        /\ current = Null

\* nolang_async_enqueue(task).
Enqueue(e) ==
  /\ Size(Ring) < MaxOutstanding
  /\ LET r == Store(Ready(Ring), e)
     IN  q' = r.q /\ cap' = r.cap /\ head' = r.head /\ tail' = r.tail
  /\ UNCHANGED current

\* nolang_async_yield(): re-enqueue the current task, whatever it is.
Yield == Enqueue(current)

\* The `run_one` block of nolang_async_run: take the task at head and publish it.
RunOne ==
  /\ head # tail
  /\ current' = q[head]
  /\ head' = (head + 1) % cap
  /\ UNCHANGED <<q, cap, tail>>

Next == RunOne \/ Yield \/ \E t \in Task : Enqueue(t)

Spec == Init /\ [][Next]_vars

-----------------------------------------------------------------------------
TypeOK ==
  /\ cap \in Nat
  /\ q \in [0 .. cap - 1 -> Entry \cup {Junk}]
  /\ head \in Nat /\ tail \in Nat
  /\ cap = 0 => head = 0 /\ tail = 0
  /\ cap > 0 => head < cap /\ tail < cap /\ cap > 1
  /\ current \in Entry

\* Every slot of the live window was written by an enqueue: the loop never
\* publishes what malloc left behind (the window arithmetic of grow and wrap).
WindowWritten == \A i \in 1 .. Size(Ring) : Contents(Ring)[i] \in Entry

\* The ring refines the unbounded queue: through every wrap and growth the
\* entries leave in order, none overwritten (the 257th enqueue used to be),
\* lost or repeated.
Fifo == INSTANCE FifoQueue WITH items <- Contents(Ring), taken <- current
Refines == Fifo!Spec
==============================================================================
