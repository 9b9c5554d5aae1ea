------------------------------ MODULE FifoQueue ------------------------------
(***************************************************************************)
(* What the async ready queue promises, with no buffer, no indices and no  *)
(* growth: tasks leave in the order they entered, none lost or repeated.   *)
(***************************************************************************)
EXTENDS Sequences

CONSTANTS Entry,   \* what may be enqueued: a task, or the null current task
          Null     \* no task has been taken yet

VARIABLES items,   \* the outstanding entries, oldest first
          taken    \* the entry taken last

vars == <<items, taken>>

Init == items = <<>> /\ taken = Null

Put(e) == items' = Append(items, e) /\ UNCHANGED taken

Take == /\ items # <<>>
        /\ taken' = Head(items)
        /\ items' = Tail(items)

Next == Take \/ \E e \in Entry : Put(e)

Spec == Init /\ [][Next]_vars
==============================================================================
