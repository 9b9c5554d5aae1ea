------------------------------ MODULE AsyncTask ------------------------------
(***************************************************************************)
(* The %task runtime that the MIR backend compiles `run`, `awy`, `cancel`  *)
(* and handle copies into.  A task is a heap block {resume_fn, data, done, *)
(* cancelled, waiter} counted by references: `run` creates it with rc = 1, *)
(* a copy of a handle retains it, `awy` releases it, and the release that  *)
(* reaches zero frees the block, its args struct and its result buffer.    *)
(* `awy` drives a task synchronously, so running bodies form a stack.      *)
(*                                                                         *)
(* A handle is a bare i64.  Whether a copy of it is counted is decided at  *)
(* compile time by asyncHandles, which knows only the values that the      *)
(* function being lowered got from `run` or from a counted copy.           *)
(***************************************************************************)
EXTENDS Integers, Sequences, FiniteSets

CONSTANTS Task,      \* the heap blocks a program may allocate
          Name,      \* handle variables of one function
          Cell,      \* elements of module-level containers that hold handles
          Null,      \* the zero handle, the null task pointer
          MaxDepth,  \* bound: nested awaits in progress
          MaxRc,     \* bound: references to one task
          MaxReady   \* bound: length of the ready queue

ASSUME TaskAssumption ==
  /\ Null \notin Task
  /\ MaxDepth \in Nat /\ MaxRc \in Nat /\ MaxReady \in Nat
  /\ IsFiniteSet(Name) /\ IsFiniteSet(Cell)
  /\ Cell \cap ((0 .. MaxDepth) \X Name) = {}

\* A local variable belongs to the body running at its depth; main is depth 0.
Local == (0 .. MaxDepth) \X Name
Slot == Local \cup Cell

NoFault == [kind |-> "none", task |-> Null]
FaultKind == {"none", "use-after-free", "double-free", "null-deref"}

VARIABLES
  block,      \* the %task block with its args struct and result buffer
  rc,         \* the count in the block's header
  done,       \* %task field 2
  cancelled,  \* %task field 3
  argbuf,     \* the per-argument buffers and the payloads the task owns
  result,     \* what the result buffer holds
  handle,     \* the handle each slot holds
  tracked,    \* whether asyncHandles knows the slot as a handle
  stack,      \* the awaits in progress: the driven task and the awaited slot
  current,    \* @nolang_current_task
  ready,      \* the ready queue (module ReadyQueue), which no MIR program drains
  runs,       \* history: how often the target of each task was called
  outcome,    \* history: how many awaits delivered which result (2: several)
  escaped,    \* history: tasks with a reference that no count stands for
  abandoned,  \* history: tasks that lost a reference that was never awaited
  fault       \* the undefined behaviour the program ran into, if any

heap == <<block, rc, done, cancelled, argbuf, result>>
refs == <<handle, tracked, escaped, abandoned>>
ctrl == <<stack, current, runs, outcome>>
vars == <<heap, refs, ctrl, ready, fault>>

Depth == Len(stack)
Visible == {s \in Local : s[1] = Depth} \cup Cell
VisibleLocal == {s \in Local : s[1] = Depth}
Running == {stack[i].task : i \in 1 .. Len(stack)}

Init ==
  /\ block = [t \in Task |-> "unborn"]
  /\ rc = [t \in Task |-> 0]
  /\ done = [t \in Task |-> FALSE]
  /\ cancelled = [t \in Task |-> FALSE]
  /\ argbuf = [t \in Task |-> "none"]
  /\ result = [t \in Task |-> "zero"]
  /\ handle = [s \in Slot |-> Null]
  /\ tracked = [s \in Slot |-> FALSE]
  /\ stack = <<>>
  /\ current = Null
  /\ ready = <<>>
  /\ runs = [t \in Task |-> 0]
  /\ outcome = [t \in Task |-> [v \in {"zero", "value"} |-> 0]]
  /\ escaped = {}
  /\ abandoned = {}
  /\ fault = NoFault

-----------------------------------------------------------------------------
\* The slot's previous reference is overwritten without being released.
Overwrite(s) == abandoned' = abandoned \cup ({handle[s]} \ {Null})

\* emitAsyncRun: allocate the block, the result buffer, the args struct and one
\* buffer per argument, and enqueue the task.
Allocate(t, count) ==
  /\ block[t] = "unborn"
  /\ block' = [block EXCEPT ![t] = "live"]
  /\ rc' = [rc EXCEPT ![t] = count]
  /\ argbuf' = [argbuf EXCEPT ![t] = "held"]
  /\ Len(ready) < MaxReady
  /\ ready' = Append(ready, t)
  /\ UNCHANGED <<done, cancelled, result, ctrl, fault>>

\* `h = run f(x)` where the statement introduces h.
Run(s, t) ==
  /\ s \in VisibleLocal
  /\ Allocate(t, 1)
  /\ handle' = [handle EXCEPT ![s] = t]
  /\ tracked' = [tracked EXCEPT ![s] = TRUE]
  /\ Overwrite(s)
  /\ UNCHANGED escaped

\* `h = run f(x)` where h was declared before: the value is moved into the
\* slot and carryAsyncResType retains it, beside the count of the temporary.
Rebind(s, t) ==
  /\ s \in VisibleLocal
  /\ Allocate(t, 2)
  /\ handle' = [handle EXCEPT ![s] = t]
  /\ tracked' = [tracked EXCEPT ![s] = TRUE]
  /\ Overwrite(s)
  /\ UNCHANGED escaped

\* `h = mk()` where mk returns a handle it got from `run`: the caller's lowering
\* sees the i64 result of a call, which asyncHandles does not know.
RunInCallee(s, t) ==
  /\ s \in VisibleLocal
  /\ Allocate(t, 1)
  /\ handle' = [handle EXCEPT ![s] = t]
  /\ tracked' = [tracked EXCEPT ![s] = FALSE]
  /\ Overwrite(s)
  /\ UNCHANGED escaped

\* `hs.push(run f(x))`: the only reference is the element, reachable from every body.
RunIntoCell(c, t) ==
  /\ c \in Cell
  /\ Allocate(t, 1)
  /\ handle' = [handle EXCEPT ![c] = t]
  /\ escaped' = escaped \cup {t}
  /\ Overwrite(c)
  /\ UNCHANGED tracked

\* Mutant: the retain that OpTaskRetain stands for is missing.
Retain_Never(t, n) == UNCHANGED rc

\* nolang_rc_retain on a live block, n times.
Retain(t, n) == rc' = [rc EXCEPT ![t] = @ + n]

\* A copy of a handle that asyncHandles knows: OpMove, then OpTaskRetain.  `d = s`
\* retains once; `d = run s` retains the fresh reference, and once more in
\* carryAsyncResType when d was declared before (n = 2).
CopyTracked(d, s, n) ==
  /\ d \in VisibleLocal /\ s \in VisibleLocal /\ d # s
  /\ tracked[s]
  /\ IF handle[s] = Null
     THEN UNCHANGED rc
     ELSE block[handle[s]] = "live" /\ rc[handle[s]] + n <= MaxRc /\ Retain(handle[s], n)
  /\ handle' = [handle EXCEPT ![d] = handle[s]]
  /\ tracked' = [tracked EXCEPT ![d] = TRUE]
  /\ Overwrite(d)
  /\ UNCHANGED <<block, done, cancelled, argbuf, result, escaped, ctrl, ready, fault>>

\* `d = s` of an i64 that asyncHandles does not know, an argument of a call (d is
\* the parameter), an element read or an element store: the bits are copied and
\* nothing is counted.
CopyUntracked(d, s) ==
  /\ d \in Visible /\ s \in Visible /\ d # s
  /\ handle[s] # Null
  /\ handle' = [handle EXCEPT ![d] = handle[s]]
  /\ tracked' = [tracked EXCEPT ![d] = FALSE]
  /\ escaped' = escaped \cup {handle[s]}
  /\ Overwrite(d)
  /\ UNCHANGED <<heap, ctrl, ready, fault>>

\* cancel(h): store true into field 3 of whatever the handle points at.
Cancel(s) ==
  /\ s \in Visible /\ handle[s] # Null
  /\ block[handle[s]] = "live"
  /\ cancelled' = [cancelled EXCEPT ![handle[s]] = TRUE]
  /\ UNCHANGED <<block, rc, done, argbuf, result, refs, ctrl, ready, fault>>

\* async-yield(): enqueue the current task, null or not, and go on.
Yield ==
  /\ Len(ready) < MaxReady
  /\ ready' = Append(ready, current)
  /\ UNCHANGED <<heap, refs, ctrl, fault>>

-----------------------------------------------------------------------------
\* Mutant: the awaited slot keeps its handle.
Consumed_Kept(s) == UNCHANGED handle

\* The awaited variable is zeroed; of an awaited element it is the temporary.
Consumed(s) == handle' = IF s \in Local THEN [handle EXCEPT ![s] = Null] ELSE handle

\* Mutant: the block is freed by the release that finds a zero count.
Release_OffByOne(t) ==
  /\ rc' = [rc EXCEPT ![t] = @ - 1]
  /\ block' = [block EXCEPT ![t] = IF rc[t] = 0 THEN "freed" ELSE @]

\* Mutant: every await frees the task, as before reference counting.
Release_Always(t) ==
  /\ rc' = [rc EXCEPT ![t] = @ - 1]
  /\ block' = [block EXCEPT ![t] = "freed"]

\* nolang_rc_release, and the two containers when it says the block was freed.
Release(t) ==
  /\ rc' = [rc EXCEPT ![t] = @ - 1]
  /\ block' = [block EXCEPT ![t] = IF rc[t] = 1 THEN "freed" ELSE @]

\* The tail of emitAsyncAwait: copy the result r out, release, consume the handle.
Deliver(t, s, r) ==
  /\ outcome' = [outcome EXCEPT ![t][r] = IF @ = 2 THEN 2 ELSE @ + 1]
  /\ Release(t)

\* awy of a zero handle: a message and a zero value.
AwaitNull(s) ==
  /\ s \in Visible /\ handle[s] = Null
  /\ UNCHANGED vars

\* Mutant: the cancelled flag is looked at before the result.
AwaitDone_CancelFirst(s) ==
  LET t == handle[s] IN
  /\ s \in Visible /\ t # Null
  /\ block[t] = "live" /\ done[t]
  /\ Deliver(t, s, IF cancelled[t] THEN "zero" ELSE result[t])
  /\ Consumed(s)
  /\ UNCHANGED <<done, cancelled, argbuf, result, tracked, escaped, abandoned,
                 stack, current, runs, ready, fault>>

\* awy of a finished task.
AwaitDone(s) ==
  LET t == handle[s] IN
  /\ s \in Visible /\ t # Null
  /\ block[t] = "live" /\ done[t]
  /\ Deliver(t, s, result[t])
  /\ Consumed(s)
  /\ UNCHANGED <<done, cancelled, argbuf, result, tracked, escaped, abandoned,
                 stack, current, runs, ready, fault>>

\* The wrapper's w_can block: a cancelled task does not run its target.
SkipsTarget(t) == cancelled[t]

\* awy of a cancelled task that has not finished: w_skip, then w_free.
AwaitCancelled(s) ==
  LET t == handle[s] IN
  /\ s \in Visible /\ t # Null
  /\ block[t] = "live" /\ ~done[t] /\ SkipsTarget(t)
  /\ done' = [done EXCEPT ![t] = TRUE]
  /\ argbuf' = [argbuf EXCEPT ![t] = "freed"]
  /\ current' = Null
  /\ Deliver(t, s, result[t])
  /\ Consumed(s)
  /\ UNCHANGED <<cancelled, result, tracked, escaped, abandoned, stack, runs, ready, fault>>

\* Mutant: the await does not look at `done`.
AwaitEnter_Again(s) ==
  LET t == handle[s] IN
  /\ s \in Visible /\ t # Null
  /\ block[t] = "live" /\ ~SkipsTarget(t)
  /\ Depth < MaxDepth
  /\ stack' = Append(stack, [task |-> t, slot |-> s])
  /\ current' = t
  /\ runs' = [runs EXCEPT ![t] = @ + 1]
  /\ UNCHANGED <<heap, refs, outcome, ready, fault>>

\* awy of an unfinished task: publish it as current and call its target (w_exec).
AwaitEnter(s) ==
  LET t == handle[s] IN
  /\ s \in Visible /\ t # Null
  /\ block[t] = "live" /\ ~done[t] /\ ~SkipsTarget(t)
  /\ Depth < MaxDepth
  /\ stack' = Append(stack, [task |-> t, slot |-> s])
  /\ current' = t
  /\ runs' = [runs EXCEPT ![t] = @ + 1]
  /\ UNCHANGED <<heap, refs, outcome, ready, fault>>

\* The locals of the body that returns; a handle left in one is simply lost.
Dying == {s \in Local : s[1] = Depth}

\* The drive is one call of the wrapper: it ends with its target.
DriveEnds == Depth > 0

\* The target returns: its result is in the buffer, the wrapper sets done and
\* frees the arguments, the await clears current and delivers.
Return ==
  LET f == stack[Depth]
      t == f.task
  IN
  /\ DriveEnds
  /\ block[t] = "live" /\ argbuf[t] = "held"
  /\ done' = [done EXCEPT ![t] = TRUE]
  /\ argbuf' = [argbuf EXCEPT ![t] = "freed"]
  /\ result' = [result EXCEPT ![t] = "value"]
  /\ current' = Null
  /\ stack' = SubSeq(stack, 1, Depth - 1)
  /\ Deliver(t, f.slot, "value")
  /\ handle' = [s \in Slot |-> IF s \in Dying \/ (s = f.slot /\ s \in Local)
                               THEN Null ELSE handle[s]]
  /\ tracked' = [s \in Slot |-> tracked[s] /\ s \notin Dying]
  /\ abandoned' = abandoned \cup ({handle[s] : s \in Dying} \ {Null})
  /\ UNCHANGED <<cancelled, escaped, runs, ready, fault>>

-----------------------------------------------------------------------------
Crash(kind, t) ==
  /\ fault' = [kind |-> kind, task |-> t]
  /\ UNCHANGED <<heap, refs, ctrl, ready>>

\* A handle whose block is gone is awaited, cancelled or retained.
UseFreed(s) ==
  /\ s \in Visible /\ handle[s] # Null
  /\ block[handle[s]] = "freed"
  /\ Crash("use-after-free", handle[s])

\* cancel(h) has no guard for the zero that an await leaves in h.
CancelNull(s) ==
  /\ s \in Visible /\ handle[s] = Null
  /\ Crash("null-deref", Null)

\* The wrapper writes `done` into a freed block, or frees the arguments again.
ReturnCrash ==
  /\ Depth > 0
  /\ LET t == stack[Depth].task
     IN  \/ block[t] = "freed" /\ Crash("use-after-free", t)
         \/ block[t] = "live" /\ argbuf[t] = "freed" /\ Crash("double-free", t)

Next ==
  /\ fault = NoFault
  /\ \/ \E s \in Slot, t \in Task : Run(s, t) \/ Rebind(s, t) \/ RunInCallee(s, t)
     \/ \E c \in Cell, t \in Task : RunIntoCell(c, t)
     \/ \E d, s \in Slot : CopyUntracked(d, s) \/ \E n \in {1, 2} : CopyTracked(d, s, n)
     \/ \E s \in Slot : Cancel(s)
     \/ Yield
     \/ \E s \in Slot : AwaitNull(s) \/ AwaitDone(s) \/ AwaitCancelled(s) \/ AwaitEnter(s)
     \/ Return
     \/ \E s \in Slot : UseFreed(s) \/ CancelNull(s)
     \/ ReturnCrash

Spec == Init /\ [][Next]_vars

-----------------------------------------------------------------------------
TypeOK ==
  /\ block \in [Task -> {"unborn", "live", "freed"}]
  /\ rc \in [Task -> Nat]
  /\ done \in [Task -> BOOLEAN]
  /\ cancelled \in [Task -> BOOLEAN]
  /\ argbuf \in [Task -> {"none", "held", "freed"}]
  /\ result \in [Task -> {"zero", "value"}]
  /\ handle \in [Slot -> Task \cup {Null}]
  /\ tracked \in [Slot -> BOOLEAN]
  /\ stack \in Seq([task : Task, slot : Slot])
  /\ Depth <= MaxDepth
  /\ current \in Task \cup {Null}
  /\ ready \in Seq(Task \cup {Null})
  /\ runs \in [Task -> Nat]
  /\ outcome \in [Task -> [{"zero", "value"} -> 0 .. 2]]
  /\ escaped \subseteq Task
  /\ abandoned \subseteq Task
  /\ fault \in [kind : FaultKind, task : Task \cup {Null}]

\* The slots that refer to a task.
Refs(t) == {s \in Slot : handle[s] = t}

\* A task all of whose references are counted is never used after it was freed
\* and its arguments are never freed twice, however its handle is aliased,
\* rebound, cancelled, awaited again or awaited from several variables.
FaultOnlyEscaped ==
  fault.kind \in {"use-after-free", "double-free"} => fault.task \in escaped

\* One count per reference: as long as a variable holds the handle, a count
\* stands for it, so the await of another alias cannot free the task.
EveryReferenceCounted ==
  \A t \in Task \ escaped :
    /\ block[t] = "live" => Cardinality(Refs(t)) <= rc[t]
    /\ block[t] = "freed" => Refs(t) = {}

\* The wrapper calls the target at most once, although every alias may be
\* awaited and the drive is re-entrant: what frees the arguments once.
RunsOnce == \A t \in Task \ escaped : runs[t] <= 1

\* The wrapper of a task, escaped or not, is not called again once it has returned: the
\* guard on `done` is tested before the call and set at its end.  Only from within its
\* own call, where a body awaits its own task through an element, it is called again.
CalledWithin ==
  [][\A t \in Task : runs'[t] > runs[t] => runs[t] = 0 \/ t \in Running]_vars

\* All awaits of one task deliver the same result: a cancel that lands between
\* two of them, or after the task has run, changes nothing.
AwaitsAgree == \A t \in Task : outcome[t]["value"] = 0 \/ outcome[t]["zero"] = 0

\* What cancelled() answers in the body that is running.
CancelledAnswer == current # Null /\ cancelled[current]

\* std/async.no: cancelled() says whether the task being executed was cancelled.
CancelledIsTruthful ==
  fault = NoFault /\ Depth > 0 /\ ~done[stack[Depth].task]
    => CancelledAnswer = cancelled[stack[Depth].task]

\* emitAsyncAwait: the owned data of the result lives in the result slot, hence
\* in one slot, which the drop pass frees.
ResultOwnedOnce == \A t \in Task : outcome[t]["value"] <= 1

\* nolang_rc_release never sees the zero count of its borrowed sentinel.
LiveCounted == \A t \in Task : block[t] = "live" => rc[t] > 0

\* A body that has not been entered has no locals.
FreshLocals == \A s \in Local : s[1] > Depth => handle[s] = Null /\ ~tracked[s]

\* Elements are never known to asyncHandles, and what they hold has escaped.
CellsEscape == \A c \in Cell : ~tracked[c] /\ handle[c] \in escaped \cup {Null}

\* The references of a task that has not escaped are locals of one body.
OneBody ==
  \A t \in Task \ escaped : \A s1, s2 \in Refs(t) : s1[1] = s2[1]

\* A driven task is alive, unfinished and held by the variable its caller awaits.
FramesHold ==
  \A i \in 1 .. Depth :
    LET f == stack[i] IN
    /\ f.slot \in Local => f.slot[1] = i - 1
    /\ f.task \notin escaped =>
         /\ f.slot \in Local /\ handle[f.slot] = f.task
         /\ block[f.task] = "live" /\ ~done[f.task]

\* The arguments and the call history follow the life of the task.
TaskLife ==
  \A t \in Task \ escaped :
    /\ block[t] = "unborn" => Refs(t) = {} /\ ~done[t] /\ runs[t] = 0
    /\ block[t] = "live" => (argbuf[t] = "held" <=> ~done[t])
    /\ ~done[t] /\ t \notin Running => runs[t] = 0

\* The inductive invariant of the proofs.
IInv ==
  /\ TypeOK
  /\ LiveCounted
  /\ FreshLocals
  /\ CellsEscape
  /\ OneBody
  /\ FramesHold
  /\ TaskLife
  /\ EveryReferenceCounted
  /\ RunsOnce
  /\ FaultOnlyEscaped
==============================================================================
