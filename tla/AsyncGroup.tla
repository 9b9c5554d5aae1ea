------------------------------ MODULE AsyncGroup ------------------------------
(***************************************************************************)
(* Coroutine groups.  A bare block of N statements is rewritten so that    *)
(* the calls of -async functions in it are spawned and awaited as late as  *)
(* possible.  The planner walks the block once and decides which spawns    *)
(* are awaited before each statement; the rewritten block then runs while  *)
(* the spawned tasks end at any time.                                      *)
(*                                                                         *)
(* A value is named by the statement that computed it, 0 being the value a *)
(* variable has when the group starts.                                     *)
(***************************************************************************)
EXTENDS Naturals

CONSTANTS Var,   \* the variables of the group
          N,     \* the number of its statements
          None   \* the target of a call whose result is discarded

ASSUME GroupAssumption == N \in Nat /\ None \notin Var

VARIABLES
  prog,      \* the statements
  phase,     \* "plan", "run", "done", or "left" when a statement returns
  at,        \* the statement being planned or about to run
  pending,   \* planner: the spawns still in flight, in source order
  flush,     \* Steps[i].Flush, and the Tail at N + 1
  todo,      \* the awaits left to do before the statement at
  env,       \* the variables
  started,   \* the spawned statements
  finished,  \* those whose task has its result
  landed     \* those that have been awaited

plan == <<prog, flush, pending>>
tasks == <<started, finished, landed>>
vars == <<plan, phase, at, todo, env, tasks>>

Stmts == 1..N
Stmt == [spawn : BOOLEAN, target : Var \cup {None}, uses : SUBSET Var]

Init ==
  /\ prog \in [Stmts -> Stmt]
  /\ phase = "plan" /\ at = 1
  /\ pending = {}
  /\ flush = [i \in 1..N + 1 |-> {}]
  /\ todo = {}
  /\ env = [x \in Var |-> 0]
  /\ started = {} /\ finished = {} /\ landed = {}

-----------------------------------------------------------------------------
\* Mutant: a statement that reads the result of a spawn does not wait for it.
Conflict_Unread(j, i) == prog[j].target # None /\ prog[j].target = prog[i].target

\* Statement i reads the result of spawn j or rebinds its target.
Conflict(j, i) ==
  /\ prog[j].target # None
  /\ prog[j].target \in prog[i].uses \/ prog[j].target = prog[i].target

\* Mutants: no statement is a barrier; it waits only for what it conflicts with;
\* every statement is a barrier; a spawn that rebinds its argument waits for itself.
Flush_NoBarrier(i) == IF prog[i].spawn THEN {j \in pending : Conflict(j, i)} ELSE {}
Flush_Analyzed(i) == {j \in pending : Conflict(j, i)}
Flush_All(i) == pending
Flush_Self(i) ==
  IF prog[i].spawn THEN {j \in pending \cup {i} : Conflict(j, i)} ELSE pending

\* The spawns awaited before statement i: all of them before a barrier.
Flush(i) == IF prog[i].spawn THEN {j \in pending : Conflict(j, i)} ELSE pending

\* Mutant: spawns awaited before i stay in flight.
Still_Kept(i) == pending

\* The spawns that stay in flight over statement i.
Still(i) == pending \ Flush(i)

\* AsyncGroupPlan: one round of the loop over the statements.
PlanStep ==
  /\ phase = "plan" /\ at \in Stmts
  /\ flush' = [flush EXCEPT ![at] = Flush(at)]
  /\ pending' = Still(at) \cup (IF prog[at].spawn THEN {at} ELSE {})
  /\ at' = at + 1
  /\ UNCHANGED <<prog, phase, todo, env, tasks>>

\* AsyncGroupPlan: the tail; group: the rewritten block is ready to run.  A block
\* with no spawn is left alone: its plan awaits nothing.
PlanTail ==
  /\ phase = "plan" /\ at = N + 1
  /\ flush' = [flush EXCEPT ![at] = pending]
  /\ phase' = "run"
  /\ at' = 1
  /\ todo' = flush'[1]
  /\ UNCHANGED <<prog, pending, env, tasks>>

-----------------------------------------------------------------------------
\* The next statement, with the awaits the rewriting put before it.
Advance ==
  /\ at' = at + 1
  /\ todo' = flush[at + 1]

\* Statement i ends with its result in its target.
Bind(i) == env' = [x \in Var |-> IF x = prog[i].target THEN i ELSE env[x]]

Ready == phase = "run" /\ at \in Stmts /\ todo = {}

\* __agN = run f-async(...): the arguments are copied now.
Spawn ==
  /\ Ready /\ prog[at].spawn
  /\ started' = started \cup {at}
  /\ Advance
  /\ UNCHANGED <<plan, phase, env, finished, landed>>

\* A statement that is not spawned runs to its end.
Execute ==
  /\ Ready /\ ~prog[at].spawn
  /\ Bind(at)
  /\ Advance
  /\ UNCHANGED <<plan, phase, tasks>>

\* ... or leaves the group, by a return or a break.
Leave ==
  /\ Ready /\ ~prog[at].spawn
  /\ phase' = "left"
  /\ UNCHANGED <<plan, at, todo, env, tasks>>

\* The task of spawn j gets its result.
Finish(j) ==
  /\ j \in started \ finished
  /\ finished' = finished \cup {j}
  /\ UNCHANGED <<plan, phase, at, todo, env, started, landed>>

\* Mutant: the handle is read before the task has its result.
Await_Eager(j) ==
  /\ phase = "run"
  /\ j \in todo /\ \A k \in todo : j <= k
  /\ Bind(j)
  /\ landed' = landed \cup {j}
  /\ todo' = todo \ {j}
  /\ UNCHANGED <<plan, phase, at, started, finished>>

\* target = awy __agN, in source order.
Await(j) ==
  /\ phase = "run"
  /\ j \in todo /\ \A k \in todo : j <= k
  /\ j \in finished
  /\ Bind(j)
  /\ landed' = landed \cup {j}
  /\ todo' = todo \ {j}
  /\ UNCHANGED <<plan, phase, at, started, finished>>

\* The end of the group.
End ==
  /\ phase = "run" /\ at = N + 1 /\ todo = {}
  /\ phase' = "done"
  /\ UNCHANGED <<plan, at, todo, env, tasks>>

Next ==
  \/ PlanStep \/ PlanTail
  \/ Spawn \/ Execute \/ Leave \/ End
  \/ \E j \in Stmts : Finish(j) \/ Await(j)

Spec == Init /\ [][Next]_vars

\* The compiler and the program run on; a spawned task ends while it is awaited.
FairSpec ==
  /\ Spec
  /\ WF_vars(PlanStep \/ PlanTail \/ Spawn \/ Execute \/ End)
  /\ \A j \in Stmts : WF_vars(Finish(j)) /\ WF_vars(Await(j))

-----------------------------------------------------------------------------
TypeOK ==
  /\ prog \in [Stmts -> Stmt]
  /\ phase \in {"plan", "run", "done", "left"}
  /\ at \in 1..N + 1
  /\ pending \subseteq Stmts
  /\ flush \in [1..N + 1 -> SUBSET Stmts]
  /\ todo \subseteq Stmts
  /\ env \in [Var -> 0..N]
  /\ started \subseteq Stmts
  /\ finished \subseteq started
  /\ landed \subseteq finished

\* Statement w is the last before i, in source order, that writes x.
LastWrite(w, x, i) ==
  /\ w < i
  /\ w # 0 => prog[w].target = x
  /\ \A k \in w + 1..i - 1 : prog[k].target # x

\* Spawn j cannot stay in flight over statement k.
Stops(j, k) == k = N + 1 \/ ~prog[k].spawn \/ Conflict(j, k)

\* flush[k] is decided.
Planned(k) == phase # "plan" \/ k < at

\* The plan: a spawn is awaited after its own statement, at one place only,
\* because of the statement there, and nowhere later than it has to be.
PlanHolds ==
  /\ \A k \in 1..N + 1 : \A j \in flush[k] :
       j < k /\ prog[j].spawn /\ Planned(k) /\ Stops(j, k)
  /\ \A k, m \in 1..N + 1 : k # m => flush[k] \cap flush[m] = {}
  /\ \A j \in Stmts, k \in 1..N + 1 :
       j < k /\ prog[j].spawn /\ Planned(k) /\ Stops(j, k) =>
         \E m \in j + 1..k : j \in flush[m]
  /\ phase = "plan" => pending =
       {j \in 1..at - 1 : prog[j].spawn /\ \A m \in 1..N + 1 : j \notin flush[m]}

\* Every statement reads what it would read if the group ran in source order,
\* however long the tasks in flight take.
ReadsAsWritten == Ready => \A x \in prog[at].uses : LastWrite(env[x], x, at)

Settled(x) == LastWrite(env[x], x, at)

\* The run: what is awaited follows the plan, and a variable holds the value
\* of its last write or is the target of a task in flight.
RunHolds ==
  /\ phase = "plan" => started = {} /\ todo = {} /\ \A x \in Var : env[x] = 0
  /\ phase # "plan" =>
       /\ started = {j \in 1..at - 1 : prog[j].spawn}
       /\ todo \subseteq flush[at] \cap (started \ landed)
       /\ flush[at] \ todo \subseteq landed
       /\ \A m \in 1..at - 1 : flush[m] \subseteq landed
       /\ \A j \in landed : \E m \in 1..at : j \in flush[m]
       /\ \A x \in Var : Settled(x) \/ \E j \in started \ landed : prog[j].target = x
  /\ phase = "done" => at = N + 1
  /\ phase \in {"done", "left"} => todo = {} /\ started = landed

IInv == TypeOK /\ PlanHolds /\ RunHolds

\* So does the code after the group.
EndsAsWritten == phase = "done" => \A x \in Var : LastWrite(env[x], x, N + 1)

\* A handle is awaited once: a second await would use a freed task.
AwaitedOnce == phase = "run" => todo \subseteq started \ landed

\* No task outlives the group: none is left behind by a return in the middle.
NoTaskLeftBehind == phase \in {"done", "left"} => started = landed

\* Spawns overlap: a result is waited for before the tail only if a statement
\* that ran since, or the next one, is a barrier or conflicts with it.
OverlapKept ==
  phase = "run" => \A j \in landed \cup todo :
    at <= N => \E i \in j + 1..at : ~prog[i].spawn \/ Conflict(j, i)

\* A group comes to its end if its tasks do.
GroupEnds == <>(phase \in {"done", "left"})
===============================================================================
