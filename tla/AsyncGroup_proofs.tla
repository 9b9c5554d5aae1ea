--------------------------- MODULE AsyncGroup_proofs ---------------------------
(***************************************************************************)
(* A coroutine group of any length behaves like its statements in source   *)
(* order.  IInv is inductive: PlanHolds says what the planner has decided, *)
(* RunHolds relates the run to the plan, and the two together say that a   *)
(* task in flight has had no barrier and no conflict since it was spawned. *)
(***************************************************************************)
EXTENDS AsyncGroup, TLAPS

USE GroupAssumption DEF Stmts, Stmt

\* A task is in flight only while nothing since its spawn stops it.
LEMMA NothingStopsInFlight ==
  ASSUME IInv, phase = "run", NEW j \in started \ landed,
         NEW k \in j + 1..at, k < at \/ todo = {}
  PROVE  ~Stops(j, k)
<1> SUFFICES ASSUME Stops(j, k) PROVE FALSE
  OBVIOUS
<1>1. j \in Stmts /\ j < k /\ prog[j].spawn /\ at \in 1..N + 1
  BY DEF IInv, RunHolds, TypeOK
<1>2. k \in 1..N + 1 /\ Planned(k)
  BY <1>1 DEF Planned
<1>3. PICK m \in j + 1..k : j \in flush[m]
  BY <1>1, <1>2 DEF IInv, PlanHolds
<1>4. CASE m < at
  <2>1. m \in 1..at - 1
    BY <1>1, <1>3, <1>4
  <2> QED
    BY <1>3, <2>1 DEF IInv, RunHolds
<1>5. CASE m = at
  BY <1>1, <1>3, <1>5 DEF IInv, RunHolds
<1> QED
  BY <1>1, <1>3, <1>4, <1>5

\* ... so its target has not been written since.
LEMMA InFlightIsLast ==
  ASSUME IInv, phase = "run", NEW j \in started \ landed, prog[j].target # None
  PROVE  LastWrite(j, prog[j].target, at)
<1>1. j \in Stmts /\ j < at /\ at \in 1..N + 1
  BY DEF IInv, RunHolds, TypeOK
<1>2. ASSUME NEW k \in j + 1..at - 1 PROVE prog[k].target # prog[j].target
  <2>1. k \in j + 1..at /\ k < at
    BY <1>1
  <2>2. ~Stops(j, k)
    BY <2>1, NothingStopsInFlight
  <2> QED
    BY <2>2 DEF Stops, Conflict
<1> QED
  BY <1>1, <1>2 DEF LastWrite

\* Before a statement runs, what it reads is the value of its last write.
LEMMA ReadsFollow == IInv => ReadsAsWritten
<1> SUFFICES ASSUME IInv, Ready, NEW x \in prog[at].uses
             PROVE  LastWrite(env[x], x, at)
  BY DEF ReadsAsWritten
<1>1. at \in Stmts /\ phase = "run" /\ todo = {} /\ x \in Var
  BY DEF Ready, IInv, TypeOK
<1>2. ASSUME NEW j \in started \ landed, prog[j].target = x PROVE FALSE
  <2>1. at \in j + 1..at
    BY <1>1, <1>2 DEF IInv, TypeOK, RunHolds
  <2>2. ~Stops(j, at)
    BY <1>1, <2>1, NothingStopsInFlight
  <2> QED
    BY <1>1, <1>2, <2>2 DEF Stops, Conflict
<1> QED
  BY <1>1, <1>2 DEF IInv, RunHolds, Settled

\* When nothing is left to await at a barrier or at the end, nothing is in flight.
LEMMA NothingInFlight ==
  ASSUME IInv, phase = "run", todo = {}, at = N + 1 \/ ~prog[at].spawn
  PROVE  started = landed
<1>1. at \in 1..N + 1
  BY DEF IInv, TypeOK
<1>2. ASSUME NEW j \in started \ landed PROVE FALSE
  <2>1. at \in j + 1..at
    BY <1>1, <1>2 DEF IInv, TypeOK, RunHolds
  <2>2. ~Stops(j, at)
    BY <2>1, NothingStopsInFlight
  <2> QED
    BY <2>2 DEF Stops
<1> QED
  BY <1>2 DEF IInv, TypeOK

\* The other invariants follow from the inductive one.
LEMMA OthersFollow ==
  IInv => EndsAsWritten /\ AwaitedOnce /\ NoTaskLeftBehind /\ OverlapKept
<1> SUFFICES ASSUME IInv PROVE EndsAsWritten /\ AwaitedOnce /\ NoTaskLeftBehind /\ OverlapKept
  OBVIOUS
<1>1. AwaitedOnce
  BY DEF IInv, RunHolds, AwaitedOnce
<1>2. NoTaskLeftBehind
  BY DEF IInv, RunHolds, NoTaskLeftBehind
<1>3. OverlapKept
  <2> SUFFICES ASSUME phase = "run", NEW j \in landed \cup todo, at <= N
               PROVE  \E i \in j + 1..at : ~prog[i].spawn \/ Conflict(j, i)
    BY DEF OverlapKept
  <2>1. PICK m \in 1..at : j \in flush[m]
    BY DEF IInv, RunHolds, TypeOK
  <2>2. m \in 1..N + 1 /\ m # N + 1
    BY <2>1 DEF IInv, TypeOK
  <2>3. j < m /\ Stops(j, m) /\ j \in Stmts
    BY <2>1, <2>2 DEF IInv, PlanHolds, TypeOK
  <2>4. m \in j + 1..at
    BY <2>1, <2>3 DEF IInv, TypeOK
  <2> QED
    BY <2>2, <2>3, <2>4 DEF Stops
<1>4. EndsAsWritten
  BY DEF IInv, RunHolds, EndsAsWritten, Settled
<1> QED
  BY <1>1, <1>2, <1>3, <1>4
\* The planner keeps the plan.
LEMMA PlanSteps ==
  ASSUME IInv, PlanStep
  PROVE  IInv'
<1>1. /\ phase = "plan" /\ at \in Stmts /\ phase' = phase /\ at' = at + 1
      /\ flush' = [flush EXCEPT ![at] = Flush(at)]
      /\ pending' = (pending \ Flush(at)) \cup (IF prog[at].spawn THEN {at} ELSE {})
      /\ UNCHANGED <<prog, todo, env, started, finished, landed>>
  BY DEF PlanStep, Still, tasks
<1>2. Flush(at) \subseteq pending
  BY DEF Flush
<1>3. /\ \A j \in pending : j \in 1..at - 1 /\ prog[j].spawn
      /\ \A j \in pending, m \in 1..N + 1 : j \notin flush[m]
  BY <1>1 DEF IInv, PlanHolds
<1>4. TypeOK'
  <2>1. pending' \subseteq Stmts
    BY <1>1 DEF IInv, TypeOK
  <2>2. flush' \in [1..N + 1 -> SUBSET Stmts]
    BY <1>1, <1>2 DEF IInv, TypeOK
  <2>3. at' \in 1..N + 1
    BY <1>1
  <2> QED
    BY <1>1, <2>1, <2>2, <2>3 DEF IInv, TypeOK
<1>5. PlanHolds'
  <2>1. \A k \in 1..N + 1 : flush'[k] = IF k = at THEN Flush(at) ELSE flush[k]
    BY <1>1 DEF IInv, TypeOK
  <2>2. \A j, k : Stops(j, k)' = Stops(j, k)
    BY <1>1 DEF Stops, Conflict
  <2>3. \A j \in pending : j \in Flush(at) <=> Stops(j, at)
    BY <1>1 DEF Flush, Stops
  <2>4. \A k \in 1..N + 1 : Planned(k)' <=> (Planned(k) \/ k = at)
    BY <1>1 DEF Planned
  <2>5. ASSUME NEW k \in 1..N + 1, NEW j \in flush'[k]
        PROVE  j < k /\ prog'[j].spawn /\ Planned(k)' /\ Stops(j, k)'
    BY <1>1, <1>2, <1>3, <2>1, <2>2, <2>3, <2>4, <2>5 DEF IInv, PlanHolds
  <2>6. ASSUME NEW k \in 1..N + 1, NEW m \in 1..N + 1, k # m
        PROVE  flush'[k] \cap flush'[m] = {}
    BY <1>2, <1>3, <2>1, <2>6 DEF IInv, PlanHolds
  <2>7. ASSUME NEW j \in Stmts, NEW k \in 1..N + 1,
               j < k, prog'[j].spawn, Planned(k)', Stops(j, k)'
        PROVE  \E m \in j + 1..k : j \in flush'[m]
    <3>1. CASE k # at
      <4>1. PICK m \in j + 1..k : j \in flush[m]
        BY <1>1, <2>2, <2>4, <2>7, <3>1 DEF IInv, PlanHolds
      <4>2. m # at
        BY <1>1, <2>4, <2>7, <3>1 DEF Planned
      <4> QED
        BY <2>1, <4>1, <4>2
    <3>2. CASE k = at /\ j \in pending
      BY <2>1, <2>2, <2>3, <2>7, <3>2
    <3>3. CASE k = at /\ j \notin pending
      <4>1. PICK m \in 1..N + 1 : j \in flush[m]
        BY <1>1, <2>7, <3>3 DEF IInv, PlanHolds
      <4>2. j < m /\ Planned(m)
        BY <4>1 DEF IInv, PlanHolds
      <4> QED
        BY <1>1, <2>1, <3>3, <4>1, <4>2 DEF Planned
    <3> QED
      BY <3>1, <3>2, <3>3
  <2>8. pending' = {j \in 1..at' - 1 : prog'[j].spawn /\ \A m \in 1..N + 1 : j \notin flush'[m]}
    <3>1. pending = {j \in 1..at - 1 : prog[j].spawn /\ \A m \in 1..N + 1 : j \notin flush[m]}
      BY <1>1 DEF IInv, PlanHolds
    <3>2. \A m \in 1..N + 1 : at \notin flush[m]
      BY <1>1 DEF IInv, PlanHolds, Planned
    <3>3. at \notin Flush(at) /\ at \notin pending
      BY <1>1, <1>2, <1>3
    <3>4. \A j : (\A m \in 1..N + 1 : j \notin flush'[m])
                <=> j \notin Flush(at) /\ (\A m \in 1..N + 1 : j \notin flush[m])
      BY <1>1, <2>1 DEF IInv, PlanHolds, Planned
    <3> QED
      BY <1>1, <3>1, <3>2, <3>3, <3>4
  <2> QED
    BY <1>1, <2>5, <2>6, <2>7, <2>8 DEF PlanHolds
<1>6. RunHolds'
  BY <1>1 DEF IInv, RunHolds
<1> QED
  BY <1>4, <1>5, <1>6 DEF IInv

LEMMA PlanEnds ==
  ASSUME IInv, PlanTail
  PROVE  IInv'
<1>1. /\ phase = "plan" /\ at = N + 1 /\ phase' = "run" /\ at' = 1
      /\ flush' = [flush EXCEPT ![at] = pending] /\ todo' = flush'[1]
      /\ UNCHANGED <<prog, pending, env, started, finished, landed>>
  BY DEF PlanTail, tasks
<1>2. /\ \A j \in pending : j \in 1..at - 1 /\ prog[j].spawn
      /\ \A j \in pending, m \in 1..N + 1 : j \notin flush[m]
  BY <1>1 DEF IInv, PlanHolds
<1>3. \A k \in 1..N + 1 : flush'[k] = IF k = N + 1 THEN pending ELSE flush[k]
  BY <1>1 DEF IInv, TypeOK
<1>4. flush'[1] = {}
  <2>1. \A j \in flush[1] : j \in Stmts /\ j < 1
    BY DEF IInv, TypeOK, PlanHolds
  <2>2. N + 1 = 1 => pending = {}
    BY <1>1, <1>2
  <2> QED
    BY <1>3, <2>1, <2>2
<1>5. TypeOK'
  <2>1. flush' \in [1..N + 1 -> SUBSET Stmts]
    BY <1>1 DEF IInv, TypeOK
  <2> QED
    BY <1>1, <1>4, <2>1 DEF IInv, TypeOK
<1>6. PlanHolds'
  <2>1. \A j, k : Stops(j, k)' = Stops(j, k)
    BY <1>1 DEF Stops, Conflict
  <2>2. \A k : Planned(k)'
    BY <1>1 DEF Planned
  <2>3. ASSUME NEW k \in 1..N + 1, NEW j \in flush'[k]
        PROVE  j < k /\ prog'[j].spawn /\ Stops(j, k)'
    BY <1>1, <1>2, <1>3, <2>1, <2>3 DEF IInv, PlanHolds, Stops
  <2>4. ASSUME NEW k \in 1..N + 1, NEW m \in 1..N + 1, k # m
        PROVE  flush'[k] \cap flush'[m] = {}
    BY <1>2, <1>3, <2>4 DEF IInv, PlanHolds
  <2>5. ASSUME NEW j \in Stmts, NEW k \in 1..N + 1,
               j < k, prog'[j].spawn, Stops(j, k)'
        PROVE  \E m \in j + 1..k : j \in flush'[m]
    <3>1. CASE k # N + 1
      <4>1. PICK m \in j + 1..k : j \in flush[m]
        BY <1>1, <2>1, <2>5, <3>1 DEF IInv, PlanHolds, Planned
      <4> QED
        BY <1>3, <3>1, <4>1
    <3>2. CASE k = N + 1 /\ j \in pending
      BY <1>3, <2>5, <3>2
    <3>3. CASE k = N + 1 /\ j \notin pending
      <4>1. PICK m \in 1..N + 1 : j \in flush[m]
        BY <1>1, <2>5, <3>3 DEF IInv, PlanHolds
      <4>2. j < m /\ Planned(m)
        BY <4>1 DEF IInv, PlanHolds
      <4> QED
        BY <1>1, <1>3, <3>3, <4>1, <4>2 DEF Planned
    <3> QED
      BY <3>1, <3>2, <3>3
  <2> QED
    BY <1>1, <2>2, <2>3, <2>4, <2>5 DEF PlanHolds
<1>7. RunHolds'
  <2>1. started' = {} /\ landed' = {} /\ 1..at' - 1 = {}
    BY <1>1 DEF IInv, RunHolds, TypeOK
  <2>2. \A x \in Var : Settled(x)'
    BY <1>1 DEF IInv, RunHolds, TypeOK, LastWrite, Settled
  <2> QED
    BY <1>1, <1>4, <2>1, <2>2 DEF RunHolds
<1> QED
  BY <1>5, <1>6, <1>7 DEF IInv

\* A step of the run leaves the plan alone.
LEMMA PlanKept ==
  ASSUME IInv, UNCHANGED plan, phase # "plan", phase' # "plan"
  PROVE  PlanHolds'
<1>1. prog' = prog /\ flush' = flush
  BY DEF plan
<1>2. \A j, k : Stops(j, k)' = Stops(j, k) /\ Planned(k)' /\ Planned(k)
  BY <1>1 DEF Stops, Conflict, Planned
<1> QED
  BY <1>1, <1>2 DEF IInv, PlanHolds

\* A write at statement i is the last before i + 1; others stay the last.
LEMMA LastWriteMoves ==
  ASSUME TypeOK, at \in Stmts, prog' = prog, NEW x \in Var
  PROVE  /\ prog[at].target = x => LastWrite(at, x, at + 1)
         /\ \A w \in 0..N : prog[at].target # x /\ LastWrite(w, x, at)
                             => LastWrite(w, x, at + 1)
BY DEF LastWrite, TypeOK

\* What it takes for a variable to be settled after a step.
LEMMA SettledNext ==
  ASSUME prog' = prog, NEW x, LastWrite(env'[x], x, at')
  PROVE  Settled(x)'
BY DEF Settled, LastWrite

\* What is awaited before the next statement is in flight now.
LEMMA NextAwaits ==
  ASSUME IInv, Ready
  PROVE  /\ \A m \in 1..at : flush[m] \subseteq landed
         /\ flush[at + 1] \subseteq (started \cup {at}) \ landed
         /\ ~prog[at].spawn => flush[at + 1] \subseteq started
<1>1. at \in 1..N /\ phase = "run" /\ todo = {} /\ at + 1 \in 1..N + 1
  BY DEF Ready
<1>2. \A m \in 1..at : flush[m] \subseteq landed
  BY <1>1 DEF IInv, RunHolds
<1>3. ASSUME NEW j \in flush[at + 1] PROVE j < at + 1 /\ prog[j].spawn /\ j \in Stmts
  BY <1>1 DEF IInv, PlanHolds, TypeOK
<1>4. ASSUME NEW j \in flush[at + 1], j \in landed PROVE FALSE
  <2>1. PICK m \in 1..at : j \in flush[m]
    BY <1>1, <1>4 DEF IInv, RunHolds
  <2> QED
    BY <1>1, <1>4, <2>1 DEF IInv, PlanHolds
<1> QED
  BY <1>1, <1>2, <1>3, <1>4 DEF IInv, RunHolds

\* A spawn puts one more task in flight, the last write of its target.
LEMMA SpawnSteps ==
  ASSUME IInv, Spawn
  PROVE  IInv'
<1>1. /\ Ready /\ prog[at].spawn /\ started' = started \cup {at}
      /\ at' = at + 1 /\ todo' = flush[at + 1] /\ UNCHANGED plan
      /\ UNCHANGED <<prog, flush, pending, phase, env, finished, landed>>
  BY DEF Spawn, Advance, plan
<1>2. at \in 1..N /\ phase = "run" /\ todo = {}
  BY <1>1 DEF Ready
<1>3. TypeOK'
  BY <1>1, <1>2 DEF IInv, TypeOK
<1>4. PlanHolds'
  BY <1>1, <1>2, PlanKept
<1>5. \A x \in Var : Settled(x)' \/ \E j \in started' \ landed' : prog'[j].target = x
  <2> TAKE x \in Var
  <2>1. CASE prog[at].target = x
    <3>1. at \notin landed
      BY <1>2 DEF IInv, TypeOK, RunHolds
    <3> QED
      BY <1>1, <2>1, <3>1
  <2>2. CASE prog[at].target # x
    BY <1>1, <1>2, <2>2, LastWriteMoves, SettledNext DEF IInv, TypeOK, RunHolds, Settled
  <2> QED
    BY <2>1, <2>2
<1>6. RunHolds'
  <2>1. started' = {j \in 1..at' - 1 : prog'[j].spawn}
    BY <1>1, <1>2 DEF IInv, RunHolds
  <2>2. \A j \in landed' : \E m \in 1..at' : j \in flush'[m]
    BY <1>1, <1>2 DEF IInv, RunHolds
  <2>3. \A m \in 1..at' - 1 : flush'[m] \subseteq landed'
    BY <1>1, <1>2, NextAwaits
  <2>4. todo' = flush'[at'] /\ todo' \subseteq started' \ landed'
    BY <1>1, NextAwaits
  <2> QED
    BY <1>1, <1>2, <1>5, <2>1, <2>2, <2>3, <2>4 DEF RunHolds
<1> QED
  BY <1>3, <1>4, <1>6 DEF IInv

\* A statement that is not spawned writes its target at once.
LEMMA ExecuteSteps ==
  ASSUME IInv, Execute
  PROVE  IInv'
<1>1. /\ Ready /\ ~prog[at].spawn
      /\ env' = [x \in Var |-> IF x = prog[at].target THEN at ELSE env[x]]
      /\ at' = at + 1 /\ todo' = flush[at + 1] /\ UNCHANGED plan
      /\ UNCHANGED <<prog, flush, pending, phase, started, finished, landed>>
  BY DEF Execute, Bind, Advance, plan, tasks
<1>2. at \in 1..N /\ phase = "run" /\ todo = {}
  BY <1>1 DEF Ready
<1>3. TypeOK'
  BY <1>1, <1>2 DEF IInv, TypeOK
<1>4. PlanHolds'
  BY <1>1, <1>2, PlanKept
<1>5. \A x \in Var : Settled(x)' \/ \E j \in started' \ landed' : prog'[j].target = x
  <2> TAKE x \in Var
  <2>1. CASE prog[at].target = x
    BY <1>1, <1>2, <2>1, LastWriteMoves, SettledNext DEF IInv
  <2>2. CASE prog[at].target # x
    <3>1. env'[x] = env[x] /\ env[x] \in 0..N
      BY <1>1, <2>2 DEF IInv, TypeOK
    <3> QED
      BY <1>1, <1>2, <2>2, <3>1, LastWriteMoves, SettledNext DEF IInv, RunHolds, Settled
  <2> QED
    BY <2>1, <2>2
<1>6. RunHolds'
  <2>1. started' = {j \in 1..at' - 1 : prog'[j].spawn}
    BY <1>1, <1>2 DEF IInv, RunHolds
  <2>2. \A j \in landed' : \E m \in 1..at' : j \in flush'[m]
    BY <1>1, <1>2 DEF IInv, RunHolds
  <2>3. \A m \in 1..at' - 1 : flush'[m] \subseteq landed'
    BY <1>1, <1>2, NextAwaits
  <2>4. todo' = flush'[at'] /\ todo' \subseteq started' \ landed'
    BY <1>1, NextAwaits
  <2> QED
    BY <1>1, <1>2, <1>5, <2>1, <2>2, <2>3, <2>4 DEF RunHolds
<1> QED
  BY <1>3, <1>4, <1>6 DEF IInv

\* An await lands the task whose statement wrote its target last.
LEMMA AwaitSteps ==
  ASSUME IInv, NEW j \in Stmts, Await(j)
  PROVE  IInv'
<1>1. /\ phase = "run" /\ j \in todo /\ j \in finished
      /\ env' = [x \in Var |-> IF x = prog[j].target THEN j ELSE env[x]]
      /\ landed' = landed \cup {j} /\ todo' = todo \ {j} /\ UNCHANGED plan
      /\ UNCHANGED <<prog, flush, pending, phase, at, started, finished>>
  BY DEF Await, Bind, plan
<1>2. j \in started \ landed /\ j \in flush[at] /\ at \in 1..N + 1
  BY <1>1 DEF IInv, RunHolds, TypeOK
<1>3. TypeOK'
  BY <1>1 DEF IInv, TypeOK
<1>4. PlanHolds'
  BY <1>1, PlanKept
<1>5. \A x \in Var : Settled(x)' \/ \E i \in started' \ landed' : prog'[i].target = x
  <2> TAKE x \in Var
  <2>2. CASE prog[j].target = x
    <3>1. LastWrite(j, x, at)
      BY <1>1, <1>2, <2>2, InFlightIsLast
    <3> QED
      BY <1>1, <2>2, <3>1, SettledNext
  <2>3. CASE prog[j].target # x
    BY <1>1, <2>3, SettledNext DEF IInv, RunHolds, Settled
  <2> QED
    BY <2>2, <2>3
<1>6. RunHolds'
  <2>1. \A i \in landed' : \E m \in 1..at' : i \in flush'[m]
    BY <1>1, <1>2 DEF IInv, RunHolds
  <2>2. \A m \in 1..at' - 1 : flush'[m] \subseteq landed'
    BY <1>1 DEF IInv, RunHolds
  <2>3. /\ todo' \subseteq flush'[at'] \cap (started' \ landed')
        /\ flush'[at'] \ todo' \subseteq landed'
    BY <1>1 DEF IInv, RunHolds
  <2>4. started' = {i \in 1..at' - 1 : prog'[i].spawn}
    BY <1>1 DEF IInv, RunHolds
  <2> QED
    BY <1>1, <1>5, <2>1, <2>2, <2>3, <2>4 DEF RunHolds
<1> QED
  BY <1>3, <1>4, <1>6 DEF IInv

\* Tasks end, and the group ends, without a change to the variables.
LEMMA OtherSteps ==
  ASSUME IInv, Leave \/ End \/ \E j \in Stmts : Finish(j)
  PROVE  IInv'
<1>1. UNCHANGED <<prog, flush, pending, at, todo, env, started, landed>> /\ UNCHANGED plan
  BY DEF Leave, End, Finish, plan, tasks
<1>2. \A x : Settled(x)' = Settled(x)
  BY <1>1 DEF Settled, LastWrite
<1>3. CASE Leave \/ End
  <2>1. phase = "run" /\ phase' \in {"done", "left"} /\ finished' = finished /\ todo = {}
    BY <1>3 DEF Leave, End, Ready, tasks
  <2>2. started = landed
    BY <1>3, <2>1, NothingInFlight DEF Leave, End, Ready
  <2>3. phase' = "done" => at = N + 1
    BY <1>3 DEF Leave, End
  <2>4. TypeOK' /\ PlanHolds'
    BY <1>1, <2>1, PlanKept DEF IInv, TypeOK
  <2>5. RunHolds'
    BY <1>1, <1>2, <2>1, <2>2, <2>3 DEF IInv, RunHolds
  <2> QED
    BY <2>4, <2>5 DEF IInv
<1>4. CASE \E j \in Stmts : Finish(j)
  <2>1. PICK j \in started \ finished : phase' = phase /\ finished' = finished \cup {j}
    BY <1>4 DEF Finish
  <2>2. phase # "plan"
    BY <2>1 DEF IInv, RunHolds
  <2>3. TypeOK' /\ PlanHolds'
    BY <1>1, <2>1, <2>2, PlanKept DEF IInv, TypeOK
  <2>4. RunHolds'
    BY <1>1, <1>2, <2>1, <2>2 DEF IInv, RunHolds
  <2> QED
    BY <2>3, <2>4 DEF IInv
<1> QED
  BY <1>3, <1>4

\* IInv is an invariant of every group.
THEOREM Inductive == Spec => []IInv
<1>1. Init => IInv
  BY DEF Init, IInv, TypeOK, PlanHolds, RunHolds, Planned
<1>2. IInv /\ [Next]_vars => IInv'
  <2> SUFFICES ASSUME IInv, [Next]_vars PROVE IInv'
    OBVIOUS
  <2>1. CASE UNCHANGED vars
    <3>1. UNCHANGED <<prog, flush, pending, phase, at, todo, env, started, finished, landed>>
      BY <2>1 DEF vars, plan, tasks
    <3>2. \A x : Settled(x)' = Settled(x)
      BY <3>1 DEF Settled, LastWrite
    <3>3. \A j, k : Stops(j, k)' = Stops(j, k) /\ Planned(k)' = Planned(k)
      BY <3>1 DEF Stops, Conflict, Planned
    <3>4. TypeOK'
      BY <3>1 DEF IInv, TypeOK
    <3>5. PlanHolds'
      BY <3>1, <3>3 DEF IInv, PlanHolds
    <3>6. RunHolds'
      BY <3>1, <3>2 DEF IInv, RunHolds
    <3> QED
      BY <3>4, <3>5, <3>6 DEF IInv
  <2> QED
    BY <2>1, PlanSteps, PlanEnds, SpawnSteps, ExecuteSteps, AwaitSteps, OtherSteps DEF Next
<1> QED
  BY <1>1, <1>2, PTL DEF Spec

\* A group of any length, over any variables, reads and leaves the values its
\* statements in source order would.
THEOREM SourceOrder == Spec => [](ReadsAsWritten /\ EndsAsWritten)
<1>1. IInv => ReadsAsWritten /\ EndsAsWritten
  BY ReadsFollow, OthersFollow
<1> QED
  BY <1>1, Inductive, PTL

\* Every spawned task is awaited exactly once before the group is over.
THEOREM TasksAwaited == Spec => [](AwaitedOnce /\ NoTaskLeftBehind)
<1>1. IInv => AwaitedOnce /\ NoTaskLeftBehind
  BY OthersFollow
<1> QED
  BY <1>1, Inductive, PTL

\* Nothing is awaited before a statement makes it necessary.
THEOREM SpawnsOverlap == Spec => []OverlapKept
<1>1. IInv => OverlapKept
  BY OthersFollow
<1> QED
  BY <1>1, Inductive, PTL

================================================================================
