----------------------------- MODULE MirOwnership -----------------------------
(***************************************************************************)
(* Ownership of heap values in MIR: where the compiler frees a local, when *)
(* a copy of it is a move and what a spawned task is given; and the        *)
(* compiled function, running against the buffers those decisions free.    *)
(*                                                                         *)
(* A body is lowered (MirLower), its liveness is solved block by block,    *)
(* insertDrops decides, the checks either reject the body or let it run.   *)
(***************************************************************************)
EXTENDS MirLower, FiniteSets

CONSTANTS MaxTask     \* bound on the tasks spawned and not yet run

ASSUME HeapAssumption == IsFiniteSet(Local) /\ MaxTask \in Nat

VARIABLES
  phase,       \* lower, live, copies, spawns, drops, then run, rejected or done
  at,          \* Liveness: the block visited last, 0 at the end of a pass
  changed,     \* Liveness: a set has changed in this pass
  liveIn, liveOut,
  moveSrc,     \* the values whose ownership has left them
  spawnMoves,  \* spawnArgMoves
  spawnRetains,\* spawnArgRetains
  dropStart,   \* dropAtStart, without the redundant drops
  dropEnd,     \* dropAtEnd
  pc,          \* the block and the instruction about to run
  slot,        \* the buffer in the slot of each local, 0 when it was never written
  rc,          \* the reference counts of the buffers, 0 when free
  tasks,       \* the spawned tasks that have not run
  gone,        \* the locals a placed drop has freed since their slot was written
  lost,        \* the locals whose buffer became unreachable
  fault        \* the memory error that ended the run

analysis == <<phase, at, changed, liveIn, liveOut, moveSrc, spawnMoves, spawnRetains,
              dropStart, dropEnd>>
heap == <<slot, rc, tasks, gone, lost, fault>>
vars == <<lowering, analysis, pc, heap>>

Buf == 1..(Cardinality(Local) + MaxTask + 1)
NoFault == [kind |-> "none", on |-> NoVal]
Blocks == 1..Len(blocks)

Init ==
  /\ LowerInit
  /\ phase = "lower" /\ at = 0 /\ changed = FALSE
  /\ liveIn = <<>> /\ liveOut = <<>>
  /\ moveSrc = {} /\ spawnMoves = {} /\ spawnRetains = {}
  /\ dropStart = <<>> /\ dropEnd = <<>>
  /\ pc = [b |-> 1, i |-> 1]
  /\ slot = [v \in Local |-> 0] /\ rc = [n \in Buf |-> 0]
  /\ tasks = <<>>
  /\ gone = {} /\ lost = {} /\ fault = NoFault

Statement == phase = "lower" /\ Lower /\ UNCHANGED <<analysis, pc, heap>>

-----------------------------------------------------------------------------
\* Liveness.  A pass visits the blocks backwards; passes repeat until one of
\* them changes nothing.
InstsOf(b) == blocks[b].insts
Index(b) == 1..Len(blocks[b].insts)
Succs(b) == blocks[b].to
DefOf(b) == {InstsOf(b)[i].dst : i \in Index(b)} \ {NoVal}
\* The values read before the block defines them.  The target of a move into a
\* slot, and a dropped value, count as read.
UseOf(b) == {v \in Local : \E i \in Index(b) :
               v \in Args(InstsOf(b)[i]) /\ \A j \in 1..i - 1 : InstsOf(b)[j].dst # v}

\* Mutant: only what is new in this pass.
OutOf_New(b) == {v \in Local : \E s \in Succs(b) : v \in liveIn[s]} \ liveOut[b]

OutOf(b) == {v \in Local : \E s \in Succs(b) : v \in liveIn[s]}
InOf(b) == UseOf(b) \cup (OutOf(b) \ DefOf(b))

\* The end of the body: ensureReturn, then Analyze.  The lowerer is done with.
Analyze ==
  /\ phase = "lower" /\ open = <<>>
  /\ phase' = "live" /\ blocks' = EnsureReturn
  /\ dialect' = {} /\ cur' = 1 /\ size' = 0 /\ dead' = FALSE
  /\ locals' = {} /\ visible' = {} /\ moved' = {}
  /\ at' = Len(blocks) + 1 /\ changed' = FALSE
  /\ liveIn' = [b \in Blocks |-> {}] /\ liveOut' = [b \in Blocks |-> {}]
  /\ UNCHANGED <<open, moveSrc, spawnMoves, spawnRetains, dropStart, dropEnd, pc, heap>>

Visit ==
  /\ phase = "live" /\ at > 1
  /\ LET b == at - 1 IN
     /\ at' = b
     /\ liveIn' = [liveIn EXCEPT ![b] = InOf(b)]
     /\ liveOut' = [liveOut EXCEPT ![b] = OutOf(b)]
     /\ changed' = (changed \/ InOf(b) # liveIn[b] \/ OutOf(b) # liveOut[b])
  /\ UNCHANGED <<phase, moveSrc, spawnMoves, spawnRetains, dropStart, dropEnd,
                 lowering, pc, heap>>

\* Mutant: one backward pass, as if the graph had no loops.
EndPass_Once ==
  /\ phase = "live" /\ at = 1 /\ phase' = "copies"
  /\ UNCHANGED <<at, changed, liveIn, liveOut, moveSrc, spawnMoves, spawnRetains,
                 dropStart, dropEnd, lowering, pc, heap>>

EndPass ==
  /\ phase = "live" /\ at = 1
  /\ IF changed THEN at' = Len(blocks) + 1 /\ changed' = FALSE /\ UNCHANGED phase
                ELSE phase' = "copies" /\ UNCHANGED <<at, changed>>
  /\ UNCHANGED <<liveIn, liveOut, moveSrc, spawnMoves, spawnRetains, dropStart, dropEnd,
                 lowering, pc, heap>>

-----------------------------------------------------------------------------
\* Mutant: the rest of the block is not looked at.
NeededAfter_LiveOut(b, i, v) == v \in liveOut[b]

\* v is needed after instruction i of block b: it is live out of the block, or a
\* later instruction of the block names it and does not just dispose of it.
NeededAfter(b, i, v) ==
  \/ v \in liveOut[b]
  \/ \E j \in i + 1..Len(InstsOf(b)) : InstsOf(b)[j].op # "drop" /\ v \in Args(InstsOf(b)[j])

IsCopy(x) == x.op \in {"move", "clone"} /\ x.src # NoVal
\* A copy of a value still needed is a clone.  A copy of a dead one is a move,
\* except a clone into an existing slot, which lowering never emits.
Rewritten(b, i) ==
  LET x == InstsOf(b)[i] IN
  IF ~IsCopy(x) THEN x
  ELSE [x EXCEPT !.op = IF NeededAfter(b, i, x.src) THEN "clone" ELSE "move"]

Transfers(x) == x.op = "move" /\ x.src # NoVal

DecideCopies ==
  /\ phase = "copies" /\ phase' = "spawns"
  /\ blocks' = [b \in Blocks |->
                  [blocks[b] EXCEPT !.insts = [i \in Index(b) |-> Rewritten(b, i)]]]
  /\ moveSrc' = {v \in Local : \E b \in Blocks : \E i \in Index(b) :
                   Transfers(Rewritten(b, i)) /\ Rewritten(b, i).src = v}
  /\ UNCHANGED <<dialect, cur, open, locals, visible, moved, size, dead, at, changed,
                 liveIn, liveOut, spawnMoves, spawnRetains, dropStart, dropEnd, pc, heap>>

\* The owned values: parameters and borrowed reads are left out of the model.
Owned == UNION {DefOf(b) : b \in Blocks}

Reach(b) ==
  LET r[n \in Nat] == IF n = 0 THEN Succs(b) ELSE r[n - 1] \cup UNION {Succs(c) : c \in r[n - 1]}
  IN r[Len(blocks)]

\* Reading, cloning and dropping do not write the buffer; a call, a move and a
\* spawn are taken to.
MayWrite(x, v) == v \in Args(x) /\ x.op \in {"write", "move", "run"}
WritesAfter(b, i, v) ==
  \/ \E j \in i + 1..Len(InstsOf(b)) : MayWrite(InstsOf(b)[j], v)
  \/ \E c \in Reach(b) : \E j \in Index(c) : MayWrite(InstsOf(c)[j], v)

Site(b, i, v) == i \in Index(b) /\ InstsOf(b)[i] = Op("run", v) /\ v \in Owned
DeadSite(b, i, v) == Site(b, i, v) /\ ~NeededAfter(b, i, v)
Before(c, j, b, i) == c < b \/ (c = b /\ j < i)

\* A spawn site that is the last use of its argument moves it; another one may
\* share it.  Both are recorded for the value, not for the site.
DecideSpawns ==
  /\ phase = "spawns" /\ phase' = "drops"
  /\ spawnMoves' = {v \in Local : \E b \in Blocks : \E i \in Index(b) : DeadSite(b, i, v)}
  /\ spawnRetains' =
       {v \in Local : \E b \in Blocks : \E i \in Index(b) :
          /\ Site(b, i, v) /\ NeededAfter(b, i, v)
          /\ ~\E c \in Blocks : \E j \in Index(c) : Before(c, j, b, i) /\ DeadSite(c, j, v)
          /\ ~WritesAfter(b, i, v)}
  /\ moveSrc' = moveSrc \cup spawnMoves'
  /\ UNCHANGED <<lowering, at, changed, liveIn, liveOut, dropStart, dropEnd, pc, heap>>

-----------------------------------------------------------------------------
Droppable == Owned \ moveSrc

\* v is in block b and dies there, or on an edge out of it.
Holds(b, v) == v \in DefOf(b) \cup liveIn[b]
\* Mutants: a value that dies on one edge is dropped at the end of the block, whatever
\* the other edges need; a value that dies on an edge is not dropped there.
EndDrops_AnyEdge(b) ==
  {v \in Droppable : Holds(b, v) /\ (v \in liveOut[b] => \E s \in Succs(b) : v \notin liveIn[s])}
EdgeDrops_None(s) == {}

EndDrops(b) == {v \in Droppable : Holds(b, v) /\ v \notin liveOut[b]}
EdgeDrops(s) == {v \in Droppable \ liveIn[s] :
                   \E b \in Blocks : s \in Succs(b) /\ Holds(b, v) /\ v \in liveOut[b]}

\* redundantStartDrop: the blocks after b, as long as each has one successor.
Only(b) == IF b # 0 /\ Cardinality(Succs(b)) = 1 THEN CHOOSE s \in Succs(b) : TRUE ELSE 0
Chain(b) == LET c[n \in Nat] == IF n = 0 THEN b ELSE Only(c[n - 1])
            IN {c[n] : n \in 1..Len(blocks)} \ {0}
\* Blocks are taken in order; a drop that was removed justifies no other removal.
Kept == LET k[b \in Nat] ==
              IF b = 0 THEN {}
              ELSE LET prev == k[b - 1] IN
                   prev \cup {<<b, v>> : v \in {w \in EdgeDrops(b) :
                      ~\E s \in Chain(b) : w \in EdgeDrops(s) /\ (s < b => <<s, w>> \in prev)}}
        IN k[Len(blocks)]

\* checkMoves solves forwards for the values moved on every path into a block.
\* Its greatest solution leaves out v where a path from the entry, or from a block
\* without predecessors, arrives without having moved v.
MovedIn(b) == {InstsOf(b)[i].src : i \in {j \in Index(b) : Transfers(InstsOf(b)[j])}}
Preds(b) == {p \in Blocks : b \in Succs(p)}
Entries == {1} \cup {b \in Blocks : Preds(b) = {}}
Unmoved(v) ==
  LET r[n \in Nat] ==
        IF n = 0 THEN Entries
        ELSE LET prev == r[n - 1] IN
             prev \cup UNION {Succs(p) : p \in {q \in prev : v \notin MovedIn(q)}}
  IN r[Len(blocks)]

MovedBefore(b, i, v) ==
  \/ b \notin Unmoved(v)
  \/ \E j \in 1..i - 1 : Transfers(InstsOf(b)[j]) /\ InstsOf(b)[j].src = v
ExplicitDrop(b, i, v) == i \in Index(b) /\ InstsOf(b)[i] = Op("drop", v)

\* A moved value is disposed of again.
UseAfterMove(starts, ends) ==
  \E b \in Blocks, v \in Local :
    \/ v \in starts[b] /\ MovedBefore(b, 1, v)
    \/ \E i \in Index(b) : ExplicitDrop(b, i, v) /\ MovedBefore(b, i, v)
    \/ v \in ends[b] /\ MovedBefore(b, Len(InstsOf(b)) + 1, v)

\* Mutant: a value moved into a task is still expected to have a drop.
MissingDrop_Spawn(starts, ends) ==
  \E v \in Owned :
    /\ ~\E b \in Blocks : v \in MovedIn(b)
    /\ \A b \in Blocks : v \notin starts[b] \cup ends[b]
                          /\ \A i \in Index(b) : ~ExplicitDrop(b, i, v)

\* checkDropCount: an owned value that is not a move source has no drop at all.
MissingDrop(starts, ends) ==
  \E v \in Owned :
    /\ ~\E b \in Blocks : v \in MovedIn(b)
    /\ ~(v \in spawnMoves /\ \E b \in Blocks : \E i \in Index(b) : Site(b, i, v))
    /\ \A b \in Blocks : v \notin starts[b] \cup ends[b]
                          /\ \A i \in Index(b) : ~ExplicitDrop(b, i, v)

PlaceDrops ==
  /\ phase = "drops"
  /\ dropStart' = [b \in Blocks |-> {v \in EdgeDrops(b) : <<b, v>> \in Kept}]
  /\ dropEnd' = [b \in Blocks |-> EndDrops(b)]
  /\ phase' = IF UseAfterMove(dropStart', dropEnd') \/ MissingDrop(dropStart', dropEnd')
              THEN "rejected" ELSE "run"
  /\ UNCHANGED <<lowering, at, changed, liveIn, liveOut, moveSrc, spawnMoves, spawnRetains,
                 pc, heap>>

-----------------------------------------------------------------------------
Held(sl, ts) == {sl[v] : v \in Local} \cup {ts[i].buf : i \in DOMAIN ts}
Fresh == CHOOSE n \in Buf : n \notin Held(slot, tasks)

Fault(k, v) == fault' = [kind |-> k, on |-> v] /\ UNCHANGED <<slot, rc, tasks, gone, lost>>

\* The slot of w is overwritten with buffer n, whose count becomes c: what it
\* held is lost when nothing else can reach it.
Overwrite(w, n, c) ==
  /\ slot' = [slot EXCEPT ![w] = n]
  /\ LET old == slot[w]
         leak == old # 0 /\ rc[old] # 0 /\ old \notin Held(slot', tasks)
     IN /\ rc' = [m \in Buf |-> IF m = n THEN c ELSE IF leak /\ m = old THEN 0 ELSE rc[m]]
        /\ lost' = IF leak THEN lost \cup {w} ELSE lost
  /\ gone' = gone \ {w}
  /\ UNCHANGED <<tasks, fault>>

Freed(n) == n # 0 /\ rc[n] = 0
Target(x) == IF x.dst # NoVal THEN x.dst ELSE x.into

\* The drop of a local: a slot never written holds nothing; the slot keeps its
\* pointer; the buffer is freed with its last reference.
Drop(v) ==
  IF Freed(slot[v]) THEN Fault("double free", v)
  ELSE /\ rc' = IF slot[v] = 0 THEN rc ELSE [rc EXCEPT ![slot[v]] = @ - 1]
       /\ UNCHANGED <<slot, tasks, gone, lost, fault>>

Touch(v) ==
  IF Freed(slot[v]) THEN Fault("use after free", v)
  ELSE UNCHANGED <<slot, rc, tasks, gone, lost, fault>>

\* A write in place: a task that shares the buffer no longer sees what it was given.
WriteThrough(v) ==
  IF Freed(slot[v]) THEN Fault("use after free", v)
  ELSE /\ tasks' = [i \in DOMAIN tasks |->
                      IF slot[v] # 0 /\ tasks[i].buf = slot[v] THEN [tasks[i] EXCEPT !.stale = TRUE]
                                                               ELSE tasks[i]]
       /\ UNCHANGED <<slot, rc, gone, lost, fault>>

\* A task is given the caller's buffer, moved or with a second reference, or a copy.
Start(v) ==
  LET share == v \in spawnMoves \cup spawnRetains
      n == IF share THEN slot[v] ELSE Fresh
  IN IF Freed(slot[v]) THEN Fault("use after free", v)
     ELSE /\ Len(tasks) < MaxTask
          /\ tasks' = Append(tasks, [buf |-> n, arg |-> v, stale |-> FALSE])
          /\ rc' = IF ~share THEN [rc EXCEPT ![n] = 1]
                   ELSE IF v \in spawnRetains /\ n # 0 THEN [rc EXCEPT ![n] = @ + 1]
                   ELSE rc
          /\ UNCHANGED <<slot, gone, lost, fault>>

\* The instructions that give the slot of w a value: a temporary, a deep copy of the
\* content of v, or that content itself.
Define(x, w) ==
  \/ x.src = NoVal /\ Overwrite(w, Fresh, 1)
  \/ /\ x.src # NoVal /\ x.op = "clone"
     /\ IF Freed(slot[x.src]) THEN Fault("use after free", x.src) ELSE Overwrite(w, Fresh, 1)
  \/ /\ Transfers(x)
     /\ Overwrite(w, slot[x.src], IF slot[x.src] = 0 THEN 0 ELSE rc[slot[x.src]])

Perform(x) ==
  \/ x.op \in {"new", "clone", "move"} /\ Define(x, Target(x))
  \/ x.op = "read" /\ Touch(x.src)
  \/ x.op = "write" /\ WriteThrough(x.src)
  \/ x.op = "drop" /\ Drop(x.src)
  \/ x.op = "run" /\ Start(x.src)

Running == phase = "run" /\ fault = NoFault

Step ==
  /\ Running /\ pc.i \in Index(pc.b)
  /\ Perform(InstsOf(pc.b)[pc.i])
  /\ pc' = [pc EXCEPT !.i = @ + 1]
  /\ UNCHANGED <<lowering, analysis>>

\* The end of a block: its last drops, the jump, the first drops of the next block.
Count(S, n) == Cardinality({v \in S : slot[v] = n})
Release(r, S) == [n \in Buf |-> r[n] - Count(S, n)]
\* Mutant: a second release of a buffer goes through.
Again_Never(r, S) == {}
Again(r, S) == {v \in S : slot[v] # 0 /\ Count(S, slot[v]) > r[slot[v]]}

Leave ==
  /\ Running /\ pc.i \notin Index(pc.b)
  /\ LET ends == dropEnd[pc.b]
         r == Release(rc, ends)
     IN \E s \in Succs(pc.b) :
          /\ pc' = [b |-> s, i |-> 1]
          /\ IF Again(rc, ends) # {} THEN \E v \in Again(rc, ends) : Fault("double free", v)
             ELSE IF Again(r, dropStart[s]) # {}
             THEN \E v \in Again(r, dropStart[s]) : Fault("double free", v)
             ELSE /\ rc' = Release(r, dropStart[s])
                  /\ gone' = gone \cup ends \cup dropStart[s]
                  /\ UNCHANGED <<slot, tasks, lost, fault>>
  /\ UNCHANGED <<lowering, analysis>>

\* The return: the slots are gone, what no task holds is lost.
TaskRefs(n) == Cardinality({i \in DOMAIN tasks : tasks[i].buf = n})

Exit ==
  /\ Running /\ pc.i \notin Index(pc.b) /\ blocks[pc.b].term = "ret"
  /\ LET ends == dropEnd[pc.b]
         r == Release(rc, ends)
     IN IF Again(rc, ends) # {}
        THEN /\ \E v \in Again(rc, ends) : Fault("double free", v)
             /\ UNCHANGED phase
        ELSE /\ phase' = "done"
             /\ lost' = lost \cup {v \in Local : slot[v] # 0 /\ r[slot[v]] > TaskRefs(slot[v])}
             /\ rc' = [n \in Buf |-> IF r[n] > TaskRefs(n) THEN TaskRefs(n) ELSE r[n]]
             /\ slot' = [v \in Local |-> 0] /\ gone' = {}
             /\ UNCHANGED <<tasks, fault>>
  /\ UNCHANGED <<lowering, at, changed, liveIn, liveOut, moveSrc, spawnMoves, spawnRetains,
                 dropStart, dropEnd, pc>>

\* A task runs: it reads its argument, and its wrapper releases it.
Without(ts, i) == SubSeq(ts, 1, i - 1) \o SubSeq(ts, i + 1, Len(ts))

RunTask(i) ==
  /\ phase \in {"run", "done"} /\ fault = NoFault
  /\ LET t == tasks[i] IN
     IF Freed(t.buf) THEN Fault("use after free", t.arg)
     ELSE IF t.stale THEN Fault("stale argument", t.arg)
     ELSE /\ tasks' = Without(tasks, i)
          /\ LET leak == t.buf # 0 /\ rc[t.buf] > 1 /\ t.buf \notin Held(slot, tasks') IN
             /\ rc' = IF t.buf = 0 THEN rc
                      ELSE [rc EXCEPT ![t.buf] = IF leak THEN 0 ELSE @ - 1]
             /\ lost' = IF leak THEN lost \cup {t.arg} ELSE lost
          /\ UNCHANGED <<slot, gone, fault>>
  /\ UNCHANGED <<lowering, analysis, pc>>

Next ==
  \/ Statement \/ Analyze \/ Visit \/ EndPass
  \/ DecideCopies \/ DecideSpawns \/ PlaceDrops
  \/ Step \/ Leave \/ Exit
  \/ \E i \in DOMAIN tasks : RunTask(i)

Spec == Init /\ [][Next]_vars

-----------------------------------------------------------------------------
Phase == {"lower", "live", "copies", "spawns", "drops", "run", "rejected", "done"}
Task == [buf : Buf \cup {0}, arg : Local, stale : BOOLEAN]

\* Type correctness of the lowerer, of the analysis and of the heap.  A reference
\* count is never negative.
TypeOK ==
  /\ LowerTypeOK
  /\ phase \in Phase /\ at \in Nat /\ changed \in BOOLEAN
  /\ phase # "lower" =>
       liveIn \in [Blocks -> SUBSET Local] /\ liveOut \in [Blocks -> SUBSET Local]
  /\ moveSrc \subseteq Local /\ spawnMoves \subseteq Local /\ spawnRetains \subseteq Local
  /\ phase \in {"run", "rejected", "done"} =>
       dropStart \in [Blocks -> SUBSET Local] /\ dropEnd \in [Blocks -> SUBSET Local]
  /\ pc \in [b : Blocks, i : Nat \ {0}]
  /\ slot \in [Local -> Buf \cup {0}] /\ rc \in [Buf -> Nat]
  /\ tasks \in Seq(Task) /\ Len(tasks) <= MaxTask
  /\ gone \subseteq Local /\ lost \subseteq Local
  /\ fault \in [kind : {"none", "double free", "use after free", "stale argument"},
                on : Local \cup {NoVal}]

\* Liveness stops with a solution of its equations on every block, also after the
\* copies have been rewritten: the sets every later decision reads are not stale.
LivenessSolved ==
  phase \notin {"lower", "live"} =>
    \A b \in Blocks : liveIn[b] = InOf(b) /\ liveOut[b] = OutOf(b)

\* No pass takes a value back: the sets only grow, so the passes come to an end.
LiveGrows ==
  [][phase = "live" => \A b \in Blocks : liveIn[b] \subseteq liveIn'[b]
                                         /\ liveOut[b] \subseteq liveOut'[b]]_vars

\* A local that insertDrops has freed on the path taken is not named by any later
\* instruction, not even by an explicit drop, before its slot is written again.
DroppedUnused ==
  (Running /\ pc.i \in Index(pc.b)) => gone \cap Args(InstsOf(pc.b)[pc.i]) = {}

\* Two spawn sites take the same value: spawnMoves and spawnRetains cannot tell them apart.
TwoSites(v) == \E b, c \in Blocks : \E i \in Index(b), j \in Index(c) :
                 Site(b, i, v) /\ Site(c, j, v) /\ <<b, i>> # <<c, j>>
\* v is dropped where block s starts, for one of its predecessors only: s is the exit of
\* a loop, which a break reaches with v already freed.
EdgeShared(s, v) == v \in dropStart[s] /\ \E p \in Preds(s) : v \notin liveOut[p]

\* The memory errors of a compiled body come from these two places in the compiler and
\* from nowhere else.  The second drop at a shared edge is a double free, or takes the
\* reference of the task that shares the buffer: then it is the task that fails.
FaultExplained ==
  fault # NoFault =>
    \/ \E v \in Local : TwoSites(v)
    \/ fault.kind = "double free" /\ EdgeShared(pc.b, fault.on)
    \/ /\ fault.kind = "use after free" /\ \E i \in DOMAIN tasks : tasks[i].arg = fault.on
       /\ \E s \in Blocks : EdgeShared(s, fault.on)

\* A buffer is lost only through a local whose ownership moves on some path, or that an
\* assignment copied from (its next rebind skips the drop), or whose edge drop was removed
\* as redundant although a block from there on to the later drop writes its slot again.
MovedInto(v) == \E b \in Blocks : \E i \in Index(b) :
                  LET x == InstsOf(b)[i] IN IsCopy(x) /\ x.src = v /\ x.into # NoVal
Removed(v) == \E b \in Blocks : /\ v \in EdgeDrops(b) \ dropStart[b]
                                /\ \E c \in {b} \cup Chain(b) : v \in DefOf(c)
LostExplained == \A v \in lost : v \in moveSrc \/ MovedInto(v) \/ Removed(v)

\* checkMoves and checkDropCount have nothing to say about what insertDrops did: they
\* never fail the build of a body that lowering produced.
Accepted == phase # "rejected"

\* "exactly one OpDrop for every owned local on EVERY control-flow path" (analysis.go:1782).
FreedOnce == fault.kind # "double free"
=============================================================================
