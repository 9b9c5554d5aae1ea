------------------------- MODULE MirOwnership_proofs -------------------------
(***************************************************************************)
(* Ownership analysis and the run of the compiled body, for every set of   *)
(* locals and bodies of any size: types, the solution liveness reaches,    *)
(* that no placed drop precedes a use of what it freed, that every         *)
(* memory error and every lost buffer comes from the places where the      *)
(* decisions are wrong, and that the checks of the drops never reject a    *)
(* body.                                                                   *)
(***************************************************************************)
EXTENDS MirOwnership, MirLower_proofs, FiniteSetTheorems, NaturalsInduction,
        WellFoundedInduction

Solved(b) == liveIn[b] = InOf(b) /\ liveOut[b] = OutOf(b)
Placed == {"run", "rejected", "done"}

\* The types of the analysis.
AnalysisOK ==
  /\ Shape
  /\ phase \in Phase /\ at \in Nat /\ changed \in BOOLEAN
  /\ phase # "lower" =>
       open = <<>> /\ liveIn \in [Blocks -> SUBSET Local] /\ liveOut \in [Blocks -> SUBSET Local]
  /\ phase = "live" => at \in 1..Len(blocks) + 1

\* A pass that has changed nothing so far leaves the equations solved on the
\* blocks it has visited; after the last pass they are solved everywhere.
Stable ==
  /\ (phase = "live" /\ ~changed) => \A b \in Blocks : at <= b => Solved(b)
  /\ phase \notin {"lower", "live"} => \A b \in Blocks : Solved(b)

\* Until then every set is below what the equations give.
Below ==
  phase = "live" => \A b \in Blocks : liveIn[b] \subseteq InOf(b) /\ liveOut[b] \subseteq OutOf(b)

LiveInv == AnalysisOK /\ Stable /\ Below

\* The variables liveness and the later phases read.
graph == <<blocks, liveIn, liveOut>>

-----------------------------------------------------------------------------
LEMMA InsideLocal ==
  ASSUME Shape, NEW b \in Blocks
  PROVE  /\ UseOf(b) \subseteq Local /\ OutOf(b) \subseteq Local
         /\ InOf(b) \subseteq Local /\ DefOf(b) \subseteq Local
         /\ Succs(b) \subseteq Blocks
         /\ Index(b) = 1..Len(InstsOf(b)) /\ Len(InstsOf(b)) \in Nat
         /\ \A i \in Index(b) : InstsOf(b)[i] \in GoodInst
<1>1. blocks[b] \in GoodBlock(Len(blocks))
  BY DEF Shape, Graph, Blocks
<1>2. InstsOf(b) \in Seq(GoodInst) /\ Succs(b) \subseteq Blocks
  BY <1>1 DEF GoodBlock, InstsOf, Succs, Blocks
<1>3. Len(InstsOf(b)) \in Nat /\ \A i \in 1..Len(InstsOf(b)) : InstsOf(b)[i] \in GoodInst
  BY <1>2, LenProperties, ElementOfSeq
<1>4. \A i \in Index(b) : InstsOf(b)[i] \in GoodInst
  BY <1>3 DEF Index, InstsOf
<1>5. DefOf(b) \subseteq Local
  <2>1. \A i \in Index(b) : InstsOf(b)[i].dst \in Local \cup {NoVal}
    BY <1>4 DEF GoodInst, Inst
  <2> QED BY <2>1 DEF DefOf
<1> QED BY <1>2, <1>3, <1>4, <1>5 DEF UseOf, OutOf, InOf, Index, InstsOf

\* What the equations give depends on the blocks and on the sets alone.
LEMMA SameEquations ==
  ASSUME blocks' = blocks, liveIn' = liveIn
  PROVE  \A b : InOf(b)' = InOf(b) /\ OutOf(b)' = OutOf(b)
  BY DEF InOf, OutOf, UseOf, DefOf, InstsOf, Index, Succs, Args

\* The equations are monotone.
LEMMA Monotone ==
  ASSUME Shape, blocks' = blocks, \A b \in Blocks : liveIn[b] \subseteq liveIn'[b]
  PROVE  \A b \in Blocks : InOf(b) \subseteq InOf(b)' /\ OutOf(b) \subseteq OutOf(b)'
<1> SUFFICES ASSUME NEW b \in Blocks
             PROVE  InOf(b) \subseteq InOf(b)' /\ OutOf(b) \subseteq OutOf(b)'
  OBVIOUS
<1>1. Succs(b) \subseteq Blocks
  BY InsideLocal
<1>2. OutOf(b) \subseteq OutOf(b)'
  BY <1>1 DEF OutOf, Succs
<1>3. UseOf(b)' = UseOf(b) /\ DefOf(b)' = DefOf(b)
  BY DEF UseOf, DefOf, InstsOf, Index, Args
<1> QED BY <1>2, <1>3 DEF InOf

LEMMA LiveInit == Init => LiveInv
<1> SUFFICES ASSUME Init PROVE LiveInv
  OBVIOUS
<1>1. Shape
  BY InitGood DEF Init
<1>2. phase = "lower" /\ at \in Nat /\ changed \in BOOLEAN
  BY DEF Init
<1> QED BY <1>1, <1>2 DEF LiveInv, AnalysisOK, Stable, Below, Phase

\* The end of the body: a closed graph, and nothing live yet.
LEMMA LiveAnalyze == ASSUME LiveInv, Analyze PROVE LiveInv'
<1> DEFINE n == Len(blocks)
<1>1. Shape /\ n \in Nat \ {0} /\ open = <<>>
  BY DEF LiveInv, AnalysisOK, Shape, Analyze
<1>2. Graph(blocks', n) /\ Len(blocks') = n
  <2>1. Graph(blocks', n)
    BY <1>1, EnsureReturnGood DEF Analyze
  <2> QED BY <1>1, <2>1, FunIsSeq DEF Graph
<1>3. Shape'
  <2>1. open' \in Seq(GoodOpen(n, locals'))
    BY <1>1, EmptySeq DEF Analyze
  <2>2. /\ dialect' = {} /\ cur' = 1 /\ size' = 0 /\ dead' = FALSE
        /\ locals' = {} /\ visible' = {} /\ moved' = {}
    BY DEF Analyze
  <2>3. cur' \in 1..n
    BY <1>1, <2>2
  <2> QED BY <1>1, <1>2, <2>1, <2>2, <2>3 DEF Shape
<1>4. Blocks' = Blocks
  BY <1>2 DEF Blocks
<1>5. /\ liveIn' = [b \in Blocks |-> {}] /\ liveOut' = [b \in Blocks |-> {}]
      /\ phase' = "live" /\ at' = n + 1 /\ changed' = FALSE /\ open' = open
  BY DEF Analyze
<1>6. AnalysisOK'
  <2>1. liveIn' \in [Blocks' -> SUBSET Local] /\ liveOut' \in [Blocks' -> SUBSET Local]
    BY <1>4, <1>5
  <2>2. at' \in Nat /\ at' \in 1..Len(blocks') + 1
    BY <1>1, <1>2, <1>5
  <2>3. phase' \in Phase /\ changed' \in BOOLEAN /\ open' = <<>>
    BY <1>1, <1>5 DEF Phase
  <2> QED BY <1>3, <2>1, <2>2, <2>3 DEF AnalysisOK
<1>7. Stable'
  BY <1>1, <1>4, <1>5 DEF Stable, Blocks
<1>8. Below'
  BY <1>4, <1>5 DEF Below
<1> QED BY <1>6, <1>7, <1>8 DEF LiveInv

\* One visit: the set grows, and an unchanged one solves its equation.
LEMMA LiveVisit ==
  ASSUME LiveInv, Visit
  PROVE  /\ LiveInv'
         /\ \A b \in Blocks : liveIn[b] \subseteq liveIn'[b] /\ liveOut[b] \subseteq liveOut'[b]
<1> DEFINE n == Len(blocks)
           c == at - 1
<1>1. /\ phase = "live" /\ c \in Blocks /\ Shape /\ n \in Nat \ {0}
      /\ liveIn \in [Blocks -> SUBSET Local] /\ liveOut \in [Blocks -> SUBSET Local]
  BY DEF LiveInv, AnalysisOK, Shape, Visit, Blocks
<1>2. /\ at' = c /\ liveIn' = [liveIn EXCEPT ![c] = InOf(c)]
      /\ liveOut' = [liveOut EXCEPT ![c] = OutOf(c)]
      /\ changed' = (changed \/ InOf(c) # liveIn[c] \/ OutOf(c) # liveOut[c])
      /\ UNCHANGED <<phase, lowering>>
  BY DEF Visit
<1>3. Shape' /\ blocks' = blocks /\ Blocks' = Blocks /\ open' = open
  BY <1>1, <1>2 DEF lowering, Shape, Blocks
<1>4. InOf(c) \subseteq Local /\ OutOf(c) \subseteq Local
  BY <1>1, InsideLocal
<1>5. liveIn' \in [Blocks -> SUBSET Local] /\ liveOut' \in [Blocks -> SUBSET Local]
  BY <1>1, <1>2, <1>4
<1>6. AnalysisOK'
  <2>1. at' \in 1..n + 1 /\ at' \in Nat
    BY <1>1, <1>2 DEF Blocks
  <2> QED BY <1>1, <1>2, <1>3, <1>5, <2>1 DEF AnalysisOK, Phase, LiveInv
<1>7. \A b \in Blocks : liveIn[b] \subseteq liveIn'[b] /\ liveOut[b] \subseteq liveOut'[b]
  BY <1>1, <1>2 DEF LiveInv, Below
<1>8. Stable'
  <2> SUFFICES ASSUME ~changed', NEW b \in Blocks, at' <= b PROVE Solved(b)'
    BY <1>1, <1>2, <1>3 DEF Stable
  <2>1. liveIn' = liveIn /\ liveOut' = liveOut
    BY <1>1, <1>2
  <2>2. b = c \/ at <= b
    BY <1>1, <1>2 DEF Blocks, LiveInv, AnalysisOK
  <2>3. Solved(b)
    BY <1>1, <1>2, <2>2 DEF LiveInv, Stable, Solved
  <2> QED BY <1>3, <2>1, <2>3, SameEquations DEF Solved
<1>9. Below'
  <2> SUFFICES ASSUME NEW b \in Blocks
               PROVE  liveIn'[b] \subseteq InOf(b)' /\ liveOut'[b] \subseteq OutOf(b)'
    BY <1>3 DEF Below
  <2>1. InOf(b) \subseteq InOf(b)' /\ OutOf(b) \subseteq OutOf(b)'
    BY <1>1, <1>3, <1>7, Monotone
  <2>2. liveIn'[b] \subseteq InOf(b) /\ liveOut'[b] \subseteq OutOf(b)
    BY <1>1, <1>2 DEF LiveInv, Below
  <2> QED BY <2>1, <2>2
<1> QED BY <1>6, <1>7, <1>8, <1>9 DEF LiveInv

LEMMA LiveEndPass == ASSUME LiveInv, EndPass PROVE LiveInv'
<1>1. /\ phase = "live" /\ at = 1 /\ Shape /\ Len(blocks) \in Nat \ {0}
      /\ UNCHANGED <<liveIn, liveOut, lowering>>
  BY DEF LiveInv, AnalysisOK, Shape, EndPass
<1>2. Shape' /\ blocks' = blocks /\ Blocks' = Blocks /\ open' = open
  BY <1>1 DEF lowering, Shape, Blocks
<1>3. \A b : InOf(b)' = InOf(b) /\ OutOf(b)' = OutOf(b)
  BY <1>1, <1>2, SameEquations
<1>4. CASE changed
  <2>1. at' = Len(blocks) + 1 /\ changed' = FALSE /\ phase' = phase
    BY <1>4 DEF EndPass
  <2>2. AnalysisOK'
    <3>1. at' \in Nat /\ at' \in 1..Len(blocks') + 1
      BY <1>1, <1>2, <2>1
    <3> QED BY <1>1, <1>2, <2>1, <3>1 DEF AnalysisOK, LiveInv
  <2>3. Stable'
    BY <1>1, <1>2, <2>1 DEF Stable, Blocks
  <2>4. Below'
    BY <1>1, <1>2, <1>3 DEF Below, LiveInv
  <2> QED BY <2>2, <2>3, <2>4 DEF LiveInv
<1>5. CASE ~changed
  <2>1. phase' = "copies" /\ UNCHANGED <<at, changed>>
    BY <1>5 DEF EndPass
  <2>2. AnalysisOK'
    BY <1>1, <1>2, <2>1 DEF AnalysisOK, LiveInv, Phase
  <2>3. \A b \in Blocks : at <= b
    BY <1>1 DEF Blocks
  <2>4. Stable'
    BY <1>1, <1>2, <1>3, <1>5, <2>1, <2>3 DEF Stable, LiveInv, Solved
  <2>5. Below'
    BY <2>1 DEF Below
  <2> QED BY <2>2, <2>4, <2>5 DEF LiveInv
<1> QED BY <1>4, <1>5

LEMMA LiveStatement == ASSUME LiveInv, Statement PROVE LiveInv'
<1>1. phase = "lower" /\ phase' = "lower" /\ at' = at /\ changed' = changed /\ Lower
  BY DEF Statement, analysis
<1>2. Shape'
  BY <1>1, LowerGood DEF LiveInv, AnalysisOK
<1> QED BY <1>1, <1>2 DEF LiveInv, AnalysisOK, Stable, Below

\* DecideCopies renames operations: what an instruction defines and names stays.
LEMMA RewrittenGood ==
  ASSUME Shape, NEW b \in Blocks, NEW i \in Index(b)
  PROVE  /\ Rewritten(b, i) \in GoodInst
         /\ Rewritten(b, i).dst = InstsOf(b)[i].dst
         /\ Rewritten(b, i).src = InstsOf(b)[i].src
         /\ Rewritten(b, i).into = InstsOf(b)[i].into
<1> DEFINE x == InstsOf(b)[i]
<1>1. x \in GoodInst
  BY InsideLocal
<1>2. CASE ~IsCopy(x)
  BY <1>1, <1>2 DEF Rewritten
<1>3. CASE IsCopy(x)
  <2>1. ASSUME NEW y \in GoodInst, IsCopy(y), NEW op \in {"clone", "move"}
        PROVE  /\ [y EXCEPT !.op = op] \in GoodInst
               /\ [y EXCEPT !.op = op].dst = y.dst
               /\ [y EXCEPT !.op = op].src = y.src
               /\ [y EXCEPT !.op = op].into = y.into
    BY <2>1 DEF GoodInst, Inst, IsCopy
  <2>2. PICK op \in {"clone", "move"} : Rewritten(b, i) = [x EXCEPT !.op = op]
    BY <1>3 DEF Rewritten
  <2> HIDE DEF x
  <2>3. /\ [x EXCEPT !.op = op] \in GoodInst
        /\ [x EXCEPT !.op = op].dst = x.dst
        /\ [x EXCEPT !.op = op].src = x.src
        /\ [x EXCEPT !.op = op].into = x.into
    BY <1>1, <1>3, <2>1
  <2> QED BY <2>2, <2>3 DEF x
<1> QED BY <1>2, <1>3

LEMMA CopiesKeepGraph ==
  ASSUME Shape, DecideCopies
  PROVE  /\ Shape' /\ Blocks' = Blocks
         /\ \A b \in Blocks : /\ Index(b)' = Index(b) /\ Succs(b)' = Succs(b)
                               /\ \A i \in Index(b) : InstsOf(b)'[i] = Rewritten(b, i)
<1> DEFINE n == Len(blocks)
           R(b) == [i \in Index(b) |-> Rewritten(b, i)]
<1>1. n \in Nat \ {0} /\ blocks \in [1..n -> GoodBlock(n)]
  BY DEF Shape, Graph
<1>2. ASSUME NEW b \in Blocks
      PROVE  R(b) \in Seq(GoodInst) /\ Len(R(b)) = Len(InstsOf(b))
  <2>1. Len(InstsOf(b)) \in Nat /\ Index(b) = 1..Len(InstsOf(b))
    BY InsideLocal
  <2>2. R(b) \in [1..Len(InstsOf(b)) -> GoodInst]
    BY <2>1, RewrittenGood
  <2> QED BY <2>1, <2>2, FunIsSeq
<1>3. blocks' = [b \in 1..n |-> [blocks[b] EXCEPT !.insts = R(b)]]
  BY DEF DecideCopies, Blocks
<1>4. ASSUME NEW b \in Blocks
      PROVE  [blocks[b] EXCEPT !.insts = R(b)] \in GoodBlock(n)
  <2>1. ASSUME NEW y \in GoodBlock(n), NEW is \in Seq(GoodInst)
        PROVE  [y EXCEPT !.insts = is] \in GoodBlock(n)
    BY DEF GoodBlock
  <2>2. blocks[b] \in GoodBlock(n) /\ R(b) \in Seq(GoodInst)
    BY <1>1, <1>2 DEF Blocks
  <2> HIDE DEF R, n
  <2> QED BY <2>1, <2>2
<1>5. Graph(blocks', n)
  BY <1>3, <1>4 DEF Graph, Blocks
<1>6. Len(blocks') = n
  BY <1>1, <1>5, FunIsSeq DEF Graph
<1>7. Shape'
  BY <1>1, <1>5, <1>6 DEF Shape, DecideCopies
<1>8. Blocks' = Blocks
  BY <1>6 DEF Blocks
<1>9. ASSUME NEW b \in Blocks
      PROVE  /\ Index(b)' = Index(b) /\ Succs(b)' = Succs(b)
             /\ \A i \in Index(b) : InstsOf(b)'[i] = Rewritten(b, i)
  <2>1. blocks'[b].insts = R(b) /\ blocks'[b].to = blocks[b].to
    BY <1>1, <1>3 DEF Blocks, GoodBlock
  <2>2. Len(blocks'[b].insts) = Len(blocks[b].insts)
    BY <1>2, <2>1 DEF InstsOf
  <2> QED BY <2>1, <2>2 DEF Index, Succs, InstsOf
<1> QED BY <1>7, <1>8, <1>9

LEMMA LiveCopies == ASSUME LiveInv, DecideCopies PROVE LiveInv'
<1>1. /\ Shape /\ phase = "copies" /\ phase' = "spawns"
      /\ UNCHANGED <<at, changed, liveIn, liveOut, open>>
  BY DEF LiveInv, AnalysisOK, DecideCopies
<1>2. Shape' /\ Blocks' = Blocks
  BY <1>1, CopiesKeepGraph
<1>3. AnalysisOK'
  BY <1>1, <1>2 DEF LiveInv, AnalysisOK, Phase
<1>4. ASSUME NEW b \in Blocks PROVE Solved(b)'
  <2>1. /\ Index(b)' = Index(b) /\ Succs(b)' = Succs(b)
        /\ \A i \in Index(b) : /\ InstsOf(b)'[i].dst = InstsOf(b)[i].dst
                               /\ Args(InstsOf(b)'[i]) = Args(InstsOf(b)[i])
    BY <1>1, CopiesKeepGraph, RewrittenGood DEF Args
  <2>2. DefOf(b)' = DefOf(b)
    BY <2>1 DEF DefOf
  <2>3. \A i \in Index(b) : \A j \in 1..i - 1 : j \in Index(b)
    BY <1>1, InsideLocal
  <2>4. UseOf(b)' = UseOf(b)
    BY <2>1, <2>3 DEF UseOf
  <2>5. OutOf(b)' = OutOf(b)
    BY <1>1, <2>1 DEF OutOf
  <2>6. Solved(b)
    BY <1>1 DEF LiveInv, Stable
  <2> QED BY <1>1, <2>2, <2>4, <2>5, <2>6 DEF Solved, InOf
<1> QED BY <1>1, <1>2, <1>3, <1>4 DEF LiveInv, Stable, Below

\* The later steps do not touch what liveness computed.
LEMMA LiveKept ==
  ASSUME LiveInv, phase \notin {"lower", "live"}, phase' \in Phase \ {"lower", "live"},
         UNCHANGED <<lowering, at, changed, liveIn, liveOut>>
  PROVE  LiveInv'
<1>1. Shape' /\ blocks' = blocks /\ Blocks' = Blocks /\ open' = open
  BY DEF lowering, Shape, Blocks, LiveInv, AnalysisOK
<1>2. AnalysisOK'
  BY <1>1 DEF LiveInv, AnalysisOK
<1>3. \A b \in Blocks : Solved(b)'
  BY <1>1, SameEquations DEF LiveInv, Stable, Solved
<1> QED BY <1>1, <1>2, <1>3 DEF LiveInv, Stable, Below

LEMMA LiveStutter == ASSUME LiveInv, UNCHANGED vars PROVE LiveInv'
<1>1. UNCHANGED <<lowering, phase, at, changed, liveIn, liveOut>>
  BY DEF vars, analysis
<1>2. Shape' /\ blocks' = blocks /\ Blocks' = Blocks /\ open' = open
  BY <1>1 DEF lowering, Shape, Blocks, LiveInv, AnalysisOK
<1>3. AnalysisOK'
  BY <1>1, <1>2 DEF LiveInv, AnalysisOK
<1>4. \A b : InOf(b)' = InOf(b) /\ OutOf(b)' = OutOf(b)
  BY <1>1, <1>2, SameEquations
<1> QED BY <1>1, <1>2, <1>3, <1>4 DEF LiveInv, Stable, Below, Solved

LEMMA LiveNext == ASSUME LiveInv, [Next]_vars PROVE LiveInv'
<1>1. CASE Statement
  BY <1>1, LiveStatement
<1>2. CASE Analyze
  BY <1>2, LiveAnalyze
<1>3. CASE Visit
  BY <1>3, LiveVisit
<1>4. CASE EndPass
  BY <1>4, LiveEndPass
<1>5. CASE DecideCopies
  BY <1>5, LiveCopies
<1>6. CASE DecideSpawns
  BY <1>6, LiveKept DEF DecideSpawns, Phase
<1>7. CASE PlaceDrops
  BY <1>7, LiveKept DEF PlaceDrops, Phase
<1>8. CASE Step \/ Leave
  BY <1>8, LiveKept DEF Step, Leave, Running, analysis, Phase
<1>9. CASE Exit
  BY <1>9, LiveKept DEF Exit, Running, Phase
<1>10. ASSUME NEW i \in DOMAIN tasks, RunTask(i) PROVE LiveInv'
  BY <1>10, LiveKept DEF RunTask, analysis, Phase
<1>11. CASE UNCHANGED vars
  BY <1>11, LiveStutter
<1> QED BY <1>1, <1>2, <1>3, <1>4, <1>5, <1>6, <1>7, <1>8, <1>9, <1>10, <1>11 DEF Next

\* The live sets insertDrops reads solve the equations of liveness on every block, for
\* bodies of any size, also after the copies are rewritten (LivenessSolved).
THEOREM LiveSolved == Spec => []LivenessSolved
<1>1. LiveInv => LivenessSolved
  BY DEF LiveInv, Stable, Solved, LivenessSolved
<1> QED BY <1>1, LiveInit, LiveNext, PTL DEF Spec

\* No pass of liveness removes a value from a set (LiveGrows).
THEOREM PassesGrow == Spec => LiveGrows
<1>1. LiveInv /\ [Next]_vars =>
        [phase = "live" => \A b \in Blocks : liveIn[b] \subseteq liveIn'[b]
                                             /\ liveOut[b] \subseteq liveOut'[b]]_vars
  <2> SUFFICES ASSUME LiveInv, Next, phase = "live", NEW b \in Blocks
               PROVE  liveIn[b] \subseteq liveIn'[b] /\ liveOut[b] \subseteq liveOut'[b]
    OBVIOUS
  <2>1. CASE Visit
    BY <2>1, LiveVisit
  <2>2. CASE EndPass
    BY <2>2 DEF EndPass
  <2>3. Visit \/ EndPass
    BY DEF Next, Statement, Analyze, DecideCopies, DecideSpawns, PlaceDrops, Step, Leave,
           Exit, RunTask, Running
  <2> QED BY <2>1, <2>2, <2>3
<1> QED BY <1>1, LiveInit, LiveNext, PTL DEF Spec, LiveGrows

-----------------------------------------------------------------------------
\* What is live before instruction i of block b.
Names(b, i, v) == v \in Args(InstsOf(b)[i])
Defines(b, i, v) == InstsOf(b)[i].dst = v
LiveAt(b, i) ==
  {v \in Local :
     \/ \E j \in Index(b) : i <= j /\ Names(b, j, v) /\ \A k \in i..j - 1 : ~Defines(b, k, v)
     \/ v \in liveOut[b] /\ \A k \in Index(b) : i <= k => ~Defines(b, k, v)}

\* The drops of a block free nothing that is live where they stand, and on the path
\* taken nothing freed is live at the instruction about to run.
DropInv ==
  /\ phase \in Placed =>
       \A b \in Blocks : dropEnd[b] \cap liveOut[b] = {} /\ dropStart[b] \cap liveIn[b] = {}
  /\ phase \notin Placed => gone = {} /\ pc = [b |-> 1, i |-> 1]
  /\ pc.b \in Blocks /\ pc.i \in Nat \ {0} /\ pc = [b |-> pc.b, i |-> pc.i]
  /\ Running => gone \cap LiveAt(pc.b, pc.i) = {}

LEMMA LiveAtStart ==
  ASSUME Shape, NEW b \in Blocks, Solved(b)
  PROVE  LiveAt(b, 1) = liveIn[b]
<1>1. Len(InstsOf(b)) \in Nat /\ Index(b) = 1..Len(InstsOf(b)) /\ InOf(b) \subseteq Local
  BY InsideLocal
<1>2. liveIn[b] = UseOf(b) \cup (liveOut[b] \ DefOf(b)) /\ liveIn[b] \subseteq Local
  BY <1>1 DEF Solved, InOf
<1>3. ASSUME NEW v \in Local
      PROVE  (\E j \in Index(b) : 1 <= j /\ Names(b, j, v)
                                 /\ \A k \in 1..j - 1 : ~Defines(b, k, v)) <=> v \in UseOf(b)
  BY <1>1 DEF UseOf, Names, Defines
<1>4. ASSUME NEW v \in Local
      PROVE  (\A k \in Index(b) : 1 <= k => ~Defines(b, k, v)) <=> v \notin DefOf(b)
  <2>1. v # NoVal
    BY LocalAssumption
  <2> QED BY <1>1, <2>1, <1>4 DEF DefOf, Defines
<1> QED BY <1>2, <1>3, <1>4 DEF LiveAt

LEMMA LiveAtEnd ==
  ASSUME Shape, NEW b \in Blocks, NEW i \in Nat \ {0}, i \notin Index(b),
         liveOut[b] \subseteq Local
  PROVE  LiveAt(b, i) = liveOut[b]
<1>1. Len(InstsOf(b)) \in Nat /\ Index(b) = 1..Len(InstsOf(b))
  BY InsideLocal
<1>2. ~\E j \in Index(b) : i <= j
  BY <1>1
<1> QED BY <1>2 DEF LiveAt

\* What is live after an instruction was live before it, unless it defines it.
LEMMA LiveAtStep ==
  ASSUME Shape, NEW b \in Blocks, NEW i \in Index(b), NEW v \in LiveAt(b, i + 1),
         ~Defines(b, i, v)
  PROVE  v \in LiveAt(b, i)
<1>1. i \in Nat /\ Len(InstsOf(b)) \in Nat /\ Index(b) = 1..Len(InstsOf(b))
  BY InsideLocal
<1>2. CASE \E j \in Index(b) : i + 1 <= j /\ Names(b, j, v)
                               /\ \A k \in i + 1..j - 1 : ~Defines(b, k, v)
  <2>1. PICK j \in Index(b) : i + 1 <= j /\ Names(b, j, v)
                               /\ \A k \in i + 1..j - 1 : ~Defines(b, k, v)
    BY <1>2
  <2>2. i <= j /\ \A k \in i..j - 1 : k = i \/ k \in i + 1..j - 1
    BY <1>1, <2>1
  <2> QED BY <2>1, <2>2 DEF LiveAt
<1>3. CASE v \in liveOut[b] /\ \A k \in Index(b) : i + 1 <= k => ~Defines(b, k, v)
  <2>1. \A k \in Index(b) : i <= k => k = i \/ i + 1 <= k
    BY <1>1
  <2> QED BY <1>3, <2>1 DEF LiveAt
<1> QED BY <1>2, <1>3 DEF LiveAt

\* A named operand is live.
LEMMA NamedIsLive ==
  ASSUME Shape, NEW b \in Blocks, NEW i \in Index(b), NEW v, Names(b, i, v)
  PROVE  v \in LiveAt(b, i)
<1>1. i \in Nat
  BY InsideLocal
<1>2. v \in Local
  BY InsideLocal DEF Names, Args, GoodInst, Inst
<1>3. i <= i /\ i..i - 1 = {}
  BY <1>1
<1> QED BY <1>2, <1>3 DEF LiveAt

LEMMA DropInit == Init => DropInv
<1> SUFFICES ASSUME Init PROVE DropInv
  OBVIOUS
<1>1. Len(blocks) = 1
  BY DEF Init, LowerInit
<1>2. pc = [b |-> 1, i |-> 1] /\ 1 \in Blocks
  BY <1>1 DEF Init, Blocks
<1> QED BY <1>2 DEF Init, DropInv, Placed, Running

\* Before the body runs nothing has been freed.
LEMMA DropQuiet ==
  ASSUME LiveInv', DropInv, phase \notin Placed, phase' \notin Placed, UNCHANGED <<pc, gone>>
  PROVE  DropInv'
<1>1. pc' = [b |-> 1, i |-> 1] /\ 1 \in Blocks'
  BY DEF DropInv, Blocks, LiveInv, AnalysisOK, Shape
<1>2. ~Running'
  BY DEF Running, Placed
<1> QED BY <1>1, <1>2 DEF DropInv

LEMMA DropPlace == ASSUME LiveInv, DropInv, PlaceDrops PROVE DropInv'
<1>1. phase = "drops" /\ phase' \in Placed /\ UNCHANGED <<lowering, liveIn, liveOut, pc, heap>>
  BY DEF PlaceDrops, Placed
<1>2. gone = {} /\ gone' = {} /\ Blocks' = Blocks
  BY <1>1 DEF DropInv, Placed, heap, lowering, Blocks
<1>3. ASSUME NEW b \in Blocks
      PROVE  dropEnd'[b] \cap liveOut[b] = {} /\ dropStart'[b] \cap liveIn[b] = {}
  <2>1. dropEnd'[b] = EndDrops(b)
    BY DEF PlaceDrops
  <2>2. dropStart'[b] \subseteq EdgeDrops(b)
    BY DEF PlaceDrops
  <2>3. EndDrops(b) \cap liveOut[b] = {}
    BY DEF EndDrops
  <2>4. EdgeDrops(b) \cap liveIn[b] = {}
    BY DEF EdgeDrops
  <2> QED BY <2>1, <2>2, <2>3, <2>4
<1> QED BY <1>1, <1>2, <1>3 DEF DropInv

\* What an instruction defines is no longer counted as freed.
LEMMA PerformGone ==
  ASSUME NEW x \in GoodInst, Perform(x), fault' = NoFault, fault = NoFault
  PROVE  gone' \subseteq gone /\ (x.dst # NoVal => x.dst \notin gone')
<1>1. \A k, v : Fault(k, v) => gone' = gone
  BY DEF Fault
<1>2. \A w, n, c : Overwrite(w, n, c) => gone' = gone \ {w}
  BY DEF Overwrite
<1>3. \A v : ~Fault("use after free", v) /\ ~Fault("double free", v)
  BY DEF Fault, NoFault
<1>4. CASE x.op \in {"new", "clone", "move"} /\ Define(x, Target(x))
  <2>1. gone' = gone \ {Target(x)}
    BY <1>2, <1>3, <1>4 DEF Define
  <2> QED BY <2>1 DEF Target
<1>5. CASE x.op \in {"read", "write", "drop", "run"} /\ UNCHANGED gone
  BY <1>5 DEF GoodInst
<1>6. \A v : (Touch(v) \/ WriteThrough(v) \/ Drop(v) \/ Start(v)) => UNCHANGED gone
  BY <1>1 DEF Touch, WriteThrough, Drop, Start
<1> QED BY <1>4, <1>5, <1>6 DEF Perform

LEMMA DropStep == ASSUME LiveInv, DropInv, Step PROVE DropInv'
<1> DEFINE b == pc.b
           i == pc.i
           x == InstsOf(b)[i]
<1>1. /\ Shape /\ b \in Blocks /\ i \in Index(b) /\ i \in Nat \ {0} /\ x \in GoodInst
      /\ phase = "run" /\ fault = NoFault /\ gone \cap LiveAt(b, i) = {}
  BY InsideLocal DEF LiveInv, AnalysisOK, DropInv, Step, Running
<1>2. /\ Perform(x) /\ UNCHANGED <<lowering, analysis>> /\ pc' = [b |-> b, i |-> i + 1]
  <2>1. pc' = [pc EXCEPT !.i = pc.i + 1] /\ pc = [b |-> b, i |-> i]
    BY DEF Step, DropInv
  <2> QED BY <2>1 DEF Step
<1>3. /\ Blocks' = Blocks /\ phase' = phase /\ pc'.b = b /\ pc'.i = i + 1
      /\ UNCHANGED <<dropEnd, dropStart, liveIn, liveOut, blocks>>
  BY <1>2 DEF lowering, analysis, Blocks
<1>4. ASSUME fault' = NoFault PROVE gone' \cap LiveAt(b, i + 1) = {}
  <2> SUFFICES ASSUME NEW v \in gone', v \in LiveAt(b, i + 1) PROVE FALSE
    OBVIOUS
  <2>1. gone' \subseteq gone /\ (x.dst # NoVal => x.dst \notin gone')
    BY <1>1, <1>2, <1>4, PerformGone
  <2>2. v \in Local /\ v # NoVal
    BY LocalAssumption DEF LiveAt
  <2>3. ~Defines(b, i, v)
    BY <2>1, <2>2 DEF Defines
  <2>4. v \in LiveAt(b, i)
    BY <1>1, <2>3, LiveAtStep
  <2> QED BY <1>1, <2>1, <2>4
<1>5. \A c, k : LiveAt(c, k)' = LiveAt(c, k)
  BY <1>3 DEF LiveAt, Index, Names, Defines, InstsOf
<1> QED BY <1>1, <1>2, <1>3, <1>4, <1>5 DEF DropInv, Running, Placed

LEMMA DropLeave == ASSUME LiveInv, DropInv, Leave PROVE DropInv'
<1> DEFINE b == pc.b
<1>1. /\ Shape /\ b \in Blocks /\ pc.i \in Nat \ {0} /\ pc.i \notin Index(b) /\ phase = "run"
      /\ gone \cap LiveAt(b, pc.i) = {} /\ UNCHANGED <<lowering, analysis>>
  BY DEF LiveInv, AnalysisOK, DropInv, Leave, Running
<1>2. PICK s \in Succs(b) :
        /\ pc' = [b |-> s, i |-> 1]
        /\ fault' = NoFault => gone' = gone \cup dropEnd[b] \cup dropStart[s]
  <2>1. ASSUME NEW v, Fault("double free", v) PROVE fault' # NoFault
    <3>1. fault'.kind = "double free" /\ NoFault.kind = "none"
      BY <2>1 DEF Fault, NoFault
    <3> QED BY <3>1
  <2>2. PICK s \in Succs(b) :
          /\ pc' = [b |-> s, i |-> 1]
          /\ \/ \E v \in Again(rc, dropEnd[b]) : Fault("double free", v)
             \/ \E v \in Again(Release(rc, dropEnd[b]), dropStart[s]) : Fault("double free", v)
             \/ gone' = gone \cup dropEnd[b] \cup dropStart[s]
    BY Zenon DEF Leave
  <2> QED BY <2>1, <2>2
<1>3. s \in Blocks
  BY <1>1, InsideLocal
<1>4. /\ Blocks' = Blocks /\ phase' = phase /\ pc'.b = s /\ pc'.i = 1
      /\ UNCHANGED <<dropEnd, dropStart, liveIn, liveOut, blocks>>
  BY <1>1, <1>2 DEF lowering, analysis, Blocks
<1>5. Solved(s) /\ Solved(b)
  BY <1>1, <1>3 DEF LiveInv, Stable
<1>6. liveIn[s] \subseteq liveOut[b]
  <2>1. liveIn[s] \subseteq Local
    BY <1>1, <1>3, <1>5, InsideLocal DEF Solved
  <2> QED BY <1>5, <2>1 DEF Solved, OutOf
<1>7. ASSUME fault' = NoFault PROVE gone' \cap LiveAt(s, 1) = {}
  <2>1. LiveAt(s, 1) = liveIn[s]
    BY <1>1, <1>3, <1>5, LiveAtStart
  <2>2. liveOut[b] = LiveAt(b, pc.i)
    <3>1. liveOut[b] \subseteq Local
      BY <1>1, <1>5, InsideLocal DEF Solved
    <3> QED BY <1>1, <3>1, LiveAtEnd
  <2>3. dropEnd[b] \cap liveOut[b] = {} /\ dropStart[s] \cap liveIn[s] = {}
    BY <1>1, <1>3 DEF DropInv, Placed
  <2> QED BY <1>1, <1>2, <1>6, <1>7, <2>1, <2>2, <2>3
<1>8. \A c, k : LiveAt(c, k)' = LiveAt(c, k)
  BY <1>4 DEF LiveAt, Index, Names, Defines, InstsOf
<1> QED BY <1>1, <1>2, <1>3, <1>4, <1>7, <1>8 DEF DropInv, Running, Placed

\* The body is over, or a task runs: nothing is freed by a placed drop.
LEMMA DropKept ==
  ASSUME LiveInv, DropInv, phase \in Placed, phase' \in Placed, gone' \subseteq gone,
         (Running' => Running), UNCHANGED <<lowering, liveIn, liveOut, dropStart, dropEnd, pc>>
  PROVE  DropInv'
<1>1. Blocks' = Blocks /\ blocks' = blocks
  BY DEF lowering, Blocks
<1>2. \A c, k : LiveAt(c, k)' = LiveAt(c, k)
  BY <1>1 DEF LiveAt, Index, Names, Defines, InstsOf
<1> QED BY <1>1, <1>2 DEF DropInv

LEMMA DropNext == ASSUME LiveInv, DropInv, [Next]_vars PROVE DropInv'
<1>1. LiveInv'
  BY LiveNext
<1>2. CASE Statement \/ Analyze \/ Visit \/ EndPass \/ DecideCopies \/ DecideSpawns
  <2>1. phase \notin Placed /\ phase' \notin Placed /\ UNCHANGED <<pc, gone>>
    BY <1>2 DEF Statement, Analyze, Visit, EndPass, DecideCopies, DecideSpawns, Placed,
                analysis, heap
  <2> QED BY <1>1, <2>1, DropQuiet
<1>3. CASE PlaceDrops
  BY <1>3, DropPlace
<1>4. CASE Step
  BY <1>4, DropStep
<1>5. CASE Leave
  BY <1>5, DropLeave
<1>6. CASE Exit
  <2>1. phase' \in Placed /\ phase \in Placed /\ gone' \subseteq gone
        /\ UNCHANGED <<lowering, liveIn, liveOut, dropStart, dropEnd, pc>>
    BY <1>6 DEF Exit, Running, Placed, Fault
  <2>2. Running
    BY <1>6 DEF Exit
  <2> QED BY <2>1, <2>2, DropKept
<1>7. ASSUME NEW i \in DOMAIN tasks, RunTask(i) PROVE DropInv'
  <2>1. /\ phase' = phase /\ phase \in Placed /\ gone' = gone /\ fault = NoFault
        /\ UNCHANGED <<lowering, liveIn, liveOut, dropStart, dropEnd, pc>>
    BY <1>7 DEF RunTask, Placed, Fault, analysis
  <2> QED BY <2>1, DropKept DEF Running
<1>8. CASE UNCHANGED vars
  <2>1. /\ phase' = phase /\ gone' = gone /\ fault' = fault
        /\ UNCHANGED <<lowering, liveIn, liveOut, dropStart, dropEnd, pc>>
    BY <1>8 DEF vars, analysis, heap
  <2>2. CASE phase \in Placed
    BY <2>1, <2>2, DropKept DEF Running
  <2>3. CASE phase \notin Placed
    BY <1>1, <2>1, <2>3, DropQuiet
  <2> QED BY <2>2, <2>3
<1> QED BY <1>2, <1>3, <1>4, <1>5, <1>6, <1>7, <1>8 DEF Next

\* On the path a body takes, no instruction names a local that insertDrops has freed and
\* that was not written since, for bodies of any size (DroppedUnused).
THEOREM DropsAreLast == Spec => []DroppedUnused
<1>1. LiveInv /\ DropInv => DroppedUnused
  <2> SUFFICES ASSUME LiveInv, DropInv, Running, pc.i \in Index(pc.b),
                      NEW v \in gone, v \in Args(InstsOf(pc.b)[pc.i])
               PROVE  FALSE
    BY DEF DroppedUnused
  <2>1. v \in LiveAt(pc.b, pc.i)
    BY NamedIsLive DEF LiveInv, AnalysisOK, DropInv, Names
  <2> QED BY <2>1 DEF DropInv
<1> QED BY <1>1, LiveInit, LiveNext, DropInit, DropNext, PTL DEF Spec

-----------------------------------------------------------------------------
\* The types of the heap.
HeapOK ==
  /\ slot \in [Local -> Buf \cup {0}] /\ rc \in [Buf -> Nat]
  /\ tasks \in Seq(Task) /\ Len(tasks) <= MaxTask
  /\ gone \subseteq Local /\ lost \subseteq Local
  /\ fault \in [kind : {"none", "double free", "use after free", "stale argument"},
                on : Local \cup {NoVal}]

\* The types of what insertDrops decides.
DecisionsOK ==
  /\ moveSrc \subseteq Local /\ spawnMoves \subseteq Local /\ spawnRetains \subseteq Local
  /\ phase \in Placed =>
       dropStart \in [Blocks -> SUBSET Local] /\ dropEnd \in [Blocks -> SUBSET Local]

LEMMA TaskFacts ==
  ASSUME HeapOK
  PROVE  /\ Len(tasks) \in Nat /\ DOMAIN tasks = 1..Len(tasks)
         /\ \A i \in DOMAIN tasks : tasks[i] \in Task
<1>1. tasks \in Seq(Task)
  BY DEF HeapOK
<1>2. Len(tasks) \in Nat /\ DOMAIN tasks = 1..Len(tasks)
  BY <1>1, LenProperties
<1>3. \A i \in 1..Len(tasks) : tasks[i] \in Task
  BY <1>1, ElementOfSeq
<1> QED BY <1>2, <1>3

\* There are more buffers than slots and tasks: one of them is held by neither.
LEMMA FreshExists == ASSUME HeapOK PROVE Fresh \in Buf /\ Fresh \notin Held(slot, tasks)
<1> DEFINE A == {slot[v] : v \in Local}
           B == {tasks[i].buf : i \in DOMAIN tasks}
           n == Len(tasks)
           c == Cardinality(Local)
<1>1. n \in Nat /\ n <= MaxTask /\ MaxTask \in Nat /\ DOMAIN tasks = 1..n
  BY TaskFacts, HeapAssumption DEF HeapOK
<1>2. c \in Nat /\ IsFiniteSet(Local)
  BY HeapAssumption, FS_CardinalityType
<1>3. IsFiniteSet(A) /\ Cardinality(A) <= c /\ Cardinality(A) \in Nat
  <2>1. slot \in [Local -> A]
    BY DEF HeapOK
  <2>2. slot \in Surjection(Local, A)
    BY <2>1 DEF Surjection
  <2> QED BY <1>2, <2>2, FS_Surjection, FS_CardinalityType
<1>4. IsFiniteSet(B) /\ Cardinality(B) <= n /\ Cardinality(B) \in Nat
  <2> DEFINE g == [i \in 1..n |-> tasks[i].buf]
  <2>1. g \in Surjection(1..n, B)
    BY <1>1 DEF Surjection
  <2>2. IsFiniteSet(1..n) /\ Cardinality(1..n) = n
    <3>1. \A m \in Nat : IsFiniteSet(1..m) /\ Cardinality(1..m) = m
      BY FS_Interval
    <3> QED BY <1>1, <3>1
  <2> QED BY <2>1, <2>2, FS_Surjection, FS_CardinalityType
<1>5. IsFiniteSet(A \cup B) /\ Cardinality(A \cup B) <= c + MaxTask
  <2>1. IsFiniteSet(A \cup B)
        /\ Cardinality(A \cup B) = Cardinality(A) + Cardinality(B) - Cardinality(A \cap B)
    BY <1>3, <1>4, FS_Union
  <2>2. Cardinality(A \cap B) \in Nat
    BY <1>3, FS_Subset, FS_CardinalityType
  <2> QED BY <1>1, <1>2, <1>3, <1>4, <2>1, <2>2
<1>6. Cardinality(Buf) = c + MaxTask + 1
  <2>1. c + MaxTask + 1 \in Nat
    BY <1>1, <1>2
  <2> QED BY <2>1, FS_Interval DEF Buf
<1>7. ~(Buf \subseteq A \cup B)
  <2> SUFFICES ASSUME Buf \subseteq A \cup B PROVE FALSE
    OBVIOUS
  <2>1. Cardinality(Buf) <= Cardinality(A \cup B)
    BY <1>5, FS_Subset
  <2>2. Cardinality(A \cup B) \in Nat
    BY <1>5, FS_CardinalityType
  <2> QED BY <1>1, <1>2, <1>5, <1>6, <2>1, <2>2
<1>8. \E m \in Buf : m \notin Held(slot, tasks)
  BY <1>7 DEF Held
<1> QED BY <1>8 DEF Fresh

LEMMA FaultGood ==
  ASSUME HeapOK, NEW v \in Local, Fault("double free", v) \/ Fault("use after free", v)
                                   \/ Fault("stale argument", v)
  PROVE  HeapOK'
<1>1. PICK k \in {"double free", "use after free", "stale argument"} : Fault(k, v)
  OBVIOUS
<1>2. fault' = [kind |-> k, on |-> v] /\ UNCHANGED <<slot, rc, tasks, gone, lost>>
  BY <1>1 DEF Fault
<1> QED BY <1>2 DEF HeapOK

LEMMA OverwriteGood ==
  ASSUME HeapOK, NEW w \in Local, NEW n \in Buf \cup {0}, NEW c \in Nat, Overwrite(w, n, c)
  PROVE  HeapOK'
<1>1. slot' \in [Local -> Buf \cup {0}]
  BY DEF HeapOK, Overwrite
<1>2. rc' \in [Buf -> Nat]
  BY DEF HeapOK, Overwrite
<1>3. lost' \subseteq Local /\ gone' \subseteq Local
  BY DEF HeapOK, Overwrite
<1> QED BY <1>1, <1>2, <1>3 DEF HeapOK, Overwrite

LEMMA DefineGood ==
  ASSUME HeapOK, NEW x \in GoodInst, x.op \in {"new", "clone", "move"}, Define(x, Target(x))
  PROVE  HeapOK'
<1>1. Target(x) \in Local /\ (x.src # NoVal => x.src \in Local)
  BY LocalAssumption DEF Target, GoodInst, Inst
<1>2. Fresh \in Buf
  BY FreshExists
<1>3. CASE Overwrite(Target(x), Fresh, 1)
  BY <1>1, <1>2, <1>3, OverwriteGood
<1>4. CASE x.src # NoVal /\ Fault("use after free", x.src)
  BY <1>1, <1>4, FaultGood
<1>5. CASE /\ x.src # NoVal
           /\ Overwrite(Target(x), slot[x.src], IF slot[x.src] = 0 THEN 0 ELSE rc[slot[x.src]])
  <2>1. slot[x.src] \in Buf \cup {0}
    BY <1>1, <1>5 DEF HeapOK
  <2>2. (IF slot[x.src] = 0 THEN 0 ELSE rc[slot[x.src]]) \in Nat
    BY <2>1 DEF HeapOK
  <2> QED BY <1>1, <1>5, <2>1, <2>2, OverwriteGood
<1> QED BY <1>3, <1>4, <1>5 DEF Define, Transfers

\* The steps that do not write a slot.
LEMMA DropGood == ASSUME HeapOK, NEW v \in Local, Drop(v) PROVE HeapOK'
<1>1. CASE Freed(slot[v])
  BY <1>1, FaultGood DEF Drop
<1>2. CASE ~Freed(slot[v])
  <2>1. slot[v] \in Buf \cup {0} /\ rc \in [Buf -> Nat] /\ (slot[v] # 0 => rc[slot[v]] # 0)
    BY <1>2 DEF HeapOK, Freed
  <2>2. slot[v] # 0 => rc[slot[v]] - 1 \in Nat
    BY <2>1
  <2>3. rc' = IF slot[v] = 0 THEN rc ELSE [rc EXCEPT ![slot[v]] = rc[slot[v]] - 1]
    BY <1>2 DEF Drop
  <2>4. rc' \in [Buf -> Nat]
    BY <2>1, <2>2, <2>3
  <2> QED BY <1>2, <2>4 DEF HeapOK, Drop
<1> QED BY <1>1, <1>2

LEMMA TouchGood == ASSUME HeapOK, NEW v \in Local, Touch(v) PROVE HeapOK'
  BY FaultGood DEF HeapOK, Touch

LEMMA WriteGood == ASSUME HeapOK, NEW v \in Local, WriteThrough(v) PROVE HeapOK'
<1>1. CASE Freed(slot[v])
  BY <1>1, FaultGood DEF WriteThrough
<1>2. CASE ~Freed(slot[v])
  <2>1. Len(tasks) \in Nat /\ DOMAIN tasks = 1..Len(tasks)
        /\ \A i \in DOMAIN tasks : tasks[i] \in Task
    BY TaskFacts
  <2>2. \A t \in Task : [t EXCEPT !.stale = TRUE] \in Task
    BY DEF Task
  <2>3. tasks' = [i \in DOMAIN tasks |->
                    IF slot[v] # 0 /\ tasks[i].buf = slot[v] THEN [tasks[i] EXCEPT !.stale = TRUE]
                                                             ELSE tasks[i]]
    BY <1>2 DEF WriteThrough
  <2>4. tasks' \in [1..Len(tasks) -> Task]
    BY <2>1, <2>2, <2>3
  <2>5. tasks' \in Seq(Task) /\ Len(tasks') = Len(tasks)
    BY <2>1, <2>4, FunIsSeq
  <2> QED BY <1>2, <2>5 DEF HeapOK, WriteThrough
<1> QED BY <1>1, <1>2

LEMMA StartGood == ASSUME HeapOK, NEW v \in Local, Start(v) PROVE HeapOK'
<1> DEFINE share == v \in spawnMoves \cup spawnRetains
           n == IF share THEN slot[v] ELSE Fresh
           t == [buf |-> n, arg |-> v, stale |-> FALSE]
<1>1. CASE Freed(slot[v])
  BY <1>1, FaultGood DEF Start
<1>2. CASE ~Freed(slot[v])
  <2>1. Fresh \in Buf /\ n \in Buf \cup {0} /\ rc \in [Buf -> Nat]
    BY FreshExists DEF HeapOK
  <2>2. /\ Len(tasks) < MaxTask /\ tasks' = Append(tasks, t)
        /\ rc' = IF ~share THEN [rc EXCEPT ![n] = 1]
                 ELSE IF v \in spawnRetains /\ n # 0 THEN [rc EXCEPT ![n] = rc[n] + 1] ELSE rc
        /\ UNCHANGED <<slot, gone, lost, fault>>
    BY <1>2 DEF Start
  <2>3. tasks' \in Seq(Task) /\ Len(tasks') = Len(tasks) + 1
    <3>1. t \in Task
      BY <2>1 DEF Task
    <3> QED BY <2>2, <3>1, AppendProperties DEF HeapOK
  <2>4. Len(tasks') <= MaxTask
    BY <2>2, <2>3, TaskFacts, HeapAssumption
  <2>5. rc' \in [Buf -> Nat]
    <3>1. CASE ~share
      BY <2>1, <2>2, <3>1
    <3>2. CASE share /\ v \in spawnRetains /\ n # 0
      <4>1. n \in Buf /\ rc[n] + 1 \in Nat
        BY <2>1, <3>2
      <4> HIDE DEF n, share
      <4> QED BY <2>1, <2>2, <3>2, <4>1
    <3>3. CASE share /\ ~(v \in spawnRetains /\ n # 0)
      <4> HIDE DEF n, share
      <4> QED BY <2>1, <2>2, <3>3
    <3> QED BY <3>1, <3>2, <3>3
  <2> QED BY <2>2, <2>3, <2>4, <2>5 DEF HeapOK
<1> QED BY <1>1, <1>2

LEMMA PerformGood == ASSUME HeapOK, NEW x \in GoodInst, Perform(x) PROVE HeapOK'
<1>1. x.op \in {"read", "write", "drop", "run"} => x.src \in Local
  BY DEF GoodInst
<1> QED BY <1>1, DefineGood, TouchGood, WriteGood, DropGood, StartGood DEF Perform

\* A release that no second release precedes takes no count below zero.
LEMMA ReleaseGood ==
  ASSUME HeapOK, NEW r \in [Buf -> Nat], NEW S \in SUBSET Local, Again(r, S) = {}
  PROVE  Release(r, S) \in [Buf -> Nat]
<1> SUFFICES ASSUME NEW n \in Buf PROVE r[n] - Count(S, n) \in Nat
  BY DEF Release
<1> DEFINE V == {v \in S : slot[v] = n}
<1>1. IsFiniteSet(V)
  BY HeapAssumption, FS_Subset
<1>2. Count(S, n) = Cardinality(V) /\ Cardinality(V) \in Nat
  BY <1>1, FS_CardinalityType DEF Count
<1>3. CASE V = {}
  <2>1. Cardinality(V) = 0
    BY <1>3, FS_EmptySet
  <2> QED BY <1>2, <2>1
<1>4. CASE V # {}
  <2>1. PICK v \in S : slot[v] = n
    BY <1>4
  <2>2. slot[v] # 0
    BY <2>1 DEF Buf
  <2>3. ~(Count(S, slot[v]) > r[slot[v]])
    BY <2>2 DEF Again
  <2>4. Count(S, n) <= r[n]
    BY <1>2, <2>1, <2>3
  <2> QED BY <1>2, <2>4
<1> QED BY <1>3, <1>4

LEMMA LeaveGood ==
  ASSUME LiveInv, DropInv, HeapOK, DecisionsOK, Leave
  PROVE  HeapOK'
<1> DEFINE ends == dropEnd[pc.b]
           r == Release(rc, ends)
<1>1. /\ phase = "run" /\ pc.b \in Blocks
      /\ dropStart \in [Blocks -> SUBSET Local] /\ dropEnd \in [Blocks -> SUBSET Local]
  BY DEF Leave, Running, DropInv, DecisionsOK, Placed
<1>2. ends \in SUBSET Local /\ rc \in [Buf -> Nat]
  BY <1>1 DEF HeapOK
<1>3. PICK s \in Succs(pc.b) :
        IF Again(rc, ends) # {} THEN \E v \in Again(rc, ends) : Fault("double free", v)
        ELSE IF Again(r, dropStart[s]) # {}
        THEN \E v \in Again(r, dropStart[s]) : Fault("double free", v)
        ELSE /\ rc' = Release(r, dropStart[s])
             /\ gone' = gone \cup ends \cup dropStart[s]
             /\ UNCHANGED <<slot, tasks, lost, fault>>
  BY DEF Leave
<1>4. s \in Blocks /\ dropStart[s] \in SUBSET Local
  BY <1>1, InsideLocal DEF LiveInv, AnalysisOK
<1>5. CASE Again(rc, ends) # {}
  <2>1. PICK v \in Again(rc, ends) : Fault("double free", v)
    BY <1>3, <1>5
  <2>2. v \in Local
    BY <1>2 DEF Again
  <2> QED BY <2>1, <2>2, FaultGood
<1>6. CASE Again(rc, ends) = {} /\ Again(r, dropStart[s]) # {}
  <2>1. PICK v \in Again(r, dropStart[s]) : Fault("double free", v)
    BY <1>3, <1>6
  <2>2. v \in Local
    BY <1>4 DEF Again
  <2> QED BY <2>1, <2>2, FaultGood
<1>7. CASE Again(rc, ends) = {} /\ Again(r, dropStart[s]) = {}
  <2>1. r \in [Buf -> Nat]
    BY <1>2, <1>7, ReleaseGood
  <2>2. Release(r, dropStart[s]) \in [Buf -> Nat]
    BY <1>4, <1>7, <2>1, ReleaseGood
  <2>3. /\ rc' = Release(r, dropStart[s]) /\ gone' = gone \cup ends \cup dropStart[s]
        /\ UNCHANGED <<slot, tasks, lost, fault>>
    BY <1>3, <1>7
  <2> HIDE DEF r, ends
  <2> QED BY <1>2, <1>4, <2>2, <2>3 DEF HeapOK
<1> QED BY <1>5, <1>6, <1>7

LEMMA ExitGood ==
  ASSUME LiveInv, DropInv, HeapOK, DecisionsOK, Exit
  PROVE  HeapOK'
<1> DEFINE ends == dropEnd[pc.b]
           r == Release(rc, ends)
<1>1. /\ phase = "run" /\ pc.b \in Blocks
      /\ dropStart \in [Blocks -> SUBSET Local] /\ dropEnd \in [Blocks -> SUBSET Local]
  BY DEF Exit, Running, DropInv, DecisionsOK, Placed
<1>2. ends \in SUBSET Local /\ rc \in [Buf -> Nat]
  BY <1>1 DEF HeapOK
<1>3. CASE Again(rc, ends) # {}
  <2>1. PICK v \in Again(rc, ends) : Fault("double free", v)
    BY <1>3 DEF Exit
  <2>2. v \in Local
    BY <1>2 DEF Again
  <2> QED BY <2>1, <2>2, FaultGood
<1>4. CASE Again(rc, ends) = {}
  <2>1. r \in [Buf -> Nat]
    BY <1>2, <1>4, ReleaseGood
  <2>2. \A n : TaskRefs(n) \in Nat
    <3> SUFFICES ASSUME NEW n PROVE TaskRefs(n) \in Nat
      OBVIOUS
    <3>1. IsFiniteSet(1..Len(tasks))
      BY TaskFacts, FS_Interval
    <3>2. {i \in DOMAIN tasks : tasks[i].buf = n} \in SUBSET (1..Len(tasks))
      BY TaskFacts
    <3>3. IsFiniteSet({i \in DOMAIN tasks : tasks[i].buf = n})
      BY <3>1, <3>2, FS_Subset
    <3> QED BY <3>3, FS_CardinalityType DEF TaskRefs
  <2>3. /\ lost' = lost \cup {v \in Local : slot[v] # 0 /\ r[slot[v]] > TaskRefs(slot[v])}
        /\ rc' = [n \in Buf |-> IF r[n] > TaskRefs(n) THEN TaskRefs(n) ELSE r[n]]
        /\ slot' = [v \in Local |-> 0] /\ gone' = {} /\ UNCHANGED <<tasks, fault>>
    BY <1>4 DEF Exit
  <2> HIDE DEF r, ends
  <2>4. rc' \in [Buf -> Nat]
    BY <2>1, <2>2, <2>3
  <2> QED BY <2>3, <2>4 DEF HeapOK
<1> QED BY <1>3, <1>4

LEMMA RunTaskGood ==
  ASSUME HeapOK, NEW i \in DOMAIN tasks, RunTask(i)
  PROVE  HeapOK'
<1> DEFINE t == tasks[i]
           leak == t.buf # 0 /\ rc[t.buf] > 1 /\ t.buf \notin Held(slot, tasks')
<1>1. t.buf \in Buf \cup {0} /\ t.arg \in Local
  BY TaskFacts DEF Task
<1>2. CASE Freed(t.buf) \/ t.stale
  BY <1>1, <1>2, FaultGood DEF RunTask
<1>3. CASE ~Freed(t.buf) /\ ~t.stale
  <2>1. /\ tasks' = Without(tasks, i)
        /\ rc' = IF t.buf = 0 THEN rc
                 ELSE [rc EXCEPT ![t.buf] = IF leak THEN 0 ELSE rc[t.buf] - 1]
        /\ lost' = IF leak THEN lost \cup {t.arg} ELSE lost
        /\ UNCHANGED <<slot, gone, fault>>
    BY <1>3 DEF RunTask
  <2>2. tasks' \in Seq(Task) /\ Len(tasks') <= MaxTask
    <3> DEFINE n == Len(tasks)
    <3>1. n \in Nat /\ i \in 1..n /\ n <= MaxTask /\ MaxTask \in Nat
      BY TaskFacts, HeapAssumption DEF HeapOK
    <3>2. \A j \in 1..n : tasks[j] \in Task
      BY TaskFacts
    <3> HIDE DEF n
    <3>3. /\ \A j \in 1..i - 1 : tasks[j] \in Task
          /\ \A j \in i + 1..n : tasks[j] \in Task
          /\ 1 \in Int /\ i - 1 \in Int /\ i + 1 \in Int /\ n \in Int
      BY <3>1, <3>2
    <3>4. SubSeq(tasks, 1, i - 1) \in Seq(Task) /\ Len(SubSeq(tasks, 1, i - 1)) = i - 1
      <4>1. /\ SubSeq(tasks, 1, i - 1) \in Seq(Task)
            /\ Len(SubSeq(tasks, 1, i - 1)) = IF 1 <= i - 1 THEN (i - 1) - 1 + 1 ELSE 0
        BY <3>3, SubSeqProperties
      <4> QED BY <3>1, <4>1
    <3>5. SubSeq(tasks, i + 1, n) \in Seq(Task) /\ Len(SubSeq(tasks, i + 1, n)) = n - i
      <4>1. /\ SubSeq(tasks, i + 1, n) \in Seq(Task)
            /\ Len(SubSeq(tasks, i + 1, n)) = IF i + 1 <= n THEN n - (i + 1) + 1 ELSE 0
        BY <3>3, SubSeqProperties
      <4> QED BY <3>1, <4>1
    <3>6. Without(tasks, i) \in Seq(Task) /\ Len(Without(tasks, i)) = (i - 1) + (n - i)
      BY <3>4, <3>5, ConcatProperties DEF Without, n
    <3> QED BY <2>1, <3>1, <3>6
  <2>3. rc' \in [Buf -> Nat]
    <3>1. rc \in [Buf -> Nat]
      BY DEF HeapOK
    <3>2. t.buf # 0 => t.buf \in Buf /\ rc[t.buf] - 1 \in Nat
      BY <1>1, <1>3, <3>1 DEF Freed
    <3> HIDE DEF leak, t
    <3> QED BY <2>1, <3>1, <3>2
  <2>4. lost' \subseteq Local
    BY <1>1, <2>1 DEF HeapOK
  <2> QED BY <2>1, <2>2, <2>3, <2>4 DEF HeapOK
<1> QED BY <1>2, <1>3

-----------------------------------------------------------------------------
LEMMA HeapInit == Init => HeapOK /\ DecisionsOK
<1> SUFFICES ASSUME Init PROVE HeapOK /\ DecisionsOK
  OBVIOUS
<1>1. tasks \in Seq(Task) /\ Len(tasks) = 0 /\ 0 <= MaxTask
  BY EmptySeq, HeapAssumption DEF Init
<1>2. slot \in [Local -> Buf \cup {0}] /\ rc \in [Buf -> Nat]
  BY DEF Init
<1>3. fault = NoFault /\ gone = {} /\ lost = {} /\ phase = "lower"
      /\ moveSrc = {} /\ spawnMoves = {} /\ spawnRetains = {}
  BY DEF Init
<1> QED BY <1>1, <1>2, <1>3 DEF HeapOK, DecisionsOK, Placed, NoFault

LEMMA HeapNext ==
  ASSUME LiveInv, DropInv, HeapOK, DecisionsOK, [Next]_vars
  PROVE  HeapOK'
<1>1. CASE UNCHANGED heap
  BY <1>1 DEF heap, HeapOK
<1>2. CASE Step
  <2>1. pc.i \in Index(pc.b) /\ Perform(InstsOf(pc.b)[pc.i]) /\ pc.b \in Blocks
    BY <1>2 DEF Step, DropInv
  <2>2. InstsOf(pc.b)[pc.i] \in GoodInst
    BY <2>1, InsideLocal DEF LiveInv, AnalysisOK
  <2> QED BY <2>1, <2>2, PerformGood
<1>3. CASE Leave
  BY <1>3, LeaveGood
<1>4. CASE Exit
  BY <1>4, ExitGood
<1>5. ASSUME NEW i \in DOMAIN tasks, RunTask(i) PROVE HeapOK'
  BY <1>5, RunTaskGood
<1>6. UNCHANGED heap \/ Step \/ Leave \/ Exit \/ \E i \in DOMAIN tasks : RunTask(i)
  BY DEF Next, Statement, Analyze, Visit, EndPass, DecideCopies, DecideSpawns, PlaceDrops, vars
<1> QED BY <1>1, <1>2, <1>3, <1>4, <1>5, <1>6

LEMMA DecisionsNext ==
  ASSUME LiveInv, DecisionsOK, [Next]_vars
  PROVE  DecisionsOK'
<1> DEFINE decided == <<moveSrc, spawnMoves, spawnRetains>>
<1>1. CASE phase' \notin Placed /\ UNCHANGED decided
  BY <1>1 DEF DecisionsOK
<1>2. CASE DecideCopies
  BY <1>2 DEF DecideCopies, DecisionsOK, Placed
<1>3. CASE DecideSpawns
  <2>1. /\ moveSrc' = moveSrc \cup spawnMoves' /\ phase' \notin Placed
        /\ spawnMoves' \subseteq Local /\ spawnRetains' \subseteq Local
    BY <1>3 DEF DecideSpawns, Placed
  <2> QED BY <2>1 DEF DecisionsOK
<1>4. CASE PlaceDrops
  <2>1. UNCHANGED <<blocks, moveSrc, spawnMoves, spawnRetains>>
    BY <1>4 DEF PlaceDrops, lowering
  <2>2. \A b \in Blocks : EndDrops(b) \subseteq Local /\ EdgeDrops(b) \subseteq Local
    BY InsideLocal DEF LiveInv, AnalysisOK, EndDrops, EdgeDrops, Droppable, Owned
  <2>3. dropStart' \in [Blocks -> SUBSET Local] /\ dropEnd' \in [Blocks -> SUBSET Local]
    BY <1>4, <2>2 DEF PlaceDrops
  <2>4. Blocks' = Blocks
    BY <2>1 DEF Blocks
  <2> QED BY <2>1, <2>3, <2>4 DEF DecisionsOK
<1>5. CASE phase \in Placed /\ UNCHANGED <<blocks, dropStart, dropEnd, decided>>
  <2>1. Blocks' = Blocks
    BY <1>5 DEF Blocks
  <2> QED BY <1>5, <2>1 DEF DecisionsOK
<1>6. ASSUME Step \/ Leave \/ Exit \/ \E i \in DOMAIN tasks : RunTask(i)
      PROVE  phase \in Placed /\ UNCHANGED <<blocks, dropStart, dropEnd, decided>>
  BY <1>6 DEF Step, Leave, Exit, RunTask, Running, Placed, lowering, analysis
<1>7. ASSUME Statement \/ Analyze \/ Visit \/ EndPass
      PROVE  phase' \notin Placed /\ UNCHANGED decided
  BY <1>7 DEF Statement, Analyze, Visit, EndPass, Placed, analysis
<1>8. CASE UNCHANGED vars
  BY <1>1, <1>5, <1>8 DEF vars, lowering, analysis
<1> QED BY <1>1, <1>2, <1>3, <1>4, <1>5, <1>6, <1>7, <1>8 DEF Next

\* The lowerer, the analysis and the heap keep their types, for bodies of any size; no
\* reference count becomes negative (TypeOK).
THEOREM TypeCorrect == Spec => []TypeOK
<1>1. LiveInv /\ DropInv /\ HeapOK /\ DecisionsOK => TypeOK
  <2> SUFFICES ASSUME LiveInv, DropInv, HeapOK, DecisionsOK PROVE TypeOK
    OBVIOUS
  <2>1. LowerTypeOK
    BY ShapeTypes DEF LiveInv, AnalysisOK
  <2>2. /\ phase \in Phase /\ at \in Nat /\ changed \in BOOLEAN
        /\ phase # "lower" =>
             liveIn \in [Blocks -> SUBSET Local] /\ liveOut \in [Blocks -> SUBSET Local]
    BY DEF LiveInv, AnalysisOK
  <2>3. pc \in [b : Blocks, i : Nat \ {0}]
    BY DEF DropInv
  <2> QED BY <2>1, <2>2, <2>3 DEF TypeOK, HeapOK, DecisionsOK, Placed
<1>2. LiveInv /\ DropInv /\ HeapOK /\ DecisionsOK /\ [Next]_vars
      => (LiveInv /\ DropInv /\ HeapOK /\ DecisionsOK)'
  BY LiveNext, DropNext, HeapNext, DecisionsNext
<1> QED BY <1>1, <1>2, LiveInit, DropInit, HeapInit, PTL DEF Spec

-----------------------------------------------------------------------------
\* A set of naturals that contains 0 and is closed under successor is Nat.
LEMMA NatSet ==
  ASSUME NEW P, 0 \in P, \A n \in Nat : n \in P => n + 1 \in P
  PROVE  Nat \subseteq P
<1> DEFINE T == Nat \ P
<1> SUFFICES ASSUME T # {} PROVE FALSE
  OBVIOUS
<1>1. IsWellFoundedOn(OpToRel(<, Nat), Nat)
  BY NatLessThanWellFounded
<1>2. PICK x \in T : \A y \in T : ~(<<y, x>> \in OpToRel(<, Nat))
  BY <1>1, WFMin
<1>3. x # 0 /\ x - 1 \in Nat /\ x - 1 \notin P
  OBVIOUS
<1>4. <<x - 1, x>> \in OpToRel(<, Nat)
  BY <1>3 DEF OpToRel
<1> QED
  BY <1>2, <1>3, <1>4

\* The first n iterates of a function F of S on e.
Steps(F, S, e, n, g) ==
  g \in [0..n -> S] /\ g[0] = e /\ \A k \in Nat : k < n => g[k + 1] = F[g[k]]

LEMMA StartsExist ==
  ASSUME NEW S, NEW F \in [S -> S], NEW e \in S
  PROVE  \A n \in Nat : \E g : Steps(F, S, e, n, g)
<1> DEFINE P == {n \in Nat : \E g : Steps(F, S, e, n, g)}
<1>1. 0 \in P
  <2>1. Steps(F, S, e, 0, [k \in 0..0 |-> e])
    BY DEF Steps
  <2> QED BY <2>1
<1>2. ASSUME NEW n \in Nat, n \in P PROVE n + 1 \in P
  <2>1. PICK g : Steps(F, S, e, n, g)
    BY <1>2
  <2> DEFINE h == [k \in 0..n + 1 |-> IF k <= n THEN g[k] ELSE F[g[n]]]
  <2>2. g \in [0..n -> S] /\ g[0] = e /\ \A k \in Nat : k < n => g[k + 1] = F[g[k]]
    BY <2>1 DEF Steps
  <2>3. h \in [0..n + 1 -> S]
    <3>1. n \in 0..n
      OBVIOUS
    <3>2. \A k \in 0..n + 1 : k <= n => k \in 0..n
      OBVIOUS
    <3> QED BY <2>2, <3>1, <3>2
  <2>4. h[0] = e
    BY <2>2
  <2>5. ASSUME NEW k \in Nat, k < n + 1 PROVE h[k + 1] = F[h[k]]
    <3>1. CASE k = n
      <4>1. h[k] = g[n] /\ h[k + 1] = F[g[n]]
        BY <3>1
      <4> QED BY <4>1
    <3>2. CASE k < n
      <4>1. h[k] = g[k] /\ h[k + 1] = g[k + 1]
        BY <3>2
      <4> QED BY <2>2, <3>2, <4>1
    <3> QED BY <2>5, <3>1, <3>2
  <2>6. Steps(F, S, e, n + 1, h)
    <3> HIDE DEF h
    <3> QED BY <2>3, <2>4, <2>5 DEF Steps
  <2> QED BY <2>6
<1>3. Nat \subseteq P
  <2> HIDE DEF P
  <2> QED BY <1>1, <1>2, NatSet
<1> QED BY <1>3

LEMMA StartsAgree ==
  ASSUME NEW S, NEW F, NEW e, NEW m \in Nat, NEW g, NEW h,
         Steps(F, S, e, m, g), Steps(F, S, e, m + 1, h)
  PROVE  g[m] = h[m]
<1> DEFINE P == {n \in Nat : n <= m => g[n] = h[n]}
<1>1. 0 \in P
  BY DEF Steps
<1>2. ASSUME NEW n \in Nat, n \in P PROVE n + 1 \in P
  <2> SUFFICES ASSUME n + 1 <= m PROVE g[n + 1] = h[n + 1]
    OBVIOUS
  <2>1. n <= m /\ n < m /\ n < m + 1
    OBVIOUS
  <2>2. g[n] = h[n]
    BY <1>2, <2>1
  <2> QED BY <2>1, <2>2 DEF Steps
<1>3. Nat \subseteq P
  <2> HIDE DEF P
  <2> QED BY <1>1, <1>2, NatSet
<1> QED BY <1>3

\* The iterates of a function.
Iterates(F, S, e, f) ==
  f \in [Nat -> S] /\ f[0] = e /\ \A n \in Nat : f[n + 1] = F[f[n]]

LEMMA IteratesExist ==
  ASSUME NEW S, NEW F \in [S -> S], NEW e \in S
  PROVE  \E f : Iterates(F, S, e, f)
<1> DEFINE G == [n \in Nat |-> CHOOSE g : Steps(F, S, e, n, g)]
           f == [n \in Nat |-> G[n][n]]
<1>1. ASSUME NEW n \in Nat PROVE Steps(F, S, e, n, G[n])
  <2>1. \E g : Steps(F, S, e, n, g)
    BY StartsExist
  <2> QED BY <2>1
<1> HIDE DEF G
<1>2. ASSUME NEW n \in Nat PROVE f[n] \in S
  <2>1. n \in 0..n
    OBVIOUS
  <2> QED BY <1>1, <2>1 DEF Steps
<1>3. f[0] = e
  BY <1>1 DEF Steps
<1>4. ASSUME NEW n \in Nat PROVE f[n + 1] = F[f[n]]
  <2>1. n + 1 \in Nat /\ n < n + 1
    OBVIOUS
  <2>2. Steps(F, S, e, n, G[n]) /\ Steps(F, S, e, n + 1, G[n + 1])
    BY <1>1, <2>1
  <2>3. G[n][n] = G[n + 1][n]
    BY <2>2, StartsAgree
  <2>4. G[n + 1][n + 1] = F[G[n + 1][n]]
    BY <2>1, <2>2 DEF Steps
  <2> QED BY <2>1, <2>3, <2>4
<1> HIDE DEF f
<1>5. f \in [Nat -> S]
  BY <1>2 DEF f
<1> QED BY <1>3, <1>4, <1>5 DEF Iterates

\* Sets that grow within a finite set stop growing.
LEMMA Saturates ==
  ASSUME NEW B, IsFiniteSet(B), NEW N \in Nat, Cardinality(B) <= N,
         NEW F, NEW e \in SUBSET B, NEW f, Iterates(F, SUBSET B, e, f),
         \A X \in SUBSET B : X \subseteq F[X]
  PROVE  e \subseteq f[N] /\ f[N] \subseteq B /\ F[f[N]] = f[N]
<1>1. \A n \in Nat : f[n] \in SUBSET B /\ f[n + 1] = F[f[n]] /\ f[n] \subseteq f[n + 1]
  BY DEF Iterates
<1>2. \A n \in Nat : IsFiniteSet(f[n]) /\ Cardinality(f[n]) \in Nat /\ Cardinality(f[n]) <= N
  <2> SUFFICES ASSUME NEW n \in Nat
               PROVE  IsFiniteSet(f[n]) /\ Cardinality(f[n]) \in Nat /\ Cardinality(f[n]) <= N
    OBVIOUS
  <2>1. f[n] \in SUBSET B
    BY <1>1
  <2>2. IsFiniteSet(f[n]) /\ Cardinality(f[n]) <= Cardinality(B)
    BY <2>1, FS_Subset
  <2>3. Cardinality(f[n]) \in Nat /\ Cardinality(B) \in Nat
    BY <2>2, FS_CardinalityType
  <2> QED BY <2>2, <2>3
<1> DEFINE Fixed(n) == f[n + 1] = f[n]
           P == {n \in Nat : (\E m \in Nat : m < n /\ Fixed(m)) \/ Cardinality(f[n]) >= n}
<1>3. Nat \subseteq P
  <2>1. 0 \in P
    BY <1>2
  <2>2. ASSUME NEW n \in Nat, n \in P PROVE n + 1 \in P
    <3>1. CASE \E m \in Nat : m < n + 1 /\ Fixed(m)
      BY <3>1
    <3>2. CASE ~\E m \in Nat : m < n + 1 /\ Fixed(m)
      <4>1. Cardinality(f[n]) >= n
        BY <2>2, <3>2
      <4>2. f[n] # f[n + 1] /\ f[n] \subseteq f[n + 1]
        BY <1>1, <3>2
      <4>3. IsFiniteSet(f[n]) /\ IsFiniteSet(f[n + 1]) /\ n + 1 \in Nat
            /\ Cardinality(f[n]) \in Nat /\ Cardinality(f[n + 1]) \in Nat
        BY <1>2
      <4>4. Cardinality(f[n]) < Cardinality(f[n + 1])
        <5>1. Cardinality(f[n]) <= Cardinality(f[n + 1])
              /\ (Cardinality(f[n]) = Cardinality(f[n + 1]) => f[n] = f[n + 1])
          BY <4>2, <4>3, FS_Subset
        <5> QED BY <4>2, <4>3, <5>1
      <4>5. Cardinality(f[n + 1]) >= n + 1
        BY <4>1, <4>3, <4>4
      <4> QED BY <4>5
    <3> QED BY <3>1, <3>2
  <2> HIDE DEF P
  <2> QED BY <2>1, <2>2, NatSet
<1>4. PICK m \in Nat : m <= N /\ Fixed(m)
  <2>1. N + 1 \in P /\ N + 1 \in Nat
    BY <1>3
  <2>2. ~(Cardinality(f[N + 1]) >= N + 1)
    BY <1>2, <2>1
  <2> QED BY <2>1, <2>2
<1> DEFINE Q == {k \in Nat : f[m + k] = f[m]}
<1>5. Nat \subseteq Q
  <2>1. 0 \in Q
    OBVIOUS
  <2>2. ASSUME NEW k \in Nat, k \in Q PROVE k + 1 \in Q
    <3>1. m + k \in Nat /\ m + (k + 1) = (m + k) + 1 /\ f[m + k] = f[m]
      BY <2>2
    <3>2. f[(m + k) + 1] = F[f[m + k]] /\ f[m + 1] = F[f[m]]
      BY <1>1, <3>1
    <3> QED BY <1>4, <3>1, <3>2
  <2> HIDE DEF Q
  <2> QED BY <2>1, <2>2, NatSet
<1>6. f[N] = f[m] /\ f[N + 1] = f[m]
  <2>1. N - m \in Nat /\ N + 1 - m \in Nat /\ m + (N - m) = N /\ m + (N + 1 - m) = N + 1
    BY <1>4
  <2>2. \A k \in Nat : f[m + k] = f[m]
    BY <1>5
  <2>3. f[m + (N - m)] = f[m] /\ f[m + (N + 1 - m)] = f[m]
    BY <2>1, <2>2
  <2> QED BY <2>1, <2>3
<1> DEFINE W == {n \in Nat : e \subseteq f[n]}
<1>7. Nat \subseteq W
  <2>1. 0 \in W
    BY DEF Iterates
  <2>2. ASSUME NEW n \in Nat, n \in W PROVE n + 1 \in W
    BY <1>1, <2>2
  <2> HIDE DEF W
  <2> QED BY <2>1, <2>2, NatSet
<1> QED BY <1>1, <1>6, <1>7

-----------------------------------------------------------------------------
\* The blocks reached from a block are closed under the successors.
LEMMA ReachClosed ==
  ASSUME Shape, NEW b \in Blocks
  PROVE  /\ Succs(b) \subseteq Reach(b) /\ Reach(b) \subseteq Blocks
         /\ \A c \in Reach(b) : Succs(c) \subseteq Reach(b)
<1> DEFINE S == SUBSET Blocks
           F == [X \in S |-> X \cup UNION {Succs(c) : c \in X}]
           G(r) == [n \in Nat |-> IF n = 0 THEN Succs(b)
                                  ELSE r[n - 1] \cup UNION {Succs(c) : c \in r[n - 1]}]
           r == CHOOSE r : r = G(r)
<1>1. \A c \in Blocks : Succs(c) \subseteq Blocks
  BY InsideLocal
<1>2. F \in [S -> S]
  BY <1>1
<1>3. Succs(b) \in S
  BY <1>1
<1>4. PICK f : Iterates(F, S, Succs(b), f)
  <2> HIDE DEF F, S
  <2> QED BY <1>2, <1>3, IteratesExist
<1>5. f = G(f)
  <2>1. ASSUME NEW n \in Nat PROVE f[n] = G(f)[n]
    <3>1. CASE n = 0
      BY <1>4, <3>1 DEF Iterates
    <3>2. CASE n # 0
      <4>1. n - 1 \in Nat /\ (n - 1) + 1 = n
        BY <3>2
      <4>2. f[n] = F[f[n - 1]] /\ f[n - 1] \in S
        <5> HIDE DEF F, S
        <5>1. f[(n - 1) + 1] = F[f[n - 1]] /\ f[n - 1] \in S
          BY <1>4, <4>1 DEF Iterates
        <5> QED BY <4>1, <5>1
      <4> QED BY <3>2, <4>2
    <3> QED BY <3>1, <3>2
  <2>2. f = [n \in Nat |-> f[n]]
    BY <1>4 DEF Iterates
  <2> QED BY <2>1, <2>2
<1>6. r = G(r)
  <2> HIDE DEF G
  <2> QED BY <1>5
<1> HIDE DEF r
<1>7. r[0] = Succs(b) /\ \A n \in Nat : r[n + 1] = r[n] \cup UNION {Succs(c) : c \in r[n]}
  <2>1. r[0] = G(r)[0] /\ \A n \in Nat : r[n + 1] = G(r)[n + 1]
    BY <1>6
  <2>2. \A n \in Nat : (n + 1) - 1 = n /\ n + 1 # 0 /\ n + 1 \in Nat
    OBVIOUS
  <2> QED BY <2>1, <2>2
<1>8. Iterates(F, S, Succs(b), r)
  <2> DEFINE P == {n \in Nat : r[n] \in S}
  <2>1. 0 \in P
    BY <1>3, <1>7
  <2>2. ASSUME NEW n \in Nat, n \in P PROVE n + 1 \in P
    <3>1. r[n + 1] = F[r[n]] /\ r[n] \in S
      BY <1>7, <2>2
    <3> QED BY <1>2, <3>1
  <2>3. Nat \subseteq P
    <3> HIDE DEF P
    <3> QED BY <2>1, <2>2, NatSet
  <2>4. \A n \in Nat : r[n] \in S /\ r[n + 1] = F[r[n]]
    BY <1>7, <2>3
  <2>5. r \in [Nat -> S]
    <3>1. DOMAIN r = Nat /\ r = [n \in Nat |-> r[n]]
      BY <1>6
    <3> HIDE DEF S
    <3> QED BY <2>4, <3>1
  <2> QED BY <1>7, <2>4, <2>5 DEF Iterates
<1>9. Len(blocks) \in Nat /\ IsFiniteSet(Blocks) /\ Cardinality(Blocks) <= Len(blocks)
  BY FS_Interval DEF Shape, Blocks
<1>10. \A X \in SUBSET Blocks : X \subseteq F[X]
  OBVIOUS
<1>11. /\ Succs(b) \subseteq r[Len(blocks)] /\ r[Len(blocks)] \subseteq Blocks
       /\ F[r[Len(blocks)]] = r[Len(blocks)]
  <2> HIDE DEF F
  <2> QED BY <1>3, <1>8, <1>9, <1>10, Saturates
<1>12. Reach(b) = r[Len(blocks)]
  BY DEF Reach, r
<1> QED BY <1>11, <1>12

-----------------------------------------------------------------------------
Decided == {"drops"} \cup Placed

\* A value whose ownership an instruction takes is not needed afterwards.
CopiesMove ==
  phase \in {"spawns"} \cup Decided =>
    \A b \in Blocks : \A i \in Index(b) :
      Transfers(InstsOf(b)[i]) => /\ InstsOf(b)[i].src \in moveSrc
                                  /\ ~NeededAfter(b, i, InstsOf(b)[i].src)

\* Nothing after a spawn site may write the argument: neither in its block nor in R,
\* the blocks that can follow.
Quiet(b, i, v, R) ==
  /\ R \subseteq Blocks /\ Succs(b) \subseteq R /\ \A c \in R : Succs(c) \subseteq R
  /\ \A j \in Index(b) : i < j => ~MayWrite(InstsOf(b)[j], v)
  /\ \A c \in R : \A j \in Index(c) : ~MayWrite(InstsOf(c)[j], v)

\* A moved argument has a site that is its last use, a shared one a site after which it
\* is not written.
SpawnsShare ==
  phase \in Decided =>
    /\ spawnMoves \subseteq moveSrc
    /\ \A v \in spawnMoves : v \in Owned /\ \E b \in Blocks : \E i \in Index(b) : DeadSite(b, i, v)
    /\ \A v \in spawnRetains : v \in Owned /\ \E b \in Blocks : \E i \in Index(b), R \in SUBSET Blocks :
         Site(b, i, v) /\ NeededAfter(b, i, v) /\ Quiet(b, i, v, R)

DropsPlaced ==
  phase \in Placed =>
    \A b \in Blocks : dropEnd[b] = EndDrops(b) /\ dropStart[b] \subseteq EdgeDrops(b)

\* What the analysis has decided about the body.
BodyInv == Built /\ CopiesMove /\ SpawnsShare /\ DropsPlaced

body == <<blocks, liveIn, liveOut, moveSrc, spawnMoves, spawnRetains>>

LEMMA SameBody ==
  ASSUME UNCHANGED <<blocks, liveIn, liveOut>>
  PROVE  /\ Blocks' = Blocks /\ Owned' = Owned
         /\ \A b : Index(b)' = Index(b) /\ InstsOf(b)' = InstsOf(b) /\ Succs(b)' = Succs(b)
         /\ \A b, v : Holds(b, v)' = Holds(b, v)
         /\ \A b, i, v : /\ NeededAfter(b, i, v)' = NeededAfter(b, i, v)
                         /\ Site(b, i, v)' = Site(b, i, v)
                         /\ DeadSite(b, i, v)' = DeadSite(b, i, v)
         /\ \A b, i, v, R : Quiet(b, i, v, R)' = Quiet(b, i, v, R)
<1>1. /\ Blocks' = Blocks /\ \A b : DefOf(b)' = DefOf(b)
      /\ \A b : Index(b)' = Index(b) /\ InstsOf(b)' = InstsOf(b) /\ Succs(b)' = Succs(b)
  BY DEF Blocks, Index, InstsOf, Succs, DefOf
<1>2. Owned' = Owned
  BY <1>1 DEF Owned
<1>3. \A b, v : Holds(b, v)' = Holds(b, v)
  BY <1>1 DEF Holds
<1>4. \A b, i, v : NeededAfter(b, i, v)' = NeededAfter(b, i, v)
  BY <1>1 DEF NeededAfter, Args
<1>5. \A b, i, v : Site(b, i, v)' = Site(b, i, v)
  BY <1>1, <1>2 DEF Site, Op
<1>6. \A b, i, v : DeadSite(b, i, v)' = DeadSite(b, i, v)
  BY <1>4, <1>5 DEF DeadSite
<1>7. \A b, i, v, R : Quiet(b, i, v, R)' = Quiet(b, i, v, R)
  BY <1>1 DEF Quiet, MayWrite, Args
<1> QED BY <1>1, <1>2, <1>3, <1>4, <1>5, <1>6, <1>7

LEMMA SameDecisions ==
  ASSUME UNCHANGED body, BodyInv, phase' \in {"spawns"} \cup Decided => phase \in {"spawns"} \cup Decided,
         phase' \in Decided => phase \in Decided
  PROVE  Built' /\ CopiesMove' /\ SpawnsShare'
<1>1. UNCHANGED <<blocks, liveIn, liveOut, moveSrc, spawnMoves, spawnRetains>>
  BY DEF body
<1>2. Built'
  BY <1>1 DEF BodyInv, Built
<1>3. CopiesMove'
  BY <1>1, SameBody DEF BodyInv, CopiesMove
<1>4. SpawnsShare'
  BY <1>1, SameBody DEF BodyInv, SpawnsShare
<1> QED BY <1>2, <1>3, <1>4

LEMMA BodyInit == Init => BodyInv
<1> SUFFICES ASSUME Init PROVE BodyInv
  OBVIOUS
<1>1. Built
  BY InitBuilt DEF Init
<1>2. phase = "lower"
  BY DEF Init
<1> QED BY <1>1, <1>2 DEF BodyInv, CopiesMove, SpawnsShare, DropsPlaced, Decided, Placed

LEMMA EnsureReturnInsts ==
  ASSUME Shape, NEW b \in Blocks
  PROVE  EnsureReturn[b].insts = blocks[b].insts
<1>1. blocks[b] \in GoodBlock(Len(blocks))
  BY DEF Shape, Graph, Blocks
<1>2. \A x \in GoodBlock(Len(blocks)) : \A ts :
        [x EXCEPT !.term = "br", !.to = ts].insts = x.insts /\ [x EXCEPT !.term = "ret"].insts = x.insts
  BY DEF GoodBlock
<1> QED BY <1>1, <1>2 DEF EnsureReturn, Blocks

LEMMA BodyAnalyze == ASSUME LiveInv, BodyInv, Analyze PROVE BodyInv'
<1>1. Shape /\ blocks' = EnsureReturn /\ phase' = "live"
  BY DEF LiveInv, AnalysisOK, Analyze
<1>2. Graph(EnsureReturn, Len(blocks))
  BY <1>1, EnsureReturnGood
<1>3. Len(blocks') = Len(blocks)
  BY <1>1, <1>2, FunIsSeq DEF Shape, Graph
<1>4. Built'
  BY <1>1, <1>3, EnsureReturnInsts DEF BodyInv, Built, Blocks
<1> QED BY <1>1, <1>4 DEF BodyInv, CopiesMove, SpawnsShare, DropsPlaced, Decided, Placed

\* A copy keeps its operands, and a drop stays a drop.
LEMMA RewrittenForm ==
  ASSUME Shape, NEW b \in Blocks, NEW i \in Index(b)
  PROVE  /\ (Rewritten(b, i).op = "drop") = (InstsOf(b)[i].op = "drop")
         /\ (Rewritten(b, i).op \in {"move", "clone"}) = (InstsOf(b)[i].op \in {"move", "clone"})
         /\ ~IsCopy(InstsOf(b)[i]) => Rewritten(b, i) = InstsOf(b)[i]
         /\ Transfers(Rewritten(b, i)) => ~NeededAfter(b, i, InstsOf(b)[i].src)
<1> DEFINE x == InstsOf(b)[i]
<1>1. x \in GoodInst
  BY InsideLocal
<1>2. CASE ~IsCopy(x)
  <2>1. Rewritten(b, i) = x
    BY <1>2 DEF Rewritten
  <2>2. ~Transfers(x)
    BY <1>2 DEF Transfers, IsCopy
  <2> QED BY <2>1, <2>2
<1>3. CASE IsCopy(x)
  <2> DEFINE op == IF NeededAfter(b, i, x.src) THEN "clone" ELSE "move"
  <2>1. Rewritten(b, i) = [x EXCEPT !.op = op]
    BY <1>3 DEF Rewritten
  <2>2. ASSUME NEW y \in GoodInst, NEW o PROVE [y EXCEPT !.op = o].op = o
    BY DEF GoodInst, Inst
  <2>3. Rewritten(b, i).op = op
    <3> HIDE DEF x, op
    <3> QED BY <1>1, <2>1, <2>2
  <2> QED BY <1>3, <2>3 DEF IsCopy, Transfers
<1> QED BY <1>2, <1>3

LEMMA BodyCopies == ASSUME LiveInv, BodyInv, DecideCopies PROVE BodyInv'
<1>1. /\ Shape /\ phase = "copies" /\ phase' = "spawns" /\ UNCHANGED <<liveIn, liveOut>>
      /\ moveSrc' = {v \in Local : \E b \in Blocks : \E i \in Index(b) :
                       Transfers(Rewritten(b, i)) /\ Rewritten(b, i).src = v}
  BY DEF LiveInv, AnalysisOK, DecideCopies
<1>2. /\ Shape' /\ Blocks' = Blocks
      /\ \A b \in Blocks : /\ Index(b)' = Index(b)
                            /\ \A i \in Index(b) : InstsOf(b)'[i] = Rewritten(b, i)
  BY <1>1, CopiesKeepGraph
<1>3. ASSUME NEW b \in Blocks
      PROVE  Index(b) = 1..Len(InstsOf(b)) /\ 1..Len(InstsOf(b)') = Index(b) /\ Len(InstsOf(b)) \in Nat
             /\ Len(InstsOf(b)') = Len(InstsOf(b))
  <2>1. Index(b) = 1..Len(InstsOf(b)) /\ Len(InstsOf(b)) \in Nat
    BY <1>1, InsideLocal
  <2>2. InstsOf(b)' = [i \in Index(b) |-> Rewritten(b, i)]
    BY <1>1 DEF DecideCopies, InstsOf, Blocks, Shape, Graph, GoodBlock
  <2>3. Len(InstsOf(b)') = Len(InstsOf(b))
    <3>1. \A i \in 1..Len(InstsOf(b)) : Rewritten(b, i) \in GoodInst
      BY <1>1, <2>1, RewrittenGood
    <3>2. InstsOf(b)' \in [1..Len(InstsOf(b)) -> GoodInst]
      BY <2>1, <2>2, <3>1
    <3> QED BY <2>1, <3>2, FunIsSeq
  <2> QED BY <2>1, <2>3
<1>4. Built'
  <2> SUFFICES ASSUME NEW b \in Blocks PROVE Paired(InstsOf(b)')
    BY <1>2 DEF Built, InstsOf, Blocks
  <2>1. Paired(InstsOf(b))
    BY DEF BodyInv, Built, InstsOf, Blocks
  <2> DEFINE p == InstsOf(b)
             q == InstsOf(b)'
  <2>2. ASSUME NEW i \in Index(b)
        PROVE  /\ q[i] = Rewritten(b, i)
               /\ q[i].dst = p[i].dst /\ q[i].src = p[i].src /\ q[i].into = p[i].into
               /\ (q[i].op = "drop") = (p[i].op = "drop")
               /\ (q[i].op \in {"move", "clone"}) = (p[i].op \in {"move", "clone"})
               /\ ~IsCopy(p[i]) => q[i] = p[i]
    BY <1>1, <1>2, RewrittenGood, RewrittenForm
  <2>3. ASSUME NEW i \in Index(b) PROVE Formed(q[i])
    <3>1. Formed(p[i])
      BY <1>3, <2>1 DEF Paired
    <3>2. CASE IsCopy(p[i])
      <4>1. q[i].op \in {"move", "clone"}
        BY <2>2, <3>2 DEF IsCopy
      <4>2. q[i].src # NoVal => q[i].src # q[i].dst /\ q[i].src # q[i].into
        BY <2>2, <3>1 DEF Formed
      <4> QED BY <4>1, <4>2 DEF Formed
    <3>3. CASE ~IsCopy(p[i])
      BY <2>2, <3>1, <3>3
    <3> QED BY <3>2, <3>3
  <2>4. ASSUME NEW i \in Index(b), q[i].op = "drop"
        PROVE  i + 1 \in Index(b) /\ Refills(q[i + 1], q[i].src)
    <3>1. p[i].op = "drop" /\ q[i].src = p[i].src
      BY <2>2, <2>4
    <3>2. i + 1 \in Index(b) /\ Refills(p[i + 1], p[i].src)
      BY <1>3, <2>1, <3>1 DEF Paired
    <3> QED BY <2>2, <3>1, <3>2 DEF Refills
  <2>5. 1..Len(q) = Index(b)
    BY <1>3
  <2> HIDE DEF q
  <2> QED BY <2>3, <2>4, <2>5 DEF Paired, q
<1>5. CopiesMove'
  <2> SUFFICES ASSUME NEW b \in Blocks, NEW i \in Index(b), Transfers(InstsOf(b)'[i])
               PROVE  InstsOf(b)'[i].src \in moveSrc' /\ ~NeededAfter(b, i, InstsOf(b)[i].src)'
    BY <1>2 DEF CopiesMove, Transfers
  <2>1. InstsOf(b)'[i] = Rewritten(b, i) /\ Rewritten(b, i).src = InstsOf(b)[i].src
    BY <1>1, <1>2, RewrittenGood
  <2>2. InstsOf(b)[i].src \in Local
    <3>1. InstsOf(b)[i] \in GoodInst /\ InstsOf(b)[i].src # NoVal
      BY <1>1, <2>1, InsideLocal DEF Transfers
    <3> QED BY <3>1 DEF GoodInst, Inst
  <2>3. InstsOf(b)'[i].src \in moveSrc'
    BY <1>1, <2>1, <2>2
  <2>4. ~NeededAfter(b, i, InstsOf(b)[i].src)
    BY <1>1, <2>1, RewrittenForm
  <2>5. ASSUME NEW v PROVE NeededAfter(b, i, v)' <=> NeededAfter(b, i, v)
    <3>1. \A j \in i + 1..Len(InstsOf(b)) :
             j \in Index(b)
             /\ (InstsOf(b)'[j].op = "drop") = (InstsOf(b)[j].op = "drop")
             /\ Args(InstsOf(b)'[j]) = Args(InstsOf(b)[j])
      <4> SUFFICES ASSUME NEW j \in i + 1..Len(InstsOf(b))
                   PROVE  j \in Index(b)
                          /\ (InstsOf(b)'[j].op = "drop") = (InstsOf(b)[j].op = "drop")
                          /\ Args(InstsOf(b)'[j]) = Args(InstsOf(b)[j])
        OBVIOUS
      <4>1. j \in Index(b)
        BY <1>3
      <4> QED BY <1>1, <1>2, <4>1, RewrittenGood, RewrittenForm DEF Args
    <3>2. Len(InstsOf(b)') = Len(InstsOf(b)) /\ liveOut' = liveOut
      BY <1>1, <1>3
    <3> QED BY <3>1, <3>2 DEF NeededAfter
  <2>6. ~NeededAfter(b, i, InstsOf(b)[i].src)'
    <3> DEFINE v == InstsOf(b)[i].src
    <3>1. v' = v
      BY <2>1
    <3> QED BY <2>4, <2>5, <3>1
  <2> QED BY <2>3, <2>6
<1> QED BY <1>1, <1>4, <1>5 DEF BodyInv, SpawnsShare, DropsPlaced, Decided, Placed

LEMMA BodySpawns == ASSUME LiveInv, BodyInv, DecideSpawns PROVE BodyInv'
<1>1. /\ Shape /\ phase = "spawns" /\ phase' = "drops"
      /\ UNCHANGED <<blocks, liveIn, liveOut>> /\ moveSrc' = moveSrc \cup spawnMoves'
      /\ spawnMoves' = {v \in Local : \E b \in Blocks : \E i \in Index(b) : DeadSite(b, i, v)}
      /\ \A v \in spawnRetains' : \E b \in Blocks : \E i \in Index(b) :
           Site(b, i, v) /\ NeededAfter(b, i, v) /\ ~WritesAfter(b, i, v)
  BY DEF LiveInv, AnalysisOK, DecideSpawns, lowering
<1>2. Built'
  BY <1>1 DEF BodyInv, Built
<1>3. CopiesMove'
  BY <1>1, SameBody DEF BodyInv, CopiesMove
<1>4. ASSUME NEW v \in spawnRetains'
      PROVE  v \in Owned /\ \E b \in Blocks : \E i \in Index(b), R \in SUBSET Blocks :
               Site(b, i, v) /\ NeededAfter(b, i, v) /\ Quiet(b, i, v, R)
  <2>1. PICK b \in Blocks : \E i \in Index(b) :
           Site(b, i, v) /\ NeededAfter(b, i, v) /\ ~WritesAfter(b, i, v)
    BY <1>1
  <2>9. PICK i \in Index(b) : Site(b, i, v) /\ NeededAfter(b, i, v) /\ ~WritesAfter(b, i, v)
    BY <2>1
  <2>2. /\ Succs(b) \subseteq Reach(b) /\ Reach(b) \subseteq Blocks
        /\ \A c \in Reach(b) : Succs(c) \subseteq Reach(b)
    BY <1>1, ReachClosed
  <2>3. Index(b) = 1..Len(InstsOf(b)) /\ Len(InstsOf(b)) \in Nat
    BY <1>1, InsideLocal
  <2>4. Quiet(b, i, v, Reach(b))
    <3>1. \A j \in Index(b) : i < j => j \in i + 1..Len(InstsOf(b))
      BY <2>3
    <3> QED BY <2>9, <2>2, <3>1 DEF Quiet, WritesAfter
  <2> QED BY <2>9, <2>2, <2>4 DEF Site
<1>5. \A v \in spawnMoves' : v \in Owned
  BY <1>1 DEF DeadSite, Site
<1>6. SpawnsShare'
  BY <1>1, <1>4, <1>5, SameBody DEF SpawnsShare
<1> QED BY <1>1, <1>2, <1>3, <1>6 DEF BodyInv, DropsPlaced, Placed

LEMMA BodyPlace == ASSUME LiveInv, BodyInv, PlaceDrops PROVE BodyInv'
<1>1. /\ phase = "drops" /\ phase' \in Placed /\ UNCHANGED body
      /\ dropEnd' = [b \in Blocks |-> EndDrops(b)]
      /\ dropStart' = [b \in Blocks |-> {v \in EdgeDrops(b) : <<b, v>> \in Kept}]
  BY DEF PlaceDrops, Placed, body, lowering
<1>2. Built' /\ CopiesMove' /\ SpawnsShare'
  BY <1>1, SameDecisions DEF Decided
<1>3. \A b : EndDrops(b)' = EndDrops(b) /\ EdgeDrops(b)' = EdgeDrops(b)
  <2>1. UNCHANGED <<blocks, liveIn, liveOut, moveSrc>>
    BY <1>1 DEF body
  <2>2. Droppable' = Droppable
    BY <2>1, SameBody DEF Droppable
  <2> QED BY <2>1, <2>2, SameBody DEF EndDrops, EdgeDrops
<1>4. Blocks' = Blocks
  BY <1>1, SameBody DEF body
<1>5. DropsPlaced'
  BY <1>1, <1>3, <1>4 DEF DropsPlaced
<1> QED BY <1>2, <1>5 DEF BodyInv

LEMMA BodyKept ==
  ASSUME BodyInv, UNCHANGED body, UNCHANGED <<dropStart, dropEnd>>,
         phase' = phase \/ (phase \in Placed /\ phase' \in Placed)
                        \/ phase' \notin {"spawns"} \cup Decided
  PROVE  BodyInv'
<1>1. Built' /\ CopiesMove' /\ SpawnsShare'
  BY SameDecisions DEF Decided
<1>2. \A b : EndDrops(b)' = EndDrops(b) /\ EdgeDrops(b)' = EdgeDrops(b)
  <2>1. UNCHANGED <<blocks, liveIn, liveOut, moveSrc>>
    BY DEF body
  <2>2. Droppable' = Droppable
    BY <2>1, SameBody DEF Droppable
  <2> QED BY <2>1, <2>2, SameBody DEF EndDrops, EdgeDrops
<1>3. Blocks' = Blocks
  BY SameBody DEF body
<1>4. DropsPlaced'
  BY <1>2, <1>3 DEF DropsPlaced, BodyInv, Decided
<1> QED BY <1>1, <1>4 DEF BodyInv

LEMMA BodyNext == ASSUME LiveInv, BodyInv, [Next]_vars PROVE BodyInv'
<1>1. CASE Statement
  <2>1. Shape /\ Built /\ Lower /\ phase = "lower" /\ phase' = phase
    BY <1>1 DEF Statement, LiveInv, AnalysisOK, BodyInv, analysis
  <2>2. Built'
    BY <2>1, LowerBuilt
  <2> QED BY <2>1, <2>2 DEF BodyInv, CopiesMove, SpawnsShare, DropsPlaced, Decided, Placed
<1>2. CASE Analyze
  BY <1>2, BodyAnalyze
<1>3. CASE Visit \/ EndPass
  <2>1. phase' \in {"live", "copies"} /\ UNCHANGED blocks
    BY <1>3 DEF Visit, EndPass, lowering
  <2>2. Built'
    BY <2>1 DEF BodyInv, Built
  <2> QED BY <2>1, <2>2 DEF BodyInv, CopiesMove, SpawnsShare, DropsPlaced, Decided, Placed
<1>4. CASE DecideCopies
  BY <1>4, BodyCopies
<1>5. CASE DecideSpawns
  BY <1>5, BodySpawns
<1>6. CASE PlaceDrops
  BY <1>6, BodyPlace
<1>7. CASE Step \/ Leave
  BY <1>7, BodyKept DEF Step, Leave, lowering, analysis, body
<1>8. CASE Exit
  BY <1>8, BodyKept DEF Exit, Running, lowering, body, Placed
<1>9. ASSUME NEW i \in DOMAIN tasks, RunTask(i) PROVE BodyInv'
  BY <1>9, BodyKept DEF RunTask, lowering, analysis, body
<1>10. CASE UNCHANGED vars
  BY <1>10, BodyKept DEF vars, lowering, analysis, body
<1> QED BY <1>1, <1>2, <1>3, <1>4, <1>5, <1>6, <1>7, <1>8, <1>9, <1>10 DEF Next

-----------------------------------------------------------------------------
OneSite == \A v \in Local : ~TwoSites(v)

\* The slot of v holds what v owns: its ownership never moves, or it is still needed here.
Current(v) == v \notin moveSrc \/ v \in LiveAt(pc.b, pc.i)
JustDropped(v) == pc.i - 1 \in Index(pc.b) /\ InstsOf(pc.b)[pc.i - 1] = Op("drop", v)
Owner(v) == Current(v) /\ v \notin gone /\ ~JustDropped(v) /\ slot[v] # 0

\* The spawn site that shared v has run, and nothing from here on writes v's buffer.
AfterSite(v) ==
  \E b \in Blocks : \E i \in Index(b), R \in SUBSET Blocks :
    /\ Site(b, i, v) /\ Quiet(b, i, v, R)
    /\ (pc.b = b /\ i < pc.i) \/ pc.b \in R
OnEdge(v) == \E s \in Blocks : EdgeShared(s, v)

\* While the body runs: an owner has a reference besides those of the tasks; no two
\* locals own a buffer; a local that owns the buffer of a task shares it with that task.
OwnersCounted == \A v \in Local : Owner(v) => rc[slot[v]] >= 1 + TaskRefs(slot[v])
OwnersApart == \A u, v \in Local :
                 Current(u) /\ Current(v) /\ slot[u] = slot[v] /\ slot[u] # 0 => u = v
OwnersShare == \A v \in Local : \A k \in DOMAIN tasks :
                 Current(v) /\ slot[v] # 0 /\ slot[v] = tasks[k].buf =>
                   tasks[k].arg = v /\ AfterSite(v)
GoneBefore == \A v \in gone : v \notin liveIn[pc.b]
                               /\ \A k \in Index(pc.b) : k < pc.i => ~Defines(pc.b, k, v)
\* Each task has its reference, unless its argument may be dropped twice.
TasksCounted == \A n \in Buf : \/ rc[n] >= TaskRefs(n)
                               \/ \A k \in DOMAIN tasks : tasks[k].buf = n => OnEdge(tasks[k].arg)
TasksFresh == \A k \in DOMAIN tasks : ~tasks[k].stale

OwnInv ==
  /\ Running /\ OneSite => OwnersCounted /\ OwnersApart /\ OwnersShare
  /\ Running => GoneBefore
  /\ (phase \in {"run", "done"} /\ fault = NoFault /\ OneSite) => TasksCounted /\ TasksFresh
  /\ phase \notin {"run", "done"} =>
       slot = [v \in Local |-> 0] /\ tasks = <<>> /\ fault = NoFault

\* Everything known about a body and its run.
RunInv == LiveInv /\ DropInv /\ HeapOK /\ DecisionsOK /\ BodyInv /\ OwnInv

-----------------------------------------------------------------------------
\* What is not needed after an instruction is not live after it: a later drop would be
\* followed by the move into the slot, which needs it.
LEMMA NotNeeded ==
  ASSUME Shape, Built, NEW b \in Blocks, NEW i \in Index(b), NEW v, ~NeededAfter(b, i, v)
  PROVE  v \notin LiveAt(b, i + 1)
<1> SUFFICES ASSUME v \in LiveAt(b, i + 1) PROVE FALSE
  OBVIOUS
<1>1. /\ i \in Nat /\ Len(InstsOf(b)) \in Nat /\ Index(b) = 1..Len(InstsOf(b))
      /\ \A j \in Index(b) : InstsOf(b)[j] \in GoodInst
  BY InsideLocal
<1>2. v \notin liveOut[b]
        /\ \A j \in Index(b) : i < j /\ v \in Args(InstsOf(b)[j]) => InstsOf(b)[j].op = "drop"
  BY <1>1 DEF NeededAfter
<1>3. PICK j \in Index(b) : i + 1 <= j /\ v \in Args(InstsOf(b)[j])
  BY <1>2 DEF LiveAt, Names
<1>4. InstsOf(b)[j].op = "drop" /\ i < j
  BY <1>1, <1>2, <1>3
<1>5. Paired(InstsOf(b))
  BY DEF Built, InstsOf, Blocks
<1>6. j + 1 \in Index(b) /\ Refills(InstsOf(b)[j + 1], InstsOf(b)[j].src)
      /\ InstsOf(b)[j] = Op("drop", InstsOf(b)[j].src)
  BY <1>1, <1>4, <1>5 DEF Paired, Formed
<1>7. v = InstsOf(b)[j].src /\ v # NoVal
  BY <1>3, <1>6 DEF Args, Op
<1>8. v \in Args(InstsOf(b)[j + 1]) /\ InstsOf(b)[j + 1].op # "drop" /\ i < j + 1
  BY <1>1, <1>4, <1>6, <1>7 DEF Refills, Args
<1> QED BY <1>2, <1>6, <1>8

\* The instruction about to run, and the body around it.
LEMMA StepFacts ==
  ASSUME RunInv, Running, pc.i \in Index(pc.b), NEW x, x = InstsOf(pc.b)[pc.i]
  PROVE  /\ Shape /\ pc.b \in Blocks /\ pc.i \in Nat \ {0} /\ x \in GoodInst /\ Formed(x)
         /\ \A v : JustDropped(v) => Refills(x, v)
         /\ x.src # NoVal => x.src \in Local /\ Current(x.src) /\ x.src \notin gone
                             /\ ~JustDropped(x.src)
         /\ x.op \notin {"move", "clone"} => \A v : ~JustDropped(v)
<1>1. Shape /\ pc.b \in Blocks /\ pc.i \in Nat \ {0} /\ gone \cap LiveAt(pc.b, pc.i) = {}
  BY DEF RunInv, LiveInv, AnalysisOK, DropInv
<1>2. x \in GoodInst /\ Index(pc.b) = 1..Len(InstsOf(pc.b)) /\ Len(InstsOf(pc.b)) \in Nat
  BY <1>1, InsideLocal
<1>3. Paired(InstsOf(pc.b))
  BY <1>1 DEF RunInv, BodyInv, Built, InstsOf, Blocks
<1>4. Formed(x)
  BY <1>2, <1>3 DEF Paired
<1>5. ASSUME NEW v, JustDropped(v) PROVE Refills(x, v)
  <2>1. InstsOf(pc.b)[pc.i - 1].op = "drop" /\ InstsOf(pc.b)[pc.i - 1].src = v
        /\ pc.i - 1 \in Index(pc.b)
    BY <1>5 DEF JustDropped, Op
  <2>2. (pc.i - 1) + 1 = pc.i
    BY <1>1
  <2> QED BY <1>2, <1>3, <2>1, <2>2 DEF Paired
<1>6. ASSUME x.src # NoVal
      PROVE  x.src \in Local /\ Current(x.src) /\ x.src \notin gone /\ ~JustDropped(x.src)
  <2>1. x.src \in Local /\ Names(pc.b, pc.i, x.src)
    BY <1>2, <1>6 DEF GoodInst, Inst, Names, Args
  <2>2. x.src \in LiveAt(pc.b, pc.i)
    BY <1>1, <2>1, NamedIsLive
  <2>3. ~JustDropped(x.src)
    BY <1>4, <1>5, <1>6 DEF Refills, Formed
  <2> QED BY <1>1, <2>1, <2>2, <2>3 DEF Current
<1>7. ASSUME x.op \notin {"move", "clone"}, NEW v PROVE ~JustDropped(v)
  BY <1>5, <1>7 DEF Refills
<1> QED BY <1>1, <1>2, <1>4, <1>5, <1>6, <1>7

\* A step to the next instruction of the block.
Onward == pc' = [pc EXCEPT !.i = @ + 1] /\ UNCHANGED <<lowering, analysis>>

LEMMA OnwardFacts ==
  ASSUME RunInv, Running, pc.i \in Index(pc.b), Onward, NEW x, x = InstsOf(pc.b)[pc.i]
  PROVE  /\ pc'.b = pc.b /\ pc'.i = pc.i + 1 /\ phase' = "run" /\ Blocks' = Blocks
         /\ \A v \in Local : Current(v)' => Current(v) \/ x.dst = v
         /\ \A v : JustDropped(v)' <=> x = Op("drop", v)
         /\ \A v \in Local : AfterSite(v) => AfterSite(v)'
         /\ \A v \in Local : OnEdge(v)' <=> OnEdge(v)
         /\ OneSite' <=> OneSite
<1> DEFINE b == pc.b
           i == pc.i
<1>1. Shape /\ b \in Blocks /\ i \in Nat \ {0} /\ x \in GoodInst
  BY StepFacts
<1>2. pc = [b |-> b, i |-> i]
  BY DEF RunInv, DropInv
<1>3. pc'.b = b /\ pc'.i = i + 1
  <2>1. pc' = [b |-> b, i |-> i + 1]
    BY <1>2 DEF Onward
  <2> QED BY <2>1
<1>4. UNCHANGED <<blocks, liveIn, liveOut, moveSrc, phase, dropStart>>
  BY DEF Onward, lowering, analysis
<1>5. /\ Blocks' = Blocks
      /\ \A c : Index(c)' = Index(c) /\ InstsOf(c)' = InstsOf(c) /\ Succs(c)' = Succs(c)
      /\ \A c, j, v : Site(c, j, v)' = Site(c, j, v)
      /\ \A c, j, v, R : Quiet(c, j, v, R)' = Quiet(c, j, v, R)
  BY <1>4, SameBody
<1>6. ASSUME NEW v \in Local, Current(v)', x.dst # v PROVE Current(v)
  <2>1. \A c, k : LiveAt(c, k)' = LiveAt(c, k)
    BY <1>4, <1>5 DEF LiveAt, Names, Defines
  <2>2. v \notin moveSrc \/ v \in LiveAt(b, i + 1)
    BY <1>3, <1>4, <1>6, <2>1 DEF Current
  <2>3. v \in LiveAt(b, i + 1) => v \in LiveAt(b, i)
    BY <1>1, <1>6, LiveAtStep DEF Defines
  <2> QED BY <2>2, <2>3 DEF Current
<1>7. ASSUME NEW v PROVE JustDropped(v)' <=> x = Op("drop", v)
  <2>1. pc'.i - 1 = i
    BY <1>1, <1>3
  <2> QED BY <1>3, <1>5, <2>1 DEF JustDropped, Op
<1>8. ASSUME NEW v \in Local, AfterSite(v) PROVE AfterSite(v)'
  <2>1. PICK c \in Blocks : \E j \in Index(c), R \in SUBSET Blocks :
          Site(c, j, v) /\ Quiet(c, j, v, R) /\ ((b = c /\ j < i) \/ b \in R)
    BY <1>8 DEF AfterSite
  <2>2. PICK j \in Index(c), R \in SUBSET Blocks :
          Site(c, j, v) /\ Quiet(c, j, v, R) /\ ((b = c /\ j < i) \/ b \in R)
    BY <2>1
  <2>3. j \in Nat
    BY <1>1, <2>1, InsideLocal
  <2>4. (pc'.b = c /\ j < pc'.i) \/ pc'.b \in R
    BY <1>1, <1>3, <2>2, <2>3
  <2> QED BY <1>5, <2>2, <2>4 DEF AfterSite
<1>9. ASSUME NEW v \in Local PROVE OnEdge(v)' <=> OnEdge(v)
  BY <1>4, <1>5 DEF OnEdge, EdgeShared, Preds
<1>10. OneSite' <=> OneSite
  BY <1>5 DEF OneSite, TwoSites
<1>11. phase' = "run"
  BY <1>4 DEF Running
<1> QED BY <1>3, <1>5, <1>6, <1>7, <1>8, <1>9, <1>10, <1>11

\* After the site that shared a value nothing writes it.
LEMMA SharedUnwritten ==
  ASSUME RunInv, Running, pc.i \in Index(pc.b), NEW v, AfterSite(v)
  PROVE  ~MayWrite(InstsOf(pc.b)[pc.i], v)
  BY DEF AfterSite, Quiet

\* What a move or a spawn takes is no longer its owner's.
LEMMA TakenIsNotCurrent ==
  ASSUME RunInv, Running, OneSite, pc.i \in Index(pc.b), Onward, NEW x, x = InstsOf(pc.b)[pc.i],
         Transfers(x) \/ (x.op = "run" /\ x.src \in spawnMoves)
  PROVE  ~Current(x.src)'
<1> DEFINE b == pc.b
           i == pc.i
           v == x.src
<1>1. Shape /\ b \in Blocks /\ Formed(x) /\ phase = "run" /\ Built
  BY StepFacts DEF Running, RunInv, BodyInv
<1>2. v \in moveSrc /\ ~NeededAfter(b, i, v)
  <2>1. CASE Transfers(x)
    BY <1>1, <2>1 DEF RunInv, BodyInv, CopiesMove, Decided, Placed
  <2>2. CASE x.op = "run" /\ v \in spawnMoves
    <3>1. v \in moveSrc /\ v \in Owned /\ \E c \in Blocks : \E j \in Index(c) : DeadSite(c, j, v)
      BY <1>1, <2>2 DEF RunInv, BodyInv, SpawnsShare, Decided, Placed
    <3>2. Site(b, i, v)
      BY <1>1, <2>2, <3>1 DEF Site, Formed
    <3>3. PICK c \in Blocks : \E j \in Index(c) : DeadSite(c, j, v)
      BY <3>1
    <3>4. PICK j \in Index(c) : DeadSite(c, j, v)
      BY <3>3
    <3>5. v \in Local
      BY <2>2 DEF RunInv, DecisionsOK
    <3>6. <<b, i>> = <<c, j>>
      BY <1>1, <3>2, <3>3, <3>4, <3>5 DEF OneSite, TwoSites, DeadSite
    <3> QED BY <3>1, <3>4, <3>6 DEF DeadSite
  <2> QED BY <2>1, <2>2
<1>3. v \notin LiveAt(b, i + 1)
  BY <1>1, <1>2, NotNeeded
<1>4. (\A c, k : LiveAt(c, k)' = LiveAt(c, k)) /\ moveSrc' = moveSrc
  <2>1. UNCHANGED <<blocks, liveIn, liveOut, moveSrc>>
    BY DEF Onward, lowering, analysis
  <2> QED BY <2>1, SameBody DEF LiveAt, Names, Defines
<1>5. pc'.b = b /\ pc'.i = i + 1
  BY OnwardFacts
<1> QED BY <1>2, <1>3, <1>4, <1>5 DEF Current

-----------------------------------------------------------------------------
RefsOf(n) == {k \in DOMAIN tasks : tasks[k].buf = n}

LEMMA RefsFinite ==
  ASSUME HeapOK, NEW n
  PROVE  IsFiniteSet(RefsOf(n)) /\ TaskRefs(n) = Cardinality(RefsOf(n)) /\ TaskRefs(n) \in Nat
<1>1. IsFiniteSet(1..Len(tasks)) /\ RefsOf(n) \in SUBSET (1..Len(tasks))
  BY TaskFacts, FS_Interval DEF RefsOf
<1>2. IsFiniteSet(RefsOf(n))
  BY <1>1, FS_Subset
<1> QED BY <1>2, FS_CardinalityType DEF TaskRefs, RefsOf

\* A buffer has no references exactly when no task holds it.
LEMMA NoRefs ==
  ASSUME HeapOK, NEW n
  PROVE  TaskRefs(n) = 0 <=> \A k \in DOMAIN tasks : tasks[k].buf # n
<1>1. TaskRefs(n) = 0 <=> RefsOf(n) = {}
  BY RefsFinite, FS_EmptySet
<1> QED BY <1>1 DEF RefsOf

LEMMA SameRefs ==
  ASSUME DOMAIN tasks' = DOMAIN tasks, \A k \in DOMAIN tasks : tasks'[k].buf = tasks[k].buf
  PROVE  \A n : TaskRefs(n)' = TaskRefs(n)
<1> SUFFICES ASSUME NEW n PROVE TaskRefs(n)' = TaskRefs(n)
  OBVIOUS
<1>1. {k \in DOMAIN tasks' : tasks'[k].buf = n} = {k \in DOMAIN tasks : tasks[k].buf = n}
  OBVIOUS
<1> QED BY <1>1 DEF TaskRefs

\* A new task has one more reference to its buffer.
LEMMA AppendRefs ==
  ASSUME HeapOK, NEW t \in Task, tasks' = Append(tasks, t)
  PROVE  /\ \A n : TaskRefs(n)' = TaskRefs(n) + IF n = t.buf THEN 1 ELSE 0
         /\ DOMAIN tasks' = DOMAIN tasks \cup {Len(tasks) + 1}
         /\ \A k \in DOMAIN tasks : tasks'[k] = tasks[k]
         /\ tasks'[Len(tasks) + 1] = t
<1> DEFINE m == Len(tasks)
<1>1. m \in Nat /\ DOMAIN tasks = 1..m /\ tasks \in Seq(Task)
  BY TaskFacts DEF HeapOK
<1>2. /\ tasks' \in Seq(Task) /\ Len(tasks') = m + 1
      /\ \A k \in 1..m : tasks'[k] = tasks[k]
      /\ tasks'[m + 1] = t
  BY <1>1, AppendProperties
<1>3. DOMAIN tasks' = 1..m + 1
  BY <1>2, LenProperties
<1>4. DOMAIN tasks' = DOMAIN tasks \cup {m + 1}
  BY <1>1, <1>3
<1> HIDE DEF m
<1>5. ASSUME NEW n PROVE TaskRefs(n)' = TaskRefs(n) + IF n = t.buf THEN 1 ELSE 0
  <2> DEFINE A == RefsOf(n)
             B == {k \in DOMAIN tasks' : tasks'[k].buf = n}
  <2>1. IsFiniteSet(A) /\ TaskRefs(n) = Cardinality(A) /\ TaskRefs(n) \in Nat
    BY RefsFinite
  <2>2. TaskRefs(n)' = Cardinality(B)
    BY DEF TaskRefs
  <2>3. m + 1 \notin A
    BY <1>1 DEF RefsOf
  <2>4. CASE n = t.buf
    <3>1. B = A \cup {m + 1}
      BY <1>1, <1>2, <1>4, <2>4 DEF RefsOf
    <3> HIDE DEF A, B
    <3>2. Cardinality(A \cup {m + 1}) = Cardinality(A) + 1
      BY <2>1, <2>3, FS_AddElement
    <3> QED BY <2>1, <2>2, <2>4, <3>1, <3>2
  <2>5. CASE n # t.buf
    <3>1. B = A
      BY <1>1, <1>2, <1>4, <2>5 DEF RefsOf
    <3> HIDE DEF A, B
    <3> QED BY <2>1, <2>2, <2>5, <3>1
  <2> QED BY <2>4, <2>5
<1> QED BY <1>1, <1>2, <1>4, <1>5 DEF m

\* A task that has run no longer has its reference; the others keep theirs.
LEMMA WithoutRefs ==
  ASSUME HeapOK, NEW i \in DOMAIN tasks, tasks' = Without(tasks, i)
  PROVE  /\ \A n : TaskRefs(n)' = TaskRefs(n) - IF n = tasks[i].buf THEN 1 ELSE 0
         /\ \A k \in DOMAIN tasks' : \E j \in DOMAIN tasks : tasks'[k] = tasks[j]
<1> DEFINE m == Len(tasks)
           p == SubSeq(tasks, 1, i - 1)
           q == SubSeq(tasks, i + 1, m)
<1>1. m \in Nat /\ DOMAIN tasks = 1..m /\ tasks \in Seq(Task) /\ i \in 1..m
      /\ \A j \in 1..m : tasks[j] \in Task
  BY TaskFacts DEF HeapOK
<1> HIDE DEF m
<1>2. p \in Seq(Task) /\ Len(p) = i - 1 /\ \A j \in 1..i - 1 : p[j] = tasks[j]
  <2>1. 1 \in Int /\ i - 1 \in Int /\ \A j \in 1..i - 1 : tasks[j] \in Task
    BY <1>1
  <2>2. /\ p \in Seq(Task) /\ Len(p) = IF 1 <= i - 1 THEN (i - 1) - 1 + 1 ELSE 0
        /\ \A j \in 1..(i - 1) - 1 + 1 : p[j] = tasks[1 + j - 1]
    BY <2>1, SubSeqProperties
  <2>3. \A j \in 1..i - 1 : j \in 1..(i - 1) - 1 + 1 /\ 1 + j - 1 = j
    BY <1>1
  <2>4. \A j \in 1..i - 1 : p[j] = tasks[j]
    BY <2>2, <2>3
  <2> QED BY <1>1, <2>2, <2>4
<1>3. q \in Seq(Task) /\ Len(q) = m - i /\ \A j \in 1..m - i : q[j] = tasks[i + j]
  <2>1. i + 1 \in Int /\ m \in Int /\ \A j \in i + 1..m : tasks[j] \in Task
    BY <1>1
  <2>2. /\ q \in Seq(Task) /\ Len(q) = IF i + 1 <= m THEN m - (i + 1) + 1 ELSE 0
        /\ \A j \in 1..m - (i + 1) + 1 : q[j] = tasks[(i + 1) + j - 1]
    BY <2>1, SubSeqProperties
  <2>3. \A j \in 1..m - i : j \in 1..m - (i + 1) + 1 /\ (i + 1) + j - 1 = i + j
    BY <1>1
  <2>4. \A j \in 1..m - i : q[j] = tasks[i + j]
    BY <2>2, <2>3
  <2> QED BY <1>1, <2>2, <2>4
<1>4. /\ tasks' \in Seq(Task) /\ Len(tasks') = m - 1
      /\ \A j \in 1..m - 1 : tasks'[j] = IF j < i THEN tasks[j] ELSE tasks[j + 1]
  <2>1. tasks' = p \o q
    BY DEF Without, m
  <2> HIDE DEF p, q
  <2>2. /\ p \o q \in Seq(Task) /\ Len(p \o q) = Len(p) + Len(q)
        /\ \A j \in 1..Len(p) + Len(q) : (p \o q)[j] = IF j <= Len(p) THEN p[j] ELSE q[j - Len(p)]
    BY <1>2, <1>3, ConcatProperties
  <2>3. Len(p) + Len(q) = m - 1
    BY <1>1, <1>2, <1>3
  <2>4. ASSUME NEW j \in 1..m - 1 PROVE (p \o q)[j] = IF j < i THEN tasks[j] ELSE tasks[j + 1]
    <3>1. CASE j < i
      <4>1. j <= Len(p) /\ j \in 1..i - 1
        BY <1>1, <1>2, <3>1
      <4> QED BY <1>2, <2>2, <2>3, <3>1, <4>1
    <3>2. CASE ~(j < i)
      <4>1. ~(j <= Len(p)) /\ j - Len(p) \in 1..m - i /\ i + (j - Len(p)) = j + 1
        BY <1>1, <1>2, <3>2
      <4> QED BY <1>3, <2>2, <2>3, <3>2, <4>1
    <3> QED BY <3>1, <3>2
  <2> QED BY <2>1, <2>2, <2>3, <2>4
<1>5. DOMAIN tasks' = 1..m - 1
  BY <1>4, LenProperties
<1>6. ASSUME NEW n PROVE TaskRefs(n)' = TaskRefs(n) - IF n = tasks[i].buf THEN 1 ELSE 0
  <2> DEFINE A == RefsOf(n)
             B == {k \in DOMAIN tasks' : tasks'[k].buf = n}
             g == [k \in B |-> IF k < i THEN k ELSE k + 1]
  <2>1. IsFiniteSet(A) /\ TaskRefs(n) = Cardinality(A) /\ TaskRefs(n) \in Nat
    BY RefsFinite
  <2>2. TaskRefs(n)' = Cardinality(B)
    BY DEF TaskRefs
  <2>3. \A k \in B : k \in 1..m - 1 /\ g[k] = (IF k < i THEN k ELSE k + 1) /\ g[k] \in A \ {i}
    BY <1>1, <1>4, <1>5 DEF RefsOf
  <2>4. g \in [B -> A \ {i}]
    BY <2>3
  <2>5. \A k, l \in B : g[k] = g[l] => k = l
    <3> SUFFICES ASSUME NEW k \in B, NEW l \in B, g[k] = g[l] PROVE k = l
      OBVIOUS
    <3>1. k \in 1..m - 1 /\ l \in 1..m - 1
      BY <2>3
    <3>2. k \in Nat /\ l \in Nat /\ i \in Nat
      BY <1>1, <3>1
    <3>3. g[k] = (IF k < i THEN k ELSE k + 1) /\ g[l] = (IF l < i THEN l ELSE l + 1)
      BY <2>3
    <3> HIDE DEF g
    <3>4. (IF k < i THEN k ELSE k + 1) = (IF l < i THEN l ELSE l + 1)
      BY <3>3
    <3>5. CASE k < i
      BY <3>2, <3>4, <3>5
    <3>6. CASE ~(k < i)
      BY <3>2, <3>4, <3>6
    <3> QED BY <3>5, <3>6
  <2>6. ASSUME NEW j \in A \ {i} PROVE \E k \in B : g[k] = j
    <3>1. j \in 1..m /\ j # i /\ tasks[j].buf = n
      BY <1>1 DEF RefsOf
    <3> DEFINE k == IF j < i THEN j ELSE j - 1
    <3>2. k \in 1..m - 1 /\ (IF k < i THEN k ELSE k + 1) = j
      BY <1>1, <3>1
    <3>3. tasks'[k] = tasks[j]
      BY <1>1, <1>4, <3>1, <3>2
    <3>4. k \in B
      BY <1>5, <3>1, <3>2, <3>3
    <3> HIDE DEF k
    <3> QED BY <2>3, <3>2, <3>4
  <2>7. g \in Bijection(B, A \ {i})
    <3> HIDE DEF A, B, g
    <3> QED BY <2>4, <2>5, <2>6 DEF Bijection, Injection, Surjection, IsInjective
  <2>8. IsFiniteSet(A \ {i}) /\ Cardinality(A \ {i}) = Cardinality(A) - IF i \in A THEN 1 ELSE 0
    <3> HIDE DEF A
    <3>1. i \in A => IsFiniteSet(A \ {i}) /\ Cardinality(A \ {i}) = Cardinality(A) - 1
      BY <2>1, FS_RemoveElement
    <3>2. i \notin A => A \ {i} = A
      OBVIOUS
    <3> QED BY <2>1, <3>1, <3>2
  <2>9. Cardinality(B) = Cardinality(A \ {i})
    <3>1. ExistsBijection(B, A \ {i})
      <4> HIDE DEF A, B, g
      <4> QED BY <2>7 DEF ExistsBijection
    <3>2. IsFiniteSet(B)
      <4>1. m - 1 \in Int /\ 1 \in Int
        BY <1>1
      <4>2. IsFiniteSet(1..m - 1)
        BY <4>1, FS_Interval
      <4>3. B \in SUBSET (1..m - 1)
        BY <1>5
      <4> HIDE DEF B
      <4> QED BY <4>2, <4>3, FS_Subset
    <3> HIDE DEF A, B, g
    <3> QED BY <3>1, <3>2, FS_Bijection
  <2>10. i \in A <=> n = tasks[i].buf
    BY DEF RefsOf
  <2> HIDE DEF A, B
  <2> QED BY <2>1, <2>2, <2>8, <2>9, <2>10
<1>7. ASSUME NEW k \in DOMAIN tasks' PROVE \E j \in DOMAIN tasks : tasks'[k] = tasks[j]
  BY <1>1, <1>4, <1>5
<1> QED BY <1>6, <1>7

\* Writing a slot frees at most a buffer nothing holds.
LEMMA OverwriteFacts ==
  ASSUME HeapOK, NEW w \in Local, NEW n \in Buf \cup {0}, NEW c, Overwrite(w, n, c)
  PROVE  /\ slot'[w] = n /\ \A v \in Local : v # w => slot'[v] = slot[v]
         /\ n \in Buf => rc'[n] = c
         /\ \A m \in Buf : m # n => \/ rc'[m] = rc[m]
                                    \/ m \notin Held(slot', tasks)
         /\ gone' = gone \ {w} /\ tasks' = tasks /\ fault' = fault
  BY DEF Overwrite, HeapOK

-----------------------------------------------------------------------------
OwnOK == OwnersCounted /\ OwnersApart /\ OwnersShare /\ TasksCounted /\ TasksFresh

LEMMA OwnFacts ==
  ASSUME RunInv, Running, OneSite
  PROVE  OwnOK /\ HeapOK /\ OwnersApart
  BY DEF RunInv, OwnInv, OwnOK, Running

\* An owner's buffer is counted once more than the tasks that share it: it is not free.
LEMMA OwnerAlive ==
  ASSUME RunInv, Running, OneSite, NEW v \in Local, Owner(v)
  PROVE  /\ slot[v] \in Buf /\ rc[slot[v]] \in Nat /\ TaskRefs(slot[v]) \in Nat
         /\ rc[slot[v]] >= 1 + TaskRefs(slot[v]) /\ ~Freed(slot[v])
<1>1. HeapOK /\ slot[v] \in Buf /\ rc[slot[v]] \in Nat
  BY OwnFacts DEF HeapOK, Owner
<1>2. TaskRefs(slot[v]) \in Nat
  BY <1>1, RefsFinite
<1>3. rc[slot[v]] >= 1 + TaskRefs(slot[v])
  BY OwnFacts DEF OwnOK, OwnersCounted
<1>4. ~Freed(slot[v])
  BY <1>1, <1>2, <1>3 DEF Freed
<1> QED BY <1>1, <1>2, <1>3, <1>4

\* So is what an instruction names.
LEMMA NamedAlive ==
  ASSUME RunInv, Running, OneSite, pc.i \in Index(pc.b), NEW x, x = InstsOf(pc.b)[pc.i],
         x.src # NoVal
  PROVE  ~Freed(slot[x.src]) /\ (slot[x.src] # 0 => Owner(x.src))
<1>1. x.src \in Local /\ (slot[x.src] # 0 => Owner(x.src))
  BY StepFacts DEF Owner
<1>2. slot[x.src] = 0 => ~Freed(slot[x.src])
  BY DEF Freed
<1> QED BY <1>1, <1>2, OwnerAlive

\* A slot is overwritten with a buffer that no other owner and no task has.
LEMMA OverwriteOwns ==
  ASSUME RunInv, Running, OneSite, pc.i \in Index(pc.b), Onward, NEW x, x = InstsOf(pc.b)[pc.i],
         x.op \in {"new", "clone", "move"}, HeapOK',
         NEW n \in Buf \cup {0}, NEW c \in Nat, Overwrite(Target(x), n, c),
         n # 0 => /\ c >= 1
                  /\ \A u \in Local : u # Target(x) /\ Current(u)' => slot[u] # n
                  /\ \A k \in DOMAIN tasks : tasks[k].buf # n
  PROVE  OwnOK'
<1> DEFINE w == Target(x)
<1>1. x \in GoodInst /\ HeapOK /\ OwnOK /\ Onward
  BY StepFacts, OwnFacts
<1>2. w \in Local
  BY <1>1, LocalAssumption DEF Target, GoodInst, Inst
<1>3. /\ slot'[w] = n /\ \A v \in Local : v # w => slot'[v] = slot[v]
      /\ n \in Buf => rc'[n] = c
      /\ \A m \in Buf : m # n => rc'[m] = rc[m] \/ m \notin Held(slot', tasks)
      /\ gone' = gone \ {w} /\ tasks' = tasks
  BY <1>1, <1>2, OverwriteFacts
<1>4. (\A m : TaskRefs(m)' = TaskRefs(m)) /\ (n # 0 => TaskRefs(n) = 0)
  BY <1>1, <1>3, SameRefs, NoRefs
<1>5. ASSUME NEW v \in Local, v # w, Current(v)' PROVE Current(v)
  BY <1>5, OnwardFacts, LocalAssumption DEF Target
<1>6. OwnersCounted'
  <2> SUFFICES ASSUME NEW v \in Local, Owner(v)' PROVE rc'[slot'[v]] >= 1 + TaskRefs(slot[v])'
    BY DEF OwnersCounted
  <2>1. Current(v)' /\ v \notin gone' /\ slot'[v] # 0
    BY DEF Owner
  <2>2. CASE v = w
    BY <1>3, <1>4, <2>1, <2>2
  <2>3. CASE v # w
    <3>1. slot'[v] = slot[v] /\ Current(v) /\ v \notin gone
      BY <1>3, <1>5, <2>1, <2>3
    <3>2. ~JustDropped(v)
      BY <2>3, StepFacts, LocalAssumption DEF Refills, Target
    <3>3. Owner(v)
      BY <2>1, <3>1, <3>2 DEF Owner
    <3>4. rc[slot[v]] >= 1 + TaskRefs(slot[v]) /\ slot[v] \in Buf
      BY <3>3, OwnerAlive
    <3>5. slot[v] # n
      BY <2>1, <2>3, <3>1
    <3>6. slot[v] \in Held(slot', tasks)
      BY <3>1 DEF Held
    <3>7. rc'[slot[v]] = rc[slot[v]]
      BY <1>3, <3>4, <3>5, <3>6
    <3> QED BY <1>4, <3>1, <3>4, <3>7
  <2> QED BY <2>2, <2>3
<1>7. OwnersApart'
  <2> SUFFICES ASSUME NEW u \in Local, NEW v \in Local,
                      Current(u)', Current(v)', slot'[u] = slot'[v], slot'[u] # 0
               PROVE  u = v
    BY DEF OwnersApart
  <2>1. CASE u # w /\ v # w
    BY <1>1, <1>3, <1>5, <2>1 DEF OwnOK, OwnersApart
  <2>2. CASE u = w \/ v = w
    BY <1>3, <2>2
  <2> QED BY <2>1, <2>2
<1>8. OwnersShare'
  <2> SUFFICES ASSUME NEW v \in Local, NEW k \in DOMAIN tasks, Current(v)',
                      slot'[v] # 0, slot'[v] = tasks[k].buf
               PROVE  tasks[k].arg = v /\ AfterSite(v)'
    BY <1>3 DEF OwnersShare
  <2>1. v # w
    BY <1>3
  <2>2. tasks[k].arg = v /\ AfterSite(v)
    BY <1>1, <1>3, <1>5, <2>1 DEF OwnOK, OwnersShare
  <2> QED BY <2>2, OnwardFacts
<1>9. TasksCounted'
  <2> SUFFICES ASSUME NEW m \in Buf
               PROVE  \/ rc'[m] >= TaskRefs(m)'
                      \/ \A k \in DOMAIN tasks : tasks[k].buf = m => OnEdge(tasks[k].arg)'
    BY <1>3 DEF TasksCounted, Buf
  <2>1. \A k \in DOMAIN tasks : OnEdge(tasks[k].arg)' <=> OnEdge(tasks[k].arg)
    <3>1. \A k \in DOMAIN tasks : tasks[k].arg \in Local
      BY <1>1, TaskFacts DEF Task
    <3> QED BY <1>3, <3>1, OnwardFacts
  <2>2. rc'[m] \in Nat
    BY DEF HeapOK, Buf
  <2>3. CASE m = n \/ m \notin Held(slot', tasks)
    <3>1. \A k \in DOMAIN tasks : tasks[k].buf # m
      BY <2>3 DEF Held, Buf
    <3>2. TaskRefs(m) = 0
      BY <1>1, <3>1, NoRefs
    <3> QED BY <1>4, <2>2, <3>2
  <2>4. CASE m # n /\ rc'[m] = rc[m]
    BY <1>1, <1>4, <2>1, <2>4 DEF OwnOK, TasksCounted
  <2> QED BY <1>3, <2>3, <2>4
<1>10. TasksFresh'
  BY <1>1, <1>3 DEF OwnOK, TasksFresh
<1> QED BY <1>6, <1>7, <1>8, <1>9, <1>10 DEF OwnOK

\* A new value, or a copy of one: a buffer of its own, or the one its owner gives up.
LEMMA DefineOwns ==
  ASSUME RunInv, Running, OneSite, pc.i \in Index(pc.b), Onward, NEW x, x = InstsOf(pc.b)[pc.i],
         x.op \in {"new", "clone", "move"}, Define(x, Target(x)), HeapOK'
  PROVE  OwnOK' /\ fault' = NoFault
<1>1. x \in GoodInst /\ HeapOK /\ OwnOK /\ fault = NoFault
  BY StepFacts, OwnFacts DEF Running
<1>2. x.src # NoVal => ~Freed(slot[x.src])
  BY NamedAlive
<1>3. Fresh \in Buf /\ Fresh \notin Held(slot, tasks)
  BY <1>1, FreshExists
<1>4. CASE Overwrite(Target(x), Fresh, 1)
  <2>1. (\A u \in Local : slot[u] # Fresh) /\ \A k \in DOMAIN tasks : tasks[k].buf # Fresh
    BY <1>3 DEF Held
  <2>2. OwnOK'
    BY <1>3, <1>4, <2>1, OverwriteOwns
  <2> QED BY <1>1, <1>4, <2>2 DEF Overwrite
<1>5. CASE /\ Transfers(x)
           /\ Overwrite(Target(x), slot[x.src], IF slot[x.src] = 0 THEN 0 ELSE rc[slot[x.src]])
  <2> DEFINE v == x.src
             n == slot[v]
             c == IF n = 0 THEN 0 ELSE rc[n]
  <2>1. v # NoVal /\ v \in Local /\ Current(v)
    BY <1>5, StepFacts DEF Transfers
  <2>2. n \in Buf \cup {0} /\ c \in Nat
    BY <1>1, <2>1 DEF HeapOK
  <2>3. ASSUME n # 0, NEW u \in Local, u # Target(x), Current(u)' PROVE slot[u] # n
    <3>1. Current(u)
      BY <2>3, OnwardFacts, LocalAssumption DEF Target
    <3>2. slot[u] = n => u = v
      BY <1>1, <2>1, <2>3, <3>1 DEF OwnOK, OwnersApart
    <3>3. ~Current(v)'
      BY <1>5, TakenIsNotCurrent
    <3> QED BY <2>3, <3>2, <3>3
  <2>4. ASSUME n # 0, NEW k \in DOMAIN tasks PROVE tasks[k].buf # n
    <3> SUFFICES ASSUME tasks[k].buf = n PROVE FALSE
      OBVIOUS
    <3>1. AfterSite(v)
      BY <1>1, <2>1, <2>4 DEF OwnOK, OwnersShare
    <3>2. ~MayWrite(x, v)
      BY <3>1, SharedUnwritten
    <3> QED BY <1>5, <2>1, <3>2 DEF MayWrite, Transfers, Args
  <2>5. n # 0 => c >= 1
    <3>1. n # 0 => rc[n] \in Nat /\ TaskRefs(n) \in Nat /\ rc[n] >= 1 + TaskRefs(n)
      BY <2>1, NamedAlive, OwnerAlive
    <3> QED BY <3>1
  <2>6. OwnOK'
    <3> HIDE DEF c
    <3>1. Overwrite(Target(x), n, c)
      BY <1>5 DEF c
    <3> QED BY <2>2, <2>3, <2>4, <2>5, <3>1, OverwriteOwns
  <2> QED BY <1>1, <1>5, <2>6 DEF Overwrite
<1> QED BY <1>2, <1>4, <1>5 DEF Define

\* An instruction that leaves slots and tasks alone owns what was owned.
LEMMA StillOwner ==
  ASSUME RunInv, Running, pc.i \in Index(pc.b), Onward, NEW x, x = InstsOf(pc.b)[pc.i],
         x.op \in {"read", "write", "drop", "run"}, UNCHANGED <<slot, gone>>
  PROVE  /\ x.src \in Local /\ x = Op(x.op, x.src)
         /\ \A v \in Local : Current(v)' => Current(v)
         /\ \A v \in Local : Owner(v)' => Owner(v) /\ x # Op("drop", v)
<1>1. x \in GoodInst /\ Formed(x)
  BY StepFacts
<1>2. x.src \in Local /\ x = Op(x.op, x.src)
  BY <1>1 DEF GoodInst, Formed
<1>3. x.dst = NoVal
  BY <1>2 DEF Op
<1>4. ASSUME NEW v \in Local, Current(v)' PROVE Current(v)
  BY <1>3, <1>4, OnwardFacts, LocalAssumption
<1>5. ASSUME NEW v \in Local, Owner(v)' PROVE Owner(v) /\ x # Op("drop", v)
  <2>1. Current(v)' /\ v \notin gone /\ ~JustDropped(v)' /\ slot[v] # 0
    BY <1>5 DEF Owner
  <2>2. ~JustDropped(v) /\ x # Op("drop", v)
    BY <2>1, StepFacts, OnwardFacts
  <2> QED BY <1>4, <2>1, <2>2 DEF Owner
<1> QED BY <1>2, <1>4, <1>5

LEMMA ReadOwns ==
  ASSUME RunInv, Running, OneSite, pc.i \in Index(pc.b), Onward, NEW x, x = InstsOf(pc.b)[pc.i],
         x.op \in {"read", "write", "drop", "run"}, UNCHANGED <<slot, rc, tasks, gone>>
  PROVE  OwnOK'
<1>1. OwnOK /\ HeapOK
  BY OwnFacts
<1>2. /\ \A v \in Local : Current(v)' => Current(v)
      /\ \A v \in Local : Owner(v)' => Owner(v)
      /\ \A v \in Local : AfterSite(v) => AfterSite(v)'
      /\ \A v \in Local : OnEdge(v)' <=> OnEdge(v)
      /\ \A n : TaskRefs(n)' = TaskRefs(n)
  BY StillOwner, OnwardFacts, SameRefs
<1>3. OwnersCounted'
  BY <1>1, <1>2 DEF OwnOK, OwnersCounted
<1>4. OwnersApart'
  BY <1>1, <1>2 DEF OwnOK, OwnersApart
<1>5. OwnersShare'
  BY <1>1, <1>2 DEF OwnOK, OwnersShare
<1>6. TasksCounted'
  <2>1. \A k \in DOMAIN tasks : tasks[k].arg \in Local
    BY <1>1, TaskFacts DEF Task
  <2> QED BY <1>1, <1>2, <2>1 DEF OwnOK, TasksCounted, Buf
<1>7. TasksFresh'
  BY <1>1 DEF OwnOK, TasksFresh
<1> QED BY <1>3, <1>4, <1>5, <1>6, <1>7 DEF OwnOK

\* A write in place is not seen by a task: after the site that shared the buffer there
\* is none.
LEMMA WriteOwns ==
  ASSUME RunInv, Running, OneSite, pc.i \in Index(pc.b), Onward, NEW x, x = InstsOf(pc.b)[pc.i],
         x.op = "write", WriteThrough(x.src)
  PROVE  OwnOK' /\ fault' = NoFault
<1> DEFINE v == x.src
<1>1. x.src \in Local /\ x = Op("write", v) /\ x.src # NoVal
  BY StepFacts, LocalAssumption DEF GoodInst, Formed
<1>2. ~Freed(slot[v]) /\ Current(v) /\ fault = NoFault /\ OwnOK /\ HeapOK
  BY <1>1, NamedAlive, StepFacts, OwnFacts DEF Running
<1>3. ASSUME NEW k \in DOMAIN tasks, slot[v] # 0, tasks[k].buf = slot[v] PROVE FALSE
  <2>1. AfterSite(v)
    BY <1>1, <1>2, <1>3 DEF OwnOK, OwnersShare
  <2>2. ~MayWrite(x, v)
    BY <2>1, SharedUnwritten
  <2> QED BY <1>1, <2>2 DEF MayWrite, Args
<1>4. /\ tasks' = [i \in DOMAIN tasks |->
                      IF slot[v] # 0 /\ tasks[i].buf = slot[v] THEN [tasks[i] EXCEPT !.stale = TRUE]
                                                               ELSE tasks[i]]
      /\ UNCHANGED <<slot, rc, gone, fault>>
  BY <1>2 DEF WriteThrough
<1>5. tasks' = [i \in DOMAIN tasks |-> tasks[i]]
  BY <1>3, <1>4
<1>6. tasks = [i \in DOMAIN tasks |-> tasks[i]]
  <2>1. Len(tasks) \in Nat /\ DOMAIN tasks = 1..Len(tasks) /\ tasks \in Seq(Task)
    BY <1>2, TaskFacts DEF HeapOK
  <2> QED BY <2>1
<1>7. tasks' = tasks
  BY <1>5, <1>6
<1> QED BY <1>2, <1>4, <1>7, ReadOwns

\* A drop gives up the reference of the owner, who is not one any more.
LEMMA DropOwns ==
  ASSUME RunInv, Running, OneSite, pc.i \in Index(pc.b), Onward, NEW x, x = InstsOf(pc.b)[pc.i],
         x.op = "drop", Drop(x.src), HeapOK'
  PROVE  OwnOK' /\ fault' = NoFault
<1> DEFINE v == x.src
           n == slot[v]
<1>1. x.src \in Local /\ x = Op("drop", v) /\ x.src # NoVal
  BY StepFacts, LocalAssumption DEF GoodInst, Formed
<1>2. ~Freed(n) /\ (n # 0 => Owner(v)) /\ Current(v) /\ fault = NoFault /\ OwnOK /\ HeapOK
  BY <1>1, NamedAlive, StepFacts, OwnFacts DEF Running
<1>3. /\ rc' = IF n = 0 THEN rc ELSE [rc EXCEPT ![n] = rc[n] - 1]
      /\ UNCHANGED <<slot, tasks, gone, fault>>
  BY <1>2 DEF Drop
<1>4. CASE n = 0
  BY <1>2, <1>3, <1>4, ReadOwns
<1>5. CASE n # 0
  <2>1. n \in Buf /\ rc[n] \in Nat /\ TaskRefs(n) \in Nat /\ rc[n] >= 1 + TaskRefs(n)
    BY <1>1, <1>2, <1>5, OwnerAlive
  <2>2. rc' = [rc EXCEPT ![n] = rc[n] - 1] /\ rc \in [Buf -> Nat]
    BY <1>2, <1>3, <1>5 DEF HeapOK
  <2>3. rc'[n] = rc[n] - 1 /\ \A m \in Buf : m # n => rc'[m] = rc[m]
    <3> HIDE DEF n
    <3> QED BY <2>1, <2>2
  <2>4. /\ \A u \in Local : Current(u)' => Current(u)
        /\ \A u \in Local : Owner(u)' => Owner(u) /\ u # v
        /\ \A u \in Local : AfterSite(u) => AfterSite(u)'
        /\ \A u \in Local : OnEdge(u)' <=> OnEdge(u)
        /\ \A m : TaskRefs(m)' = TaskRefs(m)
    BY <1>1, <1>3, StillOwner, OnwardFacts, SameRefs
  <2>5. OwnersCounted'
    <3> SUFFICES ASSUME NEW u \in Local, Owner(u)' PROVE rc'[slot[u]] >= 1 + TaskRefs(slot[u])
      BY <1>3, <2>4 DEF OwnersCounted
    <3>1. Owner(u) /\ u # v /\ Current(u)
      BY <2>4 DEF Owner
    <3>2. slot[u] # n
      BY <1>1, <1>2, <1>5, <3>1 DEF OwnOK, OwnersApart
    <3>3. rc[slot[u]] >= 1 + TaskRefs(slot[u]) /\ slot[u] \in Buf
      BY <3>1, OwnerAlive
    <3> QED BY <2>3, <2>4, <3>2, <3>3
  <2>6. OwnersApart'
    BY <1>2, <1>3, <2>4 DEF OwnOK, OwnersApart
  <2>7. OwnersShare'
    BY <1>2, <1>3, <2>4 DEF OwnOK, OwnersShare
  <2>8. TasksCounted'
    <3> SUFFICES ASSUME NEW m \in Buf
                 PROVE  \/ rc'[m] >= TaskRefs(m)'
                        \/ \A k \in DOMAIN tasks : tasks[k].buf = m => OnEdge(tasks[k].arg)'
      BY <1>3 DEF TasksCounted, Buf
    <3>1. \A k \in DOMAIN tasks : OnEdge(tasks[k].arg)' <=> OnEdge(tasks[k].arg)
      <4>1. \A k \in DOMAIN tasks : tasks[k].arg \in Local
        BY <1>2, TaskFacts DEF Task
      <4> QED BY <1>3, <2>4, <4>1
    <3>2. CASE m = n
      BY <2>1, <2>3, <2>4, <3>2
    <3>3. CASE m # n
      BY <1>2, <2>3, <2>4, <3>1, <3>3 DEF OwnOK, TasksCounted
    <3> QED BY <3>2, <3>3
  <2>9. TasksFresh'
    BY <1>2, <1>3 DEF OwnOK, TasksFresh
  <2> QED BY <1>2, <1>3, <2>5, <2>6, <2>7, <2>8, <2>9 DEF OwnOK
<1> QED BY <1>4, <1>5

\* The site that shares a value is the only one that spawns with it: it has now run.
LEMMA SharedHere ==
  ASSUME RunInv, Running, OneSite, pc.i \in Index(pc.b), Onward, NEW x, x = InstsOf(pc.b)[pc.i],
         x.op = "run", x.src \in spawnRetains
  PROVE  AfterSite(x.src)'
<1> DEFINE v == x.src
<1>1. v \in Local /\ x = Op("run", v) /\ Shape /\ pc.b \in Blocks /\ phase \in Decided
  BY StepFacts DEF GoodInst, Formed, Running, Decided, Placed
<1>2. v \in Owned /\ \E b \in Blocks : \E i \in Index(b), R \in SUBSET Blocks :
         Site(b, i, v) /\ NeededAfter(b, i, v) /\ Quiet(b, i, v, R)
  BY <1>1 DEF RunInv, BodyInv, SpawnsShare
<1>3. PICK b \in Blocks : \E i \in Index(b), R \in SUBSET Blocks :
         Site(b, i, v) /\ Quiet(b, i, v, R)
  BY <1>2
<1>4. PICK i \in Index(b), R \in SUBSET Blocks : Site(b, i, v) /\ Quiet(b, i, v, R)
  BY <1>3
<1>5. Site(pc.b, pc.i, v)
  BY <1>1, <1>2 DEF Site
<1>6. b = pc.b /\ i = pc.i
  <2>1. <<pc.b, pc.i>> = <<b, i>>
    BY <1>1, <1>3, <1>4, <1>5 DEF OneSite, TwoSites
  <2> QED BY <2>1
<1>7. i < pc'.i /\ pc'.b = b
  BY <1>6, StepFacts, OnwardFacts
<1>8. /\ Blocks' = Blocks /\ Index(b)' = Index(b)
      /\ Site(b, i, v)' /\ Quiet(b, i, v, R)'
  <2>1. UNCHANGED <<blocks, liveIn, liveOut>>
    BY DEF Onward, lowering, analysis
  <2>2. /\ \A c : Index(c)' = Index(c)
        /\ \A c, j, u : Site(c, j, u)' = Site(c, j, u)
        /\ \A c, j, u, S : Quiet(c, j, u, S)' = Quiet(c, j, u, S)
        /\ Blocks' = Blocks
    BY <2>1, SameBody
  <2>3. v' = v
    BY <2>1, <1>6, <1>7, OnwardFacts
  <2> QED BY <1>4, <2>2, <2>3
<1> QED BY <1>3, <1>4, <1>7, <1>8 DEF AfterSite

\* A new task has its argument, a buffer n whose count becomes c: what it shares with an
\* owner is counted once more, or the owner has given it up.
LEMMA AppendOwns ==
  ASSUME RunInv, Running, OneSite, pc.i \in Index(pc.b), Onward, NEW x, x = InstsOf(pc.b)[pc.i],
         x.op = "run", HeapOK', UNCHANGED <<slot, gone>>,
         NEW n \in Buf \cup {0}, tasks' = Append(tasks, [buf |-> n, arg |-> x.src, stale |-> FALSE]),
         \A m \in Buf : m # n => rc'[m] = rc[m],
         n # 0 => rc'[n] >= 1 + TaskRefs(n),
         \A u \in Local : Current(u)' /\ slot[u] = n /\ n # 0 =>
           u = x.src /\ AfterSite(u)' /\ (Owner(u) => rc'[n] >= 2 + TaskRefs(n))
  PROVE  OwnOK'
<1> DEFINE v == x.src
           t == [buf |-> n, arg |-> v, stale |-> FALSE]
           l == Len(tasks) + 1
<1>1. OwnOK /\ HeapOK /\ v \in Local
  BY OwnFacts, StillOwner
<1>2. /\ \A u \in Local : Current(u)' => Current(u)
      /\ \A u \in Local : Owner(u)' => Owner(u)
      /\ \A u \in Local : AfterSite(u) => AfterSite(u)'
      /\ \A u \in Local : OnEdge(u)' <=> OnEdge(u)
  BY StillOwner, OnwardFacts
<1>3. t \in Task
  BY <1>1 DEF Task
<1>4. t.buf = n /\ t.arg = v /\ t.stale = FALSE
  OBVIOUS
<1>5. /\ \A m : TaskRefs(m)' = TaskRefs(m) + IF m = n THEN 1 ELSE 0
      /\ DOMAIN tasks' = DOMAIN tasks \cup {l}
      /\ \A k \in DOMAIN tasks : tasks'[k] = tasks[k]
      /\ tasks'[l] = t
  <2> HIDE DEF t
  <2> QED BY <1>1, <1>3, <1>4, AppendRefs DEF t
<1> HIDE DEF t, l
<1>6. \A m : TaskRefs(m) \in Nat
  BY <1>1, RefsFinite
<1>7. OwnersCounted'
  <2> SUFFICES ASSUME NEW u \in Local, Owner(u)' PROVE rc'[slot[u]] >= 1 + TaskRefs(slot[u])'
    BY DEF OwnersCounted
  <2> DEFINE m == slot[u]
  <2>1. Owner(u) /\ Current(u)'
    BY <1>2 DEF Owner
  <2>2. rc[m] >= 1 + TaskRefs(m) /\ m \in Buf /\ m # 0
    BY <2>1, OwnerAlive DEF Buf
  <2>3. TaskRefs(slot[u])' = TaskRefs(m) + IF m = n THEN 1 ELSE 0
    BY <1>5
  <2>4. CASE m = n
    <3>1. rc'[m] >= 2 + TaskRefs(m)
      BY <2>1, <2>2, <2>4
    <3>2. rc'[m] \in Nat
      BY <2>2 DEF HeapOK, Buf
    <3> HIDE DEF m
    <3> QED BY <1>6, <2>3, <2>4, <3>1, <3>2 DEF m
  <2>5. CASE m # n
    BY <1>6, <2>2, <2>3, <2>5
  <2> QED BY <2>4, <2>5
<1>8. OwnersApart'
  BY <1>1, <1>2 DEF OwnOK, OwnersApart
<1>9. OwnersShare'
  <2> SUFFICES ASSUME NEW u \in Local, NEW k \in DOMAIN tasks', Current(u)',
                      slot[u] # 0, slot[u] = tasks'[k].buf
               PROVE  tasks'[k].arg = u /\ AfterSite(u)'
    BY DEF OwnersShare
  <2>1. CASE k \in DOMAIN tasks
    BY <1>1, <1>2, <1>5, <2>1 DEF OwnOK, OwnersShare
  <2>2. CASE k = l
    <3>1. tasks'[k] = t /\ slot[u] = n
      BY <1>4, <1>5, <2>2
    <3> QED BY <1>4, <3>1
  <2> QED BY <1>5, <2>1, <2>2
<1>10. TasksCounted'
  <2> SUFFICES ASSUME NEW m \in Buf
               PROVE  \/ rc'[m] >= TaskRefs(m)'
                      \/ \A k \in DOMAIN tasks' : tasks'[k].buf = m => OnEdge(tasks[k].arg)'
    BY DEF TasksCounted, Buf
  <2>1. CASE m = n
    <3>1. TaskRefs(m)' = TaskRefs(m) + 1 /\ rc'[m] >= 1 + TaskRefs(m)
      BY <1>5, <2>1 DEF Buf
    <3> QED BY <1>6, <3>1
  <2>2. CASE m # n /\ rc[m] >= TaskRefs(m)
    BY <1>5, <1>6, <2>2
  <2>3. CASE m # n /\ \A k \in DOMAIN tasks : tasks[k].buf = m => OnEdge(tasks[k].arg)
    <3> SUFFICES ASSUME NEW k \in DOMAIN tasks', tasks'[k].buf = m PROVE OnEdge(tasks[k].arg)'
      OBVIOUS
    <3>1. k \in DOMAIN tasks
      BY <1>4, <1>5, <2>3
    <3>2. tasks[k].arg \in Local /\ tasks'[k] = tasks[k] /\ OnEdge(tasks[k].arg)
      BY <1>1, <1>5, <2>3, <3>1, TaskFacts DEF Task
    <3> QED BY <1>2, <3>2
  <2> QED BY <1>1, <2>1, <2>2, <2>3 DEF OwnOK, TasksCounted
<1>11. TasksFresh'
  BY <1>1, <1>4, <1>5 DEF OwnOK, TasksFresh
<1> QED BY <1>7, <1>8, <1>9, <1>10, <1>11 DEF OwnOK

LEMMA StartOwns ==
  ASSUME RunInv, Running, OneSite, pc.i \in Index(pc.b), Onward, NEW x, x = InstsOf(pc.b)[pc.i],
         x.op = "run", Start(x.src), HeapOK'
  PROVE  OwnOK' /\ fault' = NoFault
<1> DEFINE v == x.src
           share == v \in spawnMoves \cup spawnRetains
           n == IF share THEN slot[v] ELSE Fresh
<1>1. v \in Local /\ v # NoVal
  BY StepFacts, LocalAssumption DEF GoodInst
<1>2. ~Freed(slot[v]) /\ (slot[v] # 0 => Owner(v)) /\ Current(v) /\ fault = NoFault /\ OwnOK /\ HeapOK
  BY <1>1, NamedAlive, StepFacts, OwnFacts DEF Running
<1>3. /\ tasks' = Append(tasks, [buf |-> n, arg |-> v, stale |-> FALSE])
      /\ rc' = IF ~share THEN [rc EXCEPT ![n] = 1]
               ELSE IF v \in spawnRetains /\ n # 0 THEN [rc EXCEPT ![n] = rc[n] + 1]
               ELSE rc
      /\ UNCHANGED <<slot, gone, fault>>
  BY <1>2 DEF Start
<1>4. Fresh \in Buf /\ Fresh \notin Held(slot, tasks) /\ rc \in [Buf -> Nat]
      /\ n \in Buf \cup {0}
  BY <1>1, <1>2, FreshExists DEF HeapOK
<1>5. CASE ~share
  <2>1. n = Fresh /\ rc' = [rc EXCEPT ![n] = 1]
    BY <1>3, <1>5
  <2> HIDE DEF n
  <2>2. rc'[n] = 1 /\ (\A m \in Buf : m # n => rc'[m] = rc[m]) /\ n \in Buf
    BY <1>4, <2>1
  <2>3. (\A u \in Local : slot[u] # n) /\ \A k \in DOMAIN tasks : tasks[k].buf # n
    BY <1>4, <2>1 DEF Held
  <2>4. TaskRefs(n) = 0
    BY <1>2, <2>3, NoRefs
  <2>5. rc'[n] >= 1 + TaskRefs(n)
    BY <2>2, <2>4
  <2>6. OwnOK'
    BY <1>3, <1>4, <2>2, <2>3, <2>5, AppendOwns
  <2> QED BY <1>2, <1>3, <2>6
<1>6. ASSUME share, n # 0
      PROVE  /\ n \in Buf /\ n = slot[v] /\ rc[n] \in Nat /\ TaskRefs(n) \in Nat
             /\ rc[n] >= 1 + TaskRefs(n)
             /\ \A u \in Local : Current(u)' /\ slot[u] = n => u = v
  <2>1. n = slot[v] /\ Owner(v)
    BY <1>2, <1>6
  <2> HIDE DEF n
  <2>2. \A u \in Local : Current(u)' => Current(u)
    BY <1>3, StillOwner
  <2>3. \A u \in Local : Current(u)' /\ slot[u] = n => u = v
    BY <1>1, <1>2, <1>6, <2>1, <2>2 DEF OwnOK, OwnersApart
  <2> QED BY <1>1, <2>1, <2>3, OwnerAlive
<1>7. CASE share /\ ~(v \in spawnRetains /\ n # 0)
  <2>1. rc' = rc /\ (n # 0 => v \in spawnMoves)
    BY <1>3, <1>7
  <2> HIDE DEF n
  <2>2. n # 0 => ~Current(v)'
    BY <2>1, TakenIsNotCurrent
  <2>3. OwnOK'
    BY <1>3, <1>4, <1>6, <1>7, <2>1, <2>2, AppendOwns
  <2> QED BY <1>2, <1>3, <2>3
<1>8. CASE share /\ v \in spawnRetains /\ n # 0
  <2>1. rc' = [rc EXCEPT ![n] = rc[n] + 1]
    BY <1>3, <1>8
  <2> HIDE DEF n, share
  <2>2. rc'[n] = rc[n] + 1 /\ \A m \in Buf : m # n => rc'[m] = rc[m]
    BY <1>4, <1>6, <1>8, <2>1
  <2>3. rc'[n] >= 2 + TaskRefs(n) /\ rc'[n] >= 1 + TaskRefs(n)
    BY <1>6, <1>8, <2>2
  <2>4. AfterSite(v)'
    BY <1>8, SharedHere
  <2>5. OwnOK'
    BY <1>3, <1>4, <1>6, <1>8, <2>2, <2>3, <2>4, AppendOwns
  <2> QED BY <1>2, <1>3, <2>5
<1> QED BY <1>5, <1>7, <1>8

\* With one spawn site for each value no step of the body fails.
LEMMA StepOwns ==
  ASSUME RunInv, OneSite, Step, HeapOK'
  PROVE  OwnOK' /\ fault' = NoFault
<1> DEFINE x == InstsOf(pc.b)[pc.i]
<1>1. Running /\ pc.i \in Index(pc.b) /\ Onward /\ Perform(x)
  BY DEF Step, Onward
<1>2. fault = NoFault
  BY <1>1 DEF Running
<1>3. CASE x.op \in {"new", "clone", "move"} /\ Define(x, Target(x))
  BY <1>1, <1>3, DefineOwns
<1>4. CASE x.op = "read" /\ Touch(x.src)
  <2>1. x.src # NoVal
    BY <1>1, <1>4, StepFacts, LocalAssumption DEF GoodInst
  <2>2. UNCHANGED <<slot, rc, tasks, gone, fault>>
    BY <1>1, <1>4, <2>1, NamedAlive DEF Touch
  <2>3. OwnOK'
    BY <1>1, <1>4, <2>2, ReadOwns
  <2> QED BY <1>2, <2>2, <2>3
<1>5. CASE x.op = "write" /\ WriteThrough(x.src)
  BY <1>1, <1>5, WriteOwns
<1>6. CASE x.op = "drop" /\ Drop(x.src)
  BY <1>1, <1>6, DropOwns
<1>7. CASE x.op = "run" /\ Start(x.src)
  BY <1>1, <1>7, StartOwns
<1> QED BY <1>1, <1>3, <1>4, <1>5, <1>6, <1>7 DEF Perform

-----------------------------------------------------------------------------
\* Values that hold different buffers release each buffer at most once.
LEMMA CountApart ==
  ASSUME NEW S \in SUBSET Local, NEW n,
         \A u, v \in S : slot[u] = n /\ slot[v] = n => u = v
  PROVE  Count(S, n) = IF \E v \in S : slot[v] = n THEN 1 ELSE 0
<1> DEFINE V == {v \in S : slot[v] = n}
<1>1. Count(S, n) = Cardinality(V)
  BY DEF Count
<1>2. CASE \E v \in S : slot[v] = n
  <2>1. PICK v \in S : slot[v] = n
    BY <1>2
  <2>2. V = {v}
    BY <2>1
  <2>3. Cardinality({v}) = 1
    BY FS_Singleton
  <2> QED BY <1>1, <1>2, <2>2, <2>3
<1>3. CASE ~\E v \in S : slot[v] = n
  <2>1. V = {}
    BY <1>3
  <2> QED BY <1>1, <1>3, <2>1, FS_EmptySet
<1> QED BY <1>2, <1>3

\* The end of a block: what is dropped there is owned, and what stays live is not touched.
LEMMA EndFacts ==
  ASSUME RunInv, Running, pc.i \notin Index(pc.b)
  PROVE  /\ Shape /\ pc.b \in Blocks /\ dropEnd[pc.b] \in SUBSET Local
         /\ \A v : ~JustDropped(v)
         /\ \A v \in dropEnd[pc.b] : Current(v) /\ v \notin gone /\ v \notin liveOut[pc.b]
         /\ \A v \in liveOut[pc.b] : v \in Local /\ Current(v) /\ v \notin gone
<1>1. /\ Shape /\ pc.b \in Blocks /\ pc.i \in Nat \ {0} /\ gone \cap LiveAt(pc.b, pc.i) = {}
      /\ phase = "run" /\ Solved(pc.b)
  BY DEF RunInv, LiveInv, AnalysisOK, Stable, DropInv, Running
<1>2. Index(pc.b) = 1..Len(InstsOf(pc.b)) /\ Len(InstsOf(pc.b)) \in Nat
  BY <1>1, InsideLocal
<1>3. \A k \in Index(pc.b) : k < pc.i
  BY <1>1, <1>2
<1>4. ASSUME NEW v, JustDropped(v) PROVE FALSE
  <2>1. Paired(InstsOf(pc.b))
    BY <1>1 DEF RunInv, BodyInv, Built, InstsOf, Blocks
  <2>2. pc.i - 1 \in 1..Len(InstsOf(pc.b)) /\ InstsOf(pc.b)[pc.i - 1].op = "drop"
    BY <1>2, <1>4 DEF JustDropped, Op
  <2>3. (pc.i - 1) + 1 \in 1..Len(InstsOf(pc.b))
    BY <2>1, <2>2 DEF Paired
  <2> QED BY <1>1, <1>2, <2>3
<1>5. dropEnd[pc.b] = EndDrops(pc.b) /\ dropEnd[pc.b] \in SUBSET Local
  BY <1>1 DEF RunInv, BodyInv, DropsPlaced, DecisionsOK, Placed
<1>6. ASSUME NEW v \in dropEnd[pc.b] PROVE Current(v) /\ v \notin gone /\ v \notin liveOut[pc.b]
  <2>1. v \notin moveSrc /\ v \in DefOf(pc.b) \cup liveIn[pc.b] /\ v \notin liveOut[pc.b]
    BY <1>5 DEF EndDrops, Droppable, Holds
  <2>2. v \notin gone
    <3>1. v \in gone => v \notin liveIn[pc.b] /\ \A k \in Index(pc.b) : k < pc.i => ~Defines(pc.b, k, v)
      BY DEF RunInv, OwnInv, GoneBefore
    <3>2. v \in DefOf(pc.b) => \E k \in Index(pc.b) : Defines(pc.b, k, v)
      BY DEF DefOf, Defines
    <3> QED BY <1>3, <2>1, <3>1, <3>2
  <2> QED BY <2>1, <2>2 DEF Current
<1>7. ASSUME NEW v \in liveOut[pc.b] PROVE v \in Local /\ Current(v) /\ v \notin gone
  <2>1. liveOut[pc.b] \subseteq Local
    BY <1>1, InsideLocal DEF Solved
  <2>2. LiveAt(pc.b, pc.i) = liveOut[pc.b]
    BY <1>1, <2>1, LiveAtEnd
  <2> QED BY <1>1, <1>7, <2>1, <2>2 DEF Current
<1> QED BY <1>1, <1>4, <1>5, <1>6, <1>7

\* The drops at the end of a block release nothing twice: each takes its owner's reference.
LEMMA EndsOwned ==
  ASSUME RunInv, Running, OneSite, pc.i \notin Index(pc.b), NEW r, r = Release(rc, dropEnd[pc.b])
  PROVE  /\ Again(rc, dropEnd[pc.b]) = {} /\ r \in [Buf -> Nat]
         /\ \A v \in dropEnd[pc.b] : slot[v] # 0 => Owner(v) /\ r[slot[v]] = rc[slot[v]] - 1
         /\ \A n \in Buf : (\A v \in dropEnd[pc.b] : slot[v] # n) => r[n] = rc[n]
<1> DEFINE S == dropEnd[pc.b]
<1>1. S \in SUBSET Local /\ HeapOK /\ OwnOK
  BY EndFacts, OwnFacts
<1>2. \A v \in S : slot[v] # 0 => Owner(v)
  BY EndFacts DEF Owner
<1>3. ASSUME NEW n \in Buf
      PROVE  /\ Count(S, n) = IF \E v \in S : slot[v] = n THEN 1 ELSE 0
             /\ r[n] = rc[n] - Count(S, n) /\ rc[n] \in Nat
  <2>1. n # 0
    BY DEF Buf
  <2>2. \A u, v \in S : Current(u) /\ Current(v)
    BY EndFacts
  <2>3. \A u, v \in S : slot[u] = n /\ slot[v] = n => u = v
    BY <1>1, <2>1, <2>2 DEF OwnOK, OwnersApart
  <2>4. r[n] = rc[n] - Count(S, n) /\ rc[n] \in Nat
    BY <1>1 DEF Release, HeapOK
  <2> HIDE DEF S
  <2> QED BY <1>1, <2>3, <2>4, CountApart
<1>4. ASSUME NEW v \in S, slot[v] # 0
      PROVE  /\ slot[v] \in Buf /\ Count(S, slot[v]) = 1 /\ r[slot[v]] = rc[slot[v]] - 1
             /\ rc[slot[v]] >= 1 /\ rc[slot[v]] \in Nat
  <2>1. /\ slot[v] \in Buf /\ rc[slot[v]] \in Nat /\ TaskRefs(slot[v]) \in Nat
        /\ rc[slot[v]] >= 1 + TaskRefs(slot[v])
    BY <1>1, <1>2, <1>4, OwnerAlive
  <2>2. Count(S, slot[v]) = 1 /\ r[slot[v]] = rc[slot[v]] - Count(S, slot[v])
    <3> HIDE DEF S
    <3> QED BY <1>3, <1>4, <2>1
  <2> HIDE DEF S
  <2> QED BY <2>1, <2>2
<1>5. Again(rc, S) = {}
  <2> HIDE DEF S
  <2>1. \A v \in S : slot[v] # 0 => ~(Count(S, slot[v]) > rc[slot[v]])
    <3> SUFFICES ASSUME NEW v \in S, slot[v] # 0 PROVE ~(Count(S, slot[v]) > rc[slot[v]])
      OBVIOUS
    <3> QED BY <1>4
  <2> QED BY <2>1 DEF Again
<1>6. r \in [Buf -> Nat]
  BY <1>1, <1>5, ReleaseGood DEF HeapOK
<1>7. \A n \in Buf : (\A v \in S : slot[v] # n) => r[n] = rc[n]
  <2> SUFFICES ASSUME NEW n \in Buf, \A v \in S : slot[v] # n PROVE r[n] = rc[n]
    OBVIOUS
  <2> HIDE DEF S
  <2> QED BY <1>3
<1> QED BY <1>2, <1>4, <1>5, <1>6, <1>7

\* The drops at the start of the next block: only one at a shared edge can be a second one.
LEMMA StartsOwned ==
  ASSUME RunInv, Running, OneSite, pc.i \notin Index(pc.b), NEW s \in Succs(pc.b)
  PROVE  /\ s \in Blocks /\ dropStart[s] \in SUBSET Local
         /\ \A v \in dropStart[s] : Current(v) /\ v \notin liveIn[s]
         /\ \A v \in dropStart[s] : ~EdgeShared(s, v) =>
              /\ slot[v] # 0 => Owner(v)
              /\ \A u \in dropEnd[pc.b] : slot[v] # 0 => slot[u] # slot[v]
<1>1. s \in Blocks /\ pc.b \in Preds(s)
  BY EndFacts, InsideLocal DEF Preds
<1>2. dropStart[s] \subseteq EdgeDrops(s) /\ dropStart[s] \in SUBSET Local
  BY <1>1 DEF RunInv, BodyInv, DropsPlaced, DecisionsOK, Placed, Running
<1>3. \A v \in dropStart[s] : Current(v) /\ v \notin liveIn[s]
  BY <1>2 DEF EdgeDrops, Droppable, Current
<1>4. ASSUME NEW v \in dropStart[s], ~EdgeShared(s, v)
      PROVE  /\ slot[v] # 0 => Owner(v)
             /\ \A u \in dropEnd[pc.b] : slot[v] # 0 => slot[u] # slot[v]
  <2>1. v \in liveOut[pc.b]
    BY <1>1, <1>4 DEF EdgeShared
  <2>2. slot[v] # 0 => Owner(v)
    BY <2>1, EndFacts DEF Owner
  <2>3. ASSUME NEW u \in dropEnd[pc.b], slot[v] # 0, slot[u] = slot[v] PROVE FALSE
    <3>1. u \in Local /\ Current(u) /\ u \notin liveOut[pc.b] /\ Current(v) /\ v \in Local
      BY <2>1, EndFacts
    <3>2. u = v
      BY <2>3, <3>1, OwnFacts DEF OwnersApart
    <3> QED BY <2>1, <3>1, <3>2
  <2> QED BY <2>2, <2>3
<1> QED BY <1>1, <1>2, <1>3, <1>4

\* Leaving a block fails only at a shared edge.
LEMMA LeaveFault ==
  ASSUME RunInv, OneSite, Leave, fault' # NoFault
  PROVE  fault'.kind = "double free" /\ EdgeShared(pc'.b, fault'.on)
<1>1. Running /\ pc.i \notin Index(pc.b)
  BY DEF Leave
<1> DEFINE ends == dropEnd[pc.b]
           r == Release(rc, ends)
<1>2. PICK s \in Succs(pc.b) :
        /\ pc' = [b |-> s, i |-> 1]
        /\ IF Again(rc, ends) # {} THEN \E v \in Again(rc, ends) : Fault("double free", v)
           ELSE IF Again(r, dropStart[s]) # {}
           THEN \E v \in Again(r, dropStart[s]) : Fault("double free", v)
           ELSE UNCHANGED fault
  BY DEF Leave
<1> HIDE DEF r, ends
<1>3. /\ Again(rc, ends) = {} /\ r \in [Buf -> Nat]
      /\ \A n \in Buf : (\A v \in ends : slot[v] # n) => r[n] = rc[n]
  BY <1>1, EndsOwned DEF r, ends
<1>4. PICK v \in Again(r, dropStart[s]) : Fault("double free", v)
  BY <1>1, <1>2, <1>3 DEF Running
<1>5. fault'.kind = "double free" /\ fault'.on = v /\ pc'.b = s
  BY <1>2, <1>4 DEF Fault
<1>6. v \in dropStart[s] /\ slot[v] # 0 /\ Count(dropStart[s], slot[v]) > r[slot[v]]
  BY <1>4 DEF Again
<1>7. EdgeShared(s, v)
  <2> SUFFICES ASSUME ~EdgeShared(s, v) PROVE FALSE
    OBVIOUS
  <2>1. Owner(v) /\ v \in Local /\ \A u \in ends : slot[u] # slot[v]
    BY <1>1, <1>6, StartsOwned DEF ends
  <2>2. slot[v] \in Buf /\ rc[slot[v]] \in Nat /\ TaskRefs(slot[v]) \in Nat
        /\ rc[slot[v]] >= 1 + TaskRefs(slot[v])
    BY <1>1, <2>1, OwnerAlive
  <2>3. r[slot[v]] = rc[slot[v]]
    BY <1>3, <2>1, <2>2
  <2>4. Count(dropStart[s], slot[v]) = 1
    <3>1. dropStart[s] \in SUBSET Local /\ \A w \in dropStart[s] : Current(w)
      BY <1>1, StartsOwned
    <3>2. \A u, w \in dropStart[s] : slot[u] = slot[v] /\ slot[w] = slot[v] => u = w
      BY <1>1, <1>6, <3>1, OwnFacts DEF OwnersApart
    <3> QED BY <1>6, <3>1, <3>2, CountApart
  <2> QED BY <1>6, <2>2, <2>3, <2>4
<1> QED BY <1>5, <1>7

\* What a step that leaves the body and its drops as they are does not change.
LEMMA SameEdges ==
  ASSUME UNCHANGED <<blocks, liveIn, liveOut, moveSrc, dropStart>>
  PROVE  /\ Blocks' = Blocks /\ (OneSite' <=> OneSite)
         /\ \A s, v : EdgeShared(s, v)' <=> EdgeShared(s, v)
         /\ \A v \in Local : OnEdge(v)' <=> OnEdge(v)
         /\ \A b, i : LiveAt(b, i)' = LiveAt(b, i)
<1>1. /\ Blocks' = Blocks
      /\ \A b : Index(b)' = Index(b) /\ InstsOf(b)' = InstsOf(b) /\ Succs(b)' = Succs(b)
      /\ \A b, i, v : Site(b, i, v)' = Site(b, i, v)
  BY SameBody
<1>2. OneSite' <=> OneSite
  BY <1>1 DEF OneSite, TwoSites
<1>3. \A s, v : EdgeShared(s, v)' <=> EdgeShared(s, v)
  BY <1>1 DEF EdgeShared, Preds
<1>4. \A v \in Local : OnEdge(v)' <=> OnEdge(v)
  BY <1>1, <1>3 DEF OnEdge
<1>5. \A b, i : LiveAt(b, i)' = LiveAt(b, i)
  BY <1>1 DEF LiveAt, Names, Defines
<1> QED BY <1>1, <1>2, <1>3, <1>4, <1>5

\* On the way to the next block an owner stays one unless it is dropped.
LEMMA LeaveFacts ==
  ASSUME RunInv, Running, pc.i \notin Index(pc.b), NEW s \in Succs(pc.b),
         pc' = [b |-> s, i |-> 1], UNCHANGED <<lowering, analysis, slot>>,
         gone' = gone \cup dropEnd[pc.b] \cup dropStart[s]
  PROVE  /\ \A v \in Local : Current(v)' => Current(v)
         /\ \A v \in Local : Owner(v)' => Owner(v) /\ v \notin dropEnd[pc.b] \cup dropStart[s]
         /\ \A v \in Local : AfterSite(v) => AfterSite(v)'
<1>1. /\ Shape /\ pc.b \in Blocks /\ s \in Blocks /\ Solved(s) /\ Solved(pc.b)
      /\ liveIn[s] \subseteq Local /\ pc'.b = s /\ pc'.i = 1
  <2>1. Shape /\ pc.b \in Blocks /\ s \in Blocks
    BY EndFacts, StartsOwned, InsideLocal
  <2>2. Solved(s) /\ Solved(pc.b)
    BY <2>1 DEF RunInv, LiveInv, Stable, Running
  <2>3. liveIn[s] \subseteq Local
    BY <2>1, <2>2, InsideLocal DEF Solved
  <2> QED BY <2>1, <2>2, <2>3
<1>2. UNCHANGED <<blocks, liveIn, liveOut, moveSrc, dropStart>>
  BY DEF lowering, analysis
<1>3. LiveAt(s, 1) = liveIn[s] /\ liveIn[s] \subseteq liveOut[pc.b]
  <2>1. liveIn[s] \subseteq OutOf(pc.b)
    BY <1>1 DEF OutOf
  <2> QED BY <1>1, <2>1, LiveAtStart DEF Solved
<1>4. ASSUME NEW v \in Local, Current(v)' PROVE Current(v)
  <2>1. v \notin moveSrc \/ v \in LiveAt(s, 1)
    BY <1>1, <1>2, <1>4, SameEdges DEF Current
  <2> QED BY <1>3, <2>1, EndFacts DEF Current
<1>5. ASSUME NEW v \in Local, Owner(v)'
      PROVE  Owner(v) /\ v \notin dropEnd[pc.b] \cup dropStart[s]
  <2>1. Current(v)' /\ v \notin gone' /\ slot[v] # 0
    BY <1>5 DEF Owner
  <2> QED BY <1>4, <2>1, EndFacts DEF Owner
<1>6. ASSUME NEW v \in Local, AfterSite(v) PROVE AfterSite(v)'
  <2>1. PICK c \in Blocks : \E j \in Index(c), R \in SUBSET Blocks :
          Site(c, j, v) /\ Quiet(c, j, v, R) /\ ((pc.b = c /\ j < pc.i) \/ pc.b \in R)
    BY <1>6 DEF AfterSite
  <2>2. PICK j \in Index(c), R \in SUBSET Blocks :
          Site(c, j, v) /\ Quiet(c, j, v, R) /\ ((pc.b = c /\ j < pc.i) \/ pc.b \in R)
    BY <2>1
  <2>3. pc'.b \in R
    BY <1>1, <2>2 DEF Quiet
  <2>4. /\ Blocks' = Blocks /\ Index(c)' = Index(c)
        /\ Site(c, j, v)' = Site(c, j, v) /\ Quiet(c, j, v, R)' = Quiet(c, j, v, R)
    BY <1>2, SameBody
  <2> QED BY <2>1, <2>2, <2>3, <2>4 DEF AfterSite
<1> QED BY <1>4, <1>5, <1>6

LEMMA LeaveOwns ==
  ASSUME RunInv, OneSite, Leave, fault' = NoFault
  PROVE  OwnOK'
<1>1. Running /\ pc.i \notin Index(pc.b) /\ UNCHANGED <<lowering, analysis>>
  BY DEF Leave
<1> DEFINE ends == dropEnd[pc.b]
           r == Release(rc, ends)
<1>2. \A v : ~Fault("double free", v)
  BY DEF Fault, NoFault
<1>3. PICK s \in Succs(pc.b) :
        /\ pc' = [b |-> s, i |-> 1]
        /\ Again(rc, ends) = {} /\ Again(r, dropStart[s]) = {}
        /\ rc' = Release(r, dropStart[s]) /\ gone' = gone \cup ends \cup dropStart[s]
        /\ UNCHANGED <<slot, tasks>>
  BY <1>2 DEF Leave
<1>4. OwnOK /\ HeapOK /\ \A k \in DOMAIN tasks : tasks[k].arg \in Local
  BY <1>1, OwnFacts, TaskFacts DEF Task
<1>5. /\ \A v \in Local : Current(v)' => Current(v)
      /\ \A v \in Local : Owner(v)' => Owner(v) /\ v \notin ends \cup dropStart[s]
      /\ \A v \in Local : AfterSite(v) => AfterSite(v)'
  BY <1>1, <1>3, LeaveFacts
<1>6. \A v \in Local : OnEdge(v)' <=> OnEdge(v)
  <2>1. UNCHANGED <<blocks, liveIn, liveOut, moveSrc, dropStart>>
    BY <1>1 DEF lowering, analysis
  <2> QED BY <2>1, SameEdges
<1>7. \A n : TaskRefs(n)' = TaskRefs(n) /\ TaskRefs(n) \in Nat
  BY <1>3, <1>4, SameRefs, RefsFinite
<1>8. /\ s \in Blocks /\ dropStart[s] \in SUBSET Local /\ ends \in SUBSET Local
      /\ \A v \in ends \cup dropStart[s] : Current(v) /\ v \in Local
  BY <1>1, StartsOwned, EndFacts
<1>9. /\ r \in [Buf -> Nat]
      /\ \A v \in ends : slot[v] # 0 => Owner(v) /\ r[slot[v]] = rc[slot[v]] - 1
      /\ \A n \in Buf : (\A v \in ends : slot[v] # n) => r[n] = rc[n]
  BY <1>1, EndsOwned
<1>10. ASSUME NEW n \in Buf
       PROVE  /\ rc'[n] = r[n] - IF \E v \in dropStart[s] : slot[v] = n THEN 1 ELSE 0
              /\ n # 0
  <2>1. \A u, v \in dropStart[s] : slot[u] = n /\ slot[v] = n => u = v
    BY <1>1, <1>8, OwnFacts DEF OwnersApart, Buf
  <2>2. Count(dropStart[s], n) = IF \E v \in dropStart[s] : slot[v] = n THEN 1 ELSE 0
    BY <1>8, <2>1, CountApart
  <2>3. rc'[n] = r[n] - Count(dropStart[s], n)
    BY <1>3 DEF Release
  <2> QED BY <2>2, <2>3 DEF Buf
<1> HIDE DEF r, ends
<1>11. OwnersCounted'
  <2> SUFFICES ASSUME NEW v \in Local, Owner(v)' PROVE rc'[slot[v]] >= 1 + TaskRefs(slot[v])
    BY <1>3, <1>7 DEF OwnersCounted
  <2>1. Owner(v) /\ v \notin ends \cup dropStart[s] /\ Current(v)
    BY <1>5 DEF Owner
  <2>2. rc[slot[v]] >= 1 + TaskRefs(slot[v]) /\ slot[v] \in Buf /\ slot[v] # 0
    BY <1>1, <2>1, OwnerAlive DEF Owner
  <2>3. \A u \in ends \cup dropStart[s] : slot[u] # slot[v]
    BY <1>1, <1>8, <2>1, <2>2, OwnFacts DEF OwnersApart
  <2>4. r[slot[v]] = rc[slot[v]] /\ rc'[slot[v]] = r[slot[v]]
    BY <1>9, <1>10, <2>2, <2>3
  <2> QED BY <2>2, <2>4
<1>12. OwnersApart'
  BY <1>3, <1>4, <1>5 DEF OwnOK, OwnersApart
<1>13. OwnersShare'
  BY <1>3, <1>4, <1>5 DEF OwnOK, OwnersShare
<1>14. TasksCounted'
  <2> SUFFICES ASSUME NEW n \in Buf
               PROVE  \/ rc'[n] >= TaskRefs(n)
                      \/ \A k \in DOMAIN tasks : tasks[k].buf = n => OnEdge(tasks[k].arg)
    BY <1>3, <1>4, <1>6, <1>7 DEF TasksCounted, Buf
  <2>1. CASE \E v \in dropStart[s] : slot[v] = n /\ EdgeShared(s, v)
    <3>1. PICK v \in dropStart[s] : slot[v] = n /\ EdgeShared(s, v)
      BY <2>1
    <3>2. \A k \in DOMAIN tasks : tasks[k].buf = n => tasks[k].arg = v
      BY <1>4, <1>8, <1>10, <3>1 DEF OwnOK, OwnersShare
    <3>3. OnEdge(v)
      BY <1>8, <3>1 DEF OnEdge
    <3> QED BY <3>2, <3>3
  <2>2. CASE ~\E v \in dropStart[s] : slot[v] = n /\ EdgeShared(s, v)
    <3>1. ASSUME NEW v \in dropStart[s], slot[v] = n
          PROVE  Owner(v) /\ \A u \in ends : slot[u] # n
      <4>1. ~EdgeShared(s, v)
        BY <2>2, <3>1
      <4> QED BY <1>1, <1>10, <3>1, <4>1, StartsOwned DEF ends
    <3>2. CASE \E v \in dropStart[s] : slot[v] = n
      <4>1. PICK v \in dropStart[s] : slot[v] = n
        BY <3>2
      <4>2. rc[n] >= 1 + TaskRefs(n) /\ rc[n] \in Nat
        BY <1>1, <1>8, <3>1, <4>1, OwnerAlive
      <4>3. r[n] = rc[n]
        BY <1>9, <3>1, <4>1
      <4>4. rc'[n] = r[n] - 1
        BY <1>10, <3>2
      <4> QED BY <1>7, <4>2, <4>3, <4>4
    <3>3. CASE (\A v \in dropStart[s] : slot[v] # n) /\ \E v \in ends : slot[v] = n
      <4>1. PICK v \in ends : slot[v] = n
        BY <3>3
      <4>2. Owner(v) /\ r[n] = rc[n] - 1 /\ v \in Local
        BY <1>8, <1>9, <1>10, <4>1
      <4>3. rc[n] >= 1 + TaskRefs(n) /\ rc[n] \in Nat
        BY <1>1, <4>1, <4>2, OwnerAlive
      <4>4. rc'[n] = r[n] - 0
        BY <1>10, <3>3
      <4> QED BY <1>7, <4>2, <4>3, <4>4
    <3>4. CASE \A v \in ends \cup dropStart[s] : slot[v] # n
      <4>1. r[n] = rc[n] /\ rc'[n] = r[n] - 0 /\ r[n] \in Nat
        BY <1>9, <1>10, <3>4
      <4> QED BY <1>4, <4>1 DEF OwnOK, TasksCounted
    <3> QED BY <3>2, <3>3, <3>4
  <2> QED BY <2>1, <2>2
<1>15. TasksFresh'
  BY <1>3, <1>4 DEF OwnOK, TasksFresh
<1> QED BY <1>11, <1>12, <1>13, <1>14, <1>15 DEF OwnOK

\* The return releases what the last drops leave to the tasks.
LEMMA ExitOwns ==
  ASSUME RunInv, OneSite, Exit
  PROVE  TasksCounted' /\ TasksFresh' /\ fault' = NoFault
<1>1. Running /\ pc.i \notin Index(pc.b) /\ fault = NoFault
  BY DEF Exit, Running
<1> DEFINE ends == dropEnd[pc.b]
           r == Release(rc, ends)
<1>2. /\ Again(rc, ends) = {} /\ r \in [Buf -> Nat]
      /\ \A v \in ends : slot[v] # 0 => Owner(v) /\ r[slot[v]] = rc[slot[v]] - 1
      /\ \A n \in Buf : (\A v \in ends : slot[v] # n) => r[n] = rc[n]
  BY <1>1, EndsOwned
<1>3. /\ rc' = [n \in Buf |-> IF r[n] > TaskRefs(n) THEN TaskRefs(n) ELSE r[n]]
      /\ UNCHANGED <<tasks, fault>>
  BY <1>2 DEF Exit
<1>4. OwnOK /\ HeapOK /\ ends \in SUBSET Local /\ \A k \in DOMAIN tasks : tasks[k].arg \in Local
  BY <1>1, OwnFacts, EndFacts, TaskFacts DEF Task
<1>5. \A n : TaskRefs(n)' = TaskRefs(n) /\ TaskRefs(n) \in Nat
  BY <1>3, <1>4, SameRefs, RefsFinite
<1>6. \A v \in Local : OnEdge(v)' <=> OnEdge(v)
  <2>1. UNCHANGED <<blocks, liveIn, liveOut, moveSrc, dropStart>>
    BY DEF Exit, lowering
  <2> QED BY <2>1, SameEdges
<1> HIDE DEF r, ends
<1>7. TasksCounted'
  <2> SUFFICES ASSUME NEW n \in Buf
               PROVE  \/ rc'[n] >= TaskRefs(n)
                      \/ \A k \in DOMAIN tasks : tasks[k].buf = n => OnEdge(tasks[k].arg)
    BY <1>3, <1>4, <1>5, <1>6 DEF TasksCounted, Buf
  <2>1. r[n] >= TaskRefs(n) => rc'[n] >= TaskRefs(n)
    BY <1>2, <1>3, <1>5
  <2>2. CASE \E v \in ends : slot[v] = n
    <3>1. PICK v \in ends : slot[v] = n
      BY <2>2
    <3>2. Owner(v) /\ r[n] = rc[n] - 1 /\ v \in Local
      BY <1>2, <1>4, <3>1 DEF Buf
    <3>3. rc[n] >= 1 + TaskRefs(n) /\ rc[n] \in Nat
      BY <1>1, <3>1, <3>2, OwnerAlive
    <3> QED BY <1>5, <2>1, <3>2, <3>3
  <2>3. CASE ~\E v \in ends : slot[v] = n
    <3>1. r[n] = rc[n]
      BY <1>2, <2>3
    <3> QED BY <1>4, <2>1, <3>1 DEF OwnOK, TasksCounted
  <2> QED BY <2>2, <2>3
<1>8. TasksFresh'
  BY <1>3, <1>4 DEF OwnOK, TasksFresh
<1> QED BY <1>1, <1>3, <1>7, <1>8

\* A task that runs fails only when the reference it was given was dropped at a shared edge.
LEMMA TaskOwns ==
  ASSUME RunInv, OneSite, NEW i \in DOMAIN tasks, RunTask(i)
  PROVE  /\ fault' # NoFault =>
              /\ fault'.kind = "use after free" /\ UNCHANGED tasks
              /\ tasks[i].arg = fault'.on /\ OnEdge(fault'.on)
         /\ fault' = NoFault =>
              (Running' => OwnersCounted' /\ OwnersApart' /\ OwnersShare') /\ TasksCounted' /\ TasksFresh'
<1> DEFINE t == tasks[i]
           n == t.buf
<1>1. phase \in {"run", "done"} /\ fault = NoFault /\ UNCHANGED <<lowering, analysis, pc>>
  BY DEF RunTask
<1>2. HeapOK /\ TasksCounted /\ TasksFresh /\ t \in Task /\ n \in Buf \cup {0} /\ t.arg \in Local
      /\ \A k \in DOMAIN tasks : tasks[k].arg \in Local
  BY <1>1, TaskFacts DEF RunInv, OwnInv, Task
<1>3. \A m : TaskRefs(m) \in Nat
  BY <1>2, RefsFinite
<1>4. CASE Freed(n)
  <2>1. Fault("use after free", t.arg)
    BY <1>4 DEF RunTask
  <2>2. n \in Buf /\ rc[n] = 0
    BY <1>2, <1>4 DEF Freed
  <2>3. TaskRefs(n) # 0
    BY <1>2, NoRefs
  <2>4. OnEdge(t.arg)
    BY <1>2, <1>3, <2>2, <2>3 DEF TasksCounted
  <2>5. fault' = [kind |-> "use after free", on |-> t.arg] /\ UNCHANGED tasks
    BY <2>1 DEF Fault
  <2>6. fault' # NoFault
    <3>1. fault'.kind = "use after free" /\ NoFault.kind = "none"
      BY <2>5 DEF NoFault
    <3> QED BY <3>1
  <2> QED BY <2>4, <2>5, <2>6
<1>5. CASE ~Freed(n)
  <2> DEFINE leak == n # 0 /\ rc[n] > 1 /\ n \notin Held(slot, tasks')
  <2>1. /\ tasks' = Without(tasks, i)
        /\ rc' = IF n = 0 THEN rc ELSE [rc EXCEPT ![n] = IF leak THEN 0 ELSE rc[n] - 1]
        /\ UNCHANGED <<slot, gone, fault>>
    BY <1>2, <1>5 DEF RunTask, TasksFresh
  <2>2. /\ \A m : TaskRefs(m)' = TaskRefs(m) - IF m = n THEN 1 ELSE 0
        /\ \A k \in DOMAIN tasks' : \E j \in DOMAIN tasks : tasks'[k] = tasks[j]
    BY <1>2, <2>1, WithoutRefs
  <2> HIDE DEF n
  <2>3. /\ \A m \in Buf : m # n => rc'[m] = rc[m]
        /\ n # 0 => n \in Buf /\ rc[n] \in Nat /\ rc[n] >= 1
        /\ n # 0 /\ ~leak => rc'[n] = rc[n] - 1
        /\ n # 0 /\ leak => rc'[n] = 0
    <3>1. rc \in [Buf -> Nat] /\ (n # 0 => n \in Buf /\ rc[n] # 0)
      BY <1>2, <1>5 DEF HeapOK, Freed
    <3> HIDE DEF leak
    <3> QED BY <2>1, <3>1
  <2>4. /\ \A v \in Local : Current(v)' <=> Current(v)
        /\ \A v \in Local : Owner(v)' <=> Owner(v)
        /\ \A v \in Local : AfterSite(v)' <=> AfterSite(v)
        /\ \A v \in Local : OnEdge(v)' <=> OnEdge(v)
    <3>1. UNCHANGED <<blocks, liveIn, liveOut, moveSrc, dropStart, pc, slot, gone>>
      BY <1>1, <2>1 DEF lowering, analysis
    <3>2. \A v \in Local : Current(v)' <=> Current(v)
      BY <3>1, SameEdges DEF Current
    <3>3. \A v : JustDropped(v)' <=> JustDropped(v)
      BY <3>1, SameBody DEF JustDropped, Op
    <3>4. \A v \in Local : Owner(v)' <=> Owner(v)
      BY <3>1, <3>2, <3>3 DEF Owner
    <3>5. \A v \in Local : AfterSite(v)' <=> AfterSite(v)
      <4>1. /\ Blocks' = Blocks /\ \A b : Index(b)' = Index(b)
            /\ \A b, j, v : Site(b, j, v)' = Site(b, j, v)
            /\ \A b, j, v, R : Quiet(b, j, v, R)' = Quiet(b, j, v, R)
        BY <3>1, SameBody
      <4> QED BY <3>1, <4>1 DEF AfterSite
    <3> QED BY <3>1, <3>2, <3>4, <3>5, SameEdges
  <2>5. ASSUME Running PROVE OwnersCounted' /\ OwnersApart' /\ OwnersShare'
    <3>1. OwnOK
      BY <2>5, OwnFacts
    <3>2. OwnersCounted'
      <4> SUFFICES ASSUME NEW v \in Local, Owner(v)' PROVE rc'[slot[v]] >= 1 + TaskRefs(slot[v])'
        BY <2>1 DEF OwnersCounted
      <4>1. /\ Owner(v) /\ rc[slot[v]] >= 1 + TaskRefs(slot[v])
            /\ slot[v] \in Buf /\ slot[v] # 0 /\ rc[slot[v]] \in Nat
        BY <2>4, <2>5, OwnerAlive DEF Owner
      <4>2. TaskRefs(slot[v])' = TaskRefs(slot[v]) - IF slot[v] = n THEN 1 ELSE 0
        <5>1. slot' = slot
          BY <2>1
        <5> QED BY <2>2, <5>1
      <4>3. CASE slot[v] = n
        <5>1. n \in Held(slot, tasks')
          BY <4>3 DEF Held
        <5>2. rc'[n] = rc[n] - 1
          BY <2>3, <4>1, <4>3, <5>1
        <5> QED BY <1>3, <4>1, <4>2, <4>3, <5>2
      <4>4. CASE slot[v] # n
        BY <1>3, <2>3, <4>1, <4>2, <4>4
      <4> QED BY <4>3, <4>4
    <3>3. OwnersApart'
      BY <2>1, <2>4, <3>1 DEF OwnOK, OwnersApart
    <3>4. OwnersShare'
      BY <2>1, <2>2, <2>4, <3>1 DEF OwnOK, OwnersShare
    <3> QED BY <3>2, <3>3, <3>4
  <2>6. TasksCounted'
    <3> SUFFICES ASSUME NEW m \in Buf
                 PROVE  \/ rc'[m] >= TaskRefs(m)'
                        \/ \A k \in DOMAIN tasks' : tasks'[k].buf = m => OnEdge(tasks'[k].arg)
      BY <2>4, <2>2, <1>2 DEF TasksCounted, Buf
    <3>1. CASE \A k \in DOMAIN tasks : tasks[k].buf = m => OnEdge(tasks[k].arg)
      BY <2>2, <3>1
    <3>2. CASE rc[m] >= TaskRefs(m) /\ m # n
      BY <1>3, <2>2, <2>3, <3>2
    <3>3. CASE rc[m] >= TaskRefs(m) /\ m = n
      <4>1. m # 0 /\ TaskRefs(m)' = TaskRefs(m) - 1
        BY <2>2, <3>3 DEF Buf
      <4>2. CASE leak
        <5>1. HeapOK'
          BY <1>2, RunTaskGood
        <5>2. \A k \in DOMAIN tasks' : tasks'[k].buf # m
          BY <3>3, <4>2 DEF Held
        <5> QED BY <5>2
      <4>3. CASE ~leak
        BY <1>3, <2>3, <3>3, <4>1, <4>3
      <4> QED BY <4>2, <4>3
    <3> QED BY <1>2, <3>1, <3>2, <3>3 DEF TasksCounted
  <2>7. TasksFresh'
    BY <1>2, <2>2 DEF TasksFresh
  <2>8. fault' = NoFault /\ (Running' => Running)
    BY <1>1, <2>1 DEF Running, analysis
  <2> QED BY <2>5, <2>6, <2>7, <2>8
<1> QED BY <1>4, <1>5

-----------------------------------------------------------------------------
\* A local that was freed was not defined in the block before, and is not live into it.
LEMMA GoneStep ==
  ASSUME RunInv, Step, fault' = NoFault
  PROVE  GoneBefore'
<1> DEFINE x == InstsOf(pc.b)[pc.i]
<1>1. Running /\ pc.i \in Index(pc.b) /\ Onward /\ Perform(x) /\ x \in GoodInst
      /\ pc.i \in Nat /\ GoneBefore /\ fault = NoFault /\ Shape /\ pc.b \in Blocks /\ gone \subseteq Local
  BY StepFacts DEF Step, Onward, RunInv, OwnInv, Running, HeapOK
<1>2. pc'.b = pc.b /\ pc'.i = pc.i + 1 /\ UNCHANGED <<blocks, liveIn, liveOut>>
  BY <1>1, OnwardFacts DEF Onward, lowering, analysis
<1>3. gone' \subseteq gone /\ (x.dst # NoVal => x.dst \notin gone')
  BY <1>1, PerformGone
<1>4. \A b : Index(b)' = Index(b) /\ InstsOf(b)' = InstsOf(b)
  BY <1>2, SameBody
<1> SUFFICES ASSUME NEW v \in gone'
             PROVE  /\ v \notin liveIn[pc.b]
                    /\ \A k \in Index(pc.b) : k < pc.i + 1 => ~Defines(pc.b, k, v)
  BY <1>2, <1>4 DEF GoneBefore, Defines
<1>5. v \notin liveIn[pc.b] /\ \A k \in Index(pc.b) : k < pc.i => ~Defines(pc.b, k, v)
  BY <1>1, <1>3 DEF GoneBefore
<1>6. ~Defines(pc.b, pc.i, v)
  BY <1>1, <1>3, LocalAssumption DEF Defines
<1>7. \A k \in Index(pc.b) : k < pc.i + 1 => k < pc.i \/ k = pc.i
  <2>1. Index(pc.b) \subseteq Nat
    BY <1>1, InsideLocal
  <2> QED BY <1>1, <2>1
<1> QED BY <1>5, <1>6, <1>7

LEMMA GoneLeave ==
  ASSUME RunInv, DropInv', Leave, fault' = NoFault
  PROVE  GoneBefore'
<1>1. Running /\ pc.i \notin Index(pc.b) /\ UNCHANGED <<lowering, analysis>>
  BY DEF Leave
<1>2. PICK s \in Succs(pc.b) : pc' = [b |-> s, i |-> 1]
  BY DEF Leave
<1>3. UNCHANGED <<blocks, liveIn, liveOut, moveSrc, dropStart, phase>>
  BY <1>1 DEF lowering, analysis
<1>4. s \in Blocks /\ Shape /\ Solved(s) /\ pc'.b = s /\ pc'.i = 1
  <2>1. s \in Blocks /\ Shape
    BY <1>1, StartsOwned, EndFacts, InsideLocal
  <2>2. Solved(s)
    BY <1>1, <2>1 DEF RunInv, LiveInv, Stable, Running
  <2> QED BY <1>2, <2>1, <2>2
<1>5. gone' \cap liveIn[s] = {}
  <2>1. gone' \cap LiveAt(s, 1)' = {}
    <3>1. Running'
      BY <1>1, <1>3 DEF Running
    <3> QED BY <1>4, <3>1 DEF DropInv
  <2>2. LiveAt(s, 1)' = liveIn[s]
    BY <1>3, <1>4, SameEdges, LiveAtStart
  <2> QED BY <2>1, <2>2
<1>6. \A k \in Index(s) : ~(k < 1)
  BY <1>4, InsideLocal
<1>7. Index(s)' = Index(s)
  BY <1>3, SameBody
<1> QED BY <1>3, <1>4, <1>5, <1>6, <1>7 DEF GoneBefore

-----------------------------------------------------------------------------
LEMMA OwnInit == Init => OwnInv
  BY DEF Init, OwnInv, Running

\* Nothing has run while the body is compiled.
LEMMA OwnCompile ==
  ASSUME RunInv, HeapOK', phase \notin {"run", "done"}, UNCHANGED heap,
         phase' \in {"run"} => gone = {}
  PROVE  OwnInv'
<1>1. /\ slot' = [v \in Local |-> 0] /\ tasks' = <<>> /\ fault' = NoFault
  BY DEF RunInv, OwnInv, heap
<1>2. \A v \in Local : slot'[v] = 0
  BY <1>1
<1>3. DOMAIN tasks' = {}
  BY <1>1
<1>4. OwnersCounted' /\ OwnersApart'
  BY <1>2 DEF OwnersCounted, OwnersApart, Owner
<1>5. OwnersShare' /\ TasksCounted' /\ TasksFresh'
  BY <1>3 DEF OwnersShare, TasksCounted, TasksFresh
<1>6. Running' => GoneBefore'
  BY DEF Running, GoneBefore, heap
<1> QED BY <1>1, <1>4, <1>5, <1>6 DEF OwnInv

LEMMA OwnStutter == ASSUME RunInv, UNCHANGED vars PROVE OwnInv'
<1>1. UNCHANGED <<blocks, liveIn, liveOut, moveSrc, dropStart, pc, slot, rc, gone, tasks, phase, fault>>
  BY DEF vars, lowering, analysis, heap
<1>2. /\ Blocks' = Blocks /\ (OneSite' <=> OneSite)
      /\ \A v \in Local : (Current(v)' <=> Current(v)) /\ (OnEdge(v)' <=> OnEdge(v))
      /\ \A v : JustDropped(v)' <=> JustDropped(v)
  BY <1>1, SameEdges, SameBody DEF Current, JustDropped, Op
<1>3. \A v \in Local : (AfterSite(v)' <=> AfterSite(v)) /\ (Owner(v)' <=> Owner(v))
  <2>1. /\ \A b : Index(b)' = Index(b)
        /\ \A b, j, v : Site(b, j, v)' = Site(b, j, v)
        /\ \A b, j, v, R : Quiet(b, j, v, R)' = Quiet(b, j, v, R)
    BY <1>1, SameBody
  <2> QED BY <1>1, <1>2, <2>1 DEF AfterSite, Owner
<1>4. \A n : TaskRefs(n)' = TaskRefs(n)
  BY <1>1, SameRefs
<1>5. \A k \in DOMAIN tasks : tasks[k].arg \in Local
  BY TaskFacts DEF RunInv, Task
<1>6. /\ OwnersCounted' <=> OwnersCounted
      /\ OwnersApart' <=> OwnersApart
      /\ OwnersShare' <=> OwnersShare
      /\ TasksFresh' <=> TasksFresh
  BY <1>1, <1>2, <1>3, <1>4 DEF OwnersCounted, OwnersApart, OwnersShare, TasksFresh
<1>7. TasksCounted' <=> TasksCounted
  BY <1>1, <1>2, <1>4, <1>5 DEF TasksCounted, Buf
<1>8. GoneBefore' <=> GoneBefore
  <2>1. \A b : Index(b)' = Index(b) /\ InstsOf(b)' = InstsOf(b)
    BY <1>1, SameBody
  <2> QED BY <1>1, <2>1 DEF GoneBefore, Defines
<1> QED BY <1>1, <1>2, <1>6, <1>7, <1>8 DEF RunInv, OwnInv, Running

LEMMA OwnNext ==
  ASSUME RunInv, HeapOK', DropInv', [Next]_vars
  PROVE  OwnInv'
<1>1. CASE Step
  <2>1. phase' = phase /\ phase = "run" /\ UNCHANGED <<blocks, liveIn, liveOut, moveSrc, dropStart>>
    BY <1>1 DEF Step, Running, lowering, analysis
  <2>2. OneSite' => OneSite
    BY <2>1, SameEdges
  <2> QED BY <1>1, <2>1, <2>2, StepOwns, GoneStep DEF OwnInv, OwnOK, Running
<1>2. CASE Leave
  <2>1. phase' = phase /\ phase = "run" /\ UNCHANGED <<blocks, liveIn, liveOut, moveSrc, dropStart>>
    BY <1>2 DEF Leave, Running, lowering, analysis
  <2>2. OneSite' => OneSite
    BY <2>1, SameEdges
  <2> QED BY <1>2, <2>1, <2>2, LeaveOwns, GoneLeave DEF OwnInv, OwnOK, Running
<1>3. CASE Exit
  <2>1. /\ phase' \in {"run", "done"} /\ (fault' = NoFault => phase' = "done")
        /\ UNCHANGED <<blocks, liveIn, liveOut, moveSrc, dropStart>>
    <3>1. \A v : Fault("double free", v) => fault' # NoFault
      <4> SUFFICES ASSUME NEW v, Fault("double free", v) PROVE fault' # NoFault
        OBVIOUS
      <4>1. fault'.kind = "double free" /\ NoFault.kind = "none"
        BY DEF Fault, NoFault
      <4> QED BY <4>1
    <3> QED BY <1>3, <3>1 DEF Exit, Running, lowering
  <2>2. OneSite' => OneSite
    BY <2>1, SameEdges
  <2> QED BY <1>3, <2>1, <2>2, ExitOwns DEF OwnInv, Running
<1>4. ASSUME NEW i \in DOMAIN tasks, RunTask(i) PROVE OwnInv'
  <2>1. /\ phase' = phase /\ phase \in {"run", "done"} /\ fault = NoFault
        /\ UNCHANGED <<blocks, liveIn, liveOut, moveSrc, dropStart, pc, gone>>
    BY <1>4 DEF RunTask, Fault, lowering, analysis
  <2>2. OneSite' => OneSite
    BY <2>1, SameEdges
  <2>3. Running' => GoneBefore'
    <3>1. \A b : Index(b)' = Index(b) /\ InstsOf(b)' = InstsOf(b)
      BY <2>1, SameBody
    <3>2. Running' => GoneBefore
      BY <2>1 DEF Running, RunInv, OwnInv
    <3> QED BY <2>1, <3>1, <3>2 DEF GoneBefore, Defines
  <2> QED BY <1>4, <2>1, <2>2, <2>3, TaskOwns DEF OwnInv, Running
<1>5. CASE Statement \/ Analyze \/ Visit \/ EndPass \/ DecideCopies \/ DecideSpawns \/ PlaceDrops
  <2>1. phase \in {"lower", "live", "copies", "spawns", "drops"} /\ UNCHANGED heap
    BY <1>5 DEF Statement, Analyze, Visit, EndPass, DecideCopies, DecideSpawns, PlaceDrops
  <2>2. gone = {}
    BY <2>1 DEF RunInv, DropInv, Placed
  <2> QED BY <2>1, <2>2, OwnCompile
<1>6. CASE UNCHANGED vars
  BY <1>6, OwnStutter
<1> QED BY <1>1, <1>2, <1>3, <1>4, <1>5, <1>6 DEF Next

LEMMA RunInit == Init => RunInv
  BY LiveInit, DropInit, HeapInit, BodyInit, OwnInit DEF RunInv

LEMMA RunNext == ASSUME RunInv, [Next]_vars PROVE RunInv'
<1>1. LiveInv' /\ DropInv' /\ HeapOK' /\ DecisionsOK' /\ BodyInv'
  BY LiveNext, DropNext, HeapNext, DecisionsNext, BodyNext DEF RunInv
<1> QED BY <1>1, OwnNext DEF RunInv

\* After a fault nothing runs.
LEMMA FaultNext ==
  ASSUME RunInv, FaultExplained, [Next]_vars
  PROVE  FaultExplained'
<1> SUFFICES ASSUME fault' # NoFault PROVE FaultExplained'
  BY DEF FaultExplained
<1>1. ASSUME UNCHANGED vars PROVE FaultExplained'
  <2>1. UNCHANGED <<blocks, liveIn, liveOut, moveSrc, dropStart, pc, tasks, fault>>
    BY <1>1 DEF vars, lowering, analysis, heap
  <2>2. /\ Blocks' = Blocks /\ \A s, v : EdgeShared(s, v)' <=> EdgeShared(s, v)
    BY <2>1, SameEdges
  <2>3. \A v : TwoSites(v)' <=> TwoSites(v)
    <3>1. \A b : Index(b)' = Index(b)
      BY <2>1, SameBody
    <3>2. \A b, i, v : Site(b, i, v)' = Site(b, i, v)
      BY <2>1, SameBody
    <3> QED BY <2>2, <3>1, <3>2 DEF TwoSites
  <2> QED BY <2>1, <2>2, <2>3 DEF FaultExplained
<1>2. CASE Statement \/ Analyze \/ Visit \/ EndPass \/ DecideCopies \/ DecideSpawns \/ PlaceDrops
  <2>1. phase \notin {"run", "done"} /\ UNCHANGED heap
    BY <1>2 DEF Statement, Analyze, Visit, EndPass, DecideCopies, DecideSpawns, PlaceDrops
  <2>2. fault' = NoFault
    BY <2>1 DEF RunInv, OwnInv, heap
  <2> QED BY <2>2
<1>3. ASSUME UNCHANGED <<blocks, liveIn, liveOut, moveSrc, dropStart>>, ~OneSite
      PROVE  FaultExplained'
  <2>1. ~OneSite'
    BY <1>3, SameEdges
  <2> QED BY <2>1 DEF OneSite, FaultExplained
<1>4. CASE Step
  <2>1. UNCHANGED <<blocks, liveIn, liveOut, moveSrc, dropStart>>
    BY <1>4 DEF Step, lowering, analysis
  <2>2. HeapOK'
    BY <1>4, RunNext DEF RunInv
  <2>3. ~OneSite
    BY <1>4, <2>2, StepOwns
  <2> QED BY <1>3, <2>1, <2>3
<1>5. CASE Leave
  <2>1. UNCHANGED <<blocks, liveIn, liveOut, moveSrc, dropStart>>
    BY <1>5 DEF Leave, lowering, analysis
  <2>2. CASE OneSite
    <3>1. fault'.kind = "double free" /\ EdgeShared(pc'.b, fault'.on)
      BY <1>5, <2>2, LeaveFault
    <3>2. \A s, v : EdgeShared(s, v)' <=> EdgeShared(s, v)
      BY <2>1, SameEdges
    <3>3. EdgeShared(pc.b, fault.on)'
      BY <2>1, <3>1 DEF EdgeShared, Preds, Blocks, Succs
    <3> QED BY <3>1, <3>3 DEF FaultExplained
  <2> QED BY <1>3, <2>1, <2>2
<1>6. CASE Exit
  <2>1. UNCHANGED <<blocks, liveIn, liveOut, moveSrc, dropStart>>
    BY <1>6 DEF Exit, lowering
  <2> QED BY <1>3, <1>6, <2>1, ExitOwns
<1>7. ASSUME NEW i \in DOMAIN tasks, RunTask(i) PROVE FaultExplained'
  <2>1. UNCHANGED <<blocks, liveIn, liveOut, moveSrc, dropStart>>
    BY <1>7 DEF RunTask, lowering, analysis
  <2>2. CASE OneSite
    <3>1. /\ fault'.kind = "use after free" /\ tasks' = tasks
          /\ tasks[i].arg = fault'.on /\ OnEdge(fault'.on)
      BY <1>7, <2>2, TaskOwns
    <3>2. PICK s \in Blocks : EdgeShared(s, fault'.on)
      BY <3>1 DEF OnEdge
    <3>3. s \in Blocks' /\ EdgeShared(s, fault.on)'
      BY <2>1, <3>2 DEF EdgeShared, Preds, Blocks, Succs
    <3> QED BY <1>7, <3>1, <3>3 DEF FaultExplained
  <2> QED BY <1>3, <2>1, <2>2
<1> QED BY <1>1, <1>2, <1>4, <1>5, <1>6, <1>7 DEF Next

\* Whatever a compiled body does wrong with its memory comes from two spawn sites for one
\* value or from a drop at a shared edge, for bodies of any size: everywhere else each
\* owner has its reference, no two locals own a buffer, and no shared argument is written
\* (FaultExplained).
THEOREM FaultsExplained == Spec => []FaultExplained
<1>1. Init => RunInv /\ FaultExplained
  BY RunInit DEF Init, FaultExplained
<1>2. RunInv /\ FaultExplained /\ [Next]_vars => RunInv' /\ FaultExplained'
  BY RunNext, FaultNext
<1> QED BY <1>1, <1>2, PTL DEF Spec

-----------------------------------------------------------------------------
\* The values an instruction takes the ownership of.
Transferred ==
  {v \in Local : \E b \in Blocks : \E i \in Index(b) :
     Transfers(InstsOf(b)[i]) /\ InstsOf(b)[i].src = v}

\* The graph, from the first statement to the end, and the values without a drop.
RouteInv ==
  /\ phase = "lower" => Flow
  /\ phase # "lower" => Routed(blocks, Len(blocks))
  /\ phase = "spawns" => moveSrc \subseteq Transferred
  /\ phase \in Decided => moveSrc \subseteq Transferred \cup spawnMoves

LEMMA RouteKept ==
  ASSUME RouteInv, blocks' = blocks, phase # "lower", phase' # "lower",
         UNCHANGED <<moveSrc, spawnMoves>> \/ phase' \notin {"spawns"} \cup Decided,
         phase' = "spawns" => phase = "spawns",
         phase' \in Decided => phase \in Decided
  PROVE  RouteInv'
<1>1. Transferred' = Transferred
  BY DEF Transferred, Blocks, Index, InstsOf, Transfers
<1> QED BY <1>1 DEF RouteInv

LEMMA RouteCopies == ASSUME LiveInv, RouteInv, DecideCopies PROVE RouteInv'
<1>1. /\ Shape /\ phase = "copies" /\ phase' = "spawns"
      /\ moveSrc' = {v \in Local : \E b \in Blocks : \E i \in Index(b) :
                       Transfers(Rewritten(b, i)) /\ Rewritten(b, i).src = v}
  BY DEF LiveInv, AnalysisOK, DecideCopies
<1>2. /\ Blocks' = Blocks /\ Len(blocks') = Len(blocks)
      /\ \A b \in Blocks : /\ Index(b)' = Index(b) /\ Succs(b)' = Succs(b)
                           /\ \A i \in Index(b) : InstsOf(b)'[i] = Rewritten(b, i)
  <2>1. Graph(blocks', Len(blocks))
    <3>1. Len(blocks) \in Nat \ {0} /\ blocks' \in [1..Len(blocks) -> GoodBlock(Len(blocks))]
      <4>1. Shape' /\ Blocks' = Blocks
        BY <1>1, CopiesKeepGraph
      <4>2. Len(blocks) \in Nat \ {0} /\ Len(blocks') \in Nat \ {0}
        BY <1>1, <4>1 DEF Shape
      <4>3. Len(blocks') = Len(blocks)
        BY <4>1, <4>2 DEF Blocks
      <4> QED BY <4>1, <4>2, <4>3 DEF Shape, Graph
    <3> QED BY <3>1 DEF Graph
  <2>2. Len(blocks') = Len(blocks)
    BY <1>1, <2>1, FunIsSeq DEF Shape, Graph
  <2> QED BY <1>1, <2>2, CopiesKeepGraph
<1>3. moveSrc' \subseteq Transferred'
  <2> SUFFICES ASSUME NEW v \in moveSrc' PROVE v \in Transferred'
    OBVIOUS
  <2>1. PICK b \in Blocks : \E i \in Index(b) : Transfers(Rewritten(b, i)) /\ Rewritten(b, i).src = v
    BY <1>1
  <2>2. PICK i \in Index(b) : Transfers(Rewritten(b, i)) /\ Rewritten(b, i).src = v
    BY <2>1
  <2>3. b \in Blocks' /\ i \in Index(b)' /\ InstsOf(b)'[i] = Rewritten(b, i)
    BY <1>2, <2>1, <2>2
  <2>4. Transfers(InstsOf(b)[i])' /\ (InstsOf(b)[i])'.src = v /\ v \in Local
    BY <1>1, <2>2, <2>3 DEF Transfers
  <2> QED BY <2>3, <2>4 DEF Transferred
<1>4. ASSUME NEW b \in Blocks
      PROVE  /\ blocks'[b].to = blocks[b].to
             /\ \A v \in Local : (Creates(blocks'[b], v) => Creates(blocks[b], v))
                                 /\ (Copies(blocks'[b], v) => Copies(blocks[b], v))
  <2>1. blocks'[b].to = blocks[b].to
    BY <1>2 DEF Succs
  <2>2. 1..Len(blocks'[b].insts) = Index(b) /\ Index(b) = 1..Len(blocks[b].insts)
        /\ \A i \in Index(b) : blocks'[b].insts[i] = Rewritten(b, i)
    BY <1>2 DEF Index, InstsOf
  <2>3. ASSUME NEW i \in Index(b)
        PROVE  /\ Rewritten(b, i).dst = blocks[b].insts[i].dst
               /\ Rewritten(b, i).src = blocks[b].insts[i].src
               /\ (Rewritten(b, i).op \in {"move", "clone"})
                    = (blocks[b].insts[i].op \in {"move", "clone"})
    BY <1>1, RewrittenGood, RewrittenForm DEF InstsOf
  <2> QED BY <2>1, <2>2, <2>3 DEF Creates, Copies
<1>5. Routed(blocks', Len(blocks'))
  <2>1. Routed(blocks, Len(blocks)) /\ Blocks = 1..Len(blocks)
    BY <1>1 DEF RouteInv, Blocks
  <2> QED BY <1>2, <1>4, <2>1, RoutedSame
<1> QED BY <1>1, <1>3, <1>5 DEF RouteInv, Decided, Placed

LEMMA RouteNext == ASSUME LiveInv, RouteInv, [Next]_vars PROVE RouteInv'
<1>0. Shape
  BY DEF LiveInv, AnalysisOK
<1>1. CASE Statement
  <2>1. Flow /\ Lower /\ phase = "lower" /\ phase' = phase
    BY <1>1 DEF Statement, RouteInv, analysis
  <2>2. Flow'
    BY <1>0, <2>1, LowerFlow
  <2> QED BY <2>1, <2>2 DEF RouteInv, Decided, Placed
<1>2. CASE Analyze
  <2>1. phase' = "live" /\ blocks' = EnsureReturn /\ Flow /\ open = <<>>
    BY <1>2 DEF Analyze, RouteInv
  <2>2. Graph(EnsureReturn, Len(blocks)) /\ Len(blocks) \in Nat
    BY <1>0, EnsureReturnGood DEF Shape
  <2>3. Len(blocks') = Len(blocks)
    BY <2>1, <2>2, FunIsSeq DEF Graph
  <2>4. Routed(blocks', Len(blocks'))
    BY <1>0, <2>1, <2>3, EnsureReturnRouted
  <2> QED BY <2>1, <2>4 DEF RouteInv, Decided, Placed
<1>3. CASE Visit \/ EndPass
  BY <1>3, RouteKept DEF Visit, EndPass, lowering, Decided, Placed
<1>4. CASE DecideCopies
  BY <1>4, RouteCopies
<1>5. CASE DecideSpawns
  <2>1. phase = "spawns" /\ phase' = "drops" /\ blocks' = blocks
        /\ moveSrc' = moveSrc \cup spawnMoves'
    BY <1>5 DEF DecideSpawns, lowering
  <2>2. Transferred' = Transferred
    BY <2>1 DEF Transferred, Blocks, Index, InstsOf, Transfers
  <2> QED BY <2>1, <2>2 DEF RouteInv
<1>6. CASE PlaceDrops
  BY <1>6, RouteKept DEF PlaceDrops, lowering, Decided
<1>7. CASE Step \/ Leave
  BY <1>7, RouteKept DEF Step, Leave, Running, lowering, analysis
<1>8. CASE Exit
  BY <1>8, RouteKept DEF Exit, Running, lowering, Decided, Placed
<1>9. ASSUME NEW i \in DOMAIN tasks, RunTask(i) PROVE RouteInv'
  BY <1>9, RouteKept DEF RunTask, lowering, analysis
<1>10. CASE UNCHANGED vars
  <2>1. UNCHANGED <<blocks, phase, moveSrc, spawnMoves, cur, open, locals>>
    BY <1>10 DEF vars, lowering, analysis
  <2>2. CASE phase = "lower"
    <3>1. Flow'
      BY <2>1, <2>2 DEF RouteInv, Flow
    <3> QED BY <2>1, <2>2, <3>1 DEF RouteInv, Decided, Placed
  <2> QED BY <2>1, <2>2, RouteKept
<1> QED BY <1>1, <1>2, <1>3, <1>4, <1>5, <1>6, <1>7, <1>8, <1>9, <1>10 DEF Next

-----------------------------------------------------------------------------
\* What checkMoves computes: the least set that holds the entries and goes on past the
\* blocks that do not move v.
LEMMA UnmovedClosed ==
  ASSUME Shape, NEW v
  PROVE  /\ Entries \subseteq Unmoved(v) /\ Unmoved(v) \subseteq Blocks
         /\ \A q \in Unmoved(v) : v \notin MovedIn(q) => Succs(q) \subseteq Unmoved(v)
<1> DEFINE S == SUBSET Blocks
           On(X) == X \cup UNION {Succs(p) : p \in {q \in X : v \notin MovedIn(q)}}
           F == [X \in S |-> On(X)]
           G(r) == [n \in Nat |-> IF n = 0 THEN Entries ELSE On(r[n - 1])]
           r == CHOOSE r : r = G(r)
<1>1. \A c \in Blocks : Succs(c) \subseteq Blocks
  BY InsideLocal
<1>2. F \in [S -> S]
  BY <1>1
<1>3. Entries \in S
  BY DEF Entries, Blocks, Shape
<1>4. \A X \in S : X \subseteq F[X] /\ F[X] = On(X)
  OBVIOUS
<1> HIDE DEF F, S, On
<1>5. PICK f : Iterates(F, S, Entries, f)
  BY <1>2, <1>3, IteratesExist
<1>6. \A n \in Nat : f[n] \in S /\ f[n + 1] = F[f[n]] /\ f[0] = Entries
  BY <1>5 DEF Iterates
<1>7. f = G(f)
  <2>1. ASSUME NEW n \in Nat PROVE f[n] = G(f)[n]
    <3>1. CASE n = 0
      BY <1>6, <3>1
    <3>2. CASE n # 0
      <4>1. n - 1 \in Nat /\ (n - 1) + 1 = n
        BY <3>2
      <4>2. f[n] = F[f[n - 1]] /\ f[n - 1] \in S
        BY <1>6, <4>1
      <4>3. f[n] = On(f[n - 1])
        BY <1>4, <4>2
      <4> QED BY <3>2, <4>3
    <3> QED BY <3>1, <3>2
  <2>2. f = [n \in Nat |-> f[n]]
    BY <1>5 DEF Iterates
  <2> QED BY <2>1, <2>2
<1>8. r = G(r)
  <2> HIDE DEF G
  <2> QED BY <1>7
<1> HIDE DEF r
<1>9. r[0] = Entries /\ \A n \in Nat : r[n + 1] = On(r[n])
  <2>1. r[0] = G(r)[0] /\ \A n \in Nat : r[n + 1] = G(r)[n + 1]
    BY <1>8
  <2>2. \A n \in Nat : (n + 1) - 1 = n /\ n + 1 # 0 /\ n + 1 \in Nat
    OBVIOUS
  <2> QED BY <2>1, <2>2
<1>10. \A n \in Nat : r[n] \in S /\ r[n + 1] = F[r[n]]
  <2> DEFINE P == {n \in Nat : r[n] \in S}
  <2>1. 0 \in P
    BY <1>3, <1>9
  <2>2. ASSUME NEW n \in Nat, n \in P PROVE n + 1 \in P
    <3>1. r[n + 1] = F[r[n]] /\ r[n] \in S
      BY <1>4, <1>9, <2>2
    <3> QED BY <1>2, <3>1
  <2>3. Nat \subseteq P
    <3> HIDE DEF P
    <3> QED BY <2>1, <2>2, NatSet
  <2> QED BY <1>4, <1>9, <2>3
<1>11. Iterates(F, S, Entries, r)
  <2>1. r = [n \in Nat |-> r[n]]
    BY <1>8
  <2>2. r \in [Nat -> S]
    BY <1>10, <2>1
  <2> QED BY <1>9, <1>10, <2>2 DEF Iterates
<1>12. Len(blocks) \in Nat /\ IsFiniteSet(Blocks) /\ Cardinality(Blocks) <= Len(blocks)
  BY FS_Interval DEF Shape, Blocks
<1> DEFINE U == r[Len(blocks)]
<1>13. Entries \subseteq U /\ U \subseteq Blocks /\ F[U] = U
  <2> DEFINE e == Entries
             n == Len(blocks)
  <2>1. /\ e \in SUBSET Blocks /\ Iterates(F, SUBSET Blocks, e, r)
        /\ \A X \in SUBSET Blocks : X \subseteq F[X]
    BY <1>3, <1>4, <1>11 DEF S
  <2>2. n \in Nat /\ IsFiniteSet(Blocks) /\ Cardinality(Blocks) <= n
    BY <1>12
  <2> HIDE DEF n, e
  <2>3. r[n] \subseteq Blocks /\ F[r[n]] = r[n]
    <3>1. Iterates(F, SUBSET Blocks, e, r) /\ \A X \in SUBSET Blocks : X \subseteq F[X]
      BY <2>1
    <3>2. n \in Nat /\ IsFiniteSet(Blocks) /\ Cardinality(Blocks) <= n /\ e \in SUBSET Blocks
      BY <2>1, <2>2
    <3>3. r[n] \subseteq Blocks
      BY <3>1, <3>2, Saturates
    <3>4. F[r[n]] = r[n]
      BY <3>1, <3>2, Saturates
    <3> QED BY <3>3, <3>4
  <2> DEFINE P == {k \in Nat : e \subseteq r[k]}
  <2>4. Nat \subseteq P
    <3>1. 0 \in P
      BY <1>9 DEF e
    <3>2. ASSUME NEW k \in Nat, k \in P PROVE k + 1 \in P
      <4>1. r[k] \subseteq r[k + 1]
        BY <1>4, <1>10
      <4> QED BY <3>2, <4>1
    <3> HIDE DEF P
    <3> QED BY <3>1, <3>2, NatSet
  <2>5. e \subseteq r[n]
    BY <2>2, <2>4
  <2> QED BY <2>3, <2>5 DEF n, e
<1>14. Unmoved(v) = U
  BY DEF Unmoved, r, On
<1>15. On(U) = U
  BY <1>4, <1>13 DEF S
<1> QED BY <1>13, <1>14, <1>15 DEF On

\* The blocks from b on, each the only successor of the one before; 0 at the end.
Walk(b, c) ==
  /\ c[0] = b /\ \A n \in Nat : c[n + 1] = Only(c[n]) /\ c[n] \in 0..Len(blocks)
  /\ Chain(b) = {c[n] : n \in 1..Len(blocks)} \ {0}

LEMMA OnlyFacts ==
  ASSUME Shape, NEW x \in 0..Len(blocks)
  PROVE  Only(x) \in 0..Len(blocks) /\ (Only(x) # 0 => x \in Blocks /\ Succs(x) = {Only(x)})
<1>1. Len(blocks) \in Nat /\ Blocks = (0..Len(blocks)) \ {0}
  BY DEF Shape, Blocks
<1>2. CASE x # 0 /\ Cardinality(Succs(x)) = 1
  <2>1. x \in Blocks
    BY <1>1, <1>2
  <2>2. Succs(x) \subseteq Blocks
    BY <2>1, InsideLocal
  <2>3. IsFiniteSet(Succs(x))
    <3>1. IsFiniteSet(Blocks)
      BY FS_Interval DEF Blocks, Shape
    <3> QED BY <2>2, <3>1, FS_Subset
  <2>4. PICK s : Succs(x) = {s}
    BY <1>2, <2>3, FS_Singleton
  <2>5. Only(x) = s
    BY <1>2, <2>4 DEF Only
  <2> QED BY <1>1, <2>1, <2>2, <2>4, <2>5
<1>3. CASE ~(x # 0 /\ Cardinality(Succs(x)) = 1)
  BY <1>1, <1>3 DEF Only
<1> QED BY <1>2, <1>3

LEMMA ChainWalk ==
  ASSUME Shape, NEW b \in Blocks
  PROVE  \E c : Walk(b, c)
<1> DEFINE N == Len(blocks)
           S == 0..N
           F == [x \in S |-> Only(x)]
           G(c) == [n \in Nat |-> IF n = 0 THEN b ELSE Only(c[n - 1])]
           c == CHOOSE c : c = G(c)
<1>1. b \in S
  BY DEF Shape, Blocks
<1>2. \A x \in S : Only(x) \in S
  BY OnlyFacts
<1>3. F \in [S -> S]
  BY <1>2
<1>4. \A x \in S : F[x] = Only(x)
  OBVIOUS
<1> HIDE DEF F, S
<1>5. PICK f : Iterates(F, S, b, f)
  BY <1>1, <1>3, IteratesExist
<1>6. \A n \in Nat : f[n] \in S /\ f[n + 1] = F[f[n]] /\ f[0] = b
  BY <1>5 DEF Iterates
<1>7. f = G(f)
  <2>1. ASSUME NEW n \in Nat PROVE f[n] = G(f)[n]
    <3>1. CASE n = 0
      BY <1>6, <3>1
    <3>2. CASE n # 0
      <4>1. n - 1 \in Nat /\ (n - 1) + 1 = n
        BY <3>2
      <4>2. f[n] = F[f[n - 1]] /\ f[n - 1] \in S
        BY <1>6, <4>1
      <4>3. f[n] = Only(f[n - 1])
        BY <1>4, <4>2
      <4> QED BY <3>2, <4>3
    <3> QED BY <3>1, <3>2
  <2>2. f = [n \in Nat |-> f[n]]
    BY <1>5 DEF Iterates
  <2> QED BY <2>1, <2>2
<1>8. c = G(c)
  <2> HIDE DEF G
  <2> QED BY <1>7
<1> HIDE DEF c
<1>9. c[0] = b /\ \A n \in Nat : c[n + 1] = Only(c[n])
  <2>1. c[0] = G(c)[0] /\ \A n \in Nat : c[n + 1] = G(c)[n + 1]
    BY <1>8
  <2>2. \A n \in Nat : (n + 1) - 1 = n /\ n + 1 # 0 /\ n + 1 \in Nat
    OBVIOUS
  <2> QED BY <2>1, <2>2
<1>10. \A n \in Nat : c[n] \in S
  <2> DEFINE P == {n \in Nat : c[n] \in S}
  <2>1. 0 \in P
    BY <1>1, <1>9
  <2>2. ASSUME NEW n \in Nat, n \in P PROVE n + 1 \in P
    BY <1>2, <1>9, <2>2
  <2>3. Nat \subseteq P
    <3> HIDE DEF P
    <3> QED BY <2>1, <2>2, NatSet
  <2> QED BY <2>3
<1>11. Chain(b) = {c[n] : n \in 1..N} \ {0}
  BY DEF Chain, c
<1> HIDE DEF S
<1> QED BY <1>9, <1>10, <1>11 DEF Walk, S

\* Until it ends, a chain goes through blocks with one successor.
LEMMA WalkFacts ==
  ASSUME Shape, NEW b \in Blocks, NEW c, Walk(b, c), NEW m \in Nat, c[m] # 0, NEW k \in 0..m - 1
  PROVE  k \in Nat /\ k + 1 \in Nat /\ c[k] \in Blocks /\ Succs(c[k]) = {c[k + 1]}
<1>1. k \in Nat /\ k < m /\ k + 1 \in Nat
  OBVIOUS
<1>2. c[k + 1] # 0
  <2> SUFFICES ASSUME c[k + 1] = 0 PROVE FALSE
    OBVIOUS
  <2> DEFINE P == {j \in Nat : c[k + 1 + j] = 0}
  <2>1. 0 \in P
    OBVIOUS
  <2>2. ASSUME NEW j \in Nat, j \in P PROVE j + 1 \in P
    <3>1. k + 1 + j \in Nat /\ k + 1 + (j + 1) = (k + 1 + j) + 1
      BY <1>1
    <3>2. c[(k + 1 + j) + 1] = Only(c[k + 1 + j]) /\ c[k + 1 + j] = 0
      BY <2>2, <3>1 DEF Walk
    <3> QED BY <3>1, <3>2 DEF Only
  <2>3. Nat \subseteq P
    <3> HIDE DEF P
    <3> QED BY <2>1, <2>2, NatSet
  <2>4. m - (k + 1) \in Nat /\ k + 1 + (m - (k + 1)) = m
    BY <1>1
  <2>5. \A j \in Nat : c[k + 1 + j] = 0
    BY <2>3
  <2>6. c[k + 1 + (m - (k + 1))] = 0
    BY <2>4, <2>5
  <2> QED BY <2>4, <2>6
<1>3. c[k + 1] = Only(c[k]) /\ c[k] \in 0..Len(blocks)
  BY <1>1 DEF Walk
<1> QED BY <1>1, <1>2, <1>3, OnlyFacts

\* A chain of single successors that comes back to its start is a loop nothing leaves.
LEMMA ChainLoops ==
  ASSUME Shape, NEW b \in Blocks
  PROVE  /\ Chain(b) \subseteq Blocks
         /\ b \in Chain(b) => \E X \in SUBSET Blocks :
              X # {} /\ \A q \in X : Succs(q) \subseteq X /\ Succs(q) # {}
<1>1. PICK c : Walk(b, c)
  BY ChainWalk
<1>2. Len(blocks) \in Nat /\ Blocks = (0..Len(blocks)) \ {0} /\ b # 0
  BY DEF Shape, Blocks
<1>3. Chain(b) \subseteq Blocks
  <2>1. \A n \in 1..Len(blocks) : n \in Nat
    BY <1>2
  <2> QED BY <1>1, <1>2, <2>1 DEF Walk
<1>4. ASSUME b \in Chain(b)
      PROVE  \E X \in SUBSET Blocks : X # {} /\ \A q \in X : Succs(q) \subseteq X /\ Succs(q) # {}
  <2>1. PICK m \in 1..Len(blocks) : c[m] = b
    BY <1>1, <1>4 DEF Walk
  <2>2. m \in Nat /\ m # 0
    BY <1>2
  <2> DEFINE X == {c[k] : k \in 0..m - 1}
  <2>3. 0 \in 0..m - 1 /\ c[0] = b
    BY <1>1, <2>2 DEF Walk
  <2>4. ASSUME NEW k \in 0..m - 1
        PROVE  c[k] \in Blocks /\ Succs(c[k]) \subseteq X /\ Succs(c[k]) # {}
    <3>1. k + 1 \in Nat /\ c[k] \in Blocks /\ Succs(c[k]) = {c[k + 1]}
      BY <1>1, <1>2, <2>1, <2>2, WalkFacts
    <3>2. k + 1 = m \/ k + 1 \in 0..m - 1
      BY <2>2
    <3> QED BY <2>1, <2>3, <3>1, <3>2
  <2>5. X \in SUBSET Blocks /\ X # {} /\ \A q \in X : Succs(q) \subseteq X /\ Succs(q) # {}
    BY <2>3, <2>4
  <2> QED BY <2>5
<1> QED BY <1>3, <1>4

\* A drop at an edge is left out only for a later one on the chain, and not for one that
\* was left out before.
LEMMA KeptOrLater ==
  ASSUME Shape, NEW b \in Blocks, NEW v \in EdgeDrops(b), <<b, v>> \notin Kept
  PROVE  \E s \in Chain(b) : v \in EdgeDrops(s) /\ (s < b => <<s, v>> \in Kept)
<1> DEFINE N == Len(blocks)
           S == Nat \X SUBSET (Nat \X Local)
           On(n, X) == X \cup {<<n, w>> : w \in {w \in EdgeDrops(n) :
                          ~\E s \in Chain(n) : w \in EdgeDrops(s) /\ (s < n => <<s, w>> \in X)}}
           F == [y \in S |-> <<y[1] + 1, On(y[1] + 1, y[2])>>]
           G(k) == [n \in Nat |-> IF n = 0 THEN {} ELSE On(n, k[n - 1])]
           k == CHOOSE k : k = G(k)
<1>1. \A n : EdgeDrops(n) \subseteq Local
  <2>1. \A c \in Blocks : DefOf(c) \subseteq Local
    BY InsideLocal
  <2> QED BY <2>1 DEF EdgeDrops, Droppable, Owned
<1>2. \A n \in Nat, X \in SUBSET (Nat \X Local) : On(n, X) \in SUBSET (Nat \X Local)
  BY <1>1
<1>3. \A n, X : X \subseteq On(n, X)
  OBVIOUS
<1>4. \A n, X, w : w \in EdgeDrops(n) /\ <<n, w>> \notin On(n, X) =>
        \E s \in Chain(n) : w \in EdgeDrops(s) /\ (s < n => <<s, w>> \in X)
  OBVIOUS
<1> HIDE DEF On
<1>5. F \in [S -> S] /\ <<0, {}>> \in S
  <2>1. ASSUME NEW y \in S PROVE <<y[1] + 1, On(y[1] + 1, y[2])>> \in S
    <3>1. y[1] \in Nat /\ y[2] \in SUBSET (Nat \X Local) /\ y[1] + 1 \in Nat
      OBVIOUS
    <3> QED BY <1>2, <3>1
  <2> QED BY <2>1
<1>6. \A y \in S : F[y] = <<y[1] + 1, On(y[1] + 1, y[2])>>
  OBVIOUS
<1> HIDE DEF F
<1>7. PICK g : Iterates(F, S, <<0, {}>>, g)
  <2> HIDE DEF S
  <2> QED BY <1>5, IteratesExist
<1>8. \A n \in Nat : g[n] \in S /\ g[n + 1] = F[g[n]] /\ g[0] = <<0, {}>>
  BY <1>7 DEF Iterates
<1>9. \A n \in Nat : g[n][1] = n
  <2> DEFINE P == {n \in Nat : g[n][1] = n}
  <2>1. 0 \in P
    BY <1>8
  <2>2. ASSUME NEW n \in Nat, n \in P PROVE n + 1 \in P
    <3>1. g[n + 1] = <<g[n][1] + 1, On(g[n][1] + 1, g[n][2])>> /\ g[n][1] = n
      BY <1>6, <1>8, <2>2
    <3> QED BY <3>1
  <2>3. Nat \subseteq P
    <3> HIDE DEF P
    <3> QED BY <2>1, <2>2, NatSet
  <2> QED BY <2>3
<1> DEFINE f == [n \in Nat |-> g[n][2]]
<1>10. f = G(f)
  <2>1. ASSUME NEW n \in Nat PROVE f[n] = G(f)[n]
    <3>1. CASE n = 0
      BY <1>8, <3>1
    <3>2. CASE n # 0
      <4>1. n - 1 \in Nat /\ (n - 1) + 1 = n
        BY <3>2
      <4>2. g[n] = F[g[n - 1]] /\ g[n - 1] \in S /\ g[n - 1][1] = n - 1
        BY <1>8, <1>9, <4>1
      <4>3. g[n] = <<n, On(n, g[n - 1][2])>>
        BY <1>6, <4>1, <4>2
      <4>4. f[n] = On(n, f[n - 1])
        BY <4>1, <4>3
      <4> QED BY <3>2, <4>4
    <3> QED BY <3>1, <3>2
  <2> QED BY <2>1
<1>11. k = G(k)
  <2> HIDE DEF G, f
  <2> QED BY <1>10
<1> HIDE DEF k, f
<1>12. k[0] = {} /\ \A n \in Nat : k[n + 1] = On(n + 1, k[n])
  <2>1. k[0] = G(k)[0] /\ \A n \in Nat : k[n + 1] = G(k)[n + 1]
    BY <1>11
  <2>2. \A n \in Nat : (n + 1) - 1 = n /\ n + 1 # 0 /\ n + 1 \in Nat
    OBVIOUS
  <2> QED BY <2>1, <2>2
<1>13. \A n, j \in Nat : k[n] \subseteq k[n + j]
  <2> TAKE n \in Nat
  <2> DEFINE P == {j \in Nat : k[n] \subseteq k[n + j]}
  <2>1. 0 \in P
    OBVIOUS
  <2>2. ASSUME NEW j \in Nat, j \in P PROVE j + 1 \in P
    <3>1. n + j \in Nat /\ n + (j + 1) = (n + j) + 1
      OBVIOUS
    <3>2. k[n + j] \subseteq k[(n + j) + 1]
      BY <1>3, <1>12, <3>1
    <3> QED BY <2>2, <3>1, <3>2
  <2>3. Nat \subseteq P
    <3> HIDE DEF P
    <3> QED BY <2>1, <2>2, NatSet
  <2> QED BY <2>3
<1>14. Kept = k[N]
  BY DEF Kept, k, On
<1>15. N \in Nat /\ b \in Nat /\ b # 0 /\ b - 1 \in Nat /\ (b - 1) + 1 = b
       /\ N - b \in Nat /\ b + (N - b) = N
       /\ N - (b - 1) \in Nat /\ (b - 1) + (N - (b - 1)) = N
  BY DEF Shape, Blocks
<1>16. k[b] \subseteq Kept /\ k[b - 1] \subseteq Kept /\ k[b] = On(b, k[b - 1])
  <2>1. k[b] \subseteq k[b + (N - b)] /\ k[b - 1] \subseteq k[(b - 1) + (N - (b - 1))]
    BY <1>13, <1>15
  <2>2. k[(b - 1) + 1] = On((b - 1) + 1, k[b - 1])
    BY <1>12, <1>15
  <2> HIDE DEF N
  <2> QED BY <1>14, <1>15, <2>1, <2>2
<1>17. PICK s \in Chain(b) : v \in EdgeDrops(s) /\ (s < b => <<s, v>> \in k[b - 1])
  <2>1. <<b, v>> \notin On(b, k[b - 1])
    BY <1>16
  <2> QED BY <1>4, <2>1
<1> QED BY <1>16, <1>17

\* A forward analysis that does not go past a block that moves v arrives at Unmoved(v).
LEMMA ArrivesUnmoved ==
  ASSUME Shape, NEW v, NEW C, \A q \in Blocks : v \in MovedIn(q) => q \in C
  PROVE  Arrives(blocks, Len(blocks), C, Unmoved(v))
<1>1. Starts(blocks, Len(blocks)) = Entries
  BY DEF Starts, Entries, Preds, Blocks, Succs
<1> QED BY <1>1, UnmovedClosed DEF Arrives, Blocks, Succs

\* The drop of an assignment is not the drop of a moved value.
LEMMA DropUnmoved ==
  ASSUME LiveInv, BodyInv, RouteInv, phase = "drops",
         NEW b \in Blocks, NEW v \in Local, NEW i, ExplicitDrop(b, i, v)
  PROVE  ~MovedBefore(b, i, v)
<1> DEFINE n == Len(blocks)
           U == Unmoved(v)
<1>1. /\ Shape /\ Built /\ CopiesMove /\ Routed(blocks, n)
      /\ \A c \in Blocks : liveIn[c] = InOf(c) /\ liveOut[c] = OutOf(c)
  BY DEF LiveInv, AnalysisOK, Stable, Solved, BodyInv, RouteInv
<1>2. i \in Index(b) /\ InstsOf(b)[i] = Op("drop", v) /\ v # NoVal
  BY LocalAssumption DEF ExplicitDrop
<1>3. \A c \in Blocks : \A j \in Index(c) : Transfers(InstsOf(c)[j]) => ~NeededAfter(c, j, InstsOf(c)[j].src)
  BY <1>1 DEF CopiesMove, Decided
<1>4. \A j \in 1..i - 1 : ~(Transfers(InstsOf(b)[j]) /\ InstsOf(b)[j].src = v)
  <2> SUFFICES ASSUME NEW j \in 1..i - 1, Transfers(InstsOf(b)[j]), InstsOf(b)[j].src = v
               PROVE  FALSE
    OBVIOUS
  <2>1. Index(b) = 1..Len(InstsOf(b)) /\ Len(InstsOf(b)) \in Nat
    BY <1>1, InsideLocal
  <2>2. j \in Index(b) /\ i + 1 >= j + 1
    BY <1>2, <2>1
  <2>3. i + 1 \in Index(b) /\ Refills(InstsOf(b)[i + 1], v)
    <3>1. Paired(InstsOf(b)) /\ Op("drop", v).op = "drop" /\ Op("drop", v).src = v
      BY <1>1 DEF Built, InstsOf, Blocks, Op
    <3> QED BY <1>2, <2>1, <3>1 DEF Paired
  <2>4. InstsOf(b)[i + 1].op # "drop" /\ v \in Args(InstsOf(b)[i + 1])
    BY <1>2, <2>3 DEF Refills, Args
  <2>5. i + 1 \in j + 1..Len(InstsOf(b))
    BY <1>2, <2>1, <2>2, <2>3
  <2>6. NeededAfter(b, j, v)
    BY <2>4, <2>5 DEF NeededAfter
  <2> QED BY <1>3, <2>2, <2>6
<1>5. U \subseteq Blocks /\ \A q \in U : v \notin MovedIn(q) => Succs(q) \subseteq U
  BY <1>1, UnmovedClosed
<1>6. ASSUME NEW c \in Blocks, Creates(blocks[c], v) PROVE c \in U
  <2>1. \A q \in Blocks : v \in MovedIn(q) => q \in Copied(blocks, n, v)
    BY DEF MovedIn, Transfers, Copied, Copies, Index, InstsOf, Blocks
  <2>2. Arrives(blocks, n, Copied(blocks, n, v), U)
    BY <1>1, <2>1, ArrivesUnmoved
  <2>3. From(blocks, n, Copied(blocks, n, v), c)
    BY <1>1, <1>6 DEF Routed, CreatedFirst, Blocks
  <2> QED BY <2>2, <2>3 DEF From
<1>7. \A c \in Blocks : v \in DefOf(c) => c \in U
  BY <1>6 DEF DefOf, Creates, Index, InstsOf
<1>8. b \in U
  <2> SUFFICES ASSUME b \notin U PROVE FALSE
    OBVIOUS
  <2>1. v \in liveIn[b]
    <3>1. v \notin DefOf(b)
      BY <1>7
    <3>2. v \in Args(InstsOf(b)[i])
      BY <1>2 DEF Args, Op
    <3>3. \A j \in 1..i - 1 : InstsOf(b)[j].dst # v
      <4>1. \A j \in 1..i - 1 : j \in Index(b)
        BY <1>1, <1>2, InsideLocal
      <4> QED BY <1>2, <3>1, <4>1 DEF DefOf
    <3>4. v \in UseOf(b)
      BY <1>2, <3>2, <3>3 DEF UseOf
    <3> QED BY <1>1, <3>4 DEF InOf
  <2> DEFINE Y == U \cup {a \in Blocks : v \notin liveIn[a]}
  <2>2. ASSUME NEW q \in Y PROVE Succs(q) \subseteq Y
    <3>1. q \in Blocks /\ Succs(q) \subseteq Blocks
      BY <1>1, <1>5, InsideLocal
    <3>2. CASE q \in U /\ v \notin MovedIn(q)
      BY <1>5, <3>2
    <3>3. CASE v \notin OutOf(q)
      BY <3>1, <3>3 DEF OutOf
    <3>4. CASE v \in MovedIn(q)
      <4>1. PICK j \in Index(q) : Transfers(InstsOf(q)[j]) /\ InstsOf(q)[j].src = v
        BY <3>4 DEF MovedIn
      <4>2. v \notin liveOut[q]
        BY <1>3, <3>1, <4>1 DEF NeededAfter
      <4> QED BY <1>1, <3>1, <3>3, <4>2
    <3>5. CASE q \notin U
      <4>1. v \notin DefOf(q) /\ v \notin InOf(q)
        BY <1>1, <1>7, <3>1, <3>5
      <4> QED BY <3>3, <4>1 DEF InOf
    <3> QED BY <3>2, <3>4, <3>5
  <2>3. Starts(blocks, n) \subseteq U
    <3>1. Arrives(blocks, n, Blocks, U)
      BY <1>1, ArrivesUnmoved
    <3> QED BY <3>1 DEF Arrives
  <2>4. Arrives(blocks, n, {}, Y)
    BY <1>5, <2>2, <2>3 DEF Arrives, Blocks, Succs
  <2>5. b \in Y
    BY <1>1, <2>4 DEF Routed, Grounded, From, Blocks
  <2> QED BY <2>1, <2>5
<1> QED BY <1>4, <1>8 DEF MovedBefore

\* A value that insertDrops drops is moved nowhere.
LEMMA DroppableUnmoved ==
  ASSUME LiveInv, BodyInv, RouteInv, phase = "drops", NEW v \in Droppable,
         NEW b \in Blocks, NEW i \in 1..Len(InstsOf(b)) + 1
  PROVE  ~MovedBefore(b, i, v)
<1>1. /\ Shape /\ CopiesMove /\ Routed(blocks, Len(blocks))
  BY DEF LiveInv, AnalysisOK, BodyInv, RouteInv
<1>2. \A c \in Blocks : \A j \in Index(c) : Transfers(InstsOf(c)[j]) => InstsOf(c)[j].src # v
  BY <1>1 DEF CopiesMove, Decided, Droppable
<1>3. \A c \in Blocks : v \notin MovedIn(c)
  BY <1>2 DEF MovedIn
<1>4. b \in Unmoved(v)
  <2>1. Arrives(blocks, Len(blocks), {}, Unmoved(v))
    BY <1>1, <1>3, ArrivesUnmoved
  <2> QED BY <1>1, <2>1 DEF Routed, Grounded, From, Blocks
<1>5. \A j \in 1..i - 1 : j \in Index(b)
  BY <1>1, InsideLocal
<1> QED BY <1>2, <1>4, <1>5 DEF MovedBefore

LEMMA NoUseAfterMove ==
  ASSUME LiveInv, BodyInv, RouteInv, phase = "drops", NEW starts, NEW ends,
         \A b \in Blocks : starts[b] \subseteq Droppable /\ ends[b] \subseteq Droppable
  PROVE  ~UseAfterMove(starts, ends)
<1> SUFFICES ASSUME NEW b \in Blocks, NEW v \in Local,
                    \/ v \in starts[b] /\ MovedBefore(b, 1, v)
                    \/ \E i \in Index(b) : ExplicitDrop(b, i, v) /\ MovedBefore(b, i, v)
                    \/ v \in ends[b] /\ MovedBefore(b, Len(InstsOf(b)) + 1, v)
             PROVE  FALSE
  BY DEF UseAfterMove
<1>1. Len(InstsOf(b)) \in Nat
  BY InsideLocal DEF LiveInv, AnalysisOK
<1>2. 1 \in 1..Len(InstsOf(b)) + 1 /\ Len(InstsOf(b)) + 1 \in 1..Len(InstsOf(b)) + 1
  BY <1>1
<1> QED BY <1>2, DroppableUnmoved, DropUnmoved

\* Every block leads to a return.
LEMMA NoTrap ==
  ASSUME Shape, RouteInv, phase # "lower", NEW X \in SUBSET Blocks, X # {},
         \A q \in X : Succs(q) \subseteq X
  PROVE  \E q \in X : Succs(q) = {}
<1>1. Leads(blocks, Len(blocks))
  BY DEF RouteInv, Routed
<1> QED BY <1>1 DEF Leads, Blocks, Succs

LEMMA NoMissingDrop ==
  ASSUME LiveInv, BodyInv, RouteInv, phase = "drops", NEW starts, NEW ends,
         \A b \in Blocks : starts[b] = {v \in EdgeDrops(b) : <<b, v>> \in Kept},
         \A b \in Blocks : ends[b] = EndDrops(b)
  PROVE  ~MissingDrop(starts, ends)
<1> SUFFICES ASSUME NEW v \in Owned,
                    \A b \in Blocks : v \notin MovedIn(b),
                    ~(v \in spawnMoves /\ \E b \in Blocks : \E i \in Index(b) : Site(b, i, v)),
                    \A b \in Blocks : v \notin starts[b] \cup ends[b]
             PROVE  FALSE
  BY DEF MissingDrop
<1>1. /\ Shape /\ SpawnsShare /\ moveSrc \subseteq Transferred \cup spawnMoves
      /\ \A c \in Blocks : liveIn[c] = InOf(c) /\ liveOut[c] = OutOf(c)
  BY DEF LiveInv, AnalysisOK, Stable, Solved, BodyInv, RouteInv, Decided
<1>2. v \in Droppable
  <2>1. v \notin Transferred
    BY DEF Transferred, MovedIn
  <2>2. v \notin spawnMoves
    BY <1>1 DEF SpawnsShare, DeadSite, Decided
  <2> QED BY <1>1, <2>1, <2>2 DEF Droppable
<1>3. \A b \in Blocks : Holds(b, v) => v \in liveOut[b] /\ Succs(b) # {}
  <2> SUFFICES ASSUME NEW b \in Blocks, Holds(b, v) PROVE v \in liveOut[b] /\ Succs(b) # {}
    OBVIOUS
  <2>1. v \in liveOut[b]
    BY <1>2 DEF EndDrops
  <2>2. v \in OutOf(b)
    BY <1>1, <2>1
  <2> QED BY <2>1, <2>2 DEF OutOf
<1> DEFINE E == {b \in Blocks : v \in EdgeDrops(b)}
<1>4. E # {}
  <2> SUFFICES ASSUME E = {} PROVE FALSE
    OBVIOUS
  <2> DEFINE H == {b \in Blocks : Holds(b, v)}
  <2>1. H # {}
    BY DEF Owned, Holds
  <2>2. ASSUME NEW q \in H PROVE Succs(q) \subseteq H
    <3> SUFFICES ASSUME NEW s \in Succs(q) PROVE s \in H
      OBVIOUS
    <3>1. s \in Blocks
      BY <1>1, InsideLocal
    <3>2. v \in liveOut[q]
      BY <1>3
    <3>3. v \in liveIn[s]
      BY <1>2, <3>1, <3>2 DEF EdgeDrops
    <3> QED BY <3>1, <3>3 DEF Holds
  <2>3. \E q \in H : Succs(q) = {}
    BY <1>1, <2>1, <2>2, NoTrap
  <2> QED BY <1>3, <2>3
<1>5. ASSUME NEW b \in E PROVE \E s \in E : s > b
  <2>1. \A c \in E : <<c, v>> \notin Kept
    OBVIOUS
  <2>2. PICK s \in Chain(b) : v \in EdgeDrops(s) /\ (s < b => <<s, v>> \in Kept)
    BY <1>1, <2>1, KeptOrLater
  <2>3. s \in E
    BY <1>1, <2>2, ChainLoops
  <2>4. s # b
    <3> SUFFICES ASSUME b \in Chain(b) PROVE FALSE
      BY <2>2
    <3>1. PICK X \in SUBSET Blocks : X # {} /\ \A q \in X : Succs(q) \subseteq X /\ Succs(q) # {}
      BY <1>1, ChainLoops
    <3> QED BY <1>1, <3>1, NoTrap
  <2>5. b \in Nat /\ s \in Nat
    BY <1>1, <2>3 DEF Blocks, Shape
  <2> QED BY <2>1, <2>2, <2>3, <2>4, <2>5
<1> DEFINE P == {k \in Nat : \E b \in E : b >= k}
<1>6. Len(blocks) \in Nat /\ \A b \in E : b \in Nat /\ b <= Len(blocks)
  BY <1>1 DEF Blocks, Shape
<1>7. 0 \in P
  BY <1>4, <1>6
<1>8. ASSUME NEW k \in Nat, k \in P PROVE k + 1 \in P
  <2>1. PICK b \in E : b >= k
    BY <1>8
  <2>2. PICK s \in E : s > b
    BY <1>5
  <2>3. s >= k + 1
    BY <1>6, <2>1, <2>2
  <2> QED BY <2>3
<1>9. Nat \subseteq P
  <2> HIDE DEF P
  <2> QED BY <1>7, <1>8, NatSet
<1>10. PICK b \in E : b >= Len(blocks) + 1
  BY <1>6, <1>9
<1> QED BY <1>6, <1>10

-----------------------------------------------------------------------------
AcceptInv == LiveInv /\ BodyInv /\ RouteInv /\ Accepted

LEMMA AcceptInit == Init => AcceptInv
<1> SUFFICES ASSUME Init PROVE AcceptInv
  OBVIOUS
<1>1. phase = "lower" /\ LowerInit
  BY DEF Init
<1>2. RouteInv
  BY <1>1, InitFlow DEF RouteInv, Decided, Placed
<1> QED BY <1>1, <1>2, LiveInit, BodyInit DEF AcceptInv, Accepted

LEMMA AcceptPlace == ASSUME AcceptInv, PlaceDrops PROVE Accepted'
<1>1. /\ LiveInv /\ BodyInv /\ RouteInv /\ phase = "drops" /\ Shape
      /\ dropStart' = [b \in Blocks |-> {v \in EdgeDrops(b) : <<b, v>> \in Kept}]
      /\ dropEnd' = [b \in Blocks |-> EndDrops(b)]
      /\ phase' = IF UseAfterMove(dropStart', dropEnd') \/ MissingDrop(dropStart', dropEnd')
                  THEN "rejected" ELSE "run"
  BY DEF AcceptInv, PlaceDrops, LiveInv, AnalysisOK
<1>2. /\ \A b \in Blocks : dropStart'[b] = {v \in EdgeDrops(b) : <<b, v>> \in Kept}
      /\ \A b \in Blocks : dropEnd'[b] = EndDrops(b)
  BY <1>1
<1>3. \A b \in Blocks : dropStart'[b] \subseteq Droppable /\ dropEnd'[b] \subseteq Droppable
  BY <1>2 DEF EdgeDrops, EndDrops
<1>4. ~UseAfterMove(dropStart', dropEnd')
  BY <1>1, <1>3, NoUseAfterMove
<1>5. ~MissingDrop(dropStart', dropEnd')
  BY <1>1, <1>2, NoMissingDrop
<1> QED BY <1>1, <1>4, <1>5 DEF Accepted

LEMMA AcceptNext == ASSUME AcceptInv, [Next]_vars PROVE AcceptInv'
<1>1. LiveInv' /\ BodyInv' /\ RouteInv'
  BY LiveNext, BodyNext, RouteNext DEF AcceptInv
<1>2. CASE PlaceDrops
  BY <1>1, <1>2, AcceptPlace DEF AcceptInv
<1>3. CASE ~PlaceDrops
  <2>1. Accepted'
    BY <1>3 DEF AcceptInv, Accepted, Next, Statement, Analyze, Visit, EndPass, DecideCopies,
                DecideSpawns, Step, Leave, Exit, RunTask, vars, analysis
  <2> QED BY <1>1, <2>1 DEF AcceptInv
<1> QED BY <1>2, <1>3

\* checkMoves and checkDropCount never fail the build of a body that lowering produced:
\* no value whose ownership moved is disposed of again, and no owned value is left
\* without a drop that is neither moved nor given to a task.
THEOREM NeverRejected == Spec => []Accepted
<1>1. AcceptInv => Accepted
  BY DEF AcceptInv
<1> QED BY <1>1, AcceptInit, AcceptNext, PTL DEF Spec

-----------------------------------------------------------------------------
\* A body is sound, and a drop that was left out at an edge is done later on the chain.
SoundInv ==
  /\ phase = "lower" => Tidy
  /\ phase # "lower" => Sound(blocks, Len(blocks))
  /\ phase \in Placed =>
       \A b \in Blocks : \A v \in EdgeDrops(b) \ dropStart[b] : \E s \in Chain(b) : v \in EdgeDrops(s)

\* The graph decides the chains.
ChainOf(bs, b) ==
  LET c[n \in Nat] ==
        IF n = 0 THEN b
        ELSE IF c[n - 1] # 0 /\ Cardinality(bs[c[n - 1]].to) = 1
             THEN CHOOSE s \in bs[c[n - 1]].to : TRUE ELSE 0
  IN {c[n] : n \in 1..Len(bs)} \ {0}

LEMMA SameChains ==
  ASSUME blocks' = blocks
  PROVE  \A b : Chain(b)' = Chain(b)
<1> SUFFICES ASSUME NEW b PROVE Chain(b)' = Chain(b)
  OBVIOUS
<1>1. Chain(b) = ChainOf(blocks, b)
  BY DEF Chain, ChainOf, Only, Succs
<1>2. Chain(b)' = ChainOf(blocks', b)
  BY DEF Chain, ChainOf, Only, Succs
<1> QED BY <1>1, <1>2

LEMMA SameDrops ==
  ASSUME UNCHANGED <<blocks, liveIn, liveOut, moveSrc>>
  PROVE  /\ Droppable' = Droppable
         /\ \A b : EdgeDrops(b)' = EdgeDrops(b) /\ DefOf(b)' = DefOf(b)
<1>1. /\ Blocks' = Blocks /\ Owned' = Owned
      /\ \A b : Succs(b)' = Succs(b)
      /\ \A b, v : Holds(b, v)' = Holds(b, v)
  BY SameBody
<1>2. \A b : DefOf(b)' = DefOf(b)
  BY DEF DefOf, InstsOf, Index
<1>3. Droppable' = Droppable
  BY <1>1 DEF Droppable
<1>4. \A b : EdgeDrops(b)' = EdgeDrops(b)
  BY <1>1, <1>3 DEF EdgeDrops
<1> QED BY <1>2, <1>3, <1>4

LEMMA SoundSame ==
  ASSUME NEW n, NEW bs, NEW cs, Sound(bs, n),
         \A b \in 1..n :
           /\ Len(bs[b].insts) \in Nat
           /\ cs[b].term = bs[b].term /\ cs[b].to = bs[b].to
           /\ Len(cs[b].insts) = Len(bs[b].insts)
           /\ \A i \in 1..Len(bs[b].insts) :
                LET x == bs[b].insts[i]
                    y == cs[b].insts[i]
                IN /\ y.dst = x.dst /\ y.src = x.src /\ y.into = x.into
                   /\ y = x \/ (x.op \in {"move", "clone"} /\ y.op \in {"move", "clone"})
  PROVE  Sound(cs, n)
<1>1. \A v : Assigned(bs, n, v) => Assigned(cs, n, v)
  BY DEF Assigned, AssignsFrom
<1>2. \A v : Created(bs, n, v) => Created(cs, n, v)
  BY DEF Created, Creates
<1>3. ASSUME NEW b \in 1..n PROVE FirstNamed(cs[b].insts)
  <2>1. FirstNamed(bs[b].insts)
    BY DEF Sound
  <2> SUFFICES ASSUME NEW i \in 1..Len(cs[b].insts), cs[b].insts[i].dst # NoVal, NEW j \in 1..i - 1,
                      cs[b].insts[i].dst \in NamesOf(cs[b].insts[j])
               PROVE  FALSE
    BY DEF FirstNamed
  <2>2. i \in 1..Len(bs[b].insts) /\ j \in 1..Len(bs[b].insts)
    OBVIOUS
  <2>3. cs[b].insts[i].dst = bs[b].insts[i].dst /\ NamesOf(cs[b].insts[j]) = NamesOf(bs[b].insts[j])
    BY <2>2 DEF NamesOf
  <2> QED BY <2>1, <2>2, <2>3 DEF FirstNamed
<1>4. ASSUME NEW b \in 1..n, NEW i \in 1..Len(cs[b].insts), cs[b].insts[i].into # NoVal
      PROVE  /\ Created(cs, n, cs[b].insts[i].into)
             /\ Assigned(cs, n, cs[b].insts[i].into) \/ DropBefore(cs[b].insts, i)
  <2>1. i \in 1..Len(bs[b].insts) /\ cs[b].insts[i].into = bs[b].insts[i].into
    BY <1>4
  <2>2. /\ Created(bs, n, bs[b].insts[i].into)
        /\ Assigned(bs, n, bs[b].insts[i].into) \/ DropBefore(bs[b].insts, i)
    BY <1>4, <2>1 DEF Sound
  <2>3. DropBefore(bs[b].insts, i) => DropBefore(cs[b].insts, i)
    <3> SUFFICES ASSUME DropBefore(bs[b].insts, i) PROVE DropBefore(cs[b].insts, i)
      OBVIOUS
    <3>1. i - 1 \in 1..Len(bs[b].insts) /\ bs[b].insts[i - 1] = Op("drop", bs[b].insts[i].into)
      BY DEF DropBefore
    <3>2. bs[b].insts[i - 1].op \notin {"move", "clone"}
      BY <3>1 DEF Op
    <3>3. cs[b].insts[i - 1] = bs[b].insts[i - 1]
      BY <3>1, <3>2
    <3> QED BY <2>1, <3>1, <3>3 DEF DropBefore
  <2> QED BY <1>1, <1>2, <2>1, <2>2, <2>3
<1>5. \A b \in 1..n : cs[b].term # "br" => cs[b].to = {}
  BY DEF Sound
<1> QED BY <1>3, <1>4, <1>5 DEF Sound

LEMMA SoundInit == Init => SoundInv
<1> SUFFICES ASSUME Init PROVE SoundInv
  OBVIOUS
<1>1. phase = "lower" /\ LowerInit
  BY DEF Init
<1>2. Tidy
  BY <1>1, InitTidy
<1> QED BY <1>1, <1>2 DEF SoundInv, Placed

LEMMA SoundAnalyze == ASSUME LiveInv, RouteInv, SoundInv, Analyze PROVE SoundInv'
<1>1. Shape /\ phase = "lower" /\ phase' = "live" /\ blocks' = EnsureReturn /\ open = <<>>
  BY DEF LiveInv, AnalysisOK, Analyze
<1>2. Graph(EnsureReturn, Len(blocks)) /\ Len(blocks) \in Nat
  BY <1>1, EnsureReturnGood DEF Shape
<1>3. Len(blocks') = Len(blocks)
  BY <1>1, <1>2, FunIsSeq DEF Graph
<1>4. Sound(EnsureReturn, Len(blocks))
  BY <1>1, EnsureReturnSound DEF RouteInv, SoundInv
<1> QED BY <1>1, <1>3, <1>4 DEF SoundInv, Placed

LEMMA SoundCopies == ASSUME LiveInv, SoundInv, DecideCopies PROVE SoundInv'
<1> DEFINE n == Len(blocks)
<1>1. Shape /\ phase = "copies" /\ phase' = "spawns"
  BY DEF LiveInv, AnalysisOK, DecideCopies
<1>2. /\ Blocks' = Blocks /\ Blocks = 1..n
      /\ \A b \in Blocks : /\ Index(b)' = Index(b) /\ Succs(b)' = Succs(b)
                           /\ \A i \in Index(b) : InstsOf(b)'[i] = Rewritten(b, i)
      /\ Shape'
  BY <1>1, CopiesKeepGraph DEF Blocks
<1>3. Len(blocks') = n
  <2>1. n \in Nat \ {0} /\ Len(blocks') \in Nat \ {0} /\ 1..Len(blocks') = 1..n
    BY <1>1, <1>2 DEF Shape, Blocks
  <2> HIDE DEF n
  <2> QED BY <2>1
<1>4. ASSUME NEW b \in Blocks
      PROVE  /\ Len(blocks[b].insts) \in Nat
             /\ blocks'[b].term = blocks[b].term /\ blocks'[b].to = blocks[b].to
             /\ Len(blocks'[b].insts) = Len(blocks[b].insts)
             /\ \A i \in 1..Len(blocks[b].insts) :
                  LET x == blocks[b].insts[i]
                      y == blocks'[b].insts[i]
                  IN /\ y.dst = x.dst /\ y.src = x.src /\ y.into = x.into
                     /\ y = x \/ (x.op \in {"move", "clone"} /\ y.op \in {"move", "clone"})
  <2>1. Len(blocks[b].insts) \in Nat /\ Index(b) = 1..Len(blocks[b].insts)
    BY <1>1, InsideLocal DEF InstsOf
  <2>2. Len(blocks'[b].insts) \in Nat /\ Index(b)' = 1..Len(blocks'[b].insts)
    <3>1. \A c \in Blocks : Len(InstsOf(c)) \in Nat /\ Index(c) = 1..Len(InstsOf(c))
      BY <1>1, InsideLocal
    <3>2. blocks' \in [1..n -> GoodBlock(n)]
      BY <1>2, <1>3 DEF Shape, Graph
    <3>3. blocks'[b].insts \in Seq(GoodInst)
      BY <1>2, <3>2 DEF GoodBlock
    <3> QED BY <3>3, LenProperties DEF Index
  <2>3. Len(blocks'[b].insts) = Len(blocks[b].insts)
    BY <1>2, <2>1, <2>2
  <2>4. blocks'[b].to = blocks[b].to
    BY <1>2 DEF Succs
  <2>5. blocks'[b].term = blocks[b].term
    <3>1. blocks'[b] = [blocks[b] EXCEPT !.insts = [i \in Index(b) |-> Rewritten(b, i)]]
      BY DEF DecideCopies
    <3>2. blocks[b] \in GoodBlock(n)
      BY <1>1, <1>2 DEF Shape, Graph
    <3> QED BY <3>1, <3>2 DEF GoodBlock
  <2>6. ASSUME NEW i \in Index(b)
        PROVE  LET x == blocks[b].insts[i]
                   y == blocks'[b].insts[i]
               IN /\ y.dst = x.dst /\ y.src = x.src /\ y.into = x.into
                  /\ y = x \/ (x.op \in {"move", "clone"} /\ y.op \in {"move", "clone"})
    <3> DEFINE x == InstsOf(b)[i]
               y == Rewritten(b, i)
    <3>1. y.dst = x.dst /\ y.src = x.src /\ y.into = x.into
      BY <1>1, RewrittenGood
    <3>2. y = x \/ (x.op \in {"move", "clone"} /\ y.op \in {"move", "clone"})
      BY <1>1, RewrittenForm DEF IsCopy
    <3>3. blocks[b].insts[i] = x /\ blocks'[b].insts[i] = y
      BY <1>2 DEF InstsOf
    <3> QED BY <3>1, <3>2, <3>3
  <2> QED BY <2>1, <2>3, <2>4, <2>5, <2>6
<1>5. Sound(blocks', Len(blocks'))
  <2>1. Sound(blocks, n)
    BY <1>1 DEF SoundInv
  <2> QED BY <1>2, <1>3, <1>4, <2>1, SoundSame
<1> QED BY <1>1, <1>5 DEF SoundInv, Placed

LEMMA SoundPlace == ASSUME LiveInv, SoundInv, PlaceDrops PROVE SoundInv'
<1>1. /\ Shape /\ phase = "drops" /\ phase' \in {"run", "rejected"}
      /\ UNCHANGED <<blocks, liveIn, liveOut, moveSrc>>
      /\ dropStart' = [b \in Blocks |-> {v \in EdgeDrops(b) : <<b, v>> \in Kept}]
  BY DEF LiveInv, AnalysisOK, PlaceDrops, lowering
<1>2. /\ Blocks' = Blocks
      /\ \A b : EdgeDrops(b)' = EdgeDrops(b) /\ Chain(b)' = Chain(b)
  BY <1>1, SameBody, SameDrops, SameChains
<1>3. ASSUME NEW b \in Blocks, NEW v \in EdgeDrops(b) \ dropStart'[b]
      PROVE  \E s \in Chain(b) : v \in EdgeDrops(s)
  <2>1. v \in EdgeDrops(b) /\ <<b, v>> \notin Kept
    BY <1>1
  <2> QED BY <1>1, <2>1, KeptOrLater
<1>4. \A b \in Blocks' : \A v \in EdgeDrops(b)' \ dropStart'[b] : \E s \in Chain(b)' : v \in EdgeDrops(s)'
  BY <1>2, <1>3
<1>5. Sound(blocks', Len(blocks'))
  BY <1>1 DEF SoundInv
<1> QED BY <1>1, <1>4, <1>5 DEF SoundInv

LEMMA SoundKept ==
  ASSUME SoundInv, UNCHANGED <<blocks, liveIn, liveOut, moveSrc, dropStart>>,
         phase # "lower", phase' # "lower", phase' \in Placed => phase \in Placed
  PROVE  SoundInv'
<1>1. /\ Blocks' = Blocks
      /\ \A b : EdgeDrops(b)' = EdgeDrops(b) /\ Chain(b)' = Chain(b)
  BY SameBody, SameDrops, SameChains
<1> QED BY <1>1 DEF SoundInv

LEMMA SoundNext == ASSUME LiveInv, RouteInv, SoundInv, [Next]_vars PROVE SoundInv'
<1>0. Shape
  BY DEF LiveInv, AnalysisOK
<1>1. CASE Statement
  <2>1. Tidy /\ Lower /\ phase = "lower" /\ phase' = phase
    BY <1>1 DEF Statement, SoundInv, analysis
  <2>2. Tidy'
    BY <1>0, <2>1, LowerTidy
  <2> QED BY <2>1, <2>2 DEF SoundInv, Placed
<1>2. CASE Analyze
  BY <1>2, SoundAnalyze
<1>3. CASE Visit \/ EndPass
  <2>1. phase # "lower" /\ phase' \in {"live", "copies"} /\ blocks' = blocks
    BY <1>3 DEF Visit, EndPass, lowering
  <2> QED BY <2>1 DEF SoundInv, Placed
<1>4. CASE DecideCopies
  BY <1>4, SoundCopies
<1>5. CASE DecideSpawns
  <2>1. phase = "spawns" /\ phase' = "drops" /\ blocks' = blocks
    BY <1>5 DEF DecideSpawns, lowering
  <2> QED BY <2>1 DEF SoundInv, Placed
<1>6. CASE PlaceDrops
  BY <1>6, SoundPlace
<1>7. CASE Step \/ Leave
  BY <1>7, SoundKept DEF Step, Leave, Running, lowering, analysis
<1>8. CASE Exit
  BY <1>8, SoundKept DEF Exit, Running, lowering, Placed
<1>9. ASSUME NEW i \in DOMAIN tasks, RunTask(i) PROVE SoundInv'
  BY <1>9, SoundKept DEF RunTask, lowering, analysis
<1>10. CASE UNCHANGED vars
  <2>1. UNCHANGED <<blocks, phase, moveSrc, liveIn, liveOut, dropStart, locals, moved>>
    BY <1>10 DEF vars, lowering, analysis
  <2>2. CASE phase = "lower"
    <3>1. Tidy'
      BY <2>1, <2>2 DEF SoundInv, Tidy
    <3> QED BY <2>1, <2>2, <3>1 DEF SoundInv, Placed
  <2> QED BY <2>1, <2>2, SoundKept
<1> QED BY <1>1, <1>2, <1>3, <1>4, <1>5, <1>6, <1>7, <1>8, <1>9, <1>10 DEF Next

\* What excuses the loss of v's buffer, and what a drop has done to it.
Explained(v) == v \in moveSrc \/ MovedInto(v) \/ Removed(v)
Disposed(v) == v \in gone \/ JustDropped(v)

\* From b on every block has one successor and leaves the slot of v alone, up to a drop of
\* v at an edge.
Owed(b, v) ==
  \E X \in SUBSET Blocks :
    /\ b \in X
    /\ \A c \in X : v \notin DefOf(c)
                    /\ \E s \in Blocks : Succs(c) = {s} /\ (s \in X \/ v \in EdgeDrops(s))
\* The drop of what the slot of v holds is still to come.
Due(b, i, v) ==
  \/ v \in liveIn[b]
  \/ \E j \in Index(b) : j < i /\ InstsOf(b)[j].dst = v
  \/ Owed(b, v)

\* While the body runs: a buffer has one reference besides those of the tasks, and none
\* after the drop of a local that holds it; a local that was not dropped will be; a task
\* whose argument has another buffer has the only reference to its own.
OneOwner == \A n \in Buf : rc[n] <= 1 + TaskRefs(n)
Unowned(n) == rc[n] <= TaskRefs(n)
DisposedFree == \A v \in Local, n \in Buf :
                  ~Explained(v) /\ Disposed(v) /\ slot[v] = n => Unowned(n)
DueNow(v) == Due(pc.b, pc.i, v)
HeldDue == \A v \in Local :
             ~Explained(v) /\ ~Disposed(v) /\ slot[v] # 0 => v \in Owned /\ DueNow(v)
TasksOwn == \A k \in DOMAIN tasks, n \in Buf :
              ~Explained(tasks[k].arg) /\ tasks[k].buf = n /\ slot[tasks[k].arg] # n => Unowned(n)

LeakInv ==
  /\ Running => OneOwner /\ DisposedFree /\ HeldDue /\ TasksOwn
  /\ phase = "done" /\ fault = NoFault => \A n \in Buf : Unowned(n)
  /\ phase \notin {"run", "done"} => lost = {} /\ rc = [n \in Buf |-> 0]

\* Everything known about a body whose losses are to be explained.
LossInv == RunInv /\ RouteInv /\ SoundInv /\ LeakInv

-----------------------------------------------------------------------------
LEMMA SameDue ==
  ASSUME UNCHANGED <<blocks, liveIn, liveOut, moveSrc, dropStart>>
  PROVE  /\ Owned' = Owned
         /\ \A v : Explained(v)' <=> Explained(v)
         /\ \A b, i, v : Due(b, i, v)' <=> Due(b, i, v)
<1>1. /\ Blocks' = Blocks /\ Owned' = Owned
      /\ \A b : Index(b)' = Index(b) /\ InstsOf(b)' = InstsOf(b) /\ Succs(b)' = Succs(b)
  BY SameBody
<1>2. /\ \A b : EdgeDrops(b)' = EdgeDrops(b) /\ DefOf(b)' = DefOf(b) /\ Chain(b)' = Chain(b)
  BY SameDrops, SameChains
<1>3. \A v : MovedInto(v)' <=> MovedInto(v)
  BY <1>1 DEF MovedInto, IsCopy
<1>4. \A v : Removed(v)' <=> Removed(v)
  BY <1>1, <1>2 DEF Removed
<1>5. \A b, v : Owed(b, v)' <=> Owed(b, v)
  BY <1>1, <1>2 DEF Owed
<1>6. \A b, i, v : Due(b, i, v)' <=> Due(b, i, v)
  BY <1>1, <1>5 DEF Due
<1> QED BY <1>1, <1>3, <1>4, <1>6 DEF Explained

\* A later drop on the chain, and no write on the way.
LEMMA ChainOwes ==
  ASSUME Shape, NEW b \in Blocks, NEW v, NEW t \in Chain(b), v \in EdgeDrops(t),
         \A c \in {b} \cup Chain(b) : v \notin DefOf(c)
  PROVE  Owed(b, v)
<1>1. PICK c : Walk(b, c)
  BY ChainWalk
<1>2. Len(blocks) \in Nat
  BY DEF Shape
<1>3. PICK m \in 1..Len(blocks) : c[m] = t
  BY <1>1 DEF Walk
<1>4. m \in Nat /\ m # 0 /\ c[m] # 0
  BY <1>1, <1>2, <1>3 DEF Walk
<1> DEFINE X == {c[k] : k \in 0..m - 1}
<1>5. c[0] = b /\ 0 \in 0..m - 1
  BY <1>1, <1>4 DEF Walk
<1>6. ASSUME NEW k \in 0..m - 1
      PROVE  /\ c[k] \in Blocks /\ v \notin DefOf(c[k])
             /\ \E s \in Blocks : Succs(c[k]) = {s} /\ (s \in X \/ v \in EdgeDrops(s))
  <2>1. k \in Nat /\ k + 1 \in Nat /\ c[k] \in Blocks /\ Succs(c[k]) = {c[k + 1]}
    BY <1>1, <1>4, WalkFacts
  <2>2. c[k + 1] \in Blocks
    BY <2>1, InsideLocal
  <2>3. v \notin DefOf(c[k])
    <3>1. k = 0 \/ k \in 1..Len(blocks)
      BY <1>2, <1>4, <2>1
    <3>2. c[k] # 0
      BY <2>1, <1>2 DEF Blocks
    <3> QED BY <1>1, <1>5, <3>1, <3>2 DEF Walk
  <2>4. k + 1 = m \/ k + 1 \in 0..m - 1
    BY <1>4, <2>1
  <2>5. c[k + 1] \in X \/ v \in EdgeDrops(c[k + 1])
    BY <1>3, <2>4
  <2> QED BY <2>1, <2>2, <2>3, <2>5
<1>7. /\ X \in SUBSET Blocks /\ b \in X
      /\ \A d \in X : v \notin DefOf(d)
                      /\ \E s \in Blocks : Succs(d) = {s} /\ (s \in X \/ v \in EdgeDrops(s))
  BY <1>5, <1>6
<1> QED BY <1>7 DEF Owed

\* What is due at the end of a block is dropped there, dropped at the edge, or due in the
\* next block.
LEMMA DueAtEnd ==
  ASSUME LossInv, Running, pc.i \notin Index(pc.b), NEW v \in Owned, ~Explained(v),
         Due(pc.b, pc.i, v)
  PROVE  /\ Succs(pc.b) = {} => v \in dropEnd[pc.b]
         /\ \A s \in Succs(pc.b) : v \in dropEnd[pc.b] \cup dropStart[s] \/ Due(s, 1, v)
<1> DEFINE b == pc.b
<1>1. /\ Shape /\ b \in Blocks /\ phase = "run" /\ phase \in Placed
      /\ \A c \in Blocks : liveIn[c] = InOf(c) /\ liveOut[c] = OutOf(c)
      /\ \A c \in Blocks : dropEnd[c] = EndDrops(c)
      /\ \A c \in Blocks : \A w \in EdgeDrops(c) \ dropStart[c] : \E s \in Chain(c) : w \in EdgeDrops(s)
  BY DEF LossInv, RunInv, LiveInv, AnalysisOK, DropInv, Stable, Solved, BodyInv, DropsPlaced,
         SoundInv, Running, Placed
<1>2. v \in Droppable /\ ~Removed(v)
  BY DEF Explained, Droppable
<1>3. ASSUME NEW s \in Blocks, v \in EdgeDrops(s), v \notin dropStart[s]
      PROVE  Due(s, 1, v)
  <2>1. PICK t \in Chain(s) : v \in EdgeDrops(t)
    BY <1>1, <1>3
  <2>2. \A c \in {s} \cup Chain(s) : v \notin DefOf(c)
    BY <1>2, <1>3 DEF Removed
  <2>3. Owed(s, v)
    BY <1>1, <1>3, <2>1, <2>2, ChainOwes
  <2> QED BY <2>3 DEF Due
<1>4. Succs(b) \subseteq Blocks
  BY <1>1, InsideLocal
<1>5. CASE Owed(b, v)
  <2>1. PICK X \in SUBSET Blocks :
          /\ b \in X
          /\ \A c \in X : v \notin DefOf(c)
                          /\ \E s \in Blocks : Succs(c) = {s} /\ (s \in X \/ v \in EdgeDrops(s))
    BY <1>5 DEF Owed
  <2>2. PICK s \in Blocks : Succs(b) = {s} /\ (s \in X \/ v \in EdgeDrops(s))
    BY <2>1
  <2>3. s \in X => Due(s, 1, v)
    BY <2>1 DEF Owed, Due
  <2> QED BY <1>3, <2>2, <2>3
<1>6. CASE Holds(b, v)
  <2>1. v \in dropEnd[b] \/ v \in liveOut[b]
    BY <1>1, <1>2, <1>6 DEF EndDrops
  <2>2. v \in liveOut[b] => Succs(b) # {}
    BY <1>1 DEF OutOf
  <2>3. ASSUME NEW s \in Succs(b), v \in liveOut[b] PROVE v \in dropStart[s] \/ Due(s, 1, v)
    <3>1. CASE v \in liveIn[s]
      BY <3>1 DEF Due
    <3>2. CASE v \notin liveIn[s]
      <4>1. v \in EdgeDrops(s)
        BY <1>1, <1>2, <1>6, <2>3, <3>2 DEF EdgeDrops
      <4> QED BY <1>3, <1>4, <4>1
    <3> QED BY <3>1, <3>2
  <2> QED BY <2>1, <2>2, <2>3
<1>7. Owed(b, v) \/ Holds(b, v)
  <2>1. v \in Local /\ v # NoVal
    <3>1. \A c \in Blocks : DefOf(c) \subseteq Local
      BY <1>1, InsideLocal
    <3> QED BY <3>1, LocalAssumption DEF Owned
  <2> QED BY <2>1 DEF Due, Holds, DefOf
<1> QED BY <1>5, <1>6, <1>7

-----------------------------------------------------------------------------
RunFacts == OneOwner /\ DisposedFree /\ HeldDue /\ TasksOwn

LEMMA OnwardDue ==
  ASSUME LossInv, Running, pc.i \in Index(pc.b), Onward
  PROVE  /\ Owned' = Owned
         /\ \A v : Explained(v)' <=> Explained(v)
         /\ \A v : DueNow(v) => DueNow(v)'
         /\ \A v : InstsOf(pc.b)[pc.i].dst = v => DueNow(v)'
<1>1. UNCHANGED <<blocks, liveIn, liveOut, moveSrc, dropStart>>
  BY DEF Onward, lowering, analysis
<1>2. pc'.b = pc.b /\ pc'.i = pc.i + 1 /\ pc.i \in Nat
  BY OnwardFacts DEF LossInv, RunInv, DropInv
<1>3. pc.b \in Blocks /\ \A j \in Index(pc.b) : j \in Nat
  BY InsideLocal DEF LossInv, RunInv, LiveInv, AnalysisOK, DropInv
<1>4. \A v : Due(pc.b, pc.i, v) => Due(pc.b, pc.i + 1, v)
  BY <1>2, <1>3 DEF Due
<1>5. \A v : InstsOf(pc.b)[pc.i].dst = v => Due(pc.b, pc.i + 1, v)
  BY <1>2 DEF Due
<1>6. \A v : DueNow(v)' <=> Due(pc.b, pc.i + 1, v)
  BY <1>1, <1>2, SameDue DEF DueNow
<1> QED BY <1>1, <1>4, <1>5, <1>6, SameDue DEF DueNow

\* An instruction that writes no slot.
LEMMA UseHeld ==
  ASSUME LossInv, Running, pc.i \in Index(pc.b), Onward, NEW x, x = InstsOf(pc.b)[pc.i],
         x.op \in {"read", "write", "drop", "run"}, UNCHANGED <<slot, gone>>
  PROVE  /\ HeldDue'
         /\ \A v : Disposed(v)' => Disposed(v) \/ (x.op = "drop" /\ v = x.src)
<1>1. RunInv /\ HeldDue
  BY DEF LossInv, LeakInv
<1>2. \A v : ~JustDropped(v)
  BY <1>1, StepFacts
<1>3. \A v : JustDropped(v)' <=> x = Op("drop", v)
  BY <1>1, OnwardFacts
<1>4. ASSUME NEW v, Disposed(v)' PROVE Disposed(v) \/ (x.op = "drop" /\ v = x.src)
  <2>1. v \in gone \/ x = Op("drop", v)
    BY <1>3, <1>4 DEF Disposed
  <2> QED BY <2>1 DEF Disposed, Op
<1>5. \A v : ~Disposed(v)' => ~Disposed(v)
  BY <1>2 DEF Disposed
<1>6. HeldDue'
  BY <1>1, <1>5, OnwardDue DEF HeldDue
<1> QED BY <1>4, <1>6

\* Counts that fall, or stay, with the references of the tasks.
LEMMA CountsFall ==
  ASSUME LossInv, Running, pc.i \in Index(pc.b), Onward, HeldDue', UNCHANGED slot,
         DOMAIN tasks' = DOMAIN tasks,
         \A k \in DOMAIN tasks : tasks'[k].buf = tasks[k].buf /\ tasks'[k].arg = tasks[k].arg,
         \A n \in Buf : rc'[n] \in Int /\ rc'[n] <= rc[n],
         \A v \in Local, n \in Buf : Disposed(v)' /\ slot[v] = n => Disposed(v) \/ rc'[n] < rc[n]
  PROVE  RunFacts'
<1>1. /\ OneOwner /\ DisposedFree /\ TasksOwn
      /\ \A n \in Buf : rc[n] \in Nat /\ TaskRefs(n) \in Nat
  BY RefsFinite DEF LossInv, LeakInv, RunInv, HeapOK
<1>2. (\A n : TaskRefs(n)' = TaskRefs(n)) /\ \A v : Explained(v)' <=> Explained(v)
  BY SameRefs, OnwardDue
<1>3. \A n \in Buf : Unowned(n) \/ rc'[n] < rc[n] => Unowned(n)'
  BY <1>1, <1>2 DEF Unowned, OneOwner
<1>4. OneOwner'
  BY <1>1, <1>2 DEF OneOwner, Buf
<1>5. DisposedFree'
  BY <1>1, <1>2, <1>3 DEF DisposedFree, Buf
<1>6. TasksOwn'
  BY <1>1, <1>2, <1>3 DEF TasksOwn, Buf
<1> QED BY <1>4, <1>5, <1>6 DEF RunFacts

LEMMA UseLeaks ==
  ASSUME LossInv, Running, pc.i \in Index(pc.b), Onward, NEW x, x = InstsOf(pc.b)[pc.i],
         x.op \in {"read", "write"}, UNCHANGED <<slot, gone, rc>>, DOMAIN tasks' = DOMAIN tasks,
         \A k \in DOMAIN tasks : tasks'[k].buf = tasks[k].buf /\ tasks'[k].arg = tasks[k].arg
  PROVE  RunFacts'
<1>1. HeldDue' /\ \A v : Disposed(v)' => Disposed(v)
  BY UseHeld
<1>2. rc' = rc /\ \A n \in Buf : rc[n] \in Nat
  BY DEF LossInv, RunInv, HeapOK
<1> QED BY <1>1, <1>2, CountsFall

LEMMA DropLeaks ==
  ASSUME LossInv, Running, pc.i \in Index(pc.b), Onward, NEW x, x = InstsOf(pc.b)[pc.i],
         x.op = "drop", Drop(x.src), fault' = NoFault
  PROVE  RunFacts' /\ lost' = lost
<1>1. HeapOK /\ RunInv
  BY DEF LossInv, RunInv
<1>2. x.src \in Local /\ slot[x.src] \in Buf \cup {0}
  BY <1>1, StepFacts DEF GoodInst, HeapOK
<1>3. /\ rc' = IF slot[x.src] = 0 THEN rc ELSE [rc EXCEPT ![slot[x.src]] = @ - 1]
      /\ UNCHANGED <<slot, tasks, gone, lost>>
  BY DEF Drop, Fault, NoFault
<1>4. HeldDue' /\ \A v : Disposed(v)' => Disposed(v) \/ v = x.src
  BY <1>3, UseHeld
<1>5. \A n \in Buf : /\ rc[n] \in Nat
                     /\ rc'[n] = IF n = slot[x.src] THEN rc[n] - 1 ELSE rc[n]
  <2>1. 0 \notin Buf
    BY DEF Buf
  <2> QED BY <1>1, <1>2, <1>3, <2>1 DEF HeapOK
<1>6. /\ \A n \in Buf : rc'[n] \in Int /\ rc'[n] <= rc[n]
      /\ \A v \in Local, n \in Buf : Disposed(v)' /\ slot[v] = n => Disposed(v) \/ rc'[n] < rc[n]
  BY <1>4, <1>5
<1> QED BY <1>3, <1>4, <1>6, CountsFall

\* A task is given a buffer: its reference is counted, or the count stays behind.
LEMMA AppendLeaks ==
  ASSUME LossInv, Running, pc.i \in Index(pc.b), Onward, NEW x, x = InstsOf(pc.b)[pc.i],
         x.op = "run", UNCHANGED <<slot, gone>>, NEW t \in Task, tasks' = Append(tasks, t),
         NEW n \in Buf \cup {0}, t.buf = n,
         \A m \in Buf : m # n => rc'[m] = rc[m],
         n # 0 => \/ rc'[n] \in {rc[n], rc[n] + 1} /\ slot[t.arg] = n
                  \/ rc'[n] = 1 /\ n \notin Held(slot, tasks)
  PROVE  RunFacts'
<1>1. /\ OneOwner /\ DisposedFree /\ TasksOwn /\ HeapOK
      /\ \A m \in Buf : rc[m] \in Nat /\ TaskRefs(m) \in Nat
  BY RefsFinite DEF LossInv, LeakInv, RunInv, HeapOK
<1>2. HeldDue' /\ \A u : Disposed(u)' => Disposed(u)
  BY UseHeld
<1>3. \A u : Explained(u)' <=> Explained(u)
  BY OnwardDue
<1>4. /\ \A m : TaskRefs(m)' = TaskRefs(m) + IF m = n THEN 1 ELSE 0
      /\ DOMAIN tasks' = DOMAIN tasks \cup {Len(tasks) + 1}
      /\ \A k \in DOMAIN tasks : tasks'[k] = tasks[k]
      /\ tasks'[Len(tasks) + 1] = t
  BY <1>1, AppendRefs
<1>5. n # 0 /\ n \notin Held(slot, tasks) =>
        (\A u \in Local : slot[u] # n) /\ \A k \in DOMAIN tasks : tasks[k].buf # n
  BY DEF Held
<1>6. ASSUME NEW m \in Buf
      PROVE  /\ Unowned(m) /\ (m = n => n \in Held(slot, tasks)) => Unowned(m)'
             /\ n \notin Held(slot, tasks) /\ m = n /\ slot[t.arg] # n => Unowned(m)'
             /\ rc'[m] <= 1 + TaskRefs(m)'
  <2>1. /\ rc[m] \in Nat /\ TaskRefs(m) \in Nat /\ m # 0 /\ rc[m] <= 1 + TaskRefs(m)
        /\ TaskRefs(m)' = TaskRefs(m) + IF m = n THEN 1 ELSE 0
    BY <1>1, <1>4 DEF Buf, OneOwner
  <2> QED BY <2>1 DEF Unowned
<1>7. OneOwner'
  BY <1>6 DEF OneOwner, Buf
<1>8. DisposedFree'
  <2> SUFFICES ASSUME NEW u \in Local, NEW m \in Buf, ~Explained(u), Disposed(u), slot[u] = m
               PROVE  Unowned(m)'
    BY <1>2, <1>3 DEF DisposedFree, Buf
  <2>1. Unowned(m) /\ m # 0
    BY <1>1 DEF DisposedFree, Buf
  <2> QED BY <1>5, <1>6, <2>1
<1>9. TasksOwn'
  <2> SUFFICES ASSUME NEW k \in DOMAIN tasks', NEW m \in Buf, ~Explained(tasks'[k].arg),
                      tasks'[k].buf = m, slot[tasks'[k].arg] # m
               PROVE  Unowned(m)'
    BY <1>3 DEF TasksOwn, Buf
  <2>1. CASE k \in DOMAIN tasks
    <3>1. tasks'[k] = tasks[k] /\ m # 0
      BY <1>4, <2>1 DEF Buf
    <3>2. Unowned(m)
      BY <1>1, <1>3, <2>1, <3>1 DEF TasksOwn
    <3> QED BY <1>5, <1>6, <2>1, <3>1, <3>2
  <2>2. CASE k = Len(tasks) + 1
    <3>1. tasks'[k] = t /\ m = n /\ slot[t.arg] # n /\ m # 0
      BY <1>4, <2>2 DEF Buf
    <3> QED BY <1>6, <3>1
  <2> QED BY <1>4, <2>1, <2>2
<1> QED BY <1>2, <1>7, <1>8, <1>9 DEF RunFacts

LEMMA StartLeaks ==
  ASSUME LossInv, Running, pc.i \in Index(pc.b), Onward, NEW x, x = InstsOf(pc.b)[pc.i],
         x.op = "run", Start(x.src), fault' = NoFault
  PROVE  RunFacts' /\ lost' = lost
<1> DEFINE v == x.src
           share == v \in spawnMoves \cup spawnRetains
<1>1. PICK n : n = IF share THEN slot[v] ELSE Fresh
  OBVIOUS
<1>2. PICK t : t = [buf |-> n, arg |-> v, stale |-> FALSE]
  OBVIOUS
<1>3. HeapOK /\ RunInv
  BY DEF LossInv, RunInv
<1>4. v \in Local /\ slot[v] \in Buf \cup {0} /\ Fresh \in Buf /\ Fresh \notin Held(slot, tasks)
  BY <1>3, StepFacts, FreshExists DEF GoodInst, HeapOK
<1>5. /\ tasks' = Append(tasks, t) /\ UNCHANGED <<slot, gone, lost>>
      /\ rc' = IF ~share THEN [rc EXCEPT ![n] = 1]
               ELSE IF v \in spawnRetains /\ n # 0 THEN [rc EXCEPT ![n] = @ + 1]
               ELSE rc
  BY <1>1, <1>2 DEF Start, Fault, NoFault
<1>6. t \in Task /\ n \in Buf \cup {0} /\ t.buf = n /\ t.arg = v
  BY <1>1, <1>2, <1>4 DEF Task
<1>7. \A m \in Buf : m # n => rc'[m] = rc[m]
  BY <1>3, <1>5 DEF HeapOK
<1>8. n # 0 => \/ rc'[n] \in {rc[n], rc[n] + 1} /\ slot[t.arg] = n
               \/ rc'[n] = 1 /\ n \notin Held(slot, tasks)
  BY <1>1, <1>3, <1>4, <1>5, <1>6 DEF HeapOK
<1> QED BY <1>5, <1>6, <1>7, <1>8, AppendLeaks

\* The instruction about to run, in a sound body.
LEMMA SoundHere ==
  ASSUME LossInv, Running, pc.i \in Index(pc.b), NEW x, x = InstsOf(pc.b)[pc.i]
  PROVE  /\ FirstNamed(InstsOf(pc.b))
         /\ \A v \in Local : Assigned(blocks, Len(blocks), v) => MovedInto(v)
         /\ \A v \in Local : Created(blocks, Len(blocks), v) => v \in Owned
         /\ \A j \in Index(pc.b) : InstsOf(pc.b)[j].into # NoVal =>
              /\ Created(blocks, Len(blocks), InstsOf(pc.b)[j].into)
              /\ \/ Assigned(blocks, Len(blocks), InstsOf(pc.b)[j].into)
                 \/ DropBefore(InstsOf(pc.b), j)
<1>1. pc.b \in 1..Len(blocks) /\ Sound(blocks, Len(blocks))
  BY DEF LossInv, RunInv, DropInv, SoundInv, Running, Blocks
<1>2. \A v \in Local : Assigned(blocks, Len(blocks), v) => MovedInto(v)
  BY LocalAssumption DEF Assigned, AssignsFrom, MovedInto, IsCopy, Blocks, Index, InstsOf
<1>3. \A v \in Local : Created(blocks, Len(blocks), v) => v \in Owned
  BY LocalAssumption DEF Created, Creates, Owned, DefOf, Blocks, Index, InstsOf
<1> QED BY <1>1, <1>2, <1>3 DEF Sound, Index, InstsOf

\* The value an instruction creates is not due before: no block names it earlier, and no
\* block that leaves its slot alone creates it.
LEMMA CreateNotDue ==
  ASSUME LossInv, Running, pc.i \in Index(pc.b), NEW x, x = InstsOf(pc.b)[pc.i],
         NEW w \in Local, x.dst = w, ~Explained(w)
  PROVE  ~DueNow(w)
<1> DEFINE b == pc.b
           is == InstsOf(pc.b)
<1>1. /\ Shape /\ b \in Blocks /\ liveIn[b] = InOf(b) /\ Formed(x)
  BY StepFacts DEF LossInv, RunInv, LiveInv, Stable, Solved, Running
<1>2. Index(b) = 1..Len(is) /\ Len(is) \in Nat /\ w # NoVal
  BY <1>1, InsideLocal, LocalAssumption
<1>3. ASSUME NEW i \in Index(b), is[i].dst = w, NEW j \in 1..i - 1 PROVE w \notin NamesOf(is[j])
  BY <1>2, <1>3, SoundHere DEF FirstNamed
<1>4. w \in DefOf(b)
  BY <1>2 DEF DefOf
<1>5. ASSUME NEW j \in Index(b), w \in Args(is[j]) PROVE \E k \in 1..j - 1 : is[k].dst = w
  <2>1. w \in NamesOf(is[j])
    BY <1>5 DEF Args, NamesOf
  <2>2. j \notin 1..pc.i - 1
    BY <1>3, <2>1
  <2>3. CASE j = pc.i
    <3>1. x.src # w
      BY <1>1, <1>2 DEF Formed
    <3>2. x.into = w
      BY <1>5, <2>3, <3>1 DEF Args
    <3>3. DropBefore(is, pc.i)
      BY <1>2, <2>3, <3>2, SoundHere DEF Explained
    <3>4. pc.i - 1 \in 1..pc.i - 1 /\ is[pc.i - 1] = Op("drop", w)
      BY <1>2, <3>2, <3>3 DEF DropBefore
    <3>5. w \in NamesOf(is[pc.i - 1])
      BY <1>2, <3>4 DEF NamesOf, Op
    <3> QED BY <1>3, <3>4, <3>5
  <2>4. CASE j # pc.i
    <3>1. pc.i \in 1..j - 1
      BY <1>2, <2>2, <2>4
    <3> QED BY <3>1
  <2> QED BY <2>3, <2>4
<1>6. w \notin liveIn[b]
  BY <1>1, <1>4, <1>5 DEF InOf, UseOf
<1>7. ~\E j \in Index(b) : j < pc.i /\ is[j].dst = w
  <2> SUFFICES ASSUME NEW j \in Index(b), j < pc.i, is[j].dst = w PROVE FALSE
    OBVIOUS
  <2>1. j \in 1..pc.i - 1 /\ w \in NamesOf(is[j])
    BY <1>2 DEF NamesOf
  <2> QED BY <1>3, <2>1
<1>8. ~Owed(b, w)
  BY <1>4 DEF Owed
<1> QED BY <1>6, <1>7, <1>8 DEF DueNow, Due

\* A slot that is overwritten, of a local without an excuse, holds nothing its owner keeps.
LEMMA OldUnowned ==
  ASSUME LossInv, Running, pc.i \in Index(pc.b), NEW x, x = InstsOf(pc.b)[pc.i],
         x.op \in {"new", "clone", "move"}, NEW w, w = Target(x), ~Explained(w),
         NEW m \in Buf, slot[w] = m
  PROVE  Unowned(m)
<1>1. x \in GoodInst /\ HeldDue /\ DisposedFree /\ m # 0
  BY StepFacts DEF LossInv, LeakInv, Buf
<1>2. w \in Local /\ w # NoVal
  BY <1>1, LocalAssumption DEF GoodInst, Inst, Target
<1>3. CASE Disposed(w)
  BY <1>1, <1>2, <1>3 DEF DisposedFree
<1>4. CASE ~Disposed(w)
  <2>1. DueNow(w)
    BY <1>1, <1>2, <1>4 DEF HeldDue
  <2>2. x.dst # w
    BY <1>2, <2>1, CreateNotDue
  <2>3. x.into = w
    BY <1>1, <2>2 DEF Target
  <2>4. DropBefore(InstsOf(pc.b), pc.i)
    BY <1>2, <2>3, SoundHere DEF Explained
  <2>5. JustDropped(w)
    BY <2>3, <2>4 DEF DropBefore, JustDropped, Index, InstsOf
  <2> QED BY <1>4, <2>5 DEF Disposed
<1> QED BY <1>3, <1>4

LEMMA OverwriteLeaks ==
  ASSUME LossInv, Running, pc.i \in Index(pc.b), Onward, NEW x, x = InstsOf(pc.b)[pc.i],
         x.op \in {"new", "clone", "move"}, NEW w, w = Target(x),
         NEW n \in Buf \cup {0}, NEW c, Overwrite(w, n, c),
         n # 0 => c = rc[n] \/ (c = 1 /\ n \notin Held(slot, tasks))
  PROVE  RunFacts' /\ \A v \in lost' : v \in lost \/ Explained(v)
<1>1. /\ OneOwner /\ DisposedFree /\ HeldDue /\ TasksOwn /\ HeapOK /\ RunInv
      /\ \A m \in Buf : rc[m] \in Nat /\ TaskRefs(m) \in Nat /\ m # 0
  <2>1. 0 \notin Buf
    BY DEF Buf
  <2> QED BY <2>1, RefsFinite DEF LossInv, LeakInv, RunInv, HeapOK
<1>2. x \in GoodInst /\ w \in Local /\ w # NoVal
  <2>1. x \in GoodInst
    BY <1>1, StepFacts
  <2> QED BY <2>1, LocalAssumption DEF GoodInst, Inst, Target
<1>3. /\ slot'[w] = n /\ \A v \in Local : v # w => slot'[v] = slot[v]
      /\ gone' = gone \ {w} /\ tasks' = tasks
  BY <1>1, <1>2, OverwriteFacts
<1>4. (\A m : TaskRefs(m)' = TaskRefs(m)) /\ \A v : Explained(v)' <=> Explained(v)
  BY <1>3, SameRefs, OnwardDue
<1>5. ASSUME NEW m \in Buf
      PROVE  /\ rc'[m] <= rc[m] \/ (m = n /\ rc'[m] = 1 /\ n \notin Held(slot, tasks))
             /\ rc'[m] \in Nat
  BY <1>1, <1>5 DEF Overwrite
<1>6. \A m \in Buf : /\ Unowned(m) /\ (m = n => m \in Held(slot, tasks)) => Unowned(m)'
                     /\ rc'[m] <= 1 + TaskRefs(m)'
  BY <1>1, <1>4, <1>5 DEF Unowned, OneOwner
<1>7. \A v : Disposed(v)' => v \in gone /\ v # w
  <2>1. x.op # "drop"
    OBVIOUS
  <2>2. \A v : ~JustDropped(v)'
    BY <1>1, <2>1, OnwardFacts DEF Op
  <2> QED BY <1>3, <2>2 DEF Disposed
<1>8. \A v : JustDropped(v) => v = w
  BY <1>1, <1>2, StepFacts DEF Refills, Target
<1>9. OneOwner'
  BY <1>6 DEF OneOwner, Buf
<1>10. DisposedFree'
  <2> SUFFICES ASSUME NEW v \in Local, NEW m \in Buf, ~Explained(v), v \in gone, v # w, slot[v] = m
               PROVE  Unowned(m)'
    BY <1>3, <1>4, <1>7 DEF DisposedFree, Buf
  <2>1. Unowned(m) /\ m \in Held(slot, tasks)
    BY <1>1 DEF DisposedFree, Disposed, Held
  <2> QED BY <1>6, <2>1
<1>11. HeldDue'
  <2> SUFFICES ASSUME NEW v \in Local, ~Explained(v), ~Disposed(v)', slot'[v] # 0
               PROVE  v \in Owned /\ DueNow(v)'
    BY <1>4, OnwardDue DEF HeldDue
  <2>1. CASE v # w
    <3>1. ~Disposed(v) /\ slot[v] # 0
      BY <1>3, <1>8, <2>1 DEF Disposed
    <3> QED BY <1>1, <3>1, OnwardDue DEF HeldDue
  <2>2. CASE v = w
    <3> DEFINE b == pc.b
               is == InstsOf(pc.b)
    <3>1. /\ Shape /\ b \in Blocks /\ liveIn[b] = InOf(b)
      BY <1>1, StepFacts DEF RunInv, LiveInv, Stable, Solved, Running
    <3>2. CASE x.dst = w
      <4>1. w \in Owned
        BY <1>2, <3>1, <3>2 DEF Owned, DefOf
      <4> QED BY <2>2, <3>2, <4>1, OnwardDue
    <3>3. CASE x.dst # w
      <4>1. x.into = w
        BY <3>3 DEF Target
      <4>2. w \in Owned
        BY <1>2, <4>1, SoundHere
      <4>3. DueNow(w)
        <5>1. w \in Args(is[pc.i]) /\ \A j \in 1..pc.i - 1 : j \in Index(b) /\ j < pc.i
          BY <1>2, <3>1, <4>1, InsideLocal DEF Args
        <5>2. CASE \E j \in 1..pc.i - 1 : is[j].dst = w
          BY <5>1, <5>2 DEF DueNow, Due
        <5>3. CASE \A j \in 1..pc.i - 1 : is[j].dst # w
          <6>1. w \in UseOf(b)
            BY <1>2, <5>1, <5>3 DEF UseOf
          <6> QED BY <3>1, <6>1 DEF InOf, DueNow, Due
        <5> QED BY <5>2, <5>3
      <4> QED BY <2>2, <4>2, <4>3, OnwardDue
    <3> QED BY <3>2, <3>3
  <2> QED BY <2>1, <2>2
<1>12. TasksOwn'
  <2> SUFFICES ASSUME NEW k \in DOMAIN tasks, NEW m \in Buf, ~Explained(tasks[k].arg),
                      tasks[k].buf = m, slot'[tasks[k].arg] # m
               PROVE  Unowned(m)'
    BY <1>3, <1>4 DEF TasksOwn, Buf
  <2>1. m \in Held(slot, tasks) /\ tasks[k].arg \in Local
    BY <1>1, TaskFacts DEF Held, Task
  <2>2. CASE slot[tasks[k].arg] # m
    BY <1>1, <1>6, <2>1, <2>2 DEF TasksOwn
  <2>3. CASE slot[tasks[k].arg] = m
    <3>1. tasks[k].arg = w
      BY <1>3, <2>1, <2>3
    <3>2. Unowned(m)
      BY <2>3, <3>1, OldUnowned
    <3> QED BY <1>6, <2>1, <3>2
  <2> QED BY <2>2, <2>3
<1>13. ASSUME NEW v \in lost', v \notin lost PROVE Explained(v)
  <2>1. /\ v = w /\ slot[w] # 0 /\ rc[slot[w]] # 0 /\ slot[w] \notin Held(slot', tasks)
    BY <1>13 DEF Overwrite
  <2>2. PICK m \in Buf : m = slot[w]
    BY <1>1, <1>2, <2>1 DEF HeapOK
  <2>3. TaskRefs(m) = 0
    <3>1. \A k \in DOMAIN tasks : tasks[k].buf # m
      BY <2>1, <2>2 DEF Held
    <3> QED BY <1>1, <3>1, NoRefs
  <2>4. ~Unowned(m)
    BY <1>1, <2>1, <2>2, <2>3 DEF Unowned
  <2> QED BY <2>1, <2>2, <2>4, OldUnowned
<1> QED BY <1>9, <1>10, <1>11, <1>12, <1>13 DEF RunFacts

LEMMA DefineLeaks ==
  ASSUME LossInv, Running, pc.i \in Index(pc.b), Onward, NEW x, x = InstsOf(pc.b)[pc.i],
         x.op \in {"new", "clone", "move"}, Define(x, Target(x)), fault' = NoFault
  PROVE  RunFacts' /\ \A v \in lost' : v \in lost \/ Explained(v)
<1>1. HeapOK /\ RunInv /\ x \in GoodInst
  BY StepFacts DEF LossInv, RunInv
<1>2. Fresh \in Buf /\ Fresh \notin Held(slot, tasks)
  BY <1>1, FreshExists
<1>3. PICK w : w = Target(x)
  OBVIOUS
<1>4. CASE Overwrite(Target(x), Fresh, 1)
  <2>1. PICK n \in Buf : n = Fresh
    BY <1>2
  <2>2. Overwrite(w, n, 1)
    BY <1>3, <1>4, <2>1
  <2> QED BY <1>2, <1>3, <2>1, <2>2, OverwriteLeaks
<1>5. CASE Transfers(x) /\ Overwrite(Target(x), slot[x.src], IF slot[x.src] = 0 THEN 0 ELSE rc[slot[x.src]])
  <2>1. x.src \in Local
    BY <1>1, <1>5 DEF Transfers, GoodInst, Inst
  <2>2. PICK n \in Buf \cup {0} : n = slot[x.src]
    BY <1>1, <2>1 DEF HeapOK
  <2>3. PICK c : c = IF n = 0 THEN 0 ELSE rc[n]
    OBVIOUS
  <2>4. Overwrite(w, n, c)
    BY <1>3, <1>5, <2>2, <2>3
  <2> QED BY <1>3, <2>3, <2>4, OverwriteLeaks
<1>6. \A v : ~Fault("use after free", v)
  BY DEF Fault, NoFault
<1> QED BY <1>4, <1>5, <1>6 DEF Define

LEMMA StepLeaks ==
  ASSUME LossInv, Step, fault' = NoFault
  PROVE  RunFacts' /\ \A v \in lost' : v \in lost \/ Explained(v)
<1> DEFINE x == InstsOf(pc.b)[pc.i]
<1>1. /\ Running /\ pc.i \in Index(pc.b) /\ Perform(x) /\ Onward
  BY DEF Step, Onward
<1>2. CASE x.op \in {"new", "clone", "move"} /\ Define(x, Target(x))
  BY <1>1, <1>2, DefineLeaks
<1>3. CASE x.op = "read" /\ Touch(x.src)
  <2>1. UNCHANGED <<slot, gone, rc, tasks, lost>>
    BY <1>3 DEF Touch, Fault, NoFault
  <2> QED BY <1>1, <1>3, <2>1, UseLeaks
<1>4. CASE x.op = "write" /\ WriteThrough(x.src)
  <2>1. /\ UNCHANGED <<slot, gone, rc, lost>>
        /\ tasks' = [k \in DOMAIN tasks |->
                       IF slot[x.src] # 0 /\ tasks[k].buf = slot[x.src]
                       THEN [tasks[k] EXCEPT !.stale = TRUE] ELSE tasks[k]]
    BY <1>4 DEF WriteThrough, Fault, NoFault
  <2>2. \A k \in DOMAIN tasks : tasks[k] \in Task
    BY TaskFacts DEF LossInv, RunInv
  <2>3. /\ DOMAIN tasks' = DOMAIN tasks
        /\ \A k \in DOMAIN tasks : tasks'[k].buf = tasks[k].buf /\ tasks'[k].arg = tasks[k].arg
    BY <2>1, <2>2 DEF Task
  <2> QED BY <1>1, <1>4, <2>1, <2>3, UseLeaks
<1>5. CASE x.op = "drop" /\ Drop(x.src)
  BY <1>1, <1>5, DropLeaks
<1>6. CASE x.op = "run" /\ Start(x.src)
  BY <1>1, <1>6, StartLeaks
<1> QED BY <1>1, <1>2, <1>3, <1>4, <1>5, <1>6 DEF Perform

\* The drops at the end of a block, or at the start of the next one.
LEMMA ReleaseFalls ==
  ASSUME HeapOK, NEW r, \A n \in Buf : r[n] \in Int, NEW S \in SUBSET Local
  PROVE  \A n \in Buf : /\ Release(r, S)[n] \in Int /\ Release(r, S)[n] <= r[n]
                        /\ \A v \in S : slot[v] = n => Release(r, S)[n] < r[n]
<1> TAKE n \in Buf
<1> DEFINE V == {v \in S : slot[v] = n}
<1>1. IsFiniteSet(V) /\ Cardinality(V) \in Nat
  <2>1. IsFiniteSet(V)
    BY HeapAssumption, FS_Subset
  <2> QED BY <2>1, FS_CardinalityType
<1>2. V # {} => Cardinality(V) # 0
  BY <1>1, FS_EmptySet
<1>3. Release(r, S)[n] = r[n] - Cardinality(V)
  BY DEF Release, Count
<1> HIDE DEF V
<1>4. /\ Release(r, S)[n] \in Int /\ Release(r, S)[n] <= r[n]
      /\ V # {} => Release(r, S)[n] < r[n]
  BY <1>1, <1>2, <1>3
<1> QED BY <1>4 DEF V

LEMMA LeaveLeaks ==
  ASSUME LossInv, Leave, fault' = NoFault
  PROVE  RunFacts' /\ lost' = lost
<1> DEFINE ends == dropEnd[pc.b]
           r == Release(rc, ends)
<1>1. /\ OneOwner /\ DisposedFree /\ HeldDue /\ TasksOwn /\ HeapOK /\ RunInv
      /\ \A m \in Buf : rc[m] \in Nat /\ TaskRefs(m) \in Nat
      /\ Running /\ pc.i \notin Index(pc.b)
  BY RefsFinite DEF LossInv, LeakInv, RunInv, HeapOK, Leave
<1>2. PICK s \in Succs(pc.b) :
        /\ pc' = [b |-> s, i |-> 1]
        /\ rc' = Release(r, dropStart[s])
        /\ gone' = gone \cup ends \cup dropStart[s]
        /\ UNCHANGED <<slot, tasks, lost>>
  BY DEF Leave, Fault, NoFault
<1>3. UNCHANGED <<blocks, liveIn, liveOut, moveSrc, dropStart>>
  BY DEF Leave, lowering, analysis
<1>4. /\ Owned' = Owned /\ \A n : TaskRefs(n)' = TaskRefs(n)
      /\ \A v : Explained(v)' <=> Explained(v)
      /\ \A v : DueNow(v)' <=> Due(s, 1, v)
  BY <1>2, <1>3, SameRefs, SameDue DEF DueNow
<1>5. /\ s \in Blocks /\ ends \in SUBSET Local /\ dropStart[s] \in SUBSET Local
      /\ \A v : ~JustDropped(v)
  <2>1. /\ Shape /\ pc.b \in Blocks /\ ends \in SUBSET Local /\ \A v : ~JustDropped(v)
    BY <1>1, EndFacts
  <2>2. s \in Blocks
    BY <2>1, InsideLocal
  <2>3. dropStart[s] \in SUBSET Local
    BY <1>1, <2>2 DEF RunInv, DecisionsOK, Running, Placed
  <2> QED BY <2>1, <2>2, <2>3
<1>6. ASSUME NEW n \in Buf
      PROVE  /\ rc'[n] \in Int /\ rc'[n] <= rc[n]
             /\ \A v \in ends \cup dropStart[s] : slot[v] = n => rc'[n] < rc[n]
  <2>1. \A m \in Buf : r[m] \in Int /\ r[m] <= rc[m] /\ \A v \in ends : slot[v] = m => r[m] < rc[m]
    BY <1>1, <1>5, ReleaseFalls
  <2> HIDE DEF r
  <2>2. \A m \in Buf : /\ rc'[m] \in Int /\ rc'[m] <= r[m]
                       /\ \A v \in dropStart[s] : slot[v] = m => rc'[m] < r[m]
    BY <1>1, <1>2, <1>5, <2>1, ReleaseFalls
  <2>3. /\ rc[n] \in Int /\ r[n] \in Int /\ r[n] <= rc[n] /\ rc'[n] \in Int /\ rc'[n] <= r[n]
        /\ \A v \in ends : slot[v] = n => r[n] < rc[n]
        /\ \A v \in dropStart[s] : slot[v] = n => rc'[n] < r[n]
    BY <1>1, <2>1, <2>2
  <2> QED BY <2>3
<1>7. \A n \in Buf : (Unowned(n) \/ rc'[n] < rc[n] => Unowned(n)') /\ rc'[n] <= 1 + TaskRefs(n)'
  BY <1>1, <1>4, <1>6 DEF Unowned, OneOwner
<1>8. \A v : Disposed(v)' <=> v \in gone \cup ends \cup dropStart[s]
  <2>1. pc'.i - 1 = 0
    BY <1>2
  <2>2. \A v : ~JustDropped(v)'
    BY <2>1 DEF JustDropped, Index
  <2> QED BY <1>2, <2>2 DEF Disposed
<1>9. OneOwner'
  BY <1>7 DEF OneOwner, Buf
<1>10. DisposedFree'
  <2> SUFFICES ASSUME NEW v \in Local, NEW m \in Buf, ~Explained(v),
                      v \in gone \cup ends \cup dropStart[s], slot[v] = m
               PROVE  Unowned(m)'
    BY <1>2, <1>4, <1>8 DEF DisposedFree, Buf
  <2>1. Unowned(m) \/ rc'[m] < rc[m]
    BY <1>1, <1>6 DEF DisposedFree, Disposed
  <2> QED BY <1>7, <2>1
<1>11. HeldDue'
  <2> SUFFICES ASSUME NEW v \in Local, ~Explained(v), v \notin gone \cup ends \cup dropStart[s],
                      slot[v] # 0
               PROVE  v \in Owned /\ Due(s, 1, v)
    BY <1>2, <1>4, <1>8 DEF HeldDue
  <2>1. v \in Owned /\ Due(pc.b, pc.i, v)
    BY <1>1, <1>5 DEF HeldDue, Disposed, DueNow
  <2> QED BY <1>1, <2>1, DueAtEnd
<1>12. TasksOwn'
  BY <1>1, <1>2, <1>4, <1>7 DEF TasksOwn, Buf
<1> QED BY <1>2, <1>9, <1>10, <1>11, <1>12 DEF RunFacts

LEMMA ExitLeaks ==
  ASSUME LossInv, Exit, fault' = NoFault
  PROVE  phase' = "done" /\ (\A n \in Buf : Unowned(n)') /\ \A v \in lost' : v \in lost \/ Explained(v)
<1> DEFINE ends == dropEnd[pc.b]
           r == Release(rc, ends)
<1>1. /\ OneOwner /\ DisposedFree /\ HeldDue /\ HeapOK /\ RunInv
      /\ \A m \in Buf : rc[m] \in Nat /\ TaskRefs(m) \in Nat
      /\ Running /\ pc.i \notin Index(pc.b) /\ blocks[pc.b].term = "ret"
  BY RefsFinite DEF LossInv, LeakInv, RunInv, HeapOK, Exit
<1>2. /\ phase' = "done" /\ tasks' = tasks
      /\ lost' = lost \cup {v \in Local : slot[v] # 0 /\ r[slot[v]] > TaskRefs(slot[v])}
      /\ rc' = [n \in Buf |-> IF r[n] > TaskRefs(n) THEN TaskRefs(n) ELSE r[n]]
  BY DEF Exit, Fault, NoFault
<1>3. /\ ends \in SUBSET Local /\ pc.b \in Blocks /\ \A v : ~JustDropped(v)
  BY <1>1, EndFacts
<1>4. \A m \in Buf : r[m] \in Int /\ r[m] <= rc[m] /\ \A v \in ends : slot[v] = m => r[m] < rc[m]
  BY <1>1, <1>3, ReleaseFalls
<1> HIDE DEF r
<1>5. \A n \in Buf : Unowned(n)'
  <2>1. \A n : TaskRefs(n)' = TaskRefs(n)
    BY <1>2, SameRefs
  <2>2. \A n \in Buf : rc'[n] <= TaskRefs(n)
    BY <1>1, <1>2, <1>4
  <2> QED BY <2>1, <2>2 DEF Unowned
<1>6. Succs(pc.b) = {}
  BY <1>1, <1>3 DEF LossInv, SoundInv, Sound, Succs, Running, Blocks
<1>7. ASSUME NEW v \in lost', v \notin lost, ~Explained(v) PROVE FALSE
  <2>1. v \in Local /\ slot[v] # 0 /\ r[slot[v]] > TaskRefs(slot[v])
    BY <1>2, <1>7
  <2>2. PICK m \in Buf : m = slot[v]
    BY <1>1, <2>1 DEF HeapOK
  <2>3. CASE v \in gone
    <3>1. rc[m] <= TaskRefs(m)
      BY <1>1, <1>7, <2>1, <2>2, <2>3 DEF DisposedFree, Disposed, Unowned
    <3> QED BY <1>1, <1>4, <2>1, <2>2, <3>1
  <2>4. CASE v \notin gone
    <3>1. v \in Owned /\ Due(pc.b, pc.i, v)
      BY <1>1, <1>3, <1>7, <2>1, <2>4 DEF HeldDue, Disposed, DueNow
    <3>2. v \in ends
      BY <1>1, <1>6, <1>7, <3>1, DueAtEnd
    <3>3. r[m] < rc[m] /\ rc[m] <= 1 + TaskRefs(m)
      BY <1>1, <1>4, <2>2, <3>2 DEF OneOwner
    <3> QED BY <1>1, <1>4, <2>1, <2>2, <3>3
  <2> QED BY <2>3, <2>4
<1> QED BY <1>2, <1>5, <1>7

LEMMA TaskLeaks ==
  ASSUME LossInv, NEW i \in DOMAIN tasks, RunTask(i), fault' = NoFault
  PROVE  /\ phase' = phase /\ phase \in {"run", "done"} /\ fault = NoFault
         /\ phase = "run" => RunFacts'
         /\ phase = "done" => \A n \in Buf : Unowned(n)'
         /\ \A v \in lost' : v \in lost \/ Explained(v)
<1> DEFINE t == tasks[i]
<1>1. /\ HeapOK /\ RunInv /\ phase \in {"run", "done"} /\ fault = NoFault
      /\ \A m \in Buf : rc[m] \in Nat /\ TaskRefs(m) \in Nat /\ m # 0
      /\ phase = "run" => OneOwner /\ DisposedFree /\ HeldDue /\ TasksOwn
      /\ phase = "done" => \A n \in Buf : Unowned(n)
  <2>1. 0 \notin Buf
    BY DEF Buf
  <2> QED BY <2>1, RefsFinite DEF LossInv, LeakInv, RunInv, HeapOK, RunTask, Running
<1>2. PICK leak \in BOOLEAN :
        leak = (t.buf # 0 /\ rc[t.buf] > 1 /\ t.buf \notin Held(slot, tasks'))
  OBVIOUS
<1>3. /\ tasks' = Without(tasks, i)
      /\ rc' = IF t.buf = 0 THEN rc ELSE [rc EXCEPT ![t.buf] = IF leak THEN 0 ELSE @ - 1]
      /\ lost' = IF leak THEN lost \cup {t.arg} ELSE lost
      /\ UNCHANGED <<slot, gone>>
  BY <1>2 DEF RunTask, Fault, NoFault
<1>4. UNCHANGED <<blocks, liveIn, liveOut, moveSrc, dropStart, phase, pc>>
  BY DEF RunTask, lowering, analysis
<1>5. PICK b \in Buf \cup {0} : b = t.buf
  BY <1>1, TaskFacts DEF Task
<1>6. /\ \A n : TaskRefs(n)' = TaskRefs(n) - IF n = b THEN 1 ELSE 0
      /\ \A k \in DOMAIN tasks' : \E j \in DOMAIN tasks : tasks'[k] = tasks[j]
  BY <1>1, <1>3, <1>5, WithoutRefs
<1>7. b # 0 => TaskRefs(b) # 0
  BY <1>1, <1>5, NoRefs
<1>8. ASSUME NEW n \in Buf
      PROVE  /\ Unowned(n) => Unowned(n)'
             /\ rc[n] <= 1 + TaskRefs(n) => rc'[n] <= 1 + TaskRefs(n)'
  <2>1. rc[n] \in Nat /\ TaskRefs(n) \in Nat /\ n # 0
    BY <1>1
  <2>2. TaskRefs(n)' = TaskRefs(n) - IF n = b THEN 1 ELSE 0
    BY <1>6
  <2>3. rc'[n] = IF n = b THEN (IF leak THEN 0 ELSE rc[n] - 1) ELSE rc[n]
    BY <1>1, <1>3, <1>5, <2>1 DEF HeapOK
  <2>4. n = b => TaskRefs(n) # 0
    BY <1>7, <2>1
  <2> QED BY <2>1, <2>2, <2>3, <2>4 DEF Unowned
<1>9. /\ \A v : Explained(v)' <=> Explained(v)
      /\ \A v : DueNow(v)' <=> DueNow(v)
      /\ \A v : Disposed(v)' <=> Disposed(v)
      /\ Owned' = Owned
  <2>1. \A v : JustDropped(v)' <=> JustDropped(v)
    BY <1>4 DEF JustDropped, Index, InstsOf
  <2>2. \A v : Disposed(v)' <=> Disposed(v)
    BY <1>3, <2>1 DEF Disposed
  <2> QED BY <1>4, <2>2, SameDue DEF DueNow
<1>10. phase = "run" => RunFacts'
  <2> SUFFICES ASSUME phase = "run" PROVE RunFacts'
    OBVIOUS
  <2>1. OneOwner'
    BY <1>1, <1>8 DEF OneOwner, Buf
  <2>2. DisposedFree'
    BY <1>1, <1>3, <1>8, <1>9 DEF DisposedFree, Buf
  <2>3. HeldDue'
    BY <1>1, <1>3, <1>9 DEF HeldDue
  <2>4. TasksOwn'
    BY <1>1, <1>3, <1>6, <1>8, <1>9 DEF TasksOwn, Buf
  <2> QED BY <2>1, <2>2, <2>3, <2>4 DEF RunFacts
<1>11. ASSUME leak, ~Explained(t.arg) PROVE FALSE
  <2>1. b \in Buf /\ rc[b] > 1 /\ b \notin Held(slot, tasks') /\ t.arg \in Local /\ t.buf = b
    BY <1>1, <1>2, <1>5, <1>11, TaskFacts DEF Task
  <2>2. slot[t.arg] # b
    BY <2>1 DEF Held
  <2>3. Unowned(b)
    BY <1>1, <1>11, <2>1, <2>2 DEF TasksOwn
  <2>4. TaskRefs(b)' = 0
    <3>1. {k \in DOMAIN tasks' : tasks'[k].buf = b} = {}
      BY <2>1 DEF Held
    <3> QED BY <3>1, FS_EmptySet DEF TaskRefs
  <2>5. TaskRefs(b) = 1
    BY <1>1, <1>6, <2>1, <2>4
  <2> QED BY <1>1, <2>1, <2>3, <2>5 DEF Unowned
<1> QED BY <1>1, <1>3, <1>4, <1>8, <1>10, <1>11

-----------------------------------------------------------------------------
LEMMA LossInit == Init => LossInv /\ LostExplained
<1> SUFFICES ASSUME Init PROVE LossInv /\ LostExplained
  OBVIOUS
<1>1. phase = "lower" /\ LowerInit /\ lost = {} /\ rc = [n \in Buf |-> 0]
  BY DEF Init
<1>2. RouteInv
  BY <1>1, InitFlow DEF RouteInv, Decided, Placed
<1>3. LeakInv
  BY <1>1 DEF LeakInv, Running
<1> QED BY <1>1, <1>2, <1>3, RunInit, SoundInit DEF LossInv, LostExplained

\* The run starts with empty slots.
LEMMA LossCompile ==
  ASSUME LossInv, phase \notin {"run", "done"}, UNCHANGED heap
  PROVE  LeakInv'
<1>1. /\ slot = [v \in Local |-> 0] /\ tasks = <<>> /\ rc = [n \in Buf |-> 0] /\ lost = {}
      /\ \A n \in Buf : TaskRefs(n) \in Nat /\ n # 0
  <2>1. 0 \notin Buf
    BY DEF Buf
  <2> QED BY <2>1, RefsFinite DEF LossInv, RunInv, OwnInv, LeakInv
<1>2. UNCHANGED <<slot, tasks, rc, lost>>
  BY DEF heap
<1>3. \A n \in Buf : rc'[n] = 0 /\ TaskRefs(n)' \in Nat
  BY <1>1, <1>2, SameRefs
<1>4. \A n \in Buf : Unowned(n)' /\ rc'[n] <= 1 + TaskRefs(n)'
  BY <1>3 DEF Unowned
<1>5. OneOwner' /\ DisposedFree' /\ TasksOwn'
  BY <1>4 DEF OneOwner, DisposedFree, TasksOwn, Buf
<1>6. HeldDue'
  BY <1>1, <1>2 DEF HeldDue
<1>7. lost' = {} /\ rc' = [n \in Buf' |-> 0]
  BY <1>1, <1>2 DEF Buf
<1> QED BY <1>4, <1>5, <1>6, <1>7 DEF LeakInv, Buf

LEMMA LossFaulted ==
  ASSUME fault' # NoFault, phase' \in {"run", "done"}
  PROVE  LeakInv'
BY DEF LeakInv, Running, NoFault

LEMMA ExplainedKept ==
  ASSUME LostExplained, UNCHANGED <<blocks, liveIn, liveOut, moveSrc, dropStart>>,
         \A v \in lost' : v \in lost \/ Explained(v)
  PROVE  LostExplained'
<1>1. LostExplained <=> \A v \in lost : Explained(v)
  BY DEF LostExplained, Explained
<1>2. LostExplained' <=> \A v \in lost' : Explained(v)'
  BY DEF LostExplained, Explained
<1> QED BY <1>1, <1>2, SameDue

LEMMA LossNext ==
  ASSUME LossInv, LostExplained, [Next]_vars
  PROVE  LossInv' /\ LostExplained'
<1>1. RunInv' /\ RouteInv' /\ SoundInv'
  BY RunNext, RouteNext, SoundNext DEF LossInv, RunInv
<1>2. CASE Statement \/ Analyze \/ Visit \/ EndPass \/ DecideCopies \/ DecideSpawns \/ PlaceDrops
  <2>1. phase \notin {"run", "done"} /\ UNCHANGED heap
    BY <1>2 DEF Statement, Analyze, Visit, EndPass, DecideCopies, DecideSpawns, PlaceDrops
  <2>2. LeakInv'
    BY <2>1, LossCompile
  <2>3. lost' = {}
    BY <2>1 DEF heap, LossInv, LeakInv
  <2> QED BY <1>1, <2>2, <2>3 DEF LossInv, LostExplained
<1>3. CASE Step \/ Leave
  <2>1. /\ Running /\ phase' = phase /\ UNCHANGED <<blocks, liveIn, liveOut, moveSrc, dropStart>>
    BY <1>3 DEF Step, Leave, lowering, analysis
  <2>2. CASE fault' = NoFault
    <3>1. RunFacts' /\ \A v \in lost' : v \in lost \/ Explained(v)
      BY <1>3, <2>2, StepLeaks, LeaveLeaks
    <3>2. LostExplained'
      BY <2>1, <3>1, ExplainedKept
    <3>3. LeakInv'
      BY <2>1, <3>1 DEF LeakInv, RunFacts, Running
    <3> QED BY <1>1, <3>2, <3>3 DEF LossInv
  <2>3. CASE fault' # NoFault
    <3>1. lost' = lost
      BY <1>3, <2>1, <2>3 DEF Step, Perform, Define, Touch, WriteThrough, Drop, Start, Overwrite,
                              Leave, Fault, Running
    <3> QED BY <1>1, <2>1, <2>3, <3>1, ExplainedKept, LossFaulted DEF LossInv, Running
  <2> QED BY <2>2, <2>3
<1>4. CASE Exit
  <2>1. /\ Running /\ UNCHANGED <<blocks, liveIn, liveOut, moveSrc, dropStart>>
    BY <1>4 DEF Exit, lowering
  <2>2. CASE fault' = NoFault
    <3>1. phase' = "done" /\ (\A n \in Buf : Unowned(n)') /\ \A v \in lost' : v \in lost \/ Explained(v)
      BY <1>4, <2>2, ExitLeaks
    <3>2. LostExplained'
      BY <2>1, <3>1, ExplainedKept
    <3>3. LeakInv'
      BY <3>1 DEF LeakInv, Running, Buf
    <3> QED BY <1>1, <3>2, <3>3 DEF LossInv
  <2>3. CASE fault' # NoFault
    <3>1. lost' = lost /\ phase' \in {"run", "done"}
      BY <1>4, <2>1, <2>3 DEF Exit, Fault, Running
    <3> QED BY <1>1, <2>1, <2>3, <3>1, ExplainedKept, LossFaulted DEF LossInv
  <2> QED BY <2>2, <2>3
<1>5. ASSUME NEW i \in DOMAIN tasks, RunTask(i) PROVE LossInv' /\ LostExplained'
  <2>1. /\ phase \in {"run", "done"} /\ phase' = phase
        /\ UNCHANGED <<blocks, liveIn, liveOut, moveSrc, dropStart>>
    BY <1>5 DEF RunTask, lowering, analysis
  <2>2. CASE fault' = NoFault
    <3>1. /\ phase = "run" => RunFacts'
          /\ phase = "done" => \A n \in Buf : Unowned(n)'
          /\ \A v \in lost' : v \in lost \/ Explained(v)
      BY <1>5, <2>2, TaskLeaks
    <3>2. LostExplained'
      BY <2>1, <3>1, ExplainedKept
    <3>3. LeakInv'
      BY <2>1, <3>1 DEF LeakInv, RunFacts, Running, Buf
    <3> QED BY <1>1, <3>2, <3>3 DEF LossInv
  <2>3. CASE fault' # NoFault
    <3>1. lost' = lost
      BY <1>5, <2>1, <2>3 DEF RunTask, Fault
    <3> QED BY <1>1, <2>1, <2>3, <3>1, ExplainedKept, LossFaulted DEF LossInv
  <2> QED BY <2>2, <2>3
<1>6. CASE UNCHANGED vars
  <2>1. /\ UNCHANGED <<blocks, liveIn, liveOut, moveSrc, dropStart, phase, fault, pc, slot, rc,
                       tasks, gone, lost>>
    BY <1>6 DEF vars, lowering, analysis, heap
  <2>2. LostExplained'
    BY <2>1, ExplainedKept
  <2>3. /\ Owned' = Owned
        /\ \A v : (Explained(v)' <=> Explained(v)) /\ (DueNow(v)' <=> DueNow(v))
        /\ \A v : JustDropped(v)' <=> JustDropped(v)
    BY <2>1, SameDue DEF DueNow, JustDropped, Index, InstsOf
  <2>4. \A v : Disposed(v)' <=> Disposed(v)
    BY <2>1, <2>3 DEF Disposed
  <2>5. /\ \A n : TaskRefs(n)' = TaskRefs(n)
        /\ \A n : Unowned(n)' <=> Unowned(n)
    BY <2>1, SameRefs DEF Unowned
  <2>6. /\ OneOwner' <=> OneOwner
        /\ DisposedFree' <=> DisposedFree
        /\ HeldDue' <=> HeldDue
        /\ TasksOwn' <=> TasksOwn
    BY <2>1, <2>3, <2>4, <2>5 DEF OneOwner, DisposedFree, HeldDue, TasksOwn, Buf
  <2>7. LeakInv'
    BY <2>1, <2>5, <2>6 DEF LossInv, LeakInv, Running, Buf
  <2> QED BY <1>1, <2>2, <2>7 DEF LossInv
<1> QED BY <1>2, <1>3, <1>4, <1>5, <1>6 DEF Next

\* A buffer is lost only through a local whose ownership moves, that an assignment copied
\* from, or whose edge drop was removed although its slot is written before the later drop
\* (LostExplained).
THEOREM LossesExplained == Spec => []LostExplained
<1> QED BY LossInit, LossNext, PTL DEF Spec
=============================================================================
