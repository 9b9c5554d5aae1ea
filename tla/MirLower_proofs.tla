---------------------------- MODULE MirLower_proofs ----------------------------
(***************************************************************************)
(* Lowering builds a closed graph of well formed blocks, for bodies of any *)
(* length and nesting: every target is a block, every instruction names    *)
(* the locals its operation needs, every block is reached and leads to the *)
(* end of the body, and a slot that is written again was dropped first.    *)
(***************************************************************************)
EXTENDS MirLower, SequenceTheorems, TLAPS

\* An instruction with the operands its operation needs.
GoodInst ==
  {x \in Inst : /\ x.op \in {"read", "write", "drop", "run"} => x.src \in Local
                /\ x.op \in {"read", "write", "drop", "run"} => x.dst = NoVal
                /\ x.op \in {"new", "move", "clone"} => x.dst \in Local \/ x.into \in Local}
\* A block of a graph of n blocks.
GoodBlock(n) == [insts : Seq(GoodInst), term : {"nil", "br", "ret"}, to : SUBSET (1..n),
                 cont : 0..n]
Graph(bs, n) == bs \in [1..n -> GoodBlock(n)]
\* An arm or a loop of such a graph, within the locals ls.
GoodOpen(n, ls) == [kind : {"then", "else", "for"}, entry : 2..n, orelse : 2..n,
                    after : 1..n, outer : SUBSET ls]

\* The inductive invariant of lowering.
Shape ==
  /\ dialect \subseteq Kind
  /\ Len(blocks) \in Nat \ {0} /\ Graph(blocks, Len(blocks))
  /\ cur \in 1..Len(blocks)
  /\ open \in Seq(GoodOpen(Len(blocks), locals))
  /\ locals \subseteq Local /\ visible \subseteq locals /\ moved \subseteq Local
  /\ size \in Nat /\ dead \in BOOLEAN

-----------------------------------------------------------------------------
\* A function on 1..n is a sequence of length n.
LEMMA FunIsSeq ==
  ASSUME NEW S, NEW n \in Nat, NEW f \in [1..n -> S]
  PROVE  f \in Seq(S) /\ Len(f) = n
<1>1. f \in Seq(S)
  BY SeqDef
<1>2. DOMAIN f = 1..n /\ DOMAIN f = 1..Len(f) /\ Len(f) \in Nat
  BY <1>1, LenProperties
<1> QED BY <1>1, <1>2

LEMMA GoodBlockIsBlock ==
  ASSUME NEW n \in Nat
  PROVE  GoodBlock(n) \subseteq Block
<1> SUFFICES ASSUME NEW x \in GoodBlock(n) PROVE x \in Block
  OBVIOUS
<1>1. GoodInst \subseteq Inst
  BY DEF GoodInst
<1>2. x.insts \in Seq(Inst)
  BY <1>1, SeqMonotonic DEF GoodBlock
<1>3. 1..n \subseteq Nat \ {0} /\ 0..n \subseteq Nat
  OBVIOUS
<1> QED BY <1>2, <1>3 DEF GoodBlock, Block

\* The types that TypeOK asks of the lowerer.
LEMMA ShapeTypes == Shape => LowerTypeOK
<1> SUFFICES ASSUME Shape PROVE LowerTypeOK
  OBVIOUS
<1> DEFINE n == Len(blocks)
<1>0. n \in Nat
  BY DEF Shape
<1>1. blocks \in Seq(Block)
  <2>1. blocks \in Seq(GoodBlock(n))
    BY <1>0, FunIsSeq DEF Shape, Graph
  <2> QED BY <2>1, <1>0, GoodBlockIsBlock, SeqMonotonic
<1>2. open \in Seq(Open)
  <2>1. GoodOpen(n, locals) \subseteq Open
    BY <1>0 DEF GoodOpen, Open, Shape
  <2> QED BY <2>1, SeqMonotonic DEF Shape
<1>3. cur \in Nat \ {0}
  BY <1>0 DEF Shape
<1> QED BY <1>1, <1>2, <1>3 DEF Shape, LowerTypeOK

LEMMA OpGood ==
  /\ \A v \in Local, op \in {"read", "write", "drop", "run"} : Op(op, v) \in GoodInst
  /\ \A w \in Local : Def("new", w, NoVal) \in GoodInst
  /\ \A w, v \in Local, op \in {"move", "clone"} : Def(op, w, v) \in GoodInst
  /\ \A w \in Local, v \in Local \cup {NoVal} : MoveInto(w, v) \in GoodInst
  BY DEF GoodInst, Inst, Op, Def, MoveInto

LEMMA DropOldGood ==
  ASSUME NEW v \in Local, NEW x \in GoodInst
  PROVE  Append(DropOld(v), x) \in Seq(GoodInst)
<1>1. Op("drop", v) \in GoodInst
  BY OpGood
<1>2. DropOld(v) \in Seq(GoodInst)
  BY <1>1, EmptySeq DEF DropOld
<1> QED BY <1>2, AppendProperties

LEMMA EmitGood ==
  ASSUME Shape, NEW is \in Seq(GoodInst), Emit(is)
  PROVE  Graph(blocks', Len(blocks)) /\ Len(blocks') = Len(blocks)
<1> DEFINE n == Len(blocks)
<1>1. n \in Nat /\ cur \in 1..n /\ blocks \in [1..n -> GoodBlock(n)]
  BY DEF Shape, Graph
<1>2. blocks[cur].insts \o is \in Seq(GoodInst)
  <2>1. blocks[cur].insts \in Seq(GoodInst)
    BY <1>1 DEF GoodBlock
  <2> QED BY <2>1, ConcatProperties
<1>3. [blocks[cur] EXCEPT !.insts = blocks[cur].insts \o is] \in GoodBlock(n)
  BY <1>1, <1>2 DEF GoodBlock
<1>4. blocks' = [blocks EXCEPT ![cur] = [blocks[cur] EXCEPT !.insts = blocks[cur].insts \o is]]
  BY DEF Emit
<1>5. blocks' \in [1..n -> GoodBlock(n)]
  BY <1>1, <1>3, <1>4
<1> QED BY <1>1, <1>5, FunIsSeq DEF Graph

LEMMA TerminateGood ==
  ASSUME NEW n \in Nat, NEW bs, Graph(bs, n), NEW b \in 1..n, NEW ts \in SUBSET (1..n)
  PROVE  Graph(Terminate(bs, b, ts), n)
<1> DEFINE x == [bs[b] EXCEPT !.term = "br"]
           y == [x EXCEPT !.to = ts]
           bx == [bs EXCEPT ![b] = x]
           by == [bx EXCEPT ![b] = y]
<1>1. bs \in [1..n -> GoodBlock(n)] /\ bs[b] \in GoodBlock(n)
  BY DEF Graph
<1>2. x \in GoodBlock(n) /\ y \in GoodBlock(n)
  BY <1>1 DEF GoodBlock
<1>3. bx \in [1..n -> GoodBlock(n)] /\ bx[b] = x
  BY <1>1, <1>2
<1>4. by \in [1..n -> GoodBlock(n)]
  BY <1>2, <1>3
<1>5. Terminate(bs, b, ts) = by
  BY <1>3 DEF Terminate
<1> QED BY <1>4, <1>5 DEF Graph

LEMMA FallGood ==
  ASSUME NEW n \in Nat, NEW bs, Graph(bs, n), NEW b \in 1..n, NEW t \in 1..n
  PROVE  Graph(Fall(bs, b, t), n)
  BY TerminateGood DEF Fall

\* New blocks at the end of a graph.
LEMMA WidenGood ==
  ASSUME NEW n \in Nat, NEW bs, Graph(bs, n), NEW k \in Nat,
         NEW new \in Seq({Block0}), Len(new) = k
  PROVE  Graph(bs \o new, n + k)
<1>1. GoodBlock(n) \subseteq GoodBlock(n + k)
  BY DEF GoodBlock
<1>2. Block0 \in GoodBlock(n + k)
  BY EmptySeq DEF GoodBlock, Block0
<1>3. bs \in Seq(GoodBlock(n + k)) /\ Len(bs) = n
  <2>1. bs \in [1..n -> GoodBlock(n + k)]
    BY <1>1 DEF Graph
  <2> QED BY <2>1, FunIsSeq
<1>4. new \in Seq(GoodBlock(n + k))
  BY <1>2, SeqMonotonic
<1>5. bs \o new \in Seq(GoodBlock(n + k)) /\ Len(bs \o new) = n + k
  BY <1>3, <1>4, ConcatProperties
<1> QED BY <1>5, LenProperties DEF Graph

-----------------------------------------------------------------------------
\* Statements that only append instructions to the current block.
LEMMA StraightGood ==
  ASSUME Shape, NEW is \in Seq(GoodInst), Emit(is), Straight,
         size' = size + 1, moved' \subseteq Local,
         locals \subseteq locals', locals' \subseteq Local, visible' \subseteq locals'
  PROVE  Shape'
<1> DEFINE n == Len(blocks)
<1>1. Graph(blocks', n) /\ Len(blocks') = n
  BY EmitGood
<1>2. GoodOpen(n, locals) \subseteq GoodOpen(n, locals')
  BY DEF GoodOpen
<1>3. open' \in Seq(GoodOpen(n, locals'))
  BY <1>2, SeqMonotonic DEF Shape, Straight
<1>4. size' \in Nat
  BY DEF Shape
<1> QED BY <1>1, <1>3, <1>4 DEF Shape, Straight

LEMMA BindGood == ASSUME Shape, NEW v \in Local, Bind(v) PROVE Shape'
<1>1. CASE v \in locals
  <2>1. Append(DropOld(v), MoveInto(v, NoVal)) \in Seq(GoodInst)
    BY OpGood, DropOldGood
  <2> QED BY <1>1, <2>1, StraightGood DEF Bind, Shape
<1>2. CASE v \notin locals
  <2>1. <<Def("new", v, NoVal)>> \in Seq(GoodInst)
    BY OpGood
  <2> QED BY <1>2, <2>1, StraightGood DEF Bind, Shape
<1> QED BY <1>1, <1>2

LEMMA CopyGood == ASSUME Shape, NEW v \in Local, NEW w \in Local, Copy(w, v) PROVE Shape'
<1>1. CASE w \in locals
  <2>1. Append(DropOld(w), MoveInto(w, v)) \in Seq(GoodInst)
    BY OpGood, DropOldGood
  <2> QED BY <1>1, <2>1, StraightGood DEF Copy, Shape
<1>2. CASE w \notin locals
  <2>1. <<Def(IF v \in Slice THEN "clone" ELSE "move", w, v)>> \in Seq(GoodInst)
    BY OpGood
  <2> QED BY <1>2, <2>1, StraightGood DEF Copy, Shape
<1> QED BY <1>1, <1>2

LEMMA UseGood ==
  ASSUME Shape, NEW v \in Local, Read(v) \/ Write(v) \/ Spawn(v)
  PROVE  Shape'
<1> SUFFICES ASSUME NEW op \in {"read", "write", "run"}, NEW k, Use(k, op, v)
             PROVE  Shape'
  BY DEF Read, Write, Spawn
<1>1. <<Op(op, v)>> \in Seq(GoodInst)
  BY OpGood
<1> QED BY <1>1, StraightGood DEF Use, Shape

-----------------------------------------------------------------------------
\* The innermost arm or loop, and the stack without it.
LEMMA TopGood ==
  ASSUME Shape, open # <<>>
  PROVE  /\ Top \in GoodOpen(Len(blocks), locals)
         /\ Pop \in Seq(GoodOpen(Len(blocks), locals))
<1> DEFINE G == GoodOpen(Len(blocks), locals)
<1>1. open \in Seq(G) /\ Len(open) \in Nat \ {0}
  BY EmptySeq DEF Shape
<1>2. \A i \in 1..Len(open) : open[i] \in G
  BY <1>1, ElementOfSeq
<1>3. Top \in G
  BY <1>1, <1>2 DEF Top
<1>4. Pop \in Seq(G)
  BY <1>1, <1>2, SubSeqProperties DEF Pop
<1> QED BY <1>3, <1>4

\* The continuation around a stack of arms and loops, when there is one, is a block.
LEMMA EnclosingGood ==
  ASSUME NEW n \in Nat, NEW ls, NEW os \in Seq(GoodOpen(n, ls))
  PROVE  Enclosing(os) \in 0..n
<1>1. CASE os = <<>>
  BY <1>1 DEF Enclosing
<1>2. CASE os # <<>>
  <2>1. Len(os) \in 1..Len(os)
    BY <1>2, EmptySeq
  <2>2. os[Len(os)] \in GoodOpen(n, ls)
    BY <2>1, ElementOfSeq
  <2> QED BY <1>2, <2>2 DEF Enclosing, ContOf, GoodOpen
<1> QED BY <1>1, <1>2

LEMMA EndArmGood == ASSUME Shape, open # <<>> PROVE Graph(EndArm, Len(blocks))
<1> DEFINE n == Len(blocks)
<1>1. Top \in GoodOpen(n, locals) /\ n \in Nat /\ cur \in 1..n /\ Graph(blocks, n)
  BY TopGood DEF Shape
<1>2. Top.after \in 1..n /\ Top.entry \in 1..n
  BY <1>1 DEF GoodOpen
<1>3. Graph(Fall(blocks, cur, Top.after), n)
  BY <1>1, <1>2, FallGood
<1> QED BY <1>1, <1>2, <1>3, FallGood DEF EndArm

\* What remains to be shown when the stack and the graph are known to be good.
LEMMA ControlGood ==
  ASSUME Shape, NEW n \in Nat \ {0}, Graph(blocks', n), cur' \in 1..n,
         open' \in Seq(GoodOpen(n, locals)), Scopes, visible' \subseteq locals,
         size' \in Nat, dead' \in BOOLEAN
  PROVE  Shape'
<1>1. Len(blocks') = n
  BY FunIsSeq DEF Graph
<1> QED BY <1>1 DEF Shape, Scopes

LEMMA ElseGood == ASSUME Shape, Else PROVE Shape'
<1> DEFINE n == Len(blocks)
           G == GoodOpen(n, locals)
           o == [Top EXCEPT !.kind = "else", !.entry = Top.orelse]
<1>1. Top \in G /\ Pop \in Seq(G) /\ n \in Nat \ {0}
  BY TopGood DEF Else, Shape
<1>2. Graph(blocks', n)
  BY EndArmGood DEF Else
<1>3. o \in G /\ Top.orelse \in 1..n /\ Top.outer \subseteq locals
  <2>1. ASSUME NEW t \in GoodOpen(n, locals)
        PROVE  [t EXCEPT !.kind = "else", !.entry = t.orelse] \in GoodOpen(n, locals)
    <3> HIDE DEF n
    <3>1. [t EXCEPT !.kind = "else"] \in GoodOpen(n, locals)
      BY DEF GoodOpen
    <3>2. t.orelse \in 2..n
      BY DEF GoodOpen
    <3>3. ASSUME NEW u \in GoodOpen(n, locals), NEW e \in 2..n
          PROVE  [u EXCEPT !.entry = e] \in GoodOpen(n, locals)
      BY DEF GoodOpen
    <3> QED BY <3>1, <3>2, <3>3
  <2>2. Top.orelse \in 2..n /\ Top.outer \subseteq locals
    BY <1>1 DEF GoodOpen
  <2>3. o \in GoodOpen(n, locals)
    <3> HIDE DEF n
    <3> QED BY <1>1, <2>1, Zenon
  <2>4. Top.orelse \in 1..n
    <3> HIDE DEF n
    <3> QED BY <1>1, <2>2
  <2> QED BY <2>2, <2>3, <2>4
<1>4. Append(Pop, o) \in Seq(G)
  BY <1>1, <1>3, AppendProperties
<1> QED BY <1>1, <1>2, <1>3, <1>4, ControlGood DEF Else, Shape

LEMMA EndIfGood == ASSUME Shape, EndIf PROVE Shape'
<1> DEFINE n == Len(blocks)
           G == GoodOpen(n, locals)
           x == [EndArm[Top.after] EXCEPT !.cont = Enclosing(Pop)]
<1>1. Top \in G /\ Pop \in Seq(G) /\ n \in Nat \ {0}
  BY TopGood DEF EndIf, Shape
<1>2. Top.after \in 1..n /\ Top.outer \subseteq locals /\ Enclosing(Pop) \in 0..n
  BY <1>1, EnclosingGood DEF GoodOpen
<1>3. EndArm \in [1..n -> GoodBlock(n)]
  BY EndArmGood DEF EndIf, Graph
<1>4. x \in GoodBlock(n)
  BY <1>2, <1>3 DEF GoodBlock
<1>5. blocks' = [EndArm EXCEPT ![Top.after] = x]
  BY DEF EndIf
<1>6. Graph(blocks', n)
  BY <1>3, <1>4, <1>5 DEF Graph
<1> QED BY <1>1, <1>2, <1>6, ControlGood DEF EndIf, Shape

\* The stack of a graph that has grown.
LEMMA OpenGrows ==
  ASSUME Shape, NEW n \in Nat, Len(blocks) <= n, NEW o \in GoodOpen(n, locals)
  PROVE  Append(open, o) \in Seq(GoodOpen(n, locals))
<1>1. GoodOpen(Len(blocks), locals) \subseteq GoodOpen(n, locals)
  BY DEF GoodOpen, Shape
<1>2. open \in Seq(GoodOpen(n, locals))
  BY <1>1, SeqMonotonic DEF Shape
<1> QED BY <1>2, AppendProperties

LEMMA IfGood == ASSUME Shape, If PROVE Shape'
<1> DEFINE n == Len(blocks)
           new == <<Block0, Block0, Block0>>
           o == [kind |-> "then", entry |-> n + 1, orelse |-> n + 2,
                 after |-> n + 3, outer |-> visible]
<1>1. n \in Nat \ {0} /\ cur \in 1..n /\ Graph(blocks, n) /\ size + 1 \in Nat
  BY DEF Shape
<1>2. Graph(blocks \o new, n + 3)
  <2>1. new \in Seq({Block0}) /\ Len(new) = 3
    OBVIOUS
  <2> QED BY <1>1, <2>1, WidenGood
<1>3. Graph(blocks', n + 3)
  <2>1. cur \in 1..n + 3 /\ {n + 1, n + 2} \subseteq 1..n + 3 /\ n + 3 \in Nat
    BY <1>1
  <2> QED BY <1>2, <2>1, TerminateGood DEF If
<1>4. o \in GoodOpen(n + 3, locals)
  BY <1>1 DEF GoodOpen, Shape
<1>5. open' \in Seq(GoodOpen(n + 3, locals))
  BY <1>1, <1>4, OpenGrows DEF If
<1>6. cur' \in 1..n + 3 /\ n + 3 \in Nat \ {0}
  BY <1>1 DEF If
<1> QED BY <1>1, <1>3, <1>5, <1>6, ControlGood DEF If, Shape

LEMMA ForGood == ASSUME Shape, For PROVE Shape'
<1> DEFINE n == Len(blocks)
           new == <<Block0, Block0, Block0, Block0>>
           bs == Terminate(blocks \o new, cur, {n + 1})
           o == [kind |-> "for", entry |-> n + 2, orelse |-> n + 3,
                 after |-> n + 4, outer |-> visible]
<1>1. n \in Nat \ {0} /\ cur \in 1..n /\ Graph(blocks, n) /\ size + 1 \in Nat
  BY DEF Shape
<1>2. Graph(blocks \o new, n + 4)
  <2>1. new \in Seq({Block0}) /\ Len(new) = 4
    OBVIOUS
  <2> QED BY <1>1, <2>1, WidenGood
<1>3. Graph(blocks', n + 4)
  <2>1. cur \in 1..n + 4 /\ {n + 1} \subseteq 1..n + 4 /\ n + 1 \in 1..n + 4
        /\ {n + 2, n + 4} \subseteq 1..n + 4 /\ n + 4 \in Nat
    BY <1>1
  <2>2. Graph(bs, n + 4)
    BY <1>2, <2>1, TerminateGood
  <2>3. blocks' = Terminate(bs, n + 1, {n + 2, n + 4})
    BY DEF For
  <2> QED BY <2>1, <2>2, <2>3, TerminateGood
<1>4. o \in GoodOpen(n + 4, locals)
  BY <1>1 DEF GoodOpen, Shape
<1>5. open' \in Seq(GoodOpen(n + 4, locals))
  BY <1>1, <1>4, OpenGrows DEF For
<1>6. cur' \in 1..n + 4 /\ n + 4 \in Nat \ {0}
  BY <1>1 DEF For
<1> QED BY <1>1, <1>3, <1>5, <1>6, ControlGood DEF For, Shape

LEMMA EndForGood == ASSUME Shape, EndFor PROVE Shape'
<1> DEFINE n == Len(blocks)
           G == GoodOpen(n, locals)
           ended == Fall(Fall(blocks, Top.entry, Top.orelse), cur, Top.orelse)
           looped == Fall(ended, Top.orelse, Top.entry - 1)
<1>1. Top \in G /\ Pop \in Seq(G) /\ n \in Nat \ {0} /\ cur \in 1..n /\ Graph(blocks, n)
  BY TopGood DEF EndFor, Shape
<1>2. /\ Top.after \in 1..n /\ Top.entry \in 1..n /\ Top.orelse \in 1..n
      /\ Top.entry - 1 \in 1..n /\ Top.outer \subseteq locals
  BY <1>1 DEF GoodOpen
<1>3. Graph(ended, n)
  <2>1. Graph(Fall(blocks, Top.entry, Top.orelse), n)
    BY <1>1, <1>2, FallGood
  <2> QED BY <1>1, <1>2, <2>1, FallGood
<1>4. Graph(looped, n)
  BY <1>1, <1>2, <1>3, FallGood
<1>5. Enclosing(Pop) \in 0..n
  BY <1>1, EnclosingGood
<1>6. Enclosing(Pop) # 0 => Graph(Fall(looped, Top.after, Enclosing(Pop)), n)
  <2> SUFFICES ASSUME Enclosing(Pop) # 0
               PROVE  Graph(Fall(looped, Top.after, Enclosing(Pop)), n)
    OBVIOUS
  <2>1. Enclosing(Pop) \in 1..n
    BY <1>1, <1>5
  <2> QED BY <1>1, <1>2, <1>4, <2>1, FallGood
<1>7. Graph(blocks', n)
  BY <1>4, <1>6 DEF EndFor
<1> QED BY <1>1, <1>2, <1>7, ControlGood DEF EndFor, Shape

-----------------------------------------------------------------------------
\* A statement that leaves the block.
LEMMA JumpGood ==
  ASSUME Shape, NEW k, NEW bs, Graph(bs, Len(blocks)), Jump(k, bs)
  PROVE  Shape'
<1>1. Len(blocks) \in Nat \ {0} /\ blocks' = bs /\ size' \in Nat /\ dead' \in BOOLEAN
  BY DEF Shape, Jump
<1>2. open' \in Seq(GoodOpen(Len(blocks), locals))
  BY DEF Shape, Jump
<1> QED BY <1>1, <1>2, ControlGood DEF Shape, Jump, Scopes

LEMMA BreakGood == ASSUME Shape, Break \/ Continue PROVE Shape'
<1> DEFINE n == Len(blocks)
<1>1. n \in Nat /\ cur \in 1..n /\ Graph(blocks, n)
  BY DEF Shape
<1>2. ASSUME NEW i \in DOMAIN open PROVE open[i].after \in 1..n /\ open[i].orelse \in 1..n
  <2>1. i \in 1..Len(open)
    BY LenProperties DEF Shape
  <2>2. open[i] \in GoodOpen(n, locals)
    BY <2>1, ElementOfSeq DEF Shape
  <2> QED BY <2>2 DEF GoodOpen
<1>3. CASE Break
  <2>1. PICK i \in DOMAIN open : Jump("break", Terminate(blocks, cur, {open[i].after}))
    BY <1>3 DEF Break
  <2>2. Graph(Terminate(blocks, cur, {open[i].after}), n)
    BY <1>1, <1>2, TerminateGood
  <2> QED BY <2>1, <2>2, JumpGood
<1>4. CASE Continue
  <2>1. PICK i \in DOMAIN open : Jump("continue", Terminate(blocks, cur, {open[i].orelse}))
    BY <1>4 DEF Continue
  <2>2. Graph(Terminate(blocks, cur, {open[i].orelse}), n)
    BY <1>1, <1>2, TerminateGood
  <2> QED BY <2>1, <2>2, JumpGood
<1> QED BY <1>3, <1>4

LEMMA ReturnGood == ASSUME Shape, Return PROVE Shape'
<1> DEFINE n == Len(blocks)
           x == [blocks[cur] EXCEPT !.term = "ret"]
           y == [x EXCEPT !.to = {}]
           bx == [blocks EXCEPT ![cur] = x]
           bs == [blocks EXCEPT ![cur].term = "ret", ![cur].to = {}]
<1>1. n \in Nat /\ cur \in 1..n /\ blocks \in [1..n -> GoodBlock(n)]
  BY DEF Shape, Graph
<1>2. x \in GoodBlock(n) /\ y \in GoodBlock(n)
  BY <1>1 DEF GoodBlock
<1>3. bx \in [1..n -> GoodBlock(n)] /\ bx[cur] = x
  BY <1>1, <1>2
<1>4. bs = [bx EXCEPT ![cur] = y]
  BY <1>3
<1>5. Graph(bs, n)
  BY <1>2, <1>3, <1>4 DEF Graph
<1> QED BY <1>5, JumpGood DEF Return

\* Lowering starts with the empty entry block.
LEMMA InitGood == LowerInit => Shape
<1> SUFFICES ASSUME LowerInit PROVE Shape
  OBVIOUS
<1>1. dialect \subseteq Kind
  BY DialectAssumption DEF LowerInit
<1>2. Block0 \in GoodBlock(1)
  BY EmptySeq DEF GoodBlock, Block0
<1>3. blocks \in [1..1 -> GoodBlock(1)] /\ Len(blocks) = 1
  BY <1>2 DEF LowerInit
<1>4. open \in Seq(GoodOpen(1, locals))
  BY EmptySeq DEF LowerInit
<1>5. Graph(blocks, Len(blocks)) /\ cur \in 1..Len(blocks)
  BY <1>3 DEF LowerInit, Graph
<1>6. Len(blocks) = 1
  BY <1>3
<1>7. locals \subseteq Local /\ visible \subseteq locals /\ moved \subseteq Local
      /\ size \in Nat /\ dead \in BOOLEAN
  BY DEF LowerInit
<1> QED BY <1>1, <1>4, <1>5, <1>6, <1>7 DEF Shape

\* Every statement keeps the graph closed and its blocks well formed.
THEOREM LowerGood == ASSUME Shape, Lower PROVE Shape'
<1>1. ASSUME NEW v \in Local, Bind(v) \/ Read(v) \/ Write(v) \/ Spawn(v) PROVE Shape'
  BY <1>1, BindGood, UseGood
<1>2. ASSUME NEW v \in Local, NEW w \in Local, Copy(w, v) PROVE Shape'
  BY <1>2, CopyGood
<1>3. CASE If \/ Else \/ EndIf
  BY <1>3, IfGood, ElseGood, EndIfGood
<1>4. CASE For \/ EndFor
  BY <1>4, ForGood, EndForGood
<1>5. CASE Break \/ Continue \/ Return
  BY <1>5, BreakGood, ReturnGood
<1> QED BY <1>1, <1>2, <1>3, <1>4, <1>5 DEF Lower

\* ensureReturn keeps the graph closed and leaves no block without a terminator.
THEOREM EnsureReturnGood ==
  ASSUME Shape
  PROVE  /\ Graph(EnsureReturn, Len(blocks))
         /\ \A b \in 1..Len(blocks) : EnsureReturn[b].term # "nil"
<1> DEFINE n == Len(blocks)
<1> SUFFICES ASSUME NEW b \in 1..n
             PROVE  EnsureReturn[b] \in GoodBlock(n) /\ EnsureReturn[b].term # "nil"
  BY DEF EnsureReturn, Graph
<1>1. blocks[b] \in GoodBlock(n)
  BY DEF Shape, Graph
<1>2. CASE blocks[b].term # "nil"
  BY <1>1, <1>2 DEF EnsureReturn
<1>3. CASE blocks[b].term = "nil" /\ blocks[b].cont # 0
  <2>1. {blocks[b].cont} \in SUBSET (1..n)
    BY <1>1, <1>3 DEF GoodBlock, Shape
  <2>2. ASSUME NEW x \in GoodBlock(n), NEW ts \in SUBSET (1..n)
        PROVE  /\ [x EXCEPT !.term = "br", !.to = ts] \in GoodBlock(n)
               /\ [x EXCEPT !.term = "br", !.to = ts].term # "nil"
    BY DEF GoodBlock
  <2> QED BY <1>1, <1>3, <2>1, <2>2 DEF EnsureReturn
<1>4. CASE blocks[b].term = "nil" /\ blocks[b].cont = 0
  BY <1>1, <1>4 DEF EnsureReturn, GoodBlock
<1> QED BY <1>2, <1>3, <1>4

-----------------------------------------------------------------------------
\* An instruction as lowering writes it: a value is not copied into itself.
Formed(x) ==
  /\ x.op \in {"read", "write", "drop", "run"} => x = Op(x.op, x.src)
  /\ x.src # NoVal => x.src # x.dst /\ x.src # x.into

\* The instruction after a drop gives the slot that was freed its next content.
Refills(x, v) == x.op \in {"move", "clone"} /\ x.into = v /\ x.dst = NoVal
Paired(is) == \A i \in 1..Len(is) :
                /\ Formed(is[i])
                /\ is[i].op = "drop" => i + 1 \in 1..Len(is) /\ Refills(is[i + 1], is[i].src)
Built == \A b \in 1..Len(blocks) : Paired(blocks[b].insts)

LEMMA PairedNothing == Paired(<<>>)
  BY DEF Paired

LEMMA PairedOne ==
  ASSUME NEW x, Formed(x), x.op # "drop"
  PROVE  Paired(<<x>>)
  BY DEF Paired

LEMMA FormedInsts ==
  /\ \A v \in Local, op \in {"read", "write", "drop", "run"} : Formed(Op(op, v))
  /\ \A w \in Local : Formed(Def("new", w, NoVal))
  /\ \A w, v \in Local, op \in {"move", "clone"} : w # v => Formed(Def(op, w, v))
  /\ \A w \in Local, v \in Local \cup {NoVal} : w # v => Formed(MoveInto(w, v))
  BY LocalAssumption DEF Formed, Op, Def, MoveInto

\* A slot that is written again.
LEMMA PairedRefill ==
  ASSUME NEW w \in Local, NEW v \in Local \cup {NoVal}, w # v
  PROVE  Paired(Append(DropOld(w), MoveInto(w, v)))
<1> DEFINE x == MoveInto(w, v)
           d == Op("drop", w)
<1>1. Formed(x) /\ Formed(d)
  BY FormedInsts
<1>2. x.op = "move" /\ Refills(x, w) /\ d.op = "drop" /\ d.src = w
  BY DEF Refills, MoveInto, Op
<1> HIDE DEF x, d
<1>3. CASE w \in moved
  <2>1. Append(DropOld(w), x) = <<x>>
    BY <1>3 DEF DropOld
  <2> QED BY <1>1, <1>2, <2>1, PairedOne DEF x
<1>4. CASE w \notin moved
  <2>1. DropOld(w) = <<d>>
    BY <1>4 DEF DropOld, d
  <2> DEFINE s == Append(<<d>>, x)
  <2>2. Len(s) = 2 /\ s[1] = d /\ s[2] = x
    <3>1. <<d>> \in Seq({d, x}) /\ Len(<<d>>) = 1 /\ <<d>>[1] = d
      OBVIOUS
    <3>2. /\ Len(s) = Len(<<d>>) + 1
          /\ \A i \in 1..Len(<<d>>) : s[i] = <<d>>[i]
          /\ s[Len(<<d>>) + 1] = x
      <4>1. x \in {d, x}
        OBVIOUS
      <4> QED BY <3>1, <4>1, AppendProperties
    <3> QED BY <3>1, <3>2
  <2> HIDE DEF s
  <2>3. Paired(s)
    BY <1>1, <1>2, <2>2 DEF Paired
  <2> QED BY <2>1, <2>3 DEF s, x
<1> QED BY <1>3, <1>4

LEMMA PairedConcat ==
  ASSUME NEW S, NEW p \in Seq(S), NEW q \in Seq(S), Paired(p), Paired(q)
  PROVE  Paired(p \o q)
<1> DEFINE m == Len(p)
           n == Len(q)
<1>1. m \in Nat /\ n \in Nat /\ Len(p \o q) = m + n
      /\ \A i \in 1..m + n : (p \o q)[i] = IF i <= m THEN p[i] ELSE q[i - m]
  BY ConcatProperties, LenProperties
<1> SUFFICES ASSUME NEW i \in 1..m + n
             PROVE  /\ Formed((p \o q)[i])
                    /\ (p \o q)[i].op = "drop" =>
                         i + 1 \in 1..m + n /\ Refills((p \o q)[i + 1], (p \o q)[i].src)
  BY <1>1 DEF Paired
<1>2. CASE i <= m
  <2>1. i \in 1..m /\ (p \o q)[i] = p[i]
    BY <1>1, <1>2
  <2>2. p[i].op = "drop" => i + 1 \in 1..m /\ Refills(p[i + 1], p[i].src)
    BY <2>1 DEF Paired
  <2>3. i + 1 \in 1..m => i + 1 \in 1..m + n /\ (p \o q)[i + 1] = p[i + 1]
    BY <1>1
  <2>4. Formed(p[i])
    BY <2>1 DEF Paired
  <2> QED BY <2>1, <2>2, <2>3, <2>4
<1>3. CASE i > m
  <2>1. i - m \in 1..n /\ (p \o q)[i] = q[i - m]
    BY <1>1, <1>3
  <2>2. q[i - m].op = "drop" => i - m + 1 \in 1..n /\ Refills(q[i - m + 1], q[i - m].src)
    BY <2>1 DEF Paired
  <2>3. i - m + 1 \in 1..n => i + 1 \in 1..m + n /\ (p \o q)[i + 1] = q[i - m + 1]
    <3>1. (i + 1) - m = i - m + 1
      BY <1>1
    <3> QED BY <1>1, <1>3, <3>1
  <2>4. Formed(q[i - m])
    BY <2>1 DEF Paired
  <2> QED BY <2>1, <2>2, <2>3, <2>4
<1> QED BY <1>1, <1>2, <1>3

LEMMA EmitBuilt ==
  ASSUME Shape, Built, NEW is \in Seq(GoodInst), Paired(is), Emit(is)
  PROVE  Built'
<1>1. Len(blocks') = Len(blocks) /\ Len(blocks) \in Nat /\ blocks \in [1..Len(blocks) -> GoodBlock(Len(blocks))]
  BY EmitGood DEF Shape, Graph
<1> SUFFICES ASSUME NEW b \in 1..Len(blocks) PROVE Paired(blocks'[b].insts)
  BY <1>1 DEF Built
<1>2. blocks[b].insts \in Seq(GoodInst) /\ Paired(blocks[b].insts)
  BY <1>1 DEF GoodBlock, Built
<1>3. blocks'[b].insts = IF b = cur THEN blocks[b].insts \o is ELSE blocks[b].insts
  BY <1>1 DEF Emit, GoodBlock
<1> QED BY <1>2, <1>3, PairedConcat

\* What a statement that emits nothing makes of a block: the instructions stay, and a
\* block that does not branch has no target.
Becomes(x, y) ==
  y.insts = x.insts /\ (y.term # "br" => y.to = {} \/ (x.term # "br" /\ x.to = y.to))

LEMMA TerminateInsts ==
  ASSUME NEW n, NEW bs, Graph(bs, n), NEW b \in 1..n, NEW ts, NEW c \in 1..n
  PROVE  Becomes(bs[c], Terminate(bs, b, ts)[c])
<1>1. bs \in [1..n -> GoodBlock(n)] /\ bs[b] \in GoodBlock(n)
  BY DEF Graph
<1>2. Terminate(bs, b, ts)[c] = IF c = b THEN [[bs[b] EXCEPT !.term = "br"] EXCEPT !.to = ts] ELSE bs[c]
  BY <1>1 DEF Terminate
<1>3. ASSUME NEW x \in GoodBlock(n)
      PROVE  LET y == [[x EXCEPT !.term = "br"] EXCEPT !.to = ts] IN
             y.insts = x.insts /\ y.term = "br"
  BY DEF GoodBlock
<1> QED BY <1>1, <1>2, <1>3 DEF Becomes

LEMMA FallInsts ==
  ASSUME NEW n, NEW bs, Graph(bs, n), NEW b \in 1..n, NEW t, NEW c \in 1..n
  PROVE  Becomes(bs[c], Fall(bs, b, t)[c])
<1>1. Becomes(bs[c], bs[c])
  BY DEF Becomes
<1> QED BY <1>1, TerminateInsts DEF Fall

\* Old blocks become other ones, and new ones have been empty.
Extends ==
  /\ Len(blocks) <= Len(blocks')
  /\ \A b \in 1..Len(blocks') :
       Becomes(IF b <= Len(blocks) THEN blocks[b] ELSE Block0, blocks'[b])

LEMMA ExtendsBuilt == ASSUME Shape, Built, Extends PROVE Built'
<1>1. Len(blocks) \in Nat
  BY DEF Shape
<1> SUFFICES ASSUME NEW b \in 1..Len(blocks') PROVE Paired(blocks'[b].insts)
  BY DEF Built
<1>2. CASE b <= Len(blocks)
  <2>1. b \in 1..Len(blocks) /\ blocks'[b].insts = blocks[b].insts
    BY <1>1, <1>2 DEF Extends, Becomes
  <2> QED BY <2>1 DEF Built
<1>3. CASE ~(b <= Len(blocks))
  BY <1>3, PairedNothing DEF Extends, Becomes, Block0
<1> QED BY <1>2, <1>3

-----------------------------------------------------------------------------
LEMMA StraightBuilt ==
  ASSUME Shape, Built, NEW v \in Local,
         \/ Bind(v) \/ Read(v) \/ Write(v) \/ Spawn(v) \/ \E w \in Local : Copy(w, v)
  PROVE  Built'
<1>1. CASE Bind(v)
  <2>1. CASE v \in locals
    <3>1. v # NoVal /\ Append(DropOld(v), MoveInto(v, NoVal)) \in Seq(GoodInst)
      BY OpGood, DropOldGood, LocalAssumption
    <3>2. Paired(Append(DropOld(v), MoveInto(v, NoVal)))
      BY <3>1, PairedRefill
    <3> QED BY <1>1, <2>1, <3>1, <3>2, EmitBuilt DEF Bind
  <2>2. CASE v \notin locals
    <3>1. <<Def("new", v, NoVal)>> \in Seq(GoodInst)
      BY OpGood
    <3>2. Formed(Def("new", v, NoVal)) /\ Def("new", v, NoVal).op # "drop"
      BY FormedInsts DEF Def
    <3> QED BY <1>1, <2>2, <3>1, <3>2, PairedOne, EmitBuilt DEF Bind
  <2> QED BY <2>1, <2>2
<1>2. ASSUME NEW op \in {"read", "write", "run"}, NEW k, Use(k, op, v) PROVE Built'
  <2>1. <<Op(op, v)>> \in Seq(GoodInst)
    BY OpGood
  <2>2. Formed(Op(op, v)) /\ Op(op, v).op # "drop"
    BY FormedInsts DEF Op
  <2> QED BY <1>2, <2>1, <2>2, PairedOne, EmitBuilt DEF Use
<1>3. ASSUME NEW w \in Local, Copy(w, v) PROVE Built'
  <2>1. w # v
    BY <1>3 DEF Copy
  <2>2. CASE w \in locals
    <3>1. Append(DropOld(w), MoveInto(w, v)) \in Seq(GoodInst)
      BY OpGood, DropOldGood
    <3> QED BY <1>3, <2>1, <2>2, <3>1, PairedRefill, EmitBuilt DEF Copy
  <2>3. CASE w \notin locals
    <3> DEFINE op == IF v \in Slice THEN "clone" ELSE "move"
    <3>1. op \in {"move", "clone"}
      OBVIOUS
    <3> HIDE DEF op
    <3>2. <<Def(op, w, v)>> \in Seq(GoodInst)
      BY <3>1, OpGood
    <3>3. Formed(Def(op, w, v)) /\ Def(op, w, v).op # "drop"
      BY <2>1, <3>1, FormedInsts DEF Def
    <3>4. Emit(<<Def(op, w, v)>>)
      BY <1>3, <2>3 DEF Copy, op
    <3> QED BY <3>2, <3>3, <3>4, PairedOne, EmitBuilt
  <2> QED BY <2>2, <2>3
<1> QED BY <1>1, <1>2, <1>3 DEF Read, Write, Spawn

\* Empty blocks at the end of a graph.
Padded(bs, cs, n, m) == \A b \in 1..m : cs[b] = IF b <= n THEN bs[b] ELSE Block0

LEMMA WidenInsts ==
  ASSUME NEW n \in Nat, NEW bs, Graph(bs, n), NEW k \in Nat,
         NEW new \in Seq({Block0}), Len(new) = k
  PROVE  Padded(bs, bs \o new, n, n + k)
<1> SUFFICES ASSUME NEW b \in 1..n + k PROVE (bs \o new)[b] = IF b <= n THEN bs[b] ELSE Block0
  BY DEF Padded
<1>1. bs \in Seq(GoodBlock(n)) /\ Len(bs) = n
  BY FunIsSeq DEF Graph
<1> DEFINE S == GoodBlock(n) \cup {Block0}
<1>2. bs \in Seq(S) /\ new \in Seq(S)
  BY <1>1, SeqMonotonic
<1> HIDE DEF S
<1>3. (bs \o new)[b] = IF b <= n THEN bs[b] ELSE new[b - n]
  BY <1>1, <1>2, ConcatProperties
<1>4. b > n => new[b - n] = Block0
  <2>1. b > n => b - n \in 1..Len(new)
    OBVIOUS
  <2> QED BY <2>1, ElementOfSeq
<1> QED BY <1>3, <1>4

LEMMA BranchExtends == ASSUME Shape, If \/ For PROVE Extends
<1> DEFINE n == Len(blocks)
<1>1. n \in Nat \ {0} /\ cur \in 1..n /\ Graph(blocks, n)
  BY DEF Shape
<1>2. CASE If
  <2> DEFINE new == <<Block0, Block0, Block0>>
             bs == blocks \o new
  <2>1. new \in Seq({Block0}) /\ Len(new) = 3
    OBVIOUS
  <2>2. Graph(bs, n + 3) /\ cur \in 1..n + 3 /\ {n + 1, n + 2} \subseteq 1..n + 3
    <3> HIDE DEF new
    <3>1. Graph(bs, n + 3)
      BY <1>1, <2>1, WidenGood
    <3> QED BY <1>1, <3>1
  <2>3. blocks' = Terminate(bs, cur, {n + 1, n + 2})
    BY <1>2 DEF If
  <2>4. Graph(blocks', n + 3)
    <3> HIDE DEF bs, n
    <3>1. n + 3 \in Nat
      BY <1>1
    <3> QED BY <2>2, <2>3, <3>1, TerminateGood
  <2>5. Len(blocks') = n + 3
    BY <1>1, <2>4, FunIsSeq DEF Graph
  <2>6. ASSUME NEW b \in 1..n + 3
        PROVE  Becomes(IF b <= n THEN blocks[b] ELSE Block0, blocks'[b])
    <3>1. bs[b] = IF b <= n THEN blocks[b] ELSE Block0
      <4> HIDE DEF n, new
      <4>1. n \in Nat /\ 3 \in Nat
        BY <1>1
      <4>2. Padded(blocks, blocks \o new, n, n + 3)
        BY <1>1, <2>1, <4>1, WidenInsts
      <4> QED BY <4>2 DEF Padded
    <3> HIDE DEF bs, n
    <3> QED BY <2>2, <2>3, <3>1, TerminateInsts
  <2> QED BY <1>1, <2>5, <2>6 DEF Extends
<1>3. CASE For
  <2> DEFINE new == <<Block0, Block0, Block0, Block0>>
             bs == blocks \o new
             cs == Terminate(bs, cur, {n + 1})
  <2>1. new \in Seq({Block0}) /\ Len(new) = 4
    OBVIOUS
  <2>2. /\ Graph(bs, n + 4) /\ cur \in 1..n + 4 /\ n + 1 \in 1..n + 4
        /\ {n + 1} \subseteq 1..n + 4 /\ {n + 2, n + 4} \subseteq 1..n + 4
    <3> HIDE DEF new
    <3>1. Graph(bs, n + 4)
      BY <1>1, <2>1, WidenGood
    <3> QED BY <1>1, <3>1
  <2>3. blocks' = Terminate(cs, n + 1, {n + 2, n + 4})
    BY <1>3 DEF For
  <2>4. Graph(cs, n + 4)
    <3> HIDE DEF bs, n
    <3>1. n + 4 \in Nat
      BY <1>1
    <3> QED BY <2>2, <3>1, TerminateGood
  <2>5. Len(blocks') = n + 4
    <3> HIDE DEF cs, n
    <3>1. n + 4 \in Nat
      BY <1>1
    <3>2. Graph(blocks', n + 4)
      BY <2>2, <2>3, <2>4, <3>1, TerminateGood
    <3> QED BY <3>1, <3>2, FunIsSeq DEF Graph
  <2>6. ASSUME NEW b \in 1..n + 4
        PROVE  Becomes(IF b <= n THEN blocks[b] ELSE Block0, blocks'[b])
    <3>1. bs[b] = IF b <= n THEN blocks[b] ELSE Block0
      <4> HIDE DEF n, new
      <4>1. n \in Nat /\ 4 \in Nat
        BY <1>1
      <4>2. Padded(blocks, blocks \o new, n, n + 4)
        BY <1>1, <2>1, <4>1, WidenInsts
      <4> QED BY <4>2 DEF Padded
    <3>2. Becomes(bs[b], cs[b])
      <4> HIDE DEF bs, n
      <4> QED BY <2>2, TerminateInsts
    <3> HIDE DEF cs, bs, n
    <3>3. Becomes(cs[b], Terminate(cs, n + 1, {n + 2, n + 4})[b])
      BY <2>2, <2>4, TerminateInsts
    <3>4. Becomes(bs[b], blocks'[b])
      BY <2>3, <3>2, <3>3 DEF Becomes
    <3> QED BY <3>1, <3>4
  <2> QED BY <1>1, <2>5, <2>6 DEF Extends
<1> QED BY <1>2, <1>3

\* A graph of the same blocks.
Onto(bs, cs, n) == Graph(cs, n) /\ \A b \in 1..n : Becomes(bs[b], cs[b])

LEMMA OntoExtends ==
  ASSUME Shape, Onto(blocks, blocks', Len(blocks))
  PROVE  Extends
<1>1. Len(blocks') = Len(blocks) /\ Len(blocks) \in Nat
  BY FunIsSeq DEF Shape, Onto, Graph
<1> QED BY <1>1 DEF Extends, Onto

LEMMA FallOnto ==
  ASSUME NEW n \in Nat, NEW bs, NEW cs, Onto(bs, cs, n), NEW b \in 1..n, NEW t \in 1..n
  PROVE  Onto(bs, Fall(cs, b, t), n)
<1>1. Graph(cs, n)
  BY DEF Onto
<1>2. Graph(Fall(cs, b, t), n)
  BY <1>1, FallGood
<1>3. \A c \in 1..n : Becomes(cs[c], Fall(cs, b, t)[c])
  BY <1>1, FallInsts
<1>4. \A c \in 1..n : Becomes(bs[c], cs[c])
  BY DEF Onto
<1>5. ASSUME NEW c \in 1..n PROVE Becomes(bs[c], Fall(cs, b, t)[c])
  <2>1. \A x, y, z : Becomes(x, y) /\ Becomes(y, z) => Becomes(x, z)
    BY DEF Becomes
  <2> QED BY <1>3, <1>4, <2>1
<1> QED BY <1>2, <1>5 DEF Onto

LEMMA EndExtends == ASSUME Shape, Else \/ EndIf \/ EndFor PROVE Extends
<1> DEFINE n == Len(blocks)
<1>1. n \in Nat \ {0} /\ cur \in 1..n /\ Graph(blocks, n) /\ open # <<>>
  BY DEF Shape, Else, EndIf, EndFor
<1>2. Top \in GoodOpen(n, locals) /\ Pop \in Seq(GoodOpen(n, locals))
  BY <1>1, TopGood
<1>3. /\ Top.after \in 1..n /\ Top.entry \in 1..n /\ Top.orelse \in 1..n
      /\ Top.entry - 1 \in 1..n /\ Enclosing(Pop) \in 0..n
  <2>1. Enclosing(Pop) \in 0..n
    <3> HIDE DEF n
    <3> QED BY <1>1, <1>2, EnclosingGood
  <2> QED BY <1>1, <1>2, <2>1 DEF GoodOpen
<1>4. Onto(blocks, blocks, n)
  BY <1>1 DEF Onto, Becomes
<1> HIDE DEF n
<1>5. Onto(blocks, EndArm, n)
  BY <1>1, <1>3, <1>4, FallOnto DEF EndArm
<1>6. CASE Else
  BY <1>5, <1>6, OntoExtends DEF Else, n
<1>7. CASE EndIf
  <2>1. blocks' = [EndArm EXCEPT ![Top.after].cont = Enclosing(Pop)]
    BY <1>7 DEF EndIf
  <2>2. EndArm \in [1..n -> GoodBlock(n)]
    BY <1>5 DEF Onto, Graph
  <2>3. ASSUME NEW x \in GoodBlock(n)
        PROVE  /\ [x EXCEPT !.cont = Enclosing(Pop)] \in GoodBlock(n)
               /\ Becomes(x, [x EXCEPT !.cont = Enclosing(Pop)])
    BY <1>3 DEF GoodBlock, Becomes
  <2>4. \A b \in 1..n : blocks'[b] = IF b = Top.after
                                     THEN [EndArm[b] EXCEPT !.cont = Enclosing(Pop)]
                                     ELSE EndArm[b]
    BY <1>3, <2>1, <2>2
  <2>5. DOMAIN blocks' = 1..n /\ blocks' = [b \in 1..n |-> blocks'[b]]
    BY <2>1, <2>2
  <2>6. \A b \in 1..n : /\ blocks'[b] \in GoodBlock(n)
                          /\ Becomes(EndArm[b], EndArm[b]) /\ Becomes(EndArm[b], blocks'[b])
    BY <2>2, <2>3, <2>4 DEF Becomes
  <2>7. Onto(blocks, blocks', n)
    <3>1. \A b \in 1..n : Becomes(blocks[b], EndArm[b])
      BY <1>5 DEF Onto
    <3>2. \A x, y, z : Becomes(x, y) /\ Becomes(y, z) => Becomes(x, z)
      BY DEF Becomes
    <3> QED BY <2>5, <2>6, <3>1, <3>2 DEF Onto, Graph
  <2> QED BY <2>7, OntoExtends DEF n
<1>8. CASE EndFor
  <2> DEFINE ended == Fall(Fall(blocks, Top.entry, Top.orelse), cur, Top.orelse)
             looped == Fall(ended, Top.orelse, Top.entry - 1)
  <2>1. Onto(blocks, ended, n)
    BY <1>1, <1>3, <1>4, FallOnto
  <2>2. Onto(blocks, looped, n)
    BY <1>1, <1>3, <2>1, FallOnto
  <2>3. Enclosing(Pop) # 0 => Onto(blocks, Fall(looped, Top.after, Enclosing(Pop)), n)
    <3>1. Enclosing(Pop) # 0 => Enclosing(Pop) \in 1..n
      BY <1>1, <1>3
    <3> HIDE DEF looped
    <3> QED BY <1>1, <1>3, <2>2, <3>1, FallOnto
  <2>4. blocks' = IF Enclosing(Pop) = 0 THEN looped ELSE Fall(looped, Top.after, Enclosing(Pop))
    BY <1>8 DEF EndFor
  <2> HIDE DEF looped
  <2>5. Onto(blocks, blocks', n)
    BY <2>2, <2>3, <2>4
  <2> QED BY <2>5, OntoExtends DEF n
<1> QED BY <1>6, <1>7, <1>8

LEMMA JumpExtends == ASSUME Shape, Break \/ Continue \/ Return PROVE Extends
<1> DEFINE n == Len(blocks)
<1>1. n \in Nat /\ cur \in 1..n /\ Graph(blocks, n)
  BY DEF Shape
<1>2. \A i \in DOMAIN open : open[i].after \in 1..n /\ open[i].orelse \in 1..n
  <2> SUFFICES ASSUME NEW i \in DOMAIN open PROVE open[i].after \in 1..n /\ open[i].orelse \in 1..n
    OBVIOUS
  <2>1. open[i] \in GoodOpen(n, locals)
    BY LenProperties, ElementOfSeq DEF Shape
  <2> QED BY <2>1 DEF GoodOpen
<1>3. ASSUME NEW t \in 1..n, blocks' = Terminate(blocks, cur, {t}) PROVE Extends
  <2>1. Graph(blocks', n)
    BY <1>1, <1>3, TerminateGood
  <2>2. \A b \in 1..n : Becomes(blocks[b], blocks'[b])
    BY <1>1, <1>3, TerminateInsts
  <2> QED BY <2>1, <2>2, OntoExtends DEF Onto
<1>4. CASE Break \/ Continue
  BY <1>2, <1>3, <1>4 DEF Break, Continue, Jump
<1>5. CASE Return
  <2>1. Graph(blocks', n)
    <3>1. Shape' /\ Len(blocks') = n
      BY <1>5, ReturnGood, <1>1 DEF Return, Jump, Graph
    <3> QED BY <3>1 DEF Shape
  <2>2. \A b \in 1..n : Becomes(blocks[b], blocks'[b])
    <3> SUFFICES ASSUME NEW b \in 1..n PROVE Becomes(blocks[b], blocks'[b])
      OBVIOUS
    <3>1. blocks' = [blocks EXCEPT ![cur].term = "ret", ![cur].to = {}]
      BY <1>5 DEF Return, Jump
    <3>2. blocks \in [1..n -> GoodBlock(n)]
      BY <1>1 DEF Graph
    <3>3. ASSUME NEW x \in GoodBlock(n)
          PROVE  Becomes(x, [[x EXCEPT !.term = "ret"] EXCEPT !.to = {}]) /\ Becomes(x, x)
      BY DEF GoodBlock, Becomes
    <3>4. blocks'[b] = IF b = cur THEN [[blocks[b] EXCEPT !.term = "ret"] EXCEPT !.to = {}]
                                  ELSE blocks[b]
      BY <1>1, <3>1, <3>2
    <3> QED BY <3>2, <3>3, <3>4
  <2> QED BY <2>1, <2>2, OntoExtends DEF Onto
<1> QED BY <1>4, <1>5

\* Every statement that drops a local refills its slot at once.
LEMMA LowerBuilt == ASSUME Shape, Built, Lower PROVE Built'
  BY StraightBuilt, BranchExtends, EndExtends, JumpExtends, ExtendsBuilt DEF Lower

LEMMA InitBuilt == LowerInit => Built
  BY PairedNothing DEF LowerInit, Built, Block0

-----------------------------------------------------------------------------
\* The blocks a forward analysis starts from, and the sets it can arrive at when it does
\* not go past the blocks of C.
Starts(bs, n) == {1} \cup {b \in 1..n : \A p \in 1..n : b \notin bs[p].to}
Arrives(bs, n, C, X) ==
  X \subseteq 1..n /\ Starts(bs, n) \subseteq X /\ \A q \in X : q \in C \/ bs[q].to \subseteq X
\* Block d is reached without going past a block of C before.
From(bs, n, C, d) == \A X : Arrives(bs, n, C, X) => d \in X

\* Every block is reached, and every block can go on to one without successors.
Grounded(bs, n) == \A d \in 1..n : From(bs, n, {}, d)
Leads(bs, n) == \A X : X \subseteq 1..n /\ X # {} /\ (\A q \in X : bs[q].to \subseteq X)
                         => \E q \in X : bs[q].to = {}

\* The edges out of p are replaced; what they led to, Z, leads nowhere.
Rewired(bs, cs, n, p, Z) ==
  /\ Graph(bs, n) /\ Graph(cs, n) /\ p \in 1..n /\ Z \subseteq 1..n /\ p \notin Z
  /\ \A b \in 1..n : b # p => cs[b].to = bs[b].to
  /\ bs[p].to \subseteq Z /\ \A z \in Z : bs[z].to = {}
  /\ \A t \in cs[p].to : t \in Z \/ \E q \in 1..n : q # p /\ t \in bs[q].to

LEMMA GraphFacts ==
  ASSUME NEW n, NEW bs, Graph(bs, n), NEW b \in 1..n
  PROVE  /\ bs[b] \in GoodBlock(n) /\ bs[b].to \subseteq 1..n
         /\ bs[b].insts \in Seq(GoodInst) /\ bs[b].cont \in 0..n
  BY DEF Graph, GoodBlock

LEMMA FromRewired ==
  ASSUME NEW n \in Nat \ {0}, NEW bs, NEW cs, NEW p, NEW Z, Rewired(bs, cs, n, p, Z),
         NEW C, NEW D, D \subseteq C \cup {p}, NEW d, From(bs, n, C, d), d \notin Z
  PROVE  From(cs, n, D, d)
<1> SUFFICES ASSUME NEW X, Arrives(cs, n, D, X) PROVE d \in X
  BY DEF From
<1> DEFINE Y == X \cup Z
<1>1. Arrives(bs, n, C, Y)
  <2>1. Y \subseteq 1..n
    BY DEF Arrives, Rewired
  <2>2. ASSUME NEW b \in Starts(bs, n) PROVE b \in Y
    <3>1. CASE b \in Starts(cs, n)
      BY <3>1 DEF Arrives
    <3>2. CASE b \notin Starts(cs, n)
      <4>1. b \in 1..n /\ b # 1
        BY <3>2 DEF Starts
      <4>2. PICK q \in 1..n : b \in cs[q].to
        BY <3>2, <4>1 DEF Starts
      <4>3. \A r \in 1..n : b \notin bs[r].to
        BY <4>1 DEF Starts
      <4>4. q = p
        BY <4>2, <4>3 DEF Rewired
      <4> QED BY <4>2, <4>3, <4>4 DEF Rewired
    <3> QED BY <3>1, <3>2
  <2>3. ASSUME NEW q \in Y PROVE q \in C \/ bs[q].to \subseteq Y
    <3>1. CASE q \in Z \/ q = p
      BY <3>1 DEF Rewired
    <3>2. CASE q \in X /\ q # p
      <4>1. q \in 1..n
        BY <3>2 DEF Arrives
      <4> QED BY <3>2, <4>1 DEF Arrives, Rewired
    <3> QED BY <3>1, <3>2
  <2> QED BY <2>1, <2>2, <2>3 DEF Arrives
<1> QED BY <1>1 DEF From

LEMMA GroundedRewired ==
  ASSUME NEW n \in Nat \ {0}, NEW bs, NEW cs, NEW p, NEW Z, Rewired(bs, cs, n, p, Z),
         Grounded(bs, n)
  PROVE  Grounded(cs, n)
<1>1. ASSUME NEW d \in 1..n, d \notin Z PROVE From(cs, n, {}, d)
  <2>1. From(bs, n, {}, d)
    BY <1>1 DEF Grounded
  <2> QED BY <1>1, <2>1, FromRewired
<1>2. ASSUME NEW d \in Z PROVE From(cs, n, {}, d)
  <2> SUFFICES ASSUME NEW X, Arrives(cs, n, {}, X), d \notin X PROVE FALSE
    BY DEF From
  <2>1. d \in 1..n /\ d \notin Starts(cs, n)
    BY DEF Arrives, Rewired
  <2>2. PICK q \in 1..n : d \in cs[q].to
    BY <2>1 DEF Starts
  <2>3. q \notin Z
    BY <2>2 DEF Rewired
  <2>4. q \in X
    BY <1>1, <2>3 DEF From
  <2> QED BY <2>2, <2>4 DEF Arrives
<1> QED BY <1>1, <1>2 DEF Grounded

LEMMA LeadsRewired ==
  ASSUME NEW n \in Nat \ {0}, NEW bs, NEW cs, NEW p, NEW Z, Rewired(bs, cs, n, p, Z),
         Leads(bs, n),
         \A t \in cs[p].to : t # p /\ (bs[t].to = {} \/ \E z \in bs[t].to : z # p /\ bs[z].to = {})
  PROVE  Leads(cs, n)
<1> SUFFICES ASSUME NEW X, X \subseteq 1..n, X # {}, \A q \in X : cs[q].to \subseteq X
             PROVE  \E q \in X : cs[q].to = {}
  BY DEF Leads
<1>1. CASE p \notin X
  <2>1. \A q \in X : cs[q].to = bs[q].to
    BY <1>1 DEF Rewired
  <2>2. \A q \in X : bs[q].to \subseteq X
    BY <2>1
  <2>3. \E q \in X : bs[q].to = {}
    BY <2>2 DEF Leads
  <2> QED BY <2>1, <2>3
<1>2. CASE p \in X /\ cs[p].to # {}
  <2>1. PICK t \in cs[p].to : TRUE
    BY <1>2
  <2>2. t \in X /\ t # p /\ cs[t].to = bs[t].to
    BY <1>2, <2>1 DEF Rewired
  <2>3. CASE bs[t].to # {}
    <3>1. PICK z \in bs[t].to : z # p /\ bs[z].to = {}
      BY <2>1, <2>3
    <3>2. z \in X
      BY <2>2, <3>1
    <3> QED BY <3>1, <3>2 DEF Rewired
  <2> QED BY <2>2, <2>3
<1>3. CASE p \in X /\ cs[p].to = {}
  BY <1>3
<1> QED BY <1>1, <1>2, <1>3

\* Blank blocks are added.
Widened(bs, cs, n, m) ==
  /\ Graph(bs, n) /\ Graph(cs, m) /\ n <= m
  /\ \A b \in 1..n : cs[b] = bs[b]
  /\ \A b \in n + 1..m : cs[b] = Block0

LEMMA WidenedFacts ==
  ASSUME NEW n \in Nat \ {0}, NEW m \in Nat, NEW bs, NEW cs, Widened(bs, cs, n, m)
  PROVE  /\ \A b \in 1..m : b \in 1..n \/ b \in n + 1..m
         /\ 1..n \subseteq 1..m /\ n + 1..m \subseteq 1..m
         /\ \A b \in n + 1..m : cs[b].to = {} /\ b \notin 1..n
         /\ \A b \in 1..n : cs[b].to = bs[b].to /\ bs[b].to \subseteq 1..n
<1>1. n <= m
  BY DEF Widened
<1>2. \A b \in n + 1..m : cs[b].to = {} /\ b \notin 1..n
  BY DEF Widened, Block0
<1>3. \A b \in 1..n : cs[b].to = bs[b].to /\ bs[b].to \subseteq 1..n
  BY GraphFacts DEF Widened
<1> QED BY <1>1, <1>2, <1>3

LEMMA FromWidened ==
  ASSUME NEW n \in Nat \ {0}, NEW m \in Nat, NEW bs, NEW cs, Widened(bs, cs, n, m),
         NEW C, NEW d \in 1..n, From(bs, n, C, d)
  PROVE  From(cs, m, C, d)
<1> SUFFICES ASSUME NEW X, Arrives(cs, m, C, X) PROVE d \in X
  BY DEF From
<1> DEFINE Y == X \cap (1..n)
<1>1. \A b \in Starts(bs, n) : b \in Starts(cs, m) /\ b \in 1..n
  BY WidenedFacts DEF Starts
<1>2. Arrives(bs, n, C, Y)
  BY <1>1, WidenedFacts DEF Arrives
<1> QED BY <1>2 DEF From

LEMMA GroundedWidened ==
  ASSUME NEW n \in Nat \ {0}, NEW m \in Nat, NEW bs, NEW cs, Widened(bs, cs, n, m),
         Grounded(bs, n)
  PROVE  Grounded(cs, m)
<1>1. ASSUME NEW d \in 1..n PROVE From(cs, m, {}, d)
  BY FromWidened DEF Grounded
<1>2. ASSUME NEW d \in n + 1..m PROVE From(cs, m, {}, d)
  <2>1. d \in Starts(cs, m)
    BY WidenedFacts DEF Starts
  <2> QED BY <2>1 DEF From, Arrives
<1> QED BY <1>1, <1>2, WidenedFacts DEF Grounded

LEMMA LeadsWidened ==
  ASSUME NEW n \in Nat \ {0}, NEW m \in Nat, NEW bs, NEW cs, Widened(bs, cs, n, m),
         Leads(bs, n)
  PROVE  Leads(cs, m)
<1> SUFFICES ASSUME NEW X, X \subseteq 1..m, X # {}, \A q \in X : cs[q].to \subseteq X
             PROVE  \E q \in X : cs[q].to = {}
  BY DEF Leads
<1>1. CASE X \subseteq 1..n
  <2>1. \A q \in X : cs[q].to = bs[q].to
    BY <1>1, WidenedFacts
  <2> QED BY <1>1, <2>1 DEF Leads
<1>2. CASE ~(X \subseteq 1..n)
  BY <1>2, WidenedFacts
<1> QED BY <1>1, <1>2

\* Block x holds an instruction that copies v, or one that creates it.
Copies(x, v) == \E i \in 1..Len(x.insts) : x.insts[i].op \in {"move", "clone"} /\ x.insts[i].src = v
Creates(x, v) == \E i \in 1..Len(x.insts) : x.insts[i].dst = v
Copied(bs, n, v) == {b \in 1..n : Copies(bs[b], v)}

\* Where a value is created, no path has copied it before.
CreatedFirst(bs, n) ==
  \A v \in Local : \A d \in 1..n : Creates(bs[d], v) => From(bs, n, Copied(bs, n, v), d)

\* The blocks of an open construct that lowering will move to.
PendOf(o) == IF o.kind = "else" THEN {o.after} ELSE {o.orelse, o.after}

\* An open construct with the current block c: its first block is the current one or
\* has its terminator; the header of a loop leads to the exit, and another block than the
\* current one leads to the header.
Framed(o, bs, n, c) ==
  /\ o.entry \in 1..n /\ (o.entry = c \/ bs[o.entry].term # "nil")
  /\ o.kind = "for" =>
       /\ o.entry - 1 \in 1..n /\ o.entry - 1 # c
       /\ bs[o.entry - 1].term # "nil" /\ o.after \in bs[o.entry - 1].to
       /\ \E q \in 1..n : q # c /\ o.entry - 1 \in bs[q].to

\* A graph under construction: c is the current block, P the blocks lowering will move
\* to, F the constructs that are open.
Flows(bs, n, c, P, F) ==
  /\ Graph(bs, n) /\ c \in 1..n /\ P \subseteq 1..n /\ c \notin P
  /\ \A p \in P : bs[p] = Block0
  /\ \A b \in 1..n : bs[b].term = "nil" => bs[b].to = {} /\ b \in P \cup {c}
  /\ bs[c].to \subseteq P
  /\ Grounded(bs, n) /\ Leads(bs, n) /\ CreatedFirst(bs, n)
  /\ \A o \in F : Framed(o, bs, n, c)

LEMMA BlankBlock ==
  /\ Block0.to = {} /\ Block0.term = "nil" /\ Block0.cont = 0
  /\ \A v : ~Creates(Block0, v) /\ ~Copies(Block0, v)
  BY DEF Block0, Creates, Copies

\* Only the current block changes.
LEMMA CreatedEdit ==
  ASSUME NEW n \in Nat \ {0}, NEW bs, NEW cs, NEW c, NEW Z, Rewired(bs, cs, n, c, Z),
         \A z \in Z : bs[z] = Block0,
         \A b \in 1..n : b # c => cs[b] = bs[b],
         \A v \in Local : Creates(cs[c], v) => Creates(bs[c], v) \/ Copied(bs, n, v) = {},
         Grounded(bs, n), CreatedFirst(bs, n)
  PROVE  CreatedFirst(cs, n)
<1> SUFFICES ASSUME NEW v \in Local, NEW d \in 1..n, Creates(cs[d], v)
             PROVE  From(cs, n, Copied(cs, n, v), d)
  BY DEF CreatedFirst
<1>1. c \in 1..n /\ Z \subseteq 1..n /\ c \notin Z
  BY DEF Rewired
<1>2. d \notin Z
  BY <1>1, BlankBlock
<1>3. Copied(cs, n, v) \subseteq Copied(bs, n, v) \cup {c}
  BY DEF Copied
<1>4. CASE Creates(bs[d], v)
  <2>1. From(bs, n, Copied(bs, n, v), d)
    BY <1>4 DEF CreatedFirst
  <2> QED BY <1>2, <1>3, <2>1, FromRewired
<1>5. CASE Copied(bs, n, v) = {}
  <2>1. From(bs, n, {}, d)
    BY DEF Grounded
  <2>2. Copied(cs, n, v) \subseteq {} \cup {c}
    BY <1>3, <1>5
  <2> QED BY <1>2, <2>1, <2>2, FromRewired
<1> QED BY <1>4, <1>5

LEMMA FlowsEdit ==
  ASSUME NEW n \in Nat \ {0}, NEW bs, NEW cs, NEW c, NEW P, NEW F, Flows(bs, n, c, P, F),
         Graph(cs, n), \A b \in 1..n : b # c => cs[b] = bs[b],
         cs[c].to \subseteq P, cs[c].term = "nil" => cs[c].to = {},
         \A v \in Local : Creates(cs[c], v) => Creates(bs[c], v) \/ Copied(bs, n, v) = {}
  PROVE  Flows(cs, n, c, P, F)
<1>1. Rewired(bs, cs, n, c, P)
  BY BlankBlock DEF Flows, Rewired
<1>2. Grounded(cs, n)
  BY <1>1, GroundedRewired DEF Flows
<1>3. Leads(cs, n)
  <2>1. \A t \in cs[c].to : t # c /\ bs[t].to = {}
    BY BlankBlock DEF Flows
  <2> QED BY <1>1, <2>1, LeadsRewired DEF Flows
<1>4. CreatedFirst(cs, n)
  BY <1>1, CreatedEdit DEF Flows
<1>5. \A o \in F : Framed(o, cs, n, c)
  BY DEF Flows, Framed
<1>6. \A p \in P : cs[p] = Block0
  BY DEF Flows
<1>7. \A b \in 1..n : cs[b].term = "nil" => cs[b].to = {} /\ b \in P \cup {c}
  BY DEF Flows
<1> QED BY <1>2, <1>3, <1>4, <1>5, <1>6, <1>7 DEF Flows

\* The current block has its terminator: the next one becomes current.
LEMMA FlowsMove ==
  ASSUME NEW n \in Nat \ {0}, NEW bs, NEW c, NEW P, NEW F, Flows(bs, n, c, P, F),
         bs[c].term # "nil", NEW p \in P
  PROVE  Flows(bs, n, p, P \ {p}, F)
<1>1. p \in 1..n /\ p # c /\ bs[p].to = {} /\ bs[p].term = "nil"
  BY BlankBlock DEF Flows
<1>2. ASSUME NEW o \in F PROVE Framed(o, bs, n, p)
  <2>1. Framed(o, bs, n, c)
    BY DEF Flows
  <2> QED BY <1>1, <2>1 DEF Framed
<1>3. \A b \in 1..n : bs[b].term = "nil" => bs[b].to = {} /\ b \in (P \ {p}) \cup {p}
  BY DEF Flows
<1> QED BY <1>1, <1>2, <1>3 DEF Flows

LEMMA FlowsWiden ==
  ASSUME NEW n \in Nat \ {0}, NEW m \in Nat, NEW bs, NEW cs, Widened(bs, cs, n, m),
         NEW c, NEW P, NEW F, Flows(bs, n, c, P, F)
  PROVE  Flows(cs, m, c, P \cup (n + 1..m), F)
<1>1. Graph(cs, m) /\ n <= m /\ \A b \in 1..n : cs[b] = bs[b]
  BY DEF Widened
<1>2. \A b \in n + 1..m : cs[b] = Block0 /\ b \notin 1..n
  BY WidenedFacts DEF Widened
<1>3. Grounded(cs, m) /\ Leads(cs, m)
  BY GroundedWidened, LeadsWidened DEF Flows
<1>4. CreatedFirst(cs, m)
  <2> SUFFICES ASSUME NEW v \in Local, NEW d \in 1..m, Creates(cs[d], v)
               PROVE  From(cs, m, Copied(cs, m, v), d)
    BY DEF CreatedFirst
  <2>1. d \in 1..n
    BY <1>2, WidenedFacts, BlankBlock
  <2>2. Copied(cs, m, v) = Copied(bs, n, v)
    BY <1>1, <1>2, WidenedFacts, BlankBlock DEF Copied
  <2>3. From(bs, n, Copied(bs, n, v), d)
    BY <1>1, <2>1 DEF Flows, CreatedFirst
  <2> QED BY <2>1, <2>2, <2>3, FromWidened
<1>5. ASSUME NEW o \in F PROVE Framed(o, cs, m, c)
  <2>1. Framed(o, bs, n, c)
    BY DEF Flows
  <2> QED BY <1>1, <2>1, WidenedFacts DEF Framed
<1>6. \A b \in 1..m : cs[b].term = "nil" => cs[b].to = {} /\ b \in (P \cup (n + 1..m)) \cup {c}
  BY <1>1, <1>2, WidenedFacts DEF Flows
<1>7. /\ c \in 1..m /\ P \cup (n + 1..m) \subseteq 1..m /\ c \notin P \cup (n + 1..m)
      /\ cs[c].to \subseteq P /\ \A p \in P \cup (n + 1..m) : cs[p] = Block0
  BY <1>1, <1>2, WidenedFacts DEF Flows
<1> QED BY <1>1, <1>3, <1>4, <1>5, <1>6, <1>7 DEF Flows

\* The update block u of a loop gets its edge back to the header h.
BackEdge(bs, cs, n, u, h) ==
  /\ h \in 1..n /\ h # u /\ \E q \in 1..n : q # u /\ h \in bs[q].to
  /\ Graph(cs, n) /\ \A b \in 1..n : b # u => cs[b] = bs[b]
  /\ cs[u].to \subseteq {h} /\ cs[u].term # "nil" /\ cs[u].insts = bs[u].insts

\* The exit x becomes current.
LEMMA FlowsLoop ==
  ASSUME NEW n \in Nat \ {0}, NEW bs, NEW cs, NEW u, NEW P, NEW F, Flows(bs, n, u, P, F),
         NEW h, BackEdge(bs, cs, n, u, h), NEW x \in P, x \in bs[h].to
  PROVE  Flows(cs, n, x, P \ {x}, F)
<1> USE DEF BackEdge
<1>1. x \in 1..n /\ x # u /\ bs[x].to = {} /\ bs[x].term = "nil"
  BY BlankBlock DEF Flows
<1>2. Rewired(bs, cs, n, u, P)
  BY BlankBlock DEF Flows, Rewired
<1>3. Grounded(cs, n)
  BY <1>2, GroundedRewired DEF Flows
<1>4. Leads(cs, n)
  <2>1. \A t \in cs[u].to : t # u /\ \E z \in bs[t].to : z # u /\ bs[z].to = {}
    BY <1>1
  <2> QED BY <1>2, <2>1, LeadsRewired DEF Flows
<1>5. CreatedFirst(cs, n)
  <2>1. \A v \in Local : Creates(cs[u], v) => Creates(bs[u], v)
    BY DEF Creates
  <2> QED BY <1>2, <2>1, CreatedEdit DEF Flows
<1>6. ASSUME NEW o \in F PROVE Framed(o, cs, n, x)
  <2>1. Framed(o, bs, n, u)
    BY DEF Flows
  <2> QED BY <1>1, <2>1 DEF Framed
<1>7. \A b \in 1..n : cs[b].term = "nil" => cs[b].to = {} /\ b \in (P \ {x}) \cup {x}
  BY DEF Flows
<1>8. /\ P \ {x} \subseteq 1..n /\ x \notin P \ {x} /\ cs[x].to \subseteq P \ {x}
      /\ \A p \in P \ {x} : cs[p] = Block0
  BY <1>1 DEF Flows
<1> QED BY <1>1, <1>3, <1>4, <1>5, <1>6, <1>7, <1>8 DEF Flows

-----------------------------------------------------------------------------
Frames(os) == {os[i] : i \in 1..Len(os)}
Waits(os) == UNION {PendOf(o) : o \in Frames(os)}
\* No block is waited for twice.
Apart(os) ==
  /\ \A i \in 1..Len(os) : os[i].kind # "else" => os[i].orelse # os[i].after
  /\ \A i, j \in 1..Len(os) : i # j => PendOf(os[i]) \cap PendOf(os[j]) = {}

\* The graph lowering builds.
Flow ==
  /\ Flows(blocks, Len(blocks), cur, Waits(open), Frames(open)) /\ Apart(open)
  /\ open = <<>> => blocks[cur].cont = 0
  /\ \A v \in Local \ locals : Copied(blocks, Len(blocks), v) = {}

LEMMA ConcatItems ==
  ASSUME NEW S, NEW p \in Seq(S), NEW q \in Seq(S), NEW k \in 1..Len(p \o q)
  PROVE  \/ \E i \in 1..Len(p) : (p \o q)[k] = p[i]
         \/ \E i \in 1..Len(q) : (p \o q)[k] = q[i]
<1>1. Len(p) \in Nat /\ Len(q) \in Nat /\ Len(p \o q) = Len(p) + Len(q)
      /\ (p \o q)[k] = IF k <= Len(p) THEN p[k] ELSE q[k - Len(p)]
  BY ConcatProperties, LenProperties
<1>2. CASE k <= Len(p)
  BY <1>1, <1>2
<1>3. CASE k > Len(p)
  <2>1. k - Len(p) \in 1..Len(q)
    BY <1>1, <1>3
  <2> QED BY <1>1, <1>3, <2>1
<1> QED BY <1>1, <1>2, <1>3

LEMMA FramesAppend ==
  ASSUME NEW S, NEW os \in Seq(S), NEW o \in S, Apart(os), PendOf(o) \cap Waits(os) = {},
         o.kind # "else" => o.orelse # o.after
  PROVE  /\ Frames(Append(os, o)) = Frames(os) \cup {o}
         /\ Waits(Append(os, o)) = Waits(os) \cup PendOf(o)
         /\ Apart(Append(os, o))
<1> DEFINE n == Len(os)
           qs == Append(os, o)
<1>1. n \in Nat /\ Len(qs) = n + 1 /\ qs[n + 1] = o /\ \A i \in 1..n : qs[i] = os[i]
  BY AppendProperties, LenProperties
<1>2. 1..n + 1 = (1..n) \cup {n + 1}
  BY <1>1
<1>3. \A i \in 1..n : PendOf(os[i]) \cap PendOf(o) = {}
  BY DEF Waits, Frames
<1> HIDE DEF n, qs
<1>4. Frames(qs) = Frames(os) \cup {o}
  BY <1>1, <1>2 DEF Frames, n
<1>5. Waits(qs) = Waits(os) \cup PendOf(o)
  BY <1>4 DEF Waits
<1>6. Apart(qs)
  <2>1. \A i \in 1..Len(qs) : i \in 1..n \/ i = n + 1
    BY <1>1, <1>2
  <2>2. \A i, j \in 1..Len(qs) : i # j => PendOf(qs[i]) \cap PendOf(qs[j]) = {}
    BY <1>1, <1>3, <2>1 DEF Apart, n
  <2>3. \A i \in 1..Len(qs) : qs[i].kind # "else" => qs[i].orelse # qs[i].after
    BY <1>1, <2>1 DEF Apart, n
  <2> QED BY <2>2, <2>3 DEF Apart
<1> QED BY <1>4, <1>5, <1>6 DEF qs

LEMMA FramesPop ==
  ASSUME Shape, open # <<>>, Apart(open)
  PROVE  /\ Top \in Frames(open) /\ Frames(Pop) \subseteq Frames(open)
         /\ PendOf(Top) \subseteq Waits(open) /\ Waits(Pop) = Waits(open) \ PendOf(Top)
         /\ Top.kind # "else" => Top.orelse # Top.after
         /\ Apart(Pop)
<1> DEFINE n == Len(open)
<1>1. n \in Nat \ {0} /\ open \in Seq(GoodOpen(Len(blocks), locals))
  BY EmptySeq DEF Shape
<1>2. Len(Pop) = n - 1 /\ \A i \in 1..n - 1 : Pop[i] = open[i]
  <2>1. n - 1 \in Nat /\ 1..n - 1 \subseteq 1..n /\ \A i \in 1..n : open[i] \in GoodOpen(Len(blocks), locals)
    BY <1>1, ElementOfSeq
  <2>3. Pop = [i \in 1..n - 1 |-> open[i]]
    BY <1>1, <2>1 DEF Pop
  <2>4. Pop \in Seq(GoodOpen(Len(blocks), locals))
    BY TopGood
  <2> QED BY <2>1, <2>3, <2>4
<1>3. Top = open[n] /\ n \in 1..n /\ n - 1 \in Nat
  BY <1>1 DEF Top
<1>4. \A i \in 1..n : i = n \/ i \in 1..n - 1
  BY <1>1
<1>5. \A i \in 1..n - 1 : i \in 1..n /\ i # n
  BY <1>1
<1> HIDE DEF n
<1>6. Frames(open) = Frames(Pop) \cup {Top}
  BY <1>2, <1>3, <1>4, <1>5 DEF Frames, n
<1>7. \A o \in Frames(Pop) : PendOf(o) \cap PendOf(Top) = {}
  <2> SUFFICES ASSUME NEW i \in 1..n - 1 PROVE PendOf(Pop[i]) \cap PendOf(Top) = {}
    BY <1>2 DEF Frames
  <2> QED BY <1>2, <1>3, <1>5 DEF Apart, n
<1>8. Apart(Pop)
  BY <1>2, <1>5 DEF Apart, n
<1>9. Top.kind # "else" => Top.orelse # Top.after
  BY <1>3 DEF Apart, n
<1>10. Waits(open) = Waits(Pop) \cup PendOf(Top) /\ Waits(Pop) \cap PendOf(Top) = {}
  BY <1>6, <1>7 DEF Waits
<1> QED BY <1>6, <1>8, <1>9, <1>10

LEMMA FlowsFrames ==
  ASSUME NEW n, NEW bs, NEW c, NEW P, NEW F, Flows(bs, n, c, P, F),
         NEW G, \A o \in G : o \in F \/ Framed(o, bs, n, c)
  PROVE  Flows(bs, n, c, P, G)
  BY DEF Flows

LEMMA TerminateBlock ==
  ASSUME NEW n \in Nat, NEW bs, Graph(bs, n), NEW b \in 1..n, NEW ts
  PROVE  LET cs == Terminate(bs, b, ts) IN
         /\ \A c \in 1..n : c # b => cs[c] = bs[c]
         /\ cs[b].to = ts /\ cs[b].term = "br" /\ cs[b].insts = bs[b].insts
         /\ cs[b].cont = bs[b].cont
<1>1. bs \in [1..n -> GoodBlock(n)] /\ bs[b] \in GoodBlock(n)
  BY DEF Graph
<1>2. \A c \in 1..n : Terminate(bs, b, ts)[c] =
        IF c = b THEN [[bs[b] EXCEPT !.term = "br"] EXCEPT !.to = ts] ELSE bs[c]
  BY <1>1 DEF Terminate
<1>3. ASSUME NEW x \in GoodBlock(n)
      PROVE  LET y == [[x EXCEPT !.term = "br"] EXCEPT !.to = ts] IN
             y.to = ts /\ y.term = "br" /\ y.insts = x.insts /\ y.cont = x.cont
  BY DEF GoodBlock
<1> QED BY <1>1, <1>2, <1>3

LEMMA CopiedSame ==
  ASSUME NEW n, NEW bs, NEW cs, \A b \in 1..n : cs[b].insts = bs[b].insts, NEW v
  PROVE  Copied(cs, n, v) = Copied(bs, n, v)
  BY DEF Copied, Copies

LEMMA FlowsTerminate ==
  ASSUME NEW n \in Nat \ {0}, NEW bs, NEW c, NEW P, NEW F, Flows(bs, n, c, P, F),
         NEW ts \in SUBSET P
  PROVE  Flows(Terminate(bs, c, ts), n, c, P, F)
<1> DEFINE cs == Terminate(bs, c, ts)
<1>1. Graph(bs, n) /\ c \in 1..n /\ ts \in SUBSET (1..n)
  BY DEF Flows
<1>2. Graph(cs, n)
  BY <1>1, TerminateGood
<1>3. /\ \A b \in 1..n : b # c => cs[b] = bs[b]
      /\ cs[c].to = ts /\ cs[c].term = "br" /\ cs[c].insts = bs[c].insts
  BY <1>1, TerminateBlock
<1>4. \A v \in Local : Creates(cs[c], v) => Creates(bs[c], v)
  BY <1>3 DEF Creates
<1> HIDE DEF cs
<1>5. Flows(cs, n, c, P, F)
  BY <1>2, <1>3, <1>4, FlowsEdit
<1> QED BY <1>5 DEF cs

LEMMA FlowsFall ==
  ASSUME NEW n \in Nat \ {0}, NEW bs, NEW c, NEW P, NEW F, Flows(bs, n, c, P, F),
         NEW t \in P
  PROVE  /\ Flows(Fall(bs, c, t), n, c, P, F) /\ Fall(bs, c, t)[c].term # "nil"
         /\ \A b \in 1..n : Fall(bs, c, t)[b].cont = bs[b].cont
<1>1. Graph(bs, n) /\ c \in 1..n
  BY DEF Flows
<1>2. Flows(Terminate(bs, c, {t}), n, c, P, F)
  BY FlowsTerminate
<1>3. Terminate(bs, c, {t})[c].term = "br"
      /\ \A b \in 1..n : Terminate(bs, c, {t})[b].cont = bs[b].cont
  BY <1>1, TerminateBlock
<1> QED BY <1>2, <1>3 DEF Fall

-----------------------------------------------------------------------------
\* An instruction that creates a new name, or copies an old one.
Fits(x) == /\ x.dst \in Local => x.dst \notin locals
           /\ x.op \in {"move", "clone"} /\ x.src \in Local => x.src \in locals

LEMMA EmitFlow ==
  ASSUME Shape, Flow, NEW is \in Seq(GoodInst), \A i \in 1..Len(is) : Fits(is[i]),
         Emit(is), Straight, locals \subseteq locals'
  PROVE  Flow'
<1> DEFINE n == Len(blocks)
<1>1. n \in Nat \ {0} /\ cur \in 1..n /\ Graph(blocks, n) /\ Graph(blocks', n) /\ Len(blocks') = n
  BY EmitGood DEF Shape
<1>2. blocks \in [1..n -> GoodBlock(n)] /\ blocks[cur] \in GoodBlock(n)
  BY <1>1 DEF Graph
<1>3. /\ \A b \in 1..n : b # cur => blocks'[b] = blocks[b]
      /\ blocks'[cur].insts = blocks[cur].insts \o is
      /\ blocks'[cur].to = blocks[cur].to /\ blocks'[cur].term = blocks[cur].term
      /\ blocks'[cur].cont = blocks[cur].cont
  BY <1>1, <1>2 DEF Emit, GoodBlock
<1>4. blocks[cur].insts \in Seq(GoodInst)
  BY <1>2 DEF GoodBlock
<1>5. \A k \in 1..Len(blocks'[cur].insts) :
        \/ \E i \in 1..Len(blocks[cur].insts) : blocks'[cur].insts[k] = blocks[cur].insts[i]
        \/ Fits(blocks'[cur].insts[k])
  <2> SUFFICES ASSUME NEW k \in 1..Len(blocks[cur].insts \o is)
               PROVE  \/ \E i \in 1..Len(blocks[cur].insts) :
                            (blocks[cur].insts \o is)[k] = blocks[cur].insts[i]
                      \/ Fits((blocks[cur].insts \o is)[k])
    BY <1>3
  <2>1. \/ \E i \in 1..Len(blocks[cur].insts) :
              (blocks[cur].insts \o is)[k] = blocks[cur].insts[i]
        \/ \E i \in 1..Len(is) : (blocks[cur].insts \o is)[k] = is[i]
    BY <1>4, ConcatItems
  <2> QED BY <2>1
<1>6. ASSUME NEW v \in Local, Creates(blocks'[cur], v)
      PROVE  Creates(blocks[cur], v) \/ Copied(blocks, n, v) = {}
  <2>1. PICK k \in 1..Len(blocks'[cur].insts) : blocks'[cur].insts[k].dst = v
    BY <1>6 DEF Creates
  <2>2. CASE \E i \in 1..Len(blocks[cur].insts) : blocks'[cur].insts[k] = blocks[cur].insts[i]
    BY <2>1, <2>2 DEF Creates
  <2>3. CASE Fits(blocks'[cur].insts[k])
    BY <2>1, <2>3 DEF Fits, Flow
  <2> QED BY <1>5, <2>2, <2>3
<1>7. ASSUME NEW v \in Local \ locals, NEW b \in 1..n, Copies(blocks'[b], v)
      PROVE  Copies(blocks[b], v)
  <2>1. CASE b # cur
    BY <1>3, <1>7, <2>1
  <2>2. CASE b = cur
    <3>1. PICK k \in 1..Len(blocks'[cur].insts) :
            blocks'[cur].insts[k].op \in {"move", "clone"} /\ blocks'[cur].insts[k].src = v
      BY <1>7, <2>2 DEF Copies
    <3>2. ~Fits(blocks'[cur].insts[k])
      BY <3>1 DEF Fits
    <3>3. \E i \in 1..Len(blocks[cur].insts) : blocks'[cur].insts[k] = blocks[cur].insts[i]
      BY <1>5, <3>2
    <3> QED BY <2>2, <3>1, <3>3 DEF Copies
  <2> QED BY <2>1, <2>2
<1>8. Flows(blocks, n, cur, Waits(open), Frames(open))
  BY DEF Flow
<1>9. Flows(blocks', n, cur, Waits(open), Frames(open))
  <2>1. blocks'[cur].to \subseteq Waits(open) /\ (blocks'[cur].term = "nil" => blocks'[cur].to = {})
    BY <1>1, <1>3, <1>8 DEF Flows
  <2> HIDE DEF n
  <2> QED BY <1>1, <1>3, <1>6, <1>8, <2>1, FlowsEdit
<1>10. \A v \in Local \ locals' : Copied(blocks', n, v) = {}
  BY <1>7 DEF Copied, Flow
<1> QED BY <1>1, <1>3, <1>9, <1>10 DEF Flow, Straight

LEMMA RefillItems ==
  ASSUME NEW w \in Local, NEW x \in GoodInst, NEW i \in 1..Len(Append(DropOld(w), x))
  PROVE  Append(DropOld(w), x)[i] \in {Op("drop", w), x}
<1> DEFINE d == Op("drop", w)
           S == {d, x}
<1>1. DropOld(w) \in Seq(S) /\ x \in S
  <2>1. DropOld(w) = IF w \in moved THEN <<>> ELSE <<d>>
    BY DEF DropOld
  <2> HIDE DEF d
  <2>2. <<d>> \in Seq(S)
    OBVIOUS
  <2> QED BY <2>1, <2>2, EmptySeq
<1>2. Append(DropOld(w), x) \in Seq(S)
  <2> HIDE DEF S
  <2> QED BY <1>1, AppendProperties
<1> QED BY <1>2, ElementOfSeq

LEMMA StraightFlow ==
  ASSUME Shape, Flow, NEW v \in Local,
         \/ Bind(v) \/ Read(v) \/ Write(v) \/ Spawn(v) \/ \E w \in Local : Copy(w, v)
  PROVE  Flow'
<1>1. \A w \in Local : Fits(Op("drop", w))
  BY LocalAssumption DEF Fits, Op
<1>2. CASE Bind(v)
  <2>1. CASE v \in locals
    <3> DEFINE x == MoveInto(v, NoVal)
               is == Append(DropOld(v), x)
    <3>1. x \in GoodInst /\ is \in Seq(GoodInst)
      BY OpGood, DropOldGood
    <3>2. Fits(x)
      BY LocalAssumption DEF Fits, MoveInto
    <3>3. \A i \in 1..Len(is) : Fits(is[i])
      <4> HIDE DEF x
      <4> QED BY <1>1, <3>1, <3>2, RefillItems
    <3>4. Emit(is) /\ Straight /\ locals \subseteq locals'
      BY <1>2, <2>1 DEF Bind
    <3> HIDE DEF is
    <3> QED BY <3>1, <3>3, <3>4, EmitFlow
  <2>2. CASE v \notin locals
    <3> DEFINE is == <<Def("new", v, NoVal)>>
    <3>1. is \in Seq(GoodInst) /\ \A i \in 1..Len(is) : is[i] = Def("new", v, NoVal)
      BY OpGood
    <3>2. Fits(Def("new", v, NoVal))
      BY <2>2 DEF Fits, Def
    <3>3. Emit(is) /\ Straight /\ locals \subseteq locals'
      BY <1>2, <2>2 DEF Bind
    <3> HIDE DEF is
    <3> QED BY <3>1, <3>2, <3>3, EmitFlow
  <2> QED BY <2>1, <2>2
<1>3. ASSUME NEW op \in {"read", "write", "run"}, NEW k, Use(k, op, v) PROVE Flow'
  <2> DEFINE is == <<Op(op, v)>>
  <2>1. is \in Seq(GoodInst) /\ \A i \in 1..Len(is) : is[i] = Op(op, v)
    BY OpGood
  <2>2. Fits(Op(op, v))
    BY LocalAssumption DEF Fits, Op
  <2>3. Emit(is) /\ Straight /\ locals \subseteq locals'
    BY <1>3 DEF Use
  <2> HIDE DEF is
  <2> QED BY <2>1, <2>2, <2>3, EmitFlow
<1>4. ASSUME NEW w \in Local, Copy(w, v) PROVE Flow'
  <2>1. w # v /\ v \in locals
    BY <1>4 DEF Copy, Shape
  <2>2. CASE w \in locals
    <3> DEFINE x == MoveInto(w, v)
               is == Append(DropOld(w), x)
    <3>1. x \in GoodInst /\ is \in Seq(GoodInst)
      BY OpGood, DropOldGood
    <3>2. Fits(x)
      BY <2>1, LocalAssumption DEF Fits, MoveInto
    <3>3. \A i \in 1..Len(is) : Fits(is[i])
      <4> HIDE DEF x
      <4> QED BY <1>1, <3>1, <3>2, RefillItems
    <3>4. Emit(is) /\ Straight /\ locals \subseteq locals'
      BY <1>4, <2>2 DEF Copy
    <3> HIDE DEF is
    <3> QED BY <3>1, <3>3, <3>4, EmitFlow
  <2>3. CASE w \notin locals
    <3> DEFINE op == IF v \in Slice THEN "clone" ELSE "move"
               is == <<Def(op, w, v)>>
    <3>1. op \in {"move", "clone"}
      OBVIOUS
    <3>2. Emit(is) /\ Straight /\ locals \subseteq locals'
      BY <1>4, <2>3 DEF Copy
    <3> HIDE DEF op
    <3>3. is \in Seq(GoodInst) /\ \A i \in 1..Len(is) : is[i] = Def(op, w, v)
      BY <3>1, OpGood
    <3>4. Fits(Def(op, w, v))
      BY <2>1, <2>3 DEF Fits, Def
    <3> HIDE DEF is
    <3> QED BY <3>2, <3>3, <3>4, EmitFlow
  <2> QED BY <2>2, <2>3
<1> QED BY <1>2, <1>3, <1>4 DEF Read, Write, Spawn

LEMMA WidenedConcat ==
  ASSUME NEW n \in Nat, NEW bs, Graph(bs, n), NEW k \in Nat,
         NEW new \in Seq({Block0}), Len(new) = k
  PROVE  Widened(bs, bs \o new, n, n + k)
<1>1. Graph(bs \o new, n + k)
  BY WidenGood
<1>2. bs \in Seq(GoodBlock(n)) /\ Len(bs) = n
  BY FunIsSeq DEF Graph
<1> DEFINE S == GoodBlock(n) \cup {Block0}
<1>3. bs \in Seq(S) /\ new \in Seq(S)
  BY <1>2, SeqMonotonic
<1> HIDE DEF S
<1>4. \A b \in 1..n + k : (bs \o new)[b] = IF b <= n THEN bs[b] ELSE new[b - n]
  BY <1>2, <1>3, ConcatProperties
<1>5. \A b \in n + 1..n + k : new[b - n] = Block0
  <2> SUFFICES ASSUME NEW b \in n + 1..n + k PROVE new[b - n] = Block0
    OBVIOUS
  <2>1. b - n \in 1..Len(new)
    OBVIOUS
  <2> QED BY <2>1, ElementOfSeq
<1>6. /\ \A b \in 1..n : b \in 1..n + k /\ b <= n
      /\ \A b \in n + 1..n + k : b \in 1..n + k /\ ~(b <= n)
  OBVIOUS
<1>7. \A b \in n + 1..n + k : (bs \o new)[b] = Block0
  BY <1>4, <1>5, <1>6
<1>8. \A b \in 1..n : (bs \o new)[b] = bs[b]
  BY <1>4, <1>6
<1>9. n <= n + k
  OBVIOUS
<1> QED BY <1>1, <1>7, <1>8, <1>9 DEF Widened

LEMMA FlowFacts ==
  ASSUME Shape, Flow, NEW n, n = Len(blocks)
  PROVE  /\ n \in Nat \ {0} /\ Graph(blocks, n) /\ cur \in 1..n
         /\ Flows(blocks, n, cur, Waits(open), Frames(open)) /\ Apart(open)
         /\ Waits(open) \subseteq 1..n
  BY DEF Shape, Flow, Flows

LEMMA IfFlow == ASSUME Shape, Flow, If PROVE Flow'
<1> DEFINE n == Len(blocks)
           new == <<Block0, Block0, Block0>>
           bs == blocks \o new
           o == [kind |-> "then", entry |-> n + 1, orelse |-> n + 2,
                 after |-> n + 3, outer |-> visible]
           P == Waits(open)
           F == Frames(open)
<1>1. /\ n \in Nat \ {0} /\ Graph(blocks, n) /\ cur \in 1..n
      /\ Flows(blocks, n, cur, P, F) /\ Apart(open) /\ P \subseteq 1..n
  BY FlowFacts
<1>2. /\ blocks' = Terminate(bs, cur, {n + 1, n + 2})
      /\ cur' = n + 1 /\ open' = Append(open, o) /\ locals' = locals
  BY DEF If, Scopes
<1>3. o.kind = "then" /\ o.entry = n + 1 /\ o.orelse = n + 2 /\ o.after = n + 3
      /\ PendOf(o) = {n + 2, n + 3} /\ open \in Seq({open[i] : i \in 1..Len(open)} \cup {o})
  BY FunIsSeq DEF PendOf, Shape
<1>4. n + 3 \in Nat \ {0} /\ n + 1 \in 1..n + 3 /\ n + 1 \notin 1..n /\ n + 1 # n + 2
      /\ n + 1..n + 3 = {n + 1, n + 2, n + 3} /\ n + 1 # n + 3 /\ n + 2 # n + 3
      /\ n + 2 \notin 1..n /\ n + 3 \notin 1..n
  BY <1>1
<1>5. new \in Seq({Block0}) /\ Len(new) = 3
  OBVIOUS
<1> HIDE DEF n, new, o
<1>6. Widened(blocks, bs, n, n + 3)
  BY <1>1, <1>5, WidenedConcat
<1> HIDE DEF bs, P, F
<1>7. Flows(bs, n + 3, cur, P \cup (n + 1..n + 3), F)
  BY <1>1, <1>4, <1>6, FlowsWiden
<1>8. Flows(blocks', n + 3, cur, P \cup (n + 1..n + 3), F) /\ blocks'[cur].term = "br"
  <2>1. Graph(bs, n + 3) /\ cur \in 1..n + 3 /\ {n + 1, n + 2} \in SUBSET (P \cup (n + 1..n + 3))
    BY <1>4, <1>7 DEF Flows
  <2> QED BY <1>2, <1>4, <1>7, <2>1, FlowsTerminate, TerminateBlock
<1>9. Flows(blocks', n + 3, n + 1, P \cup {n + 2, n + 3}, F)
  <2>1. n + 1 \in P \cup (n + 1..n + 3)
    BY <1>4
  <2>2. (P \cup (n + 1..n + 3)) \ {n + 1} = P \cup {n + 2, n + 3}
    BY <1>1, <1>4
  <2> QED BY <1>4, <1>8, <2>1, <2>2, FlowsMove
<1>10. Framed(o, blocks', n + 3, n + 1)
  BY <1>3, <1>4 DEF Framed
<1>11. Flows(blocks', n + 3, n + 1, P \cup {n + 2, n + 3}, F \cup {o})
  BY <1>9, <1>10, FlowsFrames
<1>12. Frames(open') = F \cup {o} /\ Waits(open') = P \cup {n + 2, n + 3} /\ Apart(open')
  <2>1. PendOf(o) \cap P = {}
    BY <1>1, <1>3, <1>4
  <2> QED BY <1>1, <1>2, <1>3, <1>4, <2>1, FramesAppend DEF P, F
<1>13. Len(blocks') = n + 3
  BY <1>4, <1>11, FunIsSeq DEF Flows, Graph
<1>14. open' # <<>>
  BY <1>2, <1>3, AppendProperties
<1>15. ASSUME NEW v \in Local \ locals PROVE Copied(blocks', n + 3, v) = {}
  <2>1. Copied(bs, n + 3, v) = {}
    BY <1>1, <1>6, WidenedFacts, BlankBlock DEF Copied, Flow, Widened, n
  <2>2. \A b \in 1..n + 3 : blocks'[b].insts = bs[b].insts
    <3>1. Graph(bs, n + 3) /\ cur \in 1..n + 3
      BY <1>7 DEF Flows
    <3> QED BY <1>2, <1>4, <3>1, TerminateBlock
  <2> QED BY <2>1, <2>2, CopiedSame
<1> QED BY <1>2, <1>11, <1>12, <1>13, <1>14, <1>15 DEF Flow

LEMMA ForFlow == ASSUME Shape, Flow, For PROVE Flow'
<1> DEFINE n == Len(blocks)
           new == <<Block0, Block0, Block0, Block0>>
           bs == blocks \o new
           cs == Terminate(bs, cur, {n + 1})
           o == [kind |-> "for", entry |-> n + 2, orelse |-> n + 3,
                 after |-> n + 4, outer |-> visible]
           P == Waits(open)
           F == Frames(open)
<1>1. /\ n \in Nat \ {0} /\ Graph(blocks, n) /\ cur \in 1..n
      /\ Flows(blocks, n, cur, P, F) /\ Apart(open) /\ P \subseteq 1..n
  BY FlowFacts
<1>2. /\ blocks' = Terminate(cs, n + 1, {n + 2, n + 4})
      /\ cur' = n + 2 /\ open' = Append(open, o) /\ locals' = locals
  BY DEF For, Scopes
<1>3. o.kind = "for" /\ o.entry = n + 2 /\ o.orelse = n + 3 /\ o.after = n + 4
      /\ PendOf(o) = {n + 3, n + 4} /\ open \in Seq({open[i] : i \in 1..Len(open)} \cup {o})
  BY DEF PendOf, Shape
<1>4. n + 4 \in Nat \ {0} /\ n + 1..n + 4 = {n + 1, n + 2, n + 3, n + 4} /\ n + 2 - 1 = n + 1
      /\ (\A i, j \in 1..4 : i # j => n + i # n + j)
      /\ \A i \in 1..4 : n + i \notin 1..n /\ n + i \in 1..n + 4
  BY <1>1
<1>5. new \in Seq({Block0}) /\ Len(new) = 4
  OBVIOUS
<1> HIDE DEF n, new, o
<1>6. Widened(blocks, bs, n, n + 4)
  BY <1>1, <1>5, WidenedConcat
<1> HIDE DEF bs, P, F
<1>7. Flows(bs, n + 4, cur, P \cup (n + 1..n + 4), F)
  BY <1>1, <1>4, <1>6, FlowsWiden
<1>8. Graph(bs, n + 4) /\ cur \in 1..n + 4 /\ {n + 1} \in SUBSET (P \cup (n + 1..n + 4))
      /\ Graph(cs, n + 4)
  <2>1. Graph(bs, n + 4) /\ cur \in 1..n + 4 /\ {n + 1} \in SUBSET (P \cup (n + 1..n + 4))
        /\ {n + 1} \in SUBSET (1..n + 4)
    BY <1>4, <1>7 DEF Flows
  <2> QED BY <1>4, <2>1, TerminateGood
<1>9. Flows(cs, n + 4, cur, P \cup (n + 1..n + 4), F)
  BY <1>4, <1>7, <1>8, FlowsTerminate
<1>10. cs[cur].to = {n + 1} /\ cs[cur].term = "br"
       /\ \A b \in 1..n + 4 : cs[b].insts = bs[b].insts
  BY <1>4, <1>8, TerminateBlock
<1> HIDE DEF cs
<1> DEFINE Q == P \cup {n + 2, n + 3, n + 4}
<1>11. Flows(cs, n + 4, n + 1, Q, F)
  <2>1. n + 1 \in P \cup (n + 1..n + 4)
    BY <1>4
  <2>2. (P \cup (n + 1..n + 4)) \ {n + 1} = Q
    <3>1. n + 1 \notin P /\ n + 1 # n + 2 /\ n + 1 # n + 3 /\ n + 1 # n + 4
      BY <1>1, <1>4
    <3> QED BY <1>4, <3>1
  <2>3. Flows(cs, n + 4, n + 1, (P \cup (n + 1..n + 4)) \ {n + 1}, F)
    BY <1>4, <1>9, <1>10, <2>1, FlowsMove
  <2> QED BY <2>2, <2>3
<1>12. Flows(blocks', n + 4, n + 1, Q, F)
  <2>1. {n + 2, n + 4} \in SUBSET Q
    OBVIOUS
  <2> HIDE DEF Q
  <2> QED BY <1>2, <1>4, <1>11, <2>1, FlowsTerminate
<1>13. /\ \A b \in 1..n + 4 : b # n + 1 => blocks'[b] = cs[b]
       /\ blocks'[n + 1].to = {n + 2, n + 4} /\ blocks'[n + 1].term = "br"
       /\ \A b \in 1..n + 4 : blocks'[b].insts = cs[b].insts
  BY <1>2, <1>4, <1>8, TerminateBlock
<1>14. Flows(blocks', n + 4, n + 2, P \cup {n + 3, n + 4}, F)
  <2>1. n + 2 \in Q
    OBVIOUS
  <2>2. Q \ {n + 2} = P \cup {n + 3, n + 4}
    <3>1. n + 2 \notin P /\ n + 2 # n + 3 /\ n + 2 # n + 4
      BY <1>1, <1>4
    <3> QED BY <3>1
  <2>3. Flows(blocks', n + 4, n + 2, Q \ {n + 2}, F)
    <3> HIDE DEF Q
    <3> QED BY <1>4, <1>12, <1>13, <2>1, FlowsMove
  <2> QED BY <2>2, <2>3
<1>15. Framed(o, blocks', n + 4, n + 2)
  <2>1. cur # n + 1 /\ cur # n + 2 /\ n + 1 # n + 2 /\ n + 2 \in 1..n + 4 /\ n + 1 \in 1..n + 4
        /\ n + 2 - 1 = n + 1
    BY <1>1, <1>4
  <2>2. n + 1 \in blocks'[cur].to
    BY <1>8, <1>10, <1>13, <2>1
  <2>3. /\ o.entry = n + 2 /\ o.entry - 1 = n + 1 /\ o.after = n + 4
        /\ blocks'[n + 1].term # "nil" /\ n + 4 \in blocks'[n + 1].to
    <3>1. o.entry = n + 2 /\ o.after = n + 4
      BY <1>3
    <3>2. o.entry - 1 = n + 1
      BY <1>1, <3>1
    <3>3. blocks'[n + 1].term = "br" /\ blocks'[n + 1].to = {n + 2, n + 4}
      BY <1>13
    <3> QED BY <3>1, <3>2, <3>3
  <2>4. \E q \in 1..n + 4 : q # n + 2 /\ o.entry - 1 \in blocks'[q].to
    BY <1>8, <2>1, <2>2, <2>3
  <2> QED BY <2>1, <2>3, <2>4 DEF Framed
<1>16. Flows(blocks', n + 4, n + 2, P \cup {n + 3, n + 4}, F \cup {o})
  BY <1>14, <1>15, FlowsFrames
<1>17. Frames(open') = F \cup {o} /\ Waits(open') = P \cup {n + 3, n + 4} /\ Apart(open')
  <2>1. PendOf(o) \cap P = {} /\ n + 3 # n + 4
    BY <1>1, <1>3, <1>4
  <2> QED BY <1>1, <1>2, <1>3, <2>1, FramesAppend DEF P, F
<1>18. Len(blocks') = n + 4
  BY <1>4, <1>16, FunIsSeq DEF Flows, Graph
<1>19. open' # <<>>
  BY <1>2, <1>3, AppendProperties
<1>20. ASSUME NEW v \in Local \ locals PROVE Copied(blocks', n + 4, v) = {}
  <2>1. Copied(bs, n + 4, v) = {}
    BY <1>1, <1>6, WidenedFacts, BlankBlock DEF Copied, Flow, Widened, n
  <2>2. \A b \in 1..n + 4 : blocks'[b].insts = bs[b].insts
    BY <1>10, <1>13
  <2> QED BY <2>1, <2>2, CopiedSame
<1> QED BY <1>2, <1>16, <1>17, <1>18, <1>19, <1>20 DEF Flow

LEMMA TopFlow ==
  ASSUME Shape, Flow, open # <<>>
  PROVE  /\ Framed(Top, blocks, Len(blocks), cur)
         /\ Top.after \in Waits(open)
         /\ Top.kind # "else" => Top.orelse \in Waits(open) /\ Top.orelse # Top.after
         /\ Waits(Pop) = Waits(open) \ PendOf(Top) /\ Frames(Pop) \subseteq Frames(open)
         /\ Apart(Pop)
<1>1. Flows(blocks, Len(blocks), cur, Waits(open), Frames(open)) /\ Apart(open)
  BY DEF Flow
<1>2. Top \in Frames(open) /\ PendOf(Top) \subseteq Waits(open)
  BY <1>1, FramesPop
<1>3. Framed(Top, blocks, Len(blocks), cur)
  BY <1>1, <1>2 DEF Flows
<1>4. Top.after \in PendOf(Top) /\ (Top.kind # "else" => Top.orelse \in PendOf(Top))
  BY DEF PendOf
<1> QED BY <1>1, <1>2, <1>3, <1>4, FramesPop

\* The end of an arm.
LEMMA ArmFlow ==
  ASSUME Shape, Flow, open # <<>>, NEW n, n = Len(blocks)
  PROVE  /\ Flows(EndArm, n, cur, Waits(open), Frames(open)) /\ EndArm[cur].term # "nil"
         /\ \A b \in 1..n : EndArm[b].insts = blocks[b].insts
<1> DEFINE P == Waits(open)
           F == Frames(open)
           t == Top.after
           bs == Fall(blocks, cur, t)
<1>1. /\ n \in Nat \ {0} /\ Graph(blocks, n) /\ cur \in 1..n /\ P \subseteq 1..n
      /\ Flows(blocks, n, cur, P, F)
  BY FlowFacts
<1>2. Framed(Top, blocks, n, cur) /\ t \in P
  BY TopFlow
<1> HIDE DEF P, F, t
<1>3. Flows(bs, n, cur, P, F) /\ bs[cur].term # "nil"
  BY <1>1, <1>2, FlowsFall
<1>4. \A b \in 1..n : bs[b].insts = blocks[b].insts
  BY <1>1, <1>2, FallInsts DEF Becomes
<1>5. bs[Top.entry].term # "nil"
  <2>1. CASE Top.entry = cur
    BY <1>3, <2>1
  <2>2. CASE Top.entry # cur
    <3>1. Top.entry \in 1..n /\ blocks[Top.entry].term # "nil"
      BY <1>2, <2>2 DEF Framed
    <3>2. bs[Top.entry] = blocks[Top.entry]
      BY <1>1, <2>2, <3>1, TerminateBlock DEF Fall
    <3> QED BY <3>1, <3>2
  <2> QED BY <2>1, <2>2
<1>6. EndArm = bs
  BY <1>5 DEF EndArm, Fall, t
<1> HIDE DEF bs
<1> QED BY <1>3, <1>4, <1>6 DEF P, F

LEMMA ElseFlow == ASSUME Shape, Flow, Else PROVE Flow'
<1> DEFINE n == Len(blocks)
           P == Waits(open)
           F == Frames(open)
           o == [Top EXCEPT !.kind = "else", !.entry = Top.orelse]
           p == Top.orelse
<1>1. /\ open # <<>> /\ Top.kind = "then" /\ blocks' = EndArm /\ cur' = p
      /\ open' = Append(Pop, o) /\ locals' = locals
  BY DEF Else, Scopes
<1>2. /\ n \in Nat \ {0} /\ Graph(blocks, n) /\ P \subseteq 1..n
  BY FlowFacts
<1>3. Flows(EndArm, n, cur, P, F) /\ EndArm[cur].term # "nil"
      /\ \A b \in 1..n : EndArm[b].insts = blocks[b].insts
  BY <1>1, ArmFlow
<1>4. Top \in GoodOpen(n, locals) /\ Pop \in Seq(GoodOpen(n, locals))
  BY <1>1, TopGood
<1>5. /\ p \in P /\ p # Top.after /\ Waits(Pop) = P \ {p, Top.after}
      /\ Frames(Pop) \subseteq F /\ Apart(Pop) /\ Top.after \in P
  BY <1>1, TopFlow DEF PendOf
<1>6. o.kind = "else" /\ o.entry = p /\ o.after = Top.after /\ o \in GoodOpen(n, locals)
  BY <1>4 DEF GoodOpen
<1>7. PendOf(o) = {Top.after}
  BY <1>6 DEF PendOf
<1>8. Frames(open') = Frames(Pop) \cup {o} /\ Waits(open') = P \ {p} /\ Apart(open')
      /\ open' # <<>>
  <2> HIDE DEF o
  <2>1. PendOf(o) \cap Waits(Pop) = {}
    BY <1>5, <1>7
  <2>2. Frames(open') = Frames(Pop) \cup {o} /\ Waits(open') = Waits(Pop) \cup {Top.after}
        /\ Apart(open')
    BY <1>1, <1>4, <1>5, <1>6, <1>7, <2>1, FramesAppend
  <2>3. open' # <<>>
    BY <1>1, <1>4, <1>6, AppendProperties
  <2> QED BY <1>5, <2>2, <2>3
<1> HIDE DEF n, P, F, o, p
<1>9. Flows(blocks', n, p, P \ {p}, F)
  BY <1>1, <1>2, <1>3, <1>5, FlowsMove
<1>10. Framed(o, blocks', n, p)
  BY <1>2, <1>5, <1>6 DEF Framed
<1>11. Flows(blocks', n, p, P \ {p}, Frames(open'))
  BY <1>5, <1>8, <1>9, <1>10, FlowsFrames
<1>12. Len(blocks') = n
  BY <1>2, <1>9, FunIsSeq DEF Flows, Graph
<1>13. \A v : Copied(blocks', n, v) = Copied(blocks, n, v)
  BY <1>1, <1>3, CopiedSame
<1> QED BY <1>1, <1>8, <1>11, <1>12, <1>13 DEF Flow, n

LEMMA EndIfFlow == ASSUME Shape, Flow, EndIf PROVE Flow'
<1> DEFINE n == Len(blocks)
           P == Waits(open)
           F == Frames(open)
           x == Top.after
           e == Enclosing(Pop)
<1>1. /\ open # <<>> /\ Top.kind = "else" /\ blocks' = [EndArm EXCEPT ![x].cont = e]
      /\ cur' = x /\ open' = Pop /\ locals' = locals
  BY DEF EndIf, Scopes
<1>2. /\ n \in Nat \ {0} /\ Graph(blocks, n) /\ P \subseteq 1..n
  BY FlowFacts
<1>3. Flows(EndArm, n, cur, P, F) /\ EndArm[cur].term # "nil"
      /\ \A b \in 1..n : EndArm[b].insts = blocks[b].insts
  BY <1>1, ArmFlow
<1>4. /\ x \in P /\ Waits(Pop) = P \ {x} /\ Frames(Pop) \subseteq F /\ Apart(Pop)
  BY <1>1, TopFlow DEF PendOf
<1>5. e \in 0..n /\ (Pop = <<>> => e = 0)
  <2>1. Pop \in Seq(GoodOpen(n, locals))
    BY <1>1, TopGood
  <2> HIDE DEF n
  <2> QED BY <1>2, <2>1, EnclosingGood DEF Enclosing
<1> HIDE DEF n, P, F, x, e
<1>6. Flows(EndArm, n, x, P \ {x}, F)
  BY <1>2, <1>3, <1>4, FlowsMove
<1>7. Flows(EndArm, n, x, P \ {x}, Frames(Pop))
  BY <1>4, <1>6, FlowsFrames
<1>8. Graph(EndArm, n) /\ EndArm \in [1..n -> GoodBlock(n)] /\ x \in 1..n
      /\ EndArm[x].to \subseteq P \ {x}
  BY <1>6 DEF Flows, Graph
<1>9. ASSUME NEW y \in GoodBlock(n)
      PROVE  LET z == [y EXCEPT !.cont = e] IN
             /\ z \in GoodBlock(n) /\ z.insts = y.insts /\ z.to = y.to /\ z.term = y.term
             /\ z.cont = e
  BY <1>5 DEF GoodBlock
<1>10. /\ \A b \in 1..n : blocks'[b] = IF b = x THEN [EndArm[b] EXCEPT !.cont = e] ELSE EndArm[b]
       /\ blocks' = [b \in 1..n |-> blocks'[b]]
  BY <1>1, <1>8
<1>11. /\ Graph(blocks', n) /\ \A b \in 1..n : blocks'[b].insts = EndArm[b].insts
       /\ \A b \in 1..n : b # x => blocks'[b] = EndArm[b]
       /\ blocks'[x].to = EndArm[x].to /\ blocks'[x].term = EndArm[x].term
       /\ blocks'[x].cont = e
  <2>1. \A b \in 1..n : EndArm[b] \in GoodBlock(n)
    BY <1>8
  <2>2. \A b \in 1..n : blocks'[b] \in GoodBlock(n) /\ blocks'[b].insts = EndArm[b].insts
    BY <1>9, <1>10, <2>1
  <2>3. blocks'[x].to = EndArm[x].to /\ blocks'[x].term = EndArm[x].term /\ blocks'[x].cont = e
    BY <1>8, <1>9, <1>10, <2>1
  <2>4. Graph(blocks', n)
    BY <1>10, <2>2 DEF Graph
  <2> QED BY <1>10, <2>2, <2>3, <2>4
<1>12. Flows(blocks', n, x, P \ {x}, Frames(Pop))
  <2>1. \A v \in Local : Creates(blocks'[x], v) => Creates(EndArm[x], v)
    BY <1>8, <1>11 DEF Creates
  <2>2. blocks'[x].to \subseteq P \ {x} /\ (blocks'[x].term = "nil" => blocks'[x].to = {})
    BY <1>7, <1>8, <1>11 DEF Flows
  <2> QED BY <1>2, <1>7, <1>11, <2>1, <2>2, FlowsEdit
<1>13. Len(blocks') = n
  BY <1>2, <1>12, FunIsSeq DEF Flows, Graph
<1>14. \A v : Copied(blocks', n, v) = Copied(blocks, n, v)
  BY <1>3, <1>11, CopiedSame
<1> QED BY <1>1, <1>4, <1>5, <1>11, <1>12, <1>13, <1>14 DEF Flow, n

LEMMA EndForFlow == ASSUME Shape, Flow, EndFor PROVE Flow'
<1> DEFINE n == Len(blocks)
           P == Waits(open)
           F == Frames(open)
           u == Top.orelse
           x == Top.after
           h == Top.entry - 1
           e == Enclosing(Pop)
           fs == Fall(blocks, cur, u)
           bs == Fall(Fall(blocks, Top.entry, u), cur, u)
           cs == Fall(bs, u, h)
<1>1. /\ open # <<>> /\ Top.kind = "for" /\ cur' = x /\ open' = Pop /\ locals' = locals
      /\ blocks' = IF e = 0 THEN cs ELSE Fall(cs, x, e)
  BY DEF EndFor, Scopes
<1>2. /\ n \in Nat \ {0} /\ Graph(blocks, n) /\ cur \in 1..n /\ P \subseteq 1..n
      /\ Flows(blocks, n, cur, P, F)
  BY FlowFacts
<1>3. /\ x \in P /\ u \in P /\ u # x /\ Waits(Pop) = P \ {u, x}
      /\ Frames(Pop) \subseteq F /\ Apart(Pop) /\ Framed(Top, blocks, n, cur)
  BY <1>1, TopFlow DEF PendOf
<1>4. /\ Top.entry \in 1..n /\ (Top.entry = cur \/ blocks[Top.entry].term # "nil")
      /\ h \in 1..n /\ h # cur /\ blocks[h].term # "nil" /\ x \in blocks[h].to
      /\ \E q \in 1..n : q # cur /\ h \in blocks[q].to
  BY <1>1, <1>3 DEF Framed
<1>5. e = 0 \/ e \in P \ {u, x}
  <2>1. CASE Pop = <<>>
    BY <2>1 DEF Enclosing
  <2>2. CASE Pop # <<>>
    <3>1. Pop \in Seq(GoodOpen(n, locals))
      BY <1>1, TopGood
    <3>2. Len(Pop) \in 1..Len(Pop)
      BY <2>2, <3>1, EmptySeq
    <3>3. Pop[Len(Pop)] \in Frames(Pop)
      BY <3>2 DEF Frames
    <3>4. ContOf(Pop[Len(Pop)]) \in PendOf(Pop[Len(Pop)])
      <4>1. Pop[Len(Pop)].kind = "for" => Pop[Len(Pop)].kind # "else"
        OBVIOUS
      <4> QED BY <4>1 DEF ContOf, PendOf
    <3>5. e = ContOf(Pop[Len(Pop)])
      BY <2>2 DEF Enclosing
    <3>6. e \in Waits(Pop)
      BY <3>3, <3>4, <3>5 DEF Waits
    <3> QED BY <1>3, <3>6
  <2> QED BY <2>1, <2>2
<1>6. u \in 1..n /\ x \in 1..n /\ u # cur /\ blocks[u] = Block0 /\ u # h
  BY <1>2, <1>3, <1>4, BlankBlock DEF Flows
<1> HIDE DEF n, P, F, u, x, h, e
<1>7. bs = fs
  <2>1. CASE Top.entry = cur
    <3>1. fs[cur].term # "nil"
      <4>1. n \in Nat \ {0} /\ u \in P /\ Flows(blocks, n, cur, P, F)
        BY <1>2, <1>3
      <4> QED BY <4>1, FlowsFall
    <3> QED BY <2>1, <3>1 DEF Fall
  <2>2. CASE Top.entry # cur
    BY <1>4, <2>2 DEF Fall
  <2> QED BY <2>1, <2>2
<1>8. /\ Flows(fs, n, cur, P, F) /\ fs[cur].term # "nil"
      /\ \A b \in 1..n : fs[b].cont = blocks[b].cont
  <2>1. n \in Nat \ {0} /\ u \in P /\ Flows(blocks, n, cur, P, F)
    BY <1>2, <1>3
  <2> QED BY <2>1, FlowsFall
<1>9. \A b \in 1..n : fs[b].insts = blocks[b].insts
  BY <1>2, <1>6, FallInsts DEF Becomes
<1>10. \A b \in 1..n : b # cur => fs[b] = blocks[b]
  BY <1>2, TerminateBlock DEF Fall
<1>11. Flows(fs, n, u, P \ {u}, F)
  BY <1>2, <1>3, <1>8, FlowsMove
<1>12. Graph(fs, n)
  BY <1>8 DEF Flows
<1>13. cs = Terminate(fs, u, {h})
  <2>1. fs[u].term = "nil"
    BY <1>6, <1>10, BlankBlock
  <2> QED BY <1>7, <2>1 DEF Fall
<1> HIDE DEF fs, bs, cs
<1>14. /\ Graph(cs, n) /\ \A b \in 1..n : b # u => cs[b] = fs[b]
       /\ cs[u].to = {h} /\ cs[u].term = "br" /\ cs[u].insts = fs[u].insts
       /\ cs[u].cont = fs[u].cont
  <2>1. {h} \in SUBSET (1..n)
    BY <1>4
  <2>2. n \in Nat /\ u \in 1..n
    BY <1>2, <1>6
  <2> QED BY <1>12, <1>13, <2>1, <2>2, TerminateGood, TerminateBlock
<1> DEFINE Q == P \ {u}
<1>15. Flows(cs, n, x, Q \ {x}, F)
  <2>1. PICK q \in 1..n : q # cur /\ h \in blocks[q].to
    BY <1>4
  <2>2. q # u
    BY <1>6, <2>1, BlankBlock
  <2>3. x \in fs[h].to /\ \E r \in 1..n : r # u /\ h \in fs[r].to
    BY <1>4, <1>10, <2>1, <2>2
  <2>4. x \in Q /\ h # u /\ h \in 1..n
    BY <1>3, <1>4, <1>6
  <2>5. /\ Graph(cs, n) /\ cs[u].insts = fs[u].insts /\ \A b \in 1..n : b # u => cs[b] = fs[b]
        /\ cs[u].term # "nil" /\ cs[u].to \subseteq {h}
    BY <1>14
  <2> HIDE DEF Q
  <2>6. Flows(fs, n, u, Q, F) /\ n \in Nat \ {0}
    BY <1>2, <1>11 DEF Q
  <2>7. BackEdge(fs, cs, n, u, h)
    BY <2>3, <2>4, <2>5 DEF BackEdge
  <2> QED BY <2>3, <2>4, <2>6, <2>7, FlowsLoop
<1>16. Q \ {x} = P \ {u, x}
  OBVIOUS
<1>17. Flows(cs, n, x, P \ {u, x}, Frames(Pop))
  BY <1>3, <1>15, <1>16, FlowsFrames
<1>18. cs[x].cont = 0 /\ \A b \in 1..n : cs[b].insts = blocks[b].insts
  <2>1. blocks[x] = Block0
    BY <1>2, <1>3 DEF Flows
  <2> QED BY <1>3, <1>6, <1>8, <1>9, <1>14, <2>1, BlankBlock
<1>19. /\ Flows(blocks', n, x, P \ {u, x}, Frames(Pop)) /\ blocks'[x].cont = 0
       /\ \A b \in 1..n : blocks'[b].insts = blocks[b].insts
  <2>1. CASE e = 0
    BY <1>1, <1>17, <1>18, <2>1
  <2>2. CASE e # 0
    <3>1. e \in P \ {u, x} /\ e \in 1..n
      BY <1>2, <1>5, <2>2
    <3>2. Flows(Fall(cs, x, e), n, x, P \ {u, x}, Frames(Pop))
          /\ \A b \in 1..n : Fall(cs, x, e)[b].cont = cs[b].cont
      BY <1>2, <1>17, <3>1, FlowsFall
    <3>3. \A b \in 1..n : Fall(cs, x, e)[b].insts = cs[b].insts
      BY <1>2, <1>6, <1>14, <3>1, FallInsts DEF Becomes
    <3> QED BY <1>1, <1>6, <1>18, <2>2, <3>2, <3>3
  <2> QED BY <2>1, <2>2
<1>20. Len(blocks') = n
  BY <1>2, <1>19, FunIsSeq DEF Flows, Graph
<1>21. \A v : Copied(blocks', n, v) = Copied(blocks, n, v)
  BY <1>19, CopiedSame
<1> QED BY <1>1, <1>3, <1>19, <1>20, <1>21 DEF Flow, n

LEMMA JumpFlow == ASSUME Shape, Flow, Break \/ Continue \/ Return PROVE Flow'
<1> DEFINE n == Len(blocks)
           P == Waits(open)
           F == Frames(open)
<1>1. /\ n \in Nat \ {0} /\ Graph(blocks, n) /\ cur \in 1..n /\ P \subseteq 1..n
      /\ Flows(blocks, n, cur, P, F)
  BY FlowFacts
<1>2. UNCHANGED <<cur, open, locals>>
  BY DEF Break, Continue, Return, Jump
<1>3. ASSUME Graph(blocks', n), \A b \in 1..n : blocks'[b].insts = blocks[b].insts,
             blocks'[cur].cont = blocks[cur].cont, Flows(blocks', n, cur, P, F)
      PROVE  Flow'
  <2>1. Len(blocks') = n
    BY <1>1, <1>3, FunIsSeq DEF Graph
  <2>2. \A v : Copied(blocks', n, v) = Copied(blocks, n, v)
    BY <1>3, CopiedSame
  <2> QED BY <1>2, <1>3, <2>1, <2>2 DEF Flow
<1>4. CASE Break \/ Continue
  <2>1. PICK t : blocks' = Terminate(blocks, cur, {t}) /\ t \in P
    <3>1. PICK i \in DOMAIN open :
            /\ open[i].kind = "for"
            /\ \/ blocks' = Terminate(blocks, cur, {open[i].after})
               \/ blocks' = Terminate(blocks, cur, {open[i].orelse})
      BY <1>4 DEF Break, Continue, Jump, Innermost
    <3>2. i \in 1..Len(open)
      BY LenProperties DEF Shape
    <3>3. open[i].after \in PendOf(open[i]) /\ open[i].orelse \in PendOf(open[i])
      BY <3>1 DEF PendOf
    <3> QED BY <3>1, <3>2, <3>3 DEF Waits, Frames
  <2> HIDE DEF n, P, F
  <2>2. {t} \in SUBSET P /\ {t} \in SUBSET (1..n)
    BY <1>1, <2>1
  <2> QED BY <1>1, <1>3, <2>1, <2>2, FlowsTerminate, TerminateGood, TerminateBlock
<1>5. CASE Return
  <2>1. blocks' = [blocks EXCEPT ![cur].term = "ret", ![cur].to = {}]
    BY <1>5 DEF Return, Jump
  <2>2. blocks \in [1..n -> GoodBlock(n)] /\ blocks[cur] \in GoodBlock(n)
    BY <1>1 DEF Graph
  <2>3. ASSUME NEW x \in GoodBlock(n)
        PROVE  LET y == [[x EXCEPT !.term = "ret"] EXCEPT !.to = {}] IN
               y \in GoodBlock(n) /\ y.insts = x.insts /\ y.to = {} /\ y.term = "ret"
               /\ y.cont = x.cont
    BY DEF GoodBlock
  <2>4. /\ \A b \in 1..n : blocks'[b] = IF b = cur
                    THEN [[blocks[b] EXCEPT !.term = "ret"] EXCEPT !.to = {}] ELSE blocks[b]
        /\ blocks' = [b \in 1..n |-> blocks'[b]]
    BY <1>1, <2>1, <2>2
  <2>5. /\ \A b \in 1..n : b # cur => blocks'[b] = blocks[b]
        /\ blocks'[cur] \in GoodBlock(n) /\ blocks'[cur].insts = blocks[cur].insts
        /\ blocks'[cur].to = {} /\ blocks'[cur].term = "ret"
        /\ blocks'[cur].cont = blocks[cur].cont
    BY <1>1, <2>2, <2>3, <2>4
  <2> HIDE DEF n, P, F
  <2>6. Graph(blocks', n)
    BY <2>2, <2>4, <2>5 DEF Graph
  <2>7. \A v \in Local : Creates(blocks'[cur], v) => Creates(blocks[cur], v)
    BY <2>5 DEF Creates
  <2>8. Flows(blocks', n, cur, P, F)
    BY <1>1, <2>5, <2>6, <2>7, FlowsEdit
  <2> QED BY <1>3, <2>5, <2>6, <2>8
<1> QED BY <1>4, <1>5

LEMMA InitFlow == LowerInit => Flow
<1> SUFFICES ASSUME LowerInit PROVE Flow
  OBVIOUS
<1>1. Shape
  BY InitGood
<1>2. blocks = <<Block0>> /\ Len(blocks) = 1 /\ cur = 1 /\ open = <<>> /\ Len(open) = 0
      /\ Graph(blocks, 1) /\ 1..1 = {1} /\ 1..0 = {} /\ blocks[1] = Block0
  BY <1>1 DEF LowerInit, Shape
<1>3. Frames(open) = {} /\ Waits(open) = {} /\ Apart(open)
  BY <1>2 DEF Frames, Waits, Apart
<1>4. Grounded(blocks, 1)
  BY <1>2 DEF Grounded, From, Arrives, Starts
<1>5. Leads(blocks, 1)
  BY <1>2, BlankBlock DEF Leads
<1>6. CreatedFirst(blocks, 1) /\ \A v : Copied(blocks, 1, v) = {}
  BY <1>2, BlankBlock DEF CreatedFirst, Copied
<1> QED BY <1>2, <1>3, <1>4, <1>5, <1>6, BlankBlock DEF Flow, Flows

\* Every block is reached, every block reaches a return, and no value is created where
\* one of its copies has been made.
LEMMA LowerFlow == ASSUME Shape, Flow, Lower PROVE Flow'
  BY StraightFlow, IfFlow, ForFlow, ElseFlow, EndIfFlow, EndForFlow, JumpFlow DEF Lower

\* The graph the analysis is given.
Routed(bs, n) == Grounded(bs, n) /\ Leads(bs, n) /\ CreatedFirst(bs, n)

LEMMA RoutedSame ==
  ASSUME NEW n, NEW bs, NEW cs, Routed(bs, n),
         \A b \in 1..n : /\ cs[b].to = bs[b].to
                         /\ \A v \in Local : (Creates(cs[b], v) => Creates(bs[b], v))
                                             /\ (Copies(cs[b], v) => Copies(bs[b], v))
  PROVE  Routed(cs, n)
<1>1. \A C, D, d : From(bs, n, C, d) /\ D \subseteq C => From(cs, n, D, d)
  BY DEF From, Arrives, Starts
<1>2. Grounded(cs, n)
  BY <1>1 DEF Routed, Grounded
<1>3. Leads(cs, n)
  BY DEF Routed, Leads
<1>4. CreatedFirst(cs, n)
  <2>1. \A v \in Local : Copied(cs, n, v) \subseteq Copied(bs, n, v)
    BY DEF Copied
  <2> QED BY <1>1, <2>1 DEF Routed, CreatedFirst
<1> QED BY <1>2, <1>3, <1>4 DEF Routed

LEMMA EnsureReturnRouted ==
  ASSUME Shape, Flow, open = <<>>
  PROVE  Routed(EnsureReturn, Len(blocks))
<1> DEFINE n == Len(blocks)
<1>1. Flows(blocks, n, cur, {}, {}) /\ blocks[cur].cont = 0
  <2>1. Len(open) = 0 /\ 1..0 = {}
    OBVIOUS
  <2>2. Frames(open) = {} /\ Waits(open) = {}
    BY <2>1 DEF Frames, Waits
  <2> QED BY <2>2 DEF Flow
<1>2. Routed(blocks, n)
  BY <1>1 DEF Flows, Routed
<1>3. ASSUME NEW b \in 1..n
      PROVE  EnsureReturn[b].to = blocks[b].to /\ EnsureReturn[b].insts = blocks[b].insts
  <2>1. blocks[b].term # "nil" \/ blocks[b].cont = 0
    BY <1>1 DEF Flows
  <2>2. blocks[b] \in GoodBlock(n)
    BY DEF Shape, Graph
  <2>3. EnsureReturn[b] \in {blocks[b], [blocks[b] EXCEPT !.term = "ret"]}
    BY <2>1 DEF EnsureReturn
  <2> QED BY <2>2, <2>3 DEF GoodBlock
<1>4. \A b \in 1..n : /\ EnsureReturn[b].to = blocks[b].to
                      /\ \A v \in Local : (Creates(EnsureReturn[b], v) => Creates(blocks[b], v))
                                          /\ (Copies(EnsureReturn[b], v) => Copies(blocks[b], v))
  BY <1>3 DEF Creates, Copies
<1> HIDE DEF n
<1> QED BY <1>2, <1>4, RoutedSame DEF n

-----------------------------------------------------------------------------
NamesOf(x) == {x.dst, x.src, x.into} \ {NoVal}
\* An assignment to an existing slot that copies from v.
AssignsFrom(x, v) == x.op \in {"move", "clone"} /\ x.src = v /\ x.into # NoVal
Assigned(bs, n, v) ==
  \E b \in 1..n : \E i \in 1..Len(bs[b].insts) : AssignsFrom(bs[b].insts[i], v)
Created(bs, n, v) == \E b \in 1..n : Creates(bs[b], v)

\* A block names no value before it creates it.
FirstNamed(is) ==
  \A i \in 1..Len(is) : is[i].dst # NoVal => \A j \in 1..i - 1 : is[i].dst \notin NamesOf(is[j])
DropBefore(is, i) == i - 1 \in 1..Len(is) /\ is[i - 1] = Op("drop", is[i].into)

\* A slot that is written again belongs to a value created somewhere; its content is
\* dropped just before, unless an assignment has copied from it.  Only a branch goes anywhere.
Sound(bs, n) ==
  /\ \A b \in 1..n : FirstNamed(bs[b].insts)
  /\ \A b \in 1..n : \A i \in 1..Len(bs[b].insts) :
       bs[b].insts[i].into # NoVal =>
         /\ Created(bs, n, bs[b].insts[i].into)
         /\ Assigned(bs, n, bs[b].insts[i].into) \/ DropBefore(bs[b].insts, i)
  /\ \A b \in 1..n : bs[b].term # "br" => bs[b].to = {}

Tidy ==
  /\ Sound(blocks, Len(blocks))
  /\ \A b \in 1..Len(blocks) : \A i \in 1..Len(blocks[b].insts) :
       NamesOf(blocks[b].insts[i]) \subseteq locals
  /\ \A v \in moved : Assigned(blocks, Len(blocks), v)
  /\ \A v \in locals : Created(blocks, Len(blocks), v)

LEMMA ExtendsTidy ==
  ASSUME Shape, Tidy, Extends, UNCHANGED <<locals, moved>>
  PROVE  Tidy'
<1> DEFINE n == Len(blocks)
           m == Len(blocks')
<1>1. n \in Nat /\ \A b \in 1..n : b \in 1..m /\ blocks'[b].insts = blocks[b].insts
  <2>1. n \in Nat /\ n <= m
    BY DEF Shape, Extends
  <2>2. \A b \in 1..n : b \in 1..m /\ b <= n
    BY <2>1
  <2> QED BY <2>1, <2>2 DEF Extends, Becomes
<1>2. \A v : /\ Assigned(blocks, n, v) => Assigned(blocks', m, v)
             /\ Created(blocks, n, v) => Created(blocks', m, v)
  BY <1>1 DEF Assigned, Created, Creates
<1>3. ASSUME NEW b \in 1..m
      PROVE  \/ b \in 1..n /\ blocks'[b].insts = blocks[b].insts
             \/ Len(blocks'[b].insts) = 0
  BY <1>1 DEF Extends, Becomes, Block0
<1>4. ASSUME NEW b \in 1..m PROVE blocks'[b].term # "br" => blocks'[b].to = {}
  <2>1. CASE b <= n
    <3>1. b \in 1..n /\ Becomes(blocks[b], blocks'[b])
      BY <1>1, <2>1 DEF Extends
    <3>2. blocks[b].term # "br" => blocks[b].to = {}
      BY <3>1 DEF Tidy, Sound
    <3> QED BY <3>1, <3>2 DEF Becomes
  <2>2. CASE ~(b <= n)
    BY <2>2 DEF Extends, Becomes, Block0
  <2> QED BY <2>1, <2>2
<1>5. \A b \in 1..m : FirstNamed(blocks'[b].insts)
  <2>1. \A b \in 1..n : FirstNamed(blocks[b].insts)
    BY DEF Tidy, Sound
  <2>2. \A is : Len(is) = 0 => FirstNamed(is)
    BY DEF FirstNamed
  <2> QED BY <1>3, <2>1, <2>2
<1>6. ASSUME NEW b \in 1..m, NEW i \in 1..Len(blocks'[b].insts)
      PROVE  /\ NamesOf(blocks'[b].insts[i]) \subseteq locals
             /\ blocks'[b].insts[i].into # NoVal =>
                  /\ Created(blocks', m, blocks'[b].insts[i].into)
                  /\ Assigned(blocks', m, blocks'[b].insts[i].into) \/ DropBefore(blocks'[b].insts, i)
  <2>1. b \in 1..n /\ blocks'[b].insts = blocks[b].insts
    BY <1>3
  <2> QED BY <1>2, <2>1 DEF Tidy, Sound
<1> HIDE DEF n
<1>7. Sound(blocks', m)
  BY <1>4, <1>5, <1>6 DEF Sound
<1>8. (\A v \in moved : Assigned(blocks', m, v)) /\ (\A v \in locals : Created(blocks', m, v))
  BY <1>2 DEF Tidy, n
<1> QED BY <1>6, <1>7, <1>8 DEF Tidy

LEMMA EmitTidy ==
  ASSUME Shape, Tidy, NEW is \in Seq(GoodInst), Emit(is), locals \subseteq locals',
         \A i \in 1..Len(is) : NamesOf(is[i]) \subseteq locals',
         \A i \in 1..Len(is) : is[i].dst # NoVal => i = 1 /\ is[i].dst \notin locals,
         \A i \in 1..Len(is) : is[i].into # NoVal =>
           is[i].into \in locals /\ (is[i].into \in moved \/ DropBefore(is, i)),
         \A v \in locals' : v \in locals \/ \E i \in 1..Len(is) : is[i].dst = v,
         \A v \in moved' : v \in moved \/ \E i \in 1..Len(is) : AssignsFrom(is[i], v)
  PROVE  Tidy'
<1> DEFINE n == Len(blocks)
           old == blocks[cur].insts
           m == Len(old)
           k == Len(is)
           new == blocks'[cur].insts
<1>1. n \in Nat \ {0} /\ cur \in 1..n /\ Graph(blocks, n) /\ Graph(blocks', n) /\ Len(blocks') = n
  BY EmitGood DEF Shape
<1>2. blocks \in [1..n -> GoodBlock(n)] /\ blocks[cur] \in GoodBlock(n)
  BY <1>1 DEF Graph
<1>3. /\ \A b \in 1..n : b # cur => blocks'[b] = blocks[b]
      /\ new = old \o is /\ old \in Seq(GoodInst)
      /\ blocks'[cur].to = blocks[cur].to /\ blocks'[cur].term = blocks[cur].term
  BY <1>1, <1>2 DEF Emit, GoodBlock
<1>4. /\ m \in Nat /\ k \in Nat /\ Len(new) = m + k
      /\ \A i \in 1..m : new[i] = old[i] /\ i \in 1..m + k
      /\ \A i \in 1..k : new[m + i] = is[i] /\ m + i \in 1..m + k
      /\ \A i \in 1..m + k : i \in 1..m \/ i - m \in 1..k
  <2>1. m \in Nat /\ k \in Nat
    BY <1>3, LenProperties
  <2>2. /\ Len(old \o is) = m + k
        /\ \A i \in 1..m + k : (old \o is)[i] = IF i <= m THEN old[i] ELSE is[i - m]
    BY <1>3, ConcatProperties
  <2>3. \A i \in 1..k : m + i \in 1..m + k /\ ~(m + i <= m) /\ (m + i) - m = i
    BY <2>1
  <2>4. \A i \in 1..m : i \in 1..m + k /\ i <= m
    BY <2>1
  <2>5. \A i \in 1..m + k : i \in 1..m \/ i - m \in 1..k
    BY <2>1
  <2> HIDE DEF m, k, old
  <2> QED BY <1>3, <2>1, <2>2, <2>3, <2>4, <2>5
<1>5. /\ Sound(blocks, n)
      /\ \A b \in 1..n : \A i \in 1..Len(blocks[b].insts) : NamesOf(blocks[b].insts[i]) \subseteq locals
      /\ \A v \in moved : Assigned(blocks, n, v)
      /\ \A v \in locals : Created(blocks, n, v)
  BY DEF Tidy
<1> HIDE DEF m, k, n
<1>6. \A v : /\ Assigned(blocks, n, v) => Assigned(blocks', n, v)
             /\ Created(blocks, n, v) => Created(blocks', n, v)
  <2>1. ASSUME NEW b \in 1..n, NEW i \in 1..Len(blocks[b].insts)
        PROVE  i \in 1..Len(blocks'[b].insts) /\ blocks'[b].insts[i] = blocks[b].insts[i]
    BY <1>3, <1>4 DEF m
  <2> QED BY <2>1 DEF Assigned, Created, Creates
<1>7. /\ \A i \in 1..k : \A v : AssignsFrom(is[i], v) => Assigned(blocks', n, v)
      /\ \A i \in 1..k : \A v : is[i].dst = v => Created(blocks', n, v)
  <2>1. \A i \in 1..k : m + i \in 1..Len(blocks'[cur].insts) /\ blocks'[cur].insts[m + i] = is[i]
    BY <1>4
  <2> QED BY <1>1, <2>1 DEF Assigned, Created, Creates
<1>8. (\A v \in moved' : Assigned(blocks', n, v)) /\ (\A v \in locals' : Created(blocks', n, v))
  BY <1>5, <1>6, <1>7 DEF k
<1>9. ASSUME NEW b \in 1..n, NEW i \in 1..Len(blocks'[b].insts)
      PROVE  NamesOf(blocks'[b].insts[i]) \subseteq locals'
  <2>1. CASE b = cur
    <3>1. i \in 1..m \/ i - m \in 1..k
      BY <1>4, <2>1
    <3>2. CASE i \in 1..m
      BY <1>1, <1>4, <1>5, <2>1, <3>2 DEF m
    <3>3. CASE i - m \in 1..k
      <4>1. new[m + (i - m)] = is[i - m] /\ m + (i - m) = i
        BY <1>4, <2>1, <3>3
      <4> QED BY <2>1, <3>3, <4>1 DEF k
    <3> QED BY <3>1, <3>2, <3>3
  <2>2. CASE b # cur
    BY <1>3, <1>5, <2>2
  <2> QED BY <2>1, <2>2
<1>10. ASSUME NEW b \in 1..n PROVE FirstNamed(blocks'[b].insts)
  <2>1. FirstNamed(blocks[b].insts)
    BY <1>5 DEF Sound
  <2>2. CASE b = cur
    <3> SUFFICES ASSUME NEW i \in 1..m + k, new[i].dst # NoVal, NEW j \in 1..i - 1
                 PROVE  new[i].dst \notin NamesOf(new[j])
      BY <1>4, <2>2 DEF FirstNamed
    <3>1. CASE i \in 1..m
      <4>1. j \in 1..m /\ new[i] = old[i] /\ new[j] = old[j]
        BY <1>4, <3>1
      <4> QED BY <2>1, <2>2, <3>1, <4>1 DEF FirstNamed, m
    <3>2. CASE i - m \in 1..k
      <4>1. new[i] = is[i - m]
        <5>1. m + (i - m) = i
          BY <1>4, <3>2
        <5> QED BY <1>4, <3>2, <5>1
      <4>2. i - m = 1 /\ new[i].dst \notin locals
        BY <3>2, <4>1 DEF k
      <4>3. j \in 1..m /\ new[j] = old[j]
        BY <1>4, <4>2
      <4>4. NamesOf(new[j]) \subseteq locals
        BY <1>1, <1>5, <4>3 DEF m
      <4> QED BY <4>2, <4>4
    <3> QED BY <1>4, <3>1, <3>2
  <2>3. CASE b # cur
    BY <1>3, <2>1, <2>3
  <2> QED BY <2>2, <2>3
<1>11. ASSUME NEW b \in 1..n, NEW i \in 1..Len(blocks'[b].insts), blocks'[b].insts[i].into # NoVal
       PROVE  /\ Created(blocks', n, blocks'[b].insts[i].into)
              /\ Assigned(blocks', n, blocks'[b].insts[i].into) \/ DropBefore(blocks'[b].insts, i)
  <2>1. CASE b = cur
    <3>1. CASE i \in 1..m
      <4>1. new[i] = old[i] /\ \A j \in 1..m : new[j] = old[j] /\ j \in 1..Len(new)
        BY <1>4, <3>1
      <4>2. /\ Created(blocks, n, old[i].into)
            /\ Assigned(blocks, n, old[i].into) \/ DropBefore(old, i)
        BY <1>1, <1>5, <1>11, <2>1, <3>1, <4>1 DEF Sound, m
      <4>3. DropBefore(old, i) => DropBefore(new, i)
        BY <4>1 DEF DropBefore, m
      <4> QED BY <1>6, <2>1, <4>1, <4>2, <4>3
    <3>2. CASE i - m \in 1..k
      <4> DEFINE j == i - m
      <4>1. new[i] = is[j] /\ j \in Nat /\ i - 1 = m + (j - 1)
        <5>1. m + (i - m) = i
          BY <1>4, <3>2
        <5> QED BY <1>4, <3>2, <5>1
      <4> HIDE DEF j
      <4>2. is[j].into \in locals /\ (is[j].into \in moved \/ DropBefore(is, j))
        BY <1>11, <2>1, <3>2, <4>1 DEF k, j
      <4>3. DropBefore(is, j) => DropBefore(new, i)
        <5> SUFFICES ASSUME DropBefore(is, j) PROVE DropBefore(new, i)
          OBVIOUS
        <5>1. j - 1 \in 1..k /\ is[j - 1] = Op("drop", is[j].into)
          BY DEF DropBefore, k
        <5>2. new[m + (j - 1)] = is[j - 1] /\ m + (j - 1) \in 1..m + k
          BY <1>4, <5>1
        <5> QED BY <1>4, <4>1, <5>1, <5>2 DEF DropBefore
      <4> QED BY <1>5, <1>6, <2>1, <4>1, <4>2, <4>3
    <3> QED BY <1>4, <2>1, <3>1, <3>2
  <2>2. CASE b # cur
    <3>1. blocks'[b] = blocks[b]
      BY <1>3, <2>2
    <3> QED BY <1>5, <1>6, <1>11, <3>1 DEF Sound
  <2> QED BY <2>1, <2>2
<1>12. \A b \in 1..n : blocks'[b].term # "br" => blocks'[b].to = {}
  BY <1>3, <1>5 DEF Sound
<1>13. Sound(blocks', n)
  BY <1>10, <1>11, <1>12 DEF Sound
<1> QED BY <1>1, <1>8, <1>9, <1>13 DEF Tidy

\* A slot is written again after a drop of its content, unless it has been copied from.
Refill(is, w, x) ==
  /\ \A i \in 1..Len(is) : is[i] = Op("drop", w) \/ (is[i] = x /\ (w \in moved \/ DropBefore(is, i)))
  /\ \E i \in 1..Len(is) : is[i] = x

LEMMA RefillForm ==
  ASSUME NEW w \in Local, NEW x, x.into = w
  PROVE  Refill(Append(DropOld(w), x), w, x)
<1> DEFINE d == Op("drop", w)
           is == Append(DropOld(w), x)
<1> SUFFICES /\ \A i \in 1..Len(is) :
                  is[i] = Op("drop", w) \/ (is[i] = x /\ (w \in moved \/ DropBefore(is, i)))
             /\ \E i \in 1..Len(is) : is[i] = x
  BY DEF Refill
<1>1. CASE w \in moved
  <2>1. is = <<x>>
    BY <1>1 DEF DropOld
  <2> QED BY <1>1, <2>1
<1>2. CASE w \notin moved
  <2>1. is = Append(<<d>>, x)
    BY <1>2 DEF DropOld, d
  <2> HIDE DEF d
  <2> HIDE DEF is
  <2>2. Len(is) = 2 /\ is[1] = d /\ is[2] = x
    <3>1. <<d>> \in Seq({d, x}) /\ Len(<<d>>) = 1 /\ <<d>>[1] = d /\ x \in {d, x}
      OBVIOUS
    <3>2. /\ Len(is) = Len(<<d>>) + 1
          /\ \A i \in 1..Len(<<d>>) : is[i] = <<d>>[i]
          /\ is[Len(<<d>>) + 1] = x
      BY <2>1, <3>1, AppendProperties
    <3> QED BY <3>1, <3>2
  <2>3. DropBefore(is, 2)
    <3>1. 2 - 1 = 1 /\ 1 \in 1..2
      OBVIOUS
    <3> QED BY <2>2, <3>1 DEF DropBefore, d
  <2>4. \A i \in 1..2 : i = 1 \/ i = 2
    OBVIOUS
  <2> QED BY <2>2, <2>3, <2>4 DEF d
<1> QED BY <1>1, <1>2

LEMMA RefillTidy ==
  ASSUME Shape, Tidy, NEW w \in locals, NEW v \in locals \cup {NoVal}, w # v,
         Emit(Append(DropOld(w), MoveInto(w, v))), locals' = locals,
         \A u \in moved' : u \in moved \/ (u = v /\ v # NoVal)
  PROVE  Tidy'
<1> DEFINE x == MoveInto(w, v)
           is == Append(DropOld(w), x)
<1>1. w \in Local /\ v \in Local \cup {NoVal} /\ w # NoVal
  BY LocalAssumption DEF Shape
<1>2. x \in GoodInst /\ is \in Seq(GoodInst)
  BY <1>1, OpGood, DropOldGood
<1>3. /\ x.into = w /\ x.dst = NoVal /\ NamesOf(x) \subseteq locals
      /\ (v # NoVal => AssignsFrom(x, v))
  BY <1>1 DEF MoveInto, NamesOf, AssignsFrom
<1>4. LET d == Op("drop", w) IN d.dst = NoVal /\ d.into = NoVal /\ NamesOf(d) \subseteq locals
  BY <1>1 DEF Op, NamesOf
<1> HIDE DEF x
<1>5. /\ \A i \in 1..Len(is) : is[i] = Op("drop", w) \/ (is[i] = x /\ (w \in moved \/ DropBefore(is, i)))
      /\ \E i \in 1..Len(is) : is[i] = x
  <2>1. Refill(Append(DropOld(w), x), w, x)
    BY <1>1, <1>3, RefillForm
  <2> QED BY <2>1 DEF Refill
<1>6. Emit(is)
  BY DEF x
<1> HIDE DEF is
<1>7. \A i \in 1..Len(is) : NamesOf(is[i]) \subseteq locals' /\ is[i].dst = NoVal
  BY <1>3, <1>4, <1>5
<1>8. \A i \in 1..Len(is) : is[i].into # NoVal =>
        is[i].into \in locals /\ (is[i].into \in moved \/ DropBefore(is, i))
  BY <1>3, <1>4, <1>5
<1>9. \A u \in moved' : u \in moved \/ \E i \in 1..Len(is) : AssignsFrom(is[i], u)
  BY <1>3, <1>5
<1> QED BY <1>2, <1>6, <1>7, <1>8, <1>9, EmitTidy

\* A value is named for the first time where it is created.
LEMMA OneTidy ==
  ASSUME Shape, Tidy, NEW x \in GoodInst, Emit(<<x>>), moved' = moved, x.into = NoVal,
         locals \subseteq locals', NamesOf(x) \subseteq locals',
         x.dst # NoVal => x.dst \notin locals,
         \A u \in locals' : u \in locals \/ x.dst = u
  PROVE  Tidy'
<1> DEFINE is == <<x>>
<1>1. is \in Seq(GoodInst) /\ Len(is) = 1 /\ is[1] = x /\ \A i \in 1..1 : i = 1
  OBVIOUS
<1>2. Emit(is)
  OBVIOUS
<1> HIDE DEF is
<1>3. \A i \in 1..Len(is) : /\ NamesOf(is[i]) \subseteq locals' /\ is[i].into = NoVal
                            /\ is[i].dst # NoVal => i = 1 /\ is[i].dst \notin locals
  BY <1>1
<1>4. \A u \in locals' : u \in locals \/ \E i \in 1..Len(is) : is[i].dst = u
  BY <1>1
<1> QED BY <1>1, <1>2, <1>3, <1>4, EmitTidy

LEMMA StraightTidy ==
  ASSUME Shape, Tidy, NEW v \in Local,
         \/ Bind(v) \/ Read(v) \/ Write(v) \/ Spawn(v) \/ \E w \in Local : Copy(w, v)
  PROVE  Tidy'
<1>1. v # NoVal /\ locals \subseteq Local /\ visible \subseteq locals
  BY LocalAssumption DEF Shape
<1>2. CASE Bind(v)
  <2>1. locals' = locals \cup {v} /\ moved' = moved
    BY <1>2 DEF Bind
  <2>2. CASE v \in locals
    <3>1. Emit(Append(DropOld(v), MoveInto(v, NoVal)))
      BY <1>2, <2>2 DEF Bind
    <3>2. locals' = locals
      BY <2>1, <2>2
    <3> QED BY <1>1, <2>1, <2>2, <3>1, <3>2, RefillTidy
  <2>3. CASE v \notin locals
    <3> DEFINE x == Def("new", v, NoVal)
    <3>1. x \in GoodInst /\ x.into = NoVal /\ x.dst = v /\ NamesOf(x) \subseteq {v}
      BY OpGood DEF Def, NamesOf
    <3>2. Emit(<<x>>)
      BY <1>2, <2>3 DEF Bind
    <3> HIDE DEF x
    <3> QED BY <2>1, <2>3, <3>1, <3>2, OneTidy
  <2> QED BY <2>2, <2>3
<1>3. ASSUME NEW op \in {"read", "write", "run"}, NEW k, Use(k, op, v) PROVE Tidy'
  <2> DEFINE x == Op(op, v)
  <2>1. x \in GoodInst /\ x.into = NoVal /\ x.dst = NoVal /\ NamesOf(x) \subseteq {v}
    BY OpGood DEF Op, NamesOf
  <2>2. Emit(<<x>>) /\ UNCHANGED <<locals, moved>> /\ v \in locals
    BY <1>1, <1>3 DEF Use
  <2> HIDE DEF x
  <2> QED BY <2>1, <2>2, OneTidy
<1>4. ASSUME NEW w \in Local, Copy(w, v) PROVE Tidy'
  <2>1. w # v /\ v \in locals /\ locals' = locals \cup {w}
    BY <1>1, <1>4 DEF Copy
  <2>2. CASE w \in locals
    <3>1. Emit(Append(DropOld(w), MoveInto(w, v))) /\ moved' = moved \cup {v}
      BY <1>4, <2>2 DEF Copy
    <3>2. locals' = locals
      BY <2>1, <2>2
    <3> QED BY <1>1, <2>1, <2>2, <3>1, <3>2, RefillTidy
  <2>3. CASE w \notin locals
    <3> DEFINE op == IF v \in Slice THEN "clone" ELSE "move"
               x == Def(op, w, v)
    <3>1. op \in {"move", "clone"}
      OBVIOUS
    <3>2. Emit(<<x>>) /\ moved' = moved
      BY <1>4, <2>3 DEF Copy
    <3> HIDE DEF op
    <3>3. x \in GoodInst /\ x.into = NoVal /\ x.dst = w /\ NamesOf(x) \subseteq {v, w}
      BY <3>1, OpGood DEF Def, NamesOf
    <3> HIDE DEF x
    <3> QED BY <2>1, <2>3, <3>2, <3>3, OneTidy
  <2> QED BY <2>2, <2>3
<1> QED BY <1>2, <1>3, <1>4 DEF Read, Write, Spawn

\* A slot is written again only where its content has just been dropped or was assigned
\* elsewhere, and no block names a value before it creates it.
LEMMA LowerTidy == ASSUME Shape, Tidy, Lower PROVE Tidy'
<1>1. CASE \E v \in Local : Bind(v) \/ Read(v) \/ Write(v) \/ Spawn(v) \/ \E w \in Local : Copy(w, v)
  BY <1>1, StraightTidy
<1>2. CASE If \/ For
  BY <1>2, BranchExtends, ExtendsTidy DEF If, For, Scopes
<1>3. CASE Else \/ EndIf \/ EndFor
  BY <1>3, EndExtends, ExtendsTidy DEF Else, EndIf, EndFor, Scopes
<1>4. CASE Break \/ Continue \/ Return
  <2>1. UNCHANGED <<locals, moved>>
    BY <1>4 DEF Break, Continue, Return, Jump
  <2> QED BY <1>4, <2>1, JumpExtends, ExtendsTidy
<1> QED BY <1>1, <1>2, <1>3, <1>4 DEF Lower

LEMMA InitTidy == LowerInit => Tidy
<1> SUFFICES ASSUME LowerInit PROVE Tidy
  OBVIOUS
<1>1. Len(blocks) = 1 /\ \A b \in 1..1 : blocks[b] = Block0
  BY DEF LowerInit
<1>2. Block0.insts = <<>> /\ Len(<<>>) = 0 /\ Block0.to = {} /\ 1..0 = {}
  BY DEF Block0
<1> QED BY <1>1, <1>2 DEF LowerInit, Tidy, Sound, FirstNamed

\* The instructions and the edges of a body decide whether it is sound.
LEMMA EnsureReturnSound ==
  ASSUME Shape, Flow, Tidy, open = <<>>
  PROVE  Sound(EnsureReturn, Len(blocks))
<1> DEFINE n == Len(blocks)
<1>1. ASSUME NEW b \in 1..n
      PROVE  /\ EnsureReturn[b].insts = blocks[b].insts
             /\ EnsureReturn[b].to = blocks[b].to
             /\ EnsureReturn[b].term # "br" => blocks[b].term # "br"
  <2>1. blocks[b].cont = 0 \/ blocks[b].term # "nil"
    <3>1. Flows(blocks, n, cur, {}, {}) /\ blocks[cur].cont = 0
      <4>1. Len(open) = 0 /\ 1..0 = {}
        OBVIOUS
      <4>2. Frames(open) = {} /\ Waits(open) = {}
        BY <4>1 DEF Frames, Waits
      <4> QED BY <4>2 DEF Flow
    <3> QED BY <3>1 DEF Flows
  <2>2. blocks[b] \in GoodBlock(n)
    BY DEF Shape, Graph
  <2>3. EnsureReturn[b] = IF blocks[b].term # "nil" THEN blocks[b]
                                                    ELSE [blocks[b] EXCEPT !.term = "ret"]
    BY <2>1 DEF EnsureReturn
  <2> QED BY <2>2, <2>3 DEF GoodBlock
<1>2. Sound(blocks, n)
  BY DEF Tidy
<1> HIDE DEF n
<1>3. \A v : (Assigned(EnsureReturn, n, v) <=> Assigned(blocks, n, v))
             /\ (Created(EnsureReturn, n, v) <=> Created(blocks, n, v))
  BY <1>1 DEF Assigned, Created, Creates
<1>4. Sound(EnsureReturn, n)
  BY <1>1, <1>2, <1>3 DEF Sound
<1> QED BY <1>4 DEF n
=============================================================================
