------------------------------- MODULE MirLower -------------------------------
(***************************************************************************)
(* Lowering of a function body to MIR blocks.  The statements arrive one   *)
(* at a time, in source order; every action is the lowering of one         *)
(* statement, or of the end of an arm or of a loop.                        *)
(*                                                                         *)
(* The locals are the owned strings and slices of the body: a local is the *)
(* MIR value its first binding created, and every later binding of the     *)
(* name writes the slot of that value.  Conditions, scalars and temporaries*)
(* have no instruction here: a temporary is moved into a slot by the       *)
(* instruction that follows it and owns nothing afterwards.                *)
(***************************************************************************)
EXTENDS Naturals, Sequences

CONSTANTS Local,      \* the owned locals of the body
          Slice,      \* those that are slices; the others are strings
          NoVal,      \* no value
          Dialect,    \* the sets of statement kinds a body may be written with
          MaxStmt,    \* bound on the statements of a body
          MaxNest     \* bound on the nesting of arms and loops

ASSUME LocalAssumption == Slice \subseteq Local /\ NoVal \notin Local

VARIABLES
  dialect,   \* the statement kinds of this body
  blocks,    \* the blocks, the first one the entry
  cur,       \* the block instructions are appended to
  open,      \* contStack and loopStack: the arms and loops not closed yet
  locals,    \* the names bound so far, in text order
  visible,   \* those in scope
  moved,     \* movedSlots: the locals an assignment has copied from
  size,      \* the statements so far
  dead       \* the statement before left the block: nothing may follow it

lowering == <<dialect, blocks, cur, open, locals, visible, moved, size, dead>>

Kind == {"bind", "read", "write", "copy", "spawn", "if", "for", "break", "continue", "return"}

ASSUME DialectAssumption == \A d \in Dialect : d \subseteq Kind

Inst == [op : {"new", "read", "write", "move", "clone", "drop", "run"},
         dst : Local \cup {NoVal},    \* the value it defines
         src : Local \cup {NoVal},    \* Args[0]
         into : Local \cup {NoVal}]   \* Args[1] of a move into an existing slot
Block == [insts : Seq(Inst),
          term : {"nil", "br", "ret"}, to : SUBSET (Nat \ {0}),   \* Term and its Targets
          cont : Nat]                                             \* contTargets, 0 for none
Open == [kind : {"then", "else", "for"},
         entry : Nat \ {0},     \* the block the arm or the body starts in
         orelse : Nat \ {0},    \* then: the else block; for: the update block
         after : Nat \ {0},     \* the merge or the exit block
         outer : SUBSET Local]  \* the names visible around it

Block0 == [insts |-> <<>>, term |-> "nil", to |-> {}, cont |-> 0]

LowerTypeOK ==
  /\ dialect \subseteq Kind
  /\ blocks \in Seq(Block) /\ cur \in Nat \ {0}
  /\ open \in Seq(Open)
  /\ locals \subseteq Local /\ visible \subseteq locals /\ moved \subseteq Local
  /\ size \in Nat /\ dead \in BOOLEAN

LowerInit ==
  /\ dialect \in Dialect
  /\ blocks = <<Block0>> /\ cur = 1
  /\ open = <<>>
  /\ locals = {} /\ visible = {} /\ moved = {}
  /\ size = 0 /\ dead = FALSE

-----------------------------------------------------------------------------
Op(op, v) == [op |-> op, dst |-> NoVal, src |-> v, into |-> NoVal]
Def(op, w, v) == [op |-> op, dst |-> w, src |-> v, into |-> NoVal]
MoveInto(w, v) == [op |-> "move", dst |-> NoVal, src |-> v, into |-> w]
Args(i) == {i.src, i.into} \ {NoVal}

Emit(is) == blocks' = [blocks EXCEPT ![cur].insts = @ \o is]

\* Terminate replaces the terminator of a block; Fall only gives one to a block
\* that has none.
Terminate(bs, b, ts) == [bs EXCEPT ![b].term = "br", ![b].to = ts]
Fall(bs, b, t) == IF bs[b].term = "nil" THEN Terminate(bs, b, {t}) ELSE bs

Top == open[Len(open)]
Pop == SubSeq(open, 1, Len(open) - 1)
ContOf(o) == IF o.kind = "for" THEN o.orelse ELSE o.after
Enclosing(os) == IF os = <<>> THEN 0 ELSE ContOf(os[Len(os)])

May(k) == k \in dialect /\ ~dead /\ size < MaxStmt

\* The slot of v is written again: its content is dropped, unless an assignment
\* has copied from v.
DropOld(v) == IF v \in moved THEN <<>> ELSE <<Op("drop", v)>>

Straight == UNCHANGED <<dialect, cur, open, dead>>

\* v = a temporary: a first binding creates the value, a later one rebinds it.
Bind(v) ==
  /\ May("bind")
  /\ Emit(IF v \in locals THEN Append(DropOld(v), MoveInto(v, NoVal))
                          ELSE <<Def("new", v, NoVal)>>)
  /\ locals' = locals \cup {v} /\ visible' = visible \cup {v}
  /\ size' = size + 1
  /\ Straight /\ UNCHANGED moved

\* w = v: a first binding is a fresh value, a later one moves v into w's slot.
Copy(w, v) ==
  /\ May("copy") /\ v \in visible /\ w # v
  /\ (w \in Slice) = (v \in Slice)
  /\ IF w \in locals
     THEN /\ Emit(Append(DropOld(w), MoveInto(w, v)))
          /\ moved' = moved \cup {v}
     ELSE /\ Emit(<<Def(IF v \in Slice THEN "clone" ELSE "move", w, v)>>)
          /\ UNCHANGED moved
  /\ locals' = locals \cup {w} /\ visible' = visible \cup {w}
  /\ size' = size + 1
  /\ Straight

\* A use of v that only reads it, one that may write its buffer, a spawn.
Use(k, op, v) ==
  /\ May(k) /\ v \in visible
  /\ Emit(<<Op(op, v)>>)
  /\ size' = size + 1
  /\ Straight /\ UNCHANGED <<locals, visible, moved>>
Read(v) == Use("read", "read", v)
Write(v) == Use("write", "write", v)
Spawn(v) == Use("spawn", "run", v)

-----------------------------------------------------------------------------
Scopes == UNCHANGED <<dialect, locals, moved>>

If ==
  /\ May("if") /\ Len(open) < MaxNest
  /\ LET n == Len(blocks) IN
     /\ blocks' = Terminate(blocks \o <<Block0, Block0, Block0>>, cur, {n + 1, n + 2})
     /\ cur' = n + 1
     /\ open' = Append(open, [kind |-> "then", entry |-> n + 1, orelse |-> n + 2,
                              after |-> n + 3, outer |-> visible])
  /\ size' = size + 1
  /\ Scopes /\ UNCHANGED <<visible, dead>>

\* The end of an arm: its last block and its first one fall into the merge.
EndArm == Fall(Fall(blocks, cur, Top.after), Top.entry, Top.after)

Else ==
  /\ open # <<>> /\ Top.kind = "then"
  /\ blocks' = EndArm /\ cur' = Top.orelse
  /\ open' = Append(Pop, [Top EXCEPT !.kind = "else", !.entry = Top.orelse])
  /\ visible' = Top.outer
  /\ dead' = FALSE
  /\ Scopes /\ UNCHANGED size

EndIf ==
  /\ open # <<>> /\ Top.kind = "else"
  /\ blocks' = [EndArm EXCEPT ![Top.after].cont = Enclosing(Pop)]
  /\ cur' = Top.after
  /\ open' = Pop /\ visible' = Top.outer
  /\ dead' = FALSE
  /\ Scopes /\ UNCHANGED size

\* for <condition> { ... }: header, body, update and exit.
For ==
  /\ May("for") /\ Len(open) < MaxNest
  /\ LET n == Len(blocks)
         bs == Terminate(blocks \o <<Block0, Block0, Block0, Block0>>, cur, {n + 1})
     IN /\ blocks' = Terminate(bs, n + 1, {n + 2, n + 4})
        /\ cur' = n + 2
        /\ open' = Append(open, [kind |-> "for", entry |-> n + 2, orelse |-> n + 3,
                                 after |-> n + 4, outer |-> visible])
  /\ size' = size + 1
  /\ Scopes /\ UNCHANGED <<visible, dead>>

EndFor ==
  /\ open # <<>> /\ Top.kind = "for"
  /\ LET u == Top.orelse
         x == Top.after
         ended == Fall(Fall(blocks, Top.entry, u), cur, u)
         looped == Fall(ended, u, Top.entry - 1)
     IN /\ blocks' = IF Enclosing(Pop) = 0 THEN looped ELSE Fall(looped, x, Enclosing(Pop))
        /\ cur' = x
  /\ open' = Pop /\ visible' = Top.outer
  /\ dead' = FALSE
  /\ Scopes /\ UNCHANGED size

\* The innermost loop: loopStack's top.
Innermost(i) == open[i].kind = "for" /\ \A j \in i + 1..Len(open) : open[j].kind # "for"

Jump(k, bs) ==
  /\ May(k)
  /\ blocks' = bs
  /\ dead' = TRUE /\ size' = size + 1
  /\ UNCHANGED <<dialect, cur, open, locals, visible, moved>>
Break == \E i \in DOMAIN open :
           Innermost(i) /\ Jump("break", Terminate(blocks, cur, {open[i].after}))
Continue == \E i \in DOMAIN open :
              Innermost(i) /\ Jump("continue", Terminate(blocks, cur, {open[i].orelse}))
Return == Jump("return", [blocks EXCEPT ![cur].term = "ret", ![cur].to = {}])

Lower ==
  \/ \E v \in Local : Bind(v) \/ Read(v) \/ Write(v) \/ Spawn(v)
  \/ \E v, w \in Local : Copy(w, v)
  \/ If \/ Else \/ EndIf \/ For \/ EndFor
  \/ Break \/ Continue \/ Return

\* ensureReturn, once every construct is closed: a block without a terminator
\* goes to the continuation around it, or returns.
EnsureReturn ==
  [b \in 1..Len(blocks) |->
     IF blocks[b].term # "nil" THEN blocks[b]
     ELSE IF blocks[b].cont # 0
          THEN [blocks[b] EXCEPT !.term = "br", !.to = {blocks[b].cont}]
          ELSE [blocks[b] EXCEPT !.term = "ret"]]
=============================================================================
