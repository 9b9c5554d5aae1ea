--------------------------- MODULE LspDocuments_proofs ---------------------------
(***************************************************************************)
(* The invariants of the document manager, for any number of documents,    *)
(* texts and parses in flight.  Each is inductive relative to TypeOK.      *)
(***************************************************************************)
EXTENDS LspDocuments, TLAPS

USE TextAssumption DEF Open, Idle, NoEdit, docs

\* DidOpen and DidChange differ in their guard only.
Edit(u, x, p) ==
  /\ text' = [text EXCEPT ![u] = x]
  /\ dirty' = [dirty EXCEPT ![u] = TRUE]
  /\ seen' = [seen EXCEPT ![u] = FALSE]
  /\ Spawn(u, p)
  /\ UNCHANGED <<ast, index, shown, edit>>

\* Both messages that carry a text are edits.
LEMMA BothEdit ==
  ASSUME NEW u, NEW x, NEW p, DidOpen(u, x, p) \/ DidChange(u, x, p)
  PROVE  Edit(u, x, p)
BY DEF DidOpen, DidChange, Edit

\* What requests and stuttering leave alone.
Same ==
  /\ text' = text /\ dirty' = dirty /\ ast' = ast
  /\ index' = index /\ job' = job /\ shown' = shown /\ seen' = seen

\* Requests for edits leave the documents and the goroutines alone.
LEMMA RequestsOnlyRead ==
  ASSUME NEW u, Format(u) \/ RemoveOverflow(u)
  PROVE  Same
BY DEF Format, RemoveOverflow, Reply, Same

LEMMA Stutter == UNCHANGED vars => Same
BY DEF vars, Same

\* What a parse writes: in the document of a parse, one AST that goes with the
\* index, or the mark that there is none; in no other.
LEMMA PublishWrites ==
  ASSUME TypeOK, NEW p \in Parse, Publish(p), NEW v \in Uri
  PROVE  /\ text' = text
         /\ v # job[p].uri => /\ dirty'[v] = dirty[v] /\ ast'[v] = ast[v]
                              /\ index'[v] = index[v] /\ seen'[v] = seen[v]
         /\ v = job[p].uri => /\ index'[v] = job[p].text /\ job[p].text \in Text
                              /\ Open(v) /\ job[p].text \in Bad =>
                                   dirty'[v] /\ ast'[v] = ast[v]
                              /\ Open(v) /\ job[p].text \notin Bad =>
                                   ~dirty'[v] /\ ast'[v] = job[p].text
<1>1. job[p].uri \in Uri /\ job[p].text \in Text /\ text' = text
  BY DEF Publish, TypeOK
<1>2. index' = [index EXCEPT ![job[p].uri] = job[p].text]
  BY DEF Publish
<1>3. CASE ~Open(job[p].uri)
  BY <1>1, <1>2, <1>3 DEF Publish, TypeOK
<1>4. CASE Open(job[p].uri)
  <2> DEFINE x == job[p].text
  <2>1. /\ ast' = [ast EXCEPT ![job[p].uri] = AstAfter(x, @)]
        /\ dirty' = [dirty EXCEPT ![job[p].uri] = DirtyAfter(x)]
        /\ seen' = [seen EXCEPT ![job[p].uri] = @ \/ x = text[job[p].uri]]
    BY <1>4 DEF Publish
  <2>2. v = job[p].uri => (dirty'[v] <=> x \in Bad)
    BY <1>1, <2>1, Zenon DEF TypeOK, DirtyAfter
  <2>3. v = job[p].uri => ast'[v] = IF x \in Bad THEN ast[v] ELSE x
    BY <1>1, <2>1 DEF TypeOK, AstAfter
  <2> QED
    BY <1>1, <1>2, <2>1, <2>2, <2>3 DEF TypeOK
<1> QED
  BY <1>3, <1>4

\* Type correctness: in particular the AST is never that of a text with errors.
THEOREM TypeCorrect == Spec => []TypeOK
<1>1. Init => TypeOK
  BY DEF Init, TypeOK
<1>2. TypeOK /\ [Next]_vars => TypeOK'
  <2> SUFFICES ASSUME TypeOK, [Next]_vars PROVE TypeOK'
    OBVIOUS
  <2>1. ASSUME NEW u \in Uri, NEW x \in Text, NEW p \in Parse, Edit(u, x, p) PROVE TypeOK'
    BY <2>1 DEF Edit, Spawn, TypeOK
  <2>2. ASSUME NEW u \in Uri, DidClose(u) PROVE TypeOK'
    BY <2>2 DEF DidClose, TypeOK
  <2>3. ASSUME NEW u \in Uri, Format(u) PROVE TypeOK'
    BY <2>3 DEF Format, Reply, TypeOK
  <2>4. ASSUME NEW u \in Uri, RemoveOverflow(u) PROVE TypeOK'
    BY <2>4 DEF RemoveOverflow, Reply, TypeOK
  <2>5. ASSUME NEW p \in Parse, Snapshot(p) PROVE TypeOK'
    BY <2>5 DEF Snapshot, TypeOK
  <2>6. ASSUME NEW p \in Parse, Publish(p) PROVE TypeOK'
    <3>1. /\ job[p].uri \in Uri /\ job[p].text \in Text
          /\ index' = [index EXCEPT ![job[p].uri] = job[p].text]
          /\ job' = [job EXCEPT ![p] =
               [phase |-> "reporting", uri |-> job[p].uri, text |-> job[p].text]]
          /\ text' = text /\ shown' = shown /\ edit' = edit
      BY <2>6 DEF Publish, TypeOK
    <3>2. /\ ast' \in [Uri -> (Text \ Bad) \cup {None}]
          /\ dirty' \in [Uri -> BOOLEAN]
          /\ seen' \in [Uri -> BOOLEAN]
      <4>1. CASE ~Open(job[p].uri)
        BY <2>6, <4>1 DEF Publish, TypeOK
      <4>2. CASE Open(job[p].uri)
        <5> DEFINE x == job[p].text
        <5>1. /\ ast' = [ast EXCEPT ![job[p].uri] = AstAfter(x, @)]
              /\ dirty' = [dirty EXCEPT ![job[p].uri] = DirtyAfter(x)]
              /\ seen' = [seen EXCEPT ![job[p].uri] = @ \/ x = text[job[p].uri]]
          BY <2>6, <4>2 DEF Publish
        <5>2. \A old \in (Text \ Bad) \cup {None} : AstAfter(x, old) \in (Text \ Bad) \cup {None}
          BY <3>1 DEF AstAfter
        <5>3. DirtyAfter(x) \in BOOLEAN
          BY DEF DirtyAfter
        <5>4. \A old \in BOOLEAN : (old \/ x = text[job[p].uri]) \in BOOLEAN
          OBVIOUS
        <5> HIDE DEF x
        <5> QED
          BY <3>1, <5>1, <5>2, <5>3, <5>4 DEF TypeOK
      <4> QED
        BY <4>1, <4>2
    <3> QED
      BY <3>1, <3>2 DEF TypeOK
  <2>7. ASSUME NEW p \in Parse, Report(p) PROVE TypeOK'
    BY <2>7 DEF Report, TypeOK
  <2>8. CASE UNCHANGED vars
    BY <2>8 DEF vars, TypeOK
  <2> QED
    BY <2>1, <2>2, <2>3, <2>4, <2>5, <2>6, <2>7, <2>8, BothEdit DEF Next
<1> QED
  BY <1>1, <1>2, PTL DEF Spec

\* No edit of an open document is left without a parse on its way.
THEOREM EditsReachTheIndex == Spec => []NoEditMissed
<1>1. Init => NoEditMissed
  BY DEF Init, NoEditMissed
<1>2. TypeOK /\ NoEditMissed /\ [Next]_vars => NoEditMissed'
  <2> SUFFICES ASSUME TypeOK, NoEditMissed, [Next]_vars,
                      NEW v \in Uri, Open(v)', ~seen[v]'
               PROVE  (\E q \in Parse : Carries(q, v))'
    BY DEF NoEditMissed
  <2>0. Open(v) /\ ~seen[v] => \E q \in Parse : Carries(q, v)
    BY DEF NoEditMissed
  <2>1. ASSUME NEW u \in Uri, NEW x \in Text, NEW p \in Parse, Edit(u, x, p)
        PROVE  (\E q \in Parse : Carries(q, v))'
    <3>1. CASE u = v
      BY <2>1, <3>1 DEF Edit, Spawn, TypeOK, Carries
    <3>2. CASE u # v
      <4>1. PICK q \in Parse : Carries(q, v)
        BY <2>0, <2>1, <3>2 DEF Edit, TypeOK, Carries
      <4>2. q # p
        BY <4>1, <2>1 DEF Edit, Spawn, Carries
      <4> QED
        BY <4>1, <4>2, <2>1, <3>2 DEF Edit, Spawn, TypeOK, Carries
    <3> QED
      BY <3>1, <3>2
  <2>2. ASSUME NEW u \in Uri, DidClose(u) PROVE (\E q \in Parse : Carries(q, v))'
    <3>1. u # v
      BY <2>2 DEF DidClose, TypeOK, Carries
    <3> QED
      BY <2>0, <2>2, <3>1 DEF DidClose, TypeOK, Carries
  <2>3. CASE Same
    BY <2>0, <2>3 DEF Same, Carries
  <2>4. ASSUME NEW p \in Parse, Snapshot(p) PROVE (\E q \in Parse : Carries(q, v))'
    <3>1. PICK q \in Parse : Carries(q, v)
      BY <2>0, <2>4 DEF Snapshot, Carries
    <3>2. CASE q = p
      BY <3>1, <3>2, <2>4 DEF Snapshot, TypeOK, Carries
    <3>3. CASE q # p
      BY <3>1, <3>3, <2>4 DEF Snapshot, TypeOK, Carries
    <3> QED
      BY <3>2, <3>3
  <2>5. ASSUME NEW p \in Parse, Publish(p) PROVE (\E q \in Parse : Carries(q, v))'
    <3>1. ~seen[v] /\ Open(v)
      BY <2>5 DEF Publish, TypeOK, Carries
    <3>2. PICK q \in Parse : Carries(q, v)
      BY <2>0, <3>1
    <3>3. q # p
      BY <3>1, <3>2, <2>5 DEF Publish, TypeOK, Carries
    <3> QED
      BY <3>2, <3>3, <2>5 DEF Publish, TypeOK, Carries
  <2>6. ASSUME NEW p \in Parse, Report(p) PROVE (\E q \in Parse : Carries(q, v))'
    <3>1. PICK q \in Parse : Carries(q, v)
      BY <2>0, <2>6 DEF Report, Carries
    <3>2. q # p
      BY <3>1, <2>6 DEF Report, Carries
    <3> QED
      BY <3>1, <3>2, <2>6 DEF Report, TypeOK, Carries
  <2>7. CASE UNCHANGED vars
    BY <2>3, <2>7, Stutter
  <2>8. ASSUME NEW u \in Uri, Format(u) \/ RemoveOverflow(u)
        PROVE  (\E q \in Parse : Carries(q, v))'
    BY <2>3, <2>8, RequestsOnlyRead
  <2>9. ASSUME NEW u \in Uri, NEW x \in Text, NEW p \in Parse,
               DidOpen(u, x, p) \/ DidChange(u, x, p)
        PROVE  (\E q \in Parse : Carries(q, v))'
    BY <2>1, <2>9, BothEdit
  <2> QED
    BY <2>2, <2>4, <2>5, <2>6, <2>7, <2>8, <2>9 DEF Next
<1> QED
  BY <1>1, <1>2, TypeCorrect, PTL DEF Spec

\* The AST and the index of a document that is not dirty come from one parse.
THEOREM OneParse == Spec => []CleanIsConsistent
<1>1. Init => CleanIsConsistent
  BY DEF Init, CleanIsConsistent
<1>2. TypeOK /\ CleanIsConsistent /\ [Next]_vars => CleanIsConsistent'
  <2> SUFFICES ASSUME TypeOK, CleanIsConsistent, [Next]_vars PROVE CleanIsConsistent'
    OBVIOUS
  <2>1. ASSUME NEW u \in Uri, NEW x \in Text, NEW p \in Parse, Edit(u, x, p)
        PROVE  CleanIsConsistent'
    BY <2>1 DEF Edit, TypeOK, CleanIsConsistent
  <2>2. ASSUME NEW u \in Uri, DidClose(u) PROVE CleanIsConsistent'
    BY <2>2 DEF DidClose, TypeOK, CleanIsConsistent
  <2>3. CASE Same
    BY <2>3 DEF Same, CleanIsConsistent
  <2>4. ASSUME NEW p \in Parse, Snapshot(p) \/ Report(p) PROVE CleanIsConsistent'
    BY <2>4 DEF Snapshot, Report, CleanIsConsistent
  <2>5. ASSUME NEW p \in Parse, Publish(p) PROVE CleanIsConsistent'
    <3> SUFFICES ASSUME NEW v \in Uri, Open(v)', ~dirty'[v]
                 PROVE  ast'[v] = index'[v] /\ ast'[v] # None
      BY DEF CleanIsConsistent
    <3>1. CASE v = job[p].uri
      BY <2>5, <3>1, PublishWrites
    <3>2. CASE v # job[p].uri
      BY <2>5, <3>2, PublishWrites DEF CleanIsConsistent
    <3> QED
      BY <3>1, <3>2
  <2> QED
    BY <2>1, <2>2, <2>3, <2>4, <2>5, BothEdit, RequestsOnlyRead, Stutter DEF Next
<1> QED
  BY <1>1, <1>2, TypeCorrect, PTL DEF Spec
==================================================================================
