----------------------------- MODULE LspDocuments -----------------------------
(***************************************************************************)
(* The language server's documents.  JSON-RPC messages are handled one at  *)
(* a time; didOpen and didChange store the new text at once and leave the  *)
(* parse to a goroutine of their own, which takes a snapshot of the text   *)
(* under the read lock, works without any lock, publishes its AST and      *)
(* index under the write lock and then sends diagnostics.  Nothing orders  *)
(* two such goroutines.                                                    *)
(*                                                                         *)
(* A text is a model value; an AST, an index and a set of diagnostics are  *)
(* named by the text they were computed from.                              *)
(***************************************************************************)
CONSTANTS Uri,    \* documents
          Text,   \* document texts
          Bad,    \* the texts that do not parse
          Parse,  \* goroutines: how many parses may be in flight
          None

ASSUME TextAssumption == Bad \subseteq Text /\ None \notin Text /\ None \notin Uri

VARIABLES
  text,   \* documents[u].Text, None when u is not in the map
  dirty,  \* documents[u].Dirty
  ast,    \* documents[u].AST
  index,  \* indices[u]
  job,    \* the goroutines
  shown,  \* the diagnostics the client was sent last for u
  edit,   \* the last whole-document edit sent to the client
  seen    \* history: the text of the last edit of u has been published

docs == <<text, dirty, ast>>
vars == <<docs, index, job, shown, edit, seen>>

Open(u) == text[u] # None
Idle == [phase |-> "idle", uri |-> None, text |-> None]
NoEdit == [by |-> "none", of |-> None, with |-> None]

Init ==
  /\ text = [u \in Uri |-> None]
  /\ dirty = [u \in Uri |-> FALSE]
  /\ ast = [u \in Uri |-> None]
  /\ index = [u \in Uri |-> None]
  /\ job = [p \in Parse |-> Idle]
  /\ shown = [u \in Uri |-> None]
  /\ edit = NoEdit
  /\ seen = [u \in Uri |-> TRUE]

-----------------------------------------------------------------------------
\* Mutant: an edit does not start a parse while one of the document is in flight.
Spawn_Coalesced(u, p) ==
  /\ job[p].phase = "idle"
  /\ job' = IF \E q \in Parse : job[q].uri = u
            THEN job
            ELSE [job EXCEPT ![p] = [phase |-> "started", uri |-> u, text |-> None]]

\* go func() { ParseDocument; publishDocumentDiagnostics }()
Spawn(u, p) ==
  /\ job[p].phase = "idle"
  /\ job' = [job EXCEPT ![p] = [phase |-> "started", uri |-> u, text |-> None]]

\* OpenDocument: a new document, or new text for the one that is open.
DidOpen(u, x, p) ==
  /\ text' = [text EXCEPT ![u] = x]
  /\ dirty' = [dirty EXCEPT ![u] = TRUE]
  /\ seen' = [seen EXCEPT ![u] = FALSE]
  /\ Spawn(u, p)
  /\ UNCHANGED <<ast, index, shown, edit>>

\* UpdateDocument: the sync kind is Full, a change carries the whole text.
DidChange(u, x, p) ==
  /\ Open(u)
  /\ text' = [text EXCEPT ![u] = x]
  /\ dirty' = [dirty EXCEPT ![u] = TRUE]
  /\ seen' = [seen EXCEPT ![u] = FALSE]
  /\ Spawn(u, p)
  /\ UNCHANGED <<ast, index, shown, edit>>

\* RemoveDocument, then empty diagnostics.
DidClose(u) ==
  /\ text' = [text EXCEPT ![u] = None]
  /\ dirty' = [dirty EXCEPT ![u] = FALSE]
  /\ ast' = [ast EXCEPT ![u] = None]
  /\ index' = [index EXCEPT ![u] = None]
  /\ shown' = [shown EXCEPT ![u] = None]
  /\ seen' = [seen EXCEPT ![u] = TRUE]
  /\ UNCHANGED <<job, edit>>

\* ParseDocument, first part: the snapshot, or ErrDocumentNotFound.
Snapshot(p) ==
  LET u == job[p].uri IN
  /\ job[p].phase = "started"
  /\ job' = [job EXCEPT ![p] =
       [phase |-> IF Open(u) THEN "parsed" ELSE "reporting", uri |-> u, text |-> text[u]]]
  /\ UNCHANGED <<docs, index, shown, edit, seen>>

\* Mutant: a parse leaves Dirty cleared even when it found errors.
DirtyAfter_Cleared(x) == FALSE

\* d.Dirty = len(errs) > 0
DirtyAfter(x) == x \in Bad

\* Mutant: the AST of a text with errors is kept too.
AstAfter_Partial(x, old) == x

\* if len(errs) == 0 { d.AST = ast }
AstAfter(x, old) == IF x \in Bad THEN old ELSE x

\* ParseDocument, last part: the document if it is still there, the index anyway.
Publish(p) ==
  LET u == job[p].uri
      x == job[p].text
  IN
  /\ job[p].phase = "parsed"
  /\ IF Open(u)
     THEN /\ ast' = [ast EXCEPT ![u] = AstAfter(x, @)]
          /\ dirty' = [dirty EXCEPT ![u] = DirtyAfter(x)]
          /\ seen' = [seen EXCEPT ![u] = @ \/ x = text[u]]
     ELSE UNCHANGED <<ast, dirty, seen>>
  /\ index' = [index EXCEPT ![u] = x]
  /\ job' = [job EXCEPT ![p] = [phase |-> "reporting", uri |-> u, text |-> x]]
  /\ UNCHANGED <<text, shown, edit>>

\* publishDocumentDiagnostics: of the parsed text, or none for a lost document.
Report(p) ==
  /\ job[p].phase = "reporting"
  /\ shown' = [shown EXCEPT ![job[p].uri] = job[p].text]
  /\ job' = [job EXCEPT ![p] = Idle]
  /\ UNCHANGED <<docs, index, edit, seen>>

-----------------------------------------------------------------------------
\* computeTextEdits: one edit that replaces the whole text, or none.
Reply(u, handler, rendered) ==
  /\ edit' = IF rendered = text[u] THEN NoEdit
             ELSE [by |-> handler, of |-> text[u], with |-> rendered]
  /\ UNCHANGED <<docs, index, job, shown, seen>>

\* formatting and willSaveWaitUntil: the text must parse, the AST is rendered.
Format(u) ==
  /\ Open(u)
  /\ Reply(u, "format",
           IF text[u] \in Bad THEN text[u] ELSE IF ast[u] # None THEN ast[u] ELSE text[u])

\* The code action that removes ineffective overflow annotations.
RemoveOverflow(u) ==
  /\ Open(u) /\ ast[u] # None
  /\ Reply(u, "quickfix", ast[u])

Next ==
  \/ \E u \in Uri, x \in Text, p \in Parse : DidOpen(u, x, p) \/ DidChange(u, x, p)
  \/ \E u \in Uri : DidClose(u) \/ Format(u) \/ RemoveOverflow(u)
  \/ \E p \in Parse : Snapshot(p) \/ Publish(p) \/ Report(p)

Spec == Init /\ [][Next]_vars

\* The Go scheduler runs every goroutine to its end.
FairSpec ==
  Spec /\ \A p \in Parse : WF_vars(Snapshot(p)) /\ WF_vars(Publish(p)) /\ WF_vars(Report(p))

-----------------------------------------------------------------------------
TypeOK ==
  /\ text \in [Uri -> Text \cup {None}]
  /\ dirty \in [Uri -> BOOLEAN]
  /\ ast \in [Uri -> (Text \ Bad) \cup {None}]
  /\ index \in [Uri -> Text \cup {None}]
  /\ job \in [Parse -> [phase : {"idle", "started", "parsed", "reporting"},
                        uri : Uri \cup {None}, text : Text \cup {None}]]
  /\ \A p \in Parse : job[p].phase # "idle" => job[p].uri \in Uri
  /\ \A p \in Parse : job[p].phase = "parsed" => job[p].text \in Text
  /\ shown \in [Uri -> Text \cup {None}]
  /\ edit \in [by : {"none", "format", "quickfix"},
               of : Text \cup {None}, with : Text \cup {None}]
  /\ seen \in [Uri -> BOOLEAN]

\* Parse p carries the last edit of u: it has its text or has yet to read it.
Carries(p, u) ==
  /\ job[p].uri = u
  /\ job[p].phase = "started" \/ (job[p].phase = "parsed" /\ job[p].text = text[u])

\* No edit is missed: until the text of the last edit of an open document has
\* been published, a parse carries it, although parses run in any order and
\* share nothing but the document.
NoEditMissed ==
  \A u \in Uri : Open(u) /\ ~seen[u] => \E p \in Parse : Carries(p, u)

\* The AST and the index of a document that is not dirty come from one parse,
\* also across errors, overlapping parses, a close and a reopen.
CleanIsConsistent ==
  \A u \in Uri : Open(u) /\ ~dirty[u] => ast[u] = index[u] /\ ast[u] # None

\* Every open document gets an index, so hover and completion start to work.
GetsIndexed == \A u \in Uri : Open(u) ~> (index[u] # None \/ ~Open(u))

\* server.go: formatting must not corrupt the user's source, that is, what it
\* writes over the document is a rendering of the document's own text.
FormatKeepsText == edit.by = "format" => edit.with = edit.of
==============================================================================
