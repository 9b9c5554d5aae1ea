------------------------ MODULE PackageResolver_proofs ------------------------
(***************************************************************************)
(* Whatever the releases depend on, wherever a build fails or dies and     *)
(* whatever other processes do to the cache:                               *)
(*   - the nodes and the lock are closed under their dependencies, which   *)
(*     are those of the release, or for a package that was misread none or *)
(*     those of a package of its archive;                                  *)
(*   - what is resolved is acyclic, from a lock but for what was misread,  *)
(*     and is what the project reaches if nothing was;                     *)
(*   - an error about a cycle or about the depth is about one that exists  *)
(*     in what was read.                                                   *)
(* What is reached is a least closed set, so a step of the recursion is    *)
(* compared with it by closure and leastness, and never along a path.      *)
(***************************************************************************)
EXTENDS PackageResolver, SequenceTheorems, TLAPS

\* A build from the lock finds what it visits at the top in the lock.
Served == phase = "resolve" /\ mode = "lock" => todo \subseteq DOMAIN lock

\* A package in progress: each of its dependencies has its node, is left to visit, or is
\* the package in progress above it.
Pending(i) ==
  /\ Credible(stack[i].pkg, stack[i].needs)
  /\ stack[i].needs \subseteq
       DOMAIN resolved \cup stack[i].left
         \cup IF i < Len(stack) THEN {stack[i + 1].pkg} ELSE {}

\* The inductive invariant.
TypeInv == TypeOK /\ Served
ClosedInv == GraphsClosed /\ \A i \in 1..Len(stack) : Pending(i)

-----------------------------------------------------------------------------
\* A visit removes the package from what is left of the innermost frame, and changes
\* nothing else in the stack.
LEMMA OnwardFrames ==
  ASSUME stack \in Seq(Frame), NEW c
  PROVE  /\ Onward(c) \in Seq(Frame) /\ Len(Onward(c)) = Len(stack)
         /\ \A i \in 1..Len(stack) :
              /\ Onward(c)[i].pkg = stack[i].pkg /\ Onward(c)[i].needs = stack[i].needs
              /\ Onward(c)[i].left = IF i = Len(stack) THEN stack[i].left \ {c}
                                     ELSE stack[i].left
<1>1. CASE stack = <<>>
  BY <1>1 DEF Onward
<1>2. CASE stack # <<>>
  <2>1. Len(stack) \in Nat \ {0}
    BY <1>2, EmptySeq
  <2> DEFINE n == Len(stack)
             f == [stack[n] EXCEPT !.left = @ \ {c}]
  <2>2. stack[n] \in Frame
    BY <2>1, ElementOfSeq
  <2>3. /\ f \in Frame /\ f.pkg = stack[n].pkg /\ f.needs = stack[n].needs
        /\ f.left = stack[n].left \ {c}
    BY <2>2 DEF Frame
  <2>4. Onward(c) = [stack EXCEPT ![n] = f]
    BY <1>2 DEF Onward
  <2>5. n \in 1..Len(stack)
    BY <2>1
  <2>6. /\ Onward(c) \in Seq(Frame) /\ Len(Onward(c)) = Len(stack)
        /\ \A i \in 1..Len(stack) : Onward(c)[i] = IF i = n THEN f ELSE stack[i]
    <3> HIDE DEF f
    <3> QED
      BY <2>3, <2>4, <2>5, ExceptSeq
  <2> QED
    BY <2>3, <2>6
<1> QED
  BY <1>1, <1>2

\* The innermost frame.
LEMMA TopFrame ==
  ASSUME stack \in Seq(Frame), stack # <<>>
  PROVE  Len(stack) \in Nat \ {0} /\ Top \in Frame
BY EmptySeq, ElementOfSeq DEF Top

\* What is visited is a package.
LEMMA VisitsPkg ==
  ASSUME TypeOK, NEW c, Visits(c)
  PROVE  c \in Pkg
BY TopFrame DEF TypeOK, Visits, Left, Frame

\* From the lock, the package visited is in it.
LEMMA LockHasIt ==
  ASSUME TypeInv, NEW c, Visits(c), FromLock
  PROVE  c \in DOMAIN lock
BY DEF TypeInv, Served, Visits, Left, FromLock

\* The dependencies of a package entered are packages.
LEMMA NeedsArePackages ==
  ASSUME TypeInv, NEW c, Enter(c)
  PROVE  NeedsOf(c) \in SUBSET Pkg
<1>1. Visits(c) /\ c \in Pkg
  BY VisitsPkg DEF Enter, Ready, Fetches, TypeInv
<1>2. CASE FromLock
  <2>1. c \in DOMAIN lock
    BY <1>1, <1>2, LockHasIt
  <2> QED
    BY <1>2, <2>1 DEF NeedsOf, TypeInv, TypeOK, IsGraph
<1>3. CASE ~FromLock
  <2>1. released \in [Pkg -> SUBSET Pkg]
    BY ReleaseAssumption DEF TypeInv, TypeOK
  <2>2. PkgRoot(c) \subseteq Pkg
    BY <1>1 DEF PkgRoot, Fellows
  <2> QED
    BY <1>3, <2>1, <2>2 DEF NeedsOf, ReadFrom
<1> QED
  BY <1>2, <1>3

\* The node of a package added to a graph of packages.
LEMMA NodeGraph ==
  ASSUME IsGraph(resolved), NEW p \in Pkg, NEW deps \in SUBSET Pkg
  PROVE  /\ IsGraph(Node(p, deps)) /\ DOMAIN Node(p, deps) = DOMAIN resolved \cup {p}
         /\ Node(p, deps)[p] = deps
         /\ \A q \in DOMAIN resolved : q # p => Node(p, deps)[q] = resolved[q]
BY DEF IsGraph, Node

\* The stack without its innermost frame.
LEMMA Popped ==
  ASSUME stack \in Seq(Frame), stack # <<>>
  PROVE  LET s == SubSeq(stack, 1, Len(stack) - 1) IN
         /\ s \in Seq(Frame) /\ Len(s) = Len(stack) - 1
         /\ \A i \in 1..Len(s) : s[i] = stack[i]
<1> DEFINE m == Len(stack) - 1
<1>1. m \in Nat /\ Len(stack) = m + 1
  BY TopFrame
<1>2. \A i \in 1..m : stack[i] \in Frame
  BY <1>1, ElementOfSeq
<1>3. /\ SubSeq(stack, 1, m) \in Seq(Frame)
      /\ Len(SubSeq(stack, 1, m)) = IF 1 <= m THEN m - 1 + 1 ELSE 0
      /\ \A i \in 1..m - 1 + 1 : SubSeq(stack, 1, m)[i] = stack[1 + i - 1]
  <2> HIDE DEF m
  <2> QED
    BY <1>1, <1>2, SubSeqProperties
<1> QED
  BY <1>1, <1>3

-----------------------------------------------------------------------------
\* The types, one conjunct for each part of the state.
LEMMA EmptyGraph == IsGraph(Nothing)
BY DEF IsGraph, Nothing

LEMMA NoFetchType == NoFetch \in Fetch
BY DEF NoFetch, Fetch

LEMMA FailTypes ==
  ASSUME TypeInv, cache' \in [Pkg -> Dir],
         NEW e \in {"circular", "depth", "download", "died"}, Fail(e)
  PROVE  TypeInv'
<1>1. resolved' = Nothing /\ IsGraph(resolved)'
  BY EmptyGraph DEF Fail, IsGraph
<1>2. stack' \in Seq(Frame) /\ Len(stack') = 0
  BY EmptySeq DEF Fail
<1>3. IsGraph(lock)' /\ Served'
  BY DEF Fail, TypeInv, TypeOK, IsGraph, Served
<1>4. Len(stack') <= MaxDepth /\ fetch' \in Fetch
  BY <1>2, NoFetchType, ReleaseAssumption DEF Fail
<1> QED
  BY <1>1, <1>2, <1>3, <1>4 DEF Fail, TypeInv, TypeOK

\* An extraction, whole or interrupted, leaves directories.
LEMMA ExtractTypes ==
  ASSUME TypeInv, NEW p, cache' = cache \/ Stopped(p)
  PROVE  cache' \in [Pkg -> Dir]
BY DEF TypeInv, TypeOK, Stopped

LEMMA InitTypes == Init => TypeInv
<1> SUFFICES ASSUME Init PROVE TypeInv
  OBVIOUS
<1>1. IsGraph(resolved) /\ IsGraph(lock)
  BY EmptyGraph DEF Init, NoGraph
<1>2. stack \in Seq(Frame) /\ Len(stack) = 0
  BY EmptySeq DEF Init, NoGraph
<1>3. cache \in [Pkg -> Dir] /\ Len(stack) <= MaxDepth /\ Served
  BY <1>2, ReleaseAssumption DEF Init, Served, Dir
<1>4. /\ released \in Releases /\ wanted \subseteq Pkg
      /\ other \subseteq Pkg /\ fetch \in Fetch /\ builds \in Nat
      /\ phase \in {"idle", "resolve"} /\ mode \in {"scratch", "lock"}
      /\ outcome \in {"none", "ok", "circular", "depth", "download", "died"}
  BY NoFetchType DEF Init, NoGraph
<1>5. todo \subseteq Pkg /\ seen \subseteq Pkg /\ roots \subseteq Pkg /\ misread \subseteq Pkg
  BY DEF Init, NoGraph
<1> QED
  BY <1>1, <1>2, <1>3, <1>4, <1>5 DEF TypeInv, TypeOK

\* A build starts from the lock only if the lock has what the project depends on.
LEMMA BeginTypes ==
  ASSUME TypeInv, NEW w \in SUBSET Pkg, NEW m \in BOOLEAN, Begin(w, m)
  PROVE  TypeInv'
<1>1. IsGraph(resolved)' /\ IsGraph(lock)'
  BY EmptyGraph DEF Begin, TypeInv, TypeOK, IsGraph
<1>2. stack' \in Seq(Frame) /\ Len(stack') = 0
  BY EmptySeq DEF Begin
<1>3. Served'
  BY DEF Begin, Served, LockServes
<1> QED
  BY <1>1, <1>2, <1>3, ReleaseAssumption DEF Begin, TypeInv, TypeOK

LEMMA KnownTypes ==
  ASSUME TypeInv, NEW c, Known(c)
  PROVE  TypeInv'
<1>1. c \in Pkg /\ stack \in Seq(Frame)
  BY VisitsPkg DEF Known, TypeInv, TypeOK
<1>2. stack' \in Seq(Frame) /\ Len(stack') = Len(stack)
  BY <1>1, OnwardFrames DEF Known
<1>3. Served' /\ todo' \subseteq todo
  BY DEF Known, Rest, TypeInv, Served
<1>4. IsGraph(resolved)' /\ IsGraph(lock)'
  BY DEF Known, TypeInv, TypeOK, IsGraph
<1>5. released' \in Releases /\ wanted' \subseteq Pkg /\ other' \subseteq Pkg /\ fetch' \in Fetch
      /\ cache' \in [Pkg -> Dir]
      /\ phase' \in {"idle", "resolve"} /\ mode' \in {"scratch", "lock"}
      /\ outcome' \in {"none", "ok", "circular", "depth", "download", "died"}
  BY DEF Known, TypeInv, TypeOK
<1>6. todo' \subseteq Pkg /\ Len(stack') <= MaxDepth /\ roots' \subseteq Pkg
  BY <1>1, <1>2, <1>3 DEF Known, TypeInv, TypeOK
<1>7. seen' \subseteq Pkg /\ misread' \subseteq Pkg /\ builds' \in Nat
  BY DEF Known, TypeInv, TypeOK
<1> QED
  BY <1>2, <1>3, <1>4, <1>5, <1>6, <1>7 DEF TypeInv, TypeOK

\* A package is entered within the limit, so the recursion stays within it.
LEMMA EnterTypes ==
  ASSUME TypeInv, NEW c, Enter(c)
  PROVE  TypeInv'
<1>1. c \in Pkg /\ stack \in Seq(Frame) /\ Len(stack) \in Nat
  BY VisitsPkg DEF Enter, Ready, Fetches, TypeInv, TypeOK
<1>2. Onward(c) \in Seq(Frame) /\ Len(Onward(c)) = Len(stack)
  BY <1>1, OnwardFrames
<1>3. [pkg |-> c, needs |-> NeedsOf(c), left |-> NeedsOf(c)] \in Frame
  BY <1>1, NeedsArePackages DEF Frame
<1>4. stack' \in Seq(Frame) /\ Len(stack') = Len(stack) + 1
  BY <1>2, <1>3, AppendProperties DEF Enter
<1>5. Len(stack') <= MaxDepth
  BY <1>1, <1>4, ReleaseAssumption DEF Enter, TooDeep
<1>6. Served' /\ todo' \subseteq Pkg
  BY DEF Enter, Rest, TypeInv, Served, TypeOK
<1>7. IsGraph(resolved)' /\ IsGraph(lock)'
  BY DEF Enter, TypeInv, TypeOK, IsGraph
<1>8. cache' \in [Pkg -> Dir] /\ fetch' \in Fetch
  BY NoFetchType DEF Enter, TypeInv, TypeOK
<1>9. seen' \subseteq Pkg /\ misread' \subseteq Pkg
  BY <1>1 DEF Enter, TypeInv, TypeOK
<1>10. /\ released' \in Releases /\ wanted' \subseteq Pkg
       /\ other' \subseteq Pkg
       /\ phase' \in {"idle", "resolve"} /\ mode' \in {"scratch", "lock"}
       /\ outcome' \in {"none", "ok", "circular", "depth", "download", "died"}
       /\ roots' \subseteq Pkg /\ builds' \in Nat
  BY DEF Enter, TypeInv, TypeOK
<1> QED
  BY <1>4, <1>5, <1>6, <1>7, <1>8, <1>9, <1>10 DEF TypeInv, TypeOK

LEMMA LeaveTypes ==
  ASSUME TypeInv, Leave
  PROVE  TypeInv'
<1>1. stack \in Seq(Frame) /\ stack # <<>>
  BY DEF Leave, TypeInv, TypeOK
<1>2. Top \in Frame /\ Len(stack) \in Nat
  BY <1>1, TopFrame
<1>3. stack' \in Seq(Frame) /\ Len(stack') = Len(stack) - 1
  BY <1>1, Popped DEF Leave
<1>4. Top.pkg \in Pkg /\ Top.needs \in SUBSET Pkg
  BY <1>2 DEF Frame
<1>5. IsGraph(resolved)'
  BY <1>4, NodeGraph DEF Leave, TypeInv, TypeOK, IsGraph
<1>6. Served' /\ IsGraph(lock)'
  BY DEF Leave, TypeInv, TypeOK, Served, IsGraph
<1>7. seen' \subseteq Pkg /\ roots' \subseteq Pkg /\ todo' \subseteq Pkg
  BY <1>4 DEF Leave, TypeInv, TypeOK
<1>8. Len(stack') <= MaxDepth
  BY <1>2, <1>3, ReleaseAssumption DEF TypeInv, TypeOK
<1> QED
  BY <1>3, <1>5, <1>6, <1>7, <1>8 DEF Leave, TypeInv, TypeOK

LEMMA FinishTypes ==
  ASSUME TypeInv, Finish
  PROVE  TypeInv'
<1>1. lock' \in {lock, resolved, Nothing}
  BY DEF Finish
<1>2. IsGraph(lock)'
  BY <1>1, EmptyGraph DEF TypeInv, TypeOK, IsGraph
<1>3. IsGraph(resolved)' /\ Served'
  BY DEF Finish, graph, TypeInv, TypeOK, IsGraph, Served
<1> QED
  BY <1>2, <1>3 DEF Finish, graph, TypeInv, TypeOK

\* What changes the cache, who extracts into it, or the download only.
LEMMA CacheTypes ==
  ASSUME TypeInv, UNCHANGED <<released, wanted, lock, phase, mode, outcome, todo, stack, seen,
                              resolved, roots, misread, builds>>,
         cache' \in [Pkg -> Dir], other' \subseteq Pkg, fetch' \in Fetch
  PROVE  TypeInv'
BY DEF TypeInv, TypeOK, IsGraph, Served

LEMMA MissesTypes ==
  ASSUME TypeInv, NEW c, Misses(c)
  PROVE  TypeInv'
<1>1. fetch' \in Fetch
  BY VisitsPkg DEF Misses, Fetches, TypeInv, Fetch
<1> QED
  BY <1>1, CacheTypes DEF Misses, TypeInv, TypeOK

LEMMA FetchTypes ==
  ASSUME TypeInv, Extract
  PROVE  TypeInv'
<1>1. fetch' \in Fetch
  BY DEF Extract, TypeInv, TypeOK, Fetch
<1>2. cache' \in [Pkg -> Dir]
  BY DEF Extract, Final, Dir, TypeInv, TypeOK
<1> QED
  BY <1>1, <1>2, CacheTypes DEF Extract, TypeInv, TypeOK

LEMMA OtherTypes ==
  ASSUME TypeInv, NEW p \in Pkg, OtherMisses(p) \/ OtherExtracts(p)
  PROVE  TypeInv'
<1>1. cache' \in [Pkg -> Dir]
  BY DEF OtherMisses, OtherExtracts, Dir, TypeInv, TypeOK
<1>2. other' \subseteq Pkg
  BY DEF OtherMisses, OtherExtracts, Fellows, TypeInv, TypeOK
<1>3. UNCHANGED <<released, wanted, lock, phase, mode, outcome, graph, misread, builds>>
  BY DEF OtherMisses, OtherExtracts
<1> QED
  BY <1>1, <1>2, <1>3, CacheTypes DEF graph, TypeInv, TypeOK

LEMMA StepTypes == TypeInv /\ [Next]_vars => TypeInv'
<1> SUFFICES ASSUME TypeInv, [Next]_vars PROVE TypeInv'
  OBVIOUS
<1>1. ASSUME NEW w \in SUBSET Pkg, NEW m \in BOOLEAN, Begin(w, m) PROVE TypeInv'
  BY <1>1, BeginTypes
<1>2. ASSUME NEW c \in Pkg, Known(c) PROVE TypeInv'
  BY <1>2, KnownTypes
<1>3. ASSUME NEW c \in Pkg, Circular(c) \/ Beyond(c) PROVE TypeInv'
  BY <1>3, FailTypes DEF Circular, Beyond, TypeInv, TypeOK
<1>4. CASE Offline
  BY <1>4, ExtractTypes, FailTypes DEF Offline
<1>5. ASSUME NEW c \in Pkg, Misses(c) PROVE TypeInv'
  BY <1>5, MissesTypes
<1>6. ASSUME NEW c \in Pkg, Enter(c) PROVE TypeInv'
  BY <1>6, EnterTypes
<1>7. CASE Extract
  BY <1>7, FetchTypes
<1>8. CASE Leave
  BY <1>8, LeaveTypes
<1>9. CASE Finish
  BY <1>9, FinishTypes
<1>10. CASE Die
  BY <1>10, ExtractTypes, FailTypes DEF Die
<1>11. ASSUME NEW p \in Pkg, OtherMisses(p) \/ OtherExtracts(p) PROVE TypeInv'
  BY <1>11, OtherTypes
<1>12. CASE UNCHANGED vars
  BY <1>12, CacheTypes DEF vars, graph, TypeInv, TypeOK
<1> QED
  BY <1>1, <1>2, <1>3, <1>4, <1>5, <1>6, <1>7, <1>8, <1>9, <1>10, <1>11, <1>12
     DEF Next, Resolve

\* The state keeps its type: the recursion is never deeper than the limit, and what a
\* build from the lock looks up is in the lock.
THEOREM TypeCorrect == Spec => []TypeOK
<1>1. Spec => []TypeInv
  BY InitTypes, StepTypes, PTL DEF Spec
<1>2. TypeInv => TypeOK
  BY DEF TypeInv
<1> QED
  BY <1>1, <1>2, PTL

-----------------------------------------------------------------------------
\* The closure, action by action.
LEMMA FailClosed ==
  ASSUME ClosedInv, NEW e, Fail(e)
  PROVE  ClosedInv'
<1>1. GraphsClosed'
  BY DEF ClosedInv, GraphsClosed, Closed, Credible, Fellows, Fail, Nothing
<1>2. Len(stack') = 0
  BY EmptySeq DEF Fail
<1> QED
  BY <1>1, <1>2 DEF ClosedInv

LEMMA InitClosed == Init => ClosedInv
<1> SUFFICES ASSUME Init PROVE ClosedInv
  OBVIOUS
<1>1. GraphsClosed
  BY DEF Init, NoGraph, GraphsClosed, Closed, Nothing
<1>2. Len(stack) = 0
  BY EmptySeq DEF Init, NoGraph
<1> QED
  BY <1>1, <1>2 DEF ClosedInv

LEMMA BeginClosed ==
  ASSUME ClosedInv, NEW w, NEW m, Begin(w, m)
  PROVE  ClosedInv'
<1>1. GraphsClosed'
  BY DEF ClosedInv, GraphsClosed, Closed, Credible, Fellows, Begin, Nothing
<1>2. Len(stack') = 0
  BY EmptySeq DEF Begin
<1> QED
  BY <1>1, <1>2 DEF ClosedInv

\* The package passed over has its node: nothing pending loses what it waits for.
LEMMA KnownClosed ==
  ASSUME TypeInv, ClosedInv, NEW c, Known(c)
  PROVE  ClosedInv'
<1>1. stack \in Seq(Frame) /\ Len(stack) \in Nat
  BY DEF TypeInv, TypeOK
<1>2. GraphsClosed'
  BY DEF ClosedInv, GraphsClosed, Closed, Credible, Fellows, Known
<1>3. ASSUME NEW i \in 1..Len(stack) PROVE Pending(i)'
  <2>1. Pending(i) /\ c \in DOMAIN resolved /\ stack' = Onward(c)
    BY DEF ClosedInv, Known, IsKnown
  <2>2. /\ stack'[i].pkg = stack[i].pkg /\ stack'[i].needs = stack[i].needs
        /\ stack[i].left \subseteq stack'[i].left \cup {c} /\ Len(stack') = Len(stack)
        /\ i < Len(stack) => stack'[i + 1].pkg = stack[i + 1].pkg
    <3>1. /\ Len(stack') = Len(stack)
          /\ \A j \in 1..Len(stack) :
               /\ stack'[j].pkg = stack[j].pkg /\ stack'[j].needs = stack[j].needs
               /\ stack'[j].left = IF j = Len(stack) THEN stack[j].left \ {c}
                                   ELSE stack[j].left
      BY <1>1, <2>1, OnwardFrames
    <3>2. i < Len(stack) => i + 1 \in 1..Len(stack)
      BY <1>1
    <3>3. stack[i].left \subseteq stack'[i].left \cup {c}
      BY <3>1
    <3> QED
      BY <3>1, <3>2, <3>3
  <2>3. Credible(stack[i].pkg, stack[i].needs)'
    BY <2>1, <2>2 DEF Pending, Credible, Fellows, Known
  <2>4. resolved' = resolved
    BY DEF Known
  <2>5. CASE i < Len(stack)
    BY <2>1, <2>2, <2>3, <2>4, <2>5 DEF Pending, Credible, Fellows
  <2>6. CASE ~(i < Len(stack))
    BY <2>1, <2>2, <2>3, <2>4, <2>6 DEF Pending, Credible, Fellows
  <2> QED
    BY <2>5, <2>6
<1>4. Len(stack') = Len(stack)
  BY <1>1, OnwardFrames DEF Known
<1> QED
  BY <1>2, <1>3, <1>4 DEF ClosedInv

\* The directory that is read is one of the archive, and the only one.
LEMMA OneRoot ==
  ASSUME TypeInv, NEW c \in Pkg, NEW q \in PkgRoot(c), NEW r \in PkgRoot(c)
  PROVE  q \in Pkg /\ q \in Fellows(c) /\ q = r
<1>1. CASE HasManifest(c)
  BY <1>1 DEF PkgRoot, Fellows
<1>2. CASE ~HasManifest(c)
  <2>1. q \in Fellows(c) /\ r \in Fellows(c) /\ q \in Pkg /\ r \in Pkg
    BY <1>2 DEF PkgRoot, Fellows
  <2>2. ByName[q] <= ByName[r] /\ ByName[r] <= ByName[q]
    BY <1>2, <2>1 DEF PkgRoot
  <2>3. ByName[q] \in Nat /\ ByName[r] \in Nat
    BY <2>1, ReleaseAssumption
  <2>4. ByName[q] = ByName[r]
    BY <2>2, <2>3
  <2> QED
    BY <2>1, <2>4, ReleaseAssumption
<1> QED
  BY <1>1, <1>2

\* What is read is nothing, or what one package of the archive depends on.
LEMMA ReadOne ==
  ASSUME TypeInv, NEW c \in Pkg
  PROVE  ReadFrom(c) = {} \/ \E q \in Fellows(c) : ReadFrom(c) = released[q]
<1> DEFINE W == {r \in PkgRoot(c) : cache[r] = "whole"}
<1>1. CASE W = {}
  BY <1>1 DEF ReadFrom
<1>2. CASE W # {}
  <2>1. PICK q \in PkgRoot(c) : cache[q] = "whole"
    BY <1>2
  <2>2. q \in Fellows(c) /\ W = {q}
    BY <2>1, OneRoot
  <2>3. ReadFrom(c) = UNION {released[r] : r \in W}
    BY DEF ReadFrom
  <2> HIDE DEF W
  <2>4. ReadFrom(c) = released[q]
    BY <2>2, <2>3
  <2> QED
    BY <2>2, <2>4
<1> QED
  BY <1>1, <1>2

\* A package that has its own package.noml, or is plain and finds none, is read right.
LEMMA OwnIsRight ==
  ASSUME TypeInv, NEW c \in Pkg, ItsOwn(c)
  PROVE  ReadFrom(c) = released[c]
<1>1. CASE c \in plain
  <2>1. released[c] = {}
    BY <1>1, ReleaseAssumption DEF plain, TypeInv, TypeOK
  <2>2. PkgRoot(c) = {}
    BY <1>1 DEF ItsOwn
  <2> QED
    BY <2>1, <2>2 DEF ReadFrom
<1>2. CASE c \notin plain
  <2>1. cache[c] = "whole" /\ PkgRoot(c) = {c}
    BY <1>2 DEF ItsOwn, PkgRoot, HasManifest
  <2>2. {r \in PkgRoot(c) : cache[r] = "whole"} = {c}
    BY <2>1
  <2> QED
    BY <2>2 DEF ReadFrom
<1> QED
  BY <1>1, <1>2

\* What a package entered depends on is credible.
LEMMA NeedsCredible ==
  ASSUME TypeInv, ClosedInv, NEW c, Enter(c)
  PROVE  \/ NeedsOf(c) = released[c]
         \/ c \in misread' /\ NeedsOf(c) \in {{}} \cup {released[q] : q \in Fellows(c)}
<1>1. c \in Pkg /\ Visits(c) /\ misread \subseteq misread'
  BY VisitsPkg DEF Enter, Ready, Fetches, TypeInv
<1>2. CASE FromLock
  <2>1. c \in DOMAIN lock
    BY <1>1, <1>2, LockHasIt
  <2>2. Credible(c, lock[c])
    BY <2>1 DEF ClosedInv, GraphsClosed, Closed
  <2> QED
    BY <1>1, <1>2, <2>2 DEF NeedsOf, Credible
<1>3. CASE ~FromLock /\ ItsOwn(c)
  BY <1>1, <1>3, OwnIsRight DEF NeedsOf
<1>4. CASE ~FromLock /\ ~ItsOwn(c)
  BY <1>1, <1>4, ReadOne DEF NeedsOf, Enter
<1> QED
  BY <1>2, <1>3, <1>4

LEMMA EnterClosed ==
  ASSUME TypeInv, ClosedInv, NEW c, Enter(c)
  PROVE  ClosedInv'
<1> DEFINE n == Len(stack)
           f == [pkg |-> c, needs |-> NeedsOf(c), left |-> NeedsOf(c)]
<1>1. c \in Pkg /\ stack \in Seq(Frame) /\ n \in Nat
  BY VisitsPkg DEF Enter, Ready, Fetches, TypeInv, TypeOK
<1>2. /\ Onward(c) \in Seq(Frame) /\ Len(Onward(c)) = n
      /\ \A i \in 1..n : /\ Onward(c)[i].pkg = stack[i].pkg
                         /\ Onward(c)[i].needs = stack[i].needs
                         /\ Onward(c)[i].left = IF i = n THEN stack[i].left \ {c}
                                                ELSE stack[i].left
  BY <1>1, OnwardFrames
<1>3. f \in Frame /\ stack' = Append(Onward(c), f)
  BY <1>1, NeedsArePackages DEF Frame, Enter
<1>4. /\ Len(stack') = n + 1 /\ stack'[n + 1] = f
      /\ \A i \in 1..n : stack'[i] = Onward(c)[i]
  <2> HIDE DEF f
  <2> QED
    BY <1>1, <1>2, <1>3, AppendProperties
<1>5. /\ released' = released /\ misread \subseteq misread' /\ resolved' = resolved
      /\ lock' = lock
  BY DEF Enter
<1>6. GraphsClosed'
  BY <1>5 DEF ClosedInv, GraphsClosed, Closed, Credible, Fellows
<1>7. ASSUME NEW i \in {n + 1} PROVE Pending(i)'
  <2>1. ~(i < Len(stack'))
    BY <1>1, <1>4
  <2>2. stack'[i].pkg = c /\ stack'[i].needs = NeedsOf(c) /\ stack'[i].left = NeedsOf(c)
    BY <1>4
  <2>3. \/ NeedsOf(c) = released'[c]
        \/ c \in misread' /\ NeedsOf(c) \in {{}} \cup {released[q] : q \in Fellows(c)}
    BY <1>5, NeedsCredible
  <2> QED
    BY <1>5, <2>1, <2>2, <2>3 DEF Pending, Credible, Fellows
<1>8. ASSUME NEW i \in 1..n PROVE Pending(i)'
  <2>1. Pending(i)
    BY DEF ClosedInv
  <2>2. stack'[i].pkg = stack[i].pkg /\ stack'[i].needs = stack[i].needs
    BY <1>2, <1>4
  <2>3. Credible(stack[i].pkg, stack[i].needs)'
    BY <1>5, <2>1, <2>2 DEF Pending, Credible, Fellows
  <2>4. CASE i < n
    <3>1. stack'[i].left = stack[i].left /\ stack'[i + 1].pkg = stack[i + 1].pkg
      <4>1. i + 1 \in 1..n /\ i # n
        BY <1>1, <2>4
      <4>2. stack'[i] = Onward(c)[i] /\ stack'[i + 1] = Onward(c)[i + 1]
        BY <1>4, <4>1
      <4> QED
        BY <1>2, <4>1, <4>2
    <3> QED
      BY <1>1, <1>4, <1>5, <2>1, <2>2, <2>3, <2>4, <3>1 DEF Pending, Credible, Fellows
  <2>5. CASE i = n
    <3>1. stack[i].left \subseteq stack'[i].left \cup {stack'[i + 1].pkg}
      <4>1. stack'[i + 1].pkg = c
        BY <1>4, <2>5
      <4>2. stack'[i] = Onward(c)[i] /\ Onward(c)[i].left = stack[i].left \ {c}
        BY <1>2, <1>4, <2>5
      <4> QED
        BY <4>1, <4>2
    <3> QED
      BY <1>1, <1>4, <1>5, <2>1, <2>2, <2>3, <2>5, <3>1 DEF Pending, Credible, Fellows
  <2> QED
    BY <1>1, <2>4, <2>5
<1>9. \A i \in 1..Len(stack') : i \in {n + 1} \/ i \in 1..n
  BY <1>1, <1>4
<1> QED
  BY <1>6, <1>7, <1>8, <1>9 DEF ClosedInv

\* A package that is done has all its dependencies' nodes; the one below waits for it no
\* longer.
LEMMA LeaveClosed ==
  ASSUME TypeInv, ClosedInv, Leave
  PROVE  ClosedInv'
<1> DEFINE n == Len(stack)
<1>1. stack \in Seq(Frame) /\ stack # <<>>
  BY DEF Leave, TypeInv, TypeOK
<1>2. Top \in Frame /\ n \in Nat \ {0} /\ Top = stack[n] /\ Top.left = {}
  BY <1>1, TopFrame DEF Top, Leave
<1>3. Len(stack') = n - 1 /\ \A i \in 1..n - 1 : stack'[i] = stack[i]
  BY <1>1, Popped DEF Leave
<1>4. Pending(n)
  BY <1>2 DEF ClosedInv
<1>5. Top.needs \subseteq DOMAIN resolved /\ Credible(Top.pkg, Top.needs)
  BY <1>2, <1>4 DEF Pending
<1>6. /\ DOMAIN resolved' = DOMAIN resolved \cup {Top.pkg}
      /\ resolved'[Top.pkg] = Top.needs
      /\ \A q \in DOMAIN resolved : q # Top.pkg => resolved'[q] = resolved[q]
  <2>1. Top.pkg \in Pkg /\ Top.needs \in SUBSET Pkg
    BY <1>2 DEF Frame
  <2>2. IsGraph(resolved) /\ resolved' = Node(Top.pkg, Top.needs)
    BY DEF Leave, TypeInv, TypeOK
  <2> QED
    BY <2>1, <2>2, NodeGraph
<1>7. released' = released /\ misread' = misread /\ lock' = lock
  BY DEF Leave
<1>8. GraphsClosed'
  <2>1. \A q \in DOMAIN resolved' : /\ resolved'[q] \subseteq DOMAIN resolved'
                                    /\ Credible(q, resolved'[q])
    BY <1>5, <1>6 DEF ClosedInv, GraphsClosed, Closed
  <2> QED
    BY <1>7, <2>1 DEF ClosedInv, GraphsClosed, Closed, Credible, Fellows
<1>9. ASSUME NEW i \in 1..n - 1 PROVE Pending(i)'
  <2>1. Pending(i) /\ stack'[i] = stack[i] /\ i < n
    BY <1>2, <1>3 DEF ClosedInv
  <2>2. Credible(stack[i].pkg, stack[i].needs)'
    BY <1>7, <2>1 DEF Pending, Credible, Fellows
  <2>3. CASE i < n - 1
    <3>1. stack'[i + 1] = stack[i + 1]
      BY <1>2, <1>3, <2>3
    <3> QED
      BY <1>3, <1>6, <1>7, <2>1, <2>2, <2>3, <3>1 DEF Pending, Credible, Fellows
  <2>4. CASE i = n - 1
    <3>1. stack[i + 1].pkg = Top.pkg
      BY <1>2, <2>4
    <3> QED
      BY <1>2, <1>3, <1>6, <1>7, <2>1, <2>2, <2>4, <3>1 DEF Pending, Credible, Fellows
  <2> QED
    BY <1>2, <2>3, <2>4
<1> QED
  BY <1>3, <1>8, <1>9 DEF ClosedInv

LEMMA FinishClosed ==
  ASSUME ClosedInv, Finish
  PROVE  ClosedInv'
<1>1. /\ lock' \in {lock, resolved, Nothing} /\ resolved' = resolved /\ stack' = stack
      /\ released' = released /\ misread' = misread
  BY DEF Finish, graph
<1>2. GraphsClosed'
  BY <1>1 DEF ClosedInv, GraphsClosed, Closed, Credible, Fellows, Nothing
<1> QED
  BY <1>1, <1>2 DEF ClosedInv, Pending, Credible, Fellows

\* What leaves the builds and the lock alone.
LEMMA OthersClosed ==
  ASSUME ClosedInv, UNCHANGED <<released, lock, stack, resolved, misread>>
  PROVE  ClosedInv'
BY DEF ClosedInv, GraphsClosed, Closed, Pending, Credible, Fellows

LEMMA StepClosed == TypeInv /\ ClosedInv /\ [Next]_vars => ClosedInv'
<1> SUFFICES ASSUME TypeInv, ClosedInv, [Next]_vars PROVE ClosedInv'
  OBVIOUS
<1>1. ASSUME NEW w \in SUBSET Pkg, NEW m \in BOOLEAN, Begin(w, m) PROVE ClosedInv'
  BY <1>1, BeginClosed
<1>2. ASSUME NEW c \in Pkg, Known(c) PROVE ClosedInv'
  BY <1>2, KnownClosed
<1>3. ASSUME NEW c \in Pkg, Circular(c) \/ Beyond(c) PROVE ClosedInv'
  BY <1>3, FailClosed DEF Circular, Beyond
<1>4. ASSUME NEW c \in Pkg, Misses(c) PROVE ClosedInv'
  BY <1>4, OthersClosed DEF Misses
<1>5. ASSUME NEW c \in Pkg, Enter(c) PROVE ClosedInv'
  BY <1>5, EnterClosed
<1>6. CASE Extract
  BY <1>6, OthersClosed DEF Extract
<1>7. CASE Offline \/ Die
  BY <1>7, FailClosed DEF Offline, Die
<1>8. CASE Leave
  BY <1>8, LeaveClosed
<1>9. CASE Finish
  BY <1>9, FinishClosed
<1>10. ASSUME NEW p \in Pkg, OtherMisses(p) \/ OtherExtracts(p) PROVE ClosedInv'
  BY <1>10, OthersClosed DEF OtherMisses, OtherExtracts, graph
<1>11. CASE UNCHANGED vars
  BY <1>11, OthersClosed DEF vars, graph
<1> QED
  BY <1>1, <1>2, <1>3, <1>4, <1>5, <1>6, <1>7, <1>8, <1>9, <1>10, <1>11 DEF Next, Resolve

\* Whatever the order of the visits, the limit, the failures and the other processes, a
\* node's dependencies have nodes, in the table and in the lock, and are those of its
\* release, or were misread and are none or those of a package of its archive.
THEOREM DependenciesResolved == Spec => []GraphsClosed
<1>1. Spec => [](TypeInv /\ ClosedInv)
  BY InitTypes, StepTypes, InitClosed, StepClosed, PTL DEF Spec
<1>2. ClosedInv => GraphsClosed
  BY DEF ClosedInv
<1> QED
  BY <1>1, <1>2, PTL

-----------------------------------------------------------------------------
\* What a set of packages reaches contains what its members depend on, and so does what
\* is reached.
LEMMA AboveClosed ==
  ASSUME NEW g, \A q \in DOMAIN g : g[q] \subseteq Pkg, NEW S
  PROVE  Step(g, S \cup Above(g, S)) \subseteq Above(g, S)
<1> SUFFICES ASSUME NEW q \in DOMAIN g, q \in S \cup Above(g, S), NEW y \in g[q],
                    NEW C \in SUBSET Pkg, Step(g, S \cup C) \subseteq C
             PROVE  y \in C
  BY DEF Step, Above
<1>1. q \in S \cup C
  BY DEF Above
<1> QED
  BY <1>1 DEF Step

\* ... and nothing else.
LEMMA AboveLeast ==
  ASSUME NEW g, NEW S, NEW C \in SUBSET Pkg, Step(g, S \cup C) \subseteq C
  PROVE  Above(g, S) \subseteq C
BY DEF Above

LEMMA AbovePackages ==
  ASSUME NEW g, NEW S
  PROVE  Above(g, S) \subseteq Pkg
BY DEF Above

\* A graph with more packages, or more dependencies, reaches more.
LEMMA AboveMonotone ==
  ASSUME NEW g, NEW h, NEW S, \A q \in DOMAIN h : h[q] \subseteq Pkg,
         \A q \in DOMAIN g : q \in DOMAIN h /\ g[q] \subseteq h[q]
  PROVE  Above(g, S) \subseteq Above(h, S)
<1> DEFINE C == Above(h, S)
<1>1. Step(h, S \cup C) \subseteq C /\ C \in SUBSET Pkg
  BY AboveClosed, AbovePackages
<1> HIDE DEF C
<1>2. Step(g, S \cup C) \subseteq Step(h, S \cup C)
  BY DEF Step
<1>3. Above(g, S) \subseteq C
  BY <1>1, <1>2, AboveLeast
<1> QED
  BY <1>3 DEF C

\* A node that no other depends on, nor itself, put on top of an acyclic graph.
LEMMA NodeAcyclic ==
  ASSUME NEW g, NEW h, NEW p \in Pkg,
         \A q \in DOMAIN g : g[q] \subseteq Pkg /\ p \notin g[q],
         \A q \in Pkg : q \notin Above(g, {q}),
         DOMAIN h = DOMAIN g \cup {p}, h[p] \subseteq Pkg, p \notin h[p],
         \A q \in DOMAIN g : h[q] = g[q]
  PROVE  \A q \in Pkg : q \notin Above(h, {q})
<1> SUFFICES ASSUME NEW q \in Pkg PROVE q \notin Above(h, {q})
  OBVIOUS
<1>1. CASE q # p
  <2> DEFINE C == Above(g, {q})
  <2>1. Step(g, {q} \cup C) \subseteq C /\ C \in SUBSET Pkg
    BY AboveClosed, AbovePackages
  <2>2. q \notin C
    OBVIOUS
  <2> HIDE DEF C
  <2> DEFINE D == C \ {p}
  <2>3. Step(g, {q} \cup D) \subseteq D
    BY <2>1 DEF Step
  <2>4. Step(h, {q} \cup D) \subseteq D
    BY <1>1, <2>3 DEF Step
  <2>5. D \in SUBSET Pkg /\ q \notin D
    BY <2>1, <2>2
  <2> HIDE DEF D
  <2>6. Above(h, {q}) \subseteq D
    BY <2>4, <2>5, AboveLeast
  <2> QED
    BY <2>5, <2>6
<1>2. CASE q = p
  <2> DEFINE D == Pkg \ {p}
  <2>1. Step(h, {p} \cup D) \subseteq D
    BY DEF Step
  <2>2. D \in SUBSET Pkg /\ p \notin D
    OBVIOUS
  <2> HIDE DEF D
  <2>3. Above(h, {p}) \subseteq D
    BY <2>1, <2>2, AboveLeast
  <2> QED
    BY <1>2, <2>2, <2>3
<1> QED
  BY <1>1, <1>2

-----------------------------------------------------------------------------
InProgress == {stack[i].pkg : i \in 1..Len(stack)}

\* The packages in progress are a path through the dependencies that were read.  From
\* scratch each is marked: it has no node, and is in progress once.
PathInv ==
  /\ \A i \in 1..Len(stack) : stack[i].left \subseteq stack[i].needs
  /\ \A i \in 1..Len(stack) - 1 : stack[i + 1].pkg \in stack[i].needs
  /\ seen \subseteq InProgress
  /\ mode = "scratch" =>
       \A i \in 1..Len(stack) :
         /\ stack[i].pkg \in seen /\ stack[i].pkg \notin DOMAIN resolved
         /\ \A j \in 1..Len(stack) : stack[i].pkg = stack[j].pkg => i = j

\* The project's dependencies are resolved, left to visit or in progress, and what is
\* resolved or in progress is needed by the project, as far as what was read tells.
WantedInv ==
  /\ todo \subseteq wanted /\ (Len(stack) > 0 => stack[1].pkg \in wanted)
  /\ DOMAIN resolved \cup InProgress \subseteq Reachable(Supposed, wanted)
  /\ phase = "resolve" =>
       outcome = "none" /\ wanted \subseteq DOMAIN resolved \cup todo \cup InProgress
  /\ phase = "idle" /\ outcome = "ok" => wanted \subseteq DOMAIN resolved

\* A package in progress is reached from those that wait for it.
AboveInv ==
  \A i, j \in 1..Len(stack) : i < j => stack[j].pkg \in Above(Supposed, {stack[i].pkg})

\* The nodes that can be relied on are acyclic.
Relied == [p \in Trusted |-> resolved[p]]
Acyclic ==
  /\ \A p \in Pkg : p \notin Above(Relied, {p})
  /\ mode = "lock" => roots = {}

\* The frames before a step, and after it.
LEMMA KnownStack ==
  ASSUME TypeInv, NEW c, Known(c)
  PROVE  /\ Len(stack) \in Nat /\ Len(stack') = Len(stack) /\ c \in DOMAIN resolved
         /\ \A i \in 1..Len(stack) :
              /\ stack'[i].pkg = stack[i].pkg /\ stack'[i].needs = stack[i].needs
              /\ stack'[i].left \subseteq stack[i].left
<1>1. stack \in Seq(Frame) /\ Len(stack) \in Nat
  BY DEF TypeInv, TypeOK
<1>2. stack' = Onward(c) /\ c \in DOMAIN resolved
  BY DEF Known, IsKnown
<1>3. /\ Len(stack') = Len(stack)
      /\ \A i \in 1..Len(stack) :
           /\ stack'[i].pkg = stack[i].pkg /\ stack'[i].needs = stack[i].needs
           /\ stack'[i].left = IF i = Len(stack) THEN stack[i].left \ {c} ELSE stack[i].left
  BY <1>1, <1>2, OnwardFrames
<1>4. ASSUME NEW i \in 1..Len(stack) PROVE stack'[i].left \subseteq stack[i].left
  BY <1>3
<1> QED
  BY <1>1, <1>2, <1>3, <1>4

LEMMA EnterStack ==
  ASSUME TypeInv, NEW c, Enter(c)
  PROVE  /\ c \in Pkg /\ c \notin DOMAIN resolved
         /\ Len(stack) \in Nat /\ Len(stack') = Len(stack) + 1
         /\ stack'[Len(stack) + 1].pkg = c /\ stack'[Len(stack) + 1].needs = NeedsOf(c)
         /\ stack'[Len(stack) + 1].left = NeedsOf(c)
         /\ \A i \in 1..Len(stack) :
              /\ stack'[i].pkg = stack[i].pkg /\ stack'[i].needs = stack[i].needs
              /\ stack'[i].left \subseteq stack[i].left
         /\ Len(stack) = 0 => c \in todo
         /\ Len(stack) > 0 => c \in stack[Len(stack)].left
<1> DEFINE n == Len(stack)
           f == [pkg |-> c, needs |-> NeedsOf(c), left |-> NeedsOf(c)]
<1>1. c \in Pkg /\ stack \in Seq(Frame) /\ n \in Nat
  BY VisitsPkg DEF Enter, Ready, Fetches, TypeInv, TypeOK
<1>2. /\ Onward(c) \in Seq(Frame) /\ Len(Onward(c)) = n
      /\ \A i \in 1..n : /\ Onward(c)[i].pkg = stack[i].pkg
                         /\ Onward(c)[i].needs = stack[i].needs
                         /\ Onward(c)[i].left \subseteq stack[i].left
  BY <1>1, OnwardFrames
<1>3. f \in Frame /\ stack' = Append(Onward(c), f)
  BY <1>1, NeedsArePackages DEF Frame, Enter
<1>4. /\ Len(stack') = n + 1 /\ stack'[n + 1] = f
      /\ \A i \in 1..n : stack'[i] = Onward(c)[i]
  <2> HIDE DEF f
  <2> QED
    BY <1>1, <1>2, <1>3, AppendProperties
<1>5. c \notin DOMAIN resolved /\ c \in Left
  BY DEF Enter, Ready, Fetches, IsKnown, Visits
<1>6. (n = 0 => c \in todo) /\ (n > 0 => c \in stack[n].left)
  <2>1. n = 0 <=> stack = <<>>
    BY <1>1, EmptySeq
  <2> QED
    BY <1>1, <1>5, <2>1 DEF Left, Top
<1> QED
  BY <1>1, <1>2, <1>4, <1>5, <1>6

LEMMA LeaveStack ==
  ASSUME TypeInv, ClosedInv, Leave
  PROVE  /\ Len(stack) \in Nat \ {0} /\ Len(stack') = Len(stack) - 1
         /\ \A i \in 1..Len(stack) - 1 : stack'[i] = stack[i]
         /\ Top = stack[Len(stack)] /\ Top.pkg \in Pkg
         /\ Top.needs \subseteq DOMAIN resolved
         /\ DOMAIN resolved' = DOMAIN resolved \cup {Top.pkg}
         /\ resolved'[Top.pkg] = Top.needs
         /\ \A q \in DOMAIN resolved : q # Top.pkg => resolved'[q] = resolved[q]
<1> DEFINE n == Len(stack)
<1>1. stack \in Seq(Frame) /\ stack # <<>>
  BY DEF Leave, TypeInv, TypeOK
<1>2. Top \in Frame /\ n \in Nat \ {0} /\ Top = stack[n] /\ Top.left = {}
  BY <1>1, TopFrame DEF Top, Leave
<1>3. Len(stack') = n - 1 /\ \A i \in 1..n - 1 : stack'[i] = stack[i]
  BY <1>1, Popped DEF Leave
<1>4. Top.needs \subseteq DOMAIN resolved
  BY <1>2 DEF ClosedInv, Pending
<1>5. Top.pkg \in Pkg /\ Top.needs \in SUBSET Pkg
  BY <1>2 DEF Frame
<1>6. IsGraph(resolved) /\ resolved' = Node(Top.pkg, Top.needs)
  BY DEF Leave, TypeInv, TypeOK
<1> QED
  BY <1>2, <1>3, <1>4, <1>5, <1>6, NodeGraph

\* The dependencies of a release are packages; a frame is one of a package.
LEMMA Packages ==
  ASSUME TypeOK
  PROVE  /\ released \in [Pkg -> SUBSET Pkg] /\ wanted \subseteq Pkg
         /\ \A q \in DOMAIN released : released[q] \subseteq Pkg
         /\ \A i \in 1..Len(stack) : stack[i].pkg \in Pkg /\ stack[i].needs \subseteq Pkg
<1>1. released \in [Pkg -> SUBSET Pkg]
  BY ReleaseAssumption DEF TypeOK
<1>2. \A i \in 1..Len(stack) : stack[i] \in Frame
  BY ElementOfSeq DEF TypeOK
<1> QED
  BY <1>1, <1>2 DEF TypeOK, Frame

-----------------------------------------------------------------------------
\* What no step changes, or makes smaller.
LEMMA ReleasedKept ==
  ASSUME [Next]_vars
  PROVE  released' = released /\ misread \subseteq misread'
BY DEF Next, Resolve, Begin, Known, Circular, Beyond, Misses, Extract, Offline, Enter, Leave,
       Finish, Die, Fail, OtherMisses, OtherExtracts, vars

\* A dependency that was recorded is one that was read.
LEMMA SupposedNeeds ==
  ASSUME TypeInv, ClosedInv, NEW i \in 1..Len(stack)
  PROVE  /\ stack[i].pkg \in Pkg
         /\ stack[i].needs \subseteq Supposed[stack[i].pkg]
<1>1. stack[i].pkg \in Pkg /\ Credible(stack[i].pkg, stack[i].needs)
  BY Packages DEF TypeInv, ClosedInv, Pending
<1> QED
  BY <1>1 DEF Credible, Supposed

LEMMA SupposedPackages ==
  ASSUME TypeOK
  PROVE  DOMAIN Supposed = Pkg /\ \A p \in Pkg : Supposed[p] \subseteq Pkg
BY Packages DEF Supposed, Fellows

\* More is supposed after a step, and more is reached.
LEMMA SupposedGrows ==
  ASSUME TypeInv, [Next]_vars, NEW S
  PROVE  /\ Above(Supposed, S) \subseteq Above(Supposed', S)
         /\ Reachable(Supposed, S) \subseteq Reachable(Supposed', S)
<1>1. released' = released /\ misread \subseteq misread' /\ TypeOK'
  BY ReleasedKept, StepTypes DEF TypeInv
<1>2. DOMAIN Supposed = Pkg /\ DOMAIN Supposed' = Pkg
  BY DEF Supposed
<1>3. \A p \in Pkg : Supposed[p] \subseteq Supposed'[p]
  BY <1>1 DEF Supposed, Fellows
<1>4. \A p \in Pkg : Supposed'[p] \subseteq Pkg
  BY <1>1, Packages DEF Supposed, Fellows, TypeInv
<1>5. Above(Supposed, S) \subseteq Above(Supposed', S)
  BY <1>2, <1>3, <1>4, AboveMonotone
<1> QED
  BY <1>5 DEF Reachable

-----------------------------------------------------------------------------
\* The path in progress, action by action.
LEMMA InitPath == Init => PathInv
<1> SUFFICES ASSUME Init PROVE PathInv
  OBVIOUS
<1>1. Len(stack) = 0 /\ seen = {}
  BY EmptySeq DEF Init, NoGraph
<1> QED
  BY <1>1 DEF PathInv

LEMMA FailPath ==
  ASSUME NEW e, Fail(e)
  PROVE  PathInv'
<1>1. Len(stack') = 0 /\ seen' = {}
  BY EmptySeq DEF Fail
<1> QED
  BY <1>1 DEF PathInv

LEMMA BeginPath ==
  ASSUME NEW w, NEW m, Begin(w, m)
  PROVE  PathInv'
<1>1. Len(stack') = 0 /\ seen' = {}
  BY EmptySeq DEF Begin
<1> QED
  BY <1>1 DEF PathInv

LEMMA KnownPath ==
  ASSUME TypeInv, PathInv, NEW c, Known(c)
  PROVE  PathInv'
<1> DEFINE n == Len(stack)
<1>1. /\ n \in Nat /\ Len(stack') = n
      /\ \A i \in 1..n : /\ stack'[i].pkg = stack[i].pkg /\ stack'[i].needs = stack[i].needs
                         /\ stack'[i].left \subseteq stack[i].left
  BY KnownStack
<1>2. resolved' = resolved /\ seen' = seen /\ mode' = mode
  BY DEF Known
<1>3. \A i \in 1..n : stack'[i].left \subseteq stack'[i].needs
  BY <1>1 DEF PathInv
<1>4. \A i \in 1..n - 1 : stack'[i + 1].pkg \in stack'[i].needs
  <2>1. \A i \in 1..n - 1 : i \in 1..n /\ i + 1 \in 1..n
    BY <1>1
  <2> QED
    BY <1>1, <2>1 DEF PathInv
<1>5. seen' \subseteq InProgress'
  BY <1>1, <1>2 DEF PathInv, InProgress
<1>6. mode' = "scratch" =>
        \A i \in 1..n :
          /\ stack'[i].pkg \in seen' /\ stack'[i].pkg \notin DOMAIN resolved'
          /\ \A j \in 1..n : stack'[i].pkg = stack'[j].pkg => i = j
  BY <1>1, <1>2 DEF PathInv
<1> QED
  BY <1>1, <1>3, <1>4, <1>5, <1>6 DEF PathInv

\* A package that is entered from scratch is not marked, so it is not in progress.
LEMMA EnterPath ==
  ASSUME TypeInv, PathInv, NEW c, Enter(c)
  PROVE  PathInv'
<1> DEFINE n == Len(stack)
<1>1. /\ n \in Nat /\ Len(stack') = n + 1 /\ c \in Pkg /\ c \notin DOMAIN resolved
      /\ stack'[n + 1].pkg = c /\ stack'[n + 1].needs = NeedsOf(c)
      /\ stack'[n + 1].left = NeedsOf(c)
      /\ \A i \in 1..n : /\ stack'[i].pkg = stack[i].pkg /\ stack'[i].needs = stack[i].needs
                         /\ stack'[i].left \subseteq stack[i].left
      /\ n > 0 => c \in stack[n].left
  BY EnterStack
<1>2. /\ resolved' = resolved /\ seen' \subseteq seen \cup {c} /\ mode' = mode
      /\ mode = "scratch" => seen' = seen \cup {c} /\ c \notin seen
  BY DEF Enter, Ready, Fetches, Marked
<1>3. \A i \in 1..n + 1 : i \in 1..n \/ i = n + 1
  BY <1>1
<1>4. ASSUME NEW i \in 1..n + 1
      PROVE  stack'[i].left \subseteq stack'[i].needs
  BY <1>1, <1>3 DEF PathInv
<1>5. ASSUME NEW i \in 1..n
      PROVE  stack'[i + 1].pkg \in stack'[i].needs
  <2>1. CASE i = n
    <3>1. n > 0 /\ n \in 1..n
      BY <1>1, <2>1
    <3>2. c \in stack[n].needs
      BY <1>1, <3>1 DEF PathInv
    <3> QED
      BY <1>1, <2>1, <3>1, <3>2
  <2>2. CASE i # n
    <3>1. i \in 1..n - 1 /\ i + 1 \in 1..n
      BY <1>1, <2>2
    <3> QED
      BY <1>1, <3>1 DEF PathInv
  <2> QED
    BY <2>1, <2>2
<1>6. ASSUME mode' = "scratch", NEW i \in 1..n + 1
      PROVE  /\ stack'[i].pkg \in seen' /\ stack'[i].pkg \notin DOMAIN resolved'
             /\ \A j \in 1..n + 1 : stack'[i].pkg = stack'[j].pkg => i = j
  <2>1. \A j \in 1..n : stack'[j].pkg \in seen /\ stack'[j].pkg # c
    BY <1>1, <1>2, <1>6 DEF PathInv
  <2>2. \A j \in 1..n : stack'[j].pkg \notin DOMAIN resolved
    BY <1>1, <1>2, <1>6 DEF PathInv
  <2>3. \A j, k \in 1..n : stack'[j].pkg = stack'[k].pkg => j = k
    BY <1>1, <1>2, <1>6 DEF PathInv
  <2> QED
    BY <1>1, <1>2, <1>3, <1>6, <2>1, <2>2, <2>3
<1>7. seen' \subseteq InProgress'
  <2>1. seen \subseteq InProgress'
    <3>1. \A i \in 1..n : i \in 1..n + 1
      BY <1>1
    <3> QED
      BY <1>1, <3>1 DEF PathInv, InProgress
  <2>2. n + 1 \in 1..n + 1
    BY <1>1
  <2>3. c \in InProgress'
    BY <1>1, <2>2 DEF InProgress
  <2> QED
    BY <1>2, <2>1, <2>3
<1>8. 1..Len(stack') = 1..n + 1 /\ 1..Len(stack') - 1 = 1..n
  BY <1>1
<1> QED
  BY <1>4, <1>5, <1>6, <1>7, <1>8 DEF PathInv

\* The package that is done was in progress once, from scratch.
LEMMA LeavePath ==
  ASSUME TypeInv, ClosedInv, PathInv, Leave
  PROVE  PathInv'
<1> DEFINE n == Len(stack)
<1>1. /\ n \in Nat \ {0} /\ Len(stack') = n - 1 /\ \A i \in 1..n - 1 : stack'[i] = stack[i]
      /\ Top = stack[n] /\ Top.needs \subseteq DOMAIN resolved
      /\ DOMAIN resolved' = DOMAIN resolved \cup {Top.pkg}
  BY LeaveStack
<1>2. \A i \in 1..n - 1 : i \in 1..n /\ i + 1 \in 1..n /\ i # n
  BY <1>1
<1>3. n \in 1..n
  BY <1>1
<1>4. seen' = seen \ {Top.pkg} /\ mode' = mode
  BY DEF Leave
<1>5. \A i \in 1..n - 1 : stack'[i].left \subseteq stack'[i].needs
  BY <1>1, <1>2 DEF PathInv
<1>6. ASSUME NEW i \in 1..n - 1 - 1 PROVE stack'[i + 1].pkg \in stack'[i].needs
  <2>1. i \in 1..n - 1 /\ i + 1 \in 1..n - 1
    BY <1>1
  <2> QED
    BY <1>1, <2>1 DEF PathInv
<1>7. ASSUME mode' = "scratch", NEW i \in 1..n - 1
      PROVE  /\ stack'[i].pkg \in seen' /\ stack'[i].pkg \notin DOMAIN resolved'
             /\ \A j \in 1..n - 1 : stack'[i].pkg = stack'[j].pkg => i = j
  <2>1. /\ stack[i].pkg \in seen /\ stack[i].pkg \notin DOMAIN resolved
        /\ \A j \in 1..n : stack[i].pkg = stack[j].pkg => i = j
    BY <1>2, <1>4, <1>7 DEF PathInv
  <2>2. stack[i].pkg # Top.pkg
    BY <1>1, <1>2, <1>3, <2>1
  <2> QED
    BY <1>1, <1>2, <1>4, <2>1, <2>2
<1>8. seen' \subseteq InProgress'
  <2> SUFFICES ASSUME NEW q \in seen, q # Top.pkg PROVE q \in InProgress'
    BY <1>4
  <2>1. PICK i \in 1..n : stack[i].pkg = q
    BY DEF PathInv, InProgress
  <2>2. i \in 1..n - 1
    BY <1>1, <2>1
  <2>3. i \in 1..Len(stack') /\ stack'[i].pkg = q
    BY <1>1, <2>1, <2>2
  <2> QED
    BY <2>3 DEF InProgress
<1> QED
  BY <1>1, <1>5, <1>6, <1>7, <1>8 DEF PathInv

LEMMA StepPath == TypeInv /\ ClosedInv /\ PathInv /\ [Next]_vars => PathInv'
<1> SUFFICES ASSUME TypeInv, ClosedInv, PathInv, [Next]_vars PROVE PathInv'
  OBVIOUS
<1>1. ASSUME NEW w \in SUBSET Pkg, NEW m \in BOOLEAN, Begin(w, m) PROVE PathInv'
  BY <1>1, BeginPath
<1>2. ASSUME NEW c \in Pkg, Known(c) PROVE PathInv'
  BY <1>2, KnownPath
<1>3. ASSUME NEW c \in Pkg, Circular(c) \/ Beyond(c) PROVE PathInv'
  BY <1>3, FailPath DEF Circular, Beyond
<1>4. ASSUME NEW c \in Pkg, Enter(c) PROVE PathInv'
  BY <1>4, EnterPath
<1>5. CASE Leave
  BY <1>5, LeavePath
<1>6. CASE Offline \/ Die
  BY <1>6, FailPath DEF Offline, Die
<1>7. ASSUME UNCHANGED <<stack, seen, resolved, mode>> PROVE PathInv'
  BY <1>7 DEF PathInv, InProgress
<1>8. CASE Finish
  BY <1>7, <1>8 DEF Finish, graph
<1>9. ASSUME NEW c \in Pkg, Misses(c) PROVE PathInv'
  BY <1>7, <1>9 DEF Misses
<1>10. CASE Extract
  BY <1>7, <1>10 DEF Extract
<1>11. ASSUME NEW p \in Pkg, OtherMisses(p) \/ OtherExtracts(p) PROVE PathInv'
  BY <1>7, <1>11 DEF OtherMisses, OtherExtracts, graph
<1>12. CASE UNCHANGED vars
  BY <1>7, <1>12 DEF vars, graph
<1> QED
  BY <1>1, <1>2, <1>3, <1>4, <1>5, <1>6, <1>8, <1>9, <1>10, <1>11, <1>12 DEF Next, Resolve

-----------------------------------------------------------------------------
\* Who waits for whom, action by action.
LEMMA NoneAbove ==
  ASSUME stack' = <<>>
  PROVE  AboveInv'
BY EmptySeq DEF AboveInv

\* What a package that is reached depends on is reached.
LEMMA AboveNext ==
  ASSUME TypeOK, NEW S, NEW q \in Pkg, q \in S \cup Above(Supposed, S), NEW y \in Supposed[q]
  PROVE  y \in Above(Supposed, S)
<1>1. Step(Supposed, S \cup Above(Supposed, S)) \subseteq Above(Supposed, S)
  BY SupposedPackages, AboveClosed
<1>2. q \in DOMAIN Supposed
  BY SupposedPackages
<1> QED
  BY <1>1, <1>2 DEF Step

\* The packages in progress may be fewer, and more may be supposed of them.
LEMMA FewerAbove ==
  ASSUME TypeInv, AboveInv, [Next]_vars,
         \A i \in 1..Len(stack') : i \in 1..Len(stack) /\ stack'[i].pkg = stack[i].pkg
  PROVE  AboveInv'
<1> SUFFICES ASSUME NEW i \in 1..Len(stack'), NEW j \in 1..Len(stack'), i < j
             PROVE  stack'[j].pkg \in Above(Supposed', {stack'[i].pkg})
  BY DEF AboveInv
<1>1. stack[j].pkg \in Above(Supposed, {stack[i].pkg})
  BY DEF AboveInv
<1>2. PICK p : p = stack[i].pkg
  OBVIOUS
<1>3. Above(Supposed, {p}) \subseteq Above(Supposed', {p})
  BY SupposedGrows
<1> QED
  BY <1>1, <1>2, <1>3

LEMMA EnterAbove ==
  ASSUME TypeInv, ClosedInv, PathInv, AboveInv, [Next]_vars, NEW c, Enter(c)
  PROVE  AboveInv'
<1> DEFINE n == Len(stack)
<1>1. /\ n \in Nat /\ Len(stack') = n + 1 /\ stack'[n + 1].pkg = c
      /\ \A i \in 1..n : stack'[i].pkg = stack[i].pkg
      /\ n > 0 => c \in stack[n].left
  BY EnterStack
<1>2. ASSUME NEW i \in 1..n PROVE c \in Above(Supposed, {stack[i].pkg})
  <2>1. n \in 1..n /\ c \in stack[n].left /\ (i = n \/ i < n)
    BY <1>1
  <2>2. c \in Supposed[stack[n].pkg] /\ stack[n].pkg \in Pkg
    BY <2>1, SupposedNeeds DEF PathInv
  <2>3. stack[n].pkg \in {stack[i].pkg} \cup Above(Supposed, {stack[i].pkg})
    BY <2>1 DEF AboveInv
  <2> QED
    BY <2>2, <2>3, AboveNext DEF TypeInv
<1> SUFFICES ASSUME NEW i \in 1..Len(stack'), NEW j \in 1..Len(stack'), i < j
             PROVE  stack'[j].pkg \in Above(Supposed', {stack'[i].pkg})
  BY DEF AboveInv
<1>3. i \in 1..n /\ (j \in 1..n \/ j = n + 1)
  BY <1>1
<1>4. stack'[j].pkg \in Above(Supposed, {stack[i].pkg})
  <2>1. CASE j \in 1..n
    BY <1>1, <1>3, <2>1 DEF AboveInv
  <2>2. CASE j = n + 1
    BY <1>1, <1>2, <1>3, <2>2
  <2> QED
    BY <1>3, <2>1, <2>2
<1>5. PICK p : p = stack[i].pkg
  OBVIOUS
<1>6. Above(Supposed, {p}) \subseteq Above(Supposed', {p})
  BY SupposedGrows
<1> QED
  BY <1>1, <1>3, <1>4, <1>5, <1>6

LEMMA StepAbove ==
  TypeInv /\ ClosedInv /\ PathInv /\ AboveInv /\ [Next]_vars => AboveInv'
<1> SUFFICES ASSUME TypeInv, ClosedInv, PathInv, AboveInv, [Next]_vars
             PROVE  AboveInv'
  OBVIOUS
<1>1. ASSUME NEW w \in SUBSET Pkg, NEW m \in BOOLEAN, Begin(w, m) PROVE AboveInv'
  BY <1>1, NoneAbove DEF Begin
<1>2. ASSUME NEW c \in Pkg, Known(c) PROVE AboveInv'
  BY <1>2, KnownStack, FewerAbove
<1>3. ASSUME NEW c \in Pkg, Circular(c) \/ Beyond(c) PROVE AboveInv'
  BY <1>3, NoneAbove DEF Circular, Beyond, Fail
<1>4. ASSUME NEW c \in Pkg, Enter(c) PROVE AboveInv'
  BY <1>4, EnterAbove
<1>5. CASE Leave
  <2>1. /\ Len(stack) \in Nat \ {0} /\ Len(stack') = Len(stack) - 1
        /\ \A i \in 1..Len(stack) - 1 : stack'[i] = stack[i]
    BY <1>5, LeaveStack
  <2>2. \A i \in 1..Len(stack') : i \in 1..Len(stack) /\ stack'[i].pkg = stack[i].pkg
    BY <2>1
  <2> QED
    BY <2>2, FewerAbove
<1>6. CASE Offline \/ Die
  BY <1>6, NoneAbove DEF Offline, Die, Fail
<1>7. ASSUME UNCHANGED stack PROVE AboveInv'
  BY <1>7, FewerAbove
<1>8. CASE Finish
  BY <1>7, <1>8 DEF Finish, graph
<1>9. ASSUME NEW c \in Pkg, Misses(c) PROVE AboveInv'
  BY <1>7, <1>9 DEF Misses
<1>10. CASE Extract
  BY <1>7, <1>10 DEF Extract
<1>11. ASSUME NEW p \in Pkg, OtherMisses(p) \/ OtherExtracts(p) PROVE AboveInv'
  BY <1>7, <1>11 DEF OtherMisses, OtherExtracts, graph
<1>12. CASE UNCHANGED vars
  BY <1>7, <1>12 DEF vars, graph
<1> QED
  BY <1>1, <1>2, <1>3, <1>4, <1>5, <1>6, <1>8, <1>9, <1>10, <1>11, <1>12 DEF Next, Resolve

-----------------------------------------------------------------------------
\* What is resolved is acyclic: a package gets its node when all it depends on has one.
LEMMA NothingAcyclic ==
  ASSUME NEW g, DOMAIN g = {}, NEW p
  PROVE  p \notin Above(g, {p})
<1>1. Step(g, {p} \cup {}) \subseteq {}
  BY DEF Step
<1>2. Above(g, {p}) \subseteq {}
  BY <1>1, AboveLeast
<1> QED
  BY <1>2

LEMMA InitAcyclic == Init => Acyclic
<1> SUFFICES ASSUME Init PROVE Acyclic
  OBVIOUS
<1>1. DOMAIN Relied = {} /\ mode = "scratch"
  BY DEF Init, NoGraph, Nothing, Trusted, Relied
<1> QED
  BY <1>1, NothingAcyclic DEF Acyclic

LEMMA NoneAcyclic ==
  ASSUME resolved' = Nothing, roots' = {}
  PROVE  Acyclic'
<1>1. DOMAIN Relied' = {}
  BY DEF Nothing, Trusted, Relied
<1> QED
  BY <1>1, NothingAcyclic DEF Acyclic

\* Fewer nodes can be relied on, or the same.
LEMMA FewerAcyclic ==
  ASSUME TypeInv, Acyclic, mode' = "lock" => roots' = {},
         \A q \in Trusted' : q \in Trusted /\ resolved'[q] = resolved[q]
  PROVE  Acyclic'
<1>1. /\ DOMAIN Relied = Trusted /\ \A q \in Trusted : Relied[q] = resolved[q]
      /\ DOMAIN Relied' = Trusted' /\ \A q \in Trusted' : Relied'[q] = resolved'[q]
  BY DEF Relied
<1>2. \A q \in Trusted : resolved[q] \subseteq Pkg
  BY DEF Trusted, TypeInv, TypeOK, IsGraph
<1>3. \A q \in DOMAIN Relied' : q \in DOMAIN Relied /\ Relied'[q] \subseteq Relied[q]
  BY <1>1
<1>4. ASSUME NEW p \in Pkg PROVE p \notin Above(Relied', {p})
  <2>1. Above(Relied', {p}) \subseteq Above(Relied, {p})
    BY <1>1, <1>2, <1>3, AboveMonotone
  <2> QED
    BY <2>1 DEF Acyclic
<1> QED
  BY <1>4 DEF Acyclic

\* A node that is made again, from a lock, is the same if it can be relied on.
LEMMA LeaveAcyclic ==
  ASSUME TypeInv, ClosedInv, PathInv, Acyclic, Leave
  PROVE  Acyclic'
<1> DEFINE p == Top.pkg
<1>1. /\ Len(stack) \in Nat \ {0} /\ Top = stack[Len(stack)] /\ Top.pkg \in Pkg
      /\ Top.needs \subseteq DOMAIN resolved
      /\ DOMAIN resolved' = DOMAIN resolved \cup {Top.pkg}
      /\ resolved'[Top.pkg] = Top.needs
      /\ \A q \in DOMAIN resolved : q # Top.pkg => resolved'[q] = resolved[q]
  BY LeaveStack
<1>2. Len(stack) \in 1..Len(stack)
  BY <1>1
<1>3. mode' = mode /\ misread' = misread /\ (mode = "lock" => roots' = roots)
  BY DEF Leave
<1>4. mode' = "lock" => roots' = {}
  BY <1>3 DEF Acyclic
<1>5. mode \in {"scratch", "lock"} /\ DOMAIN resolved \subseteq Pkg
      /\ \A q \in DOMAIN resolved : resolved[q] \subseteq DOMAIN resolved
  BY DEF TypeInv, TypeOK, IsGraph, ClosedInv, GraphsClosed, Closed
<1>6. CASE p \in DOMAIN resolved \/ (mode = "lock" /\ p \in misread)
  <2>1. mode = "lock"
    BY <1>1, <1>2, <1>5, <1>6 DEF PathInv
  <2>2. p \in DOMAIN resolved /\ p \notin misread => resolved[p] = Top.needs
    <3>1. Credible(p, Top.needs)
      BY <1>1, <1>2 DEF ClosedInv, Pending
    <3>2. p \in DOMAIN resolved => Credible(p, resolved[p])
      BY DEF ClosedInv, GraphsClosed, Closed
    <3> QED
      BY <3>1, <3>2 DEF Credible
  <2>3. \A q \in Trusted' : q \in Trusted /\ resolved'[q] = resolved[q]
    BY <1>1, <1>3, <1>6, <2>1, <2>2 DEF Trusted
  <2> QED
    BY <1>4, <2>3, FewerAcyclic
<1>7. CASE p \notin DOMAIN resolved /\ ~(mode = "lock" /\ p \in misread)
  <2>1. Trusted' = Trusted \cup {p} /\ p \notin Trusted
    BY <1>1, <1>3, <1>5, <1>7 DEF Trusted
  <2>2. Trusted \subseteq DOMAIN resolved
    BY DEF Trusted
  <2>3. /\ DOMAIN Relied = Trusted /\ \A q \in Trusted : Relied[q] = resolved[q]
        /\ DOMAIN Relied' = Trusted' /\ \A q \in Trusted' : Relied'[q] = resolved'[q]
    BY DEF Relied
  <2>4. \A q \in DOMAIN Relied : Relied[q] \subseteq Pkg /\ p \notin Relied[q]
    BY <1>5, <1>7, <2>2, <2>3
  <2>5. DOMAIN Relied' = DOMAIN Relied \cup {p}
    BY <2>1, <2>3
  <2>6. Relied'[p] \subseteq Pkg /\ p \notin Relied'[p]
    BY <1>1, <1>5, <1>7, <2>1, <2>3
  <2>7. \A q \in DOMAIN Relied : Relied'[q] = Relied[q]
    BY <1>1, <1>7, <2>1, <2>2, <2>3
  <2>8. \A q \in Pkg : q \notin Above(Relied, {q})
    BY DEF Acyclic
  <2>9. p \in Pkg
    BY <1>1
  <2> HIDE DEF p
  <2>10. \A q \in Pkg : q \notin Above(Relied', {q})
    BY <2>4, <2>5, <2>6, <2>7, <2>8, <2>9, NodeAcyclic
  <2> QED
    BY <1>4, <2>10 DEF Acyclic
<1> QED
  BY <1>6, <1>7

LEMMA StepAcyclic == TypeInv /\ ClosedInv /\ PathInv /\ Acyclic /\ [Next]_vars => Acyclic'
<1> SUFFICES ASSUME TypeInv, ClosedInv, PathInv, Acyclic, [Next]_vars PROVE Acyclic'
  OBVIOUS
<1>1. ASSUME NEW w \in SUBSET Pkg, NEW m \in BOOLEAN, Begin(w, m) PROVE Acyclic'
  BY <1>1, NoneAcyclic DEF Begin
<1>2. ASSUME UNCHANGED <<resolved, mode>>, mode = "lock" => roots' = roots PROVE Acyclic'
  <2>1. misread \subseteq misread'
    BY ReleasedKept
  <2>2. \A q \in Trusted' : q \in Trusted /\ resolved'[q] = resolved[q]
    BY <1>2, <2>1 DEF Trusted
  <2>3. mode' = "lock" => roots' = {}
    BY <1>2 DEF Acyclic
  <2> QED
    BY <2>2, <2>3, FewerAcyclic
<1>3. ASSUME NEW c \in Pkg, Known(c) PROVE Acyclic'
  BY <1>2, <1>3 DEF Known
<1>4. ASSUME NEW c \in Pkg, Circular(c) \/ Beyond(c) PROVE Acyclic'
  BY <1>4, NoneAcyclic DEF Circular, Beyond, Fail
<1>5. ASSUME NEW c \in Pkg, Enter(c) PROVE Acyclic'
  BY <1>2, <1>5 DEF Enter
<1>6. CASE Leave
  BY <1>6, LeaveAcyclic
<1>7. CASE Offline \/ Die
  BY <1>7, NoneAcyclic DEF Offline, Die, Fail
<1>8. CASE Finish
  BY <1>2, <1>8 DEF Finish, graph
<1>9. ASSUME NEW c \in Pkg, Misses(c) PROVE Acyclic'
  BY <1>2, <1>9 DEF Misses
<1>10. CASE Extract
  BY <1>2, <1>10 DEF Extract
<1>11. ASSUME NEW p \in Pkg, OtherMisses(p) \/ OtherExtracts(p) PROVE Acyclic'
  BY <1>2, <1>11 DEF OtherMisses, OtherExtracts, graph
<1>12. CASE UNCHANGED vars
  BY <1>2, <1>12 DEF vars, graph
<1> QED
  BY <1>1, <1>3, <1>4, <1>5, <1>6, <1>7, <1>8, <1>9, <1>10, <1>11, <1>12 DEF Next, Resolve

-----------------------------------------------------------------------------
\* What the project needs, action by action.
LEMMA InitWanted == Init => WantedInv
<1> SUFFICES ASSUME Init PROVE WantedInv
  OBVIOUS
<1>1. Len(stack) = 0 /\ todo = {} /\ resolved = Nothing /\ phase = "idle" /\ outcome = "none"
  BY EmptySeq DEF Init, NoGraph
<1> QED
  BY <1>1 DEF WantedInv, Nothing, InProgress

LEMMA FailWanted ==
  ASSUME NEW e, e # "ok", Fail(e)
  PROVE  WantedInv'
<1>1. Len(stack') = 0 /\ todo' = {} /\ resolved' = Nothing /\ phase' = "idle" /\ outcome' = e
  BY EmptySeq DEF Fail
<1> QED
  BY <1>1 DEF WantedInv, Nothing, InProgress

LEMMA BeginWanted ==
  ASSUME NEW w, NEW m, Begin(w, m)
  PROVE  WantedInv'
<1>1. /\ Len(stack') = 0 /\ todo' = w /\ wanted' = w /\ resolved' = Nothing
      /\ phase' = "resolve" /\ outcome' = "none"
  BY EmptySeq DEF Begin
<1> QED
  BY <1>1 DEF WantedInv, Nothing, InProgress

\* While the same packages are wanted, what is reached only grows.
LEMMA ReachableGrows ==
  ASSUME TypeInv, [Next]_vars, wanted' = wanted, NEW p, p \in Reachable(Supposed, wanted)
  PROVE  p \in Reachable(Supposed', wanted')
<1>1. PICK S : S = wanted
  OBVIOUS
<1>2. Reachable(Supposed, S) \subseteq Reachable(Supposed', S)
  BY SupposedGrows
<1> QED
  BY <1>1, <1>2

LEMMA KnownWanted ==
  ASSUME TypeInv, WantedInv, [Next]_vars, NEW c, Known(c)
  PROVE  WantedInv'
<1> DEFINE n == Len(stack)
<1>1. /\ n \in Nat /\ Len(stack') = n /\ c \in DOMAIN resolved
      /\ \A i \in 1..n : stack'[i].pkg = stack[i].pkg
  BY KnownStack
<1>2. /\ todo' \subseteq todo /\ todo \subseteq todo' \cup {c} /\ resolved' = resolved
      /\ wanted' = wanted /\ released' = released /\ phase' = phase /\ outcome' = outcome
      /\ phase = "resolve"
  BY DEF Known, Rest, Visits
<1>3. InProgress' = InProgress
  BY <1>1 DEF InProgress
<1>4. Len(stack') > 0 => stack'[1].pkg \in wanted'
  <2>1. n > 0 => 1 \in 1..n
    BY <1>1
  <2> QED
    BY <1>1, <1>2, <2>1 DEF WantedInv
<1>5. Reachable(Supposed, wanted) \subseteq Reachable(Supposed', wanted')
  BY <1>2, ReachableGrows
<1>6. wanted' \subseteq DOMAIN resolved' \cup todo' \cup InProgress'
  BY <1>1, <1>2, <1>3 DEF WantedInv
<1>7. DOMAIN resolved' \cup InProgress' \subseteq Reachable(Supposed', wanted')
  BY <1>2, <1>3, <1>5 DEF WantedInv
<1> QED
  BY <1>2, <1>4, <1>6, <1>7 DEF WantedInv

\* The package entered is one the project names, or one its dependencies need.
LEMMA EnterWanted ==
  ASSUME TypeInv, ClosedInv, PathInv, WantedInv, [Next]_vars, NEW c, Enter(c)
  PROVE  WantedInv'
<1> DEFINE n == Len(stack)
<1>1. /\ n \in Nat /\ Len(stack') = n + 1 /\ stack'[n + 1].pkg = c
      /\ \A i \in 1..n : stack'[i].pkg = stack[i].pkg
      /\ n = 0 => c \in todo
      /\ n > 0 => c \in stack[n].left
  BY EnterStack
<1>2. /\ todo' \subseteq todo /\ todo \subseteq todo' \cup {c} /\ resolved' = resolved
      /\ wanted' = wanted /\ released' = released /\ phase' = phase /\ outcome' = outcome
      /\ phase = "resolve"
  BY DEF Enter, Rest, Ready, Fetches, Visits
<1>3. InProgress' = InProgress \cup {c}
  <2>1. InProgress' = {stack'[i].pkg : i \in 1..n + 1}
    BY <1>1 DEF InProgress
  <2>2. 1..n + 1 = (1..n) \cup {n + 1}
    BY <1>1
  <2>3. {stack'[i].pkg : i \in 1..n} = InProgress
    BY <1>1 DEF InProgress
  <2> QED
    BY <1>1, <2>1, <2>2, <2>3
<1>4. stack'[1].pkg \in wanted'
  <2>1. CASE n = 0
    BY <1>1, <1>2, <2>1 DEF WantedInv
  <2>2. CASE n > 0
    <3>1. 1 \in 1..n
      BY <1>1, <2>2
    <3> QED
      BY <1>1, <1>2, <2>2, <3>1 DEF WantedInv
  <2> QED
    BY <1>1, <2>1, <2>2
<1>5. c \in Reachable(Supposed, wanted)
  <2>1. CASE n = 0
    BY <1>1, <2>1 DEF WantedInv, Reachable
  <2>2. CASE n > 0
    <3>1. n \in 1..n /\ c \in stack[n].left
      BY <1>1, <2>2
    <3>2. c \in Supposed[stack[n].pkg]
      BY <3>1, SupposedNeeds DEF PathInv
    <3>3. stack[n].pkg \in Pkg
      BY <3>1, Packages DEF TypeInv
    <3>4. stack[n].pkg \in wanted \cup Above(Supposed, wanted)
      BY <3>1 DEF WantedInv, InProgress, Reachable
    <3>5. c \in Above(Supposed, wanted)
      BY <3>2, <3>3, <3>4, AboveNext DEF TypeInv
    <3> QED
      BY <3>5 DEF Reachable
  <2> QED
    BY <1>1, <2>1, <2>2
<1>6. Reachable(Supposed, wanted) \subseteq Reachable(Supposed', wanted')
  BY <1>2, ReachableGrows
<1>7. wanted' \subseteq DOMAIN resolved' \cup todo' \cup InProgress'
  BY <1>2, <1>3 DEF WantedInv
<1>8. DOMAIN resolved' \cup InProgress' \subseteq Reachable(Supposed', wanted')
  BY <1>2, <1>3, <1>5, <1>6 DEF WantedInv
<1> QED
  BY <1>2, <1>4, <1>7, <1>8 DEF WantedInv

LEMMA LeaveWanted ==
  ASSUME TypeInv, ClosedInv, WantedInv, [Next]_vars, Leave
  PROVE  WantedInv'
<1> DEFINE n == Len(stack)
<1>1. /\ n \in Nat \ {0} /\ Len(stack') = n - 1 /\ \A i \in 1..n - 1 : stack'[i] = stack[i]
      /\ Top = stack[n] /\ DOMAIN resolved' = DOMAIN resolved \cup {Top.pkg}
  BY LeaveStack
<1>2. /\ todo' = todo /\ wanted' = wanted /\ released' = released /\ phase' = phase
      /\ outcome' = outcome /\ phase = "resolve"
  BY DEF Leave
<1>3. InProgress = InProgress' \cup {Top.pkg}
  <2>1. InProgress' = {stack[i].pkg : i \in 1..n - 1}
    BY <1>1 DEF InProgress
  <2>2. 1..n = (1..n - 1) \cup {n}
    BY <1>1
  <2> QED
    BY <1>1, <2>1, <2>2 DEF InProgress
<1>4. Len(stack') > 0 => stack'[1].pkg \in wanted'
  <2>1. Len(stack') > 0 => 1 \in 1..n - 1
    BY <1>1
  <2> QED
    BY <1>1, <1>2, <2>1 DEF WantedInv
<1>5. Reachable(Supposed, wanted) \subseteq Reachable(Supposed', wanted')
  BY <1>2, ReachableGrows
<1>6. wanted' \subseteq DOMAIN resolved' \cup todo' \cup InProgress'
  BY <1>1, <1>2, <1>3 DEF WantedInv
<1>7. DOMAIN resolved' \cup InProgress' \subseteq Reachable(Supposed', wanted')
  BY <1>1, <1>3, <1>5 DEF WantedInv
<1> QED
  BY <1>2, <1>4, <1>6, <1>7 DEF WantedInv

\* Nothing is left to visit or in progress: what is wanted is resolved.
LEMMA FinishWanted ==
  ASSUME TypeInv, WantedInv, [Next]_vars, Finish
  PROVE  WantedInv'
<1>1. /\ resolved' = resolved /\ stack' = stack /\ todo' = todo /\ wanted' = wanted
      /\ released' = released /\ phase' = "idle" /\ phase = "resolve"
      /\ todo = {} /\ Len(stack) = 0
  BY EmptySeq DEF Finish, graph
<1>2. Reachable(Supposed, wanted) \subseteq Reachable(Supposed', wanted')
  BY <1>1, ReachableGrows
<1>3. InProgress = {} /\ InProgress' = {}
  BY <1>1 DEF InProgress
<1>4. wanted' \subseteq DOMAIN resolved'
  BY <1>1, <1>3 DEF WantedInv
<1> QED
  BY <1>1, <1>2, <1>3, <1>4 DEF WantedInv

LEMMA OthersWanted ==
  ASSUME TypeInv, WantedInv, [Next]_vars,
         UNCHANGED <<todo, stack, resolved, wanted, phase, outcome>>
  PROVE  WantedInv'
<1>1. InProgress' = InProgress
  BY DEF InProgress
<1>2. Reachable(Supposed, wanted) \subseteq Reachable(Supposed', wanted')
  BY ReachableGrows
<1>3. DOMAIN resolved' \cup InProgress' \subseteq Reachable(Supposed', wanted')
  BY <1>1, <1>2 DEF WantedInv
<1> QED
  BY <1>1, <1>3 DEF WantedInv

LEMMA StepWanted ==
  TypeInv /\ ClosedInv /\ PathInv /\ WantedInv /\ [Next]_vars => WantedInv'
<1> SUFFICES ASSUME TypeInv, ClosedInv, PathInv, WantedInv, [Next]_vars
             PROVE  WantedInv'
  OBVIOUS
<1>1. ASSUME NEW w \in SUBSET Pkg, NEW m \in BOOLEAN, Begin(w, m) PROVE WantedInv'
  BY <1>1, BeginWanted
<1>2. ASSUME NEW c \in Pkg, Known(c) PROVE WantedInv'
  BY <1>2, KnownWanted
<1>3. ASSUME NEW c \in Pkg, Circular(c) \/ Beyond(c) PROVE WantedInv'
  BY <1>3, FailWanted DEF Circular, Beyond
<1>4. ASSUME NEW c \in Pkg, Enter(c) PROVE WantedInv'
  BY <1>4, EnterWanted
<1>5. CASE Leave
  BY <1>5, LeaveWanted
<1>6. CASE Finish
  BY <1>6, FinishWanted
<1>7. CASE Offline \/ Die
  BY <1>7, FailWanted DEF Offline, Die
<1>8. ASSUME NEW c \in Pkg, Misses(c) PROVE WantedInv'
  BY <1>8, OthersWanted DEF Misses
<1>9. CASE Extract
  BY <1>9, OthersWanted DEF Extract
<1>10. ASSUME NEW p \in Pkg, OtherMisses(p) \/ OtherExtracts(p) PROVE WantedInv'
  BY <1>10, OthersWanted DEF OtherMisses, OtherExtracts, graph
<1>11. CASE UNCHANGED vars
  BY <1>11, OthersWanted DEF vars, graph
<1> QED
  BY <1>1, <1>2, <1>3, <1>4, <1>5, <1>6, <1>7, <1>8, <1>9, <1>10, <1>11 DEF Next, Resolve

-----------------------------------------------------------------------------
\* The whole invariant.
ResolveInv ==
  TypeInv /\ ClosedInv /\ PathInv /\ AboveInv /\ WantedInv /\ Acyclic

LEMMA InitResolve == Init => ResolveInv
<1> SUFFICES ASSUME Init PROVE ResolveInv
  OBVIOUS
<1>1. AboveInv
  BY EmptySeq DEF Init, NoGraph, AboveInv
<1> QED
  BY <1>1, InitTypes, InitClosed, InitPath, InitWanted, InitAcyclic DEF ResolveInv

LEMMA StepResolve == ResolveInv /\ [Next]_vars => ResolveInv'
<1> SUFFICES ASSUME ResolveInv, [Next]_vars PROVE ResolveInv'
  OBVIOUS
<1> QED
  BY StepTypes, StepClosed, StepPath, StepAbove, StepWanted, StepAcyclic DEF ResolveInv

LEMMA AlwaysResolve == Spec => []ResolveInv
BY InitResolve, StepResolve, PTL DEF Spec

\* In the nodes that can be relied on no package reaches itself, from wherever one looks.
LEMMA AcyclicAnywhere ==
  ASSUME Acyclic, NEW S \in SUBSET Pkg
  PROVE  ~Cyclic(Relied, S)
<1>1. Reachable(Relied, S) \subseteq Pkg
  BY AbovePackages DEF Reachable
<1> QED
  BY <1>1 DEF Acyclic, Cyclic

\* The cycle check at the end of a build has nothing to find: from scratch there is no
\* cycle, and from a lock no root to start at.
LEMMA NoneDetected ==
  ASSUME ResolveInv
  PROVE  ~Cyclic(resolved, roots)
<1>1. mode \in {"scratch", "lock"} /\ roots \subseteq Pkg /\ IsGraph(resolved)
  BY DEF ResolveInv, TypeInv, TypeOK
<1>2. CASE mode = "scratch"
  <2>1. Relied = resolved
    BY <1>1, <1>2 DEF Relied, Trusted, IsGraph
  <2> QED
    BY <1>1, <2>1, AcyclicAnywhere DEF ResolveInv
<1>3. CASE mode = "lock"
  <2>1. roots = {}
    BY <1>3 DEF ResolveInv, Acyclic
  <2>2. Step(resolved, {} \cup {}) \subseteq {}
    BY DEF Step
  <2>3. Above(resolved, {}) \subseteq {}
    BY <2>2, AboveLeast
  <2> QED
    BY <2>1, <2>3 DEF Cyclic, Reachable
<1> QED
  BY <1>1, <1>2, <1>3

\* From scratch what is resolved has no cycle, whatever was read; from a lock, where
\* nothing is marked, the packages that were never misread have none among them.
THEOREM AcyclicAlways == Spec => []NothingToDetect
<1>1. ASSUME ResolveInv PROVE NothingToDetect
  <2>1. Trusted \in SUBSET Pkg
    BY <1>1 DEF ResolveInv, TypeInv, TypeOK, IsGraph, Trusted
  <2> QED
    BY <1>1, <2>1, AcyclicAnywhere DEF ResolveInv, NothingToDetect, Relied
<1> QED
  BY <1>1, AlwaysResolve, PTL

\* What a successful build has resolved is what its project reaches through the releases:
\* nothing is missing and nothing is in excess, if no directory was misread.
THEOREM CompleteAlways == Spec => []Complete
<1>1. ASSUME ResolveInv, phase = "idle", outcome = "ok", misread = {}
      PROVE  DOMAIN resolved = Reachable(released, wanted)
  <2> DEFINE D == DOMAIN resolved
  <2>1. wanted \subseteq D /\ D \subseteq Reachable(Supposed, wanted)
    BY <1>1 DEF ResolveInv, WantedInv
  <2>2. D \in SUBSET Pkg
    BY <1>1 DEF ResolveInv, TypeInv, TypeOK, IsGraph
  <2>3. \A q \in D : released[q] \subseteq D
    BY <1>1 DEF ResolveInv, ClosedInv, GraphsClosed, Closed, Credible
  <2> HIDE DEF D
  <2>4. Step(released, wanted \cup D) \subseteq D
    BY <2>1, <2>3 DEF Step
  <2>5. Above(released, wanted) \subseteq D
    BY <2>2, <2>4, AboveLeast
  <2>6. Above(Supposed, wanted) \subseteq Above(released, wanted)
    <3>1. released \in [Pkg -> SUBSET Pkg]
      BY <1>1, Packages DEF ResolveInv, TypeInv
    <3>2. \A q \in DOMAIN Supposed : q \in DOMAIN released /\ Supposed[q] \subseteq released[q]
      BY <1>1, <3>1 DEF Supposed
    <3> QED
      BY <3>1, <3>2, AboveMonotone
  <2> QED
    BY <2>1, <2>5, <2>6 DEF Reachable, D
<1>2. ResolveInv => Complete
  BY <1>1 DEF Complete
<1> QED
  BY <1>2, AlwaysResolve, PTL

-----------------------------------------------------------------------------
\* A package that is marked is in progress, and all that is in progress above it is reached
\* from it: the dependency that is marked closes a cycle of what was read.
LEMMA CircularJustified ==
  ASSUME ResolveInv, NEW c, Circular(c)
  PROVE  Cyclic(Supposed, wanted)
<1> DEFINE n == Len(stack)
<1>1. stack \in Seq(Frame) /\ n \in Nat
  BY DEF ResolveInv, TypeInv, TypeOK
<1>2. PICK i \in 1..n : stack[i].pkg = c
  BY DEF Circular, Marked, ResolveInv, PathInv, InProgress
<1>3. n \in 1..n /\ (i = n \/ i < n) /\ stack # <<>>
  BY <1>1, <1>2, EmptySeq
<1>4. c \in stack[n].left
  BY <1>3 DEF Circular, Visits, Left, Top
<1>5. c \in Supposed[stack[n].pkg]
  BY <1>3, <1>4, SupposedNeeds DEF ResolveInv, PathInv
<1>6. stack[n].pkg \in Pkg
  BY <1>3, Packages DEF ResolveInv, TypeInv
<1>7. stack[n].pkg \in {c} \cup Above(Supposed, {c})
  BY <1>2, <1>3 DEF ResolveInv, AboveInv
<1>8. c \in Above(Supposed, {c})
  BY <1>5, <1>6, <1>7, AboveNext DEF ResolveInv, TypeInv
<1>9. c \in Reachable(Supposed, wanted)
  BY <1>2 DEF ResolveInv, WantedInv, InProgress
<1> QED
  BY <1>8, <1>9 DEF Cyclic

\* The packages in progress and the one visited are the path that is too long.
LEMMA BeyondJustified ==
  ASSUME ResolveInv, NEW c, Beyond(c)
  PROVE  LongPath
<1> DEFINE n == Len(stack)
           w == [i \in 0..MaxDepth |-> IF i < MaxDepth THEN stack[i + 1].pkg ELSE c]
<1>1. stack \in Seq(Frame) /\ n = MaxDepth /\ MaxDepth \in Nat \ {0} /\ n \in 1..n
  BY ReleaseAssumption DEF ResolveInv, TypeInv, TypeOK, Beyond, TooDeep
<1>2. c \in stack[n].left
  <2>1. stack # <<>>
    BY <1>1, EmptySeq
  <2> QED
    BY <2>1 DEF Beyond, Ready, Fetches, Visits, Left, Top
<1>3. c \in stack[n].needs
  BY <1>1, <1>2 DEF ResolveInv, PathInv
<1>4. \A i \in 1..n : stack[i].pkg \in Pkg /\ stack[i].needs \subseteq Pkg
  BY Packages DEF ResolveInv, TypeInv
<1>5. w \in [0..MaxDepth -> Pkg]
  <2>1. \A i \in 0..MaxDepth : i < MaxDepth => i + 1 \in 1..n
    BY <1>1
  <2>2. c \in Pkg
    BY <1>1, <1>3, <1>4
  <2> QED
    BY <1>4, <2>1, <2>2
<1>6. w[0] \in wanted
  <2>1. w[0] = stack[1].pkg
    BY <1>1
  <2> QED
    BY <1>1, <2>1 DEF ResolveInv, WantedInv
<1>7. ASSUME NEW i \in 1..MaxDepth PROVE w[i] \in Supposed[w[i - 1]]
  <2>1. w[i - 1] = stack[i].pkg
    BY <1>1
  <2>2. w[i] \in stack[i].needs
    <3>1. CASE i = n
      BY <1>1, <1>3, <3>1
    <3>2. CASE i # n
      <4>1. i \in 1..n - 1 /\ w[i] = stack[i + 1].pkg
        BY <1>1, <3>2
      <4> QED
        BY <4>1 DEF ResolveInv, PathInv
    <3> QED
      BY <3>1, <3>2
  <2>3. stack[i].needs \subseteq Supposed[stack[i].pkg]
    BY <1>1, SupposedNeeds DEF ResolveInv
  <2> QED
    BY <2>1, <2>2, <2>3
<1> HIDE DEF w
<1> QED
  BY <1>5, <1>6, <1>7 DEF LongPath

\* An error that has been justified stays so until the project is edited.
LEMMA JustifiedKept ==
  ASSUME ErrorJustified, UNCHANGED <<released, wanted, misread>>, outcome' \in {outcome, "ok"}
  PROVE  ErrorJustified'
<1>1. Supposed' = Supposed
  BY DEF Supposed, Fellows
<1> QED
  BY <1>1 DEF ErrorJustified, Cyclic, Reachable, Above, Step, LongPath

LEMMA StepJustified == ResolveInv /\ ErrorJustified /\ [Next]_vars => ErrorJustified'
<1> SUFFICES ASSUME ResolveInv, ErrorJustified, [Next]_vars PROVE ErrorJustified'
  OBVIOUS
<1>1. ASSUME NEW w \in SUBSET Pkg, NEW m \in BOOLEAN, Begin(w, m) PROVE ErrorJustified'
  BY <1>1 DEF Begin, ErrorJustified
<1>2. ASSUME NEW c \in Pkg, Known(c) PROVE ErrorJustified'
  BY <1>2, JustifiedKept DEF Known
<1>3. ASSUME NEW c \in Pkg, Circular(c) PROVE ErrorJustified'
  <2>1. Cyclic(Supposed, wanted)
    BY <1>3, CircularJustified
  <2>2. outcome' = "circular" /\ UNCHANGED <<released, wanted, misread>>
    BY <1>3 DEF Circular, Fail
  <2>3. Supposed' = Supposed
    BY <2>2 DEF Supposed, Fellows
  <2> QED
    BY <2>1, <2>2, <2>3 DEF ErrorJustified, Cyclic, Reachable, Above, Step
<1>4. ASSUME NEW c \in Pkg, Beyond(c) PROVE ErrorJustified'
  <2>1. LongPath
    BY <1>4, BeyondJustified
  <2>2. outcome' = "depth" /\ UNCHANGED <<released, wanted, misread>>
    BY <1>4 DEF Beyond, Fail
  <2>3. Supposed' = Supposed
    BY <2>2 DEF Supposed, Fellows
  <2> QED
    BY <2>1, <2>2, <2>3 DEF ErrorJustified, LongPath
<1>5. ASSUME NEW c \in Pkg, Misses(c) PROVE ErrorJustified'
  BY <1>5, JustifiedKept DEF Misses
<1>6. ASSUME NEW c \in Pkg, Enter(c) PROVE ErrorJustified'
  <2>1. outcome' = "none"
    BY <1>6 DEF Enter, Ready, Fetches, Visits, ResolveInv, WantedInv
  <2> QED
    BY <2>1 DEF ErrorJustified
<1>7. CASE Extract
  BY <1>7, JustifiedKept DEF Extract
<1>8. CASE Leave
  BY <1>8, JustifiedKept DEF Leave
<1>9. CASE Finish
  <2>1. outcome' = "ok"
    BY <1>9, NoneDetected DEF Finish
  <2> QED
    BY <2>1 DEF ErrorJustified
<1>10. CASE Offline \/ Die
  BY <1>10 DEF Offline, Die, Fail, ErrorJustified
<1>11. ASSUME NEW p \in Pkg, OtherMisses(p) \/ OtherExtracts(p) PROVE ErrorJustified'
  BY <1>11, JustifiedKept DEF OtherMisses, OtherExtracts
<1>12. CASE UNCHANGED vars
  BY <1>12, JustifiedKept DEF vars
<1> QED
  BY <1>1, <1>2, <1>3, <1>4, <1>5, <1>6, <1>7, <1>8, <1>9, <1>10, <1>11, <1>12
     DEF Next, Resolve

\* A circular dependency is reported only where what may have been read has one that the
\* project reaches, and the depth limit only where a path of it is longer: a package that
\* was never misread counts with what its release depends on.
THEOREM ErrorsJustified == Spec => []ErrorJustified
<1>1. Init => ErrorJustified
  BY DEF Init, ErrorJustified
<1>2. Spec => [](ResolveInv /\ ErrorJustified)
  BY <1>1, InitResolve, StepResolve, StepJustified, PTL DEF Spec
<1> QED
  BY <1>2, PTL
===============================================================================
