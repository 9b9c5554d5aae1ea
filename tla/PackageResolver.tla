---------------------------- MODULE PackageResolver ----------------------------
(***************************************************************************)
(* Dependency resolution of a project, over several builds: the recursion  *)
(* of resolveNode and ResolveFromLock with its marks and its depth limit,  *)
(* the download cache that every project of the user shares, and the lock  *)
(* file one build leaves for the next.                                     *)
(*                                                                         *)
(* A package is a key@version of a release; those of one repository and    *)
(* version are in one archive, side by side.  Standard names are skipped   *)
(* wherever they occur, workspace packages at the top: neither is here.    *)
(***************************************************************************)
EXTENDS Naturals, Sequences

CONSTANTS Pkg,        \* the released packages
          Releases,   \* what they may depend on: a set of functions from Pkg to its subsets
          Plain,      \* for each of these, the packages released without a package.noml
          Archive,    \* and the archive of each package, named by one of those in it
          ByName,     \* the order of the names of their directories
          None,       \* no package
          MaxDepth,   \* maxDepth; every caller passes 10
          MaxBuild    \* bound on the builds

ASSUME ReleaseAssumption ==
  /\ Releases \subseteq [Pkg -> SUBSET Pkg] /\ None \notin Pkg
  /\ Plain \in [Releases -> SUBSET Pkg] /\ Archive \in [Releases -> [Pkg -> Pkg]]
  /\ \A r \in Releases : \A p \in Plain[r] : r[p] = {}
  /\ ByName \in [Pkg -> Nat] /\ \A p, q \in Pkg : ByName[p] = ByName[q] => p = q
  /\ MaxDepth \in Nat \ {0} /\ MaxBuild \in Nat

VARIABLES
  released,   \* the dependencies in the package.noml of each release
  wanted,     \* the dependencies in the project's package.noml
  cache,      \* the directory of each package in the cache of the user: "bare" without
              \* a package.noml, "empty" with one that is created and not yet written
  other,      \* the packages of the archives other processes may be extracting
  lock,       \* nolang.lock.noml, by package; no package when absent or unreadable
  phase, mode, outcome,
  todo,       \* the dependencies of the project not visited yet
  stack,      \* the recursion: the package, the dependencies read, those left
  seen,       \* the packages marked as in progress
  resolved,   \* the nodes, each with its Dependencies
  roots,      \* graph.roots
  fetch,      \* the package being downloaded, and whether its directory is there
  misread,    \* the packages whose dependencies were not read from their own package.noml
  builds

graph == <<todo, stack, seen, resolved, roots, fetch>>
vars == <<released, wanted, cache, other, lock, phase, mode, outcome, graph, misread,
          builds>>

Nothing == [p \in {} |-> {}]
Frame == [pkg : Pkg, needs : SUBSET Pkg, left : SUBSET Pkg]
Dir == {"absent", "bare", "empty", "whole"}
Fetch == [pkg : Pkg \cup {None}, dir : {"missing", "there"}]
NoFetch == [pkg |-> None, dir |-> "there"]
IsGraph(g) == DOMAIN g \subseteq Pkg /\ g \in [DOMAIN g -> SUBSET Pkg]

\* The types of the builds, of the files and of the recursion.
TypeOK ==
  /\ released \in Releases /\ wanted \subseteq Pkg
  /\ cache \in [Pkg -> Dir] /\ other \subseteq Pkg /\ fetch \in Fetch
  /\ IsGraph(lock) /\ IsGraph(resolved)
  /\ phase \in {"idle", "resolve"} /\ mode \in {"scratch", "lock"}
  /\ outcome \in {"none", "ok", "circular", "depth", "download", "died"}
  /\ todo \subseteq Pkg /\ stack \in Seq(Frame) /\ Len(stack) <= MaxDepth
  /\ seen \subseteq Pkg /\ roots \subseteq Pkg /\ misread \subseteq Pkg /\ builds \in Nat

NoGraph ==
  todo = {} /\ stack = <<>> /\ seen = {} /\ resolved = Nothing /\ roots = {} /\ fetch = NoFetch

Init ==
  /\ released \in Releases
  /\ wanted = {}
  /\ cache = [p \in Pkg |-> "absent"] /\ other = {}
  /\ lock = Nothing
  /\ phase = "idle" /\ mode = "scratch" /\ outcome = "none"
  /\ NoGraph
  /\ misread = {} /\ builds = 0

-----------------------------------------------------------------------------
\* The cache.  An archive holds several packages.
plain == Plain[released]
Fellows(p) == {q \in Pkg : Archive[released][q] = Archive[released][p]}

\* The directory of a package when its archive is extracted.
Final(p) == IF p \in plain THEN "bare" ELSE "whole"

\* An extraction creates directories and files in the order of the archive and writes
\* over what is there.  One that fails or dies leaves what it did: some packages done,
\* directories without their files yet, and the file it was at.
Partly(q) == {cache[q], Final(q), IF cache[q] = "absent" THEN "bare" ELSE cache[q]}
Stopped(p) ==
  \E at \in Fellows(p) :
    /\ cache' \in [Pkg -> Dir]
    /\ \A q \in Pkg \ Fellows(p) : cache'[q] = cache[q]
    /\ \A q \in Fellows(p) :
         cache'[q] \in Partly(q) \/ (q = at /\ q \notin plain /\ cache'[q] = "empty")

\* findPackageRootForDep: the directory of the package; if that has no package.noml,
\* the first directory of its archive that has one.
HasManifest(p) == cache[p] \in {"empty", "whole"}
PkgRoot(c) ==
  IF HasManifest(c) THEN {c}
  ELSE {q \in Fellows(c) : /\ HasManifest(q)
                           /\ \A r \in Fellows(c) : HasManifest(r) => ByName[q] <= ByName[r]}

\* Builds of other projects: one that found a directory missing extracts its archive,
\* over the files of one that is extracted meanwhile too.
OtherMisses(p) ==
  /\ cache[p] = "absent" /\ p \notin other
  /\ other' = other \cup Fellows(p)
  /\ UNCHANGED <<released, wanted, cache, lock, phase, mode, outcome, graph, misread,
                 builds>>

OtherExtracts(p) ==
  /\ p \in other
  /\ \/ cache[p] = "absent" /\ cache' = [cache EXCEPT ![p] = "bare"]
     \/ p \notin plain /\ cache' = [cache EXCEPT ![p] = "empty"]
     \/ cache[p] = "empty" /\ cache' = [cache EXCEPT ![p] = "whole"]
  /\ UNCHANGED <<released, wanted, other, lock, phase, mode, outcome, graph, misread,
                 builds>>

-----------------------------------------------------------------------------
\* CheckLockFile: the lock serves if it has every dependency of the project.  A
\* standard or a precompiled one is never in it.
LockServes(w, m) == lock # Nothing /\ ~m /\ w \subseteq DOMAIN lock

\* The project is edited, with dependencies w and, if m, a standard or a precompiled one,
\* and a process resolves it: EnsureDependencies.
Begin(w, m) ==
  /\ phase = "idle" /\ builds < MaxBuild /\ (w # {} \/ m)
  /\ wanted' = w
  /\ phase' = "resolve" /\ outcome' = "none" /\ builds' = builds + 1
  /\ mode' = IF LockServes(w, m) THEN "lock" ELSE "scratch"
  /\ todo' = w /\ stack' = <<>> /\ seen' = {} /\ resolved' = Nothing /\ roots' = {}
  /\ UNCHANGED <<released, cache, other, lock, fetch, misread>>

\* The loop that is running visits one of its packages, in the order of a Go map.
Top == stack[Len(stack)]
Left == IF stack = <<>> THEN todo ELSE Top.left
Visits(c) == phase = "resolve" /\ c \in Left /\ fetch.pkg \in {None, c}
\* Mutant: a package that has its node is not passed over.
Onward_Stay(c) == IF stack = <<>> \/ c \in DOMAIN resolved THEN stack
                  ELSE [stack EXCEPT ![Len(stack)].left = @ \ {c}]
Onward(c) == IF stack = <<>> THEN stack ELSE [stack EXCEPT ![Len(stack)].left = @ \ {c}]
Rest(c) == IF stack = <<>> THEN todo \ {c} ELSE todo

\* The node exists.
\* Mutant: a package in progress counts as resolved.
IsKnown_Marked(c) == c \in DOMAIN resolved \cup seen
IsKnown(c) == c \in DOMAIN resolved

Known(c) ==
  /\ Visits(c) /\ IsKnown(c)
  /\ stack' = Onward(c) /\ todo' = Rest(c)
  /\ roots' = IF stack = <<>> /\ mode = "scratch" THEN roots \cup {c} ELSE roots
  /\ UNCHANGED <<seen, resolved, fetch, released, wanted, cache, other, lock, phase, mode,
                 outcome, misread, builds>>

\* It is in progress; from a lock nothing is marked.
Marked(c) == mode = "scratch" /\ c \in seen
\* Mutants: the limit is one less, or one more.
TooDeep_Early(c) == Len(stack) + 1 >= MaxDepth
TooDeep_Late(c) == Len(stack) > MaxDepth
TooDeep(c) == Len(stack) >= MaxDepth

\* An error comes up through every level; the build ends and its graph with it.
Fail(e) ==
  /\ phase' = "idle" /\ outcome' = e
  /\ todo' = {} /\ stack' = <<>> /\ seen' = {} /\ resolved' = Nothing /\ roots' = {}
  /\ fetch' = NoFetch
  /\ UNCHANGED <<released, wanted, other, lock, mode, misread, builds>>

Circular(c) ==
  /\ Visits(c) /\ ~IsKnown(c) /\ Marked(c)
  /\ Fail("circular") /\ UNCHANGED cache

\* DownloadPackage: a directory that exists is the package, whatever is in it; for one
\* that is missing the archive is downloaded and extracted.  From a lock it is called
\* before the depth is looked at.
Fetches(c) == Visits(c) /\ ~IsKnown(c) /\ ~Marked(c) /\ (mode = "scratch" => ~TooDeep(c))
Ready(c) == Fetches(c) /\ cache[c] # "absent" /\ fetch.dir = "there"

Misses(c) ==
  /\ Fetches(c) /\ cache[c] = "absent" /\ fetch = NoFetch
  /\ fetch' = [pkg |-> c, dir |-> "missing"]
  /\ UNCHANGED <<todo, stack, seen, resolved, roots, released, wanted, cache, other, lock,
                 phase, mode, outcome, misread, builds>>

Extract ==
  /\ phase = "resolve" /\ fetch.dir = "missing"
  /\ cache' = [q \in Pkg |-> IF q \in Fellows(fetch.pkg) THEN Final(q) ELSE cache[q]]
  /\ fetch' = [fetch EXCEPT !.dir = "there"]
  /\ UNCHANGED <<todo, stack, seen, resolved, roots, released, wanted, other, lock, phase,
                 mode, outcome, misread, builds>>

\* The network, the server or the extraction fails.
Offline ==
  /\ phase = "resolve" /\ fetch.dir = "missing"
  /\ UNCHANGED cache \/ Stopped(fetch.pkg)
  /\ Fail("download")

Beyond(c) ==
  /\ IF mode = "lock" THEN Ready(c) ELSE Visits(c) /\ ~IsKnown(c) /\ ~Marked(c)
  /\ TooDeep(c)
  /\ Fail("depth") /\ UNCHANGED cache

\* The dependencies: from a lock those of the top level are the lock's; otherwise they
\* are what the package.noml that is found says; it is found and read in one step.
FromLock == mode = "lock" /\ stack = <<>>
ReadFrom(c) == UNION {released[q] : q \in {r \in PkgRoot(c) : cache[r] = "whole"}}
ItsOwn(c) == IF c \in plain THEN PkgRoot(c) = {} ELSE cache[c] = "whole"
\* Mutant: a dependency that has its node is not recorded again.
NeedsOf_New(c) == IF FromLock THEN lock[c] ELSE ReadFrom(c) \ DOMAIN resolved
NeedsOf(c) == IF FromLock THEN lock[c] ELSE ReadFrom(c)

Enter(c) ==
  /\ Ready(c) /\ ~TooDeep(c)
  /\ stack' = Append(Onward(c), [pkg |-> c, needs |-> NeedsOf(c), left |-> NeedsOf(c)])
  /\ todo' = Rest(c)
  /\ seen' = IF mode = "scratch" THEN seen \cup {c} ELSE seen
  /\ fetch' = NoFetch
  /\ misread' = IF FromLock \/ ItsOwn(c) THEN misread ELSE misread \cup {c}
  /\ UNCHANGED <<resolved, roots, released, wanted, cache, other, lock, phase, mode,
                 outcome, builds>>

\* Every dependency has its node: the package is done.
Node(p, needs) == [q \in DOMAIN resolved \cup {p} |-> IF q = p THEN needs ELSE resolved[q]]

Leave ==
  /\ phase = "resolve" /\ stack # <<>> /\ Top.left = {}
  /\ resolved' = Node(Top.pkg, Top.needs)
  /\ seen' = seen \ {Top.pkg}
  /\ stack' = SubSeq(stack, 1, Len(stack) - 1)
  /\ roots' = IF Len(stack) = 1 /\ mode = "scratch" THEN roots \cup {Top.pkg} ELSE roots
  /\ UNCHANGED <<todo, fetch, released, wanted, cache, other, lock, phase, mode, outcome,
                 misread, builds>>

-----------------------------------------------------------------------------
\* The packages reached from S in g, in one step or more: those of every set that is
\* closed under the dependencies of S and its own; DetectCycles from the roots.
Step(g, S) == UNION {g[q] : q \in S \cap DOMAIN g}
Above(g, S) == {p \in Pkg : \A C \in SUBSET Pkg : Step(g, S \cup C) \subseteq C => p \in C}
Reachable(g, S) == S \cup Above(g, S)
Cyclic(g, S) == \E p \in Reachable(g, S) : p \in Above(g, {p})

\* Every dependency of the project is resolved: the cycle check, then the lock, which
\* is written over the old one.  A lock that cannot be written is only a warning; one
\* that is cut short is not read again.
Finish ==
  /\ phase = "resolve" /\ stack = <<>> /\ todo = {}
  /\ IF Cyclic(resolved, roots)
     THEN outcome' = "circular" /\ UNCHANGED lock
     ELSE /\ outcome' = "ok"
          /\ \/ lock' = IF resolved = Nothing THEN lock ELSE resolved
             \/ UNCHANGED lock
             \/ resolved # Nothing /\ lock' = Nothing
  /\ phase' = "idle"
  /\ UNCHANGED <<graph, released, wanted, cache, other, mode, misread, builds>>

\* The process dies: between two steps, or while it extracts an archive.
Die ==
  /\ phase = "resolve"
  /\ UNCHANGED cache \/ (fetch.dir = "missing" /\ Stopped(fetch.pkg))
  /\ Fail("died")

Resolve ==
  \/ \E c \in Pkg : Known(c) \/ Circular(c) \/ Beyond(c) \/ Misses(c) \/ Enter(c)
  \/ Extract \/ Offline \/ Leave \/ Finish

Next ==
  \/ \E w \in SUBSET Pkg, m \in BOOLEAN : Begin(w, m)
  \/ Resolve \/ Die
  \/ \E p \in Pkg : OtherMisses(p) \/ OtherExtracts(p)

Spec == Init /\ [][Next]_vars
\* A process that resolves goes on; the network answers or fails.
FairSpec == Spec /\ WF_vars(Resolve)

-----------------------------------------------------------------------------
\* The nodes are closed under what they depend on, and so is the lock; each has the
\* dependencies of its release, or was misread and has none or those of a package of
\* the same archive.
Credible(p, deps) ==
  deps = released[p] \/ (p \in misread /\ deps \in {{}} \cup {released[q] : q \in Fellows(p)})
Closed(g) == \A p \in DOMAIN g : g[p] \subseteq DOMAIN g /\ Credible(p, g[p])
GraphsClosed == Closed(resolved) /\ Closed(lock)

\* A build that succeeds has every package its project needs, transitively, and no
\* other, if none of them was ever misread.
Complete ==
  (phase = "idle" /\ outcome = "ok" /\ misread = {})
    => DOMAIN resolved = Reachable(released, wanted)

\* The marks find every cycle before DetectCycles looks for one: what is resolved is
\* acyclic.  From a lock there are no marks and DetectCycles has no roots: it is the
\* depth limit, and only for the packages read twice the same.
Trusted == IF mode = "scratch" THEN DOMAIN resolved ELSE DOMAIN resolved \ misread
NothingToDetect == ~Cyclic([p \in Trusted |-> resolved[p]], Trusted)

\* A circular dependency is reported, or the depth limit, only where a path of
\* dependencies justifies it: those of the releases, and for a misread package those of
\* the packages of its archive.
Supposed ==
  [p \in Pkg |-> released[p] \cup IF p \in misread THEN UNION {released[q] : q \in Fellows(p)}
                                 ELSE {}]
LongPath ==
  \E w \in [0 .. MaxDepth -> Pkg] :
    w[0] \in wanted /\ \A i \in 1 .. MaxDepth : w[i] \in Supposed[w[i - 1]]
ErrorJustified ==
  /\ outcome = "circular" => Cyclic(Supposed, wanted)
  /\ outcome = "depth" => LongPath

\* Every build comes to an end: with the marks, or with the depth limit.
BuildEnds == phase = "resolve" ~> phase = "idle"
=============================================================================
