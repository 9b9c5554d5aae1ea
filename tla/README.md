# Verification of nolang's concurrent and stateful parts

nolang is a compiler written in Go: lexer, parser, checker, an intermediate form
called HIR, a second one called MIR with an ownership analysis, an LLVM back end, a
language server, a package manager, a formatter and a standard library. Most of it
maps a program to another program and keeps no state while it does. What can go
wrong in ways tests hardly reach is elsewhere: in the task runtime the compiler
emits into every program, in the pass that makes calls overlap, in the decisions on
who frees a value, in the goroutines of the language server, in dependency
resolution, in caches that several processes share. This directory specifies those
parts in TLA+, checks them with TLC and proves their main properties with TLAPS.
Paths below are relative to the repository's `src/`.

## 1. The system

| Component | State | Operations | Interacts with |
|---|---|---|---|
| Ready queue (`mir/codegen.go` 14767-14920) | four globals: buffer, capacity, head, tail; the current task | enqueue, yield, grow, the run loop's pop | called by `run` and `async-yield` |
| Task runtime (`mir/codegen.go` 14930-15944, `mir/builtin_call.go` 1222-1293, handle rules in `mir/hir2mir.go`) | the `%task` blocks, their counts and buffers, the current task | `run`, handle copies, `cancel`, `cancelled`, `awy` | re-entered by the bodies it drives; enqueues on the ready queue |
| Coroutine groups (`hir/async_group.go` 60-452) | the pending spawns of the planner; the rewritten block and its tasks | plan, rewrite, then the block's own run | produces the `run` and `awy` of the task runtime |
| Async colouring (`hir/async_group.go` 462-810) | the set of coloured functions | fixpoint, cloning, inline await | before and after the groups pass |
| Lowering of control flow (`mir/hir2mir.go` 2470-2620, 3340-4620) | the blocks, the current block, the open constructs, the names in scope | one handler per statement, the implicit return | produces what ownership analyses |
| Ownership (`mir/analysis.go` 1170-3500, `mir/cfg.go`) | live sets, move sources, spawn moves and retains, planned drops | liveness, copy decisions, spawn decisions, drop placement, checks | the code generator emits what it decides; the task runtime releases spawn arguments |
| Language server documents (`lsp/documents.go`, `lsp/server.go`) | documents, indices, goroutines, what the client was sent | open, change, close, parse, diagnostics, format, quick fix | JSON-RPC client; parser; module cache |
| On-disk AST cache (`parser/astdiskcache.go`) | a directory; an estimate of its size in each process | Put, evict, Get | every compiler process of the user |
| LRU caches (`cache/lru.go`) | a list and an index | Get, Put, Clear | lexer, checker; in front of the disk cache |
| Package manager (`package/`) | resolved table, in-progress marks, lock and sum files | resolve, resolve from lock, detect cycles, save | network, build driver, the cache directory all projects share |
| Build driver (`build/builder.go`, `cmd/no/main.go`) | semaphore, wait group, results | parallel build and vet | all caches |
| Standard library containers and pools (`std/collection`, `std/net/pool.no`) | rings, tables, connections | push, pop, get, put | user programs |
| Lexer, parser, checker, lowering, code generators, formatter, i18n | none that outlives a call, but for the caches above | pure passes | each other in sequence |

The behaviours that are hard to get right:

* **Re-entrance.** `awy` drives its task by a direct call. The body awaits other
  tasks, so the runtime is a stack of drives over shared cells. Nothing
  preempts; the hard part is the order in which a program uses handles.
* **Aliases of a manually counted block.** A handle is an `i64`. Copies are
  counted only where the compiler recognises them.
* **Overlap.** A spawned call of a group ends at any time, and the planner
  delays its await as far as it dares.
* **Unordered goroutines.** Each edit starts a parse, nothing orders parses.
* **Decisions taken in one pass, relied on by another.** A drop is placed from
  live sets that were computed before the copies were rewritten; a move recorded
  for a value holds for all of its paths and all of its spawn sites.
* **Several processes, failures, crashes** on the cache directories, and a lock
  file that one build leaves for the next.
* **Boundaries**: a ring that is compacted while wrapped, a cache at its limit.

What makes each component correct, as stated here: the queue is a FIFO; a counted
task is not used after it is freed, its arguments are freed once and its body runs
once; a group reads and leaves what its statements in source order would, awaits
each task once and leaves none behind, and still overlaps; a value is freed after
its last use, once, on every path, and what a task was given is still there when it
runs; what is resolved is closed under dependencies and acyclic, and resolution
ends; no edit is missed by the index and the AST and the index of a clean document
agree; no reader finds half a cache entry, and the directory is bounded.

## 2. Modules

Each `MC` module only instantiates a component for TLC. A definition with an
underscore and a suffix, such as `Full_Never`, is a plausible bug; no
specification uses it, it exists to show that a property would notice.

### ReadyQueue, FifoQueue

`q`, `cap`, `head`, `tail`, `current` are the globals of the same names. `Grow`
is `@nolang_ready_grow` with its copy loop, `Enqueue` is `@nolang_async_enqueue`
(first allocation, the full test, the store), `Yield` enqueues the current task
even when it is null, `RunOne` is one round of the run loop. `Junk` stands for
what `malloc` leaves in a slot. `FifoQueue` is the abstract queue: a sequence
and the last entry taken. `Refines` maps the window `[head, tail)` to it.

The run loop is modelled as it is emitted. No MIR program calls
`@nolang_async_run`: awaits drive tasks directly. So in `AsyncTask` the queue
only grows; that is the code, not a simplification.

### AsyncTask

| TLA+ | Code |
|---|---|
| `block`, `rc`, `done`, `cancelled`, `argbuf`, `result` | the `%task` block, its header count, its fields, its argument and result buffers |
| `handle`, `tracked` | the handle variables of each active body, and whether `asyncHandles` knows them |
| `stack`, `current` | the nested awaits in progress, `@nolang_current_task` |
| `Run`, `Rebind`, `RunInCallee`, `RunIntoCell` | `emitAsyncRun` in the four contexts that lowering distinguishes: a new variable, an assigned one, a handle returned by a function, an element of a container |
| `CopyTracked`, `CopyUntracked` | a handle copy with and without `OpTaskRetain` |
| `AwaitNull`, `AwaitDone`, `AwaitCancelled`, `AwaitEnter`, `Return` | the paths through `emitAsyncAwait` and the wrapper of `asyncWrapperFor` |
| `Cancel`, `CancelNull`, `Yield` | the builtins |
| `UseFreed`, `ReturnCrash` | undefined behaviour: a use of a freed block, a second free; `fault` records it and the program stops |

`escaped`, `abandoned`, `runs` and `outcome` are history variables. A task has
*escaped* when a reference exists that no count stands for (an untracked copy, a
container element, an argument); it was *abandoned* when a reference was
overwritten or went out of scope unawaited. A handle passed to a spawned body is
represented by a `Cell`, an element every body reaches: both are references
outside the body that created the task. `AwaitNull` changes nothing, as in the
code, where it prints a message and yields a zero.

### AsyncGroup

One specification for the pass and for the program it produces. In phase
`plan`, `PlanStep` is one round of the loop of `AsyncGroupPlan` and `PlanTail`
its end; `flush[i]` is `Steps[i].Flush`, with the tail at `N + 1`. In phase
`run` the rewritten block executes: `Spawn`, `Await`, `Execute`, `Leave` (a
return or break inside the block), while `Finish` ends a task at any time after
its spawn. The group's statements are arbitrary: `Init` ranges over every
assignment of target, uses and spawnability. A value is the number of the
statement that computed it, so "reads the right value" is a comparison of
numbers with `LastWrite`, the definition by source order.

Ending at any time is wider than what today's runtime does (a task runs when it
is awaited); it is what the pass has to be correct for, and it covers the
synchronous drive. The set of variables a statement reads is given; the walk
over its syntax tree that computes it is not modelled.

### LspDocuments

`text`, `dirty`, `ast` are the fields of `TextDocument`, `index` the manager's
indices, `job` the goroutines of `didOpen` and `didChange`, `shown` the last
diagnostics sent, `edit` the last whole-document edit sent. Handlers run one at
a time. A parse takes three steps because it holds the lock twice: `Snapshot`
(read lock), `Publish` (write lock), `Report` (no lock). A text is opaque, and
an AST or index is named by the text it came from. Versions are left out: the
code stores them and compares none of them when it publishes. `Bad` are the
texts with syntax errors. `Parse` bounds the goroutines in flight.

### AstDiskCache

`dir` is the directory as a sequence of file names, oldest first, `part` the
files not completely written. Each process runs `Put` in the steps at which
another process can see a difference: create, write, rename, list, and one
removal at a time. `WriteFails`, `RenameFails` and `Die` are the failures. The
estimate `approx` is per process and only counts its own Puts, as in the code.
`Get` changes nothing and is left out. A key is a hash of everything the content depends
on, so it names the content. Process ids are not reused in the model, and file
times order files as their writes do.

### MirLower, MirOwnership

`MirLower` is lowering: one action per statement kind, in source order, and one
for the end of each arm and loop.

| TLA+ | Code |
|---|---|
| `blocks`, `cur` | `fn.Blocks` with their instructions and terminators, the block being filled |
| `open` | `contStack` and `loopStack`, with the arm or loop that is being lowered |
| `moved` | `movedSlots` |
| `Bind`, `Copy` | a first binding, a rebind (drop the old content, move into the slot), a copy of one local to another |
| `Read`, `Write`, `Spawn` | a use that only reads, a use that may write the buffer, `run f(v)` |
| `If`, `Else`, `EndIf`, `For`, `EndFor`, `Break`, `Continue`, `Return` | the lowering of the constructs; `Terminate` and `Fall` are the two ways a terminator is set |
| `EnsureReturn` | `ensureReturn`, with `contTargets` |

`MirOwnership` goes on from there. `Visit` and `EndPass` are the backward
iteration of `Liveness`; `DecideCopies` turns copies into clones and moves;
`DecideSpawns` fills `spawnArgMoves` and `spawnArgRetains`; `PlaceDrops` is
`insertDrops` with `redundantStartDrop`, `checkMoves` and `checkDropCount`. Then
the body runs (`Step`, `Leave`, `Exit`, `RunTask`) against counted buffers, so a
wrong decision shows as a second free, a use of a freed buffer, an argument that
changed or a buffer nobody can reach. The run is the meaning of the instructions
that the code generator emits for them; `lost` and `fault` record what went wrong.

Abstractions. The locals are owned strings and slices with contents; parameters,
results, options, enums, structs, views, borrows and awaits are left out, and so
are range loops, counting loops and loops without a condition. A condition reads
no local. A temporary is moved by the instruction after it and owns nothing
then. A name bound in two arms shares a slot, as it does in the code. A task may
run at any time after its spawn, also after the body has returned: more than the
synchronous drive does today. Only the first `Len(blocks)` steps of a chain of
blocks are followed, which is all of them.

### PackageResolver

| TLA+ | Code |
|---|---|
| `released`, `wanted` | the dependencies in the `package.noml` of each release and of the project |
| `Plain`, `Archive`, `ByName` | the packages released without a `package.noml`, those of one repository and version, and the order in which `os.ReadDir` lists their directories |
| `cache` | the package directories under the user's cache: `absent`, `bare` (no `package.noml`), `empty` (one that is created and not yet written), `whole` |
| `other` | the packages of the archives that other processes may be extracting |
| `fetch` | the package a `DownloadPackage` found missing, and whether its archive is extracted |
| `lock` | `nolang.lock.noml`; empty when it is missing or cannot be read |
| `stack`, `todo` | the recursion of `resolveNode` and `ResolveFromLock` and the loop over the project's dependencies; both range over Go maps, so the next package is any of those left |
| `seen`, `resolved`, `roots` | the fields of `DependencyGraph` |
| `Begin` | `EnsureDependencies` with `CheckLockFile`; the project may have been edited since the last build |
| `Known`, `Circular`, `Beyond`, `Enter`, `Leave` | the returns of the recursion in the order of its tests, and the end of its loop |
| `Misses`, `Extract`, `Offline` | `DownloadPackage` of a missing directory: the test, the extraction over whatever is there by then, and a failure, which may leave the archive partly extracted (`Stopped`) |
| `PkgRoot`, `ReadFrom`, `NeedsOf` | `findPackageRootForDep`, the `package.noml` it leads to, and the dependencies taken from it or from the lock |
| `Fail` | an error, which comes up through every level without another effect |
| `Finish` | `DetectCycles`, `SaveLockFile`; the write may fail or be cut short |
| `Die`, `OtherMisses`, `OtherExtracts` | a killed process; builds of other projects |

`DownloadPackage` takes any directory that exists as the package, whole or not. If
it has no `package.noml`, `findPackageRoot` returns the first directory of the same
release that has one, and the package is given the dependencies of that one; an
empty `package.noml` gives none. `misread` remembers the packages that were not read
from their own: a *plain* package, released without one, is read rightly only when
no directory beside it has one. Other processes are as many as there may be: one
that found a directory missing extracts the archive, over files that somebody else
has completed in the meantime, so a whole directory can become an empty one again
and a directory that is bare can stay so.

Two reads are one step here: the directory with a `package.noml` is found and its
file read without another process in between. Package names and versions are opaque.
Left out: the sum file, which is written and never read back; workspace and local
packages, which are skipped; in a release, a `workspace.noml` and a `package.noml` one
level deeper, both places where `findPackageRoot` also looks, and directories that
have another name than the package.

## 3. What TLC checks

Every passing run ends with the whole state space explored. Deadlock is checked
for the ring, the documents and the cache. It is not for `AsyncTask` and
`MirOwnership`, where a program stops after undefined behaviour or ends, for
`AsyncGroup`, where it ends, and for `PackageResolver`, where the number of builds
is bounded.

| Run | Question and properties | Instance | States |
|---|---|---|---|
| `ready_queue` | Is the ring a queue? `TypeOK`, `Refines` | capacity from 2, up to 5 outstanding | 272 k |
| `async_alias` | Are counts exact under aliasing? `TypeOK`, `FaultOnlyEscaped`, `EveryReferenceCounted`, `RunsOnce` | 2 tasks, 2 variables per body, 2 nested awaits, counts to 3 | 932 k |
| `async_shared` | And with handles every body reaches? Is a task that has run ever called again? `IInv`, `AwaitsAgree`, `CalledWithin` | 2 tasks, 1 variable, 1 element | 204 k |
| `async_group` | Is overlap invisible? `IInv`, `ReadsAsWritten`, `EndsAsWritten`, `AwaitedOnce`, `NoTaskLeftBehind`, `OverlapKept`, `GroupEnds` | all groups of 3 statements over 2 variables | 201 k |
| `lsp_documents` | Do edits reach the index? `TypeOK`, `NoEditMissed`, `CleanIsConsistent`, `GetsIndexed` | 1 document, 3 texts, one of them bad, 3 parses | 324 k |
| `ast_cache` | Is the directory sound and bounded? `TypeOK`, `EntriesWhole`, `TmpKept`, `Bounded`, `EvictTrims`, `PutSticks` | 2 processes, 5 contents, capacity 1, one fault | 477 k |
| `mir_ownership` | Are drops placed from correct live sets, after the last use, and is what goes wrong at run time due to the known places? `TypeOK`, `LivenessSolved`, `LiveGrows`, `DroppedUnused`, `Accepted`, `FaultExplained`, `LostExplained` | all bodies of 5 statements over 2 slices in 2 dialects, nesting 2, 2 tasks | 2.59 M |
| `packages` | Is what is resolved closed, complete, acyclic, and does every build end with a justified outcome? `TypeOK`, `GraphsClosed`, `Complete`, `NothingToDetect`, `ErrorJustified`, `BuildEnds` | 2 builds over 4 graphs of 3 packages, depth limit 2 | 707 k |

Why the bounds suffice to make the cases happen:

* Five outstanding entries make a ring of two slots grow to four and to eight, with
  the window wrapped when it does.
* Two nested awaits give an outer body that has awaited and goes on. Three
  references to one task allow an alias, a rebind that counts twice and an await
  in between. Two tasks allow either to await the other.
* Three statements give a spawn, one that conflicts with it or not, and one
  after both. Two variables give independent and conflicting pairs. The theorems
  cover every length.
* Three parses of one document let an old one publish between two newer ones,
  and across a close and a reopen. Documents share nothing, so one is enough.
* Five statements give a loop with a conditional break or continue after a use,
  and a copy or a spawn before and inside it. The task case of `FaultExplained`
  takes one statement and a task more than that; longer bodies were simulated at
  random beside these runs, which is how it was found. Two locals are what a copy needs.
  One dialect has every construct with reads and copies, the other has writes
  and spawns around breaks: together they would not fit. Two tasks let two
  spawns of one local be pending. Strings differ from slices only in how a first
  copy starts, as a move instead of a clone; the second run of the module uses
  strings.
* Three packages give a shared package within the limit on one path only
  (`Diamond`), two packages over a third (`Fork`), a cycle below another package
  (`Under`) and a package that depends on itself (`Loop`). The leaf is a plain
  package in the first two, and the archives are one for all, one for each, or one
  for a package and the one it depends on. Two builds are one that leaves a lock
  (read from whatever the cache held) and one that uses it, after the directories
  may have been completed and the project changed.
* Capacity 1 with five contents makes each Put evict; one fault leaves a
  temporary file behind, which is what `EvictTrims` is about. `PutSticks` needs room for
  an entry beside such a file, which capacity 1 does not leave: in the run it speaks of
  undisturbed Puts into a clean directory only, and the case with leftovers is covered
  by its theorem. Capacity 2 with five contents does not fit.
* `MaxDepth` of `AsyncTask` cuts off an await that would be nested deeper. Safety
  needs no more: the await of a task that is being driven, which is where the recursion
  is without end in the code, takes two levels.

**Fairness.** `AsyncGroup`: the compiler and the program run on, and a spawned task
ends, since its await drives it; `Leave` needs no fairness. `LspDocuments`: the Go
scheduler runs each goroutine to its end, so each of its three steps is weakly fair
for each parse; the editor's requests are not. `ReadyQueue`, `AsyncTask` and
`AstDiskCache` have no liveness property: nothing in the repository promises one,
and an await of a task by its own body never comes back. `PackageResolver`: a
process that resolves goes on, and the network answers or fails. The client has no
timeout (`download.go:98`), so a server that accepts and never answers is outside
this assumption. `MirOwnership` needs no fairness: that the passes of liveness end
follows from `LiveGrows` on finite sets.

### Disagreements with the repository's own statements

Four runs state a sentence of the repository's documentation as an invariant, and TLC
finds a behaviour of the code that refutes it.

* `async_cancelled`: after an await, a body's `cancelled()` answers false
  although it was cancelled, since the await clears `@nolang_current_task` and
  does not restore it (`codegen.go:15862`).
* `async_result`: two awaits of one task copy out the same result descriptor, so
  owned data has two owners (`codegen.go:15888`).
* `lsp_format`: formatting renders the AST of an older text over the document
  when the last edit is not parsed yet (`server.go:673`).
* `mir_break`: in `for c { if d { read(s); break } }` the value dies in the block
  that breaks and also on the edge from the loop's header to its exit; it is
  dropped at both places, and the break path runs through both
  (`analysis.go:2430`).

The passing properties are stated so that these do not hide anything else:
`FaultOnlyEscaped` says that tasks whose references are all counted are safe;
`FaultExplained` and `LostExplained` name the only places from which a memory
error or a leak of a compiled body can come: two spawn sites of one local, the
second drop of `mir_break`, a task that shared its buffer with the local dropped
twice and reads it afterwards.

Met while modelling, and stated by no run of its own:

* A copy of a handle that a function returned is not counted (`hir2mir.go:3563`);
  such tasks are *escaped*. `t = run f()` on a variable declared before counts
  twice, and the task is never freed (`hir2mir.go:13498`); such tasks are
  *abandoned*.
* A body that awaits the handle of its own task, which it reaches through an element,
  calls the wrapper again, and again: `done` is tested before the call and set at its
  end (`codegen.go:15861`). The comment at `codegen.go:15924` says that the wrapper is
  invoked at most once per task; `CalledWithin` says when it is not.
* `run f(s); run f(s)`: whether the spawn moves is recorded for the value, so both
  wrappers release it (`mir.go:1624`, `codegen.go:15529`). This is `TwoSites`.
* Once an assignment has copied from a local, its later rebinds drop nothing, although
  the copy may have become a clone (`hir2mir.go:13797`). This is `MovedInto`.
* `redundantStartDrop` also removes the drop of a slot that is written again before
  the later drop (`analysis.go:2430`), which leaks; this is `Removed`. The write may
  be in the same block or in one that follows on the chain; the shortest body of the
  second form has seven statements (a loop over an `if` whose branch rebinds what is
  used after a `break`), more than the run's bound, and was met while proving
  `LossesExplained`. A value moved on one path leaks on the other, which the code
  accepts (`tests/mem-safety/if-branch-move-leak.no`).
* A package released without a `package.noml` is given the dependencies of a package
  beside it; if that one depends on it, a circular dependency is reported where the
  releases have none (`resolver.go:240`). No crash is needed. `Diamond`, which is
  one archive, is such a case in the run; `ErrorJustified` admits it by `Supposed`.
* A build from a lock has no marks, and `DetectCycles` no roots: when a directory is
  completed between two reads of it, a graph with a cycle is resolved and the build
  succeeds (`resolver.go:136`). Without a misread package it cannot
  (`NothingToDetect`): a cycle that the releases have is reported as too deep.
  Whether a shared dependency is too deep depends on the order of a Go map.
* An interrupted extraction leaves a directory that later builds take for the
  package (`download.go:82`); the lock is then written with the wrong dependencies.
  `VerifySumFile` and `VerifyIntegrity`, which could notice, have no callers.

## 4. What TLAPS proves

Every theorem holds for all values of the constants under the named
assumptions: `QueueAssumption` (a capacity above 1, null and junk are not
tasks), `TaskAssumption` (finitely many names and elements, disjoint from the
locals), `GroupAssumption` (a length in `Nat`), `TextAssumption` and
`CacheAssumption` (`None` is not a value; the cache's capacity is positive,
the processes are finitely many),
`LocalAssumption` and `HeapAssumption` (slices are locals, finitely many; the bound
on tasks is a number), `DialectAssumption`, `ReleaseAssumption` (releases depend on
releases, plain ones on nothing; names of directories differ; the depth limit is
positive).

* **ReadyQueue_proofs.** `QueueSafe`: the ring keeps its type and every slot of
  the window was written. `QueueRefines`: `Spec => Refines`. The argument is
  arithmetic: a step of the tail changes the size by one unless it meets the
  head (`Advance`, `OnlyEnd`), entry `i` of the window is where `mod` puts it
  (`Index`), and `Grow` keeps `Contents` (`GrowOK`).
* **AsyncTask_proofs.** `Inductive`: `Spec => []IInv`, from which `MemorySafe`,
  `CountsReferences` and `RunsAtMostOnce` follow; `TypeCorrect` comes first. The
  counts alone are not inductive. What has to be added: the references of a task
  that has not escaped are locals of *one* body (`OneBody`), so no nested body
  can release them; a driven task is alive, unfinished and held by the variable
  its caller awaits (`FramesHold`); a body not entered has no locals
  (`FreshLocals`); arguments follow `done` (`TaskLife`). The step is proved
  action by action, with the cardinality of the references moved by at most one
  (`LostRef`, `GainedRef`). `AwaitsDeliverTheSame` has an invariant of its own
  (`OneAnswer`): while the arguments are held nothing was delivered, and whatever
  was delivered is what the result buffer still holds. `CalledAgainWithin` holds for
  escaped tasks too: one that was called and is not done is on the stack (`CallInv`).
* **AsyncGroup_proofs.** `Inductive`, `SourceOrder`, `TasksAwaited`,
  `SpawnsOverlap`. The invariant has two halves. `PlanHolds`: each spawn has one
  await, after it, because of the statement there, and not later than the first
  statement that forces it. `RunHolds`: what has been awaited is what the plan
  says, and a variable either holds its last write or is the target of a task in
  flight. Reading the right values follows because a statement that reads a
  variable forces the await of every task in flight on it.
* **LspDocuments_proofs.** `TypeCorrect`, `EditsReachTheIndex`, `OneParse`:
  `NoEditMissed` and `CleanIsConsistent` for any number of documents and parses.
  Each is inductive relative to the types: an edit starts its parse in the same
  step, so a text not yet published always has a parse that carries it; AST, Dirty
  and index are written under one lock, and errors leave Dirty set.
* **AstDiskCache_proofs.** `EntriesComplete`, `BoundedAlways`, `EvictTrimsAlways`,
  `PutSticksAlways`, `TemporaryKept`, `TypeCorrect`: for any number of processes,
  any capacity and any faults. `WholeInv` says that a process about to rename has
  completed its temporary file, and that nobody else touches it: names carry the
  process id. `DirInv` says what a listing is: a sequence of distinct entries, the
  ones already passed first. The bound needs counting (`BoundInv`): entries beyond
  the capacity are those of the processes between their rename and the end of
  their eviction, so each eviction that trims, and each process that dies, moves
  both sides by as much. What one process promises alone, a full trim and an entry
  that stays, is an invariant of the runs nothing disturbed (`UndisturbedInv`).
* **MirLower_proofs.** `LowerGood` and `EnsureReturnGood`: every statement keeps
  `Shape`, a closed graph of well formed blocks, for bodies of any length and
  nesting. It is what every later proof needs to know about a body. `LowerFlow` and
  `EnsureReturnRouted` say how its blocks are connected: every block is reached
  (`Grounded`), from every block one without successors is reached (`Leads`), and where
  a value is created no path has copied it before (`CreatedFirst`). The invariant is of
  a graph still open (`Flow`): blocks without a terminator are the current one and
  those an open construct waits for, which are blank, and each loop's header is entered
  from outside its body.
* **MirOwnership_proofs.** `LiveSolved`, `PassesGrow`, `DropsAreLast`,
  `TypeCorrect`. For liveness the invariant (`LiveInv`) says that the sets are
  below what their equations give from the current sets (`Below`), from which a
  visit only grows them, and that a block visited since the last change is
  `Stable`; when a pass changes nothing, all blocks are. Rewriting copies changes
  neither uses nor definitions. For drops, a local in `gone` is not live at the
  next instruction (`LiveAt`, `DropInv`), because a drop is placed where the
  local is not live out, and the solved equations carry that along the jump. For
  the types, counts stay natural (`Again` stops a release that would not be) and a
  fresh buffer always exists: locals and tasks hold fewer than there are
  (`FreshExists`).
  `FaultsExplained` is about the run (`RunInv`). What the body looks like is in
  `BodyInv`: a drop is followed by the instruction that refills its slot, a copy that
  moves is the last use, nothing after a site that shares a value writes it. What the
  heap looks like is in `OwnInv`, as long as no value has two spawn sites. A local
  whose value is still needed, or never moves, is `Current`; it is an `Owner` unless it
  was dropped. Then an owner's buffer has a reference besides those of its tasks
  (`OwnersCounted`), no two locals own a buffer (`OwnersApart`), and a task that
  shares an owner's buffer was given it by that owner at a site already passed
  (`OwnersShare`). So an instruction names owners only and cannot fail, the drops at
  the end of a block take one reference each, and of those at its start only a drop
  at a shared edge can find none, or find a task's (`TasksCounted`). The blocks that
  follow a site are a recursive function: that it is closed under the successors
  (`ReachClosed`) takes an induction, which is done on sets of naturals (`NatSet`,
  `Saturates`).
  `NeverRejected` is about the paths (`RouteInv`). A value that insertDrops drops is moved
  nowhere, so the greatest solution of checkMoves has it unmoved in every block. A
  value that an assignment drops can be a moved one: the drop counts as a read, so the
  value is live there, and dead on every path that moved it; such a path would have to
  create it again, and none has copied it where it is created. For checkDropCount, a
  value that is not moved dies somewhere: it would otherwise be live around a set of
  blocks that never returns (`NoTrap`). If that is on an edge, the drop is kept or a
  block later on the chain drops it too (`KeptOrLater`); the last of these is kept,
  because a chain that comes back never returns either (`ChainLoops`).
  `LossesExplained` follows the buffers that should be freed (`LeakInv`), for the
  locals that `LostExplained` does not excuse. The counts are bounded from above: a
  buffer has one reference besides those of the tasks (`OneOwner`), and none after a
  drop (`DisposedFree`), or once its task's argument has another buffer (`TasksOwn`).
  What a slot holds was dropped, or its drop is still to come (`HeldDue`): the value is
  live, or created in this block, or on a chain of single successors that leaves the
  slot alone up to a drop at an edge (`Owed`). So a slot that is overwritten was dropped
  just before, and at a return nothing is left. It rests on the form of the lowered body
  (`Sound`, from `Tidy`): a block names no value before it creates it, and a slot is
  written again only after its drop, unless an assignment has copied from it.
* **PackageResolver_proofs.** `DependenciesResolved`, `AcyclicAlways`,
  `CompleteAlways`, `ErrorsJustified`, `TypeCorrect`, for any releases and limit.
  `GraphsClosed` needs the recursion: each dependency of a package in progress has
  its node, is left to visit, or is the package in progress above it (`ClosedInv`).
  It holds without marks, which is why a build from the lock is safe too. From
  scratch no node depends on itself (`Acyclic`) because a package gets its node
  after all its dependencies have theirs, and a package in progress, which is
  marked, is never entered again (`PathInv`). From a lock nothing is marked: a
  package may be entered again, get its node from the inner visit and have it
  written over by the outer one. For a package that was not misread both are the
  same, so `NothingToDetect` speaks of those (`Trusted`). Errors are justified by
  the stack, which is a path of the dependencies that were read: those of
  `Supposed`, which only grows during a build. It is longer than the limit when the
  limit is met (`LongPath`) and leads from a package to itself when it meets its
  mark (`AboveInv`). Completeness needs that what is recorded for a package that was
  not misread is its release's, and that the project's dependencies have nodes, are
  left to visit or in progress (`WantedInv`). Reachability is the least closed set
  (`Above`), so each of these is an argument about one closed set and none is an
  induction.

**Only model-checked**: liveness (`GroupEnds`, `GetsIndexed`,
`BuildEnds`), which is beyond this prover. Every invariant and action property that
a passing run checks is also a theorem.

## 5. Not modelled

The components of section 1 without a section in 2, each with its reason in
`PROJECT.json`. Passes without state (lexing, parsing, checking, formatting, and
of lowering and code generation whatever is not control flow, ownership or the
task runtime) are left out because a model would repeat the code. They are most
of its lines. The
value semantics of the language, allocation failure in emitted programs, the
network and the self-hosted compiler are outside the models too.

`PROJECT.json` lists the hazards of the code with the property that covers each,
and says why the others have none: often because nothing in the repository
states what should happen, as for a parse that publishes an older text last.

## 6. Plan

1. *Done:* ready queue, task runtime, groups, documents, disk cache; lowering and
   ownership; dependency resolution.
2. `MirOwnership`: parameters and results, options, and the loops without a
   condition; then structs, whose fields are dropped one by one.
3. `LruCache` with an abstract bounded map, and `AstLookup`, which composes it
   with `AstDiskCache` as `parseProgramFile` does. Theorem: list and index agree.
4. `Deque` and `Queue` of the standard library as rings over virtual indices
   against a sequence: every index falls inside the buffer, or a shortest
   sequence of legal calls after which it does not.
5. `AsyncColour`: the fixpoint in any order against reachability.
6. `ParallelBuild`: semaphore, wait group and results channel; no deadlock, all
   results collected.
