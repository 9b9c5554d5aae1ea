---------------------------- MODULE AstDiskCache ----------------------------
(***************************************************************************)
(* The on-disk AST cache: a directory shared by any number of compiler     *)
(* processes, each with a mutex and an estimate of the number of files of  *)
(* its own.  A process may die at any point, and leaves its files behind.  *)
(*                                                                         *)
(* The directory is the sequence of its files, oldest modification first.  *)
(* The content of an entry is named by its key: the key is a hash of all   *)
(* that the parse depends on.                                              *)
(***************************************************************************)
EXTENDS Integers, FiniteSets, SequencesExt

CONSTANTS Key,   \* contents that get cached
          Proc,  \* processes, named by their process ids
          Capacity,   \* UserASTCache.max
          Faults,    \* bound: writes that fail and processes that die
          None

ASSUME CacheAssumption ==
  Capacity \in Nat \ {0} /\ Faults \in Nat /\ IsFiniteSet(Proc) /\ None \notin Proc \cup Key

VARIABLES
  dir,     \* the files, oldest first
  part,    \* the files that are not completely written
  pc,      \* where the Put of each process is
  key,     \* the key it puts
  approx,  \* UserASTCache.approx, -1 until primed
  list,    \* evict: the files left to look at
  over,    \* evict: how many are left to remove
  faults,  \* how many of those there have been
  alone    \* history: no other process has changed dir since the Put began

disk == <<dir, part>>
counts == <<approx, list, over>>
vars == <<disk, pc, key, counts, faults, alone>>

Phase == {"idle", "create", "write", "rename", "evict", "remove", "dead"}

Entry(k) == [key |-> k, tmp |-> None]
Tmp(p) == [key |-> key[p], tmp |-> p]
Files == ToSet(dir)

\* A directory without the file of this name, if it has one: there is at most one.
Without(s, f) ==
  IF f \in ToSet(s) THEN RemoveAt(s, CHOOSE i \in DOMAIN s : s[i] = f) ELSE s

Init ==
  /\ dir = <<>> /\ part = {}
  /\ pc = [p \in Proc |-> "idle"]
  /\ key = [p \in Proc |-> None]
  /\ approx = [p \in Proc |-> -1]
  /\ list = [p \in Proc |-> <<>>]
  /\ over = [p \in Proc |-> 0]
  /\ faults = 0
  /\ alone = [p \in Proc |-> TRUE]

\* Put goes on to its next step, with its key, or returns.
Go(p, to) ==
  /\ pc' = [pc EXCEPT ![p] = to]
  /\ key' = [key EXCEPT ![p] = IF to = "idle" THEN None ELSE @]

Disturb(p) == alone' = [q \in Proc |-> alone[q] /\ (q = p \/ pc[q] = "idle")]

Fault == faults < Faults /\ faults' = faults + 1

-----------------------------------------------------------------------------
\* Put takes the mutex and counts the files the first time.
Begin(p, k) ==
  /\ pc[p] = "idle"
  /\ pc' = [pc EXCEPT ![p] = "create"]
  /\ key' = [key EXCEPT ![p] = k]
  /\ approx' = [approx EXCEPT ![p] = IF @ = -1 THEN Len(dir) ELSE @]
  /\ alone' = [alone EXCEPT ![p] = TRUE]
  /\ UNCHANGED <<disk, list, over, faults>>

\* Mutant: the entry is written in place, without a temporary file.
Create_InPlace(p) ==
  /\ pc[p] = "create"
  /\ dir' = Append(Without(dir, Entry(key[p])), Entry(key[p]))
  /\ part' = part \cup {Entry(key[p])}
  /\ Disturb(p)
  /\ Go(p, "write")
  /\ UNCHANGED <<counts, faults>>

\* os.WriteFile creates the temporary file empty,
Create(p) ==
  /\ pc[p] = "create"
  /\ dir' = Append(Without(dir, Tmp(p)), Tmp(p))
  /\ part' = part \cup {Tmp(p)}
  /\ Disturb(p)
  /\ Go(p, "write")
  /\ UNCHANGED <<counts, faults>>

\* writes it to its end,
Write(p) ==
  /\ pc[p] = "write"
  /\ part' = part \ {Tmp(p)}
  /\ Go(p, "rename")
  /\ UNCHANGED <<dir, counts, faults, alone>>

\* or fails before that: Put returns and the file stays.
WriteFails(p) ==
  /\ pc[p] = "write"
  /\ Fault
  /\ Go(p, "idle")
  /\ UNCHANGED <<disk, counts, alone>>

\* Mutant: the estimate is not kept.
Counted_Never(p) == approx[p]

\* c.approx++
Counted(p) == approx[p] + 1

\* os.Rename: the entry has the content and the age of the temporary file.
Rename(p) ==
  /\ pc[p] = "rename"
  /\ dir' = ReplaceAll(Without(dir, Entry(key[p])), Tmp(p), Entry(key[p]))
  /\ part' = {IF f = Tmp(p) THEN Entry(key[p]) ELSE f : f \in part \ {Entry(key[p])}}
  /\ approx' = [approx EXCEPT ![p] = Counted(p)]
  /\ Go(p, IF Counted(p) > Capacity THEN "evict" ELSE "idle")
  /\ Disturb(p)
  /\ UNCHANGED <<list, over, faults>>

\* os.Rename fails, and the temporary file is removed.
RenameFails(p) ==
  /\ pc[p] = "rename"
  /\ dir' = Without(dir, Tmp(p))
  /\ Go(p, "idle")
  /\ Disturb(p)
  /\ UNCHANGED <<part, counts, faults>>

-----------------------------------------------------------------------------
\* Mutants: the newest files come first; one file too few is removed.
Aged_Reverse == Reverse(dir)
Excess_OffByOne == Len(dir) - Capacity - 1

\* The files in the order evict looks at them, and how many are too many.
Aged == dir
Excess == Len(dir) - Capacity

\* evict reads the directory, not the estimate.
List(p) ==
  /\ pc[p] = "evict"
  /\ IF Excess <= 0
     THEN /\ approx' = [approx EXCEPT ![p] = Len(dir)]
          /\ Go(p, "idle")
          /\ UNCHANGED <<list, over>>
     ELSE /\ list' = [list EXCEPT ![p] = Aged]
          /\ over' = [over EXCEPT ![p] = Excess]
          /\ Go(p, "remove")
          /\ UNCHANGED approx
  /\ UNCHANGED <<disk, faults, alone>>

\* Mutant: evict takes temporary files too.
Evictable_Any(f) == TRUE

\* evict passes over temporary files.
Evictable(f) == f.tmp = None

\* Mutant: evict goes on to the end of its list.
Removing_Greedy(p) == pc[p] = "remove" /\ list[p] # <<>>

\* for i := 0; i < len(files) && over > 0; i++
Removing(p) == pc[p] = "remove" /\ over[p] > 0 /\ list[p] # <<>>

\* evict takes one more file: it may be a new one of that name, or gone already.
RemoveOne(p) ==
  LET f == Head(list[p]) IN
  /\ Removing(p)
  /\ list' = [list EXCEPT ![p] = Tail(@)]
  /\ IF Evictable(f) /\ f \in Files
     THEN /\ dir' = Without(dir, f)
          /\ over' = [over EXCEPT ![p] = @ - 1]
          /\ Disturb(p)
     ELSE UNCHANGED <<dir, over, alone>>
  /\ UNCHANGED <<part, pc, key, approx, faults>>

Ending(p) == pc[p] = "remove" /\ ~Removing(p)

\* The end of evict sets the estimate, and Put returns.
EvictEnd(p) ==
  /\ Ending(p)
  /\ approx' = [approx EXCEPT ![p] = Capacity]
  /\ list' = [list EXCEPT ![p] = <<>>]
  /\ over' = [over EXCEPT ![p] = 0]
  /\ Go(p, "idle")
  /\ UNCHANGED <<disk, faults, alone>>

\* The process dies; its files stay and its id is not used again.
Die(p) ==
  /\ pc[p] \notin {"idle", "dead"}
  /\ Fault
  /\ Go(p, "dead")
  /\ UNCHANGED <<disk, counts, alone>>

Next == \E p \in Proc :
  \/ \E k \in Key : Begin(p, k)
  \/ Create(p) \/ Write(p) \/ WriteFails(p) \/ Rename(p) \/ RenameFails(p)
  \/ List(p) \/ RemoveOne(p) \/ EvictEnd(p)
  \/ Die(p)

Spec == Init /\ [][Next]_vars
-----------------------------------------------------------------------------
Leftover == {f \in Files : f.tmp # None}

TypeOK ==
  /\ Files \subseteq [key : Key, tmp : Proc \cup {None}]
  /\ Len(dir) = Cardinality(Files)
  /\ part \subseteq [key : Key, tmp : Proc \cup {None}]
  /\ pc \in [Proc -> Phase]
  /\ key \in [Proc -> Key \cup {None}]
  /\ \A p \in Proc : pc[p] # "idle" => key[p] \in Key /\ approx[p] >= 0
  /\ faults \in 0..Faults
  /\ \A p \in Proc : approx[p] \in Int /\ over[p] \in Nat /\ ToSet(list[p]) \subseteq
       [key : Key, tmp : Proc \cup {None}]

\* A reader never finds an entry that is not complete, wherever a writer died.
EntriesWhole == \A k \in Key : Entry(k) \notin part

\* No process takes away the temporary file another is about to rename.
TmpKept == \A p \in Proc : pc[p] \in {"write", "rename"} => Tmp(p) \in Files

\* Growth is bounded across processes: each adds Capacity entries before it reads the
\* directory for the first time, and one before it comes to evict.
Bounded == Cardinality(Files \ Leftover) <= Cardinality(Proc) * (Capacity + 1)

\* An evict that no other process disturbs brings the directory back to Capacity
\* files, unless more temporary files than that were left behind.
EvictTrims ==
  \A p \in Proc : Ending(p) /\ alone[p] /\ Cardinality(Leftover) <= Capacity => Len(dir) <= Capacity

\* ... and it keeps the entry just put, although it removes by age alone.
PutSticks ==
  \A p \in Proc : Ending(p) /\ alone[p] /\ Cardinality(Leftover) < Capacity =>
    Entry(key[p]) \in Files
=============================================================================
