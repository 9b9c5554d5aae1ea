--------------------------- MODULE AstDiskCache_proofs ---------------------------
(***************************************************************************)
(* Whatever processes share the directory and wherever they die: an entry  *)
(* is complete, nobody takes a temporary file away from its writer, and    *)
(* the entries are bounded by the number of processes.  An evict that no   *)
(* other process disturbs leaves at most Capacity files, the entry just    *)
(* put among them.                                                         *)
(***************************************************************************)
EXTENDS AstDiskCache, SequenceTheorems, FiniteSetTheorems, TLAPS

-----------------------------------------------------------------------------
\* A directory has every file once.
Injective(s) == \A i, j \in DOMAIN s : s[i] = s[j] => i = j

\* A new element at the end.
LEMMA Appended ==
  ASSUME NEW S, NEW s \in Seq(S), NEW x \in S, Injective(s), x \notin ToSet(s)
  PROVE  LET t == Append(s, x) IN
         /\ t \in Seq(S) /\ Injective(t) /\ ToSet(t) = ToSet(s) \cup {x}
         /\ t # <<>> /\ Last(t) = x
<1> DEFINE t == Append(s, x)
<1>1. /\ t \in Seq(S) /\ t # <<>> /\ Len(t) = Len(s) + 1 /\ Len(s) \in Nat
      /\ \A i \in 1 .. Len(s) : t[i] = s[i]
      /\ t[Len(s) + 1] = x
  BY AppendProperties, LenProperties
<1>2. DOMAIN t = 1 .. Len(s) + 1 /\ DOMAIN s = 1 .. Len(s)
  BY <1>1, LenProperties
<1> HIDE DEF t
<1>3. Injective(t)
  BY <1>1, <1>2 DEF Injective, ToSet
<1>4. ToSet(t) = ToSet(s) \cup {x}
  <2>1. ToSet(t) \subseteq ToSet(s) \cup {x}
    BY <1>1, <1>2 DEF ToSet
  <2>2. ToSet(s) \cup {x} \subseteq ToSet(t)
    BY <1>1, <1>2 DEF ToSet
  <2> QED
    BY <2>1, <2>2
<1> QED
  BY <1>1, <1>3, <1>4 DEF Last, t

\* A sequence with one element less: the others keep their order.
LEMMA Removed ==
  ASSUME NEW S, NEW s \in Seq(S), NEW x, Injective(s)
  PROVE  LET t == Without(s, x) IN
         /\ t \in Seq(S) /\ Injective(t) /\ ToSet(t) = ToSet(s) \ {x}
         /\ s # <<>> /\ Last(s) # x => t # <<>> /\ Last(t) = Last(s)
<1>1. CASE x \notin ToSet(s)
  BY <1>1 DEF Without, ToSet
<1>2. CASE x \in ToSet(s)
  <2>1. /\ Len(s) \in Nat /\ DOMAIN s = 1 .. Len(s)
        /\ \A i \in 1 .. Len(s) : s[i] \in S
    BY LenProperties
  <2> DEFINE k == CHOOSE i \in DOMAIN s : s[i] = x
             t == RemoveAt(s, k)
             n == Len(s)
  <2>2. k \in 1 .. n /\ s[k] = x
    BY <1>2, <2>1 DEF ToSet
  <2> HIDE DEF k
  <2>3. /\ SubSeq(s, 1, k - 1) \in Seq(S) /\ Len(SubSeq(s, 1, k - 1)) = k - 1
        /\ \A i \in 1 .. k - 1 : SubSeq(s, 1, k - 1)[i] = s[i]
    <3>1. \A i \in 1 .. k - 1 : s[i] \in S
      BY <2>1, <2>2
    <3>2. /\ SubSeq(s, 1, k - 1) \in Seq(S)
          /\ Len(SubSeq(s, 1, k - 1)) = IF 1 <= k - 1 THEN (k - 1) - 1 + 1 ELSE 0
          /\ \A i \in 1 .. (k - 1) - 1 + 1 : SubSeq(s, 1, k - 1)[i] = s[1 + i - 1]
      BY <2>2, <2>1, <3>1, 1 \in Int, k - 1 \in Int, SubSeqProperties
    <3> QED
      BY <3>2, <2>2, <2>1
  <2>4. /\ SubSeq(s, k + 1, n) \in Seq(S) /\ Len(SubSeq(s, k + 1, n)) = n - k
        /\ \A i \in 1 .. n - k : SubSeq(s, k + 1, n)[i] = s[k + i]
    <3>1. \A i \in k + 1 .. n : s[i] \in S
      BY <2>1, <2>2
    <3>2. /\ SubSeq(s, k + 1, n) \in Seq(S)
          /\ Len(SubSeq(s, k + 1, n)) = IF k + 1 <= n THEN n - (k + 1) + 1 ELSE 0
          /\ \A i \in 1 .. n - (k + 1) + 1 : SubSeq(s, k + 1, n)[i] = s[(k + 1) + i - 1]
      BY <2>2, <2>1, <3>1, k + 1 \in Int, n \in Int, SubSeqProperties
    <3>3. \A i \in 1 .. n - k : i \in 1 .. n - (k + 1) + 1 /\ (k + 1) + i - 1 = k + i
      BY <2>2, <2>1
    <3>4. \A i \in 1 .. n - k : SubSeq(s, k + 1, n)[i] = s[k + i]
      BY <3>2, <3>3
    <3>5. (IF k + 1 <= n THEN n - (k + 1) + 1 ELSE 0) = n - k
      <4>1. n \in Nat /\ k \in Nat /\ k <= n
        BY <2>2, <2>1
      <4> HIDE DEF n
      <4> QED
        BY <4>1
    <3> QED
      BY <3>2, <3>4, <3>5
  <2>5. /\ t \in Seq(S) /\ Len(t) = n - 1
        /\ \A i \in 1 .. n - 1 : t[i] = IF i < k THEN s[i] ELSE s[i + 1]
    <3>1. /\ t \in Seq(S) /\ Len(t) = (k - 1) + (n - k)
          /\ \A i \in 1 .. (k - 1) + (n - k) :
               t[i] = IF i <= k - 1 THEN SubSeq(s, 1, k - 1)[i]
                      ELSE SubSeq(s, k + 1, n)[i - (k - 1)]
      BY <2>3, <2>4, ConcatProperties DEF RemoveAt
    <3>2. ASSUME NEW i \in 1 .. n - 1 PROVE t[i] = IF i < k THEN s[i] ELSE s[i + 1]
      <4>1. CASE i < k
        BY <3>1, <4>1, <2>3, <2>2, <2>1
      <4>2. CASE i >= k
        <5>1. i - (k - 1) \in 1 .. n - k /\ ~(i <= k - 1) /\ i \in 1 .. (k - 1) + (n - k)
          BY <4>2, <2>2, <2>1
        <5>2. t[i] = s[k + (i - (k - 1))]
          BY <3>1, <5>1, <2>4
        <5> QED
          BY <5>2, <4>2, <2>2, <2>1
      <4> QED
        BY <4>1, <4>2, <2>2, <2>1
    <3> QED
      BY <3>1, <3>2, <2>2, <2>1
  <2>6. DOMAIN t = 1 .. n - 1
    BY <2>5, LenProperties
  <2> HIDE DEF t
  <2>7. Injective(t)
    <3> SUFFICES ASSUME NEW i \in 1 .. n - 1, NEW j \in 1 .. n - 1, t[i] = t[j] PROVE i = j
      BY <2>6 DEF Injective
    <3> DEFINE a == IF i < k THEN i ELSE i + 1
               b == IF j < k THEN j ELSE j + 1
    <3>1. a \in 1 .. n /\ b \in 1 .. n /\ s[a] = s[b]
      BY <2>1, <2>5
    <3>2. a = b
      BY <3>1, <2>1 DEF Injective
    <3> QED
      BY <3>2, <2>2
  <2>8. ToSet(t) = ToSet(s) \ {x}
    <3>1. ASSUME NEW y \in ToSet(t) PROVE y \in ToSet(s) \ {x}
      <4>1. PICK i \in 1 .. n - 1 : y = t[i]
        BY <2>6 DEF ToSet
      <4> DEFINE a == IF i < k THEN i ELSE i + 1
      <4>2. a \in 1 .. n /\ a # k /\ y = s[a]
        BY <4>1, <2>5, <2>1, <2>2
      <4> QED
        BY <4>2, <2>1, <2>2 DEF ToSet, Injective
    <3>2. ASSUME NEW y \in ToSet(s), y # x PROVE y \in ToSet(t)
      <4>1. PICK i \in 1 .. n : y = s[i]
        BY <2>1 DEF ToSet
      <4> DEFINE a == IF i < k THEN i ELSE i - 1
      <4>2. a \in 1 .. n - 1 /\ t[a] = s[i]
        BY <4>1, <2>5, <2>1, <2>2, <3>2
      <4> QED
        BY <4>1, <4>2, <2>6 DEF ToSet
    <3> QED
      BY <3>1, <3>2
  <2>9. ASSUME Last(s) # x PROVE t # <<>> /\ Last(t) = Last(s)
    <3>1. k < n
      BY <2>9, <2>1, <2>2 DEF Last
    <3>2. n - 1 \in 1 .. n - 1 /\ ~(n - 1 < k)
      BY <3>1, <2>1, <2>2
    <3>3. t[n - 1] = s[n]
      BY <3>2, <2>5, <2>1
    <3> QED
      BY <3>2, <3>3, <2>5, <2>1, EmptySeq DEF Last
  <2> QED
    BY <1>2, <2>5, <2>7, <2>8, <2>9 DEF Without, t, k
<1> QED
  BY <1>1, <1>2

\* One element takes the place of another.
LEMMA Replaced ==
  ASSUME NEW S, NEW s \in Seq(S), NEW x \in ToSet(s), NEW y \in S, Injective(s), y \notin ToSet(s)
  PROVE  LET t == ReplaceAll(s, x, y) IN
         /\ t \in Seq(S) /\ Injective(t) /\ ToSet(t) = (ToSet(s) \ {x}) \cup {y}
         /\ t # <<>> /\ Last(t) = IF Last(s) = x THEN y ELSE Last(s)
<1>1. Len(s) \in Nat /\ DOMAIN s = 1 .. Len(s) /\ \A i \in 1 .. Len(s) : s[i] \in S
  BY LenProperties
<1> DEFINE t == ReplaceAll(s, x, y)
           n == Len(s)
<1>2. /\ t \in [1 .. n -> S] /\ DOMAIN t = 1 .. n
      /\ \A i \in 1 .. n : t[i] = IF s[i] = x THEN y ELSE s[i]
  BY <1>1 DEF ReplaceAll
<1>3. t \in Seq(S) /\ Len(t) = n
  <2>1. t \in Seq(S)
    BY <1>1, <1>2
  <2> QED
    BY <2>1, <1>1, <1>2, LenProperties
<1> HIDE DEF t
<1>4. Injective(t)
  BY <1>1, <1>2 DEF Injective, ToSet
<1>5. PICK k \in 1 .. n : s[k] = x
  BY <1>1 DEF ToSet
<1>6. ASSUME NEW z \in ToSet(t) PROVE z \in (ToSet(s) \ {x}) \cup {y}
  <2>1. PICK i \in 1 .. n : z = t[i]
    BY <1>2 DEF ToSet
  <2> QED
    BY <2>1, <1>1, <1>2 DEF ToSet
<1>7. ASSUME NEW z \in ToSet(s), z # x PROVE z \in ToSet(t)
  <2>1. PICK i \in 1 .. n : z = s[i]
    BY <1>1 DEF ToSet
  <2> QED
    BY <2>1, <1>7, <1>1, <1>2 DEF ToSet
<1>8. y \in ToSet(t)
  BY <1>5, <1>2 DEF ToSet
<1>9. n \in 1 .. n /\ t # <<>> /\ Last(t) = IF Last(s) = x THEN y ELSE Last(s)
  BY <1>5, <1>1, <1>2, <1>3, EmptySeq DEF Last
<1> QED
  BY <1>3, <1>4, <1>6, <1>7, <1>8, <1>9 DEF t

\* All but the first.
LEMMA Dropped ==
  ASSUME NEW S, NEW s \in Seq(S), Injective(s), s # <<>>
  PROVE  /\ Head(s) \in S /\ Head(s) \in ToSet(s)
         /\ Tail(s) \in Seq(S) /\ Injective(Tail(s)) /\ ToSet(Tail(s)) = ToSet(s) \ {Head(s)}
         /\ IF Tail(s) = <<>> THEN Last(s) = Head(s) ELSE Last(Tail(s)) = Last(s)
<1>1. Len(s) \in Nat \ {0} /\ DOMAIN s = 1 .. Len(s) /\ Head(s) = s[1]
  BY LenProperties, EmptySeq
<1> DEFINE t == Tail(s)
           n == Len(s)
<1>2. /\ Head(s) \in S /\ t \in Seq(S) /\ Len(t) = n - 1
      /\ \A i \in 1 .. n - 1 : t[i] = s[i + 1]
  BY HeadTailProperties
<1>3. DOMAIN t = 1 .. n - 1
  BY <1>2, LenProperties
<1> HIDE DEF t
<1>4. Injective(t)
  BY <1>1, <1>2, <1>3 DEF Injective
<1>5. ASSUME NEW z \in ToSet(t) PROVE z \in ToSet(s) \ {Head(s)}
  <2>1. PICK i \in 1 .. n - 1 : z = t[i]
    BY <1>3 DEF ToSet
  <2>2. z = s[i + 1] /\ i + 1 \in 1 .. n /\ i + 1 # 1
    BY <2>1, <1>1, <1>2
  <2> QED
    BY <2>2, <1>1 DEF ToSet, Injective
<1>6. ASSUME NEW z \in ToSet(s), z # Head(s) PROVE z \in ToSet(t)
  <2>1. PICK i \in 1 .. n : z = s[i]
    BY <1>1 DEF ToSet
  <2>2. i - 1 \in 1 .. n - 1 /\ t[i - 1] = s[i]
    BY <2>1, <1>6, <1>1, <1>2
  <2> QED
    BY <2>1, <2>2, <1>3 DEF ToSet
<1>7. Head(s) \in ToSet(s)
  BY <1>1 DEF ToSet
<1>8. IF t = <<>> THEN Last(s) = Head(s) ELSE Last(t) = Last(s)
  <2>1. CASE t = <<>>
    <3>1. Len(t) = 0
      BY <2>1, EmptySeq
    <3>2. n = 1
      <4>1. n \in Nat /\ Len(t) = n - 1
        BY <1>1, <1>2
      <4> QED
        BY <3>1, <4>1
    <3> QED
      BY <2>1, <3>2, <1>1 DEF Last
  <2>2. CASE t # <<>>
    BY <2>2, <1>1, <1>2, EmptySeq DEF Last
  <2> QED
    BY <2>1, <2>2
<1> QED
  BY <1>2, <1>4, <1>5, <1>6, <1>7, <1>8 DEF t

\* A sequence without repetition is as long as it has elements.
LEMMA LenIsCardinality ==
  ASSUME NEW S, NEW s \in Seq(S), Injective(s)
  PROVE  /\ Len(s) \in Nat /\ IsFiniteSet(ToSet(s)) /\ Len(s) = Cardinality(ToSet(s))
         /\ s # <<>> => s[Len(s)] \in ToSet(s)
<1>1. Len(s) \in Nat /\ DOMAIN s = 1 .. Len(s) /\ s \in [1 .. Len(s) -> S]
  BY LenProperties
<1>2. s \in Bijection(1 .. Len(s), ToSet(s))
  BY <1>1 DEF Injective, ToSet, Bijection, Injection, Surjection, IsInjective
<1>3. ExistsBijection(1 .. Len(s), ToSet(s))
  BY <1>2 DEF ExistsBijection
<1>4. IsFiniteSet(1 .. Len(s)) /\ Cardinality(1 .. Len(s)) = Len(s)
  BY <1>1, FS_Interval
<1>5. s # <<>> => s[Len(s)] \in ToSet(s)
  BY <1>1, EmptySeq DEF ToSet
<1> QED
  BY <1>1, <1>3, <1>4, <1>5, FS_Bijection

-----------------------------------------------------------------------------
File == [key : Key, tmp : Proc \cup {None}]

\* The directory holds every file once, a list too, and a process that is to rename
\* its temporary file has it.
DirInv ==
  /\ dir \in Seq(File) /\ Injective(dir) /\ part \subseteq File
  /\ pc \in [Proc -> Phase] /\ key \in [Proc -> Key \cup {None}]
  /\ approx \in [Proc -> Int] /\ over \in [Proc -> Nat]
  /\ list \in [Proc -> Seq(File)] /\ \A p \in Proc : Injective(list[p])
  /\ faults \in 0 .. Faults /\ alone \in [Proc -> BOOLEAN]
  /\ \A p \in Proc : approx[p] >= -1
  /\ \A p \in Proc : pc[p] # "idle" => key[p] \in Key /\ approx[p] >= 0
  /\ TmpKept

\* Files of two processes, and entries, have different names.
LEMMA NamesDiffer ==
  ASSUME NEW p \in Proc, NEW k
  PROVE  /\ Tmp(p) # Entry(k)
         /\ \A q \in Proc : q # p => Tmp(p) # Tmp(q)
BY CacheAssumption DEF Tmp, Entry

\* The files of a Put are named by its key.
LEMMA FilesOfPut ==
  ASSUME DirInv, NEW p \in Proc, pc[p] # "idle"
  PROVE  Tmp(p) \in File /\ Entry(key[p]) \in File
BY DEF DirInv, File, Tmp, Entry

\* Put's next step changes the place and the key of its process only.
LEMMA Going ==
  ASSUME DirInv, NEW p \in Proc, NEW to \in Phase, Go(p, to)
  PROVE  /\ pc' \in [Proc -> Phase] /\ key' \in [Proc -> Key \cup {None}]
         /\ pc'[p] = to /\ (to # "idle" => key'[p] = key[p] /\ Tmp(p)' = Tmp(p))
         /\ \A q \in Proc : q # p => pc'[q] = pc[q] /\ key'[q] = key[q] /\ Tmp(q)' = Tmp(q)
BY DEF DirInv, Go, Tmp

\* What each step does to the directory.
LEMMA CreateDir ==
  ASSUME DirInv, NEW p \in Proc, Create(p)
  PROVE  /\ dir' \in Seq(File) /\ Injective(dir)' /\ Files' = Files \cup {Tmp(p)}
         /\ dir' # <<>> /\ Last(dir)' = Tmp(p)
<1>1. dir \in Seq(File) /\ Injective(dir) /\ Tmp(p) \in File
  BY FilesOfPut DEF DirInv, Create
<1> DEFINE s == Without(dir, Tmp(p))
<1>2. s \in Seq(File) /\ Injective(s) /\ ToSet(s) = Files \ {Tmp(p)}
  BY <1>1, Removed DEF Files
<1>3. dir' = Append(s, Tmp(p))
  BY DEF Create
<1> HIDE DEF s
<1> QED
  BY <1>1, <1>2, <1>3, Appended DEF Files

\* os.Rename puts the entry in the place of the temporary file, as the newest file if that was.
LEMMA RenameDir ==
  ASSUME DirInv, NEW p \in Proc, Rename(p)
  PROVE  /\ dir' \in Seq(File) /\ Injective(dir)'
         /\ Tmp(p) \in Files /\ Files' = (Files \ {Tmp(p)}) \cup {Entry(key[p])}
         /\ dir' # <<>> /\ (dir # <<>> /\ Last(dir) = Tmp(p) => Last(dir)' = Entry(key[p]))
<1>1. /\ dir \in Seq(File) /\ Injective(dir) /\ Tmp(p) \in Files /\ Entry(key[p]) \in File
      /\ Tmp(p) # Entry(key[p])
  BY FilesOfPut, NamesDiffer DEF DirInv, Rename, TmpKept
<1> DEFINE s == Without(dir, Entry(key[p]))
<1>2. /\ s \in Seq(File) /\ Injective(s) /\ ToSet(s) = Files \ {Entry(key[p])}
      /\ dir # <<>> /\ Last(dir) = Tmp(p) => Last(s) = Tmp(p)
  BY <1>1, Removed DEF Files
<1>3. dir' = ReplaceAll(s, Tmp(p), Entry(key[p]))
  BY DEF Rename
<1> HIDE DEF s
<1>4. /\ dir' \in Seq(File) /\ Injective(dir') /\ dir' # <<>>
      /\ ToSet(dir') = (ToSet(s) \ {Tmp(p)}) \cup {Entry(key[p])}
      /\ Last(s) = Tmp(p) => Last(dir') = Entry(key[p])
  BY <1>1, <1>2, <1>3, Replaced
<1>5. Files' = (Files \ {Tmp(p)}) \cup {Entry(key[p])}
  BY <1>1, <1>2, <1>4 DEF Files
<1> QED
  BY <1>1, <1>2, <1>4, <1>5

\* A failed rename removes the temporary file.
LEMMA RenameFailsDir ==
  ASSUME DirInv, NEW p \in Proc, RenameFails(p)
  PROVE  dir' \in Seq(File) /\ Injective(dir)' /\ Files' = Files \ {Tmp(p)}
BY Removed DEF DirInv, RenameFails, Files

\* evict takes the file at the head of its list, if it is an entry and still there.
Victim(p) == Head(list[p])

\* RemoveOne takes its victim and nothing else.
LEMMA RemoveDir ==
  ASSUME DirInv, NEW p \in Proc, RemoveOne(p)
  PROVE  /\ dir' \in Seq(File) /\ Injective(dir)'
         /\ Files' = IF Evictable(Victim(p)) /\ Victim(p) \in Files
                     THEN Files \ {Victim(p)} ELSE Files
BY Removed DEF DirInv, RemoveOne, Files, Victim

\* ... and counts it, if it was there.
LEMMA RemoveList ==
  ASSUME DirInv, NEW p \in Proc, RemoveOne(p)
  PROVE  /\ list' \in [Proc -> Seq(File)] /\ over' \in [Proc -> Nat]
         /\ \A q \in Proc : Injective(list'[q])
         /\ \A q \in Proc : q # p => list'[q] = list[q] /\ over'[q] = over[q]
         /\ Victim(p) \in File /\ Victim(p) \in ToSet(list[p])
         /\ ToSet(list'[p]) = ToSet(list[p]) \ {Victim(p)}
         /\ IF list'[p] = <<>> THEN Last(list[p]) = Victim(p) ELSE Last(list'[p]) = Last(list[p])
         /\ over[p] > 0
         /\ over'[p] = IF Evictable(Victim(p)) /\ Victim(p) \in Files THEN over[p] - 1 ELSE over[p]
<1>1. /\ list[p] \in Seq(File) /\ Injective(list[p]) /\ list[p] # <<>> /\ over[p] \in Nat
      /\ over[p] > 0 /\ list' = [list EXCEPT ![p] = Tail(@)]
      /\ over' = IF Evictable(Victim(p)) /\ Victim(p) \in Files
                 THEN [over EXCEPT ![p] = @ - 1] ELSE over
  BY DEF DirInv, RemoveOne, Removing, Victim
<1>2. list'[p] = Tail(list[p]) /\ \A q \in Proc : q # p => list'[q] = list[q]
  BY <1>1 DEF DirInv
<1>3. /\ Victim(p) \in File /\ Victim(p) \in ToSet(list[p])
      /\ list'[p] \in Seq(File) /\ Injective(list'[p])
      /\ ToSet(list'[p]) = ToSet(list[p]) \ {Victim(p)}
      /\ IF list'[p] = <<>> THEN Last(list[p]) = Victim(p) ELSE Last(list'[p]) = Last(list[p])
  BY <1>1, <1>2, Dropped DEF Victim
<1>4. list' \in [Proc -> Seq(File)] /\ \A q \in Proc : Injective(list'[q])
  BY <1>1, <1>2, <1>3 DEF DirInv
<1>5. over' \in [Proc -> Nat] /\ \A q \in Proc : q # p => over'[q] = over[q]
  BY <1>1 DEF DirInv
<1>6. over'[p] = IF Evictable(Victim(p)) /\ Victim(p) \in Files THEN over[p] - 1 ELSE over[p]
  BY <1>1 DEF DirInv
<1> QED
  BY <1>1, <1>2, <1>3, <1>4, <1>5, <1>6

\* A process that is not in the list of evict keeps its temporary file.
LEMMA OthersKeep ==
  ASSUME DirInv, NEW p \in Proc, NEW to \in Phase, Go(p, to),
         \A q \in Proc : q # p /\ Tmp(q) \in Files => Tmp(q) \in Files',
         to \in {"write", "rename"} => Tmp(p) \in Files'
  PROVE  TmpKept'
<1> SUFFICES ASSUME NEW q \in Proc, pc'[q] \in {"write", "rename"} PROVE Tmp(q)' \in Files'
  BY DEF TmpKept
<1>1. CASE q = p
  BY <1>1, Going
<1>2. CASE q # p
  BY <1>2, Going DEF DirInv, TmpKept
<1> QED
  BY <1>1, <1>2

\* A change of the directory disturbs every other Put that is under way.
LEMMA Disturbing ==
  ASSUME DirInv, NEW p \in Proc, Disturb(p)
  PROVE  /\ alone' \in [Proc -> BOOLEAN] /\ alone'[p] = alone[p]
         /\ \A q \in Proc : q # p /\ pc[q] # "idle" => ~alone'[q]
         /\ \A q \in Proc : alone'[q] => alone[q]
BY DEF DirInv, Disturb

-----------------------------------------------------------------------------
\* The directory is empty at first.
LEMMA DirInit == Init => DirInv
<1> SUFFICES ASSUME Init PROVE DirInv
  OBVIOUS
<1>1. dir \in Seq(File) /\ Injective(dir) /\ \A p \in Proc : list[p] = <<>>
  BY EmptySeq DEF Init, Injective
<1>2. list \in [Proc -> Seq(File)] /\ \A p \in Proc : Injective(list[p])
  BY <1>1, EmptySeq DEF Init, Injective
<1>3. faults \in 0 .. Faults
  BY CacheAssumption DEF Init
<1> QED
  BY <1>1, <1>2, <1>3 DEF Init, DirInv, TmpKept, Phase

\* Begin keeps DirInv.
LEMMA DirBegin ==
  ASSUME DirInv, NEW p \in Proc, NEW k \in Key, Begin(p, k)
  PROVE  DirInv' /\ Files' = Files
<1>1. Len(dir) \in Nat
  BY LenProperties DEF DirInv
<1>2. /\ pc' \in [Proc -> Phase] /\ key' \in [Proc -> Key \cup {None}]
      /\ approx' \in [Proc -> Int] /\ alone' \in [Proc -> BOOLEAN]
      /\ \A q \in Proc : approx'[q] >= -1
      /\ \A q \in Proc : pc'[q] # "idle" => key'[q] \in Key /\ approx'[q] >= 0
  BY <1>1 DEF DirInv, Begin, Phase
<1>3. Files' = Files
  BY DEF Begin, disk, Files
<1>4. TmpKept'
  BY <1>3 DEF DirInv, Begin, TmpKept, Tmp
<1> QED
  BY <1>2, <1>3, <1>4 DEF DirInv, Begin, disk, Injective

\* Create keeps DirInv.
LEMMA DirCreate ==
  ASSUME DirInv, NEW p \in Proc, Create(p)
  PROVE  DirInv'
<1>1. Go(p, "write") /\ "write" \in Phase /\ Disturb(p) /\ pc[p] # "idle"
  BY DEF Create, Phase
<1>2. TmpKept'
  BY <1>1, CreateDir, OthersKeep
<1>3. part' \subseteq File
  BY <1>1, FilesOfPut DEF DirInv, Create
<1>4. UNCHANGED <<approx, list, over, faults>>
  BY DEF Create, counts
<1>5. \A q \in Proc : pc'[q] # "idle" => key'[q] \in Key /\ approx'[q] >= 0
  BY <1>1, <1>4, Going DEF DirInv
<1> QED
  BY <1>1, <1>2, <1>3, <1>4, <1>5, CreateDir, Going, Disturbing DEF DirInv, Injective

\* Rename keeps DirInv.
LEMMA DirRename ==
  ASSUME DirInv, NEW p \in Proc, Rename(p)
  PROVE  DirInv'
<1>1. /\ (Go(p, "evict") \/ Go(p, "idle")) /\ {"evict", "idle"} \subseteq Phase
      /\ Disturb(p) /\ pc[p] # "idle"
  BY DEF Rename, Phase
<1>2. TmpKept'
  BY <1>1, RenameDir, NamesDiffer, OthersKeep
<1>3. part' \subseteq File
  BY <1>1, FilesOfPut DEF DirInv, Rename
<1>4. /\ UNCHANGED <<list, over, faults>> /\ approx' \in [Proc -> Int]
      /\ \A q \in Proc : approx'[q] >= approx[q]
  BY DEF DirInv, Rename, Counted
<1>5. \A q \in Proc : pc'[q] # "idle" => key'[q] \in Key /\ approx'[q] >= 0
  <2> SUFFICES ASSUME NEW q \in Proc, pc'[q] # "idle"
               PROVE  key'[q] \in Key /\ approx'[q] >= 0
    OBVIOUS
  <2>1. pc[q] # "idle" /\ key'[q] = key[q]
    BY <1>1, Going
  <2>2. key[q] \in Key /\ approx[q] >= 0 /\ approx[q] \in Int /\ approx'[q] \in Int
    BY <2>1, <1>4 DEF DirInv
  <2> QED
    BY <2>1, <2>2, <1>4
<1>6. \A q \in Proc : approx'[q] >= -1
  BY <1>4 DEF DirInv
<1> QED
  BY <1>1, <1>2, <1>3, <1>4, <1>5, <1>6, RenameDir, Going, Disturbing DEF DirInv, Injective

\* RenameFails keeps DirInv.
LEMMA DirRenameFails ==
  ASSUME DirInv, NEW p \in Proc, RenameFails(p)
  PROVE  DirInv'
<1>1. Go(p, "idle") /\ "idle" \in Phase /\ Disturb(p)
  BY DEF RenameFails, Phase
<1>2. TmpKept'
  BY <1>1, RenameFailsDir, NamesDiffer, OthersKeep
<1>3. part' = part /\ UNCHANGED <<approx, list, over, faults>>
  BY DEF RenameFails, counts
<1>4. \A q \in Proc : pc'[q] # "idle" => key'[q] \in Key /\ approx'[q] >= 0
  BY <1>1, <1>3, Going DEF DirInv
<1> QED
  BY <1>1, <1>2, <1>3, <1>4, RenameFailsDir, Going, Disturbing DEF DirInv, Injective

\* Steps that leave the directory alone.
LEMMA DirSame ==
  ASSUME DirInv, NEW p \in Proc, NEW to \in Phase, Go(p, to), pc[p] # "idle",
         to \in {"write", "rename"} => pc[p] \in {"write", "rename"},
         dir' = dir, part' \subseteq part, alone' = alone, faults' \in 0 .. Faults,
         approx' \in [Proc -> Int], over' \in [Proc -> Nat],
         list' \in [Proc -> Seq(File)], \A q \in Proc : Injective(list'[q]),
         \A q \in Proc : approx'[q] = approx[q] \/ approx'[q] >= 0
  PROVE  DirInv' /\ Files' = Files
<1>1. Files' = Files
  BY DEF Files
<1>2. TmpKept'
  BY <1>1, OthersKeep DEF DirInv, TmpKept
<1>3. \A q \in Proc : pc'[q] # "idle" => key'[q] \in Key /\ approx'[q] >= 0
  <2> SUFFICES ASSUME NEW q \in Proc, pc'[q] # "idle"
               PROVE  key'[q] \in Key /\ approx'[q] >= 0
    OBVIOUS
  <2>1. pc[q] # "idle" /\ key'[q] = key[q]
    BY Going
  <2>2. key[q] \in Key /\ approx[q] >= 0
    BY <2>1 DEF DirInv
  <2> QED
    BY <2>1, <2>2
<1>4. \A q \in Proc : approx'[q] >= -1
  <2> SUFFICES ASSUME NEW q \in Proc PROVE approx'[q] >= -1
    OBVIOUS
  <2>1. approx[q] >= -1 /\ approx'[q] \in Int
    BY DEF DirInv
  <2>2. CASE approx'[q] = approx[q]
    BY <2>1, <2>2
  <2>3. CASE approx'[q] >= 0
    BY <2>1, <2>3
  <2> QED
    BY <2>2, <2>3
<1>5. part' \subseteq File
  BY DEF DirInv
<1>6. (dir \in Seq(File) /\ Injective(dir))' /\ (\A q \in Proc : Injective(list[q]))'
  BY DEF DirInv, Injective
<1>7. alone' \in [Proc -> BOOLEAN]
  BY DEF DirInv
<1>8. pc' \in [Proc -> Phase] /\ key' \in [Proc -> Key \cup {None}]
  BY Going
<1> QED
  BY <1>1, <1>2, <1>3, <1>4, <1>5, <1>6, <1>7, <1>8 DEF DirInv

\* Faults are bounded.
LEMMA DirFault ==
  ASSUME DirInv, Fault
  PROVE  faults' \in 0 .. Faults
BY CacheAssumption DEF DirInv, Fault

\* The steps of the write itself, and a death, keep DirInv.
LEMMA DirWrite ==
  ASSUME DirInv, NEW p \in Proc, Write(p) \/ WriteFails(p) \/ Die(p)
  PROVE  DirInv' /\ Files' = Files
<1>1. UNCHANGED <<dir, counts, alone>> /\ part' \subseteq part /\ faults' \in 0 .. Faults
  BY DirFault DEF Write, WriteFails, Die, disk, DirInv
<1>2. PICK to \in Phase : Go(p, to) /\ (to \in {"write", "rename"} => pc[p] = "write")
  BY DEF Write, WriteFails, Die, Phase
<1>3. pc[p] # "idle"
  BY DEF Write, WriteFails, Die
<1>4. UNCHANGED <<approx, list, over>>
  BY <1>1 DEF counts
<1> QED
  BY <1>1, <1>2, <1>3, <1>4, DirSame DEF DirInv

\* List keeps DirInv.
LEMMA DirList ==
  ASSUME DirInv, NEW p \in Proc, List(p)
  PROVE  DirInv' /\ Files' = Files
<1>1. UNCHANGED <<dir, part, faults, alone>> /\ pc[p] # "idle"
  BY DEF List, disk
<1>2. Len(dir) \in Nat /\ Capacity \in Nat
  BY CacheAssumption, LenProperties DEF DirInv
<1>3. CASE Excess <= 0
  <2>1. Go(p, "idle") /\ "idle" \in Phase /\ UNCHANGED <<list, over>> /\ approx' = [approx EXCEPT ![p] = Len(dir)]
    BY <1>3 DEF List, Phase
  <2>2. approx' \in [Proc -> Int] /\ \A q \in Proc : approx'[q] = approx[q] \/ approx'[q] >= 0
    BY <2>1, <1>2 DEF DirInv
  <2> QED
    BY <1>1, <2>1, <2>2, DirSame DEF DirInv
<1>4. CASE ~(Excess <= 0)
  <2>1. /\ Go(p, "remove") /\ "remove" \in Phase /\ approx' = approx
        /\ list' = [list EXCEPT ![p] = dir] /\ over' = [over EXCEPT ![p] = Excess]
    BY <1>4 DEF List, Phase, Aged
  <2>2. Excess \in Nat
    BY <1>4, <1>2 DEF Excess
  <2>3. /\ list' \in [Proc -> Seq(File)] /\ over' \in [Proc -> Nat]
        /\ \A q \in Proc : Injective(list'[q])
    BY <2>1, <2>2 DEF DirInv
  <2> QED
    BY <1>1, <2>1, <2>3, DirSame DEF DirInv
<1> QED
  BY <1>3, <1>4

\* RemoveOne keeps DirInv: no temporary file is evictable.
LEMMA DirRemove ==
  ASSUME DirInv, NEW p \in Proc, RemoveOne(p)
  PROVE  DirInv'
<1>1. UNCHANGED <<part, pc, key, approx, faults>>
  BY DEF RemoveOne
<1>2. alone' \in [Proc -> BOOLEAN]
  BY Disturbing DEF RemoveOne, DirInv
<1>3. \A q \in Proc : Tmp(q)' = Tmp(q) /\ (Tmp(q) \in Files => Tmp(q) \in Files')
  BY <1>1, RemoveDir, CacheAssumption DEF Tmp, Evictable
<1>4. TmpKept'
  BY <1>1, <1>3 DEF DirInv, TmpKept
<1> QED
  BY <1>1, <1>2, <1>4, RemoveDir, RemoveList DEF DirInv, Injective

\* EvictEnd keeps DirInv.
LEMMA DirEnd ==
  ASSUME DirInv, NEW p \in Proc, EvictEnd(p)
  PROVE  DirInv' /\ Files' = Files
<1>1. UNCHANGED <<dir, part, faults, alone>> /\ pc[p] # "idle" /\ Go(p, "idle") /\ "idle" \in Phase
  BY DEF EvictEnd, Ending, disk, Phase
<1>2. /\ approx' = [approx EXCEPT ![p] = Capacity] /\ Capacity \in Nat
      /\ list' = [list EXCEPT ![p] = <<>>] /\ over' = [over EXCEPT ![p] = 0]
  BY CacheAssumption DEF EvictEnd
<1>3. <<>> \in Seq(File) /\ Injective(<<>>)
  BY EmptySeq DEF Injective
<1>4. /\ approx' \in [Proc -> Int] /\ over' \in [Proc -> Nat]
      /\ \A q \in Proc : approx'[q] = approx[q] \/ approx'[q] >= 0
  BY <1>2 DEF DirInv
<1>5. list' \in [Proc -> Seq(File)] /\ \A q \in Proc : Injective(list'[q])
  BY <1>2, <1>3 DEF DirInv
<1> QED
  BY <1>1, <1>4, <1>5, DirSame DEF DirInv

\* Every step keeps DirInv.
LEMMA DirStep == DirInv /\ [Next]_vars => DirInv'
<1> SUFFICES ASSUME DirInv, [Next]_vars PROVE DirInv'
  OBVIOUS
<1>1. CASE UNCHANGED vars
  BY <1>1 DEF vars, disk, counts, DirInv, Injective, TmpKept, Tmp, Files
<1>2. ASSUME NEW p \in Proc, NEW k \in Key, Begin(p, k) PROVE DirInv'
  BY <1>2, DirBegin
<1>3. ASSUME NEW p \in Proc, Write(p) \/ WriteFails(p) \/ Die(p) PROVE DirInv'
  BY <1>3, DirWrite
<1> QED
  BY <1>1, <1>2, <1>3, DirCreate, DirRename, DirRenameFails, DirList, DirRemove, DirEnd DEF Next

\* At all times the directory holds every file once and each writer its temporary file.
THEOREM DirCorrect == Spec => []DirInv
BY DirInit, DirStep, PTL DEF Spec

\* The directory holds every file once.
THEOREM TypeCorrect == Spec => []TypeOK
<1>1. DirInv => TypeOK
  <2> SUFFICES ASSUME DirInv PROVE TypeOK
    OBVIOUS
  <2>1. Len(dir) = Cardinality(Files)
    BY LenIsCardinality DEF DirInv, Files
  <2>2. Files \subseteq File
    BY LenProperties DEF DirInv, Files, ToSet
  <2>3. \A p \in Proc : ToSet(list[p]) \subseteq File
    BY LenProperties DEF DirInv, ToSet
  <2> QED
    BY <2>1, <2>2, <2>3 DEF DirInv, TypeOK, File
<1> QED
  BY <1>1, DirCorrect, PTL

\* What a process is about to rename is there: evict and the other writers leave it alone.
THEOREM TemporaryKept == Spec => []TmpKept
<1>1. DirInv => TmpKept
  BY DEF DirInv
<1> QED
  BY <1>1, DirCorrect, PTL

-----------------------------------------------------------------------------
Entries == Files \ Leftover

\* What a process that no other has disturbed since its Put began knows: first its
\* temporary file, then its entry is the newest file; evict's list has every entry,
\* the newest last, and what is left to remove is what is too many.
Undisturbed(p) ==
  alone[p] =>
    /\ pc[p] \in {"write", "rename"} => dir # <<>> /\ Last(dir) = Tmp(p)
    /\ pc[p] = "evict" => dir # <<>> /\ Last(dir) = Entry(key[p])
    /\ pc[p] = "remove" =>
         /\ Len(dir) = Capacity + over[p]
         /\ ToSet(list[p]) \subseteq Files /\ Entries \subseteq ToSet(list[p])
         /\ list[p] # <<>> => Last(list[p]) = Entry(key[p])
         /\ Entry(key[p]) \in Files \/ Cardinality(Leftover) >= Capacity

UndisturbedInv == \A p \in Proc : Undisturbed(p)

\* The files are finitely many; evict takes entries only.
LEMMA FilesCounted ==
  ASSUME DirInv
  PROVE  /\ IsFiniteSet(Files) /\ Len(dir) = Cardinality(Files) /\ Len(dir) \in Nat
         /\ IsFiniteSet(Leftover) /\ Cardinality(Leftover) \in Nat
         /\ Cardinality(Leftover) <= Cardinality(Files)
         /\ \A f \in Files : f \in Entries <=> Evictable(f)
<1>1. IsFiniteSet(Files) /\ Len(dir) = Cardinality(Files) /\ Len(dir) \in Nat
  BY LenIsCardinality DEF DirInv, Files
<1>2. Leftover \in SUBSET Files
  BY DEF Leftover
<1>3. /\ IsFiniteSet(Leftover) /\ Cardinality(Leftover) \in Nat
      /\ Cardinality(Leftover) <= Cardinality(Files)
  BY <1>1, <1>2, FS_Subset, FS_CardinalityType
<1> QED
  BY <1>1, <1>3 DEF Entries, Leftover, Evictable

\* A process keeps what it knows while only the others go on and the directory stays.
LEMMA OthersGoOn ==
  ASSUME NEW q \in Proc, Undisturbed(q), dir' = dir, pc'[q] = pc[q], key'[q] = key[q],
         list'[q] = list[q], over'[q] = over[q], alone'[q] => alone[q]
  PROVE  Undisturbed(q)'
BY DEF Undisturbed, Entries, Leftover, Files, Tmp, Entry

\* ... and when the directory changes it knows that it has been disturbed.
LEMMA OthersDisturbed ==
  ASSUME DirInv, NEW p \in Proc, NEW q \in Proc, q # p, Disturb(p), pc'[q] = pc[q]
  PROVE  Undisturbed(q)'
BY Disturbing DEF Undisturbed

\* os.WriteFile makes its file the newest.
LEMMA UndisturbedCreate ==
  ASSUME DirInv, UndisturbedInv, NEW p \in Proc, Create(p)
  PROVE  UndisturbedInv'
<1>1. Go(p, "write") /\ "write" \in Phase /\ Disturb(p)
  BY DEF Create, Phase
<1>2. Undisturbed(p)'
  BY <1>1, Going, CreateDir DEF Undisturbed
<1>3. \A q \in Proc : q # p => Undisturbed(q)'
  BY <1>1, Going, OthersDisturbed
<1> QED
  BY <1>2, <1>3 DEF UndisturbedInv

\* The entry takes over the age of that file.
LEMMA UndisturbedRename ==
  ASSUME DirInv, UndisturbedInv, NEW p \in Proc, Rename(p)
  PROVE  UndisturbedInv'
<1>1. /\ Go(p, "evict") \/ Go(p, "idle")
      /\ {"evict", "idle"} \subseteq Phase /\ Disturb(p) /\ pc[p] = "rename"
  BY DEF Rename, Phase
<1>2. Undisturbed(p)'
  <2> SUFFICES ASSUME alone'[p], pc'[p] = "evict"
               PROVE  dir' # <<>> /\ Last(dir)' = Entry(key[p])'
    BY <1>1, Going DEF Undisturbed
  <2>1. alone[p] /\ key'[p] = key[p]
    BY <1>1, Going, Disturbing
  <2>2. dir # <<>> /\ Last(dir) = Tmp(p)
    BY <2>1, <1>1 DEF UndisturbedInv, Undisturbed
  <2> QED
    BY <2>1, <2>2, RenameDir DEF Entry
<1>3. \A q \in Proc : q # p => Undisturbed(q)'
  BY <1>1, Going, OthersDisturbed
<1> QED
  BY <1>2, <1>3 DEF UndisturbedInv

\* evict lists what is there, the new entry last.
LEMMA UndisturbedList ==
  ASSUME DirInv, UndisturbedInv, NEW p \in Proc, List(p)
  PROVE  UndisturbedInv'
<1>1. /\ pc[p] = "evict" /\ UNCHANGED <<dir, part, alone>>
      /\ Go(p, "idle") \/ Go(p, "remove")
      /\ {"idle", "remove"} \subseteq Phase
      /\ \A q \in Proc : q # p => list'[q] = list[q] /\ over'[q] = over[q]
  BY DEF List, disk, Phase, DirInv
<1>2. Undisturbed(p)'
  <2> SUFFICES ASSUME alone[p], pc'[p] = "remove"
               PROVE  Undisturbed(p)'
    BY <1>1, Going DEF Undisturbed
  <2>1. /\ ~(Excess <= 0) /\ key'[p] = key[p]
        /\ list'[p] = dir /\ over'[p] = Len(dir) - Capacity
    BY <1>1, Going DEF List, DirInv, Aged, Excess, Phase
  <2>2. dir # <<>> /\ Last(dir) = Entry(key[p])
    BY <1>1 DEF UndisturbedInv, Undisturbed
  <2>3. Entry(key[p]) \in Files
    BY <2>2, LenIsCardinality DEF DirInv, Files, Last
  <2>4. Len(dir') = Capacity + over'[p]
    BY <1>1, <2>1, FilesCounted, CacheAssumption
  <2>5. Files' = Files /\ Entries' \subseteq Files' /\ Entry(key[p])' = Entry(key[p])
    BY <1>1, <2>1 DEF Files, Entries, Entry
  <2> QED
    BY <1>1, <2>1, <2>2, <2>3, <2>4, <2>5 DEF Undisturbed, Files
<1>3. \A q \in Proc : q # p => Undisturbed(q)'
  BY <1>1, Going, OthersGoOn DEF UndisturbedInv
<1> QED
  BY <1>2, <1>3 DEF UndisturbedInv

\* It could only come to that entry when all other files are temporary ones.
LEMMA UndisturbedRemove ==
  ASSUME DirInv, UndisturbedInv, NEW p \in Proc, RemoveOne(p)
  PROVE  UndisturbedInv'
<1> DEFINE f == Victim(p)
<1>1. UNCHANGED <<pc, key>> /\ pc[p] = "remove" /\ DirInv'
  BY DirRemove DEF RemoveOne, Removing
<1>2. CASE Evictable(f) /\ f \in Files
  <2>1. Disturb(p) /\ Files' = Files \ {f} /\ over'[p] = over[p] - 1
    BY <1>2, RemoveDir, RemoveList DEF RemoveOne, Victim
  <2>2. \A q \in Proc : q # p => Undisturbed(q)'
    BY <1>1, <2>1, OthersDisturbed
  <2>3. Undisturbed(p)'
    <3> SUFFICES ASSUME alone[p] PROVE Undisturbed(p)'
      BY <2>1, Disturbing DEF Undisturbed
    <3>1. /\ Len(dir) = Capacity + over[p]
          /\ ToSet(list[p]) \subseteq Files /\ Entries \subseteq ToSet(list[p])
          /\ list[p] # <<>> => Last(list[p]) = Entry(key[p])
          /\ Entry(key[p]) \in Files \/ Cardinality(Leftover) >= Capacity
      BY <1>1 DEF UndisturbedInv, Undisturbed
    <3>2. Leftover' = Leftover /\ Entries' = Entries \ {f}
      BY <1>2, <2>1 DEF Leftover, Entries, Evictable
    <3>3. Len(dir') = Len(dir) - 1
      <4>1. Cardinality(Files \ {f}) = Cardinality(Files) - 1
        BY <1>2, FilesCounted, FS_RemoveElement
      <4>2. Len(dir') = Cardinality(Files') /\ Len(dir) = Cardinality(Files)
        BY <1>1, FilesCounted, LenIsCardinality DEF DirInv, Files
      <4> QED
        BY <4>1, <4>2, <2>1
    <3>4. Len(dir') = Capacity + over'[p]
      BY <3>1, <3>3, <2>1, RemoveList, CacheAssumption DEF DirInv
    <3>5. ToSet(list'[p]) \subseteq Files' /\ Entries' \subseteq ToSet(list'[p])
      BY <3>1, <3>2, <2>1, RemoveList
    <3>6. list'[p] # <<>> => Last(list'[p]) = Entry(key[p])
      BY <3>1, RemoveList, EmptySeq DEF RemoveOne, Removing
    <3>7. Entry(key[p]) \in Files' \/ Cardinality(Leftover') >= Capacity
      <4>1. CASE f # Entry(key[p])
        BY <4>1, <3>1, <3>2, <2>1
      <4>2. CASE f = Entry(key[p]) /\ list'[p] # <<>>
        <5>1. f \in ToSet(list'[p])
          <6>1. list'[p] \in Seq(File) /\ Injective(list'[p])
            BY RemoveList
          <6> QED
            BY <6>1, <4>2, <3>6, LenIsCardinality DEF Last
        <5> QED
          BY <5>1, RemoveList
      <4>3. CASE list'[p] = <<>>
        <5>1. ToSet(list'[p]) = {}
          BY <4>3, EmptySeq, RemoveList, LenProperties DEF ToSet
        <5>2. Files' \in SUBSET Leftover
          BY <5>1, <3>5, <3>2 DEF Entries, Leftover
        <5>3. Cardinality(Files') <= Cardinality(Leftover)
          BY <5>2, FilesCounted, FS_Subset
        <5>4. Len(dir') = Cardinality(Files') /\ over'[p] \in Nat
          BY <1>1, LenIsCardinality DEF DirInv, Files
        <5> QED
          BY <5>3, <5>4, <3>4, <3>2, FilesCounted, CacheAssumption
      <4> QED
        BY <4>1, <4>2, <4>3
    <3> QED
      BY <1>1, <3>2, <3>4, <3>5, <3>6, <3>7 DEF Undisturbed, Entry
  <2> QED
    BY <2>2, <2>3 DEF UndisturbedInv
<1>3. CASE ~(Evictable(f) /\ f \in Files)
  <2>1. UNCHANGED <<dir, over, alone>>
    BY <1>3 DEF RemoveOne, Victim
  <2>2. \A q \in Proc : q # p => Undisturbed(q)'
    BY <1>1, <2>1, RemoveList, OthersGoOn DEF UndisturbedInv
  <2>3. Undisturbed(p)'
    <3> SUFFICES ASSUME alone[p] PROVE Undisturbed(p)'
      BY <2>1 DEF Undisturbed
    <3>1. /\ Len(dir) = Capacity + over[p]
          /\ ToSet(list[p]) \subseteq Files /\ Entries \subseteq ToSet(list[p])
          /\ list[p] # <<>> => Last(list[p]) = Entry(key[p])
          /\ Entry(key[p]) \in Files \/ Cardinality(Leftover) >= Capacity
      BY <1>1 DEF UndisturbedInv, Undisturbed
    <3>2. Files' = Files /\ Leftover' = Leftover /\ Entries' = Entries
      BY <2>1 DEF Files, Leftover, Entries
    <3>3. f \notin Entries
      BY <1>3 DEF Entries, Leftover, Evictable
    <3>4. ToSet(list'[p]) \subseteq Files /\ Entries \subseteq ToSet(list'[p])
      BY <3>1, <3>3, RemoveList
    <3>5. list'[p] # <<>> => Last(list'[p]) = Entry(key[p])
      BY <3>1, RemoveList DEF RemoveOne, Removing
    <3> QED
      BY <1>1, <2>1, <3>1, <3>2, <3>4, <3>5 DEF Undisturbed, Entry
  <2> QED
    BY <2>2, <2>3 DEF UndisturbedInv
<1> QED
  BY <1>2, <1>3

\* The other steps leave the directory alone, or end the Put.
LEMMA UndisturbedRest ==
  ASSUME DirInv, UndisturbedInv, NEW p \in Proc,
         Write(p) \/ WriteFails(p) \/ RenameFails(p) \/ EvictEnd(p) \/ Die(p)
  PROVE  UndisturbedInv'
<1>1. \A q \in Proc : q # p => list'[q] = list[q] /\ over'[q] = over[q]
  BY DEF Write, WriteFails, RenameFails, EvictEnd, Die, counts, DirInv
<1>2. CASE Write(p)
  <2>1. Go(p, "rename") /\ "rename" \in Phase /\ UNCHANGED <<dir, alone>> /\ pc[p] = "write"
    BY <1>2 DEF Write, Phase
  <2>2. Undisturbed(p)'
    BY <2>1, Going DEF UndisturbedInv, Undisturbed
  <2> QED
    BY <1>1, <2>1, <2>2, Going, OthersGoOn DEF UndisturbedInv
<1>3. CASE RenameFails(p)
  <2>1. Go(p, "idle") /\ "idle" \in Phase /\ Disturb(p)
    BY <1>3 DEF RenameFails, Phase
  <2>2. Undisturbed(p)'
    BY <2>1, Going DEF Undisturbed
  <2> QED
    BY <2>1, <2>2, Going, OthersDisturbed DEF UndisturbedInv
<1>4. CASE WriteFails(p) \/ EvictEnd(p) \/ Die(p)
  <2>1. (Go(p, "idle") \/ Go(p, "dead")) /\ {"idle", "dead"} \subseteq Phase /\ UNCHANGED <<dir, alone>>
    BY <1>4 DEF WriteFails, EvictEnd, Die, Phase, disk
  <2>2. Undisturbed(p)'
    BY <2>1, Going DEF Undisturbed
  <2> QED
    BY <1>1, <2>1, <2>2, Going, OthersGoOn DEF UndisturbedInv
<1> QED
  BY <1>2, <1>3, <1>4

\* A Put begins undisturbed.
LEMMA UndisturbedBegin ==
  ASSUME DirInv, UndisturbedInv, NEW p \in Proc, NEW k \in Key, Begin(p, k)
  PROVE  UndisturbedInv'
<1>1. /\ UNCHANGED <<dir, list, over>> /\ pc'[p] = "create"
      /\ \A q \in Proc : q # p => pc'[q] = pc[q] /\ key'[q] = key[q] /\ alone'[q] = alone[q]
  BY DEF Begin, disk, DirInv
<1>2. Undisturbed(p)'
  BY <1>1 DEF Undisturbed
<1> QED
  BY <1>1, <1>2, OthersGoOn DEF UndisturbedInv

\* What an undisturbed process knows of the directory holds at every step of its Put.
THEOREM UndisturbedCorrect == Spec => []UndisturbedInv
<1>1. Init => UndisturbedInv
  BY DEF Init, UndisturbedInv, Undisturbed
<1>2. DirInv /\ UndisturbedInv /\ [Next]_vars => UndisturbedInv'
  <2> SUFFICES ASSUME DirInv, UndisturbedInv, [Next]_vars PROVE UndisturbedInv'
    OBVIOUS
  <2>1. CASE UNCHANGED vars
    BY <2>1, OthersGoOn DEF vars, disk, counts, UndisturbedInv
  <2> QED
    BY <2>1, UndisturbedBegin, UndisturbedCreate, UndisturbedRename, UndisturbedList,
       UndisturbedRemove, UndisturbedRest DEF Next
<1> QED
  BY <1>1, <1>2, DirCorrect, PTL DEF Spec

\* An evict that is not disturbed leaves at most Capacity files.
THEOREM EvictTrimsAlways == Spec => []EvictTrims
<1>1. DirInv /\ UndisturbedInv => EvictTrims
  <2> SUFFICES ASSUME DirInv, UndisturbedInv, NEW p \in Proc, Ending(p), alone[p],
                      Cardinality(Leftover) <= Capacity
               PROVE  Len(dir) <= Capacity
    BY DEF EvictTrims
  <2>1. /\ pc[p] = "remove" /\ over[p] \in Nat /\ ~(over[p] > 0 /\ list[p] # <<>>)
        /\ Len(dir) = Capacity + over[p] /\ Entries \subseteq ToSet(list[p])
    BY DEF Ending, Removing, UndisturbedInv, Undisturbed, DirInv
  <2>2. CASE over[p] = 0
    BY <2>1, <2>2, CacheAssumption
  <2>3. CASE list[p] = <<>>
    <3>1. ToSet(list[p]) = {}
      BY <2>3, EmptySeq, LenProperties DEF ToSet, DirInv
    <3>2. Files \in SUBSET Leftover
      BY <2>1, <3>1 DEF Entries
    <3>3. Cardinality(Files) <= Cardinality(Leftover)
      BY <3>2, FilesCounted, FS_Subset
    <3> QED
      BY <3>3, FilesCounted, CacheAssumption
  <2> QED
    BY <2>1, <2>2, <2>3
<1> QED
  BY <1>1, DirCorrect, UndisturbedCorrect, PTL

\* ... and the entry just put is among them.
THEOREM PutSticksAlways == Spec => []PutSticks
<1>1. DirInv /\ UndisturbedInv => PutSticks
  BY FilesCounted, CacheAssumption DEF PutSticks, Ending, UndisturbedInv, Undisturbed
<1> QED
  BY <1>1, DirCorrect, UndisturbedCorrect, PTL

-----------------------------------------------------------------------------
\* The units of Proc times Capacity + 1 that lie below a height of each process.
Unit == Proc \X (1 .. Capacity + 1)
Below(h) == {u \in Unit : u[2] <= h[u[1]]}

\* They are finitely many.
LEMMA UnitsFinite ==
  /\ IsFiniteSet(Unit) /\ Cardinality(Unit) = Cardinality(Proc) * (Capacity + 1)
  /\ Cardinality(Unit) \in Nat
  /\ \A h : /\ IsFiniteSet(Below(h)) /\ Cardinality(Below(h)) \in Nat
            /\ Cardinality(Below(h)) <= Cardinality(Unit)
<1>1. /\ IsFiniteSet(1 .. Capacity + 1) /\ Cardinality(1 .. Capacity + 1) = Capacity + 1
  BY FS_Interval, CacheAssumption
<1>2. IsFiniteSet(Unit) /\ Cardinality(Unit) = Cardinality(Proc) * (Capacity + 1)
  BY <1>1, FS_Product, CacheAssumption DEF Unit
<1>3. ASSUME NEW h
      PROVE  /\ IsFiniteSet(Below(h)) /\ Cardinality(Below(h)) \in Nat
             /\ Cardinality(Below(h)) <= Cardinality(Unit)
  <2>1. Below(h) \in SUBSET Unit
    BY DEF Below
  <2> QED
    BY <2>1, <1>2, FS_Subset, FS_CardinalityType
<1> QED
  BY <1>2, <1>3, FS_CardinalityType

\* Greater heights, more units.
LEMMA BelowGrows ==
  ASSUME NEW g \in [Proc -> Int], NEW h \in [Proc -> Int], \A p \in Proc : g[p] <= h[p]
  PROVE  Cardinality(Below(g)) <= Cardinality(Below(h))
<1>1. Below(g) \in SUBSET Below(h)
  <2> SUFFICES ASSUME NEW u \in Unit, u[2] <= g[u[1]] PROVE u[2] <= h[u[1]]
    BY DEF Below
  <2>1. u[1] \in Proc /\ u[2] \in Int
    BY CacheAssumption DEF Unit
  <2>2. g[u[1]] \in Int /\ h[u[1]] \in Int /\ g[u[1]] <= h[u[1]]
    BY <2>1
  <2> QED
    BY <2>1, <2>2
<1> QED
  BY <1>1, UnitsFinite, FS_Subset

\* One process lower by one: one unit less.
LEMMA BelowStep ==
  ASSUME NEW g \in [Proc -> Int], NEW h \in [Proc -> Int], NEW p \in Proc,
         g[p] \in 1 .. Capacity + 1, h[p] = g[p] - 1, \A q \in Proc : q # p => h[q] = g[q]
  PROVE  Cardinality(Below(h)) = Cardinality(Below(g)) - 1
<1> DEFINE x == <<p, g[p]>>
<1>1. x \in Below(g)
  BY DEF Below, Unit
<1>2. Below(h) = Below(g) \ {x}
  <2> SUFFICES ASSUME NEW u \in Unit
               PROVE  u[2] <= h[u[1]] <=> u[2] <= g[u[1]] /\ u # x
    BY DEF Below
  <2>1. u[1] \in Proc /\ u[2] \in 1 .. Capacity + 1 /\ u = <<u[1], u[2]>>
    BY DEF Unit
  <2>2. CASE u[1] # p
    BY <2>1, <2>2
  <2>3. CASE u[1] = p
    <3>1. u[2] \in Int /\ g[p] \in Int
      BY <2>1, CacheAssumption
    <3>2. u = x <=> u[2] = g[p]
      BY <2>1, <2>3
    <3>3. u[2] <= g[p] - 1 <=> u[2] <= g[p] /\ u[2] # g[p]
      BY <3>1
    <3> QED
      BY <2>3, <3>2, <3>3
  <2> QED
    BY <2>2, <2>3
<1> QED
  BY <1>1, <1>2, UnitsFinite, FS_RemoveElement

\* A process at height n leaves Capacity + 1 - n units free.
LEMMA BelowTop ==
  ASSUME NEW h \in [Proc -> Int], NEW p \in Proc, NEW n \in 0 .. Capacity + 1, h[p] <= n
  PROVE  Cardinality(Below(h)) <= Cardinality(Unit) - (Capacity + 1 - n)
<1> DEFINE F == {p} \X (n + 1 .. Capacity + 1)
<1>1. Capacity \in Nat /\ n \in Nat /\ n <= Capacity + 1 /\ h[p] \in Int
  BY CacheAssumption
<1>2. /\ IsFiniteSet(n + 1 .. Capacity + 1)
      /\ Cardinality(n + 1 .. Capacity + 1) = Capacity + 1 - n
  <2>1. /\ IsFiniteSet(n + 1 .. Capacity + 1)
        /\ Cardinality(n + 1 .. Capacity + 1) =
             IF n + 1 > Capacity + 1 THEN 0 ELSE Capacity + 1 - (n + 1) + 1
    BY <1>1, FS_Interval
  <2> QED
    BY <2>1, <1>1
<1>3. /\ IsFiniteSet(F) /\ Cardinality(F) = Capacity + 1 - n
  <2> DEFINE T == n + 1 .. Capacity + 1
             P == {p}
  <2>1. IsFiniteSet(P) /\ Cardinality(P) = 1
    BY FS_Singleton
  <2>2. IsFiniteSet(T) /\ Cardinality(T) = Capacity + 1 - n /\ F = P \X T
    BY <1>2
  <2> HIDE DEF T, P, F
  <2>3. IsFiniteSet(P \X T) /\ Cardinality(P \X T) = Cardinality(P) * Cardinality(T)
    BY <2>1, <2>2, FS_Product
  <2>4. 1 * (Capacity + 1 - n) = Capacity + 1 - n
    BY <1>1
  <2> QED
    BY <2>1, <2>2, <2>3, <2>4
<1>4. Below(h) \in SUBSET (Unit \ F)
  <2> SUFFICES ASSUME NEW u \in Below(h), u \in F PROVE FALSE
    BY DEF Below
  <2>1. u[1] = p /\ u[2] \in n + 1 .. Capacity + 1 /\ u[2] <= h[u[1]]
    BY DEF Below
  <2> QED
    BY <2>1, <1>1
<1>5. F \subseteq Unit
  BY <1>1 DEF Unit
<1>6. IsFiniteSet(Unit \ F) /\ Cardinality(Unit \ F) = Cardinality(Unit) - Cardinality(F)
  <2>1. Unit \cap F = F /\ IsFiniteSet(Unit)
    BY <1>5, UnitsFinite
  <2> HIDE DEF F
  <2>2. /\ IsFiniteSet(Unit \ F)
        /\ Cardinality(Unit \ F) = Cardinality(Unit) - Cardinality(Unit \cap F)
    BY <2>1, FS_Difference
  <2> QED
    BY <2>1, <2>2
<1>7. Cardinality(Below(h)) <= Cardinality(Unit \ F)
  BY <1>4, <1>6, FS_Subset
<1> QED
  BY <1>7, <1>6, <1>3

-----------------------------------------------------------------------------
\* The renames a process may still do before it reads the directory.
Coming(p) ==
  IF pc[p] \in {"evict", "remove", "dead"} THEN 0
  ELSE IF approx[p] = -1 THEN Capacity + 1
  ELSE IF approx[p] >= Capacity THEN 1
  ELSE Capacity + 1 - approx[p]

\* ... when those of X have come to the end of their evict.
Height(X) == [p \in Proc |-> IF p \in X THEN 1 ELSE Coming(p)]

Removers == {p \in Proc : pc[p] = "remove"}

\* How far the entries and the renames to come are beyond the bound.
Load(X) == Cardinality(Entries) + Cardinality(Below(Height(X))) - Cardinality(Unit)

\* What is beyond the bound some process of X has still to remove, and has in its list.
Covered(X) ==
  \/ Load(X) <= 0
  \/ \E x \in X : Load(X) <= over[x] /\ Load(X) <= Cardinality(Entries \cap ToSet(list[x]))

BoundInv == \A X \in SUBSET Removers : Covered(X)

\* The entries can be counted, those of a list too.
LEMMA EntriesFinite ==
  ASSUME DirInv
  PROVE  /\ IsFiniteSet(Entries) /\ Cardinality(Entries) \in Nat
         /\ \A T : /\ IsFiniteSet(Entries \cap T) /\ Cardinality(Entries \cap T) \in Nat
                  /\ Cardinality(Entries \cap T) <= Cardinality(Entries)
<1>1. IsFiniteSet(Entries)
  BY FilesCounted, FS_Difference DEF Entries
<1> QED
  BY <1>1, FS_Intersection, FS_CardinalityType

\* At most Capacity + 1 renames are to come from each process.
LEMMA ComingRange ==
  ASSUME DirInv
  PROVE  /\ \A p \in Proc : Coming(p) \in 0 .. Capacity + 1
         /\ \A X : Height(X) \in [Proc -> Int] /\ Load(X) \in Int
<1>1. ASSUME NEW p \in Proc PROVE Coming(p) \in 0 .. Capacity + 1
  <2>1. Capacity \in Nat /\ Capacity > 0 /\ approx[p] \in Int /\ approx[p] >= -1
    BY CacheAssumption DEF DirInv
  <2>2. CASE approx[p] = -1
    BY <2>1, <2>2 DEF Coming
  <2>3. CASE approx[p] # -1
    <3>1. approx[p] \in Nat
      BY <2>1, <2>3
    <3> QED
      BY <2>1, <2>3, <3>1 DEF Coming
  <2> QED
    BY <2>2, <2>3
<1>2. ASSUME NEW X PROVE Height(X) \in [Proc -> Int] /\ Load(X) \in Int
  <2>1. Height(X) \in [Proc -> Int]
    BY <1>1, CacheAssumption DEF Height
  <2> QED
    BY <2>1, EntriesFinite, UnitsFinite DEF Load
<1> QED
  BY <1>1, <1>2

\* Steps that bring no entry and no rename, and take nothing from a list.
LEMMA BoundQuiet ==
  ASSUME DirInv, DirInv', BoundInv, Entries' = Entries, Removers' \subseteq Removers,
         \A p \in Proc : Coming(p)' <= Coming(p),
         \A x \in Removers' : /\ over'[x] = over[x]
                             /\ Entries \cap ToSet(list'[x]) = Entries \cap ToSet(list[x])
  PROVE  BoundInv'
<1> SUFFICES ASSUME NEW X \in SUBSET (Removers') PROVE Covered(X)'
  BY DEF BoundInv
<1>1. Covered(X)
  BY DEF BoundInv
<1>2. Cardinality(Below(Height(X)')) <= Cardinality(Below(Height(X)))
  <2>1. Height(X) \in [Proc -> Int] /\ Height(X)' \in [Proc -> Int]
    <3>1. \A p \in Proc : Coming(p)' \in Int
      BY CacheAssumption DEF Coming, DirInv
    <3> QED
      BY <3>1, ComingRange DEF Height
  <2>2. \A p \in Proc : Height(X)'[p] <= Height(X)[p]
    BY DEF Height
  <2> QED
    BY <2>1, <2>2, BelowGrows
<1>3. Load(X)' <= Load(X) /\ Load(X) \in Int /\ Load(X)' \in Int
  <2>1. Load(X)' = Cardinality(Entries) + Cardinality(Below(Height(X)')) - Cardinality(Unit)
    BY DEF Load, Below
  <2>2. /\ Cardinality(Entries) \in Nat /\ Cardinality(Unit) \in Nat
        /\ Cardinality(Below(Height(X)')) \in Nat /\ Cardinality(Below(Height(X))) \in Nat
    BY EntriesFinite, UnitsFinite
  <2> QED
    BY <1>2, <2>1, <2>2 DEF Load
<1>4. CASE Load(X) <= 0
  BY <1>3, <1>4 DEF Covered
<1>5. ASSUME NEW x \in X, Load(X) <= over[x], Load(X) <= Cardinality(Entries \cap ToSet(list[x]))
      PROVE  Covered(X)'
  <2>1. x \in Proc /\ over[x] \in Nat /\ Cardinality(Entries \cap ToSet(list[x])) \in Nat
    BY EntriesFinite DEF Removers, DirInv
  <2>2. Load(X)' <= over'[x] /\ Load(X)' <= Cardinality(Entries \cap ToSet(list[x]))
    BY <1>3, <1>5, <2>1
  <2>3. (Entries \cap ToSet(list[x]))' = Entries \cap ToSet(list[x])
    BY DEF ToSet
  <2> QED
    BY <2>2, <2>3 DEF Covered
<1> QED
  BY <1>1, <1>4, <1>5 DEF Covered

\* An entry is a file without a process in its name.
LEMMA EntriesAre ==
  Entries = {f \in Files : f.tmp = None}
BY DEF Entries, Leftover

\* The name of a temporary file has a process in it, that of an entry has not.
LEMMA TmpIsNoEntry ==
  ASSUME NEW p \in Proc
  PROVE  Tmp(p).tmp # None /\ Entry(key[p]).tmp = None
BY CacheAssumption DEF Tmp, Entry

\* Priming the estimate promises no more renames than before.
LEMMA BoundBegin ==
  ASSUME DirInv, BoundInv, NEW p \in Proc, NEW k \in Key, Begin(p, k)
  PROVE  BoundInv'
<1>1. DirInv' /\ Entries' = Entries
  BY DirBegin DEF Entries, Leftover
<1>2. /\ UNCHANGED <<dir, list, over>> /\ pc' = [pc EXCEPT ![p] = "create"] /\ pc[p] = "idle"
      /\ approx' = [approx EXCEPT ![p] = IF @ = -1 THEN Len(dir) ELSE @]
  BY DEF Begin, disk
<1>3. Removers' \subseteq Removers
  BY <1>2 DEF Removers, DirInv
<1>4. ASSUME NEW q \in Proc PROVE Coming(q)' <= Coming(q)
  <2>0. Capacity \in Nat /\ Capacity > 0 /\ Len(dir) \in Nat /\ Coming(q) \in 0 .. Capacity + 1
    BY CacheAssumption, FilesCounted, ComingRange
  <2>1. CASE q # p \/ approx[p] # -1
    <3>1. Coming(q)' = Coming(q)
      BY <1>2, <2>1 DEF Coming, DirInv
    <3> QED
      BY <2>0, <3>1
  <2>2. CASE q = p /\ approx[p] = -1
    <3>1. approx'[p] = Len(dir) /\ pc'[p] = "create"
      BY <1>2, <2>2 DEF DirInv
    <3>2. Coming(p)' <= Capacity + 1
      BY <3>1, <2>0 DEF Coming
    <3>3. Coming(p) = Capacity + 1
      BY <1>2, <2>2 DEF Coming
    <3> QED
      BY <2>2, <3>2, <3>3
  <2> QED
    BY <2>1, <2>2
<1> QED
  BY <1>1, <1>2, <1>3, <1>4, BoundQuiet

\* Temporary files are not entries.
LEMMA BoundCreate ==
  ASSUME DirInv, BoundInv, NEW p \in Proc, Create(p) \/ RenameFails(p)
  PROVE  BoundInv'
<1>1. DirInv' /\ Entries' = Entries
  BY DirCreate, CreateDir, DirRenameFails, RenameFailsDir, TmpIsNoEntry DEF Entries, Leftover
<1>2. /\ UNCHANGED <<approx, list, over>> /\ pc[p] \in {"create", "rename"}
      /\ pc' = [pc EXCEPT ![p] = "write"] \/ pc' = [pc EXCEPT ![p] = "idle"]
  BY DEF Create, RenameFails, counts, Go
<1>3. Removers' \subseteq Removers
  BY <1>2 DEF Removers, DirInv
<1>4. ASSUME NEW q \in Proc PROVE Coming(q)' <= Coming(q)
  <2>1. Coming(q)' = Coming(q)
    BY <1>2 DEF Coming, DirInv
  <2> QED
    BY <2>1, ComingRange, CacheAssumption
<1> QED
  BY <1>1, <1>2, <1>3, <1>4, BoundQuiet

\* ... whether they are finished or not.
LEMMA BoundWrite ==
  ASSUME DirInv, BoundInv, NEW p \in Proc, Write(p) \/ WriteFails(p) \/ Die(p)
  PROVE  BoundInv'
<1>1. DirInv' /\ Entries' = Entries
  BY DirWrite DEF Entries, Leftover
<1>2. /\ UNCHANGED <<approx, list, over>> /\ pc[p] # "idle"
      /\ \/ pc[p] = "write" /\ pc' = [pc EXCEPT ![p] = "rename"]
         \/ pc[p] = "write" /\ pc' = [pc EXCEPT ![p] = "idle"]
         \/ pc' = [pc EXCEPT ![p] = "dead"]
  BY DEF Write, WriteFails, Die, counts, Go
<1>3. Removers' \subseteq Removers
  BY <1>2 DEF Removers, DirInv
<1>4. ASSUME NEW q \in Proc PROVE Coming(q)' <= Coming(q)
  <2>1. Coming(q)' = Coming(q) \/ Coming(q)' = 0
    BY <1>2 DEF Coming, DirInv
  <2> QED
    BY <2>1, ComingRange, CacheAssumption
<1> QED
  BY <1>1, <1>2, <1>3, <1>4, BoundQuiet

\* A rename brings one entry and is one rename less to come.
LEMMA BoundRename ==
  ASSUME DirInv, BoundInv, NEW p \in Proc, Rename(p)
  PROVE  BoundInv'
<1> DEFINE e == Entry(key[p])
<1>1. DirInv' /\ Entries' = Entries \cup {e}
  BY DirRename, RenameDir, TmpIsNoEntry DEF Entries, Leftover
<1>2. /\ UNCHANGED <<list, over>> /\ pc[p] = "rename" /\ approx' = [approx EXCEPT ![p] = @ + 1]
      /\ pc' = [pc EXCEPT ![p] = IF approx[p] + 1 > Capacity THEN "evict" ELSE "idle"]
  BY DEF Rename, Counted, Go
<1>3. Removers' = Removers /\ p \notin Removers
  BY <1>2 DEF Removers, DirInv
<1>4. /\ Coming(p) \in 1 .. Capacity + 1 /\ Coming(p)' = Coming(p) - 1
      /\ \A q \in Proc : q # p => Coming(q)' = Coming(q)
  <2>1. /\ Capacity \in Nat /\ Capacity > 0 /\ approx[p] \in Int /\ approx[p] >= 0
        /\ approx'[p] = approx[p] + 1
        /\ pc'[p] = IF approx[p] + 1 > Capacity THEN "evict" ELSE "idle"
    BY <1>2, CacheAssumption DEF DirInv
  <2>2. Coming(p) = IF approx[p] >= Capacity THEN 1 ELSE Capacity + 1 - approx[p]
    BY <1>2, <2>1 DEF Coming
  <2>3. Coming(p)' = IF approx[p] + 1 > Capacity THEN 0
                     ELSE IF approx[p] + 1 >= Capacity THEN 1 ELSE Capacity + 1 - (approx[p] + 1)
    BY <2>1 DEF Coming
  <2>4. \A q \in Proc : q # p => Coming(q)' = Coming(q)
    BY <1>2 DEF Coming, DirInv
  <2> QED
    BY <2>1, <2>2, <2>3, <2>4
<1> SUFFICES ASSUME NEW X \in SUBSET Removers PROVE Covered(X)'
  BY <1>3 DEF BoundInv
<1>5. Covered(X) /\ p \notin X
  BY <1>3 DEF BoundInv
<1>6. Cardinality(Below(Height(X)')) = Cardinality(Below(Height(X))) - 1
  <2>1. /\ Height(X) \in [Proc -> Int] /\ Height(X)[p] = Coming(p)
        /\ Height(X)'[p] = Coming(p) - 1
        /\ \A q \in Proc : q # p => Height(X)'[q] = Height(X)[q]
    BY <1>4, <1>5, ComingRange DEF Height
  <2>2. Height(X)' \in [Proc -> Int]
    <3>1. \A q \in Proc : Coming(q)' \in Int
      BY <1>4, ComingRange, CacheAssumption
    <3> QED
      BY <3>1 DEF Height
  <2> QED
    BY <1>4, <2>1, <2>2, BelowStep
<1>7. Cardinality(Entries') <= Cardinality(Entries) + 1 /\ Cardinality(Entries') \in Nat
  <2>1. IsFiniteSet(Entries) /\ Cardinality(Entries) \in Nat
    BY EntriesFinite
  <2>2. Cardinality(Entries \cup {e}) = IF e \in Entries THEN Cardinality(Entries)
                                      ELSE Cardinality(Entries) + 1
    BY <2>1, FS_AddElement
  <2> QED
    BY <1>1, <2>1, <2>2
<1>8. Load(X)' <= Load(X) /\ Load(X) \in Int /\ Load(X)' \in Int
  <2>1. Load(X)' = Cardinality(Entries') + Cardinality(Below(Height(X)')) - Cardinality(Unit)
    BY DEF Load, Below
  <2>2. /\ Cardinality(Entries) \in Nat /\ Cardinality(Unit) \in Nat
        /\ Cardinality(Below(Height(X)')) \in Nat /\ Cardinality(Below(Height(X))) \in Nat
    BY EntriesFinite, UnitsFinite
  <2> QED
    BY <1>6, <1>7, <2>1, <2>2 DEF Load
<1>9. CASE Load(X) <= 0
  BY <1>8, <1>9 DEF Covered
<1>10. ASSUME NEW x \in X, Load(X) <= over[x], Load(X) <= Cardinality(Entries \cap ToSet(list[x]))
       PROVE  Covered(X)'
  <2> DEFINE T == ToSet(list[x])
  <2>1. /\ x \in Proc /\ over[x] \in Nat /\ Cardinality(Entries \cap T) \in Nat
        /\ IsFiniteSet(Entries \cup {e})
    BY EntriesFinite, FS_AddElement DEF Removers, DirInv
  <2>2. (Entries \cap ToSet(list[x]))' = (Entries \cup {e}) \cap T
    BY <1>1, <1>2 DEF ToSet
  <2>3. Entries \cap T \in SUBSET ((Entries \cup {e}) \cap T)
    OBVIOUS
  <2> HIDE DEF T, e
  <2>4. IsFiniteSet((Entries \cup {e}) \cap T)
    BY <2>1, FS_Intersection
  <2>5. /\ Cardinality(Entries \cap T) <= Cardinality((Entries \cup {e}) \cap T)
        /\ Cardinality((Entries \cup {e}) \cap T) \in Nat
    BY <2>3, <2>4, FS_Subset, FS_CardinalityType
  <2>6. /\ Load(X)' <= over'[x] /\ Load(X)' <= Cardinality((Entries \cup {e}) \cap T)
    BY <1>2, <1>8, <1>10, <2>1, <2>5 DEF T
  <2> QED
    BY <2>2, <2>6 DEF Covered
<1> QED
  BY <1>5, <1>9, <1>10 DEF Covered

\* What is beyond the bound when one process is known to have at most n renames to come.
LEMMA LoadBelow ==
  ASSUME DirInv, NEW p \in Proc, NEW X, NEW n \in 0 .. Capacity + 1, Height(X)[p] <= n
  PROVE  Load(X) <= Cardinality(Entries) - (Capacity + 1 - n)
<1>1. Cardinality(Below(Height(X))) <= Cardinality(Unit) - (Capacity + 1 - n)
  BY ComingRange, BelowTop
<1>2. /\ Cardinality(Entries) \in Nat /\ Cardinality(Unit) \in Nat
      /\ Cardinality(Below(Height(X))) \in Nat /\ Capacity \in Nat /\ n \in Int
  BY EntriesFinite, UnitsFinite, CacheAssumption
<1> QED
  BY <1>1, <1>2 DEF Load

\* The directory as it is read decides: at most Capacity files, or all of them listed.
LEMMA BoundList ==
  ASSUME DirInv, BoundInv, NEW p \in Proc, List(p)
  PROVE  BoundInv'
<1>1. DirInv' /\ Files' = Files /\ Entries' = Entries /\ pc[p] = "evict"
  BY DirList DEF Entries, Leftover, List
<1>2. /\ Len(dir) \in Nat /\ Capacity \in Nat /\ Capacity > 0
      /\ IsFiniteSet(Entries) /\ Cardinality(Entries) \in Nat
      /\ Cardinality(Entries) <= Len(dir)
  <2>1. Entries \in SUBSET Files
    BY DEF Entries
  <2>2. Cardinality(Entries) <= Cardinality(Files)
    BY <2>1, FilesCounted, FS_Subset
  <2> QED
    BY <2>2, FilesCounted, EntriesFinite, CacheAssumption
<1>3. CASE Excess <= 0
  <2>1. /\ UNCHANGED <<list, over>> /\ approx' = [approx EXCEPT ![p] = Len(dir)]
        /\ pc' = [pc EXCEPT ![p] = "idle"] /\ Len(dir) <= Capacity
    BY <1>2, <1>3 DEF List, Go, Excess
  <2>2. Removers' = Removers /\ p \notin Removers
    BY <1>1, <2>1 DEF Removers, DirInv
  <2>3. Coming(p)' <= Capacity + 1 - Len(dir)
    <3>1. approx'[p] = Len(dir) /\ pc'[p] = "idle"
      BY <2>1 DEF DirInv
    <3> QED
      BY <3>1, <2>1, <1>2 DEF Coming
  <2> SUFFICES ASSUME NEW X \in SUBSET Removers PROVE Load(X)' <= 0
    BY <2>2 DEF BoundInv, Covered
  <2>4. Height(X)'[p] <= Capacity + 1 - Len(dir) /\ Height(X)' \in [Proc -> Int]
    <3>1. \A q \in Proc : Coming(q)' \in Int
      BY <1>1, CacheAssumption DEF Coming, DirInv
    <3> QED
      BY <3>1, <2>2, <2>3 DEF Height
  <2>5. Capacity + 1 - Len(dir) \in 0 .. Capacity + 1
    BY <1>2, <2>1
  <2>6. Cardinality(Below(Height(X)')) <= Cardinality(Unit) - (Capacity + 1 - (Capacity + 1 - Len(dir)))
    BY <2>4, <2>5, BelowTop
  <2>7. Load(X)' = Cardinality(Entries) + Cardinality(Below(Height(X)')) - Cardinality(Unit)
    BY <1>1 DEF Load, Below
  <2>8. Cardinality(Below(Height(X)')) \in Nat /\ Cardinality(Unit) \in Nat
    BY UnitsFinite
  <2> QED
    BY <1>2, <2>6, <2>7, <2>8
<1>4. CASE ~(Excess <= 0)
  <2>1. /\ list' = [list EXCEPT ![p] = dir] /\ over' = [over EXCEPT ![p] = Excess]
        /\ pc' = [pc EXCEPT ![p] = "remove"] /\ approx' = approx
    BY <1>4 DEF List, Go, Aged
  <2>2. Removers' = Removers \cup {p} /\ p \notin Removers
    BY <1>1, <2>1 DEF Removers, DirInv
  <2>3. \A q \in Proc : Coming(q)' = Coming(q)
    BY <1>1, <2>1 DEF Coming, DirInv
  <2>4. \A X : Load(X)' = Load(X)
    BY <2>3, <1>1 DEF Load, Height, Below
  <2> SUFFICES ASSUME NEW X \in SUBSET (Removers \cup {p}) PROVE Covered(X)'
    BY <2>2 DEF BoundInv
  <2>5. CASE p \in X
    <3>1. Load(X) <= Cardinality(Entries) - (Capacity + 1 - 1)
      BY <2>5, <1>2, LoadBelow DEF Height
    <3>2. over'[p] = Len(dir) - Capacity /\ list'[p] = dir
      BY <2>1 DEF DirInv, Excess
    <3>3. (Entries \cap ToSet(list[p]))' = Entries
      BY <1>1, <3>2 DEF Entries, Files
    <3>4. Load(X) \in Int
      BY ComingRange
    <3>5. Load(X)' <= over'[p] /\ Load(X)' <= Cardinality(Entries)
      BY <1>2, <2>4, <3>1, <3>2, <3>4
    <3> QED
      BY <2>5, <3>3, <3>5 DEF Covered
  <2>6. CASE p \notin X
    <3>1. Covered(X) /\ \A x \in X : x \in Proc /\ over'[x] = over[x] /\ list'[x] = list[x]
      BY <2>6, <2>1 DEF BoundInv, Removers, DirInv
    <3>2. \A x \in X : (Entries \cap ToSet(list[x]))' = Entries \cap ToSet(list[x])
      BY <1>1, <3>1 DEF ToSet
    <3> QED
      BY <2>4, <3>1, <3>2 DEF Covered
  <2> QED
    BY <2>5, <2>6
<1> QED
  BY <1>3, <1>4

\* What evict removes is one less of everything.
LEMMA BoundRemove ==
  ASSUME DirInv, BoundInv, NEW p \in Proc, RemoveOne(p)
  PROVE  BoundInv'
<1> DEFINE f == Victim(p)
<1>1. UNCHANGED <<pc, approx>> /\ pc[p] = "remove" /\ DirInv'
  BY DirRemove DEF RemoveOne, Removing
<1>2. Removers' = Removers /\ \A q \in Proc : Coming(q)' = Coming(q)
  BY <1>1 DEF Removers, Coming
<1>3. CASE f \notin Entries
  <2>1. Files' = Files /\ over'[p] = over[p]
    BY <1>3, RemoveDir, RemoveList, FilesCounted
  <2>2. Entries' = Entries
    BY <2>1 DEF Entries, Leftover
  <2>3. \A x \in Removers' : over'[x] = over[x] /\ Entries \cap ToSet(list'[x]) = Entries \cap ToSet(list[x])
    BY <1>2, <1>3, <2>1, RemoveList DEF Removers
  <2>4. \A q \in Proc : Coming(q)' <= Coming(q)
    BY <1>2, ComingRange, CacheAssumption
  <2> QED
    BY <1>1, <1>2, <2>2, <2>3, <2>4, BoundQuiet
<1>4. CASE f \in Entries
  <2>1. Files' = Files \ {f} /\ over'[p] = over[p] - 1 /\ f \in Files
    BY <1>4, RemoveDir, RemoveList, FilesCounted DEF Entries
  <2>2. Entries' = Entries \ {f}
    BY <2>1 DEF Entries, Leftover
  <2>3. Cardinality(Entries \ {f}) = Cardinality(Entries) - 1
    BY <1>4, EntriesFinite, FS_RemoveElement
  <2>4. \A X : Load(X)' = Load(X) - 1 /\ Load(X) \in Int
    <3> SUFFICES ASSUME NEW X PROVE Load(X)' = Load(X) - 1 /\ Load(X) \in Int
      OBVIOUS
    <3>1. Load(X)' = Cardinality(Entries') + Cardinality(Below(Height(X))) - Cardinality(Unit)
      BY <1>2 DEF Load, Below, Height
    <3>2. /\ Cardinality(Entries) \in Nat /\ Cardinality(Unit) \in Nat
          /\ Cardinality(Below(Height(X))) \in Nat
      BY EntriesFinite, UnitsFinite
    <3> QED
      BY <2>2, <2>3, <3>1, <3>2 DEF Load
  <2>5. \A x \in Proc : (Entries \cap ToSet(list[x]))' = (Entries \cap ToSet(list[x])) \ {f}
    <3> SUFFICES ASSUME NEW x \in Proc
                 PROVE  Entries' \cap ToSet(list'[x]) = (Entries \cap ToSet(list[x])) \ {f}
      BY DEF ToSet
    <3> QED
      BY <2>2, RemoveList
  <2>6. \A x \in Proc : Cardinality(Entries \cap ToSet(list[x])) - 1
                       <= Cardinality((Entries \cap ToSet(list[x])) \ {f})
    <3> SUFFICES ASSUME NEW x \in Proc
                 PROVE  Cardinality(Entries \cap ToSet(list[x])) - 1
                          <= Cardinality((Entries \cap ToSet(list[x])) \ {f})
      OBVIOUS
    <3> DEFINE T == Entries \cap ToSet(list[x])
    <3>1. IsFiniteSet(T) /\ Cardinality(T) \in Nat
      BY EntriesFinite
    <3> HIDE DEF T, f
    <3>2. Cardinality(T \ {f}) = IF f \in T THEN Cardinality(T) - 1 ELSE Cardinality(T)
      BY <3>1, FS_RemoveElement
    <3> QED
      BY <3>1, <3>2 DEF T
  <2> SUFFICES ASSUME NEW X \in SUBSET Removers PROVE Covered(X)'
    BY <1>2 DEF BoundInv
  <2>7. Covered(X)
    BY DEF BoundInv
  <2>8. CASE Load(X) <= 0
    BY <2>4, <2>8 DEF Covered
  <2>9. ASSUME NEW x \in X, Load(X) <= over[x], Load(X) <= Cardinality(Entries \cap ToSet(list[x]))
        PROVE  Covered(X)'
    <3> DEFINE T == Entries \cap ToSet(list[x])
    <3>1. /\ x \in Proc /\ over[x] \in Int /\ Cardinality(T) \in Int
          /\ IsFiniteSet(T) /\ IsFiniteSet(T \ {f})
      <4>1. x \in Proc /\ over[x] \in Int
        BY DEF Removers, DirInv
      <4>2. IsFiniteSet(T) /\ Cardinality(T) \in Int
        BY EntriesFinite
      <4>3. IsFiniteSet(T \ {f})
        BY <4>2, FS_RemoveElement
      <4> QED
        BY <4>1, <4>2, <4>3
    <3>2. Cardinality(T \ {f}) \in Int /\ Cardinality(T) - 1 <= Cardinality(T \ {f})
      BY <3>1, <2>6, FS_CardinalityType
    <3>3. over'[x] = over[x] \/ over'[x] = over[x] - 1
      BY <3>1, <2>1, RemoveList
    <3>4. Load(X)' <= over'[x]
      BY <3>1, <3>3, <2>4, <2>9
    <3>5. Load(X)' <= Cardinality(T \ {f})
      <4> HIDE DEF T, f
      <4> QED
        BY <3>1, <3>2, <2>4, <2>9 DEF T
    <3> QED
      BY <3>1, <3>4, <3>5, <2>5 DEF Covered
  <2> QED
    BY <2>7, <2>8, <2>9 DEF Covered
<1> QED
  BY <1>3, <1>4

\* The end of evict was foreseen: it is one rename more to come.
LEMMA BoundEnd ==
  ASSUME DirInv, BoundInv, NEW p \in Proc, EvictEnd(p)
  PROVE  BoundInv'
<1>1. /\ DirInv' /\ Entries' = Entries /\ pc[p] = "remove" /\ over[p] \in Nat
      /\ ~(over[p] > 0 /\ list[p] # <<>>)
      /\ pc' = [pc EXCEPT ![p] = "idle"] /\ approx' = [approx EXCEPT ![p] = Capacity]
      /\ list' = [list EXCEPT ![p] = <<>>] /\ over' = [over EXCEPT ![p] = 0]
  BY DirEnd DEF Entries, Leftover, EvictEnd, Ending, Removing, Go, DirInv
<1>2. Removers' = Removers \ {p} /\ p \in Removers
  BY <1>1 DEF Removers, DirInv
<1> SUFFICES ASSUME NEW X \in SUBSET (Removers \ {p}) PROVE Covered(X)'
  BY <1>2 DEF BoundInv
<1> DEFINE Y == X \cup {p}
<1>3. Covered(Y) /\ Load(Y) \in Int
  BY <1>2, ComingRange DEF BoundInv
<1>4. Load(X)' = Load(Y)
  <2>1. Coming(p)' = 1 /\ \A q \in Proc : q # p => Coming(q)' = Coming(q)
    <3>1. pc'[p] = "idle" /\ approx'[p] = Capacity /\ Capacity # -1 /\ Capacity >= Capacity
      BY <1>1, CacheAssumption DEF DirInv
    <3>2. \A q \in Proc : q # p => Coming(q)' = Coming(q)
      BY <1>1 DEF Coming, DirInv
    <3> QED
      BY <3>1, <3>2 DEF Coming
  <2>2. Height(X)' = Height(Y)
    BY <2>1 DEF Height
  <2> QED
    BY <2>2, <1>1 DEF Load, Below
<1>5. CASE Load(Y) <= 0
  BY <1>4, <1>5 DEF Covered
<1>6. ASSUME NEW x \in Y, Load(Y) <= over[x], Load(Y) <= Cardinality(Entries \cap ToSet(list[x]))
      PROVE  Covered(X)'
  <2>1. CASE x = p
    <3>1. CASE over[p] = 0
      BY <1>3, <1>5, <1>6, <2>1, <3>1
    <3>2. CASE list[p] = <<>>
      <4>1. Entries \cap ToSet(list[p]) = {}
        BY <3>2, EmptySeq, LenProperties DEF ToSet, DirInv
      <4>2. Cardinality(Entries \cap ToSet(list[p])) = 0
        BY <4>1, FS_EmptySet
      <4> QED
        BY <1>3, <1>5, <1>6, <2>1, <4>2
    <3> QED
      BY <1>1, <3>1, <3>2
  <2>2. CASE x # p
    <3>1. x \in X /\ x \in Proc
      BY <2>2 DEF Removers
    <3>2. over'[x] = over[x] /\ list'[x] = list[x]
      BY <1>1, <2>2, <3>1 DEF DirInv
    <3>3. (Entries \cap ToSet(list[x]))' = Entries \cap ToSet(list[x])
      BY <1>1, <3>2 DEF ToSet
    <3> QED
      BY <1>4, <1>6, <3>1, <3>2, <3>3 DEF Covered
  <2> QED
    BY <2>1, <2>2
<1> QED
  BY <1>3, <1>5, <1>6 DEF Covered

\* No set of evicts that come to their end can take the entries beyond the bound.
THEOREM BoundCorrect == Spec => []BoundInv
<1>1. Init => BoundInv
  <2> SUFFICES ASSUME Init, NEW X \in SUBSET Removers PROVE Load(X) <= 0
    BY DEF BoundInv, Covered
  <2>1. Entries = {}
    BY EmptySeq DEF Init, Entries, Files, ToSet
  <2>2. Cardinality(Entries) = 0
    BY <2>1, FS_EmptySet
  <2>3. /\ Cardinality(Below(Height(X))) <= Cardinality(Unit)
        /\ Cardinality(Below(Height(X))) \in Nat /\ Cardinality(Unit) \in Nat
    BY UnitsFinite
  <2> QED
    BY <2>2, <2>3 DEF Load
<1>2. DirInv /\ BoundInv /\ [Next]_vars => BoundInv'
  <2> SUFFICES ASSUME DirInv, BoundInv, [Next]_vars PROVE BoundInv'
    OBVIOUS
  <2>1. CASE UNCHANGED vars
    <3>1. UNCHANGED <<dir, pc, approx, list, over>> /\ DirInv'
      BY <2>1, DirStep DEF vars, disk, counts
    <3>2. Entries' = Entries /\ Removers' = Removers /\ \A p \in Proc : Coming(p)' = Coming(p)
      BY <3>1 DEF Entries, Leftover, Files, Removers, Coming
    <3>3. \A p \in Proc : Coming(p)' <= Coming(p)
      BY <3>2, ComingRange, CacheAssumption
    <3> QED
      BY <3>1, <3>2, <3>3, BoundQuiet
  <2> QED
    BY <2>1, BoundBegin, BoundCreate, BoundWrite, BoundRename, BoundList, BoundRemove,
       BoundEnd DEF Next
<1> QED
  BY <1>1, <1>2, DirCorrect, PTL DEF Spec

\* The entries of the directory are bounded by the number of processes.
THEOREM BoundedAlways == Spec => []Bounded
<1>1. DirInv /\ BoundInv => Bounded
  <2> SUFFICES ASSUME DirInv, BoundInv PROVE Bounded
    OBVIOUS
  <2>1. Load({}) <= 0
    <3>1. {} \in SUBSET Removers
      OBVIOUS
    <3>2. Covered({})
      BY <3>1 DEF BoundInv
    <3> QED
      BY <3>2 DEF Covered
  <2>2. /\ Cardinality(Below(Height({}))) \in Nat /\ Cardinality(Unit) \in Nat
        /\ Cardinality(Entries) \in Nat /\ Cardinality(Unit) = Cardinality(Proc) * (Capacity + 1)
    BY UnitsFinite, EntriesFinite
  <2>3. Cardinality(Entries) <= Cardinality(Unit)
    BY <2>1, <2>2 DEF Load
  <2> QED
    BY <2>2, <2>3 DEF Bounded, Entries
<1> QED
  BY <1>1, DirCorrect, BoundCorrect, PTL

-----------------------------------------------------------------------------
\* The temporary file of a process about to rename it is complete.
WholeInv ==
  /\ EntriesWhole
  /\ \A p \in Proc : pc[p] = "rename" => Tmp(p) \notin part
  /\ pc \in [Proc -> Phase] /\ key \in [Proc -> Key \cup {None}]

\* A step of p leaves the place, the key and the file of the others alone.
LEMMA GoIsLocal ==
  ASSUME WholeInv, NEW p \in Proc, NEW to \in Phase, Go(p, to)
  PROVE  /\ pc'[p] = to
         /\ \A q \in Proc : q # p => pc'[q] = pc[q] /\ Tmp(q)' = Tmp(q)
         /\ pc' \in [Proc -> Phase] /\ key' \in [Proc -> Key \cup {None}]
         /\ to # "idle" => Tmp(p)' = Tmp(p)
BY DEF WholeInv, Go, Tmp

\* A step that makes no file incomplete but p's own, and does not take p to its
\* rename, keeps the invariant.
LEMMA OwnFileOnly ==
  ASSUME WholeInv, NEW p \in Proc, NEW to \in Phase, Go(p, to), to # "rename",
         part' \subseteq part \cup {Tmp(p)}
  PROVE  WholeInv'
<1>1. EntriesWhole'
  <2> SUFFICES ASSUME NEW k \in Key PROVE Entry(k) \notin part'
    BY DEF EntriesWhole, Entry
  <2> QED
    BY NamesDiffer DEF WholeInv, EntriesWhole
<1>2. ASSUME NEW q \in Proc, pc'[q] = "rename" PROVE Tmp(q)' \notin part'
  <2>1. q # p /\ pc[q] = "rename" /\ Tmp(q)' = Tmp(q)
    BY <1>2, GoIsLocal
  <2> QED
    BY <2>1, NamesDiffer DEF WholeInv
<1> QED
  BY <1>1, <1>2, GoIsLocal DEF WholeInv

\* Entries are complete at all times.
THEOREM EntriesComplete == Spec => []EntriesWhole
<1>1. Init => WholeInv
  BY DEF Init, WholeInv, EntriesWhole, Phase
<1>2. WholeInv /\ [Next]_vars => WholeInv'
  <2> SUFFICES ASSUME WholeInv, [Next]_vars PROVE WholeInv'
    OBVIOUS
  <2>1. CASE part' = part /\ pc' = pc /\ key' = key
    BY <2>1 DEF WholeInv, EntriesWhole, Tmp, Entry
  <2>2. ASSUME NEW p \in Proc, NEW k \in Key, Begin(p, k) PROVE WholeInv'
    <3>1. /\ part' = part /\ pc' = [pc EXCEPT ![p] = "create"]
          /\ key' = [key EXCEPT ![p] = k]
      BY <2>2 DEF Begin, disk
    <3>2. EntriesWhole'
      BY <3>1 DEF WholeInv, EntriesWhole, Entry
    <3>3. ASSUME NEW q \in Proc, pc'[q] = "rename" PROVE Tmp(q)' \notin part'
      BY <3>1, <3>3 DEF WholeInv, Tmp, Phase
    <3> QED
      BY <3>1, <3>2, <3>3 DEF WholeInv, Phase
  <2>3. ASSUME NEW p \in Proc, Write(p) PROVE WholeInv'
    <3>1. Go(p, "rename") /\ part' = part \ {Tmp(p)} /\ "rename" \in Phase
      BY <2>3 DEF Write, Phase
    <3>2. EntriesWhole'
      BY <3>1 DEF WholeInv, EntriesWhole, Entry
    <3>3. ASSUME NEW q \in Proc, pc'[q] = "rename" PROVE Tmp(q)' \notin part'
      BY <3>1, <3>3, GoIsLocal DEF WholeInv
    <3> QED
      BY <3>1, <3>2, <3>3, GoIsLocal DEF WholeInv
  <2>4. ASSUME NEW p \in Proc, Create(p) PROVE WholeInv'
    BY <2>4, OwnFileOnly DEF Create, Phase
  <2>5. ASSUME NEW p \in Proc, Rename(p) PROVE WholeInv'
    <3>1. part' \subseteq part
      BY <2>5 DEF Rename, WholeInv
    <3>2. Go(p, "evict") \/ Go(p, "idle")
      BY <2>5 DEF Rename
    <3> QED
      BY <3>1, <3>2, OwnFileOnly DEF Phase
  <2>6. ASSUME NEW p \in Proc, WriteFails(p) \/ RenameFails(p) \/ EvictEnd(p) PROVE WholeInv'
    <3>1. Go(p, "idle") /\ part' = part
      BY <2>6 DEF WriteFails, RenameFails, EvictEnd, disk
    <3> QED
      BY <3>1, OwnFileOnly DEF Phase
  <2>7. ASSUME NEW p \in Proc, Die(p) PROVE WholeInv'
    BY <2>7, OwnFileOnly DEF Die, disk, Phase
  <2>8. ASSUME NEW p \in Proc, List(p) PROVE WholeInv'
    <3>1. part' = part /\ (Go(p, "idle") \/ Go(p, "remove"))
      BY <2>8 DEF List, disk
    <3> QED
      BY <3>1, OwnFileOnly DEF Phase
  <2>9. ASSUME NEW p \in Proc, RemoveOne(p) PROVE part' = part /\ pc' = pc /\ key' = key
    BY <2>9 DEF RemoveOne
  <2>10. CASE UNCHANGED vars
    BY <2>1, <2>10 DEF vars, disk
  <2> QED
    BY <2>1, <2>2, <2>3, <2>4, <2>5, <2>6, <2>7, <2>8, <2>9, <2>10 DEF Next
<1>3. WholeInv => EntriesWhole
  BY DEF WholeInv
<1> QED
  BY <1>1, <1>2, <1>3, PTL DEF Spec

==================================================================================
