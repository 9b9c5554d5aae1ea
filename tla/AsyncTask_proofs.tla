--------------------------- MODULE AsyncTask_proofs --------------------------
(***************************************************************************)
(* Reference counting of %task blocks is sound for every handle the        *)
(* compiler can follow, for any number of tasks, variables and elements.   *)
(***************************************************************************)
EXTENDS AsyncTask, FiniteSetTheorems, SequenceTheorems, TLAPS

LEMMA TypeInit == Init => TypeOK
<1> SUFFICES ASSUME Init PROVE TypeOK
  OBVIOUS
<1>1. stack \in Seq([task : Task, slot : Slot]) /\ Depth = 0 /\ ready \in Seq(Task \cup {Null})
  BY EmptySeq DEF Init, Depth
<1>2. fault \in [kind : FaultKind, task : Task \cup {Null}]
  BY DEF Init, NoFault, FaultKind
<1> QED BY <1>1, <1>2, TaskAssumption DEF Init, TypeOK

\* The handle a slot holds, when it is not zero, is a task.
LEMMA HandleIsTask ==
  ASSUME TypeOK, NEW s \in Slot, handle[s] # Null
  PROVE  handle[s] \in Task
  BY DEF TypeOK

\* A prefix of a sequence.
LEMMA SubSeqFacts ==
  ASSUME NEW S, NEW q \in Seq(S), NEW n \in Nat, n <= Len(q)
  PROVE  /\ SubSeq(q, 1, n) \in Seq(S)
         /\ Len(SubSeq(q, 1, n)) = n
         /\ \A i \in 1 .. n : SubSeq(q, 1, n)[i] = q[i]
<1>1. \A i \in 1 .. n : q[i] \in S
  BY ElementOfSeq, LenProperties
<1> QED BY <1>1, SubSeqProperties, LenProperties

\* What a frame of the stack holds.
LEMMA FrameType ==
  ASSUME TypeOK, NEW i \in 1 .. Len(stack)
  PROVE  /\ stack[i] \in [task : Task, slot : Slot]
         /\ stack[i].task \in Task
         /\ stack[i].slot \in Slot
<1>1. stack[i] \in [task : Task, slot : Slot]
  BY ElementOfSeq DEF TypeOK
<1> QED BY <1>1

LEMMA DepthType == TypeOK => Depth \in Nat
  BY LenProperties DEF TypeOK, Depth

LEMMA OverwriteType ==
  ASSUME TypeOK, NEW s \in Slot, Overwrite(s)
  PROVE  abandoned' \subseteq Task
  BY DEF TypeOK, Overwrite

LEMMA AllocateType ==
  ASSUME TypeOK, LiveCounted, NEW t \in Task, NEW n \in {1, 2}, Allocate(t, n)
  PROVE  /\ block' \in [Task -> {"unborn", "live", "freed"}]
         /\ rc' \in [Task -> Nat]
         /\ argbuf' \in [Task -> {"none", "held", "freed"}]
         /\ ready' \in Seq(Task \cup {Null})
         /\ UNCHANGED <<done, cancelled, result, ctrl, fault>>
         /\ LiveCounted'
  BY DEF TypeOK, Allocate, LiveCounted

LEMMA DeliverType ==
  ASSUME TypeOK, LiveCounted, NEW t \in Task, NEW s \in Slot,
         NEW r \in {"zero", "value"}, block[t] = "live", Deliver(t, s, r)
  PROVE  /\ block' \in [Task -> {"unborn", "live", "freed"}]
         /\ rc' \in [Task -> Nat]
         /\ outcome' \in [Task -> [{"zero", "value"} -> 0 .. 2]]
         /\ LiveCounted'
<1>1. rc[t] \in Nat /\ rc[t] > 0
  BY DEF TypeOK, LiveCounted
<1>2. block' \in [Task -> {"unborn", "live", "freed"}] /\ rc' \in [Task -> Nat] /\ LiveCounted'
  BY <1>1 DEF TypeOK, Deliver, Release, LiveCounted
<1>3. outcome' \in [Task -> [{"zero", "value"} -> 0 .. 2]]
  <2>1. outcome[t] \in [{"zero", "value"} -> 0 .. 2]
    BY DEF TypeOK
  <2>2. (IF outcome[t][r] = 2 THEN 2 ELSE outcome[t][r] + 1) \in 0 .. 2
    BY <2>1
  <2>3. [outcome[t] EXCEPT ![r] = IF @ = 2 THEN 2 ELSE @ + 1] \in [{"zero", "value"} -> 0 .. 2]
    BY <2>1, <2>2
  <2> QED BY <2>3 DEF TypeOK, Deliver
<1> QED BY <1>2, <1>3

LEMMA ConsumedType ==
  ASSUME TypeOK, NEW s \in Slot, Consumed(s)
  PROVE  handle' \in [Slot -> Task \cup {Null}]
  BY DEF TypeOK, Consumed

LEMMA TypeNext == TypeOK /\ LiveCounted /\ [Next]_vars => TypeOK' /\ LiveCounted'
<1> SUFFICES ASSUME TypeOK, LiveCounted, [Next]_vars PROVE TypeOK' /\ LiveCounted'
  OBVIOUS
<1> USE DEF heap, refs, ctrl, Depth
<1>1. ASSUME NEW s \in Slot, NEW t \in Task, Run(s, t) PROVE TypeOK' /\ LiveCounted'
  BY <1>1, AllocateType, OverwriteType DEF Run, TypeOK
<1>2. ASSUME NEW s \in Slot, NEW t \in Task, Rebind(s, t) PROVE TypeOK' /\ LiveCounted'
  BY <1>2, AllocateType, OverwriteType DEF Rebind, TypeOK
<1>3. ASSUME NEW s \in Slot, NEW t \in Task, RunInCallee(s, t) PROVE TypeOK' /\ LiveCounted'
  BY <1>3, AllocateType, OverwriteType DEF RunInCallee, TypeOK
<1>4. ASSUME NEW c \in Cell, NEW t \in Task, RunIntoCell(c, t) PROVE TypeOK' /\ LiveCounted'
  BY <1>4, AllocateType, OverwriteType DEF RunIntoCell, TypeOK, Slot
<1>5. ASSUME NEW d \in Slot, NEW s \in Slot, NEW n \in {1, 2}, CopyTracked(d, s, n)
      PROVE  TypeOK' /\ LiveCounted'
  <2>1. rc' \in [Task -> Nat] /\ LiveCounted'
    <3>1. CASE handle[s] = Null
      BY <1>5, <3>1 DEF CopyTracked, TypeOK, LiveCounted
    <3>2. CASE handle[s] # Null
      <4>1. handle[s] \in Task /\ rc[handle[s]] \in Nat /\ rc[handle[s]] > 0
        BY <1>5, <3>2, HandleIsTask DEF CopyTracked, TypeOK, LiveCounted
      <4>2. rc' = [rc EXCEPT ![handle[s]] = @ + n] /\ block' = block
        BY <1>5, <3>2 DEF CopyTracked, Retain
      <4>3. rc' \in [Task -> Nat]
        BY <4>1, <4>2 DEF TypeOK
      <4>4. LiveCounted'
        BY <4>1, <4>2 DEF TypeOK, LiveCounted
      <4> QED BY <4>3, <4>4
    <3> QED BY <3>1, <3>2
  <2>2. abandoned' \subseteq Task
    BY <1>5, OverwriteType DEF CopyTracked
  <2> QED BY <1>5, <2>1, <2>2 DEF CopyTracked, TypeOK
<1>6. ASSUME NEW d \in Slot, NEW s \in Slot, CopyUntracked(d, s) PROVE TypeOK' /\ LiveCounted'
  <2>1. abandoned' \subseteq Task
    BY <1>6, OverwriteType DEF CopyUntracked
  <2> QED BY <1>6, <2>1 DEF CopyUntracked, TypeOK, LiveCounted
<1>7. ASSUME NEW s \in Slot, Cancel(s) PROVE TypeOK' /\ LiveCounted'
  BY <1>7 DEF Cancel, TypeOK, LiveCounted
<1>8. CASE Yield
  BY <1>8 DEF Yield, TypeOK, LiveCounted
<1>9. ASSUME NEW s \in Slot, AwaitNull(s) PROVE TypeOK' /\ LiveCounted'
  BY <1>9 DEF AwaitNull, vars, TypeOK, LiveCounted
<1>10. ASSUME NEW s \in Slot, AwaitDone(s) PROVE TypeOK' /\ LiveCounted'
  <2>1. handle[s] \in Task /\ result[handle[s]] \in {"zero", "value"}
    BY <1>10, HandleIsTask DEF AwaitDone, TypeOK
  <2>2. handle' \in [Slot -> Task \cup {Null}]
    BY <1>10, ConsumedType DEF AwaitDone
  <2> QED BY <1>10, <2>1, <2>2, DeliverType DEF AwaitDone, TypeOK
<1>11. ASSUME NEW s \in Slot, AwaitCancelled(s) PROVE TypeOK' /\ LiveCounted'
  <2>1. handle[s] \in Task /\ result[handle[s]] \in {"zero", "value"}
    BY <1>11, HandleIsTask DEF AwaitCancelled, TypeOK
  <2>2. handle' \in [Slot -> Task \cup {Null}]
    BY <1>11, ConsumedType DEF AwaitCancelled
  <2> QED BY <1>11, <2>1, <2>2, DeliverType DEF AwaitCancelled, TypeOK
<1>12. ASSUME NEW s \in Slot, AwaitEnter(s) PROVE TypeOK' /\ LiveCounted'
  <2>1. handle[s] \in Task
    BY <1>12, HandleIsTask DEF AwaitEnter
  <2>2. /\ stack' \in Seq([task : Task, slot : Slot])
        /\ Len(stack') <= MaxDepth
    BY <1>12, <2>1, TaskAssumption, AppendProperties, LenProperties DEF AwaitEnter, TypeOK
  <2>3. runs' \in [Task -> Nat] /\ current' \in Task \cup {Null}
    BY <1>12, <2>1 DEF AwaitEnter, TypeOK
  <2> QED BY <1>12, <2>2, <2>3 DEF AwaitEnter, TypeOK, LiveCounted
<1>13. CASE Return
  <2> DEFINE f == stack[Len(stack)]
  <2>0. Len(stack) \in Nat /\ Len(stack) \in 1 .. Len(stack)
    BY <1>13, DepthType DEF Return, DriveEnds
  <2>1. f.task \in Task /\ f.slot \in Slot
    BY <2>0, FrameType
  <2>2. /\ stack' \in Seq([task : Task, slot : Slot])
        /\ Len(stack') = Len(stack) - 1
    <3>1. stack' = SubSeq(stack, 1, Len(stack) - 1)
      BY <1>13 DEF Return, DriveEnds
    <3>2. stack \in Seq([task : Task, slot : Slot])
      BY DEF TypeOK
    <3>3. Len(stack) - 1 \in Nat /\ Len(stack) - 1 <= Len(stack)
      BY <1>13, <2>0 DEF Return, DriveEnds
    <3> HIDE DEF f
    <3> QED BY <3>1, <3>2, <3>3, SubSeqFacts
  <2>3. abandoned' \subseteq Task
    BY <1>13 DEF Return, DriveEnds, Dying, TypeOK, Slot
  <2>4. handle' \in [Slot -> Task \cup {Null}] /\ tracked' \in [Slot -> BOOLEAN]
    BY <1>13 DEF Return, DriveEnds, TypeOK
  <2>5. /\ block' \in [Task -> {"unborn", "live", "freed"}] /\ rc' \in [Task -> Nat]
        /\ outcome' \in [Task -> [{"zero", "value"} -> 0 .. 2]] /\ LiveCounted'
    BY <1>13, <2>1, DeliverType DEF Return, DriveEnds
  <2>6. /\ done' \in [Task -> BOOLEAN] /\ argbuf' \in [Task -> {"none", "held", "freed"}]
        /\ result' \in [Task -> {"zero", "value"}] /\ current' \in Task \cup {Null}
    BY <1>13 DEF Return, DriveEnds, TypeOK
  <2>7. Len(stack') <= MaxDepth
    BY <2>0, <2>2, TaskAssumption DEF TypeOK
  <2> HIDE DEF f
  <2> QED BY <1>13, <2>2, <2>3, <2>4, <2>5, <2>6, <2>7 DEF Return, DriveEnds, TypeOK
<1>14. ASSUME NEW s \in Slot, UseFreed(s) PROVE TypeOK' /\ LiveCounted'
  <2>1. fault' \in [kind : FaultKind, task : Task \cup {Null}]
    BY <1>14, HandleIsTask DEF UseFreed, Crash, FaultKind
  <2> QED BY <1>14, <2>1 DEF UseFreed, Crash, TypeOK, LiveCounted
<1>15. ASSUME NEW s \in Slot, CancelNull(s) PROVE TypeOK' /\ LiveCounted'
  <2>1. fault' \in [kind : FaultKind, task : Task \cup {Null}]
    BY <1>15 DEF CancelNull, Crash, FaultKind
  <2> QED BY <1>15, <2>1 DEF CancelNull, Crash, TypeOK, LiveCounted
<1>16. CASE ReturnCrash
  <2>1. stack[Len(stack)].task \in Task
    BY <1>16, DepthType, FrameType DEF ReturnCrash
  <2>2. fault' \in [kind : FaultKind, task : Task \cup {Null}]
    BY <1>16, <2>1 DEF ReturnCrash, Crash, FaultKind
  <2> QED BY <1>16, <2>2 DEF ReturnCrash, Crash, TypeOK, LiveCounted
<1>17. CASE UNCHANGED vars
  BY <1>17 DEF vars, TypeOK, LiveCounted
<1> QED BY <1>1, <1>2, <1>3, <1>4, <1>5, <1>6, <1>7, <1>8, <1>9, <1>10, <1>11,
           <1>12, <1>13, <1>14, <1>15, <1>16, <1>17 DEF Next

\* The runtime's blocks, flags, slots and stack keep their types, and a live
\* block always has a positive count.
THEOREM TypeCorrect == Spec => [](TypeOK /\ LiveCounted)
<1>1. Init => LiveCounted
  BY DEF Init, LiveCounted
<1> QED BY <1>1, TypeInit, TypeNext, PTL DEF Spec

-----------------------------------------------------------------------------
(***************************************************************************)
(* The inductive invariant.  Two facts carry it: the references of a task   *)
(* whose handle never escaped are locals of one body (OneBody), and a body  *)
(* that drives a task leaves it in a variable that no deeper body can reach *)
(* (FramesHold).  Hence a running task is not awaited a second time, and    *)
(* every count that is dropped goes with the reference it stood for.        *)
(***************************************************************************)

\* The invariant without its type part and without the fault it excludes.
Heart ==
  /\ FreshLocals /\ CellsEscape /\ OneBody /\ FramesHold /\ TaskLife
  /\ EveryReferenceCounted /\ RunsOnce

LEMMA LocalType ==
  ASSUME NEW s \in Local
  PROVE  s \in Slot /\ s \notin Cell /\ s[1] \in Nat
  BY TaskAssumption DEF Local, Slot

LEMMA VisibleType ==
  ASSUME NEW s \in Visible
  PROVE  /\ s \in Slot
         /\ s \in Cell \/ (s \in Local /\ s[1] = Depth)
         /\ s \in VisibleLocal \/ s \in Cell
  BY DEF Visible, VisibleLocal, Slot

LEMMA RefsFinite == \A t : IsFiniteSet(Refs(t)) /\ Cardinality(Refs(t)) \in Nat
<1>1. IsFiniteSet(0 .. MaxDepth)
  BY TaskAssumption, FS_Interval
<1>2. IsFiniteSet(Local)
  BY <1>1, TaskAssumption, FS_Product DEF Local
<1>3. IsFiniteSet(Slot)
  BY <1>2, TaskAssumption, FS_Union DEF Slot
<1>4. \A t : Refs(t) \subseteq Slot
  BY DEF Refs
<1> QED BY <1>3, <1>4, FS_Subset, FS_CardinalityType

\* A set of references that only loses members does not get larger ...
LEMMA FewerRefs ==
  ASSUME NEW t, NEW R, R \subseteq Refs(t)
  PROVE  IsFiniteSet(R) /\ Cardinality(R) \in Nat /\ Cardinality(R) <= Cardinality(Refs(t))
  BY RefsFinite, FS_Subset, FS_CardinalityType

\* ... one that loses a member gets smaller ...
LEMMA LostRef ==
  ASSUME NEW t, NEW s \in Refs(t), NEW R, R \subseteq Refs(t) \ {s}
  PROVE  Cardinality(R) \in Nat /\ Cardinality(R) + 1 <= Cardinality(Refs(t))
<1>1. IsFiniteSet(Refs(t)) /\ Cardinality(Refs(t)) \in Nat
  BY RefsFinite
<1>2. IsFiniteSet(Refs(t) \ {s}) /\ Cardinality(Refs(t) \ {s}) = Cardinality(Refs(t)) - 1
  BY <1>1, FS_RemoveElement
<1>3. Cardinality(R) \in Nat /\ Cardinality(R) <= Cardinality(Refs(t) \ {s})
  BY <1>2, FS_Subset, FS_CardinalityType
<1> QED BY <1>1, <1>2, <1>3

\* ... and one that gains a member gets larger by at most one.
LEMMA GainedRef ==
  ASSUME NEW t, NEW s, NEW R, R \subseteq Refs(t) \cup {s}
  PROVE  Cardinality(R) \in Nat /\ Cardinality(R) <= Cardinality(Refs(t)) + 1
<1>1. IsFiniteSet(Refs(t)) /\ Cardinality(Refs(t)) \in Nat
  BY RefsFinite
<1>2. /\ IsFiniteSet(Refs(t) \cup {s})
      /\ Cardinality(Refs(t) \cup {s}) \in Nat
      /\ Cardinality(Refs(t) \cup {s}) <= Cardinality(Refs(t)) + 1
  BY <1>1, FS_AddElement, FS_CardinalityType
<1>3. Cardinality(R) \in Nat /\ Cardinality(R) <= Cardinality(Refs(t) \cup {s})
  BY <1>2, FS_Subset, FS_CardinalityType
<1> QED BY <1>1, <1>2, <1>3

\* The variable a driven task is awaited from is out of reach of the running body.
LEMMA CallerSlot ==
  ASSUME TypeOK, FramesHold, NEW i \in 1 .. Depth, stack[i].slot \in Local, NEW d \in Visible
  PROVE  stack[i].slot # d
<1>1. stack[i].slot[1] = i - 1
  BY DEF FramesHold
<1>2. Depth \in Nat
  BY DepthType
<1> QED BY <1>1, <1>2, LocalType, VisibleType

\* A reference outside the elements: the slot is a variable of the running body.
LEMMA HeldByLocal ==
  ASSUME CellsEscape, NEW s \in Visible, handle[s] # Null, handle[s] \notin escaped
  PROVE  s \in Local /\ s[1] = Depth
  BY VisibleType DEF CellsEscape

\* A task the running body refers to is not itself running.
LEMMA NotDriven ==
  ASSUME TypeOK, FramesHold, OneBody, CellsEscape,
         NEW s \in Visible, handle[s] # Null, handle[s] \notin escaped, NEW i \in 1 .. Depth
  PROVE  stack[i].task # handle[s]
<1> SUFFICES ASSUME stack[i].task = handle[s] PROVE FALSE
  OBVIOUS
<1>1. stack[i].slot \in Local /\ handle[stack[i].slot] = handle[s] /\ stack[i].slot[1] = i - 1
  BY DEF FramesHold
<1>2. s \in Local /\ s[1] = Depth
  BY HeldByLocal
<1>3. handle[s] \in Task
  BY HandleIsTask, VisibleType
<1>4. {s, stack[i].slot} \subseteq Refs(handle[s])
  BY <1>1, <1>2, LocalType DEF Refs
<1>5. s[1] = stack[i].slot[1]
  BY <1>3, <1>4 DEF OneBody
<1> QED BY <1>1, <1>2, <1>5, DepthType

-----------------------------------------------------------------------------
\* `run`, in all its forms: the new task has one reference and at least one count.
LEMMA AllocateHeart ==
  ASSUME TypeOK, Heart,
         NEW s \in Visible, NEW t \in Task, NEW n \in {1, 2}, NEW b \in BOOLEAN,
         Allocate(t, n),
         handle' = [handle EXCEPT ![s] = t],
         tracked' = [tracked EXCEPT ![s] = b],
         s \in Cell => b = FALSE /\ t \in escaped',
         escaped \subseteq escaped', escaped' \subseteq escaped \cup {t}
  PROVE  Heart'
<1>1. s \in Slot /\ (s \in Cell \/ (s \in Local /\ s[1] = Depth))
  BY VisibleType
<1>2. /\ stack' = stack /\ Depth' = Depth /\ done' = done /\ runs' = runs /\ Running' = Running
      /\ block[t] = "unborn" /\ block' = [block EXCEPT ![t] = "live"]
      /\ rc' = [rc EXCEPT ![t] = n] /\ argbuf' = [argbuf EXCEPT ![t] = "held"]
  BY DEF Allocate, ctrl, Depth, Running
<1>3. \A u : u # t => Refs(u)' \subseteq Refs(u)
  BY <1>1 DEF Refs, TypeOK
<1>4. t \notin escaped => Refs(t)' \subseteq {s}
  BY <1>1, <1>2 DEF Heart, TaskLife, Refs, TypeOK
<1>5. FreshLocals'
  BY <1>1, <1>2, LocalType, DepthType DEF Heart, FreshLocals, TypeOK
<1>6. CellsEscape'
  BY <1>1, <1>2, LocalType DEF Heart, CellsEscape, TypeOK, Slot
<1>7. OneBody'
  BY <1>3, <1>4 DEF Heart, OneBody
<1>8. FramesHold'
  <2> SUFFICES ASSUME NEW i \in 1 .. Depth
               PROVE  /\ stack[i].slot \in Local => stack[i].slot[1] = i - 1
                      /\ stack[i].task \notin escaped' =>
                           /\ stack[i].slot \in Local /\ handle'[stack[i].slot] = stack[i].task
                           /\ block'[stack[i].task] = "live" /\ ~done'[stack[i].task]
    BY <1>2 DEF FramesHold
  <2>1. stack[i].task \in Task /\ stack[i].slot \in Slot
    BY FrameType DEF Depth
  <2>2. stack[i].slot \in Local => stack[i].slot # s
    BY CallerSlot DEF Heart
  <2>3. stack[i].task \notin escaped =>
          /\ stack[i].slot \in Local /\ handle[stack[i].slot] = stack[i].task
          /\ block[stack[i].task] = "live" /\ ~done[stack[i].task]
    BY DEF Heart, FramesHold
  <2>4. stack[i].slot \in Local => stack[i].slot[1] = i - 1
    BY DEF Heart, FramesHold
  <2> QED BY <1>1, <1>2, <2>1, <2>2, <2>3, <2>4 DEF TypeOK
<1>9. TaskLife'
  <2> SUFFICES ASSUME NEW u \in Task, u \notin escaped'
               PROVE  /\ block'[u] = "unborn" => Refs(u)' = {} /\ ~done[u] /\ runs[u] = 0
                      /\ block'[u] = "live" => (argbuf'[u] = "held" <=> ~done[u])
                      /\ ~done[u] /\ u \notin Running => runs[u] = 0
    BY <1>2 DEF TaskLife
  <2> QED BY <1>2, <1>3 DEF Heart, TaskLife, TypeOK
<1>10. EveryReferenceCounted'
  <2> SUFFICES ASSUME NEW u \in Task, u \notin escaped'
               PROVE  /\ block'[u] = "live" => Cardinality(Refs(u)') <= rc'[u]
                      /\ block'[u] = "freed" => Refs(u)' = {}
    BY DEF EveryReferenceCounted, Refs
  <2>1. CASE u = t
    <3>1. Cardinality({s}) = 1 /\ IsFiniteSet({s})
      BY FS_Singleton
    <3>2. Cardinality(Refs(t)') <= 1 /\ Cardinality(Refs(t)') \in Nat
      BY <1>4, <2>1, <3>1, FS_Subset, FS_CardinalityType
    <3> QED BY <1>2, <2>1, <3>2 DEF TypeOK
  <2>2. CASE u # t
    <3>1. Cardinality(Refs(u)') <= Cardinality(Refs(u)) /\ Cardinality(Refs(u)') \in Nat
      BY <1>3, <2>2, FewerRefs
    <3>2. block'[u] = block[u] /\ rc'[u] = rc[u] /\ rc[u] \in Nat
      BY <1>2, <2>2 DEF TypeOK
    <3> QED BY <1>3, <2>2, <3>1, <3>2, RefsFinite DEF Heart, EveryReferenceCounted
  <2> QED BY <2>1, <2>2
<1>11. RunsOnce'
  BY <1>2 DEF Heart, RunsOnce
<1> QED BY <1>5, <1>6, <1>7, <1>8, <1>9, <1>10, <1>11 DEF Heart

\* A counted copy: one reference and one count more.
LEMMA CopyTrackedHeart ==
  ASSUME TypeOK, Heart, NEW d \in Slot, NEW s \in Slot, NEW n \in {1, 2}, CopyTracked(d, s, n)
  PROVE  Heart'
<1> DEFINE u == handle[s]
<1>1. /\ d \in Visible /\ s \in Visible /\ d \in Local /\ s \in Local
      /\ d[1] = Depth /\ s[1] = Depth
  BY DEF CopyTracked, VisibleLocal, Visible
<1>2. /\ stack' = stack /\ Depth' = Depth /\ done' = done /\ runs' = runs /\ Running' = Running
      /\ block' = block /\ argbuf' = argbuf /\ escaped' = escaped
      /\ handle' = [handle EXCEPT ![d] = u] /\ tracked' = [tracked EXCEPT ![d] = TRUE]
  BY DEF CopyTracked, ctrl, Depth, Running
<1>3. \A v : v # u => Refs(v)' \subseteq Refs(v)
  BY <1>2 DEF Refs, TypeOK
<1>4. \A v : v = u => Refs(v)' \subseteq Refs(v) \cup {d} /\ s \in Refs(v)
  BY <1>2 DEF Refs, TypeOK
<1>5. FreshLocals'
  BY <1>1, <1>2, LocalType, DepthType DEF Heart, FreshLocals, TypeOK
<1>6. CellsEscape'
  BY <1>1, <1>2, LocalType DEF Heart, CellsEscape, TypeOK, Slot
<1>7. OneBody'
  BY <1>1, <1>2, <1>3, <1>4 DEF Heart, OneBody
<1>8. FramesHold'
  <2> SUFFICES ASSUME NEW i \in 1 .. Depth
               PROVE  /\ stack[i].slot \in Local => stack[i].slot[1] = i - 1
                      /\ stack[i].task \notin escaped =>
                           /\ stack[i].slot \in Local /\ handle'[stack[i].slot] = stack[i].task
                           /\ block[stack[i].task] = "live" /\ ~done[stack[i].task]
    BY <1>2 DEF FramesHold
  <2>1. stack[i].task \in Task /\ stack[i].slot \in Slot
    BY FrameType DEF Depth
  <2>2. stack[i].slot \in Local => stack[i].slot # d
    BY <1>1, CallerSlot DEF Heart
  <2>3. /\ stack[i].slot \in Local => stack[i].slot[1] = i - 1
        /\ stack[i].task \notin escaped =>
             /\ stack[i].slot \in Local /\ handle[stack[i].slot] = stack[i].task
             /\ block[stack[i].task] = "live" /\ ~done[stack[i].task]
    BY DEF Heart, FramesHold
  <2> QED BY <1>2, <2>1, <2>2, <2>3 DEF TypeOK
<1>9. TaskLife'
  <2> SUFFICES ASSUME NEW v \in Task, v \notin escaped, block[v] = "unborn"
               PROVE  Refs(v)' = {}
    BY <1>2 DEF Heart, TaskLife
  <2>1. Refs(v) = {}
    BY DEF Heart, TaskLife
  <2> QED BY <1>3, <1>4, <2>1
<1>10. EveryReferenceCounted'
  <2> SUFFICES ASSUME NEW v \in Task, v \notin escaped
               PROVE  /\ block[v] = "live" => Cardinality(Refs(v)') <= rc'[v]
                      /\ block[v] = "freed" => Refs(v)' = {}
    BY <1>2 DEF EveryReferenceCounted, Refs
  <2>0. /\ block[v] = "live" => Cardinality(Refs(v)) <= rc[v]
        /\ block[v] = "freed" => Refs(v) = {}
        /\ rc[v] \in Nat /\ Cardinality(Refs(v)) \in Nat
    BY RefsFinite DEF Heart, EveryReferenceCounted, TypeOK
  <2>1. CASE v = u
    <3>1. u # Null /\ rc' = [rc EXCEPT ![u] = @ + n] /\ block[u] = "live"
      BY <2>1, TaskAssumption DEF CopyTracked, Retain
    <3>2. rc'[v] = rc[v] + n
      BY <2>1, <3>1 DEF TypeOK
    <3>3. Cardinality(Refs(v)') <= Cardinality(Refs(v)) + 1 /\ Cardinality(Refs(v)') \in Nat
      BY <1>4, <2>1, GainedRef
    <3> QED BY <2>0, <2>1, <3>1, <3>2, <3>3
  <2>2. CASE v # u
    <3>1. Cardinality(Refs(v)') <= Cardinality(Refs(v)) /\ Cardinality(Refs(v)') \in Nat
      BY <1>3, <2>2, FewerRefs
    <3>2. rc'[v] = rc[v]
      BY <2>2 DEF CopyTracked, Retain, TypeOK
    <3> QED BY <1>3, <2>0, <2>2, <3>1, <3>2
  <2> QED BY <2>1, <2>2
<1>11. RunsOnce'
  BY <1>2 DEF Heart, RunsOnce
<1> QED BY <1>5, <1>6, <1>7, <1>8, <1>9, <1>10, <1>11 DEF Heart

\* An uncounted copy: the task escapes, every other one is left alone.
LEMMA CopyUntrackedHeart ==
  ASSUME TypeOK, Heart, NEW d \in Slot, NEW s \in Slot, CopyUntracked(d, s)
  PROVE  Heart'
<1> DEFINE u == handle[s]
<1>1. d \in Visible /\ (d \in Cell \/ (d \in Local /\ d[1] = Depth))
  BY VisibleType DEF CopyUntracked
<1>2. /\ stack' = stack /\ Depth' = Depth /\ done' = done /\ runs' = runs /\ Running' = Running
      /\ block' = block /\ argbuf' = argbuf /\ rc' = rc /\ escaped' = escaped \cup {u}
      /\ handle' = [handle EXCEPT ![d] = u] /\ tracked' = [tracked EXCEPT ![d] = FALSE]
  BY DEF CopyUntracked, ctrl, heap, Depth, Running
<1>3. \A v : v # u => Refs(v)' \subseteq Refs(v)
  BY <1>2 DEF Refs, TypeOK
<1>5. FreshLocals'
  BY <1>1, <1>2, LocalType, DepthType DEF Heart, FreshLocals, TypeOK
<1>6. CellsEscape'
  BY <1>2 DEF Heart, CellsEscape, TypeOK, Slot
<1>7. OneBody'
  BY <1>2, <1>3 DEF Heart, OneBody
<1>8. FramesHold'
  <2> SUFFICES ASSUME NEW i \in 1 .. Depth
               PROVE  /\ stack[i].slot \in Local => stack[i].slot[1] = i - 1
                      /\ stack[i].task \notin escaped' =>
                           /\ stack[i].slot \in Local /\ handle'[stack[i].slot] = stack[i].task
                           /\ block[stack[i].task] = "live" /\ ~done[stack[i].task]
    BY <1>2 DEF FramesHold
  <2>1. stack[i].task \in Task /\ stack[i].slot \in Slot
    BY FrameType DEF Depth
  <2>2. stack[i].slot \in Local => stack[i].slot # d
    BY <1>1, CallerSlot DEF Heart
  <2>3. /\ stack[i].slot \in Local => stack[i].slot[1] = i - 1
        /\ stack[i].task \notin escaped =>
             /\ stack[i].slot \in Local /\ handle[stack[i].slot] = stack[i].task
             /\ block[stack[i].task] = "live" /\ ~done[stack[i].task]
    BY DEF Heart, FramesHold
  <2> QED BY <1>2, <2>1, <2>2, <2>3 DEF TypeOK
<1>9. TaskLife'
  BY <1>2, <1>3 DEF Heart, TaskLife
<1>10. EveryReferenceCounted'
  <2> SUFFICES ASSUME NEW v \in Task, v \notin escaped, v # u
               PROVE  /\ block[v] = "live" => Cardinality(Refs(v)') <= rc[v]
                      /\ block[v] = "freed" => Refs(v)' = {}
    BY <1>2 DEF EveryReferenceCounted, Refs
  <2>1. Cardinality(Refs(v)') <= Cardinality(Refs(v)) /\ Cardinality(Refs(v)') \in Nat
    BY <1>3, FewerRefs
  <2>2. rc[v] \in Nat /\ Cardinality(Refs(v)) \in Nat
    BY RefsFinite DEF TypeOK
  <2> QED BY <1>3, <2>1, <2>2 DEF Heart, EveryReferenceCounted
<1>11. RunsOnce'
  BY <1>2 DEF Heart, RunsOnce
<1> QED BY <1>5, <1>6, <1>7, <1>8, <1>9, <1>10, <1>11 DEF Heart

\* The release of an await: what a task that has not escaped loses, count and
\* reference alike.  R and R1 are its references before and after.
LEMMA ReleaseCounts ==
  ASSUME NEW n \in Nat, NEW k \in Nat, NEW k1 \in Nat, n > 0, k <= n, k1 + 1 <= k
  PROVE  n - 1 \in Nat /\ k1 <= n - 1 /\ (n = 1 => k1 = 0)
  OBVIOUS

\* What an await of task t by slot s, or the return of its body, leaves of the
\* counts, when every other task keeps its references or loses some.
LEMMA DeliverCounted ==
  ASSUME TypeOK, LiveCounted, EveryReferenceCounted,
         NEW t \in Task, NEW s \in Slot, NEW r, block[t] = "live", Deliver(t, s, r),
         escaped' = escaped,
         t \notin escaped => handle[s] = t,
         \A u \in Task \ escaped : Refs(u)' \subseteq Refs(u),
         \A u \in Task \ escaped : u = t => Refs(u)' \subseteq Refs(u) \ {s}
  PROVE  EveryReferenceCounted'
<1> SUFFICES ASSUME NEW u \in Task, u \notin escaped
             PROVE  /\ block'[u] = "live" => Cardinality(Refs(u)') <= rc'[u]
                    /\ block'[u] = "freed" => Refs(u)' = {}
  BY DEF EveryReferenceCounted, Refs
<1>0. /\ block[u] = "live" => Cardinality(Refs(u)) <= rc[u]
      /\ block[u] = "freed" => Refs(u) = {}
      /\ rc[u] \in Nat /\ Cardinality(Refs(u)) \in Nat /\ IsFiniteSet(Refs(u))
  BY RefsFinite DEF EveryReferenceCounted, TypeOK
<1>1. /\ rc' = [rc EXCEPT ![t] = @ - 1]
      /\ block' = [block EXCEPT ![t] = IF rc[t] = 1 THEN "freed" ELSE @]
  BY DEF Deliver, Release
<1>2. CASE u = t
  <2>1. s \in Refs(u) /\ Refs(u)' \subseteq Refs(u) \ {s}
    BY <1>2 DEF Refs
  <2>2. Cardinality(Refs(u)') \in Nat /\ Cardinality(Refs(u)') + 1 <= Cardinality(Refs(u))
    BY <2>1, LostRef
  <2>3. IsFiniteSet(Refs(u)')
    BY <1>0, <2>1, FS_Subset
  <2>4. rc[u] > 0 /\ block[u] = "live"
    BY <1>2 DEF LiveCounted
  <2>5. Cardinality(Refs(u)') <= rc[u] - 1 /\ (rc[u] = 1 => Cardinality(Refs(u)') = 0)
    BY <1>0, <2>2, <2>4, ReleaseCounts
  <2>6. rc'[u] = rc[u] - 1 /\ (block'[u] = "freed" => rc[u] = 1)
    BY <1>1, <1>2, <2>4 DEF TypeOK
  <2>7. rc[u] = 1 => Refs(u)' = {}
    BY <2>3, <2>5, FS_EmptySet
  <2> QED BY <2>5, <2>6, <2>7
<1>3. CASE u # t
  <2>1. Cardinality(Refs(u)') <= Cardinality(Refs(u)) /\ Cardinality(Refs(u)') \in Nat
    BY FewerRefs
  <2>2. rc'[u] = rc[u] /\ block'[u] = block[u]
    BY <1>1, <1>3 DEF TypeOK
  <2> QED BY <1>0, <2>1, <2>2
<1> QED BY <1>2, <1>3

\* The slot an await consumes: a variable is zeroed, an element keeps its bits.
LEMMA ConsumedRefs ==
  ASSUME TypeOK, CellsEscape, NEW s \in Visible, handle[s] # Null, Consumed(s)
  PROVE  /\ \A x \in Slot : handle'[x] = handle[x] \/ (x = s /\ s \in Local /\ handle'[x] = Null)
         /\ \A u \in Task \ escaped : Refs(u)' \subseteq Refs(u)
         /\ \A u \in Task \ escaped : u = handle[s] => Refs(u)' \subseteq Refs(u) \ {s}
<1>1. \A x \in Slot : handle'[x] = handle[x] \/ (x = s /\ s \in Local /\ handle'[x] = Null)
  BY VisibleType DEF Consumed, TypeOK
<1>2. \A u \in Task \ escaped : Refs(u)' \subseteq Refs(u)
  BY <1>1, TaskAssumption DEF Refs
<1>3. ASSUME NEW u \in Task \ escaped, u = handle[s] PROVE Refs(u)' \subseteq Refs(u) \ {s}
  <2>1. s \in Local /\ s \in Slot
    BY <1>3, HeldByLocal, VisibleType
  <2>2. handle'[s] = Null
    BY <2>1 DEF Consumed, TypeOK
  <2> QED BY <1>2, <2>2, TaskAssumption DEF Refs
<1> QED BY <1>1, <1>2, <1>3

\* An await that does not call the target.  The task is not running, so its
\* release leaves every driven task alone.
LEMMA AwaitHeart ==
  ASSUME TypeOK, LiveCounted, Heart,
         NEW s \in Visible, NEW r, handle[s] # Null,
         block[handle[s]] = "live", Deliver(handle[s], s, r), Consumed(s),
         done' = [done EXCEPT ![handle[s]] = TRUE],
         handle[s] \notin escaped => argbuf'[handle[s]] # "held",
         \A u \in Task : u # handle[s] => argbuf'[u] = argbuf[u],
         UNCHANGED <<tracked, escaped, stack, runs>>
  PROVE  Heart'
<1>1. handle[s] \in Task /\ s \in Slot
  BY VisibleType, HandleIsTask
<1>2. /\ Depth' = Depth /\ Running' = Running
      /\ block' = [block EXCEPT ![handle[s]] = IF rc[handle[s]] = 1 THEN "freed" ELSE @]
  BY DEF Depth, Running, Deliver, Release
<1>3. /\ \A x \in Slot : handle'[x] = handle[x] \/ (x = s /\ s \in Local /\ handle'[x] = Null)
      /\ \A u \in Task \ escaped : Refs(u)' \subseteq Refs(u)
      /\ \A u \in Task \ escaped : u = handle[s] => Refs(u)' \subseteq Refs(u) \ {s}
  BY ConsumedRefs DEF Heart
<1>4. FreshLocals'
  BY <1>2, <1>3, LocalType DEF Heart, FreshLocals
<1>5. CellsEscape'
  BY <1>3 DEF Heart, CellsEscape, Slot
<1>6. OneBody'
  BY <1>3 DEF Heart, OneBody
<1>7. FramesHold'
  <2> SUFFICES ASSUME NEW i \in 1 .. Depth
               PROVE  /\ stack[i].slot \in Local => stack[i].slot[1] = i - 1
                      /\ stack[i].task \notin escaped =>
                           /\ stack[i].slot \in Local /\ handle'[stack[i].slot] = stack[i].task
                           /\ block'[stack[i].task] = "live" /\ ~done'[stack[i].task]
    BY <1>2 DEF FramesHold
  <2>1. stack[i].task \in Task /\ stack[i].slot \in Slot
    BY FrameType DEF Depth
  <2>2. stack[i].slot \in Local => stack[i].slot # s
    BY CallerSlot DEF Heart
  <2>3. stack[i].task \notin escaped => stack[i].task # handle[s]
    BY NotDriven DEF Heart
  <2>4. /\ stack[i].slot \in Local => stack[i].slot[1] = i - 1
        /\ stack[i].task \notin escaped =>
             /\ stack[i].slot \in Local /\ handle[stack[i].slot] = stack[i].task
             /\ block[stack[i].task] = "live" /\ ~done[stack[i].task]
    BY DEF Heart, FramesHold
  <2> QED BY <1>1, <1>2, <1>3, <2>1, <2>2, <2>3, <2>4 DEF TypeOK
<1>8. TaskLife'
  <2> SUFFICES ASSUME NEW u \in Task, u \notin escaped
               PROVE  /\ block'[u] = "unborn" => Refs(u)' = {} /\ ~done'[u] /\ runs[u] = 0
                      /\ block'[u] = "live" => (argbuf'[u] = "held" <=> ~done'[u])
                      /\ ~done'[u] /\ u \notin Running => runs[u] = 0
    BY <1>2 DEF TaskLife
  <2>1. CASE u = handle[s]
    BY <1>1, <1>2, <2>1 DEF TypeOK
  <2>2. CASE u # handle[s]
    BY <1>1, <1>2, <1>3, <2>2 DEF Heart, TaskLife, TypeOK
  <2> QED BY <2>1, <2>2
<1>9. EveryReferenceCounted'
  BY <1>1, <1>3, DeliverCounted DEF Heart
<1>10. RunsOnce'
  BY DEF Heart, RunsOnce
<1> QED BY <1>4, <1>5, <1>6, <1>7, <1>8, <1>9, <1>10 DEF Heart

\* An await that calls the target: the caller's variable keeps the handle, and
\* the new body starts one level deeper, with variables of its own.
LEMMA AwaitEnterHeart ==
  ASSUME TypeOK, Heart, NEW s \in Slot, AwaitEnter(s)
  PROVE  Heart'
<1> DEFINE S == [task : Task, slot : Slot]
<1>0. s \in Visible /\ handle[s] # Null /\ block[handle[s]] = "live" /\ ~done[handle[s]]
  BY DEF AwaitEnter
<1>1. handle[s] \in Task /\ Depth \in Nat
  BY <1>0, HandleIsTask, DepthType
<1>2. stack \in Seq(S) /\ [task |-> handle[s], slot |-> s] \in S
  BY <1>1 DEF TypeOK
<1>3. stack' = Append(stack, [task |-> handle[s], slot |-> s])
  BY DEF AwaitEnter
<1>4. /\ Depth' = Depth + 1
      /\ \A i \in 1 .. Depth : stack'[i] = stack[i]
      /\ stack'[Depth + 1] = [task |-> handle[s], slot |-> s]
  BY <1>2, <1>3, AppendProperties DEF Depth
<1>5. /\ handle' = handle /\ tracked' = tracked /\ escaped' = escaped /\ block' = block
      /\ rc' = rc /\ done' = done /\ argbuf' = argbuf /\ runs' = [runs EXCEPT ![handle[s]] = @ + 1]
  BY DEF AwaitEnter, heap, refs
<1>6. \A u : Refs(u)' = Refs(u)
  BY <1>5 DEF Refs
<1>7. handle[s] \in Running' /\ \A u : u \in Running => u \in Running'
  BY <1>1, <1>4 DEF Running, Depth
<1>8. handle[s] \notin escaped => handle[s] \notin Running
  BY <1>0, NotDriven DEF Heart, Running, Depth
<1>9. FreshLocals'
  BY <1>1, <1>4, <1>5, LocalType DEF Heart, FreshLocals
<1>10. CellsEscape'
  BY <1>5 DEF Heart, CellsEscape
<1>11. OneBody'
  BY <1>5, <1>6 DEF Heart, OneBody
<1>12. FramesHold'
  <2> SUFFICES ASSUME NEW i \in 1 .. Depth + 1
               PROVE  /\ stack'[i].slot \in Local => stack'[i].slot[1] = i - 1
                      /\ stack'[i].task \notin escaped =>
                           /\ stack'[i].slot \in Local /\ handle[stack'[i].slot] = stack'[i].task
                           /\ block[stack'[i].task] = "live" /\ ~done[stack'[i].task]
    BY <1>4, <1>5 DEF FramesHold
  <2>1. CASE i \in 1 .. Depth
    BY <1>4, <2>1 DEF Heart, FramesHold
  <2>2. CASE i = Depth + 1
    <3>1. stack'[i].task = handle[s] /\ stack'[i].slot = s
      BY <1>4, <2>2
    <3>2. s \in Local => s[1] = i - 1
      BY <1>0, <1>1, <2>2, VisibleType, LocalType
    <3>3. handle[s] \notin escaped => s \in Local
      BY <1>0, HeldByLocal DEF Heart
    <3> QED BY <1>0, <3>1, <3>2, <3>3
  <2> QED BY <1>1, <2>1, <2>2
<1>13. TaskLife'
  <2> SUFFICES ASSUME NEW u \in Task, u \notin escaped
               PROVE  /\ block[u] = "unborn" => Refs(u) = {} /\ ~done[u] /\ runs'[u] = 0
                      /\ block[u] = "live" => (argbuf[u] = "held" <=> ~done[u])
                      /\ ~done[u] /\ u \notin Running' => runs'[u] = 0
    BY <1>5, <1>6 DEF TaskLife
  <2> QED BY <1>0, <1>5, <1>7 DEF Heart, TaskLife, TypeOK
<1>14. EveryReferenceCounted'
  BY <1>5, <1>6 DEF Heart, EveryReferenceCounted
<1>15. RunsOnce'
  <2>1. handle[s] \notin escaped => runs[handle[s]] = 0
    BY <1>0, <1>1, <1>8 DEF Heart, TaskLife
  <2> QED BY <1>1, <1>5, <2>1 DEF Heart, RunsOnce, TypeOK
<1> QED BY <1>9, <1>10, <1>11, <1>12, <1>13, <1>14, <1>15 DEF Heart

\* The return of a body: its variables die, the caller's variable is consumed.
LEMMA ReturnHeart ==
  ASSUME TypeOK, LiveCounted, Heart, Return
  PROVE  Heart'
<1>0. Depth \in Nat /\ Depth > 0 /\ Depth \in 1 .. Depth /\ Depth = Len(stack)
  BY DepthType DEF Return, DriveEnds, Depth
<1> PICK f : f = stack[Depth]
  OBVIOUS
<1> PICK t : t = f.task
  OBVIOUS
<1>1. t \in Task /\ f.slot \in Slot
  BY <1>0, FrameType
<1>2. /\ Depth' = Depth - 1
      /\ \A i \in 1 .. Depth - 1 : stack'[i] = stack[i]
  <2>1. stack' = SubSeq(stack, 1, Depth - 1) /\ Depth - 1 \in Nat /\ Depth - 1 <= Len(stack)
    BY <1>0 DEF Return, DriveEnds
  <2>2. stack \in Seq([task : Task, slot : Slot])
    BY DEF TypeOK
  <2>3. /\ Len(SubSeq(stack, 1, Depth - 1)) = Depth - 1
        /\ \A i \in 1 .. Depth - 1 : SubSeq(stack, 1, Depth - 1)[i] = stack[i]
    BY <2>1, <2>2, SubSeqFacts
  <2> QED BY <2>1, <2>3 DEF Depth
<1>3. /\ block[t] = "live" /\ Deliver(t, f.slot, "value")
      /\ done' = [done EXCEPT ![t] = TRUE] /\ argbuf' = [argbuf EXCEPT ![t] = "freed"]
      /\ block' = [block EXCEPT ![t] = IF rc[t] = 1 THEN "freed" ELSE @]
      /\ escaped' = escaped /\ runs' = runs
  BY DEF Return, DriveEnds, Deliver, Release
<1>4. \A x \in Slot : handle'[x] = IF x \in Dying \/ (x = f.slot /\ x \in Local)
                                   THEN Null ELSE handle[x]
  BY DEF Return, DriveEnds
<1>5. \A x \in Slot : tracked'[x] = (tracked[x] /\ x \notin Dying)
  BY DEF Return, DriveEnds
<1>6. \A u \in Task : Refs(u)' \subseteq Refs(u)
  BY <1>4, TaskAssumption DEF Refs
<1>7. /\ f.slot \in Local => f.slot[1] = Depth - 1
      /\ t \notin escaped => f.slot \in Local /\ handle[f.slot] = t /\ ~done[t]
  BY <1>0 DEF Heart, FramesHold
<1>8. \A u \in Task \ escaped : u = t => Refs(u)' \subseteq Refs(u) \ {f.slot}
  BY <1>1, <1>4, <1>6, <1>7, TaskAssumption DEF Refs
<1>9. FreshLocals'
  <2> SUFFICES ASSUME NEW x \in Local, x[1] > Depth - 1
               PROVE  handle'[x] = Null /\ ~tracked'[x]
    BY <1>2 DEF FreshLocals
  <2>1. CASE x[1] = Depth
    BY <1>4, <1>5, <2>1, LocalType DEF Dying
  <2>2. CASE x[1] > Depth
    BY <1>4, <1>5, <2>2, LocalType DEF Heart, FreshLocals
  <2> QED BY <1>0, <2>1, <2>2, LocalType
<1>10. CellsEscape'
  BY <1>3, <1>4, <1>5, LocalType DEF Heart, CellsEscape, Slot
<1>11. OneBody'
  BY <1>3, <1>6 DEF Heart, OneBody
<1>12. FramesHold'
  <2> SUFFICES ASSUME NEW i \in 1 .. Depth - 1
               PROVE  /\ stack[i].slot \in Local => stack[i].slot[1] = i - 1
                      /\ stack[i].task \notin escaped =>
                           /\ stack[i].slot \in Local /\ handle'[stack[i].slot] = stack[i].task
                           /\ block'[stack[i].task] = "live" /\ ~done'[stack[i].task]
    BY <1>2, <1>3 DEF FramesHold
  <2>1. i \in 1 .. Depth /\ i - 1 # Depth /\ i - 1 # Depth - 1
    BY <1>0
  <2>2. /\ stack[i].slot \in Local => stack[i].slot[1] = i - 1
        /\ stack[i].task \notin escaped =>
             /\ stack[i].slot \in Local /\ handle[stack[i].slot] = stack[i].task
             /\ block[stack[i].task] = "live" /\ ~done[stack[i].task]
    BY <2>1 DEF Heart, FramesHold
  <2>3. stack[i].task \in Task /\ stack[i].slot \in Slot
    BY <2>1, FrameType DEF Depth
  <2>4. stack[i].slot \in Local => stack[i].slot \notin Dying /\ stack[i].slot # f.slot
    BY <1>7, <2>1, <2>2 DEF Dying
  <2>5. stack[i].task \notin escaped => stack[i].task # t
    <3> SUFFICES ASSUME stack[i].task = t, t \notin escaped PROVE FALSE
      OBVIOUS
    <3>1. {stack[i].slot, f.slot} \subseteq Refs(t)
      BY <1>1, <1>7, <2>2, <2>3 DEF Refs
    <3>2. stack[i].slot[1] = f.slot[1]
      BY <1>1, <3>1 DEF Heart, OneBody
    <3> QED BY <1>7, <2>1, <2>2, <3>2
  <2> QED BY <1>1, <1>3, <1>4, <2>2, <2>3, <2>4, <2>5 DEF TypeOK
<1>13. TaskLife'
  <2>1. \A u : u # t /\ u \in Running => u \in Running'
    BY <1>0, <1>2 DEF Running, Depth
  <2> SUFFICES ASSUME NEW u \in Task, u \notin escaped
               PROVE  /\ block'[u] = "unborn" => Refs(u)' = {} /\ ~done'[u] /\ runs[u] = 0
                      /\ block'[u] = "live" => (argbuf'[u] = "held" <=> ~done'[u])
                      /\ ~done'[u] /\ u \notin Running' => runs[u] = 0
    BY <1>3 DEF TaskLife
  <2>2. CASE u = t
    BY <1>1, <1>3, <2>2 DEF TypeOK
  <2>3. CASE u # t
    BY <1>1, <1>3, <1>6, <2>1, <2>3 DEF Heart, TaskLife, TypeOK
  <2> QED BY <2>2, <2>3
<1>14. EveryReferenceCounted'
  BY <1>1, <1>3, <1>6, <1>7, <1>8, DeliverCounted DEF Heart
<1>15. RunsOnce'
  BY <1>3 DEF Heart, RunsOnce
<1> QED BY <1>9, <1>10, <1>11, <1>12, <1>13, <1>14, <1>15 DEF Heart

\* The steps that touch no reference, count or frame.
LEMMA QuietHeart ==
  ASSUME Heart,
         UNCHANGED <<block, rc, done, argbuf, handle, tracked, stack, runs, escaped>>
  PROVE  Heart'
<1>1. Depth' = Depth /\ Running' = Running /\ \A t : Refs(t)' = Refs(t)
  BY DEF Depth, Running, Refs
<1>2. FreshLocals' /\ CellsEscape' /\ RunsOnce'
  BY <1>1 DEF Heart, FreshLocals, CellsEscape, RunsOnce
<1>3. OneBody' /\ EveryReferenceCounted'
  BY <1>1 DEF Heart, OneBody, EveryReferenceCounted
<1>4. FramesHold'
  BY <1>1 DEF Heart, FramesHold
<1>5. TaskLife'
  BY <1>1 DEF Heart, TaskLife
<1> QED BY <1>2, <1>3, <1>4, <1>5 DEF Heart

\* Every step that the program takes while it is well defined.
LEMMA HeartNext == TypeOK /\ LiveCounted /\ Heart /\ [Next]_vars => Heart'
<1> SUFFICES ASSUME TypeOK, LiveCounted, Heart, [Next]_vars PROVE Heart'
  OBVIOUS
<1>1. ASSUME NEW s \in Slot, NEW t \in Task, Run(s, t) PROVE Heart'
  <2>1. s \in Visible /\ s \notin Cell
    BY <1>1, LocalType DEF Run, VisibleLocal, Visible
  <2> QED BY <1>1, <2>1, AllocateHeart DEF Run
<1>2. ASSUME NEW s \in Slot, NEW t \in Task, Rebind(s, t) PROVE Heart'
  <2>1. s \in Visible /\ s \notin Cell
    BY <1>2, LocalType DEF Rebind, VisibleLocal, Visible
  <2> QED BY <1>2, <2>1, AllocateHeart DEF Rebind
<1>3. ASSUME NEW s \in Slot, NEW t \in Task, RunInCallee(s, t) PROVE Heart'
  <2>1. s \in Visible /\ s \notin Cell
    BY <1>3, LocalType DEF RunInCallee, VisibleLocal, Visible
  <2> QED BY <1>3, <2>1, AllocateHeart DEF RunInCallee
<1>4. ASSUME NEW c \in Cell, NEW t \in Task, RunIntoCell(c, t) PROVE Heart'
  <2>1. c \in Visible /\ c \in Slot
    BY DEF Visible, Slot
  <2>2. tracked' = [tracked EXCEPT ![c] = FALSE]
    BY <1>4, <2>1 DEF RunIntoCell, Heart, CellsEscape, TypeOK
  <2>3. /\ Allocate(t, 1) /\ handle' = [handle EXCEPT ![c] = t]
        /\ t \in escaped' /\ escaped \subseteq escaped' /\ escaped' \subseteq escaped \cup {t}
    BY <1>4 DEF RunIntoCell
  <2>4. 1 \in {1, 2} /\ FALSE \in BOOLEAN
    OBVIOUS
  <2> QED BY <2>1, <2>2, <2>3, <2>4, AllocateHeart
<1>5. ASSUME NEW d \in Slot, NEW s \in Slot, NEW n \in {1, 2}, CopyTracked(d, s, n)
      PROVE  Heart'
  BY <1>5, CopyTrackedHeart
<1>6. ASSUME NEW d \in Slot, NEW s \in Slot, CopyUntracked(d, s) PROVE Heart'
  BY <1>6, CopyUntrackedHeart
<1>7. ASSUME NEW s \in Slot, Cancel(s) PROVE Heart'
  BY <1>7, QuietHeart DEF Cancel, refs, ctrl
<1>8. CASE Yield
  BY <1>8, QuietHeart DEF Yield, heap, refs, ctrl
<1>9. ASSUME NEW s \in Slot, AwaitNull(s) PROVE Heart'
  BY <1>9, QuietHeart DEF AwaitNull, vars, heap, refs, ctrl
<1>10. ASSUME NEW s \in Slot, AwaitDone(s) PROVE Heart'
  <2> DEFINE t == handle[s]
  <2>1. s \in Visible /\ t # Null /\ t \in Task /\ block[t] = "live" /\ done[t]
    BY <1>10, HandleIsTask DEF AwaitDone
  <2>2. Deliver(t, s, result[t]) /\ Consumed(s)
    BY <1>10 DEF AwaitDone
  <2>3. UNCHANGED <<done, argbuf, tracked, escaped, stack, runs>>
    BY <1>10 DEF AwaitDone
  <2>4. done' = [done EXCEPT ![t] = TRUE]
    BY <2>1, <2>3 DEF TypeOK
  <2>5. t \notin escaped => argbuf'[t] # "held"
    BY <2>1, <2>3 DEF Heart, TaskLife
  <2>6. \A u \in Task : u # t => argbuf'[u] = argbuf[u]
    BY <2>3
  <2>7. UNCHANGED <<tracked, escaped, stack, runs>>
    BY <2>3
  <2> QED BY <2>1, <2>2, <2>4, <2>5, <2>6, <2>7, AwaitHeart
<1>11. ASSUME NEW s \in Slot, AwaitCancelled(s) PROVE Heart'
  <2> DEFINE t == handle[s]
  <2>1. s \in Visible /\ t # Null /\ t \in Task /\ block[t] = "live"
    BY <1>11, HandleIsTask DEF AwaitCancelled
  <2>2. Deliver(t, s, result[t]) /\ Consumed(s)
    BY <1>11 DEF AwaitCancelled
  <2>3. UNCHANGED <<tracked, escaped, stack, runs>>
    BY <1>11 DEF AwaitCancelled
  <2>4. done' = [done EXCEPT ![t] = TRUE] /\ argbuf' = [argbuf EXCEPT ![t] = "freed"]
    BY <1>11 DEF AwaitCancelled
  <2>5. argbuf'[t] # "held" /\ \A u \in Task : u # t => argbuf'[u] = argbuf[u]
    BY <2>1, <2>4 DEF TypeOK
  <2> QED BY <2>1, <2>2, <2>3, <2>4, <2>5, AwaitHeart
<1>12. ASSUME NEW s \in Slot, AwaitEnter(s) PROVE Heart'
  BY <1>12, AwaitEnterHeart
<1>13. CASE Return
  BY <1>13, ReturnHeart
<1>14. ASSUME NEW s \in Slot, UseFreed(s) PROVE Heart'
  BY <1>14, QuietHeart DEF UseFreed, Crash, heap, refs, ctrl
<1>15. ASSUME NEW s \in Slot, CancelNull(s) PROVE Heart'
  BY <1>15, QuietHeart DEF CancelNull, Crash, heap, refs, ctrl
<1>16. CASE ReturnCrash
  BY <1>16, QuietHeart DEF ReturnCrash, Crash, heap, refs, ctrl
<1>17. CASE UNCHANGED vars
  BY <1>17, QuietHeart DEF vars, heap, refs, ctrl
<1> QED BY <1>1, <1>2, <1>3, <1>4, <1>5, <1>6, <1>7, <1>8, <1>9, <1>10, <1>11,
           <1>12, <1>13, <1>14, <1>15, <1>16, <1>17 DEF Next

\* The undefined behaviour of a step hits an escaped task only: the block of any
\* other referenced or running task is still there, its arguments not yet freed.
LEMMA FaultNext ==
  TypeOK /\ Heart /\ FaultOnlyEscaped /\ [Next]_vars => FaultOnlyEscaped'
<1> SUFFICES ASSUME TypeOK, Heart, FaultOnlyEscaped, [Next]_vars PROVE FaultOnlyEscaped'
  OBVIOUS
<1>1. ASSUME NEW s \in Slot, UseFreed(s) PROVE FaultOnlyEscaped'
  <2>1. handle[s] \in Task /\ s \in Refs(handle[s]) /\ block[handle[s]] = "freed"
    BY <1>1, HandleIsTask DEF UseFreed, Refs
  <2>2. handle[s] \in escaped
    BY <2>1 DEF Heart, EveryReferenceCounted
  <2> QED BY <1>1, <2>2 DEF UseFreed, Crash, refs, FaultOnlyEscaped
<1>2. ASSUME NEW s \in Slot, CancelNull(s) PROVE FaultOnlyEscaped'
  BY <1>2 DEF CancelNull, Crash, FaultOnlyEscaped
<1>3. CASE ReturnCrash
  <2>1. Depth \in 1 .. Depth
    BY <1>3, DepthType DEF ReturnCrash
  <2> PICK t : t = stack[Depth].task
    OBVIOUS
  <2>2. t \in Task
    BY <2>1, FrameType DEF Depth
  <2>3. t \notin escaped => block[t] = "live" /\ ~done[t]
    BY <2>1 DEF Heart, FramesHold
  <2>4. block[t] = "freed" \/ argbuf[t] = "freed"
    BY <1>3 DEF ReturnCrash
  <2>5. t \in escaped
    BY <2>2, <2>3, <2>4 DEF Heart, TaskLife
  <2>6. fault'.task = t /\ escaped' = escaped
    BY <1>3 DEF ReturnCrash, Crash, refs
  <2> QED BY <2>5, <2>6 DEF FaultOnlyEscaped
<1>4. ASSUME fault' = fault, escaped \subseteq escaped' PROVE FaultOnlyEscaped'
  BY <1>4 DEF FaultOnlyEscaped
<1> USE DEF heap, refs, ctrl
<1>5. ASSUME NEW s \in Slot, NEW t \in Task, Run(s, t) \/ Rebind(s, t) \/ RunInCallee(s, t)
      PROVE FaultOnlyEscaped'
  BY <1>4, <1>5 DEF Run, Rebind, RunInCallee, Allocate
<1>6. ASSUME NEW c \in Cell, NEW t \in Task, RunIntoCell(c, t) PROVE FaultOnlyEscaped'
  BY <1>4, <1>6 DEF RunIntoCell, Allocate
<1>7. ASSUME NEW d \in Slot, NEW s \in Slot, NEW n \in {1, 2},
             CopyTracked(d, s, n) \/ CopyUntracked(d, s)
      PROVE FaultOnlyEscaped'
  BY <1>4, <1>7 DEF CopyTracked, CopyUntracked
<1>8. ASSUME NEW s \in Slot,
             Cancel(s) \/ AwaitNull(s) \/ AwaitDone(s) \/ AwaitCancelled(s) \/ AwaitEnter(s)
      PROVE FaultOnlyEscaped'
  BY <1>4, <1>8 DEF Cancel, AwaitNull, AwaitDone, AwaitCancelled, AwaitEnter, vars
<1>9. CASE Yield \/ Return \/ UNCHANGED vars
  BY <1>4, <1>9 DEF Yield, Return, vars
<1> QED BY <1>1, <1>2, <1>3, <1>5, <1>6, <1>7, <1>8, <1>9 DEF Next

LEMMA HeartInit == Init => LiveCounted /\ Heart /\ FaultOnlyEscaped
<1> SUFFICES ASSUME Init PROVE LiveCounted /\ Heart /\ FaultOnlyEscaped
  OBVIOUS
<1>1. stack = <<>> /\ Depth = 0 /\ Running = {}
  BY EmptySeq DEF Init, Depth, Running
<1>2. \A t \in Task : Refs(t) = {}
  BY TaskAssumption DEF Init, Refs
<1>3. FreshLocals /\ CellsEscape
  BY LocalType DEF Init, FreshLocals, CellsEscape, Slot
<1>4. LiveCounted /\ TaskLife /\ RunsOnce /\ EveryReferenceCounted
  BY <1>2 DEF Init, LiveCounted, TaskLife, RunsOnce, EveryReferenceCounted
<1>5. OneBody /\ FramesHold
  BY <1>1, <1>2 DEF OneBody, FramesHold
<1>6. FaultOnlyEscaped
  BY DEF Init, NoFault, FaultOnlyEscaped
<1> QED BY <1>3, <1>4, <1>5, <1>6 DEF Heart

\* The inductive invariant holds in every state of every program.
THEOREM Inductive == Spec => []IInv
<1>1. Init => IInv
  BY TypeInit, HeartInit DEF IInv, Heart
<1>2. IInv /\ [Next]_vars => IInv'
  BY TypeNext, HeartNext, FaultNext DEF IInv, Heart
<1> QED BY <1>1, <1>2, PTL DEF Spec

\* The runtime is memory safe for every task whose references are all counted:
\* no use after free, no second free of its arguments.
THEOREM MemorySafe == Spec => []FaultOnlyEscaped
<1>1. IInv => FaultOnlyEscaped
  BY DEF IInv
<1> QED BY <1>1, Inductive, PTL

\* A count stands for each reference, so no await frees a task that is still named.
THEOREM CountsReferences == Spec => []EveryReferenceCounted
<1>1. IInv => EveryReferenceCounted
  BY DEF IInv
<1> QED BY <1>1, Inductive, PTL

\* The target of a task runs at most once, however often the task is awaited.
THEOREM RunsAtMostOnce == Spec => []RunsOnce
<1>1. IInv => RunsOnce
  BY DEF IInv
<1> QED BY <1>1, Inductive, PTL

-----------------------------------------------------------------------------
\* All awaits of a task deliver what its result buffer holds: an await that finds the
\* task unfinished is the first one, and nothing changes the buffer after it.
Unheard(t) == \A r \in {"zero", "value"} : outcome[t][r] = 0
OneAnswer ==
  \A t \in Task :
    /\ block[t] = "unborn" => argbuf[t] = "none"
    /\ argbuf[t] = "freed" <=> done[t]
    /\ argbuf[t] # "freed" => Unheard(t)
    /\ \A r \in {"zero", "value"} : outcome[t][r] # 0 => result[t] = r

\* A delivery is counted for one task and one result.
LEMMA DeliverOne ==
  ASSUME TypeOK, NEW t \in Task, NEW s, NEW r \in {"zero", "value"}, Deliver(t, s, r)
  PROVE  /\ \A u \in Task, q \in {"zero", "value"} :
              (u # t \/ q # r) => outcome'[u][q] = outcome[u][q]
         /\ \A u \in Task : block'[u] = "unborn" => block[u] = "unborn"
BY DEF Deliver, Release, TypeOK

\* A delivery of what the buffer of t holds, or will hold, keeps OneAnswer.
LEMMA DeliverAgrees ==
  ASSUME TypeOK, OneAnswer, NEW t \in Task, NEW s, NEW r \in {"zero", "value"},
         Deliver(t, s, r), result'[t] = r,
         \A u \in Task : u # t => result'[u] = result[u] /\ argbuf'[u] = argbuf[u]
                                    /\ done'[u] = done[u],
         block[t] # "unborn", argbuf'[t] = "freed", done'[t],
         \A q \in {"zero", "value"} : q # r => outcome[t][q] = 0
  PROVE  OneAnswer'
<1> SUFFICES ASSUME NEW u \in Task
    PROVE  /\ block'[u] = "unborn" => argbuf'[u] = "none"
           /\ argbuf'[u] = "freed" <=> done'[u]
           /\ argbuf'[u] # "freed" => Unheard(u)'
           /\ \A q \in {"zero", "value"} : outcome'[u][q] # 0 => result'[u] = q
  BY DEF OneAnswer
<1>1. CASE u = t
  <2>1. \A q \in {"zero", "value"} : q # r => outcome'[u][q] = 0
    BY <1>1, DeliverOne
  <2>2. block'[u] # "unborn"
    BY <1>1, DeliverOne
  <2> QED
    BY <1>1, <2>1, <2>2
<1>2. CASE u # t
  <2>1. \A q \in {"zero", "value"} : outcome'[u][q] = outcome[u][q]
    BY <1>2, DeliverOne
  <2>2. block'[u] = "unborn" => block[u] = "unborn"
    BY DeliverOne
  <2> QED
    BY <1>2, <2>1, <2>2 DEF OneAnswer, Unheard
<1> QED
  BY <1>1, <1>2

\* A new task has not been heard of.
LEMMA AllocateAgrees ==
  ASSUME TypeOK, OneAnswer, NEW t \in Task, NEW n, Allocate(t, n)
  PROVE  OneAnswer'
BY DEF Allocate, ctrl, OneAnswer, Unheard, TypeOK

LEMMA AnswerNext ==
  ASSUME TypeOK, OneAnswer, [Next]_vars
  PROVE  OneAnswer'
<1>1. ASSUME NEW t \in Task, NEW n, Allocate(t, n) PROVE OneAnswer'
  BY <1>1, AllocateAgrees
<1>2. ASSUME UNCHANGED <<block, argbuf, done, outcome, result>> PROVE OneAnswer'
  BY <1>2 DEF OneAnswer, Unheard
<1>3. ASSUME NEW s \in Slot, AwaitDone(s) PROVE OneAnswer'
  <2> DEFINE t == handle[s]
  <2>1. t \in Task /\ result[t] \in {"zero", "value"} /\ block[t] = "live" /\ done[t]
    BY <1>3 DEF AwaitDone, TypeOK
  <2>2. /\ Deliver(t, s, result[t]) /\ result' = result /\ argbuf' = argbuf /\ done' = done
    BY <1>3 DEF AwaitDone
  <2>3. \A q \in {"zero", "value"} : q # result[t] => outcome[t][q] = 0
    BY <2>1 DEF OneAnswer
  <2>4. argbuf[t] = "freed"
    BY <2>1 DEF OneAnswer
  <2> HIDE DEF t
  <2> QED
    BY <2>1, <2>2, <2>3, <2>4, DeliverAgrees
<1>4. ASSUME NEW s \in Slot, AwaitCancelled(s) PROVE OneAnswer'
  <2> DEFINE t == handle[s]
  <2>1. t \in Task /\ result[t] \in {"zero", "value"} /\ block[t] = "live" /\ ~done[t]
    BY <1>4 DEF AwaitCancelled, TypeOK
  <2>2. /\ Deliver(t, s, result[t]) /\ result' = result
        /\ argbuf' = [argbuf EXCEPT ![t] = "freed"] /\ done' = [done EXCEPT ![t] = TRUE]
    BY <1>4 DEF AwaitCancelled
  <2>3. \A q \in {"zero", "value"} : outcome[t][q] = 0
    BY <2>1 DEF OneAnswer, Unheard
  <2>4. argbuf'[t] = "freed" /\ done'[t]
    BY <2>1, <2>2 DEF TypeOK
  <2>5. \A u \in Task : u # t => argbuf'[u] = argbuf[u] /\ done'[u] = done[u]
    BY <2>1, <2>2 DEF TypeOK
  <2> HIDE DEF t
  <2> QED
    BY <2>1, <2>2, <2>3, <2>4, <2>5, DeliverAgrees
<1>5. ASSUME Return PROVE OneAnswer'
  <2> DEFINE f == stack[Depth]
             t == f.task
  <2>1. t \in Task /\ block[t] = "live" /\ argbuf[t] = "held"
    BY <1>5, DepthType, FrameType DEF Return, DriveEnds, Depth
  <2>2. /\ Deliver(t, f.slot, "value") /\ result' = [result EXCEPT ![t] = "value"]
        /\ argbuf' = [argbuf EXCEPT ![t] = "freed"] /\ done' = [done EXCEPT ![t] = TRUE]
    BY <1>5 DEF Return
  <2>3. \A q \in {"zero", "value"} : outcome[t][q] = 0
    BY <2>1 DEF OneAnswer, Unheard
  <2>4. argbuf'[t] = "freed" /\ done'[t] /\ result'[t] = "value"
    BY <2>1, <2>2 DEF TypeOK
  <2>5. \A u \in Task : u # t => result'[u] = result[u] /\ argbuf'[u] = argbuf[u]
                                 /\ done'[u] = done[u]
    BY <2>1, <2>2 DEF TypeOK
  <2> HIDE DEF t
  <2> QED
    BY <2>1, <2>2, <2>3, <2>4, <2>5, DeliverAgrees
<1>6. ASSUME NEW s \in Slot, NEW t \in Task, Run(s, t) \/ Rebind(s, t) \/ RunInCallee(s, t)
      PROVE OneAnswer'
  BY <1>1, <1>6 DEF Run, Rebind, RunInCallee
<1>7. ASSUME NEW c \in Cell, NEW t \in Task, RunIntoCell(c, t) PROVE OneAnswer'
  BY <1>1, <1>7 DEF RunIntoCell
<1>8. ASSUME NEW d \in Slot, NEW s \in Slot, CopyUntracked(d, s) \/ \E n \in {1, 2} : CopyTracked(d, s, n)
      PROVE OneAnswer'
  BY <1>2, <1>8 DEF CopyUntracked, CopyTracked, heap, ctrl
<1>9. ASSUME NEW s \in Slot, Cancel(s) \/ AwaitNull(s) \/ AwaitEnter(s) PROVE OneAnswer'
  BY <1>2, <1>9 DEF Cancel, AwaitNull, AwaitEnter, heap, ctrl, vars
<1>10. CASE Yield
  BY <1>2, <1>10 DEF Yield, heap, ctrl
<1>11. ASSUME NEW s \in Slot, UseFreed(s) \/ CancelNull(s) PROVE OneAnswer'
  BY <1>2, <1>11 DEF UseFreed, CancelNull, Crash, heap, ctrl
<1>12. CASE ReturnCrash
  BY <1>2, <1>12 DEF ReturnCrash, Crash, heap, ctrl
<1>13. CASE UNCHANGED vars
  BY <1>2, <1>13 DEF vars, heap, ctrl
<1> QED
  BY <1>3, <1>4, <1>5, <1>6, <1>7, <1>8, <1>9, <1>10, <1>11, <1>12, <1>13 DEF Next

\* Every await of a task delivers the same result, also of a task that has escaped and
\* whenever it is cancelled (AwaitsAgree).
THEOREM AwaitsDeliverTheSame == Spec => []AwaitsAgree
<1>1. Init => OneAnswer
  BY DEF Init, OneAnswer, Unheard
<1>2. TypeOK /\ OneAnswer => AwaitsAgree
  BY DEF OneAnswer, AwaitsAgree
<1>3. Init /\ [][Next]_vars => [](TypeOK /\ LiveCounted)
  BY TypeCorrect DEF Spec
<1>4. TypeOK /\ LiveCounted /\ OneAnswer /\ [Next]_vars => OneAnswer'
  BY AnswerNext
<1> QED
  BY <1>1, <1>2, <1>3, <1>4, PTL DEF Spec

-----------------------------------------------------------------------------
\* A task that was called and is not done is being driven.
CallInv ==
  \A t \in Task :
    /\ block[t] = "unborn" => runs[t] = 0
    /\ runs[t] # 0 /\ ~done[t] => t \in Running

\* Nothing is called, and what is born or ends is as before.
LEMMA NotCalled ==
  ASSUME CallInv, stack' = stack, runs' = runs,
         \A t \in Task : block'[t] = "unborn" => block[t] = "unborn",
         \A t \in Task : done[t] => done'[t]
  PROVE  CallInv'
BY DEF CallInv, Running

LEMMA AllocateCalls ==
  ASSUME TypeOK, CallInv, NEW t \in Task, NEW n, Allocate(t, n)
  PROVE  CallInv'
BY NotCalled DEF Allocate, ctrl, TypeOK

\* The await of an unfinished task puts it on the stack.
LEMMA EnterCalls ==
  ASSUME TypeOK, CallInv, NEW s \in Slot, AwaitEnter(s)
  PROVE  CallInv'
<1> DEFINE t == handle[s]
           f == [task |-> t, slot |-> s]
<1>1. t \in Task /\ block[t] = "live"
  BY DEF AwaitEnter, TypeOK
<1>2. /\ stack' = Append(stack, f) /\ runs' = [runs EXCEPT ![t] = @ + 1]
      /\ block' = block /\ done' = done
  BY DEF AwaitEnter, heap
<1>3. stack \in Seq([task : Task, slot : Slot]) /\ f \in [task : Task, slot : Slot]
  BY <1>1 DEF TypeOK
<1> HIDE DEF f
<1>4. /\ Len(stack') = Len(stack) + 1 /\ stack'[Len(stack) + 1] = f
      /\ \A i \in 1 .. Len(stack) : stack'[i] = stack[i] /\ i \in 1 .. Len(stack')
      /\ Len(stack) + 1 \in 1 .. Len(stack')
  BY <1>2, <1>3, AppendProperties, LenProperties
<1>5. Running \subseteq Running'
  BY <1>4 DEF Running
<1>6. t \in Running'
  BY <1>4 DEF Running, f
<1> HIDE DEF t
<1> QED
  BY <1>1, <1>2, <1>5, <1>6 DEF CallInv, TypeOK

\* The task that leaves the stack is done.
LEMMA ReturnCalls ==
  ASSUME TypeOK, CallInv, Return
  PROVE  CallInv'
<1> DEFINE f == stack[Depth]
           t == f.task
<1>1. /\ Depth \in Nat /\ Depth > 0 /\ t \in Task /\ block[t] = "live"
  BY DepthType, FrameType DEF Return, DriveEnds, Depth
<1>2. /\ stack' = SubSeq(stack, 1, Depth - 1) /\ done' = [done EXCEPT ![t] = TRUE]
      /\ runs' = runs /\ Deliver(t, f.slot, "value")
  BY DEF Return
<1>3. \A u \in Task : block'[u] = "unborn" => block[u] = "unborn"
  BY <1>1, <1>2, DeliverOne
<1>4. /\ Len(stack') = Depth - 1
      /\ \A i \in 1 .. Depth - 1 : stack'[i] = stack[i]
  <2>1. stack \in Seq([task : Task, slot : Slot])
    BY DEF TypeOK
  <2>2. Depth - 1 \in Nat /\ Depth - 1 <= Len(stack)
    BY <1>1 DEF Depth
  <2> QED
    BY <1>2, <2>1, <2>2, SubSeqFacts
<1>5. Running \subseteq Running' \cup {t}
  <2> SUFFICES ASSUME NEW i \in 1 .. Len(stack)
      PROVE  stack[i].task \in Running' \cup {t}
    BY DEF Running
  <2>1. CASE i = Depth
    BY <2>1
  <2>2. CASE i # Depth
    <3>1. i \in 1 .. Len(stack') /\ stack'[i] = stack[i]
      BY <1>1, <1>4, <2>2 DEF Depth
    <3> QED
      BY <3>1 DEF Running
  <2> QED
    BY <2>1, <2>2
<1>6. done'[t] /\ \A u \in Task : u # t => done'[u] = done[u]
  BY <1>1, <1>2 DEF TypeOK
<1> HIDE DEF t
<1> QED
  BY <1>1, <1>2, <1>3, <1>5, <1>6 DEF CallInv

LEMMA CallNext ==
  ASSUME TypeOK, CallInv, [Next]_vars
  PROVE  CallInv'
<1>1. ASSUME NEW t \in Task, NEW n, Allocate(t, n) PROVE CallInv'
  BY <1>1, AllocateCalls
<1>2. ASSUME UNCHANGED <<block, done, stack, runs>> PROVE CallInv'
  BY <1>2, NotCalled
<1>3. ASSUME NEW s \in Slot, AwaitDone(s) \/ AwaitCancelled(s) PROVE CallInv'
  <2> DEFINE t == handle[s]
  <2>1. t \in Task /\ result[t] \in {"zero", "value"}
    BY <1>3 DEF AwaitDone, AwaitCancelled, TypeOK
  <2>2. Deliver(t, s, result[t]) /\ stack' = stack /\ runs' = runs
    BY <1>3 DEF AwaitDone, AwaitCancelled
  <2>3. \A u \in Task : done[u] => done'[u]
    BY <1>3, <2>1 DEF AwaitDone, AwaitCancelled, TypeOK
  <2> HIDE DEF t
  <2>4. \A u \in Task : block'[u] = "unborn" => block[u] = "unborn"
    BY <2>1, <2>2, DeliverOne
  <2> QED
    BY <2>2, <2>3, <2>4, NotCalled
<1>4. ASSUME NEW s \in Slot, AwaitEnter(s) PROVE CallInv'
  BY <1>4, EnterCalls
<1>5. CASE Return
  BY <1>5, ReturnCalls
<1>6. ASSUME NEW s \in Slot, NEW t \in Task, Run(s, t) \/ Rebind(s, t) \/ RunInCallee(s, t)
      PROVE CallInv'
  BY <1>1, <1>6 DEF Run, Rebind, RunInCallee
<1>7. ASSUME NEW c \in Cell, NEW t \in Task, RunIntoCell(c, t) PROVE CallInv'
  BY <1>1, <1>7 DEF RunIntoCell
<1>8. ASSUME NEW d \in Slot, NEW s \in Slot, CopyUntracked(d, s) \/ \E n \in {1, 2} : CopyTracked(d, s, n)
      PROVE CallInv'
  BY <1>2, <1>8 DEF CopyUntracked, CopyTracked, heap, ctrl
<1>9. ASSUME NEW s \in Slot, Cancel(s) \/ AwaitNull(s) \/ UseFreed(s) \/ CancelNull(s)
      PROVE CallInv'
  BY <1>2, <1>9 DEF Cancel, AwaitNull, UseFreed, CancelNull, Crash, heap, ctrl, vars
<1>10. CASE Yield \/ ReturnCrash \/ UNCHANGED vars
  BY <1>2, <1>10 DEF Yield, ReturnCrash, Crash, heap, ctrl, vars
<1> QED
  BY <1>3, <1>4, <1>5, <1>6, <1>7, <1>8, <1>9, <1>10 DEF Next

\* Only the await of an unfinished task calls its target.
LEMMA CallsInside ==
  ASSUME TypeOK, CallInv, Next, NEW t \in Task, runs'[t] > runs[t]
  PROVE  runs[t] = 0 \/ t \in Running
<1>1. ASSUME runs' = runs PROVE FALSE
  BY <1>1 DEF TypeOK
<1>2. ASSUME NEW s \in Slot, AwaitEnter(s) PROVE runs[t] = 0 \/ t \in Running
  <2>1. CASE t = handle[s]
    BY <1>2, <2>1 DEF AwaitEnter, CallInv
  <2>2. CASE t # handle[s]
    BY <1>2, <2>2 DEF AwaitEnter, TypeOK
  <2> QED
    BY <2>1, <2>2
<1>3. (\E s \in Slot : AwaitEnter(s)) \/ runs' = runs
  BY DEF Next, Run, Rebind, RunInCallee, RunIntoCell, Allocate, CopyUntracked, CopyTracked,
         Cancel, Yield, AwaitNull, AwaitDone, AwaitCancelled, Return, UseFreed, CancelNull,
         ReturnCrash, Crash, ctrl, vars
<1> QED
  BY <1>1, <1>2, <1>3

\* The target of a task is called a second time only from within its first call
\* (CalledWithin), of a task that has escaped too.
THEOREM CalledAgainWithin == Spec => CalledWithin
<1>1. Init => CallInv
  BY DEF Init, CallInv
<1>2. TypeOK /\ LiveCounted /\ CallInv /\ [Next]_vars => CallInv'
  BY CallNext
<1>3. TypeOK /\ CallInv /\ [Next]_vars
        => [\A t \in Task : runs'[t] > runs[t] => runs[t] = 0 \/ t \in Running]_vars
  BY CallsInside
<1>4. Init /\ [][Next]_vars => [](TypeOK /\ LiveCounted)
  BY TypeCorrect DEF Spec
<1> QED
  BY <1>1, <1>2, <1>3, <1>4, PTL DEF Spec, CalledWithin
=============================================================================
