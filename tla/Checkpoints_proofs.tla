-------------------------- MODULE Checkpoints_proofs --------------------------
(***************************************************************************)
(* Proofs about Checkpoints, for any number of windows and paths, any      *)
(* contents and any bounds.                                                *)
(*                                                                         *)
(* CkInv is inductive.  Its parts: the types; Alive and HasIndex, that a   *)
(* job belongs to an open window and finds an index; IndexSound, what the  *)
(* index on disk says of its own rows; OpIndexed, OpCaptured, OpRestores   *)
(* and OpAnchored, what the job that holds the lock knows about the disk   *)
(* and the worktree while others edit; and the properties that speak of    *)
(* the history.                                                            *)
(***************************************************************************)
EXTENDS Checkpoints, FiniteSetTheorems, TLAPS

\* Only an open window has jobs, a lease or the lock, and it has an index.
Alive ==
  \A w \in Windows : state[w] # "up" =>
    jobs[w] = <<>> /\ lease[w] = "free" /\ (op # None => op.win # w)

HasIndex ==
  /\ (\E w \in Windows : state[w] = "up") => index # None
  /\ settled \/ displaced # None => index # None

\* An ordinal is given for something that was asked for.
TurnsAsked == \A w \in Windows : turns[w] <= asks

\* An index without rows says nothing of the worktree.
Blank(idx) == idx.rows = <<>> => idx.baseline = None /\ idx.redo = None

\* The redo pointer names rows, and its anchor holds the tip.
RedoSound(idx) ==
  idx.redo # None =>
    /\ HasRow(idx, idx.redo.anchor) /\ idx.redo.anchor.tree = tip
    /\ HasRow(idx, idx.redo.cursor)

IndexSound == index # None => Blank(index) /\ RedoSound(index)

\* The index that the job works on is the one on disk, unless a cold window has
\* written its empty one meanwhile.
OpIndexed ==
  op # None =>
    /\ Blank(op.idx) /\ RedoSound(op.idx) /\ Len(op.idx.rows) <= MaxRows
    /\ Rows = op.idx.rows \/ Rows = <<>>
    /\ ~ wiped => index.rows = op.idx.rows /\ index.baseline = op.idx.baseline

\* What a snapshot captured is still live, but for what others touched.
OpCaptured ==
  op # None /\ op.pc = "store" =>
    /\ op.job.kind \in {"base", "before", "after"}
    /\ op.touched = {} => Capture(worktree) = op.tree

\* A path that a restore has dealt with is as in the target; one that it will
\* write is as captured, unless it was forced; others may touch any path.
OpRestores ==
  op # None /\ op.pc \in {"anchor", "apply"} =>
    /\ op.target # None /\ HasRow(op.idx, op.target)
    /\ \A p \in Paths :
         p \notin op.todo \cup op.touched /\ ~ op.skipped
           => Capture(worktree)[p] = op.target.tree[p]
    /\ \A p \in op.todo \ op.touched : ~ op.job.force => worktree[p] = op.tree[p]

\* Before the first write, the captured tree is a row on disk.
OpAnchored ==
  op # None /\ op.pc = "apply" =>
    op.anchor # None /\ HasRow(op.idx, op.anchor) /\ op.anchor.tree = op.tree

CkInv ==
  /\ CkTypeOK /\ Alive /\ HasIndex /\ TurnsAsked /\ IndexSound
  /\ OpIndexed /\ OpCaptured /\ OpRestores /\ OpAnchored
  /\ NothingLost /\ SettledNotDirty /\ BorrowedIsOwed

-----------------------------------------------------------------------------
(* Operators.                                                              *)

\* A set of positions has a last one.
LEMMA Largest ==
  ASSUME NEW n \in Nat, NEW T, T \subseteq 1 .. n, T # {}
  PROVE  \E i \in T : \A j \in T : j <= i
<1> DEFINE Above(i) == {j \in T : i < j}
           Aboves == {Above(i) : i \in T}
           R == StrictSubsetOrdering(T)
<1>1. IsFiniteSet(1 .. n)
  BY FS_Interval
<1>2. IsFiniteSet(T)
  BY <1>1, FS_Subset
<1>3. Aboves \subseteq FiniteSubsetsOf(T)
  <2>1. \A i \in T : Above(i) \in SUBSET T
    OBVIOUS
  <2>2. \A i \in T : Above(i) \in FiniteSubsetsOf(T)
    BY <1>2, <2>1, FS_Subset DEF FiniteSubsetsOf
  <2>3. QED BY <2>2
<1>4. Aboves # {}
  OBVIOUS
<1> HIDE DEF Aboves, R
<1>5. PICK x \in Aboves : \A y \in Aboves : ~ (<<y, x>> \in R)
  BY <1>3, <1>4, FS_StrictSubsetOrderingWellFounded, WFMin DEF R
<1>6. PICK i \in T : x = Above(i)
  BY <1>5 DEF Aboves
<1>7. ASSUME NEW j \in T, i < j PROVE FALSE
  <2>1. T \subseteq Nat /\ i \in Nat /\ j \in Nat
    OBVIOUS
  <2>2. ASSUME NEW k \in Above(j) PROVE k \in Above(i)
    <3>1. k \in T /\ k \in Nat /\ j < k
      BY <2>1, <2>2
    <3>2. QED BY <1>7, <2>1, <3>1
  <2>3. j \in Above(i) /\ j \notin Above(j)
    BY <1>7, <2>1
  <2>4. <<Above(j), Above(i)>> \in R
    BY <2>2, <2>3 DEF R, StrictSubsetOrdering
  <2>5. Above(j) \in Aboves
    BY DEF Aboves
  <2>6. QED BY <1>5, <1>6, <2>4, <2>5
<1>8. QED BY <1>7

\* What is captured is a tree, and a tree captures itself.
LEMMA CaptureIsTree ==
  ASSUME worktree \in [Paths -> Contents \cup {Big}]
  PROVE  Capture(worktree) \in Trees
BY CheckpointAssumption DEF Capture, Trees

\* A row that is appended is there, and so are the ones before it.
LEMMA AppendKeepsRows ==
  ASSUME NEW idx \in Indexes, NEW row \in RowSet, NEW new \in Indexes,
         new.rows = Append(idx.rows, row)
  PROVE  /\ HasRow(new, row) /\ Stored(new, row.tree)
         /\ \A r : HasRow(idx, r) => HasRow(new, r)
         /\ \A t : Stored(idx, t) => Stored(new, t)
         /\ new.rows # <<>>
         /\ IsPrefix(idx.rows, new.rows)
<1>1. /\ idx.rows \in Seq(RowSet) /\ Len(idx.rows) \in Nat
      /\ Len(new.rows) = Len(idx.rows) + 1
      /\ new.rows[Len(idx.rows) + 1] = row
      /\ \A i \in DOMAIN idx.rows : i \in DOMAIN new.rows /\ new.rows[i] = idx.rows[i]
  BY DEF Indexes
<1>2. DOMAIN new.rows = 1 .. Len(new.rows)
  BY DEF Indexes
<1>3. QED BY <1>1, <1>2 DEF HasRow, Stored, IsPrefix

\* Index records with the fields a job changes.
LEMMA IndexFields ==
  ASSUME NEW idx \in Indexes, NEW rows \in Seq(RowSet), NEW tree \in Trees,
         NEW redo \in Pointers \cup {None}, NEW n \in Nat
  PROVE  /\ [idx EXCEPT !.baseline = tree] \in Indexes
         /\ [idx EXCEPT !.baseline = tree, !.redo = redo] \in Indexes
         /\ [idx EXCEPT !.baseline = tree, !.rows = rows] \in Indexes
         /\ [idx EXCEPT !.redo = redo] \in Indexes
         /\ [idx EXCEPT !.seq = n, !.rows = rows] \in Indexes
BY DEF Indexes

LEMMA EmptyIsIndex == EmptyIndex \in Indexes /\ EmptyIndex # None
<1>1. <<>> \in Seq(RowSet)
  OBVIOUS
<1>2. EmptyIndex \in Indexes
  BY <1>1 DEF EmptyIndex, Indexes
<1>3. QED BY <1>2, CheckpointAssumption

LEMMA OpIsNotNone == ASSUME NEW o \in OpSet PROVE o # None
BY CheckpointAssumption

\* The job that takes the lock.
LEMMA OpFields ==
  ASSUME worktree \in [Paths -> Contents \cup {Big}], NEW w \in Windows,
         NEW job \in JobSet, NEW pc \in {"store", "anchor", "apply"},
         NEW idx \in Indexes, NEW target \in RowSet \cup {None},
         NEW todo \in SUBSET Paths
  PROVE  /\ Op(w, job, pc, idx, target, todo) \in OpSet
         /\ Op(w, job, pc, idx, target, todo).win = w
BY CaptureIsTree DEF Op, OpSet

\* The queue of a window.
LEMMA Queue ==
  ASSUME jobs \in [Windows -> Seq(JobSet)], NEW w \in Windows
  PROVE  /\ jobs[w] # <<>> => Head(jobs[w]) \in JobSet
         /\ jobs[w] # <<>> => [jobs EXCEPT ![w] = Tail(@)] \in [Windows -> Seq(JobSet)]
         /\ [jobs EXCEPT ![w] = <<>>] \in [Windows -> Seq(JobSet)]
         /\ \A job \in JobSet :
              [jobs EXCEPT ![w] = Append(@, job)] \in [Windows -> Seq(JobSet)]
<1>1. jobs[w] \in Seq(JobSet)
  OBVIOUS
<1>2. /\ jobs[w] # <<>> => Head(jobs[w]) \in JobSet /\ Tail(jobs[w]) \in Seq(JobSet)
      /\ \A job \in JobSet : Append(jobs[w], job) \in Seq(JobSet)
      /\ <<>> \in Seq(JobSet)
  BY <1>1
<1>3. QED BY <1>2

\* What a restore goes to is a row of the index.
LEMMA TargetIsRow ==
  ASSUME index \in Indexes, NEW job, Allowed(job)
  PROVE  TargetOf(index, job) \in RowSet /\ HasRow(index, TargetOf(index, job))
BY DEF Allowed, Complete, HasRow, Indexes

-----------------------------------------------------------------------------
(* Types, and who may have what.                                           *)

LEMMA SettlesLease ==
  ASSUME lease \in [Windows -> {"free", "barrier", "agent", "restore"}],
         NEW w \in Windows, NEW job, Settles(w, job)
  PROVE  lease' \in [Windows -> {"free", "barrier", "agent", "restore"}]
BY DEF Settles

\* A job that runs or waits has a window that is up, and an index.
LEMMA JobsHaveIndex ==
  ASSUME CkTypeOK, Alive, HasIndex, NEW w \in Windows,
         jobs[w] # <<>> \/ lease[w] # "free" \/ (op # None /\ op.win = w)
  PROVE  state[w] = "up" /\ index \in Indexes /\ index # None
BY DEF CkTypeOK, Alive, HasIndex

\* Outside the jobs.
LEMMA TypeWindowStep ==
  ASSUME CkInv, NEW w \in Windows, WindowStep(w)
  PROVE  CkTypeOK'
<1>a. CkTypeOK /\ Alive /\ HasIndex /\ TurnsAsked
  BY DEF CkInv
<1> USE <1>a DEF CkTypeOK, diskVars, history, bounds, WindowStates
<1>1. ASSUME OpenWindow(w) PROVE CkTypeOK'
  BY <1>1 DEF OpenWindow, Rows
<1>2. ASSUME InitLoads(w) PROVE CkTypeOK'
  <2>1. Job("base", 1, None, FALSE) \in JobSet
    BY DEF Job, JobSet
  <2>2. QED
    BY <1>2, <2>1, Queue DEF InitLoads, Activate, Enqueue, Rows
<1>3. ASSUME InitFindsNone(w) PROVE CkTypeOK'
  BY <1>3 DEF InitFindsNone, Rows
<1>4. ASSUME CreateIndex(w) PROVE CkTypeOK'
  <2>1. Job("base", 1, None, FALSE) \in JobSet
    BY DEF Job, JobSet
  <2>2. index' \in Indexes \cup {None} /\ Len(Rows') <= MaxRows
    BY <1>4, EmptyIsIndex, CheckpointAssumption DEF CreateIndex, Rows, EmptyIndex
  <2>3. QED
    BY <1>4, <2>1, <2>2, Queue DEF CreateIndex, Activate, Enqueue
<1>5. ASSUME GoDown(w), faults' \in Nat PROVE CkTypeOK'
  <2>1. jobs' \in [Windows -> Seq(JobSet)]
    BY <1>5, Queue DEF GoDown
  <2>2. {settled', wiped', unflushed'} \subseteq BOOLEAN
    BY <1>5 DEF GoDown
  <2>3. op' \in OpSet \cup {None} /\ turns' \in [Windows -> 0 .. MaxAsks]
    BY <1>5, CheckpointAssumption DEF GoDown
  <2>4. QED
    BY <1>5, <2>1, <2>2, <2>3 DEF GoDown, Rows
<1>6. ASSUME CloseWindow(w) \/ CkCrash(w) PROVE CkTypeOK'
  BY <1>5, <1>6 DEF CloseWindow, CkCrash, Fault
<1>7. ASSUME TurnStart(w) PROVE CkTypeOK'
  <2>1. turns[w] + 1 \in 0 .. MaxAsks /\ asks' \in Nat
    BY <1>7, CheckpointAssumption DEF TurnStart, Asked, TurnsAsked
  <2>2. Job("before", turns[w] + 1, None, FALSE) \in JobSet
    BY <2>1 DEF Job, JobSet
  <2>3. QED
    BY <1>7, <2>1, <2>2, Queue DEF TurnStart, Enqueue, Rows
<1>8. ASSUME TurnEnd(w) PROVE CkTypeOK'
  <2>1. Job("after", turns[w], None, FALSE) \in JobSet
    BY DEF Job, JobSet
  <2>2. QED
    BY <1>8, <2>1, Queue DEF TurnEnd, Enqueue, Rows
<1>9. ASSUME AskRestore(w) PROVE CkTypeOK'
  <2>1. index \in Indexes /\ Rows = index.rows
    BY <1>9 DEF AskRestore, HasIndex, Rows
  <2>2. \A i \in DOMAIN Rows : Rows[i] \in RowSet
    BY <2>1 DEF Indexes
  <2>3. \A force \in BOOLEAN :
          /\ \A i \in DOMAIN Rows : Job("restore", 0, Rows[i], force) \in JobSet
          /\ \A kind \in {"redo", "redoAll"} : Job(kind, 0, None, force) \in JobSet
    BY <2>2 DEF Job, JobSet
  <2>4. PICK job \in JobSet : jobs' = [jobs EXCEPT ![w] = Append(@, job)]
    BY <1>9, <2>3 DEF AskRestore, Enqueue
  <2>5. asks' \in Nat
    BY <1>9 DEF AskRestore, Asked
  <2>6. QED
    BY <1>9, <2>4, <2>5, Queue DEF AskRestore, Rows
<1>10. QED
  BY <1>1, <1>2, <1>3, <1>4, <1>6, <1>7, <1>8, <1>9 DEF WindowStep

\* The kinds of jobs that take the lock have a window that is up.
LEMMA TakesJob ==
  ASSUME CkTypeOK, Alive, HasIndex, NEW w \in Windows, NEW kinds, Takes(w, kinds)
  PROVE  /\ op = None /\ Head(jobs[w]) \in JobSet /\ Head(jobs[w]).kind \in kinds
         /\ jobs' \in [Windows -> Seq(JobSet)]
         /\ state[w] = "up" /\ index \in Indexes /\ index # None
BY JobsHaveIndex, Queue DEF CkTypeOK, Takes

LEMMA RunningOp ==
  ASSUME CkTypeOK, Alive, HasIndex, NEW w \in Windows, NEW pc, Running(w, pc)
  PROVE  /\ op \in OpSet /\ op # None /\ op.win = w /\ op.pc = pc
         /\ op.job \in JobSet /\ op.idx \in Indexes /\ op.tree \in Trees
         /\ state[w] = "up" /\ index \in Indexes /\ index # None
BY JobsHaveIndex DEF CkTypeOK, Running, OpSet

\* What a snapshot writes.
LEMMA SnapshotIndex ==
  ASSUME NEW idx \in Indexes, NEW job \in JobSet, NEW tree \in Trees
  PROVE  /\ WithoutRedo(idx, job) \in Indexes
         /\ WithoutRedo(idx, job).rows = idx.rows
         /\ WithoutRedo(idx, job).redo \in {idx.redo, None}
BY IndexFields DEF WithoutRedo, Indexes

LEMMA SnapshotRow ==
  ASSUME NEW job \in JobSet, NEW tree \in Trees
  PROVE  Row(tree, IF job.kind = "base" THEN "base" ELSE "turn", job.n) \in RowSet
BY DEF Row, RowSet, JobSet

\* What SnapshotStores writes to the index.
StoredIndex ==
  LET phase == IF op.job.kind = "base" THEN "base" ELSE "turn"
      row == Row(op.tree, phase, op.job.n)
  IN  [WithoutRedo(op.idx, op.job) EXCEPT !.baseline = op.tree,
                                          !.rows = Append(@, row)]

LEMMA StoredIndexIs ==
  ASSUME CkTypeOK, Alive, HasIndex, NEW w \in Windows, SnapshotStores(w)
  PROVE  /\ index' = StoredIndex /\ StoredIndex \in Indexes
         /\ StoredIndex.baseline = op.tree
         /\ StoredIndex.redo \in {op.idx.redo, None}
         /\ \E row \in RowSet : StoredIndex.rows = Append(op.idx.rows, row)
         /\ Len(StoredIndex.rows) <= MaxRows
<1>1. op.idx \in Indexes /\ op.job \in JobSet /\ op.tree \in Trees
  BY RunningOp DEF SnapshotStores
<1> DEFINE row == Row(op.tree, IF op.job.kind = "base" THEN "base" ELSE "turn", op.job.n)
           base == WithoutRedo(op.idx, op.job)
<1>2. row \in RowSet /\ base \in Indexes /\ base.rows = op.idx.rows
      /\ base.redo \in {op.idx.redo, None}
  BY <1>1, SnapshotRow, SnapshotIndex
<1> HIDE DEF row, base
<1>3. StoredIndex = [base EXCEPT !.baseline = op.tree, !.rows = Append(@, row)]
  BY DEF StoredIndex, row, base
<1>4. op.idx.rows \in Seq(RowSet)
  BY <1>1 DEF Indexes
<1>5. Append(op.idx.rows, row) \in Seq(RowSet)
      /\ Len(Append(op.idx.rows, row)) = Len(op.idx.rows) + 1
  BY <1>2, <1>4
<1>6. StoredIndex \in Indexes /\ StoredIndex.rows = Append(op.idx.rows, row)
  BY <1>1, <1>2, <1>3, <1>5, IndexFields DEF Indexes
<1>7. StoredIndex.baseline = op.tree /\ StoredIndex.redo \in {op.idx.redo, None}
  BY <1>2, <1>3 DEF Indexes
<1>8. Len(op.idx.rows) < MaxRows /\ MaxRows \in Nat /\ Len(op.idx.rows) \in Nat
  BY <1>4, CheckpointAssumption DEF SnapshotStores
<1>9. index' = StoredIndex
  BY DEF SnapshotStores, Persist, StoredIndex
<1>10. QED BY <1>2, <1>5, <1>6, <1>7, <1>8, <1>9

\* What AnchorAppended writes to the index.
AnchorRow == Row(op.tree, "anchor", op.idx.seq + 1)
AnchorIndex == [op.idx EXCEPT !.seq = @ + 1, !.rows = Append(@, AnchorRow)]

LEMMA AnchorIndexIs ==
  ASSUME CkTypeOK, Alive, HasIndex, NEW w \in Windows, AnchorAppended(w)
  PROVE  /\ index' = AnchorIndex /\ AnchorIndex \in Indexes
         /\ AnchorIndex.baseline = op.idx.baseline /\ AnchorIndex.redo = op.idx.redo
         /\ AnchorRow \in RowSet /\ AnchorRow.tree = op.tree
         /\ AnchorIndex.rows = Append(op.idx.rows, AnchorRow)
         /\ Len(AnchorIndex.rows) <= MaxRows
         /\ op' = [op EXCEPT !.anchor = AnchorRow, !.pc = "apply", !.idx = AnchorIndex]
<1>1. op.idx \in Indexes /\ op.tree \in Trees
  BY RunningOp DEF AnchorAppended
<1>2. AnchorRow \in RowSet /\ AnchorRow.tree = op.tree
  BY <1>1 DEF AnchorRow, Row, RowSet, Indexes
<1>3. op.idx.rows \in Seq(RowSet) /\ op.idx.seq + 1 \in Nat
  BY <1>1 DEF Indexes
<1>4. Append(op.idx.rows, AnchorRow) \in Seq(RowSet)
      /\ Len(Append(op.idx.rows, AnchorRow)) = Len(op.idx.rows) + 1
  BY <1>2, <1>3
<1>5. /\ AnchorIndex \in Indexes /\ AnchorIndex.rows = Append(op.idx.rows, AnchorRow)
      /\ AnchorIndex.baseline = op.idx.baseline /\ AnchorIndex.redo = op.idx.redo
  BY <1>1, <1>3, <1>4, IndexFields DEF AnchorIndex, Indexes
<1>6. Len(op.idx.rows) < MaxRows /\ MaxRows \in Nat /\ Len(op.idx.rows) \in Nat
  BY <1>3, CheckpointAssumption DEF AnchorAppended
<1>7. index' = AnchorIndex
      /\ op' = [op EXCEPT !.anchor = AnchorRow, !.pc = "apply", !.idx = AnchorIndex]
  BY DEF AnchorAppended, AnchorIndex, AnchorRow
<1>8. QED BY <1>2, <1>4, <1>5, <1>6, <1>7

\* The row that an anchor reuses.
LEMMA AnchorReusedIs ==
  ASSUME CkTypeOK, Alive, HasIndex, NEW w \in Windows, AnchorReused(w)
  PROVE  \E row \in RowSet :
           /\ HasRow(op.idx, row) /\ row.tree = op.tree
           /\ op' = [op EXCEPT !.anchor = row, !.pc = "apply"]
<1>1. op.idx \in Indexes
  BY RunningOp DEF AnchorReused
<1> DEFINE rows == op.idx.rows
           at == {i \in DOMAIN rows : rows[i].tree = op.tree}
           newest == CHOOSE i \in DOMAIN rows :
                       /\ rows[i].tree = op.tree
                       /\ \A j \in DOMAIN rows : rows[j].tree = op.tree => j <= i
<1>2. Len(rows) \in Nat /\ DOMAIN rows = 1 .. Len(rows)
  BY <1>1 DEF Indexes
<1>3. at \subseteq 1 .. Len(rows) /\ at # {}
  BY <1>2 DEF AnchorReused, Stored
<1>4. \E i \in at : \A j \in at : j <= i
  BY <1>2, <1>3, Largest
<1>5. newest \in DOMAIN rows /\ rows[newest].tree = op.tree
  BY <1>4
<1>6. op' = [op EXCEPT !.anchor = rows[newest], !.pc = "apply"]
  BY DEF AnchorReused
<1> HIDE DEF newest
<1>7. rows[newest] \in RowSet /\ HasRow(op.idx, rows[newest])
  BY <1>1, <1>5 DEF Indexes, HasRow
<1>8. QED BY <1>5, <1>6, <1>7

\* What a restore writes.
LEMMA OutcomeIs ==
  ASSUME NEW idx \in Indexes, NEW target \in RowSet, NEW live \in RowSet
  PROVE  /\ Outcome(idx, target, live) \in Indexes
         /\ Outcome(idx, target, live).rows = idx.rows
         /\ Outcome(idx, target, live).baseline = target.tree
         /\ LET redo == Outcome(idx, target, live).redo
            IN  redo # None => /\ redo.cursor = target
                               /\ idx.redo = None => redo.anchor = live
                               /\ idx.redo # None => redo.anchor = idx.redo.anchor
<1> DEFINE anchor == IF idx.redo = None THEN live ELSE idx.redo.anchor
           redo == Pointer(anchor, target)
<1>1. anchor \in RowSet /\ target.tree \in Trees
  BY DEF Indexes, Pointers, RowSet
<1>2. redo \in Pointers \cup {None}
      /\ (redo # None => redo.cursor = target /\ redo.anchor = anchor)
  BY <1>1 DEF Pointer, Pointers
<1>3. Outcome(idx, target, live) = [idx EXCEPT !.baseline = target.tree, !.redo = redo]
  BY DEF Outcome
<1> HIDE DEF redo
<1>4. [idx EXCEPT !.baseline = target.tree, !.redo = redo] \in Indexes
  BY <1>1, <1>2 DEF Indexes
<1>5. /\ Outcome(idx, target, live).rows = idx.rows
      /\ Outcome(idx, target, live).baseline = target.tree
      /\ Outcome(idx, target, live).redo = redo
  BY <1>3 DEF Indexes
<1>6. QED BY <1>2, <1>3, <1>4, <1>5

LEMMA RestorePersistsIs ==
  ASSUME CkTypeOK, Alive, HasIndex, OpRestores, OpAnchored,
         NEW w \in Windows, RestorePersists(w)
  PROVE  /\ op.idx \in Indexes /\ op.target \in RowSet /\ op.anchor \in RowSet
         /\ index' = Outcome(op.idx, op.target, op.anchor) /\ op' = None
BY RunningOp DEF RestorePersists, Persist, OpRestores, OpAnchored, OpSet

\* The jobs.
LEMMA TypeJobStep ==
  ASSUME CkInv, NEW w \in Windows, JobStep(w)
  PROVE  CkTypeOK'
<1>a. CkTypeOK /\ Alive /\ HasIndex /\ OpIndexed /\ OpRestores /\ OpAnchored
  BY DEF CkInv
<1> USE <1>a
<1>1. ASSUME SnapshotCaptures(w) PROVE CkTypeOK'
  <2>1. /\ Head(jobs[w]) \in JobSet /\ jobs' \in [Windows -> Seq(JobSet)]
        /\ index \in Indexes
    BY <1>1, TakesJob DEF SnapshotCaptures
  <2>2. op' \in OpSet
    BY <1>1, <2>1, OpFields DEF SnapshotCaptures, CkTypeOK
  <2>3. QED BY <1>1, <2>1, <2>2 DEF SnapshotCaptures, CkTypeOK, diskVars, history, bounds, Rows
<1>2. ASSUME SnapshotDedups(w) PROVE CkTypeOK'
  <2>1. op.idx \in Indexes /\ op.job \in JobSet /\ op.tree \in Trees
    BY <1>2, RunningOp DEF SnapshotDedups
  <2> DEFINE base == WithoutRedo(op.idx, op.job)
  <2>2. base \in Indexes /\ base.rows = op.idx.rows
    BY <2>1, SnapshotIndex
  <2> HIDE DEF base
  <2>3. [base EXCEPT !.baseline = op.tree] \in Indexes
        /\ [base EXCEPT !.baseline = op.tree].rows = op.idx.rows
    BY <2>1, <2>2 DEF Indexes
  <2>4. index' = [base EXCEPT !.baseline = op.tree] /\ op' = None
    BY <1>2 DEF SnapshotDedups, Persist, base
  <2>5. Len(op.idx.rows) <= MaxRows
    BY <1>2, RunningOp DEF SnapshotDedups, OpIndexed
  <2>6. lease' \in [Windows -> {"free", "barrier", "agent", "restore"}]
    BY <1>2, SettlesLease DEF SnapshotDedups, CkTypeOK
  <2>7. settled' \in BOOLEAN
    BY <1>2 DEF SnapshotDedups
  <2>8. QED
    BY <1>2, <2>3, <2>4, <2>5, <2>6, <2>7, CheckpointAssumption
    DEF SnapshotDedups, CkTypeOK, bounds, Rows
<1>3. ASSUME SnapshotStores(w) PROVE CkTypeOK'
  <2>1. index' \in Indexes /\ Len(index'.rows) <= MaxRows
    BY <1>3, StoredIndexIs
  <2>2. lease' \in [Windows -> {"free", "barrier", "agent", "restore"}]
    BY <1>3, SettlesLease DEF SnapshotStores, CkTypeOK
  <2>3. op.tree \in Trees /\ op' = None
    BY <1>3, RunningOp DEF SnapshotStores, Persist
  <2>4. borrowed' \subseteq Trees /\ missing' \subseteq Trees
    BY <1>3, <2>3 DEF SnapshotStores, Borrow, CkTypeOK
  <2>5. localize' \in [Windows -> {"none", "armed", "pending"}]
    BY <1>3 DEF SnapshotStores, MarkLocalizeNeeded, CkTypeOK
  <2>6. settled' \in BOOLEAN
    BY <1>3 DEF SnapshotStores
  <2>7. QED
    BY <1>3, <2>1, <2>2, <2>3, <2>4, <2>5, <2>6, CheckpointAssumption
    DEF SnapshotStores, CkTypeOK, bounds, Rows
<1>4. ASSUME RestoreRefuses(w) PROVE CkTypeOK'
  <2>1. jobs' \in [Windows -> Seq(JobSet)] /\ index \in Indexes /\ index # None
    BY <1>4, TakesJob DEF RestoreRefuses
  <2>2. lease' \in [Windows -> {"free", "barrier", "agent", "restore"}]
    BY <1>4, SettlesLease DEF RestoreRefuses, CkTypeOK
  <2>3. index' \in Indexes /\ index'.rows = index.rows
    BY <1>4, <2>1 DEF RestoreRefuses, Indexes
  <2>4. QED
    BY <1>4, <2>1, <2>2, <2>3, CheckpointAssumption
    DEF RestoreRefuses, CkTypeOK, bounds, history, Rows
<1>5. ASSUME RestoreAccepts(w) PROVE CkTypeOK'
  <2>1. /\ Head(jobs[w]) \in JobSet /\ jobs' \in [Windows -> Seq(JobSet)]
        /\ index \in Indexes
    BY <1>5, TakesJob DEF RestoreAccepts
  <2>2. TargetOf(index, Head(jobs[w])) \in RowSet
    BY <1>5, <2>1, TargetIsRow DEF RestoreAccepts
  <2>3. \A tree : Changes(tree) \in SUBSET Paths
    BY DEF Changes
  <2>4. op' \in OpSet
    BY <1>5, <2>1, <2>2, <2>3, OpFields DEF RestoreAccepts, CkTypeOK
  <2>5. QED BY <1>5, <2>1, <2>4 DEF RestoreAccepts, CkTypeOK, diskVars, history, bounds, Rows
<1>6. ASSUME AnchorReused(w) PROVE CkTypeOK'
  <2>1. op \in OpSet /\ op.idx \in Indexes
    BY <1>6, RunningOp DEF AnchorReused
  <2>2. PICK row \in RowSet : op' = [op EXCEPT !.anchor = row, !.pc = "apply"]
    BY <1>6, AnchorReusedIs
  <2>3. op' \in OpSet
    BY <2>1, <2>2 DEF OpSet
  <2>4. QED BY <1>6, <2>3 DEF AnchorReused, CkTypeOK, diskVars, winVars, history, bounds, Rows
<1>7. ASSUME AnchorAppended(w) PROVE CkTypeOK'
  <2>1. /\ index' = AnchorIndex /\ AnchorIndex \in Indexes /\ AnchorRow \in RowSet
        /\ Len(AnchorIndex.rows) <= MaxRows
        /\ op' = [op EXCEPT !.anchor = AnchorRow, !.pc = "apply", !.idx = AnchorIndex]
    BY <1>7, AnchorIndexIs
  <2>2. op \in OpSet /\ op.tree \in Trees
    BY <1>7, RunningOp DEF AnchorAppended
  <2>3. op' \in OpSet
    BY <2>1, <2>2 DEF OpSet
  <2>4. borrowed' \subseteq Trees /\ missing' \subseteq Trees
    BY <1>7, <2>2 DEF AnchorAppended, Borrow, CkTypeOK
  <2>5. localize' \in [Windows -> {"none", "armed", "pending"}]
    BY <1>7 DEF AnchorAppended, MarkLocalizeNeeded, CkTypeOK
  <2>6. QED
    BY <1>7, <2>1, <2>3, <2>4, <2>5, CheckpointAssumption
    DEF AnchorAppended, CkTypeOK, bounds, history, Rows
<1>8. ASSUME NEW p \in Paths, ApplyPath(w, p) PROVE CkTypeOK'
  <2>1. op \in OpSet /\ op.tree \in Trees /\ op.target \in RowSet
    BY <1>8, RunningOp DEF ApplyPath, Running, OpRestores, OpSet
  <2>2. op' \in OpSet
    BY <1>8, <2>1 DEF ApplyPath, OpSet
  <2>3. worktree' \in [Paths -> Contents \cup {Big}]
    BY <1>8, <2>1 DEF ApplyPath, RowSet, Trees, CkTypeOK
  <2>4. QED BY <1>8, <2>1, <2>2, <2>3 DEF ApplyPath, CkTypeOK, winVars, bounds, Rows
<1>9. ASSUME NEW p \in Paths, SkipPath(w, p) PROVE CkTypeOK'
  <2>1. op \in OpSet
    BY <1>9, RunningOp DEF SkipPath
  <2>2. op' \in OpSet
    BY <1>9, <2>1 DEF SkipPath, OpSet
  <2>3. settled' \in BOOLEAN
    BY <1>9 DEF SkipPath
  <2>4. faults' \in Nat
    BY <1>9 DEF SkipPath, Fault, CkTypeOK
  <2>5. QED
    BY <1>9, <2>2, <2>3, <2>4 DEF SkipPath, CkTypeOK, diskVars, winVars, Rows
<1>10. ASSUME RestorePersists(w) PROVE CkTypeOK'
  <2>1. /\ op.idx \in Indexes /\ op.target \in RowSet /\ op.anchor \in RowSet
        /\ index' = Outcome(op.idx, op.target, op.anchor) /\ op' = None
    BY <1>10, RestorePersistsIs
  <2>2. index' \in Indexes /\ index'.rows = op.idx.rows
    BY <2>1, OutcomeIs
  <2>3. Len(op.idx.rows) <= MaxRows
    BY <1>10, RunningOp DEF RestorePersists, OpIndexed
  <2>4. lease' \in [Windows -> {"free", "barrier", "agent", "restore"}]
    BY <1>10, SettlesLease DEF RestorePersists, CkTypeOK
  <2>5. op.tree \in Trees
    BY <1>10, RunningOp DEF RestorePersists
  <2>6. tip' \in Trees \cup {None}
    BY <1>10, <2>5 DEF RestorePersists, CkTypeOK
  <2>7. settled' \in BOOLEAN
    BY <1>10 DEF RestorePersists
  <2>8. QED
    BY <1>10, <2>1, <2>2, <2>3, <2>4, <2>6, <2>7, CheckpointAssumption
    DEF RestorePersists, CkTypeOK, bounds, Rows
<1>11. ASSUME Localize(w) \/ LocalizeFails(w) PROVE CkTypeOK'
  <2>1. localize' \in [Windows -> {"none", "armed", "pending"}]
    BY <1>11 DEF Localize, LocalizeFails, CkTypeOK
  <2>2. borrowed' \subseteq Trees /\ faults' \in Nat
    BY <1>11 DEF Localize, LocalizeFails, Fault, CkTypeOK, bounds, diskVars
  <2>3. unflushed' \in {FALSE, unflushed}
    BY <1>11 DEF Localize, LocalizeFails, history
  <2>4. QED
    BY <1>11, <2>1, <2>2, <2>3
    DEF Localize, LocalizeFails, CkTypeOK, bounds, diskVars, history, Rows
<1>12. ASSUME JobFails(w) PROVE CkTypeOK'
  <2>1. jobs' \in [Windows -> Seq(JobSet)]
    BY <1>12, Queue DEF JobFails, CkTypeOK
  <2>2. lease' \in [Windows -> {"free", "barrier", "agent", "restore"}]
    BY <1>12, SettlesLease DEF JobFails, CkTypeOK
  <2>3. QED
    BY <1>12, <2>1, <2>2 DEF JobFails, Fault, CkTypeOK, diskVars, history, Rows
<1>13. ASSUME OpFails(w) PROVE CkTypeOK'
  <2>1. lease' \in [Windows -> {"free", "barrier", "agent", "restore"}]
    BY <1>13, SettlesLease DEF OpFails, CkTypeOK
  <2>2. QED
    BY <1>13, <2>1 DEF OpFails, Fault, CkTypeOK, diskVars, history, Rows
<1>14. QED
  BY <1>1, <1>2, <1>3, <1>4, <1>5, <1>6, <1>7, <1>8, <1>9, <1>10, <1>11, <1>12, <1>13
  DEF JobStep

LEMMA TypeStep ==
  ASSUME CkInv, CkNext
  PROVE  CkTypeOK'
<1>a. CkTypeOK
  BY DEF CkInv
<1>1. ASSUME PruneRealRepo PROVE CkTypeOK'
  BY <1>a, <1>1 DEF PruneRealRepo, Fault, CkTypeOK, winVars, history, Rows
<1>2. ASSUME NEW p \in Paths, NEW c \in Contents \cup {Big}, Edit(p, c) PROVE CkTypeOK'
  <2>1. worktree' \in [Paths -> Contents \cup {Big}] /\ edits' \in Nat
    BY <1>a, <1>2 DEF Edit, CkTypeOK
  <2>2. op' \in OpSet \cup {None}
    BY <1>a, <1>2 DEF Edit, CkTypeOK, OpSet
  <2>3. settled' \in BOOLEAN
    BY <1>2 DEF Edit
  <2>4. QED
    BY <1>a, <1>2, <2>1, <2>2, <2>3 DEF Edit, CkTypeOK, winVars, Rows
<1>3. QED BY <1>1, <1>2, TypeWindowStep, TypeJobStep DEF CkNext

\* What a job of w leaves alone.
JobFrame(w) ==
  /\ UNCHANGED <<state, turns, asks>>
  /\ \A v \in Windows \ {w} :
       jobs'[v] = jobs[v] /\ lease'[v] = lease[v] /\ localize'[v] = localize[v]
  /\ state[w] = "up" \/ UNCHANGED <<jobs, lease, op, index, settled, displaced>>
  /\ op' \in {None, op} \/ op'.win = w
  /\ index' # index => index' \in Indexes
  /\ borrowed' \subseteq borrowed \/ localize'[w] # "none"
  /\ localize'[w] = "none" => localize[w] = "none" \/ borrowed' = {}
  /\ unflushed' = unflushed \/ borrowed' = {}

LEMMA JobStepFrame ==
  ASSUME CkInv, NEW w \in Windows, JobStep(w)
  PROVE  JobFrame(w)
<1>a. CkTypeOK /\ Alive /\ HasIndex /\ OpRestores /\ OpAnchored
  BY DEF CkInv
<1>b. /\ jobs \in [Windows -> Seq(JobSet)] /\ DOMAIN lease = Windows
      /\ DOMAIN localize = Windows /\ DOMAIN jobs = Windows
  BY <1>a DEF CkTypeOK
<1>c. \A job : Settles(w, job) => \A v \in Windows \ {w} : lease'[v] = lease[v]
  BY <1>b DEF Settles
<1>1. ASSUME SnapshotCaptures(w) PROVE JobFrame(w)
  <2>1. state[w] = "up"
    BY <1>a, <1>1, TakesJob DEF SnapshotCaptures
  <2>2. op'.win = w
    BY <1>1 DEF SnapshotCaptures, Op
  <2>3. QED
    BY <1>1, <1>b, <2>1, <2>2
    DEF SnapshotCaptures, Takes, JobFrame, diskVars, bounds, history
<1>2. ASSUME SnapshotDedups(w) PROVE JobFrame(w)
  <2>1. state[w] = "up" /\ op' = None
    BY <1>a, <1>2, RunningOp DEF SnapshotDedups, Persist
  <2>2. index' \in Indexes
    <3>1. CkTypeOK' /\ index' = [WithoutRedo(op.idx, op.job) EXCEPT !.baseline = op.tree]
      BY <1>2, TypeJobStep DEF SnapshotDedups, Persist
    <3>2. op.idx \in Indexes /\ op.job \in JobSet /\ op.tree \in Trees
      BY <1>a, <1>2, RunningOp DEF SnapshotDedups
    <3>3. WithoutRedo(op.idx, op.job) \in Indexes
      BY <3>2, SnapshotIndex
    <3>4. QED BY <3>1, <3>2, <3>3 DEF Indexes
  <2>3. QED
    BY <1>2, <1>b, <1>c, <2>1, <2>2 DEF SnapshotDedups, JobFrame, bounds
<1>3. ASSUME SnapshotStores(w) PROVE JobFrame(w)
  <2>1. state[w] = "up" /\ op' = None /\ index' \in Indexes
    BY <1>a, <1>3, RunningOp, StoredIndexIs DEF SnapshotStores, Persist
  <2>2. QED
    BY <1>3, <1>b, <1>c, <2>1 DEF SnapshotStores, MarkLocalizeNeeded, JobFrame, bounds
<1>4. ASSUME RestoreRefuses(w) PROVE JobFrame(w)
  <2>1. state[w] = "up" /\ index \in Indexes
    BY <1>a, <1>4, TakesJob DEF RestoreRefuses
  <2>2. index' # index => index' \in Indexes
    BY <1>4, <2>1 DEF RestoreRefuses, Indexes
  <2>3. QED
    BY <1>4, <1>b, <1>c, <2>1, <2>2 DEF RestoreRefuses, Takes, JobFrame, bounds, history
<1>5. ASSUME RestoreAccepts(w) PROVE JobFrame(w)
  <2>1. state[w] = "up"
    BY <1>a, <1>5, TakesJob DEF RestoreAccepts
  <2>2. op'.win = w
    BY <1>5 DEF RestoreAccepts, Op
  <2>3. QED
    BY <1>5, <1>b, <2>1, <2>2 DEF RestoreAccepts, Takes, JobFrame, diskVars, bounds, history
<1>6. ASSUME AnchorReused(w) PROVE JobFrame(w)
  <2>1. state[w] = "up" /\ op.win = w /\ op \in OpSet
    BY <1>a, <1>6, RunningOp DEF AnchorReused
  <2>2. op'.win = w
    BY <1>6, <2>1 DEF AnchorReused, OpSet
  <2>3. QED
    BY <1>6, <2>1, <2>2 DEF AnchorReused, JobFrame, diskVars, winVars, bounds, history
<1>7. ASSUME AnchorAppended(w) PROVE JobFrame(w)
  <2>1. state[w] = "up" /\ op.win = w /\ op \in OpSet
    BY <1>a, <1>7, RunningOp DEF AnchorAppended
  <2>2. op'.win = w /\ index' \in Indexes
    BY <1>a, <1>7, <2>1, AnchorIndexIs DEF OpSet
  <2>3. QED
    BY <1>7, <1>b, <2>1, <2>2
    DEF AnchorAppended, MarkLocalizeNeeded, JobFrame, bounds, history
<1>8. ASSUME NEW p \in Paths, ApplyPath(w, p) \/ SkipPath(w, p) PROVE JobFrame(w)
  <2>1. state[w] = "up" /\ op.win = w /\ op \in OpSet
    BY <1>a, <1>8, RunningOp DEF ApplyPath, SkipPath
  <2>2. op'.win = w
    BY <1>8, <2>1 DEF ApplyPath, SkipPath, OpSet
  <2>3. QED
    BY <1>8, <2>1, <2>2 DEF ApplyPath, SkipPath, JobFrame, diskVars, winVars, bounds
<1>9. ASSUME RestorePersists(w) PROVE JobFrame(w)
  <2>1. state[w] = "up"
    BY <1>a, <1>9, RunningOp DEF RestorePersists
  <2>2. index' \in Indexes /\ op' = None
    BY <1>a, <1>9, RestorePersistsIs, OutcomeIs
  <2>3. QED
    BY <1>9, <1>b, <1>c, <2>1, <2>2 DEF RestorePersists, JobFrame, bounds
<1>10. ASSUME Localize(w) PROVE JobFrame(w)
  BY <1>10, <1>b DEF Localize, JobFrame, bounds
<1>11. ASSUME LocalizeFails(w) PROVE JobFrame(w)
  BY <1>11, <1>b DEF LocalizeFails, JobFrame, diskVars, history
<1>12. ASSUME JobFails(w) PROVE JobFrame(w)
  <2>1. state[w] = "up"
    BY <1>a, <1>12, JobsHaveIndex DEF JobFails
  <2>2. QED
    BY <1>12, <1>b, <1>c, <2>1 DEF JobFails, JobFrame, diskVars, history
<1>13. ASSUME OpFails(w) PROVE JobFrame(w)
  <2>1. state[w] = "up"
    BY <1>a, <1>13, JobsHaveIndex DEF OpFails
  <2>2. QED
    BY <1>13, <1>b, <1>c, <2>1 DEF OpFails, JobFrame, diskVars, history
<1>14. QED
  BY <1>1, <1>2, <1>3, <1>4, <1>5, <1>6, <1>7, <1>8, <1>9, <1>10, <1>11, <1>12, <1>13
  DEF JobStep

\* Who may have what, and who is to localize.
Admin == Alive /\ HasIndex /\ TurnsAsked /\ BorrowedIsOwed

LEMMA AdminWindowStep ==
  ASSUME CkInv, NEW w \in Windows, WindowStep(w)
  PROVE  Admin'
<1>a. CkTypeOK /\ Alive /\ HasIndex /\ TurnsAsked /\ BorrowedIsOwed
  BY DEF CkInv
<1>b. /\ DOMAIN state = Windows /\ DOMAIN jobs = Windows /\ DOMAIN lease = Windows
      /\ turns \in [Windows -> 0 .. MaxAsks] /\ DOMAIN localize = Windows
      /\ asks \in Nat /\ MaxAsks \in Nat
  BY <1>a, CheckpointAssumption DEF CkTypeOK
<1> USE <1>a, <1>b DEF Alive, HasIndex, TurnsAsked, BorrowedIsOwed, Admin, diskVars,
                       bounds, history
<1>1. ASSUME OpenWindow(w) PROVE Admin'
  BY <1>1 DEF OpenWindow
<1>2. ASSUME InitLoads(w) PROVE Admin'
  BY <1>2 DEF InitLoads, Activate, Enqueue
<1>3. ASSUME InitFindsNone(w) PROVE Admin'
  BY <1>3 DEF InitFindsNone
<1>4. ASSUME CreateIndex(w) PROVE Admin'
  <2>1. index' # None
    BY <1>4, EmptyIsIndex DEF CreateIndex
  <2>2. QED BY <1>4, <2>1 DEF CreateIndex, Activate, Enqueue
<1>5. ASSUME GoDown(w) PROVE Admin'
  <2>1. Alive'
    BY <1>5 DEF GoDown
  <2>2. HasIndex'
    BY <1>5 DEF GoDown
  <2>3. TurnsAsked'
    BY <1>5 DEF GoDown
  <2>4. BorrowedIsOwed'
    BY <1>5 DEF GoDown
  <2>5. QED BY <2>1, <2>2, <2>3, <2>4
<1>6. ASSUME TurnStart(w) PROVE Admin'
  BY <1>6 DEF TurnStart, Asked, Enqueue
<1>7. ASSUME TurnEnd(w) PROVE Admin'
  BY <1>7 DEF TurnEnd, Enqueue
<1>8. ASSUME AskRestore(w) PROVE Admin'
  <2>1. state[w] = "up" /\ \A v \in Windows \ {w} : jobs'[v] = jobs[v]
    BY <1>8 DEF AskRestore, Enqueue
  <2>2. QED BY <1>8, <2>1 DEF AskRestore, Asked
<1>9. QED
  BY <1>1, <1>2, <1>3, <1>4, <1>5, <1>6, <1>7, <1>8 DEF WindowStep, CloseWindow, CkCrash

LEMMA AdminStep ==
  ASSUME CkInv, CkNext
  PROVE  Admin'
<1>a. CkTypeOK /\ Alive /\ HasIndex /\ TurnsAsked /\ BorrowedIsOwed
  BY DEF CkInv
<1>1. ASSUME PruneRealRepo PROVE Admin'
  BY <1>a, <1>1 DEF PruneRealRepo, Admin, Alive, HasIndex, TurnsAsked, BorrowedIsOwed,
                    winVars, history
<1>2. ASSUME NEW p \in Paths, NEW c \in Contents \cup {Big}, Edit(p, c) PROVE Admin'
  <2>1. op' # None => op # None /\ op'.win = op.win
    BY <1>a, <1>2 DEF Edit, CkTypeOK, OpSet
  <2>2. QED
    BY <1>a, <1>2, <2>1 DEF Edit, Admin, Alive, HasIndex, TurnsAsked, BorrowedIsOwed, winVars
<1>3. ASSUME NEW w \in Windows, JobStep(w) PROVE Admin'
  <2>1. JobFrame(w)
    BY <1>3, JobStepFrame
  <2>2. Alive'
    BY <1>a, <2>1 DEF JobFrame, Alive
  <2>3. HasIndex'
    <3>1. index # None => index' # None
      BY <2>1, CheckpointAssumption DEF JobFrame
    <3>2. QED BY <1>a, <2>1, <3>1 DEF JobFrame, HasIndex
  <2>4. TurnsAsked'
    BY <1>a, <2>1 DEF JobFrame, TurnsAsked
  <2>5. BorrowedIsOwed'
    BY <1>a, <2>1 DEF JobFrame, BorrowedIsOwed
  <2>6. QED BY <2>2, <2>3, <2>4, <2>5 DEF Admin
<1>4. QED BY <1>1, <1>2, <1>3, AdminWindowStep DEF CkNext
-----------------------------------------------------------------------------
(* What the index, the lock and the history know.                          *)

Sound ==
  /\ IndexSound /\ OpIndexed /\ OpCaptured /\ OpRestores /\ OpAnchored
  /\ NothingLost /\ SettledNotDirty

\* A step that touches neither the worktree nor the index; it may end the job.
LEMMA OffLockStep ==
  ASSUME CkInv, UNCHANGED <<worktree, index, tip, displaced, wiped>>,
         op' \in {None, op}, settled' => settled
  PROVE  Sound'
<1>a. Sound
  BY DEF CkInv, Sound
<1> USE <1>a DEF Sound
<1>1. IndexSound' /\ NothingLost'
  BY DEF IndexSound, Blank, RedoSound, HasRow, NothingLost, Stored
<1>2. SettledNotDirty'
  BY DEF SettledNotDirty, Capture
<1>3. OpIndexed'
  BY DEF OpIndexed, Blank, RedoSound, HasRow, Rows
<1>4. OpCaptured'
  BY DEF OpCaptured, Capture
<1>5. OpRestores'
  BY DEF OpRestores, HasRow, Capture
<1>6. OpAnchored'
  BY DEF OpAnchored, HasRow
<1>7. QED BY <1>1, <1>2, <1>3, <1>4, <1>5, <1>6

\* A late empty index over rows is a wipe; over no rows it changes nothing.
LEMMA SoundCreateIndex ==
  ASSUME CkInv, NEW w \in Windows, CreateIndex(w)
  PROVE  Sound'
<1>a. CkTypeOK /\ Alive /\ HasIndex /\ Sound
  BY DEF CkInv, Sound
<1>1. /\ index' = EmptyIndex /\ UNCHANGED <<worktree, op, settled, tip, displaced>>
      /\ wiped' = (wiped \/ Rows # <<>>)
  BY DEF CreateIndex
<1>2. /\ index'.rows = <<>> /\ index'.baseline = None /\ index'.redo = None
      /\ Rows' = <<>>
  BY <1>1, EmptyIsIndex DEF EmptyIndex, Rows
<1>3. IndexSound'
  BY <1>2 DEF IndexSound, Blank, RedoSound
<1>4. OpIndexed'
  <2>1. op # None => index # None
    BY <1>a DEF Alive, HasIndex, CkTypeOK, OpSet
  <2>2. op # None /\ ~ wiped' => op.idx.rows = <<>> /\ op.idx.baseline = None
    BY <1>a, <1>1, <2>1 DEF Sound, OpIndexed, Blank, Rows
  <2>3. op # None => Blank(op.idx) /\ RedoSound(op.idx) /\ Len(op.idx.rows) <= MaxRows
    BY <1>a DEF Sound, OpIndexed
  <2>4. QED BY <1>1, <1>2, <2>2, <2>3 DEF OpIndexed, Blank, RedoSound, HasRow
<1>5. OpCaptured' /\ OpRestores' /\ OpAnchored'
  BY <1>a, <1>1 DEF Sound, OpCaptured, OpRestores, OpAnchored, HasRow, Capture
<1>6. NothingLost'
  <2>1. ASSUME ~ wiped', displaced # None PROVE FALSE
    <3>1. ~ wiped /\ Rows = <<>> /\ Stored(index, displaced) /\ index # None
      BY <1>a, <1>1, <2>1 DEF Sound, NothingLost, HasIndex
    <3>2. QED BY <3>1 DEF Rows, Stored
  <2>2. QED BY <1>1, <2>1 DEF NothingLost
<1>7. SettledNotDirty'
  <2>1. ASSUME ~ wiped', settled PROVE FALSE
    <3>1. ~ wiped /\ Rows = <<>> /\ index # None /\ index.baseline = Capture(worktree)
      BY <1>a, <1>1, <2>1 DEF Sound, SettledNotDirty, HasIndex
    <3>2. index.baseline = None
      BY <1>a, <3>1 DEF Sound, IndexSound, Blank, Rows
    <3>3. Capture(worktree) \in Trees
      BY <1>a, CaptureIsTree DEF CkTypeOK
    <3>4. QED BY <3>1, <3>2, <3>3, CheckpointAssumption
  <2>2. QED BY <1>1, <2>1 DEF SettledNotDirty
<1>8. QED BY <1>3, <1>4, <1>5, <1>6, <1>7 DEF Sound

\* An edit during a job is seen in touched.
LEMMA SoundEdit ==
  ASSUME CkInv, NEW p \in Paths, NEW c \in Contents \cup {Big}, Edit(p, c)
  PROVE  Sound'
<1>a. CkTypeOK /\ Sound
  BY DEF CkInv, Sound
<1>1. /\ worktree' = [worktree EXCEPT ![p] = c] /\ DOMAIN worktree = Paths
      /\ UNCHANGED <<index, tip, displaced, wiped>> /\ settled' = FALSE
  BY <1>a DEF Edit, CkTypeOK
<1>2. /\ op' # None => op # None
      /\ op # None => /\ op' # None /\ op'.touched = op.touched \cup {p}
                      /\ op'.idx = op.idx /\ op'.pc = op.pc /\ op'.job = op.job
                      /\ op'.tree = op.tree /\ op'.target = op.target
                      /\ op'.todo = op.todo /\ op'.anchor = op.anchor
                      /\ op'.skipped = op.skipped
  <2>1. CASE op = None
    BY <2>1 DEF Edit
  <2>2. CASE op # None
    <3>1. op \in OpSet /\ op' = [op EXCEPT !.touched = @ \cup {p}]
      BY <1>a, <2>2 DEF Edit, CkTypeOK
    <3>2. op' \in OpSet
      BY <3>1 DEF OpSet
    <3>3. QED BY <2>2, <3>1, <3>2, OpIsNotNone DEF OpSet
  <2>3. QED BY <2>1, <2>2
<1>3. IndexSound' /\ NothingLost' /\ SettledNotDirty'
  BY <1>a, <1>1 DEF Sound, IndexSound, Blank, RedoSound, HasRow, NothingLost, Stored,
                    SettledNotDirty
<1>4. OpIndexed'
  BY <1>a, <1>1, <1>2 DEF Sound, OpIndexed, Blank, RedoSound, HasRow, Rows
<1>5. OpCaptured'
  BY <1>a, <1>2 DEF Sound, OpCaptured
<1>6. OpRestores'
  <2>1. \A q \in Paths \ {p} : /\ worktree'[q] = worktree[q]
                               /\ Capture(worktree)'[q] = Capture(worktree)[q]
    BY <1>1 DEF Capture
  <2>2. ASSUME op # None, op.pc \in {"anchor", "apply"}
        PROVE  /\ op'.target # None /\ HasRow(op.idx, op.target)'
               /\ \A q \in Paths :
                    q \notin op'.todo \cup op'.touched /\ ~ op'.skipped
                      => Capture(worktree)'[q] = op'.target.tree[q]
               /\ \A q \in op'.todo \ op'.touched :
                    ~ op'.job.force => worktree'[q] = op'.tree[q]
    <3>1. /\ op.target # None /\ HasRow(op.idx, op.target)
          /\ \A q \in Paths : q \notin op.todo \cup op.touched /\ ~ op.skipped
                             => Capture(worktree)[q] = op.target.tree[q]
          /\ \A q \in op.todo \ op.touched :
               ~ op.job.force => worktree[q] = op.tree[q]
      BY <1>a, <2>2 DEF Sound, OpRestores
    <3>2. op.todo \subseteq Paths
      BY <1>a, <2>2 DEF CkTypeOK, OpSet
    <3>3. op'.target # None /\ HasRow(op.idx, op.target)'
      BY <1>2, <2>2, <3>1 DEF HasRow
    <3>4. \A q \in Paths : q \notin op'.todo \cup op'.touched /\ ~ op'.skipped
                           => Capture(worktree)'[q] = op'.target.tree[q]
      BY <1>2, <2>1, <2>2, <3>1
    <3>5. \A q \in op'.todo \ op'.touched :
            ~ op'.job.force => worktree'[q] = op'.tree[q]
      BY <1>2, <2>1, <2>2, <3>1, <3>2
    <3>6. QED BY <3>3, <3>4, <3>5
  <2>3. QED BY <1>2, <2>2 DEF OpRestores
<1>7. OpAnchored'
  BY <1>a, <1>2 DEF Sound, OpAnchored, HasRow
<1>8. QED BY <1>3, <1>4, <1>5, <1>6, <1>7 DEF Sound

\* The job that holds the lock ends with an index that keeps its rows.
LEMMA SoundEnd ==
  ASSUME CkInv, op # None, op' = None, UNCHANGED <<displaced, wiped>>,
         index' \in Indexes, index'.rows # <<>>, RedoSound(index)',
         \A t : Stored(op.idx, t) => Stored(index', t),
         settled' => index'.baseline = Capture(worktree)'
  PROVE  Sound'
<1>1. index' # None
  BY CheckpointAssumption
<1>2. IndexSound'
  BY <1>1 DEF IndexSound, Blank
<1>3. OpIndexed' /\ OpCaptured' /\ OpRestores' /\ OpAnchored'
  BY DEF OpIndexed, OpCaptured, OpRestores, OpAnchored
<1>4. NothingLost'
  <2>1. ~ wiped /\ displaced # None => Stored(op.idx, displaced)
    BY DEF CkInv, NothingLost, OpIndexed, Stored
  <2>2. QED BY <2>1 DEF NothingLost
<1>5. SettledNotDirty'
  BY DEF SettledNotDirty
<1>6. QED BY <1>2, <1>3, <1>4, <1>5 DEF Sound

LEMMA SoundSnapshotCaptures ==
  ASSUME CkInv, NEW w \in Windows, SnapshotCaptures(w)
  PROVE  Sound'
<1>a. CkTypeOK /\ Alive /\ HasIndex /\ Sound
  BY DEF CkInv, Sound
<1>1. /\ op = None /\ index # None /\ Head(jobs[w]).kind \in {"before", "after", "base"}
      /\ UNCHANGED <<worktree, index, settled, tip, displaced, wiped>>
  BY <1>a, TakesJob DEF SnapshotCaptures, diskVars, history
<1>2. /\ op'.idx = index /\ op'.pc = "store" /\ op'.job = Head(jobs[w])
      /\ op'.tree = Capture(worktree)
  BY DEF SnapshotCaptures, Op
<1>3. IndexSound' /\ NothingLost' /\ SettledNotDirty'
  BY <1>a, <1>1 DEF Sound, IndexSound, Blank, RedoSound, HasRow, NothingLost, Stored,
                    SettledNotDirty, Capture
<1>4. OpIndexed'
  BY <1>a, <1>1, <1>2
  DEF Sound, OpIndexed, IndexSound, Blank, RedoSound, HasRow, Rows, CkTypeOK
<1>5. OpCaptured'
  BY <1>1, <1>2 DEF OpCaptured, Capture
<1>6. OpRestores' /\ OpAnchored'
  BY <1>2 DEF OpRestores, OpAnchored
<1>7. QED BY <1>3, <1>4, <1>5, <1>6 DEF Sound

LEMMA SoundSnapshotDedups ==
  ASSUME CkInv, NEW w \in Windows, SnapshotDedups(w)
  PROVE  Sound'
<1>a. CkTypeOK /\ Alive /\ HasIndex /\ Sound
  BY DEF CkInv, Sound
<1>1. op # None /\ op.idx \in Indexes /\ op.job \in JobSet /\ op.tree \in Trees
  BY <1>a, RunningOp DEF SnapshotDedups
<1> DEFINE base == WithoutRedo(op.idx, op.job)
<1>2. base \in Indexes /\ base.rows = op.idx.rows /\ base.redo \in {op.idx.redo, None}
  BY <1>1, SnapshotIndex
<1> HIDE DEF base
<1>3. index' = [base EXCEPT !.baseline = op.tree] /\ op' = None
  BY DEF SnapshotDedups, Persist, base
<1>4. /\ index' \in Indexes /\ index'.rows = op.idx.rows
      /\ index'.baseline = op.tree /\ index'.redo \in {op.idx.redo, None}
  BY <1>1, <1>2, <1>3 DEF Indexes
<1>5. op.idx.rows # <<>> /\ UNCHANGED <<worktree, tip, displaced, wiped>>
      /\ (settled' => op.touched = {})
  BY DEF SnapshotDedups, SameAsLast
<1>6. settled' => index'.baseline = Capture(worktree)'
  BY <1>a, <1>1, <1>4, <1>5 DEF Sound, OpCaptured, SnapshotDedups, Running, Capture
<1>7. RedoSound(index)'
  BY <1>a, <1>1, <1>4, <1>5 DEF Sound, OpIndexed, RedoSound, HasRow
<1>8. \A t : Stored(op.idx, t) => Stored(index', t)
  BY <1>4 DEF Stored
<1>9. QED BY <1>1, <1>3, <1>4, <1>5, <1>6, <1>7, <1>8, SoundEnd

LEMMA SoundSnapshotStores ==
  ASSUME CkInv, NEW w \in Windows, SnapshotStores(w)
  PROVE  Sound'
<1>a. CkTypeOK /\ Alive /\ HasIndex /\ Sound
  BY DEF CkInv, Sound
<1>1. op # None /\ op.idx \in Indexes /\ op.tree \in Trees /\ op' = None
  BY <1>a, RunningOp DEF SnapshotStores, Persist
<1>2. /\ index' = StoredIndex /\ index' \in Indexes
      /\ index'.baseline = op.tree /\ index'.redo \in {op.idx.redo, None}
  BY <1>a, StoredIndexIs
<1>3. /\ index'.rows # <<>>
      /\ \A r : HasRow(op.idx, r) => HasRow(index', r)
      /\ \A t : Stored(op.idx, t) => Stored(index', t)
  <2>1. PICK row \in RowSet : index'.rows = Append(op.idx.rows, row)
    BY <1>a, <1>2, StoredIndexIs
  <2>2. QED BY <1>1, <1>2, <2>1, AppendKeepsRows
<1>4. UNCHANGED <<worktree, tip, displaced, wiped>> /\ (settled' => op.touched = {})
  BY DEF SnapshotStores
<1>5. settled' => index'.baseline = Capture(worktree)'
  BY <1>a, <1>1, <1>2, <1>4 DEF Sound, OpCaptured, SnapshotStores, Running, Capture
<1>6. RedoSound(index)'
  <2>1. RedoSound(op.idx)
    BY <1>a, <1>1 DEF Sound, OpIndexed
  <2>2. QED BY <1>2, <1>3, <1>4, <2>1 DEF RedoSound
<1>7. QED BY <1>1, <1>2, <1>3, <1>4, <1>5, <1>6, SoundEnd

\* The outcome of a restore: its index holds what is live, if nobody else wrote.
LEMMA SoundRestorePersists ==
  ASSUME CkInv, NEW w \in Windows, RestorePersists(w)
  PROVE  Sound'
<1>a. CkTypeOK /\ Alive /\ HasIndex /\ Sound /\ OpRestores /\ OpAnchored
  BY DEF CkInv, Sound
<1>1. op # None /\ op.pc = "apply" /\ op' = None /\ op.todo = {}
      /\ op.idx \in Indexes /\ op.target \in RowSet /\ op.anchor \in RowSet
  BY <1>a, RestorePersistsIs DEF RestorePersists, Running
<1> DEFINE out == Outcome(op.idx, op.target, op.anchor)
<1>2. /\ index' = out /\ out \in Indexes
      /\ out.rows = op.idx.rows /\ out.baseline = op.target.tree
      /\ out.redo # None => /\ out.redo.cursor = op.target
                            /\ op.idx.redo = None => out.redo.anchor = op.anchor
                            /\ op.idx.redo # None => out.redo.anchor = op.idx.redo.anchor
  BY <1>a, <1>1, RestorePersistsIs, OutcomeIs
<1> HIDE DEF out
<1>3. HasRow(op.idx, op.target) /\ HasRow(op.idx, op.anchor) /\ op.anchor.tree = op.tree
  BY <1>1, <1>a DEF OpRestores, OpAnchored
<1>4. /\ UNCHANGED <<worktree, displaced, wiped>>
      /\ tip' = IF op.idx.redo = None THEN op.tree ELSE tip
      /\ settled' => op.touched = {} /\ ~ op.skipped
  BY DEF RestorePersists
<1>5. index'.rows # <<>>
  BY <1>1, <1>2, <1>3 DEF HasRow, Indexes
<1>6. RedoSound(index)'
  <2>1. RedoSound(op.idx)
    BY <1>a, <1>1 DEF Sound, OpIndexed
  <2>2. QED BY <1>2, <1>3, <1>4, <2>1 DEF RedoSound, HasRow
<1>7. settled' => index'.baseline = Capture(worktree)'
  <2>1. ASSUME settled' PROVE \A p \in Paths : Capture(worktree)[p] = op.target.tree[p]
    BY <1>a, <1>1, <1>4, <2>1 DEF OpRestores
  <2>2. Capture(worktree) \in [Paths -> Contents] /\ op.target.tree \in [Paths -> Contents]
    BY <1>a, <1>1, CaptureIsTree DEF CkTypeOK, RowSet, Trees
  <2>3. ASSUME settled' PROVE Capture(worktree) = op.target.tree
    BY <2>1, <2>2, <2>3
  <2>4. QED BY <1>2, <1>4, <2>3 DEF Capture
<1>8. \A t : Stored(op.idx, t) => Stored(index', t)
  BY <1>2 DEF Stored
<1>9. QED BY <1>1, <1>2, <1>4, <1>5, <1>6, <1>7, <1>8, SoundEnd

LEMMA SoundRestoreRefuses ==
  ASSUME CkInv, NEW w \in Windows, RestoreRefuses(w)
  PROVE  Sound'
<1>a. CkTypeOK /\ Alive /\ HasIndex /\ Sound
  BY DEF CkInv, Sound
<1>1. op = None /\ index \in Indexes /\ index # None
  BY <1>a, TakesJob DEF RestoreRefuses
<1>2. /\ op' = None /\ UNCHANGED <<worktree, settled, tip, displaced, wiped>>
      /\ index' \in {index, [index EXCEPT !.redo = None]}
  BY <1>1 DEF RestoreRefuses, history
<1>3. /\ index'.rows = index.rows /\ index'.baseline = index.baseline
      /\ index'.redo \in {index.redo, None}
  BY <1>1, <1>2 DEF Indexes
<1>4. IndexSound'
  BY <1>a, <1>1, <1>2, <1>3 DEF Sound, IndexSound, Blank, RedoSound, HasRow
<1>5. NothingLost' /\ SettledNotDirty'
  BY <1>a, <1>2, <1>3 DEF Sound, NothingLost, Stored, SettledNotDirty, Capture
<1>6. OpIndexed' /\ OpCaptured' /\ OpRestores' /\ OpAnchored'
  BY <1>2 DEF OpIndexed, OpCaptured, OpRestores, OpAnchored
<1>7. QED BY <1>4, <1>5, <1>6 DEF Sound

\* What will be written over is captured, unless it was forced.
LEMMA SoundRestoreAccepts ==
  ASSUME CkInv, NEW w \in Windows, RestoreAccepts(w)
  PROVE  Sound'
<1>a. CkTypeOK /\ Alive /\ HasIndex /\ Sound
  BY DEF CkInv, Sound
<1> DEFINE job == Head(jobs[w])
           target == TargetOf(index, job)
<1>1. /\ op = None /\ index \in Indexes /\ index # None /\ Allowed(job)
      /\ UNCHANGED <<worktree, index, settled, tip, displaced, wiped>>
  BY <1>a, TakesJob DEF RestoreAccepts, diskVars, history
<1>2. /\ op' = Op(w, job, "anchor", index, target, Changes(target.tree))
      /\ target \in RowSet /\ HasRow(index, target)
  BY <1>1, TargetIsRow DEF RestoreAccepts
<1>3. ~ job.force => ~ UncapturedClobber(target.tree)
  BY <1>1 DEF Allowed
<1> HIDE DEF target, job
<1>4. /\ op'.idx = index /\ op'.pc = "anchor" /\ op'.job = job /\ op'.target = target
      /\ op'.tree = Capture(worktree) /\ op'.todo = Changes(target.tree)
      /\ op'.touched = {} /\ op'.skipped = FALSE
  BY <1>2 DEF Op
<1>5. IndexSound' /\ NothingLost' /\ SettledNotDirty'
  BY <1>a, <1>1 DEF Sound, IndexSound, Blank, RedoSound, HasRow, NothingLost, Stored,
                    SettledNotDirty, Capture
<1>6. OpIndexed'
  BY <1>a, <1>1, <1>4
  DEF Sound, OpIndexed, IndexSound, Blank, RedoSound, HasRow, Rows, CkTypeOK
<1>7. OpCaptured' /\ OpAnchored'
  BY <1>4 DEF OpCaptured, OpAnchored
<1>8. OpRestores'
  <2>1. op'.target # None /\ HasRow(op.idx, op.target)'
    BY <1>2, <1>4, CheckpointAssumption DEF HasRow
  <2>2. \A p \in Paths : p \notin op'.todo \cup op'.touched /\ ~ op'.skipped
                           => Capture(worktree)'[p] = op'.target.tree[p]
    BY <1>1, <1>4 DEF Changes, Capture
  <2>3. ASSUME NEW p \in op'.todo \ op'.touched, ~ op'.job.force
        PROVE  worktree'[p] = op'.tree[p]
    <3>1. p \in Paths /\ p \in Changes(target.tree)
      BY <1>4, <2>3 DEF Changes
    <3>2. target.tree[p] # Absent => worktree[p] # Big
      BY <1>3, <1>4, <2>3, <3>1 DEF UncapturedClobber
    <3>3. worktree[p] # Big
      BY <3>1, <3>2 DEF Changes, Capture
    <3>4. QED BY <1>1, <1>4, <3>1, <3>3 DEF Capture
  <2>4. QED BY <2>1, <2>2, <2>3 DEF OpRestores
<1>9. QED BY <1>5, <1>6, <1>7, <1>8 DEF Sound

LEMMA SoundAnchorReused ==
  ASSUME CkInv, NEW w \in Windows, AnchorReused(w)
  PROVE  Sound'
<1>a. CkTypeOK /\ Alive /\ HasIndex /\ Sound
  BY DEF CkInv, Sound
<1>1. op \in OpSet /\ op # None /\ op.pc = "anchor"
  BY <1>a, RunningOp DEF AnchorReused
<1>2. PICK row \in RowSet : /\ HasRow(op.idx, row) /\ row.tree = op.tree
                            /\ op' = [op EXCEPT !.anchor = row, !.pc = "apply"]
  BY <1>a, AnchorReusedIs
<1>3. /\ op'.idx = op.idx /\ op'.pc = "apply" /\ op'.job = op.job
      /\ op'.target = op.target /\ op'.tree = op.tree /\ op'.todo = op.todo
      /\ op'.touched = op.touched /\ op'.skipped = op.skipped /\ op'.anchor = row
  BY <1>1, <1>2 DEF OpSet
<1>4. UNCHANGED <<worktree, index, settled, tip, displaced, wiped>>
  BY DEF AnchorReused, diskVars, history
<1>5. IndexSound' /\ NothingLost' /\ SettledNotDirty'
  BY <1>a, <1>4 DEF Sound, IndexSound, Blank, RedoSound, HasRow, NothingLost, Stored,
                    SettledNotDirty, Capture
<1>6. OpIndexed'
  BY <1>a, <1>1, <1>3, <1>4 DEF Sound, OpIndexed, Blank, RedoSound, HasRow, Rows
<1>7. OpCaptured' /\ OpAnchored'
  BY <1>2, <1>3, CheckpointAssumption DEF OpCaptured, OpAnchored, HasRow
<1>8. OpRestores'
  BY <1>a, <1>1, <1>3, <1>4 DEF Sound, OpRestores, HasRow, Capture
<1>9. QED BY <1>5, <1>6, <1>7, <1>8 DEF Sound

\* The new anchor row is on disk before anything is written over.
LEMMA SoundAnchorAppended ==
  ASSUME CkInv, NEW w \in Windows, AnchorAppended(w)
  PROVE  Sound'
<1>a. CkTypeOK /\ Alive /\ HasIndex /\ Sound
  BY DEF CkInv, Sound
<1>1. /\ op \in OpSet /\ op # None /\ op.pc = "anchor" /\ op.idx \in Indexes
      /\ index # None
  BY <1>a, RunningOp DEF AnchorAppended
<1>2. /\ index' = AnchorIndex /\ AnchorIndex \in Indexes
      /\ AnchorIndex.baseline = op.idx.baseline /\ AnchorIndex.redo = op.idx.redo
      /\ AnchorRow \in RowSet /\ AnchorRow.tree = op.tree
      /\ AnchorIndex.rows = Append(op.idx.rows, AnchorRow)
      /\ Len(AnchorIndex.rows) <= MaxRows
      /\ op' = [op EXCEPT !.anchor = AnchorRow, !.pc = "apply", !.idx = AnchorIndex]
  BY <1>a, AnchorIndexIs
<1>3. /\ HasRow(AnchorIndex, AnchorRow) /\ AnchorIndex.rows # <<>>
      /\ \A r : HasRow(op.idx, r) => HasRow(AnchorIndex, r)
      /\ \A t : Stored(op.idx, t) => Stored(AnchorIndex, t)
  BY <1>1, <1>2, AppendKeepsRows
<1>4. /\ op'.idx = AnchorIndex /\ op'.pc = "apply" /\ op'.job = op.job
      /\ op'.target = op.target /\ op'.tree = op.tree /\ op'.todo = op.todo
      /\ op'.touched = op.touched /\ op'.skipped = op.skipped /\ op'.anchor = AnchorRow
  BY <1>1, <1>2 DEF OpSet
<1>5. UNCHANGED <<worktree, settled, tip, displaced, wiped>>
  BY DEF AnchorAppended, history
<1>6. RedoSound(index)' /\ Blank(index)'
  <2>1. RedoSound(op.idx)
    BY <1>a, <1>1 DEF Sound, OpIndexed
  <2>2. index'.redo # None => /\ HasRow(index', index'.redo.anchor)
                              /\ index'.redo.anchor.tree = tip'
                              /\ HasRow(index', index'.redo.cursor)
    BY <1>2, <1>3, <1>5, <2>1 DEF RedoSound
  <2>3. QED BY <1>2, <1>3, <2>2 DEF Blank, RedoSound
<1>7. index' # None /\ op'.idx = index'
  BY <1>2, <1>4, CheckpointAssumption
<1>8. IndexSound'
  BY <1>6 DEF IndexSound
<1>9. OpIndexed'
  <2>1. Blank(op.idx)' /\ RedoSound(op.idx)'
    BY <1>6, <1>7 DEF Blank, RedoSound
  <2>2. Rows' = op'.idx.rows /\ Len(op'.idx.rows) <= MaxRows
    BY <1>2, <1>4, <1>7 DEF Rows
  <2>3. QED BY <1>7, <2>1, <2>2 DEF OpIndexed
<1>10. OpCaptured'
  BY <1>4 DEF OpCaptured
<1>11. OpAnchored'
  BY <1>2, <1>3, <1>4, CheckpointAssumption DEF OpAnchored
<1>12. OpRestores'
  <2>1. HasRow(op'.idx, op'.target)
    BY <1>a, <1>1, <1>3, <1>4 DEF Sound, OpRestores
  <2>2. QED BY <1>a, <1>1, <1>4, <1>5, <2>1 DEF Sound, OpRestores, Capture
<1>13. NothingLost'
  <2>1. ~ wiped /\ displaced # None => Stored(op.idx, displaced)
    BY <1>a, <1>1 DEF Sound, NothingLost, OpIndexed, Stored
  <2>2. QED BY <1>2, <1>3, <1>5, <2>1 DEF NothingLost
<1>14. SettledNotDirty'
  <2>1. ~ wiped => index'.baseline = index.baseline
    BY <1>a, <1>1, <1>2 DEF Sound, OpIndexed
  <2>2. QED BY <1>a, <1>5, <2>1 DEF Sound, SettledNotDirty, Capture
<1>15. QED BY <1>8, <1>9, <1>10, <1>11, <1>12, <1>13, <1>14 DEF Sound

\* What a write lands on is in the anchor row.
LEMMA SoundApplyPath ==
  ASSUME CkInv, NEW w \in Windows, NEW p \in Paths, ApplyPath(w, p)
  PROVE  Sound'
<1>a. CkTypeOK /\ Alive /\ HasIndex /\ Sound
  BY DEF CkInv, Sound
<1>1. op \in OpSet /\ op # None /\ op.pc = "apply" /\ op.target \in RowSet
  BY <1>a, RunningOp DEF ApplyPath, Running, OpRestores, OpSet, Sound
<1>2. /\ worktree' = [worktree EXCEPT ![p] = op.target.tree[p]]
      /\ op' = [op EXCEPT !.todo = @ \ {p}]
      /\ displaced' = op.tree /\ settled' = FALSE
      /\ UNCHANGED <<index, tip, wiped>>
  BY DEF ApplyPath
<1>3. /\ op'.idx = op.idx /\ op'.pc = op.pc /\ op'.job = op.job
      /\ op'.target = op.target /\ op'.tree = op.tree /\ op'.todo = op.todo \ {p}
      /\ op'.touched = op.touched /\ op'.skipped = op.skipped /\ op'.anchor = op.anchor
  BY <1>1, <1>2 DEF OpSet
<1>4. IndexSound' /\ SettledNotDirty'
  BY <1>a, <1>2 DEF Sound, IndexSound, Blank, RedoSound, HasRow, SettledNotDirty
<1>5. OpIndexed'
  BY <1>a, <1>1, <1>2, <1>3 DEF Sound, OpIndexed, Blank, RedoSound, HasRow, Rows
<1>6. OpCaptured' /\ OpAnchored'
  BY <1>a, <1>1, <1>3 DEF Sound, OpCaptured, OpAnchored, HasRow
<1>7. NothingLost'
  <2>1. HasRow(op.idx, op.anchor) /\ op.anchor.tree = op.tree
    BY <1>a, <1>1 DEF Sound, OpAnchored
  <2>2. ~ wiped => index.rows = op.idx.rows
    BY <1>a, <1>1 DEF Sound, OpIndexed
  <2>3. QED BY <1>2, <2>1, <2>2 DEF NothingLost, HasRow, Stored
<1>8. OpRestores'
  <2>1. /\ op.target # None /\ HasRow(op.idx, op.target) /\ op.todo \subseteq Paths
        /\ \A q \in Paths : q \notin op.todo \cup op.touched /\ ~ op.skipped
                              => Capture(worktree)[q] = op.target.tree[q]
        /\ \A q \in op.todo \ op.touched : ~ op.job.force => worktree[q] = op.tree[q]
    BY <1>a, <1>1 DEF Sound, OpRestores, OpSet
  <2>2. \A q \in Paths \ {p} : /\ worktree'[q] = worktree[q]
                               /\ Capture(worktree)'[q] = Capture(worktree)[q]
    BY <1>a, <1>2 DEF CkTypeOK, Capture
  <2>3. Capture(worktree)'[p] = op.target.tree[p]
    <3>1. op.target.tree[p] \in Contents /\ worktree'[p] = op.target.tree[p]
      BY <1>a, <1>1, <1>2 DEF CkTypeOK, RowSet, Trees
    <3>2. QED BY <3>1, CheckpointAssumption DEF Capture
  <2>4. \A q \in Paths : q \notin op'.todo \cup op'.touched /\ ~ op'.skipped
                           => Capture(worktree)'[q] = op'.target.tree[q]
    BY <1>3, <2>1, <2>2, <2>3
  <2>5. \A q \in op'.todo \ op'.touched : ~ op'.job.force => worktree'[q] = op'.tree[q]
    BY <1>3, <2>1, <2>2
  <2>6. QED BY <1>3, <2>1, <2>4, <2>5 DEF OpRestores, HasRow
<1>9. QED BY <1>4, <1>5, <1>6, <1>7, <1>8 DEF Sound

LEMMA SoundSkipPath ==
  ASSUME CkInv, NEW w \in Windows, NEW p \in Paths, SkipPath(w, p)
  PROVE  Sound'
<1>a. CkTypeOK /\ Alive /\ HasIndex /\ Sound
  BY DEF CkInv, Sound
<1>1. op \in OpSet /\ op # None /\ op.pc = "apply"
  BY <1>a, RunningOp DEF SkipPath
<1>2. /\ op' = [op EXCEPT !.todo = @ \ {p}, !.skipped = TRUE] /\ settled' = FALSE
      /\ UNCHANGED <<worktree, index, tip, displaced, wiped>>
  BY DEF SkipPath, diskVars
<1>3. /\ op'.idx = op.idx /\ op'.pc = op.pc /\ op'.job = op.job
      /\ op'.target = op.target /\ op'.tree = op.tree /\ op'.todo = op.todo \ {p}
      /\ op'.touched = op.touched /\ op'.skipped = TRUE /\ op'.anchor = op.anchor
  BY <1>1, <1>2 DEF OpSet
<1>4. IndexSound' /\ SettledNotDirty' /\ NothingLost'
  BY <1>a, <1>2 DEF Sound, IndexSound, Blank, RedoSound, HasRow, SettledNotDirty,
                    NothingLost, Stored
<1>5. OpIndexed'
  BY <1>a, <1>1, <1>2, <1>3 DEF Sound, OpIndexed, Blank, RedoSound, HasRow, Rows
<1>6. OpCaptured' /\ OpAnchored'
  BY <1>a, <1>1, <1>3 DEF Sound, OpCaptured, OpAnchored, HasRow
<1>7. OpRestores'
  BY <1>a, <1>1, <1>2, <1>3 DEF Sound, OpRestores, HasRow
<1>8. QED BY <1>4, <1>5, <1>6, <1>7 DEF Sound

LEMMA SoundStep ==
  ASSUME CkInv, CkNext
  PROVE  Sound'
<1>a. CkTypeOK /\ Alive /\ HasIndex
  BY DEF CkInv
<1>1. ASSUME PruneRealRepo PROVE Sound'
  BY <1>1, OffLockStep DEF PruneRealRepo, history
<1>2. ASSUME NEW w \in Windows, WindowStep(w) PROVE Sound'
  <2>1. ASSUME OpenWindow(w) \/ InitLoads(w) \/ InitFindsNone(w) \/ TurnStart(w)
                 \/ TurnEnd(w) \/ AskRestore(w)
        PROVE  Sound'
    <3>1. UNCHANGED <<worktree, index, op, settled, tip, displaced, wiped>>
      BY <2>1
      DEF OpenWindow, InitLoads, InitFindsNone, TurnStart, TurnEnd, AskRestore,
          diskVars, history
    <3>2. QED BY <3>1, OffLockStep
  <2>2. ASSUME GoDown(w) PROVE Sound'
    BY <2>2, OffLockStep DEF GoDown, diskVars
  <2>3. QED BY <1>2, <2>1, <2>2, SoundCreateIndex DEF WindowStep, CloseWindow, CkCrash
<1>3. ASSUME NEW w \in Windows, JobStep(w) PROVE Sound'
  <2>1. ASSUME JobFails(w) \/ LocalizeFails(w) \/ Localize(w) \/ OpFails(w) PROVE Sound'
    BY <2>1, OffLockStep DEF JobFails, LocalizeFails, Localize, OpFails, diskVars, history
  <2>2. QED
    BY <1>3, <2>1, SoundSnapshotCaptures, SoundSnapshotDedups, SoundSnapshotStores,
       SoundRestoreRefuses, SoundRestoreAccepts, SoundAnchorReused, SoundAnchorAppended,
       SoundApplyPath, SoundSkipPath, SoundRestorePersists DEF JobStep
<1>4. QED BY <1>1, <1>2, <1>3, SoundEdit DEF CkNext

LEMMA CkStarts == CkInit => CkInv
<1> SUFFICES ASSUME CkInit PROVE CkInv
  OBVIOUS
<1> USE DEF CkInit
<1>1. CkTypeOK
  <2>1. worktree \in [Paths -> Contents \cup {Big}]
    BY CheckpointAssumption
  <2>2. jobs \in [Windows -> Seq(JobSet)]
    <3>1. <<>> \in Seq(JobSet)
      OBVIOUS
    <3>2. QED BY <3>1
  <2>3. turns \in [Windows -> 0 .. MaxAsks]
    BY CheckpointAssumption
  <2>4. Len(Rows) <= MaxRows
    BY CheckpointAssumption DEF Rows
  <2>5. {settled, wiped, unflushed} \subseteq BOOLEAN
    OBVIOUS
  <2>6. QED BY <2>1, <2>2, <2>3, <2>4, <2>5 DEF CkTypeOK, WindowStates
<1>2. Alive /\ HasIndex /\ TurnsAsked /\ BorrowedIsOwed
  BY DEF Alive, HasIndex, TurnsAsked, BorrowedIsOwed
<1>3. IndexSound /\ OpIndexed /\ OpCaptured /\ OpRestores /\ OpAnchored
  BY DEF IndexSound, OpIndexed, OpCaptured, OpRestores, OpAnchored
<1>4. NothingLost /\ SettledNotDirty
  BY DEF NothingLost, SettledNotDirty
<1>5. QED BY <1>1, <1>2, <1>3, <1>4 DEF CkInv

LEMMA CkStutters == CkInv /\ UNCHANGED ckVars => CkInv'
<1> SUFFICES ASSUME CkInv, UNCHANGED ckVars PROVE CkInv'
  OBVIOUS
<1>1. Sound'
  BY OffLockStep DEF ckVars, diskVars, history
<1>2. CkTypeOK' /\ Alive' /\ HasIndex' /\ TurnsAsked' /\ BorrowedIsOwed'
  BY DEF CkInv, CkTypeOK, Alive, HasIndex, TurnsAsked, BorrowedIsOwed, Rows, ckVars,
         diskVars, winVars, bounds, history
<1>3. QED BY <1>1, <1>2 DEF CkInv, Sound

THEOREM CkInvariance == CkSpec => []CkInv
<1>1. CkInv /\ [CkNext]_ckVars => CkInv'
  BY TypeStep, AdminStep, SoundStep, CkStutters DEF Admin, Sound, CkInv
<1>2. QED BY CkStarts, <1>1, PTL DEF CkSpec

\* The checkpoint state keeps its types, with any number of windows, paths,
\* edits, turns, restores and failures.
THEOREM CkTypeCorrect == CkSpec => []CkTypeOK
<1>1. CkInv => CkTypeOK
  BY DEF CkInv
<1>2. QED BY CkInvariance, <1>1, PTL

\* What a restore writes over is a row that is already on disk, wherever the
\* restore stops (ensureAnchorRow, CheckpointTracker.ts:703-710).
THEOREM NothingIsLost == CkSpec => []NothingLost
<1>1. CkInv => NothingLost
  BY DEF CkInv
<1>2. QED BY CkInvariance, <1>1, PTL

\* While nobody edits after a stored capture, the baseline is the live tree, so
\* the dirty guard of restore does not refuse (CheckpointTracker.ts:377-385).
THEOREM SettledIsClean == CkSpec => []SettledNotDirty
<1>1. CkInv => SettledNotDirty
  BY DEF CkInv
<1>2. QED BY CkInvariance, <1>1, PTL

\* The redo pointer names rows of the index, and its anchor holds the tree that
\* was live at the first undo, through any chain of undos and redos.
THEOREM RedoIsSound == CkSpec => []RedoReachesTip
<1>1. CkInv => RedoReachesTip
  BY DEF CkInv, IndexSound, RedoSound, RedoReachesTip
<1>2. QED BY CkInvariance, <1>1, PTL

\* A tree that depends on the real repository has a window that is to localize
\* it, or one went down too early (CheckpointTracker.ts:1275-1286).
THEOREM BorrowedHasOwner == CkSpec => []BorrowedIsOwed
<1>1. CkInv => BorrowedIsOwed
  BY DEF CkInv
<1>2. QED BY CkInvariance, <1>1, PTL

-----------------------------------------------------------------------------
(* Action properties.                                                      *)

LEMMA RowsPrefix ==
  ASSUME NEW s \in Seq(RowSet)
  PROVE  IsPrefix(s, s) /\ IsPrefix(<<>>, s)
<1>1. Len(s) \in Nat /\ Len(<<>>) = 0 /\ SubSeq(s, 1, 0) = <<>>
  OBVIOUS
<1>2. SubSeq(<<>>, 1, 0) = <<>>
  OBVIOUS
<1>3. IsPrefix(s, s)
  BY <1>1 DEF IsPrefix
<1>4. IsPrefix(<<>>, s)
  BY <1>1, <1>2 DEF IsPrefix
<1>5. QED BY <1>3, <1>4

\* A row that is stored is never dropped or changed by any job of any window:
\* the log is append-only (CheckpointTracker.ts:1776), but for the late empty
\* index of a window that found none.
THEOREM RowsStay == CkSpec => RowsKept
<1> DEFINE Keeps == IsPrefix(Rows, Rows') \/ \E w \in Windows : CreateIndex(w)
<1>1. ASSUME CkInv, CkNext PROVE Keeps
  <2>a. CkTypeOK /\ Alive /\ HasIndex /\ OpIndexed /\ OpRestores /\ OpAnchored
    BY <1>1 DEF CkInv
  <2>b. Rows \in Seq(RowSet) /\ Rows' \in Seq(RowSet)
    <3>1. CkTypeOK' /\ <<>> \in Seq(RowSet)
      BY <1>1, TypeStep
    <3>2. QED BY <2>a, <3>1 DEF CkTypeOK, Rows, Indexes
  <2>1. ASSUME index' = index PROVE Keeps
    BY <2>b, <2>1, RowsPrefix DEF Rows
  <2>2. ASSUME NEW w \in Windows, WindowStep(w) PROVE Keeps
    <3>1. CASE CreateIndex(w)
      BY <3>1
    <3>2. CASE ~ CreateIndex(w)
      BY <2>1, <2>2, <3>2
      DEF WindowStep, OpenWindow, InitLoads, InitFindsNone, CloseWindow, CkCrash, GoDown,
          TurnStart, TurnEnd, AskRestore, diskVars
    <3>3. QED BY <3>1, <3>2
  <2>3. ASSUME NEW w \in Windows, SnapshotDedups(w) PROVE Keeps
    <3>1. op # None /\ op.idx \in Indexes /\ op.job \in JobSet /\ op.tree \in Trees
      BY <2>a, <2>3, RunningOp DEF SnapshotDedups
    <3>2. /\ WithoutRedo(op.idx, op.job) \in Indexes
          /\ WithoutRedo(op.idx, op.job).rows = op.idx.rows
      BY <3>1, SnapshotIndex
    <3>3. index' = [WithoutRedo(op.idx, op.job) EXCEPT !.baseline = op.tree]
      BY <2>3 DEF SnapshotDedups, Persist
    <3>4. index' \in Indexes /\ index'.rows = op.idx.rows
      BY <3>1, <3>2, <3>3 DEF Indexes
    <3>5. Rows' = op.idx.rows
      BY <3>4, CheckpointAssumption DEF Rows
    <3>6. QED BY <2>a, <2>b, <3>1, <3>5, RowsPrefix DEF OpIndexed
  <2>4. ASSUME NEW w \in Windows, SnapshotStores(w) \/ AnchorAppended(w) PROVE Keeps
    <3>1. op # None /\ op.idx \in Indexes
      BY <2>a, <2>4, RunningOp DEF SnapshotStores, AnchorAppended
    <3>2. /\ index' \in Indexes
          /\ \E row \in RowSet : index'.rows = Append(op.idx.rows, row)
      BY <2>a, <2>4, StoredIndexIs, AnchorIndexIs
    <3>3. IsPrefix(op.idx.rows, index'.rows) /\ Rows' = index'.rows
      BY <3>1, <3>2, AppendKeepsRows, CheckpointAssumption DEF Rows
    <3>4. QED BY <2>a, <2>b, <3>1, <3>3, RowsPrefix DEF OpIndexed
  <2>5. ASSUME NEW w \in Windows, RestoreRefuses(w) PROVE Keeps
    <3>1. index \in Indexes /\ index # None
      BY <2>a, <2>5, TakesJob DEF RestoreRefuses
    <3>2. index' \in Indexes /\ index'.rows = index.rows
      BY <2>5, <3>1 DEF RestoreRefuses, Indexes
    <3>3. Rows' = Rows
      BY <3>1, <3>2, CheckpointAssumption DEF Rows
    <3>4. QED BY <2>b, <3>3, RowsPrefix
  <2>6. ASSUME NEW w \in Windows, RestorePersists(w) PROVE Keeps
    <3>1. op # None /\ index' \in Indexes /\ index'.rows = op.idx.rows
      BY <2>a, <2>6, RestorePersistsIs, OutcomeIs DEF RestorePersists, Running
    <3>2. Rows' = op.idx.rows
      BY <3>1, CheckpointAssumption DEF Rows
    <3>3. QED BY <2>a, <2>b, <3>1, <3>2, RowsPrefix DEF OpIndexed
  <2>7. ASSUME NEW w \in Windows, JobStep(w) PROVE Keeps
    BY <2>1, <2>3, <2>4, <2>5, <2>6, <2>7
    DEF JobStep, SnapshotCaptures, RestoreAccepts, AnchorReused, ApplyPath, SkipPath,
        Localize, LocalizeFails, JobFails, OpFails, diskVars
  <2>8. QED BY <1>1, <2>1, <2>2, <2>7 DEF CkNext, PruneRealRepo, Edit
<1>2. CkInv /\ [CkNext]_ckVars => [Keeps]_ckVars
  BY <1>1
<1>3. CkSpec => [][Keeps]_ckVars
  BY <1>2, CkInvariance, PTL DEF CkSpec
<1>4. QED BY <1>3 DEF RowsKept

\* A restore without force writes only over what its captured tree holds, or
\* what somebody wrote after the capture (CheckpointTracker.ts:663-683).
THEOREM UncapturedIsKept == CkSpec => UncapturedKept
<1> DEFINE Careful ==
      \A w \in Windows, p \in Paths :
        ApplyPath(w, p) /\ ~ op.job.force /\ p \notin op.touched
          => worktree[p] = op.tree[p]
<1>1. CkInv => Careful
  <2> SUFFICES ASSUME CkInv, NEW w \in Windows, NEW p \in Paths, ApplyPath(w, p),
                      ~ op.job.force, p \notin op.touched
               PROVE  worktree[p] = op.tree[p]
    OBVIOUS
  <2>1. op # None /\ op.pc = "apply" /\ p \in op.todo
    BY DEF ApplyPath, Running
  <2>2. QED BY <2>1 DEF CkInv, OpRestores
<1>2. CkInv /\ [CkNext]_ckVars => [Careful]_ckVars
  BY <1>1
<1>3. CkSpec => [][Careful]_ckVars
  BY <1>2, CkInvariance, PTL DEF CkSpec
<1>4. QED BY <1>3 DEF UncapturedKept
=============================================================================
