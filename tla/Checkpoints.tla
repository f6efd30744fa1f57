----------------------------- MODULE Checkpoints ------------------------------
(***************************************************************************)
(* The checkpoints of one workspace root: CheckpointTracker.ts, driven by  *)
(* RootCoordinator.ts (lease and ordinals), SessionController.ts (before   *)
(* and after snapshots) and control/checkpointActions.ts (restore, redo).  *)
(*                                                                         *)
(* Several VS Code windows share the worktree and the shadow repository on *)
(* disk.  Each has its own queue of jobs; a job runs under the             *)
(* cross-process lock, here an exclusive "op" (ShadowLock models how the   *)
(* lock itself works and where it fails).  A tree is the captured content  *)
(* of each path; a file over the size cutoff is live but captured as       *)
(* absent.                                                                 *)
(***************************************************************************)
EXTENDS Naturals, Sequences, SequencesExt, FiniteSets

CONSTANTS Windows,
          Paths,
          Contents,   \* contents git can capture, Absent among them
          Absent,     \* no file at the path
          Big,        \* a live file over the cutoff: never captured
          None,
          MaxRows,    \* bound: rows of the index
          MaxEdits,   \* bound: edits of the worktree
          MaxOpens,   \* bound: activations of windows
          MaxAsks,    \* bound: turns, restores and redos asked for
          MaxFaults   \* bound: failures, crashes and prunes

Trees == [Paths -> Contents]

\* A row is its public id: the tree and the ordinal or anchor number.
RowSet == [tree : Trees, phase : {"base", "turn", "anchor"}, n : Nat]
Pointers == [anchor : RowSet, cursor : RowSet]
Indexes == [rows : Seq(RowSet), baseline : Trees \cup {None},
            redo : Pointers \cup {None}, seq : Nat]

JobSet == [kind : {"base", "before", "after", "restore", "redo", "redoAll"},
           n : Nat, row : RowSet \cup {None}, force : BOOLEAN]

\* A job that holds the lock: the index it works on, the tree it captured, the
\* row it restores, the paths left to write, and its anchor row.
OpSet == [win : Windows, job : JobSet, pc : {"store", "anchor", "apply"},
          idx : Indexes, tree : Trees, target : RowSet \cup {None},
          todo : SUBSET Paths, anchor : RowSet \cup {None},
          touched : SUBSET Paths, skipped : BOOLEAN]

ASSUME CheckpointAssumption ==
  /\ Absent \in Contents /\ Big \notin Contents
  /\ None \notin Windows /\ None \notin Trees /\ None \notin RowSet
  /\ None \notin Pointers /\ None \notin Indexes /\ None \notin OpSet
  /\ {MaxRows, MaxEdits, MaxOpens, MaxAsks, MaxFaults} \subseteq Nat

VARIABLES worktree,  \* live content of each path
          index,     \* index.json: rows, baseline, redo, seq; or None
          borrowed,  \* stored trees with objects only the real repository has
          missing,   \* stored trees with an object that was pruned
          op,        \* the job that holds the lock, or None
          jobs,      \* per window: its queue behind the lock
          state,     \* per window: see WindowStates
          lease,     \* per window: who holds its turn lease of the root
          turns,     \* per window: last turn ordinal of this activation
          localize,  \* per window: localizePending, with or without its timer
          opens, edits, asks, faults,  \* counters of the bounds
          settled,   \* history: nothing edited since the last stored capture
          tip,       \* history: the live tree when the redo pointer was set
          displaced, \* history: the last captured tree a restore wrote over
          wiped,     \* history: a cold open wrote an empty index over rows
          unflushed  \* history: a window went down with objects to localize

diskVars == <<worktree, index, borrowed, missing>>
winVars == <<jobs, state, lease, turns, localize>>
bounds == <<opens, edits, asks, faults>>
history == <<settled, tip, displaced, wiped, unflushed>>
ckVars == <<diskVars, op, winVars, bounds, history>>

WindowStates == {"down", "cold", "creating", "up"}
Capture(files) == [p \in Paths |-> IF files[p] = Big THEN Absent ELSE files[p]]
EmptyIndex == [rows |-> <<>>, baseline |-> None, redo |-> None, seq |-> 0]

Row(tree, phase, n) == [tree |-> tree, phase |-> phase, n |-> n]
Rows == IF index = None THEN <<>> ELSE index.rows
Stored(idx, tree) == \E i \in DOMAIN idx.rows : idx.rows[i].tree = tree

Job(kind, n, row, force) == [kind |-> kind, n |-> n, row |-> row, force |-> force]
Enqueue(w, job) == jobs' = [jobs EXCEPT ![w] = Append(@, job)]

CkTypeOK ==
  /\ worktree \in [Paths -> Contents \cup {Big}]
  /\ index \in Indexes \cup {None} /\ Len(Rows) <= MaxRows
  /\ borrowed \subseteq Trees /\ missing \subseteq Trees
  /\ op \in OpSet \cup {None}
  /\ jobs \in [Windows -> Seq(JobSet)]
  /\ state \in [Windows -> WindowStates]
  /\ lease \in [Windows -> {"free", "barrier", "agent", "restore"}]
  /\ turns \in [Windows -> 0 .. MaxAsks]
  /\ localize \in [Windows -> {"none", "armed", "pending"}]
  /\ {opens, edits, asks, faults} \subseteq Nat
  /\ {settled, wiped, unflushed} \subseteq BOOLEAN
  /\ tip \in Trees \cup {None} /\ displaced \in Trees \cup {None}

CkInit ==
  /\ worktree \in [Paths -> {Absent}]
  /\ index = None
  /\ borrowed = {} /\ missing = {}
  /\ op = None
  /\ jobs = [w \in Windows |-> <<>>]
  /\ state = [w \in Windows |-> "down"]
  /\ lease = [w \in Windows |-> "free"]
  /\ turns = [w \in Windows |-> 0]
  /\ localize = [w \in Windows |-> "none"]
  /\ opens = 0 /\ edits = 0 /\ asks = 0 /\ faults = 0
  /\ settled = FALSE /\ tip = None /\ displaced = None
  /\ wiped = FALSE /\ unflushed = FALSE

-----------------------------------------------------------------------------
(* Windows open, close and crash.                                          *)

OpenWindow(w) ==
  /\ state[w] = "down" /\ opens < MaxOpens
  /\ state' = [state EXCEPT ![w] = "cold"]
  /\ opens' = opens + 1
  /\ UNCHANGED <<diskVars, op, jobs, lease, turns, localize, edits, asks, faults, history>>

\* The session baseline is the first job of an activation; its ordinal starts
\* again at -1 with every activation.  Cleanup is called too: it counts as
\* pending localization.
Activate(w) ==
  /\ state' = [state EXCEPT ![w] = "up"]
  /\ Enqueue(w, Job("base", 1, None, FALSE))

\* loadIndex finds an index.
InitLoads(w) ==
  /\ state[w] = "cold" /\ index # None
  /\ Activate(w)
  /\ UNCHANGED <<diskVars, op, lease, turns, localize, bounds, history>>

\* loadIndex finds none, and will write an empty one, outside the lock.
InitFindsNone(w) ==
  /\ state[w] = "cold" /\ index = None
  /\ state' = [state EXCEPT ![w] = "creating"]
  /\ UNCHANGED <<diskVars, op, jobs, lease, turns, localize, bounds, history>>

CreateIndex(w) ==
  /\ state[w] = "creating"
  /\ index' = EmptyIndex
  /\ Activate(w)
  /\ wiped' = (wiped \/ Rows # <<>>)
  /\ UNCHANGED <<worktree, borrowed, missing, op, lease, turns, localize, bounds,
                 settled, tip, displaced, unflushed>>

Drained(w) == jobs[w] = <<>> /\ (op # None => op.win # w)

Fault == faults < MaxFaults /\ faults' = faults + 1

\* The extension host ends.
GoDown(w) ==
  /\ state' = [state EXCEPT ![w] = "down"]
  /\ jobs' = [jobs EXCEPT ![w] = <<>>]
  /\ op' = IF op # None /\ op.win = w THEN None ELSE op
  /\ lease' = [lease EXCEPT ![w] = "free"]
  /\ turns' = [turns EXCEPT ![w] = 0]
  /\ localize' = [localize EXCEPT ![w] = "none"]
  /\ unflushed' = (unflushed \/ localize[w] # "none")
  /\ settled' = (settled /\ (op # None => op.win # w))
  /\ UNCHANGED <<diskVars, opens, edits, asks, tip, displaced, wiped>>

\* disposeAndFlush: the queue drains, then what is pending is flushed, or fails.
CloseWindow(w) ==
  /\ state[w] = "up" /\ Drained(w) /\ localize[w] # "armed"
  /\ GoDown(w)
  /\ UNCHANGED faults

\* A crash, or the deadline of the flush.
CkCrash(w) == state[w] # "down" /\ Fault /\ GoDown(w)

-----------------------------------------------------------------------------
(* The worktree, the real repository and the panel's requests.             *)

\* The user, or an agent in a turn, writes a file.
Edit(p, c) ==
  /\ edits < MaxEdits /\ worktree[p] # c
  /\ worktree' = [worktree EXCEPT ![p] = c]
  /\ op' = IF op = None THEN None ELSE [op EXCEPT !.touched = @ \cup {p}]
  /\ edits' = edits + 1
  /\ settled' = FALSE
  /\ UNCHANGED <<index, borrowed, missing, winVars, opens, asks, faults,
                 tip, displaced, wiped, unflushed>>

\* A gc --prune of the real repository drops what no ref of its own reaches.
PruneRealRepo ==
  /\ borrowed # {}
  /\ missing' = missing \cup borrowed
  /\ borrowed' = {}
  /\ Fault
  /\ UNCHANGED <<worktree, index, op, winVars, opens, edits, asks, history>>

Asked == asks < MaxAsks /\ asks' = asks + 1

\* sendPrompt: the lease, a new ordinal, and the barrier snapshot.
TurnStart(w) ==
  /\ state[w] = "up" /\ lease[w] = "free" /\ Asked
  /\ lease' = [lease EXCEPT ![w] = "barrier"]
  /\ turns' = [turns EXCEPT ![w] = @ + 1]
  /\ Enqueue(w, Job("before", turns[w] + 1, None, FALSE))
  /\ UNCHANGED <<diskVars, op, state, localize, opens, edits, faults, history>>

\* emitTurnEnd: the lease goes back first, the after-snapshot is not awaited.
TurnEnd(w) ==
  /\ lease[w] = "agent"
  /\ lease' = [lease EXCEPT ![w] = "free"]
  /\ Enqueue(w, Job("after", turns[w], None, FALSE))
  /\ UNCHANGED <<diskVars, op, state, turns, localize, bounds, history>>

\* restoreCheckpoint / redoCheckpoint: refused while the window's lease is held.
AskRestore(w) ==
  /\ state[w] = "up" /\ lease[w] = "free" /\ Asked
  /\ lease' = [lease EXCEPT ![w] = "restore"]
  /\ \E force \in BOOLEAN :
       \/ \E i \in DOMAIN Rows : Enqueue(w, Job("restore", 0, Rows[i], force))
       \/ \E kind \in {"redo", "redoAll"} : Enqueue(w, Job(kind, 0, None, force))
  /\ UNCHANGED <<diskVars, op, state, turns, localize, opens, edits, faults, history>>

-----------------------------------------------------------------------------
(* Jobs under the lock.                                                    *)

Op(w, job, pc, idx, target, todo) ==
  [win |-> w, job |-> job, pc |-> pc, idx |-> idx, tree |-> Capture(worktree),
   target |-> target, todo |-> todo, anchor |-> None, touched |-> {},
   skipped |-> FALSE]

\* enqueue + withLock: the head of the queue takes the lock; the cache is
\* dropped, so that the job works on the index that is on disk now.
Takes(w, kinds) ==
  /\ op = None /\ jobs[w] # <<>> /\ Head(jobs[w]).kind \in kinds
  /\ jobs' = [jobs EXCEPT ![w] = Tail(@)]

Running(w, pc) == op # None /\ op.win = w /\ op.pc = pc

\* What the caller of a job does when it settles, whatever the outcome: the
\* barrier lets the turn go on (unprotected after a failure), a restore gives
\* its lease back.
Settles(w, job) ==
  lease' = [lease EXCEPT ![w] =
    CASE job.kind = "before" /\ @ = "barrier" -> "agent"
      [] job.kind \in {"restore", "redo", "redoAll"} -> "free"
      [] OTHER -> @]

\* persistIndex (disk first) and then the cache.
Persist(idx) == index' = idx /\ op' = None

MarkLocalizeNeeded(w) ==
  localize' = [localize EXCEPT ![w] = "armed"]

\* A tree that no row holds yet may borrow objects of the real repository.
Borrow(idx, tree) ==
  /\ borrowed' = IF Stored(idx, tree) THEN borrowed ELSE borrowed \cup {tree}
  /\ missing' = missing \ {tree}

SnapshotCaptures(w) ==
  /\ Takes(w, {"before", "after", "base"})
  /\ op' = Op(w, Head(jobs[w]), "store", index, None, {})
  /\ UNCHANGED <<diskVars, state, lease, turns, localize, bounds, history>>

WithoutRedo(idx, job) ==
  IF job.kind = "base" THEN idx ELSE [idx EXCEPT !.redo = None]

SameAsLast(idx, tree) == idx.rows # <<>> /\ Last(idx.rows).tree = tree

\* Mutant: a capture that equals the last row leaves the index alone.
DedupKeepsBaseline(w) ==
  /\ Running(w, "store") /\ SameAsLast(op.idx, op.tree)
  /\ Persist(op.idx)
  /\ Settles(w, op.job)
  /\ settled' = (op.touched = {})
  /\ UNCHANGED <<worktree, borrowed, missing, jobs, state, turns, localize, bounds,
                 tip, displaced, wiped, unflushed>>

\* The tree equals the last row's: no new row, but the baseline is refreshed and
\* a turn invalidates the redo pointer.
SnapshotDedups(w) ==
  /\ Running(w, "store") /\ SameAsLast(op.idx, op.tree)
  /\ Persist([WithoutRedo(op.idx, op.job) EXCEPT !.baseline = op.tree])
  /\ Settles(w, op.job)
  /\ settled' = (op.touched = {})
  /\ UNCHANGED <<worktree, borrowed, missing, jobs, state, turns, localize, bounds,
                 tip, displaced, wiped, unflushed>>

SnapshotStores(w) ==
  /\ Running(w, "store") /\ ~ SameAsLast(op.idx, op.tree)
  /\ Len(op.idx.rows) < MaxRows
  /\ LET phase == IF op.job.kind = "base" THEN "base" ELSE "turn"
         row == Row(op.tree, phase, op.job.n)
     IN  Persist([WithoutRedo(op.idx, op.job) EXCEPT !.baseline = op.tree,
                                                      !.rows = Append(@, row)])
  /\ Borrow(op.idx, op.tree)
  /\ MarkLocalizeNeeded(w)
  /\ Settles(w, op.job)
  /\ settled' = (op.touched = {})
  /\ UNCHANGED <<worktree, jobs, state, turns, bounds, tip, displaced, wiped, unflushed>>

\* restore: the row asked for; redo: the row after the first one with the
\* cursor's id, or the anchor; redoAll: the anchor.
RedoStep(idx) ==
  LET at == {i \in DOMAIN idx.rows : idx.rows[i] = idx.redo.cursor}
      next == {i + 1 : i \in {j \in at : \A k \in at : j <= k}} \cap DOMAIN idx.rows
  IN  IF next = {} THEN idx.redo.anchor ELSE idx.rows[CHOOSE i \in next : TRUE]

TargetOf(idx, job) ==
  CASE job.kind = "restore" -> job.row
    [] job.kind = "redo" -> RedoStep(idx)
    [] job.kind = "redoAll" -> idx.redo.anchor

HasRow(idx, row) == \E i \in DOMAIN idx.rows : idx.rows[i] = row
Complete(idx, row) == HasRow(idx, row) /\ row.tree \notin missing

\* The paths a restore touches: where the captured live tree differs.
Changes(tree) == {p \in Paths : Capture(worktree)[p] # tree[p]}

Dirty(idx) ==
  Capture(worktree) # IF idx.baseline # None THEN idx.baseline
                      ELSE [p \in Paths |-> Absent]

\* Mutant: only what the trees show is looked at.
ClobberUnseen(tree) == FALSE

\* A write would land on live content that no tree can hold.
UncapturedClobber(tree) ==
  \E p \in Changes(tree) : tree[p] # Absent /\ worktree[p] = Big

\* No redo is outstanding, or its anchor can no longer be restored.
RedoGone(job) ==
  /\ job.kind # "restore"
  /\ index.redo # None => ~ Complete(index, index.redo.anchor)

Allowed(job) ==
  /\ ~ RedoGone(job)
  /\ LET target == TargetOf(index, job)
     IN  /\ Complete(index, target)
         /\ Dirty(index) \/ UncapturedClobber(target.tree) => job.force

RestoreRefuses(w) ==
  /\ Takes(w, {"restore", "redo", "redoAll"})
  /\ LET job == Head(jobs[w])
     IN  /\ ~ Allowed(job)
         /\ Settles(w, job)
         /\ index' = IF RedoGone(job) THEN [index EXCEPT !.redo = None] ELSE index
  /\ UNCHANGED <<worktree, borrowed, missing, op, state, turns, localize, bounds, history>>

RestoreAccepts(w) ==
  /\ Takes(w, {"restore", "redo", "redoAll"})
  /\ LET job == Head(jobs[w])
     IN  /\ Allowed(job)
         /\ LET target == TargetOf(index, job)
            IN  op' = Op(w, job, "anchor", index, target, Changes(target.tree))
  /\ UNCHANGED <<diskVars, state, lease, turns, localize, bounds, history>>

\* ensureAnchorRow: the newest row that already holds the live tree ...
AnchorReused(w) ==
  /\ Running(w, "anchor") /\ Stored(op.idx, op.tree)
  /\ LET rows == op.idx.rows
         newest == CHOOSE i \in DOMAIN rows :
                     /\ rows[i].tree = op.tree
                     /\ \A j \in DOMAIN rows : rows[j].tree = op.tree => j <= i
     IN  op' = [op EXCEPT !.anchor = rows[newest], !.pc = "apply"]
  /\ UNCHANGED <<diskVars, winVars, bounds, history>>

\* Mutant: the anchor row reaches the disk only with the outcome.
AnchorInMemory(w) ==
  /\ Running(w, "anchor") /\ ~ Stored(op.idx, op.tree)
  /\ Len(op.idx.rows) < MaxRows
  /\ LET row == Row(op.tree, "anchor", op.idx.seq + 1)
     IN  op' = [op EXCEPT !.anchor = row, !.pc = "apply",
                          !.idx.seq = @ + 1, !.idx.rows = Append(@, row)]
  /\ Borrow(op.idx, op.tree)
  /\ MarkLocalizeNeeded(w)
  /\ UNCHANGED <<worktree, index, jobs, state, lease, turns, bounds, history>>

\* ... or a new anchor row, on disk before any file is touched.
AnchorAppended(w) ==
  /\ Running(w, "anchor") /\ ~ Stored(op.idx, op.tree)
  /\ Len(op.idx.rows) < MaxRows
  /\ LET row == Row(op.tree, "anchor", op.idx.seq + 1)
         idx == [op.idx EXCEPT !.seq = @ + 1, !.rows = Append(@, row)]
     IN  /\ index' = idx
         /\ op' = [op EXCEPT !.anchor = row, !.pc = "apply", !.idx = idx]
  /\ Borrow(op.idx, op.tree)
  /\ MarkLocalizeNeeded(w)
  /\ UNCHANGED <<worktree, jobs, state, lease, turns, bounds, history>>

ApplyPath(w, p) ==
  /\ Running(w, "apply") /\ p \in op.todo
  /\ worktree' = [worktree EXCEPT ![p] = op.target.tree[p]]
  /\ op' = [op EXCEPT !.todo = @ \ {p}]
  /\ displaced' = op.tree
  /\ settled' = FALSE
  /\ UNCHANGED <<index, borrowed, missing, winVars, bounds, tip, wiped, unflushed>>

\* A path that leaves the workspace or whose read or write fails.
SkipPath(w, p) ==
  /\ Running(w, "apply") /\ p \in op.todo
  /\ op' = [op EXCEPT !.todo = @ \ {p}, !.skipped = TRUE]
  /\ settled' = FALSE
  /\ Fault
  /\ UNCHANGED <<diskVars, winVars, opens, edits, asks, tip, displaced, wiped, unflushed>>

Pointer(anchor, cursor) ==
  IF cursor = anchor THEN None ELSE [anchor |-> anchor, cursor |-> cursor]

\* Mutant: the rows after the target are dropped, as a linear undo would.
OutcomeTruncates(idx, target, live) ==
  [idx EXCEPT !.baseline = target.tree, !.redo = Pointer(live, target),
              !.rows = SelectSeq(@, LAMBDA row : row.n <= target.n)]

\* Mutant: every restore makes its own live tree the anchor.
OutcomeMovesAnchor(idx, target, live) ==
  [idx EXCEPT !.baseline = target.tree, !.redo = Pointer(live, target)]

\* Mutant: the baseline names the row instead of its tree.
OutcomeOfRow(idx, target, live) ==
  [idx EXCEPT !.baseline = target, !.redo = None]

\* The redo pointer is established, moved (it keeps its first anchor) or, when
\* the anchor itself is restored, consumed.
Outcome(idx, target, live) ==
  LET anchor == IF idx.redo = None THEN live ELSE idx.redo.anchor
  IN  [idx EXCEPT !.baseline = target.tree, !.redo = Pointer(anchor, target)]

\* persistRestoreOutcome.
RestorePersists(w) ==
  /\ Running(w, "apply") /\ op.todo = {}
  /\ Persist(Outcome(op.idx, op.target, op.anchor))
  /\ tip' = IF op.idx.redo = None THEN op.tree ELSE tip
  /\ Settles(w, op.job)
  /\ settled' = (op.touched = {} /\ ~ op.skipped)
  /\ UNCHANGED <<worktree, borrowed, missing, jobs, state, turns, localize, bounds,
                 displaced, wiped, unflushed>>

\* localizeAlternateObjects (repack), when the debounce timer fires, in the
\* cleanup of an activation, or on close.  git cannot repack while a stored
\* tree lacks an object.
Localize(w) ==
  /\ op = None
  /\ state[w] = "up"
  /\ borrowed # {} \/ localize[w] # "none"
  /\ \A t \in missing : ~ Stored(index, t)
  /\ borrowed' = {}
  /\ localize' = [localize EXCEPT ![w] = "none"]
  /\ unflushed' = FALSE
  /\ UNCHANGED <<worktree, index, missing, op, jobs, state, lease, turns, bounds,
                 settled, tip, displaced, wiped>>

\* Mutant: a failed repack counts as done.
LocalizeFailsSilently(w) ==
  /\ localize[w] = "armed"
  /\ localize' = [localize EXCEPT ![w] = "none"]
  /\ Fault
  /\ UNCHANGED <<diskVars, op, jobs, state, lease, turns, opens, edits, asks, history>>

\* The repack fails: still pending, but no timer until the next new row.
LocalizeFails(w) ==
  /\ localize[w] = "armed"
  /\ localize' = [localize EXCEPT ![w] = "pending"]
  /\ Fault
  /\ UNCHANGED <<diskVars, op, jobs, state, lease, turns, opens, edits, asks, history>>

\* The lock was not free in time, or git or the disk fails before the job has
\* changed anything.
JobFails(w) ==
  /\ jobs[w] # <<>> /\ state[w] # "down"
  /\ Settles(w, Head(jobs[w]))
  /\ jobs' = [jobs EXCEPT ![w] = Tail(@)]
  /\ Fault
  /\ UNCHANGED <<diskVars, op, state, turns, localize, opens, edits, asks, history>>

\* git, the disk or the scan deadline fails in the middle of a job.
OpFails(w) ==
  /\ op # None /\ op.win = w
  /\ op' = None
  /\ Settles(w, op.job)
  /\ Fault
  /\ UNCHANGED <<diskVars, jobs, state, turns, localize, opens, edits, asks, history>>

WindowStep(w) ==
  \/ OpenWindow(w) \/ InitLoads(w) \/ InitFindsNone(w) \/ CreateIndex(w)
  \/ CloseWindow(w) \/ CkCrash(w)
  \/ TurnStart(w) \/ TurnEnd(w) \/ AskRestore(w)

JobStep(w) ==
  \/ SnapshotCaptures(w) \/ SnapshotDedups(w) \/ SnapshotStores(w)
  \/ RestoreRefuses(w) \/ RestoreAccepts(w) \/ AnchorReused(w) \/ AnchorAppended(w)
  \/ (\E p \in Paths : ApplyPath(w, p) \/ SkipPath(w, p))
  \/ RestorePersists(w) \/ Localize(w) \/ LocalizeFails(w) \/ JobFails(w) \/ OpFails(w)

CkNext ==
  \/ PruneRealRepo
  \/ \E p \in Paths, c \in Contents \cup {Big} : Edit(p, c)
  \/ \E w \in Windows : WindowStep(w) \/ JobStep(w)

CkSpec == CkInit /\ [][CkNext]_ckVars

-----------------------------------------------------------------------------
\* A stored row stays, whatever is restored, undone or started afterwards
\* (CheckpointTracker.ts:1776 "APPEND-ONLY"), except when a window that found no
\* index at its start writes its empty one late.
RowsKept == [][IsPrefix(Rows, Rows') \/ \E w \in Windows : CreateIndex(w)]_ckVars

\* What a restore writes over is a stored row, also when the restore stops half
\* way (CheckpointTracker.ts:703-710).
NothingLost == ~ wiped /\ displaced # None => Stored(index, displaced)

\* A restore without force overwrites only content that its captured tree holds,
\* or that was written after the capture (CheckpointTracker.ts:663-683).
UncapturedKept ==
  [][\A w \in Windows, p \in Paths :
       ApplyPath(w, p) /\ ~ op.job.force /\ p \notin op.touched
         => worktree[p] = op.tree[p]]_ckVars

\* As long as nobody edits after a stored capture, the dirty guard does not
\* refuse: the baseline is the live tree (CheckpointTracker.ts:377-385).
SettledNotDirty == ~ wiped /\ settled => index.baseline = Capture(worktree)

\* Redo-all leads back to the tree that was live when the first undo was made.
RedoReachesTip ==
  index # None /\ index.redo # None =>
    /\ HasRow(index, index.redo.anchor) /\ index.redo.anchor.tree = tip
    /\ HasRow(index, index.redo.cursor)

\* While a stored tree still depends on the real repository, an open window is
\* to localize it, or one went down too early (CheckpointTracker.ts:1275-1286).
BorrowedIsOwed ==
  borrowed # {} => unflushed \/ \E w \in Windows : localize[w] # "none"

\* The public id of a row names one row (CheckpointTracker.ts:198-205).
IdsUnique ==
  \A i, j \in DOMAIN Rows : Rows[i] = Rows[j] => i = j
=============================================================================
