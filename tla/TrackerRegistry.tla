--------------------------- MODULE TrackerRegistry ----------------------------
(***************************************************************************)
(* The registry of checkpoint trackers of a multi-root window,             *)
(* host/checkpoints/trackerRegistry.ts: one tracker per undo domain, kept  *)
(* equal to what the open folders ask for by a serial chain of reconcile   *)
(* passes, each of which re-reads the folders when it starts.              *)
(*                                                                         *)
(* A folder is an element of Folders, Holds its containment and Canon its  *)
(* realpath, which does not fail here.  A tracker is its canonical root    *)
(* with a number that is free, so that a late answer of an old instance    *)
(* can meet its successor.  The move of a symlinked root's history         *)
(* directory (addRoot:291-322) is left out.                                *)
(***************************************************************************)
EXTENDS Naturals, FiniteSets, Sequences, SequencesExt

CONSTANTS Folders,        \* raw folder paths
          FolderLists,    \* the folder lists a workspace can have
          Holds,          \* pairs <<a, b>>: a is an ancestor of b
          Canon,          \* the realpath of each folder
          MaxInstances,   \* bound: trackers of one root alive at once
          MaxReconciles   \* bound: reconcile calls chained

ASSUME RegistryAssumption ==
  /\ MaxInstances \in Nat \ {0} /\ MaxReconciles \in Nat \ {0}
  /\ \A l \in FolderLists : l \in Seq(Folders)
  /\ Holds \subseteq Folders \X Folders
  /\ Folders \subseteq DOMAIN Canon

VARIABLES folders,    \* the open folders, in their order
          reconciles, \* reconcile() calls that wait in reconcileChain
          pass,       \* the running pass
          trackers,   \* canonical roots with their instance
          initing,    \* instances whose init() has not settled
          flushing,   \* instances in disposeAndFlush
          prevFolders,  \* the folders of the last completed pass
          promotionNotified,
          disposal,   \* disposeAll: the roots left, and the flush it awaits
          initFailed  \* history: roots whose current instance failed to init

registryVars == <<folders, reconciles, pass, trackers, initing, flushing,
                  prevFolders, promotionNotified, disposal, initFailed>>

Roots == {Canon[f] : f \in Folders}
Instances == Roots \X (1 .. MaxInstances)
NoPass == [phase |-> "idle", todo |-> {}, list |-> << >>, waits |-> {}]

RegistryTypeOK ==
  /\ folders \in FolderLists /\ reconciles \in 0 .. MaxReconciles
  /\ pass.phase \in {"idle", "adding", "removing"}
  /\ pass.todo \subseteq Roots /\ pass.list \in FolderLists \cup {<< >>}
  /\ trackers \subseteq Instances
  /\ \A t, u \in trackers : t[1] = u[1] => t = u
  /\ initing \subseteq Instances /\ flushing \subseteq Instances
  /\ pass.waits \subseteq Instances /\ disposal.waits \subseteq Instances
  /\ disposal.on \in BOOLEAN /\ disposal.todo \subseteq Roots
  /\ prevFolders \in FolderLists \cup {<< >>}
  /\ promotionNotified \subseteq Roots /\ initFailed \subseteq Roots

\* The first folder of the list that contains f.
FindContainingWorkspaceRoot(f, list) ==
  LET containing == {i \in DOMAIN list : list[i] = f \/ <<list[i], f>> \in Holds}
  IN list[CHOOSE i \in containing : \A j \in containing : i <= j]

Assigned(f, list) == Canon[FindContainingWorkspaceRoot(f, list)]
Desired(list) == {Assigned(f, list) : f \in ToSet(list)}
Tracked == {t[1] : t \in trackers}

RegistryInit ==
  /\ folders \in FolderLists
  /\ reconciles = 1 /\ pass = NoPass
  /\ trackers = {} /\ initing = {} /\ flushing = {}
  /\ prevFolders = << >> /\ promotionNotified = {}
  /\ disposal = [on |-> FALSE, todo |-> {}, waits |-> {}]
  /\ initFailed = {}

\* onDidChangeWorkspaceFolders calls reconcile().
ChangeFolders ==
  /\ ~ disposal.on /\ reconciles < MaxReconciles
  /\ folders' \in FolderLists \ {folders}
  /\ reconciles' = reconciles + 1
  /\ UNCHANGED <<pass, trackers, initing, flushing, prevFolders,
                 promotionNotified, disposal, initFailed>>

\* Folders that map to themselves now and mapped to another root before.
Promoted(now) ==
  {Canon[f] : f \in {g \in ToSet(now) \cap ToSet(prevFolders) :
                       /\ Assigned(g, prevFolders) # Canon[g]
                       /\ Assigned(g, now) = Canon[g]}}

\* A pass starts: it reads the folders of this moment.
PassStart ==
  /\ reconciles > 0 /\ pass.phase = "idle"
  /\ reconciles' = reconciles - 1
  /\ pass' = [NoPass EXCEPT !.phase = "adding", !.todo = Desired(folders), !.list = folders]
  /\ promotionNotified' = promotionNotified \cup Promoted(folders)
  /\ UNCHANGED <<folders, trackers, initing, flushing, prevFolders,
                 disposal, initFailed>>

\* addRoot: register the new tracker, then fire its init().
PassAdds ==
  /\ pass.phase = "adding"
  /\ \E root \in pass.todo \ Tracked, n \in 1 .. MaxInstances :
       /\ <<root, n>> \notin initing \cup flushing
       /\ trackers' = trackers \cup {<<root, n>>}
       /\ initing' = initing \cup {<<root, n>>}
       /\ initFailed' = initFailed \ {root}
       /\ pass' = [pass EXCEPT !.todo = @ \ {root}]
  /\ UNCHANGED <<folders, reconciles, flushing, prevFolders, promotionNotified, disposal>>

\* A desired root that is tracked when the loop meets it is left alone.
PassSkips ==
  /\ pass.phase = "adding"
  /\ \E root \in pass.todo \cap Tracked : pass' = [pass EXCEPT !.todo = @ \ {root}]
  /\ UNCHANGED <<folders, reconciles, trackers, initing, flushing,
                 prevFolders, promotionNotified, disposal, initFailed>>

\* All are added: the snapshot of the roots to remove.
PassAdded ==
  /\ pass.phase = "adding" /\ pass.todo = {}
  /\ pass' = [pass EXCEPT !.phase = "removing", !.todo = Tracked \ Desired(pass.list)]
  /\ UNCHANGED <<folders, reconciles, trackers, initing, flushing,
                 prevFolders, promotionNotified, disposal, initFailed>>

\* removeRoot up to its await: out of both maps first, then disposeAndFlush.
RemoveRoot(t) ==
  /\ trackers' = trackers \ {t}
  /\ flushing' = flushing \cup {t}
  /\ initFailed' = initFailed \ {t[1]}

PassRemoves ==
  /\ pass.phase = "removing" /\ pass.waits \cap flushing = {}
  /\ \E t \in trackers :
       /\ t[1] \in pass.todo
       /\ RemoveRoot(t)
       /\ pass' = [pass EXCEPT !.todo = @ \ {t[1]}, !.waits = {t}]
  /\ UNCHANGED <<folders, reconciles, initing, prevFolders,
                 promotionNotified, disposal>>

\* disposeAndFlush settles: flushed, at its deadline, or failed.
Flushed(t) ==
  /\ t \in flushing
  /\ flushing' = flushing \ {t}
  /\ UNCHANGED <<folders, reconciles, pass, trackers, initing,
                 prevFolders, promotionNotified, disposal, initFailed>>

PassEnd ==
  /\ pass.phase = "removing" /\ pass.todo \cap Tracked = {}
  /\ pass.waits \cap flushing = {}
  /\ prevFolders' = pass.list
  /\ pass' = NoPass
  /\ UNCHANGED <<folders, reconciles, trackers, initing, flushing,
                 promotionNotified, disposal, initFailed>>

\* init() succeeds.
InitSucceeds(t) ==
  /\ t \in initing
  /\ initing' = initing \ {t}
  /\ UNCHANGED <<folders, reconciles, pass, trackers, flushing, prevFolders,
                 promotionNotified, disposal, initFailed>>

\* Mutant: the late rejection evicts whatever is registered for the root.
InitFailsUnchecked(t) ==
  /\ t \in initing
  /\ initing' = initing \ {t}
  /\ trackers' = {u \in trackers : u[1] # t[1]}
  /\ initFailed' = IF t \in trackers THEN initFailed \cup {t[1]} ELSE initFailed
  /\ UNCHANGED <<folders, reconciles, pass, flushing, prevFolders,
                 promotionNotified, disposal>>

\* init() fails: the registration goes when it is still this instance's.
InitFails(t) ==
  /\ t \in initing
  /\ initing' = initing \ {t}
  /\ trackers' = trackers \ {t}
  /\ initFailed' = IF t \in trackers THEN initFailed \cup {t[1]} ELSE initFailed
  /\ UNCHANGED <<folders, reconciles, pass, flushing, prevFolders,
                 promotionNotified, disposal>>

\* deactivate(): disposeAll walks the roots tracked at this moment.
Deactivate ==
  /\ ~ disposal.on
  /\ disposal' = [on |-> TRUE, todo |-> Tracked, waits |-> {}]
  /\ UNCHANGED <<folders, reconciles, pass, trackers, initing, flushing,
                 prevFolders, promotionNotified, initFailed>>

DisposalRemoves ==
  /\ disposal.on /\ disposal.waits \cap flushing = {}
  /\ \E t \in trackers :
       /\ t[1] \in disposal.todo
       /\ RemoveRoot(t)
       /\ disposal' = [disposal EXCEPT !.todo = @ \ {t[1]}, !.waits = {t}]
  /\ UNCHANGED <<folders, reconciles, pass, initing, prevFolders,
                 promotionNotified>>

RegistryNext ==
  \/ ChangeFolders \/ PassStart \/ PassAdds \/ PassSkips \/ PassAdded
  \/ PassRemoves \/ PassEnd \/ Deactivate \/ DisposalRemoves
  \/ \E t \in Instances : Flushed(t) \/ InitSucceeds(t) \/ InitFails(t)

-----------------------------------------------------------------------------
\* Once no pass runs or waits, the tracked roots are the undo domains of the
\* open folders, but for those whose own current tracker failed to initialise:
\* no late rejection, eviction or removal of an older instance, and no folder
\* change in the middle of a pass, costs a folder its checkpoints or keeps a
\* tracker nobody asked for (trackerRegistry.ts:139-218, 325-338).
RegistryMatchesFolders ==
  (reconciles = 0 /\ pass.phase = "idle" /\ ~ disposal.on)
    => Tracked = Desired(folders) \ initFailed
=============================================================================
