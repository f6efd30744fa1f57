----------------------------- MODULE MCLiveness ------------------------------
(***************************************************************************)
(* The liveness properties of the components that are checked one at a     *)
(* time: `checked` names the one that takes the steps of a behaviour, under *)
(* its own fairness, and the other keeps its initial state.                *)
(***************************************************************************)
EXTENDS Topology, ShadowLock

VARIABLE checked

\* Inodes are symmetric: one is watched.
MCWatched == {<<CHOOSE p \in Procs : TRUE, 1>>}

OneInit == checked \in {"topology", "lock"} /\ Init /\ LockInit

OneNext ==
  \/ checked = "topology" /\ Next /\ UNCHANGED <<checked, lockVars>>
  \/ checked = "lock" /\ LockNext /\ UNCHANGED <<checked, vars>>

\* Fairness and LockFairness.  A process that died takes no step of the lock, so
\* that its restart needs no clause of its own.
OneFairness ==
  /\ WF_vars(checked = "topology" /\ Begin) /\ WF_vars(checked = "topology" /\ Continue)
  /\ SF_vars(checked = "topology" /\ RespawnTimerFires)
  /\ WF_lockVars(checked = "lock" /\ Age)
  /\ \A p \in Procs :
       WF_lockVars(checked = "lock" /\ (AcquireStep(p) \/ ReleaseStep(p) \/ LockRestart(p)))

OneSpec == OneInit /\ [][OneNext]_<<checked, vars, lockVars>> /\ OneFairness
==============================================================================
