---------------------------- MODULE MCShadowLock -----------------------------
(* Model values for the run of ShadowLock.                                  *)
EXTENDS ShadowLock, TLC

LockSymmetry == Permutations(Procs)
=============================================================================
