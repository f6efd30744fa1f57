---------------------------- MODULE MCCheckpoints ----------------------------
(* Model values and bounds for the runs of Checkpoints.                     *)
EXTENDS Checkpoints

\* Windows are interchangeable, and so are paths.
CheckpointSymmetry == Permutations(Windows) \cup Permutations(Paths)
=============================================================================
