----------------------------- MODULE MCTopology -----------------------------
(* Model values and bounds for the runs of Topology.                       *)
EXTENDS Topology, TLC

SessionSymmetry == Permutations(Sessions)
=============================================================================
