---------------------------- MODULE MCSessionTurn ----------------------------
(* The instance of SessionTurn that the runs check.                        *)
EXTENDS SessionTurnRefinement
=============================================================================
