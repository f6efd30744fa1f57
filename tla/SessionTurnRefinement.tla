------------------------ MODULE SessionTurnRefinement -------------------------
(***************************************************************************)
(* SessionTurn implements TurnService.  The stages of the functions of the *)
(* turns, the cancel fallback, the snapshots, the awaits of a replay and   *)
(* of a request are hidden; a suspended request and a card are "asked".    *)
(***************************************************************************)
EXTENDS SessionTurn

\* What the agent has been told of a request.
AnswerOf(st) ==
  CASE st = "none" -> "none"
    [] st \in {"suspended", "card"} -> "asked"
    [] st \in {"auto", "allowed"} -> "consented"
    [] OTHER -> "refused"

Service == INSTANCE TurnService WITH
  Requests <- Approvals,
  live <- liveTurnId,
  shown <- bracket,
  holder <- lease,
  closed <- disposed,
  halted <- stopped,
  request <- [a \in Approvals |-> [is |-> AnswerOf(approvals[a].st),
                                   turn |-> approvals[a].turn]]

\* Every behaviour of the controller is one of the service: its late
\* continuations, its fallback and its five ways to end a turn open and close
\* each turn once, move the lease only with the live turn, and consent to
\* nothing that was stopped (SessionController.ts:346-658, 1018-1233,
\* 1308-1355, 1589-1719).
ImplementsTurnService == Service!Spec
==============================================================================
