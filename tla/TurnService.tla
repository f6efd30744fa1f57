----------------------------- MODULE TurnService -----------------------------
(***************************************************************************)
(* What a SessionController promises, without how: the webview is told of  *)
(* every turn once when it opens and once when it closes, one prompted     *)
(* turn is live at a time, the lease of the workspace root is held exactly *)
(* as long as it lives, no request of a stopped turn is consented to, and  *)
(* after the controller is closed nothing more is said or done.            *)
(***************************************************************************)
CONSTANTS Turns, NoTurn, Requests

VARIABLES live,     \* the prompted turn that is live, or NoTurn
          shown,    \* what the webview was told of each turn
          holder,   \* of the lease: "free", "session" or "other"
          closed,   \* the controller is gone
          halted,   \* the turns the user has stopped
          request   \* the permission requests of the agent

serviceVars == <<live, shown, holder, closed, halted, request>>

\* Nothing is shown yet, or the first turn of a conversation to replay.
Init ==
  /\ live = NoTurn /\ closed = FALSE /\ halted = {}
  /\ holder \in {"free", "other"}
  /\ shown \in [Turns -> {"none", "open"}]
  /\ \A j, k \in Turns : shown[j] = "open" /\ shown[k] = "open" => j = k
  /\ request = [a \in Requests |-> [is |-> "none", turn |-> NoTurn]]

\* A request is asked, and answered once; by consent only for a turn that was
\* not stopped, and never by a closed controller.
Answers ==
  \A a \in Requests :
    \/ request'[a] = request[a]
    \/ request[a].is = "none" /\ request'[a].is = "asked" /\ ~ closed
    \/ request[a].is = "asked" /\ request'[a] = [request[a] EXCEPT !.is = "refused"]
    \/ /\ request[a].is = "asked"
       /\ request'[a] = [request[a] EXCEPT !.is = "consented"]
       /\ ~ closed /\ request[a].turn \notin halted

\* A prompt is accepted: its turn opens and takes the lease.
Begin(k) ==
  /\ ~ closed /\ live = NoTurn /\ holder # "other" /\ shown[k] = "none"
  /\ live' = k /\ holder' = "session"
  /\ shown' = [shown EXCEPT ![k] = "open"]
  /\ UNCHANGED <<closed, halted>>

\* The live turn ends, for whatever reason, and gives the lease back.
End ==
  /\ ~ closed /\ live # NoTurn
  /\ live' = NoTurn /\ holder' = "free"
  /\ shown' = [shown EXCEPT ![live] = "closed"]
  /\ UNCHANGED <<closed, halted>>

\* A replayed turn, which is never live, closes, and the next one may open.
Replays ==
  /\ ~ closed
  /\ \E k \in Turns \ {live} : shown[k] = "open" /\ shown'[k] = "closed"
  /\ \A k \in Turns : \/ shown'[k] = shown[k]
                      \/ k # live /\ shown[k] = "open" /\ shown'[k] = "closed"
                      \/ shown[k] = "none" /\ shown'[k] = "open"
  /\ UNCHANGED <<live, holder, closed, halted>>

\* The user presses Stop.
Halt(k) == ~ closed /\ halted' = halted \cup {k} /\ UNCHANGED <<live, shown, holder, closed>>

\* Others use the lease when no turn of this controller holds it.
Share ==
  /\ live = NoTurn
  /\ closed \/ (holder # "session" /\ holder' # "session")
  /\ UNCHANGED <<live, shown, closed, halted>>

\* The controller closes: a live turn gives the lease back.  A close for a
\* restart also closes what is shown as running.
Close ==
  /\ ~ closed /\ closed' = TRUE
  /\ live' = NoTurn
  /\ holder' = IF live # NoTurn THEN "free" ELSE holder
  /\ \/ shown' = shown
     \/ \E k \in Turns : shown[k] = "open" /\ shown' = [shown EXCEPT ![k] = "closed"]
  /\ UNCHANGED halted

Next ==
  /\ Answers
  /\ \/ \E k \in Turns : Begin(k) \/ Halt(k)
     \/ End \/ Replays \/ Share \/ Close
     \/ UNCHANGED <<live, shown, holder, closed, halted>>

Spec == Init /\ [][Next]_serviceVars
==============================================================================
