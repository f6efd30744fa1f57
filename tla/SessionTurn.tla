----------------------------- MODULE SessionTurn -----------------------------
(***************************************************************************)
(* One SessionController: the turns of a session, the Stop button and its  *)
(* fallback, the permission requests of the agent, the replay of a loaded  *)
(* conversation, and the ways a controller ends (crash, restart, dispose). *)
(*                                                                         *)
(* A turn is an asynchronous function with three awaits: the barrier (the  *)
(* before-snapshot and the mentions), the preparation (pinning the mode,   *)
(* confining attachments) and the prompt itself.  Whatever ends a turn     *)
(* early leaves that function where it is; it finds out at its next await. *)
(*                                                                         *)
(* The environment is the agent, which asks and answers when it likes, the *)
(* user, and the other holders of the turn lease of the workspace root:    *)
(* sessions of other tabs, a one-shot request, and, once this controller   *)
(* is disposed, the controller that was minted for the same session.       *)
(***************************************************************************)
EXTENDS Integers

CONSTANTS
  MaxTurn,     \* bound on the turns of a controller
  Approvals    \* the approval ids the router can mint

ASSUME SessionTurnAssumption == MaxTurn \in Nat

Turns  == 1 .. MaxTurn
NoTurn == 0

VARIABLES
  turnCounter, currentTurnId, liveTurnId, cancelledTurnId,
  translator,            \* the turn of this.turn
  cancelFallbackTimer,   \* the turn the fallback is armed for
  forceEndedTurnIds,
  currentTurnProtected,
  disposed,
  clientUp,              \* port.getClient() is defined, and its child lives
  lease,                 \* the holder of the lease of the root
  stage,                 \* where the function of each turn awaits
  snapshots,             \* the turns whose before-snapshot is under way
  loading,               \* where loadReplayOutcome awaits
  replaying,             \* this.replay is defined
  replayTurnId,          \* the id its translator is at
  approvals,             \* the permission requests
  bracket,               \* what the webview was told of each turn
  stopped,               \* history: the turns current when Stop was pressed
  captured,              \* history: the turns with a before-checkpoint
  covered                \* history: these, and the turns without a tracker that
                         \* follow one of these

checkpoints == <<captured, covered>>
ids == <<turnCounter, currentTurnId, liveTurnId, cancelledTurnId, translator>>
replay == <<loading, replaying, replayTurnId>>
vars == <<ids, cancelFallbackTimer, forceEndedTurnIds, currentTurnProtected,
          disposed, clientUp, lease, stage, snapshots, replay, approvals,
          bracket, stopped, checkpoints>>

-----------------------------------------------------------------------------
(* Types.                                                                  *)

Stages == {"none", "barrier", "prepare", "prompt", "done"}

\* A request is suspended until the policy decides, then answered or shown as
\* a card.  "auto" and "allowed" are both consent: of the policy, of the user.
ApprovalStates == {"none", "suspended", "card", "auto", "allowed", "denied",
                   "cancelled"}
Approval == [st : ApprovalStates, turn : Turns \cup {NoTurn}]

TypeOK ==
  /\ turnCounter \in 0 .. MaxTurn
  /\ currentTurnId \in Turns \cup {NoTurn}
  /\ liveTurnId \in Turns \cup {NoTurn}
  /\ cancelledTurnId \in Turns \cup {NoTurn}
  /\ translator \in Turns \cup {NoTurn}
  /\ cancelFallbackTimer \in Turns \cup {NoTurn}
  /\ forceEndedTurnIds \in SUBSET Turns
  /\ currentTurnProtected \in BOOLEAN
  /\ disposed \in BOOLEAN /\ clientUp \in BOOLEAN
  /\ lease \in {"free", "session", "other"}
  /\ stage \in [Turns -> Stages]
  /\ snapshots \in SUBSET Turns
  /\ loading \in {"none", "load", "pin"}
  /\ replaying \in BOOLEAN
  /\ replayTurnId \in Turns \cup {NoTurn}
  /\ approvals \in [Approvals -> Approval]
  /\ bracket \in [Turns -> {"none", "open", "closed", "twice"}]
  /\ stopped \in SUBSET Turns
  /\ captured \in SUBSET Turns /\ covered \in SUBSET Turns

\* A controller is minted for a new session, or to load one: then its first
\* turn is the replay's.
Init ==
  /\ replaying \in {r \in BOOLEAN : r => MaxTurn > 0}
  /\ turnCounter = IF replaying THEN 1 ELSE 0
  /\ currentTurnId = turnCounter /\ replayTurnId = turnCounter
  /\ loading = IF replaying THEN "load" ELSE "none"
  /\ liveTurnId = NoTurn /\ cancelledTurnId = NoTurn /\ translator = NoTurn
  /\ cancelFallbackTimer = NoTurn /\ forceEndedTurnIds = {}
  /\ currentTurnProtected = FALSE
  /\ disposed = FALSE /\ clientUp = TRUE
  /\ lease \in {"free", "other"}
  /\ stage = [k \in Turns |-> "none"]
  /\ snapshots = {}
  /\ approvals = [a \in Approvals |-> [st |-> "none", turn |-> NoTurn]]
  /\ bracket = [k \in Turns |-> IF replaying /\ k = 1 THEN "open" ELSE "none"]
  /\ stopped = {} /\ captured = {} /\ covered = {}

-----------------------------------------------------------------------------
(* Helpers.                                                                *)

\* turn.start and turn.end, as the webview receives them.
TurnStart(b, k) == [b EXCEPT ![k] = "open"]
TurnEnd(b, k) == [b EXCEPT ![k] = IF @ = "open" THEN "closed" ELSE "twice"]

\* releaseTurnLease is checked against the session id, not the controller.
releaseTurnLease == lease' = IF lease = "session" THEN "free" ELSE lease

\* Mutant: the cards are dropped, and the agent is not answered.
settleDropsCards ==
  approvals' = [a \in Approvals |->
                  IF approvals[a].st = "card"
                  THEN [approvals[a] EXCEPT !.st = "none"]
                  ELSE approvals[a]]

\* Every card is answered "cancelled".  A request that is still suspended is
\* not registered yet, and is left alone.
settlePendingApprovals ==
  approvals' = [a \in Approvals |->
                  IF approvals[a].st = "card"
                  THEN [approvals[a] EXCEPT !.st = "cancelled"]
                  ELSE approvals[a]]

\* Mutant: the lease is released by the happy path only.
emitTurnEndKeepsLease(k) ==
  /\ cancelFallbackTimer' = NoTurn
  /\ settlePendingApprovals
  /\ liveTurnId' = IF liveTurnId = k THEN NoTurn ELSE liveTurnId
  /\ UNCHANGED lease
  /\ bracket' = TurnEnd(bracket, k)

emitTurnEnd(k) ==
  /\ cancelFallbackTimer' = NoTurn
  /\ settlePendingApprovals
  /\ IF liveTurnId = k
     THEN liveTurnId' = NoTurn /\ releaseTurnLease
     ELSE UNCHANGED <<liveTurnId, lease>>
  /\ bracket' = TurnEnd(bracket, k)

\* What emitTurnEnd may change.
ending == <<cancelFallbackTimer, approvals, liveTurnId, lease, bracket>>

\* The function of turn k returns; the turn ends unless it is not current.
Return(k) ==
  /\ stage' = [stage EXCEPT ![k] = "done"]
  /\ IF currentTurnId = k THEN emitTurnEnd(k) ELSE UNCHANGED ending

-----------------------------------------------------------------------------
(* A turn.                                                                 *)

\* Mutant: a prompt is admitted while a turn is live.
AdmittedDuringTurn == ~disposed /\ clientUp /\ lease \in {"free", "session"}

\* sendPrompt refuses without a client, during a live turn, and while another
\* session or a one-shot holds the lease.
Admitted == ~disposed /\ clientUp /\ liveTurnId = NoTurn
            /\ lease \in {"free", "session"}

\* The turn before the next one is covered.
LastTurnCovered == \E j \in covered : \A i \in Turns : i > j => stage[i] = "none"

\* snapshotCheckpoint asks the tracker of the root for the before-snapshot, if
\* there is one: a folder may have been removed, the repository of its tracker may
\* have failed to come up, or a folder that contains it is the tracked one now.
\* Without a tracker it returns, and the flag stays what it was.
snapshotCheckpoint(k) ==
  /\ \/ snapshots' = snapshots \cup {k} /\ UNCHANGED covered
     \/ /\ covered' = IF LastTurnCovered THEN covered \cup {k} ELSE covered
        /\ UNCHANGED snapshots
  /\ UNCHANGED currentTurnProtected

sendPrompt ==
  /\ Admitted /\ turnCounter < MaxTurn
  /\ LET k == turnCounter + 1
     IN  /\ turnCounter' = k /\ currentTurnId' = k /\ liveTurnId' = k
         /\ translator' = k
         /\ stage' = [stage EXCEPT ![k] = "barrier"]
         /\ snapshotCheckpoint(k)
         /\ bracket' = TurnStart(bracket, k)
  /\ lease' = "session"
  /\ UNCHANGED <<cancelledTurnId, cancelFallbackTimer, forceEndedTurnIds,
                 disposed, clientUp, replay, approvals, stopped, captured>>

\* Mutant: a failed snapshot leaves the flag of the turn before.
SnapshotSettlesKeepsFlag(k, ok) ==
  /\ k \in snapshots
  /\ snapshots' = snapshots \ {k}
  /\ currentTurnProtected' = (ok \/ currentTurnProtected)
  /\ captured' = IF ok THEN captured \cup {k} ELSE captured
  /\ covered' = IF ok THEN covered \cup {k} ELSE covered
  /\ UNCHANGED <<ids, cancelFallbackTimer, forceEndedTurnIds, disposed, clientUp,
                 lease, stage, replay, approvals, bracket, stopped>>

\* The tracker answers: a failure or its deadline leaves the turn unprotected.
\* Nothing looks at the turn again.  One tracker answers in the order it was asked;
\* one that was removed and its successor need not.
SnapshotSettles(k, ok) ==
  /\ k \in snapshots
  /\ snapshots' = snapshots \ {k}
  /\ currentTurnProtected' = ok
  /\ captured' = IF ok THEN captured \cup {k} ELSE captured
  /\ covered' = IF ok THEN covered \cup {k} ELSE covered
  /\ UNCHANGED <<ids, cancelFallbackTimer, forceEndedTurnIds, disposed, clientUp,
                 lease, stage, replay, approvals, bracket, stopped>>

\* The snapshot has settled and the mentions are resolved.
BarrierPasses(k) ==
  /\ stage[k] = "barrier" /\ k \notin snapshots
  /\ IF currentTurnId = k /\ cancelledTurnId # k
     THEN /\ stage' = [stage EXCEPT ![k] = "prepare"]
          /\ UNCHANGED ending
     ELSE Return(k)
  /\ UNCHANGED <<turnCounter, currentTurnId, cancelledTurnId, translator,
                 forceEndedTurnIds, currentTurnProtected, disposed, clientUp,
                 snapshots, replay, stopped, checkpoints>>

\* runTurn sends the prompt without looking at the turn again.
PromptSent(k) ==
  /\ stage[k] = "prepare" /\ clientUp
  /\ stage' = [stage EXCEPT ![k] = "prompt"]
  /\ UNCHANGED <<ids, cancelFallbackTimer, forceEndedTurnIds, disposed, clientUp,
                 currentTurnProtected, lease, snapshots, replay, approvals,
                 bracket, stopped, checkpoints>>

\* Mutant: the rejection of the barrier is not caught.
TurnFailsSilently(k) ==
  /\ \/ stage[k] = "barrier" /\ k \notin snapshots
     \/ stage[k] = "prepare"
  /\ stage' = [stage EXCEPT ![k] = "done"]
  /\ UNCHANGED ending
  /\ UNCHANGED <<turnCounter, currentTurnId, cancelledTurnId, translator,
                 forceEndedTurnIds, currentTurnProtected, disposed, clientUp,
                 snapshots, replay, stopped, checkpoints>>

\* The catch clauses: the barrier rejects once its snapshot has settled, the
\* mode cannot be pinned, or the child is gone.
TurnFails(k) ==
  /\ \/ stage[k] = "barrier" /\ k \notin snapshots
     \/ stage[k] = "prepare"
  /\ Return(k)
  /\ UNCHANGED <<turnCounter, currentTurnId, cancelledTurnId, translator,
                 forceEndedTurnIds, currentTurnProtected, disposed, clientUp,
                 snapshots, replay, stopped, checkpoints>>

\* The prompt is answered, with whatever reason it stopped for, or rejected.
PromptSettles(k) ==
  /\ stage[k] = "prompt"
  /\ Return(k)
  /\ UNCHANGED <<turnCounter, currentTurnId, cancelledTurnId, translator,
                 forceEndedTurnIds, currentTurnProtected, disposed, clientUp,
                 snapshots, replay, stopped, checkpoints>>

-----------------------------------------------------------------------------
(* Stop.                                                                   *)

\* Mutant: Stop waits for the agent however long it takes.
armCancelFallbackNever == UNCHANGED cancelFallbackTimer

\* One timer per window, for a live turn only.
armCancelFallback ==
  cancelFallbackTimer' = IF clientUp /\ cancelFallbackTimer = NoTurn
                         THEN liveTurnId ELSE cancelFallbackTimer

cancel ==
  /\ ~disposed
  /\ cancelledTurnId' = currentTurnId
  /\ stopped' = stopped \cup ({currentTurnId} \ {NoTurn})
  /\ settlePendingApprovals
  /\ armCancelFallback
  /\ UNCHANGED <<turnCounter, currentTurnId, liveTurnId, translator,
                 forceEndedTurnIds, currentTurnProtected, disposed, clientUp,
                 lease, stage, snapshots, replay, bracket, checkpoints>>

\* Mutant: the belated answer of the agent still finds its turn current.
forceEndKeepsCurrent(k) ==
  /\ emitTurnEnd(k)
  /\ forceEndedTurnIds' = forceEndedTurnIds \cup {k}
  /\ UNCHANGED <<currentTurnId, translator>>

forceEnd(k) ==
  /\ emitTurnEnd(k)
  /\ forceEndedTurnIds' = forceEndedTurnIds \cup {k}
  /\ currentTurnId' = NoTurn /\ translator' = NoTurn

\* forceEndCancelledTurn, unless the turn ended meanwhile.
FallbackFires ==
  /\ cancelFallbackTimer # NoTurn
  /\ LET k == cancelFallbackTimer
     IN  IF ~disposed /\ currentTurnId = k /\ liveTurnId = k
         THEN forceEnd(k)
         ELSE /\ cancelFallbackTimer' = NoTurn
              /\ UNCHANGED <<approvals, liveTurnId, lease, bracket, currentTurnId,
                             translator, forceEndedTurnIds>>
  /\ UNCHANGED <<turnCounter, cancelledTurnId, currentTurnProtected, disposed,
                 clientUp, stage, snapshots, replay, stopped, checkpoints>>

-----------------------------------------------------------------------------
(* Permission requests.                                                    *)

\* Stands for the approvals alone changing.
OnlyApprovals ==
  UNCHANGED <<ids, cancelFallbackTimer, forceEndedTurnIds, currentTurnProtected,
              disposed, clientUp, lease, stage, snapshots, replay, bracket,
              stopped, checkpoints>>

Answer(a, st) == approvals' = [approvals EXCEPT ![a].st = st]

\* The agent asks while it works on a prompt.  handlePermission notes the
\* turn, then awaits the canonical paths of the edit.
RequestPermission(a) ==
  /\ ~disposed /\ clientUp
  /\ \E k \in Turns : stage[k] = "prompt"
  /\ approvals[a].st = "none"
  /\ approvals' = [approvals EXCEPT ![a] = [st |-> "suspended",
                                            turn |-> currentTurnId]]
  /\ OnlyApprovals

\* Mutant: a Stop that comes during the await is not seen.
StaleUnlessGone(birth) == currentTurnId = NoTurn \/ birth # currentTurnId

isStaleApprovalRegistration(birth) ==
  \/ currentTurnId = NoTurn
  \/ cancelledTurnId = currentTurnId
  \/ birth # currentTurnId

\* Once the paths are known: refuse what is stale, else follow the policy.  Its
\* only auto-allow needs a protected turn.  A card that cannot be posted, and a
\* denial the agent offers no option for, are answered "cancelled".
PolicyDecides(a) ==
  /\ approvals[a].st = "suspended"
  /\ IF disposed \/ isStaleApprovalRegistration(approvals[a].turn)
     THEN Answer(a, "cancelled")
     ELSE \/ Answer(a, "card")
          \/ Answer(a, "denied") \/ Answer(a, "cancelled")
          \/ currentTurnProtected /\ Answer(a, "auto")
  /\ OnlyApprovals

\* Mutant: the option the webview names is not checked.
respondApprovalUnchecked(a) ==
  /\ approvals[a].st = "card"
  /\ Answer(a, "unknown option")
  /\ OnlyApprovals

\* respondApproval, and resolveDiff when it decides the last hunk.
respondApproval(a) ==
  /\ approvals[a].st = "card"
  /\ Answer(a, "allowed") \/ Answer(a, "denied")
  /\ OnlyApprovals

\* The deadline of a card.
Expire(a) ==
  /\ approvals[a].st = "card"
  /\ Answer(a, "cancelled")
  /\ OnlyApprovals

-----------------------------------------------------------------------------
(* Replay of a loaded conversation.                                        *)

\* The history moves on to its next turn.
ReplayNextTurn ==
  /\ replaying /\ clientUp /\ turnCounter < MaxTurn
  /\ turnCounter' = turnCounter + 1
  /\ replayTurnId' = turnCounter + 1
  /\ bracket' = TurnStart(TurnEnd(bracket, replayTurnId), turnCounter + 1)
  /\ UNCHANGED <<currentTurnId, liveTurnId, cancelledTurnId, translator,
                 cancelFallbackTimer, forceEndedTurnIds, currentTurnProtected,
                 disposed, clientUp, lease, stage, snapshots, loading, replaying,
                 approvals, stopped, checkpoints>>

OnlyReplay ==
  UNCHANGED <<ids, cancelFallbackTimer, forceEndedTurnIds, currentTurnProtected,
              disposed, clientUp, lease, stage, snapshots, replayTurnId,
              approvals, stopped, checkpoints>>

\* session/load failed, or found nothing; superseded, it is dropped.
LoadFails ==
  /\ loading = "load"
  /\ loading' = "none" /\ replaying' = FALSE
  /\ bracket' = IF replaying THEN TurnEnd(bracket, replayTurnId) ELSE bracket
  /\ OnlyReplay

\* Loaded: the mode is pinned before the last turn is closed.
LoadOk ==
  /\ loading = "load" /\ clientUp
  /\ loading' = IF replaying THEN "pin" ELSE "none"
  /\ replaying' = FALSE
  /\ UNCHANGED bracket
  /\ OnlyReplay

\* Mutant: the dispose that came during the pin is not seen.
PinSettlesUnchecked ==
  /\ loading = "pin"
  /\ loading' = "none"
  /\ bracket' = TurnEnd(bracket, replayTurnId)
  /\ UNCHANGED replaying
  /\ OnlyReplay

PinSettles ==
  /\ loading = "pin"
  /\ loading' = "none"
  /\ bracket' = IF disposed THEN bracket ELSE TurnEnd(bracket, replayTurnId)
  /\ UNCHANGED replaying
  /\ OnlyReplay

-----------------------------------------------------------------------------
(* The ends of a controller.                                               *)

\* endTurnBracket: the live turn or, without one, the replay is closed.
closeBracket ==
  IF liveTurnId # NoTurn THEN TurnEnd(bracket, liveTurnId)
  ELSE IF replaying THEN TurnEnd(bracket, replayTurnId)
  ELSE bracket

\* endOnCrash, on a registered controller.
endOnCrash ==
  /\ clientUp /\ ~disposed
  /\ clientUp' = FALSE
  /\ cancelFallbackTimer' = NoTurn
  /\ settlePendingApprovals
  /\ bracket' = closeBracket
  /\ liveTurnId' = NoTurn
  /\ IF liveTurnId # NoTurn
     THEN releaseTurnLease /\ UNCHANGED replaying
     ELSE replaying' = FALSE /\ UNCHANGED lease
  /\ currentTurnId' = IF liveTurnId # NoTurn \/ replaying
                      THEN NoTurn ELSE currentTurnId
  /\ UNCHANGED <<turnCounter, cancelledTurnId, translator, forceEndedTurnIds,
                 currentTurnProtected, disposed, stage, snapshots, loading,
                 replayTurnId, stopped, checkpoints>>

\* The child of a disposed controller dies.
CrashAfterDispose ==
  /\ clientUp /\ disposed
  /\ clientUp' = FALSE
  /\ UNCHANGED <<ids, cancelFallbackTimer, forceEndedTurnIds, disposed, lease,
                 currentTurnProtected, stage, snapshots, replay, approvals,
                 bracket, stopped, checkpoints>>

\* A close, a New Session or a load disposes the controller and tells the tab
\* by other means; a restart closes its bracket first (endForRestart).
dispose(restart) ==
  /\ ~disposed
  /\ disposed' = TRUE
  /\ cancelFallbackTimer' = NoTurn
  /\ IF liveTurnId # NoTurn THEN releaseTurnLease ELSE UNCHANGED lease
  /\ bracket' = IF restart THEN closeBracket ELSE bracket
  /\ liveTurnId' = NoTurn /\ currentTurnId' = NoTurn /\ translator' = NoTurn
  /\ replaying' = FALSE
  /\ settlePendingApprovals
  /\ clientUp' \in {FALSE, clientUp}
  /\ UNCHANGED <<turnCounter, cancelledTurnId, forceEndedTurnIds, loading,
                 currentTurnProtected, stage, snapshots, replayTurnId, stopped,
                 checkpoints>>

-----------------------------------------------------------------------------
(* The other users of the lease.                                           *)

OnlyLease ==
  UNCHANGED <<ids, cancelFallbackTimer, forceEndedTurnIds, currentTurnProtected,
              disposed, clientUp, stage, snapshots, replay, approvals, bracket,
              stopped, checkpoints>>

\* Another session or a one-shot takes the lease; so does the successor of a
\* disposed controller, under the same session id.
LeaseTaken ==
  /\ lease = "free"
  /\ lease' \in IF disposed THEN {"other", "session"} ELSE {"other"}
  /\ OnlyLease

LeaseReturned ==
  /\ lease = "other" \/ (disposed /\ lease = "session")
  /\ lease' = "free"
  /\ OnlyLease

-----------------------------------------------------------------------------
(* Next-state relation and specification.                                  *)

TurnStep == \E k \in Turns :
  \/ \E ok \in BOOLEAN : SnapshotSettles(k, ok)
  \/ BarrierPasses(k) \/ TurnFails(k)
  \/ PromptSent(k) \/ PromptSettles(k)

ApprovalStep == \E a \in Approvals :
  RequestPermission(a) \/ PolicyDecides(a) \/ respondApproval(a) \/ Expire(a)

ReplayStep == ReplayNextTurn \/ LoadFails \/ LoadOk \/ PinSettles

EndStep == endOnCrash \/ CrashAfterDispose
           \/ \E restart \in BOOLEAN : dispose(restart)

LeaseStep == LeaseTaken \/ LeaseReturned

Next == sendPrompt \/ TurnStep \/ cancel \/ FallbackFires \/ ApprovalStep
        \/ ReplayStep \/ EndStep \/ LeaseStep

Spec == Init /\ [][Next]_vars

\* The timers elapse, and the canonical paths of a request are found: local
\* calls of the file system.  Nothing is assumed of the agent or the user.
Fairness ==
  /\ WF_vars(FallbackFires)
  /\ \A a \in Approvals : WF_vars(PolicyDecides(a)) /\ WF_vars(Expire(a))

FairSpec == Spec /\ Fairness

-----------------------------------------------------------------------------
(* Safety.                                                                 *)

\* The lease is held exactly while a turn is live: a turn that ends by any of
\* its ways gives it back, and none of its late continuations takes it away.
LeaseIffLive == ~disposed => (lease = "session" <=> liveTurnId # NoTurn)

\* A live turn has a function that is still running and will end it, and the
\* webview shows it as running.
LiveTurnRuns ==
  liveTurnId # NoTurn =>
    /\ stage[liveTurnId] \in {"barrier", "prepare", "prompt"}
    /\ currentTurnId = liveTurnId /\ translator = liveTurnId
    /\ bracket[liveTurnId] = "open"

\* The webview is told of the end of a turn once, and no turn stays open with
\* nothing left that would close it.
BracketsClose ==
  \A k \in Turns :
    /\ bracket[k] # "twice"
    /\ bracket[k] = "open" /\ ~disposed
       => k = liveTurnId \/ (loading # "none" /\ k = replayTurnId)

\* Stop leaves no card behind, and neither does the end of a controller: a card
\* of a stopped turn could still consent to an edit.
NoZombieCard ==
  \A a \in Approvals :
    approvals[a].st = "card" => ~disposed /\ approvals[a].turn \notin stopped

\* Nothing is allowed by the policy, whatever the state its check was made in,
\* once the turn was stopped or the controller disposed.
NoAllowAfterStop ==
  [][\A a \in Approvals :
       approvals[a].st # "auto" /\ approvals'[a].st = "auto"
         => approvals[a].turn \notin stopped /\ ~disposed]_vars

\* The agent works on the live turn only, and what it streams folds into it,
\* except for the turns that were force-ended against its will.
PromptIsLive ==
  \A k \in Turns :
    stage[k] = "prompt" /\ clientUp /\ ~disposed /\ k \notin forceEndedTurnIds
      => liveTurnId = k /\ translator = k

\* An edit that the policy allows can be undone.  Its turn has a checkpoint; or it
\* has no tracker, took no snapshot and left the flag as it was, and then the last
\* turn that had a tracker has one.  Never after a snapshot that failed.  The turns
\* after a force-end are excepted; AutoAllowIsCaptured is what the code promises.
AutoAllowIsProtected ==
  \A a \in Approvals :
    approvals[a].st = "auto" =>
      \/ approvals[a].turn \in covered
      \/ \E k \in forceEndedTurnIds : k < approvals[a].turn

\* A disposed controller is silent, and leaves the lease to its successor.
DisposedIsSilent ==
  [][disposed => bracket' = bracket /\ (lease' # lease => LeaseStep)]_vars

-----------------------------------------------------------------------------
(* Liveness, under FairSpec.                                               *)

\* Stop ends the turn even if the agent never answers.
StopEndsTurn ==
  \A k \in Turns : k \in stopped /\ liveTurnId = k ~> liveTurnId # k

\* Every permission request is answered, whatever becomes of its turn.
RequestsAreAnswered ==
  \A a \in Approvals :
    approvals[a].st \in {"suspended", "card"}
      ~> approvals[a].st \notin {"none", "suspended", "card"}

-----------------------------------------------------------------------------
(* What the code's documentation says and the code does not do.            *)

\* turnProtected: "the current turn has a before-checkpoint".
AutoAllowIsCaptured ==
  \A a \in Approvals :
    approvals[a].st = "auto" => approvals[a].turn \in captured
=============================================================================
