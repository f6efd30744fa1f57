------------------------- MODULE SessionTurn_proofs -------------------------
(***************************************************************************)
(* Proofs about SessionTurn, for any number of turns and approvals.        *)
(*                                                                         *)
(* IInv == Shape /\ Control /\ Brackets /\ Consent is inductive.  Shape    *)
(* says that nothing mentions a turn that has not begun, Control relates   *)
(* the ids of the controller to the functions that run, Brackets is what   *)
(* the webview was told, and Consent is about approvals and checkpoints.   *)
(***************************************************************************)
EXTENDS SessionTurnRefinement, TLAPS

Running == {"barrier", "prepare", "prompt"}

-----------------------------------------------------------------------------
(* The inductive invariant.                                                *)

\* A turn id that was not minted yet is not mentioned anywhere.
Fresh ==
  /\ currentTurnId <= turnCounter /\ liveTurnId <= turnCounter
  /\ replayTurnId <= turnCounter
  /\ \A a \in Approvals : approvals[a].turn <= turnCounter
  /\ \A k \in Turns : k > turnCounter =>
       /\ stage[k] = "none" /\ bracket[k] = "none"
       /\ k \notin snapshots /\ k \notin stopped
       /\ k \notin forceEndedTurnIds /\ k \notin captured /\ k \notin covered

Shape == TypeOK /\ Fresh

\* Of the functions that run, the controller knows the live one; the others
\* were force-ended, or lost their child or their controller.
RunningIsLive ==
  \A k \in Turns : stage[k] \in Running =>
    /\ currentTurnId = k => liveTurnId = k
    /\ clientUp /\ ~disposed /\ k \notin forceEndedTurnIds => liveTurnId = k

CurrentIsLatest ==
  currentTurnId # NoTurn =>
    /\ \A k \in Turns : k > currentTurnId => stage[k] = "none"
    /\ currentTurnId \notin forceEndedTurnIds

NoTurnAfterEnd ==
  /\ disposed => liveTurnId = NoTurn /\ currentTurnId = NoTurn /\ ~replaying
  /\ ~clientUp => liveTurnId = NoTurn

Control ==
  LiveTurnRuns /\ RunningIsLive /\ CurrentIsLatest /\ NoTurnAfterEnd /\ LeaseIffLive

\* A replay that will be closed is open, and is not the turn of a prompt; one
\* that was cut short is closed already.
ReplayIsOpen ==
  /\ replaying => loading = "load"
  /\ replaying \/ (loading = "pin" /\ ~disposed)
     => /\ replayTurnId \in Turns
        /\ bracket[replayTurnId] = "open" /\ stage[replayTurnId] = "none"
  /\ loading = "load" /\ ~replaying /\ ~disposed
     => replayTurnId \in Turns /\ bracket[replayTurnId] # "open"

Brackets == BracketsClose /\ ReplayIsOpen

CurrentStopped ==
  currentTurnId \in stopped => cancelledTurnId = currentTurnId

\* A snapshot holds up its turn at the barrier; a later turn can begin meanwhile
\* only because the turn was force-ended.
SnapshotOrder ==
  /\ \A k \in snapshots : stage[k] = "barrier"
  /\ \A j \in snapshots : \A k \in Turns :
       j < k /\ stage[k] # "none" => j \in forceEndedTurnIds

\* What is said of the end or of the checkpoint of a turn is said of a prompt.
SaidOfPrompts ==
  \A k \in Turns : k \in forceEndedTurnIds \cup covered => stage[k] # "none"

\* Without a force-end, the flag is about the last prompt whose snapshot does not
\* pend, whether that prompt has a tracker or took the flag over.
FlagIsFounded ==
  currentTurnProtected /\ forceEndedTurnIds = {} =>
    \E j \in covered : \A i \in Turns : i > j => stage[i] = "none" \/ i \in snapshots

\* Without a force-end the agent asks only after the snapshot has settled.
SuspendedAfterSnapshot ==
  \A a \in Approvals :
    approvals[a].st = "suspended" /\ approvals[a].turn = currentTurnId
    /\ currentTurnId # NoTurn =>
      \/ stage[currentTurnId] # "none" /\ currentTurnId \notin snapshots
      \/ \E k \in forceEndedTurnIds : k < currentTurnId

Consent ==
  /\ NoZombieCard /\ CurrentStopped /\ SnapshotOrder /\ SaidOfPrompts
  /\ FlagIsFounded /\ SuspendedAfterSnapshot /\ AutoAllowIsProtected

IInv == Shape /\ Control /\ Brackets /\ Consent

-----------------------------------------------------------------------------
(* What the operators of a turn do.                                        *)

\* A turn is a positive number.
LEMMA TurnsAreNumbers == NoTurn = 0 /\ \A k \in Turns : k \in Int /\ k > 0
BY SessionTurnAssumption DEF Turns, NoTurn

\* The end of a turn reaches the webview for that turn only.
LEMMA TurnEndAt ==
  ASSUME TypeOK, NEW k \in Turns \cup {NoTurn}
  PROVE  /\ TurnEnd(bracket, k)
              \in [Turns -> {"none", "open", "closed", "twice"}]
         /\ k \in Turns =>
              TurnEnd(bracket, k)[k]
              = IF bracket[k] = "open" THEN "closed" ELSE "twice"
         /\ \A j \in Turns : j # k => TurnEnd(bracket, k)[j] = bracket[j]
BY DEF TypeOK, TurnEnd

\* Settling answers the cards, and leaves every other request alone.
LEMMA Settled ==
  ASSUME TypeOK, settlePendingApprovals
  PROVE  /\ approvals' \in [Approvals -> Approval]
         /\ \A a \in Approvals :
              /\ approvals'[a].turn = approvals[a].turn
              /\ approvals[a].st # "card" => approvals'[a].st = approvals[a].st
              /\ approvals[a].st = "card" => approvals'[a].st = "cancelled"
BY DEF TypeOK, settlePendingApprovals, Approval, ApprovalStates

\* The two ways a step of a turn's function ends: it goes on, or returns.
TurnMoves(k) ==
  /\ stage[k] = "barrier" /\ k \notin snapshots
  /\ stage' = [stage EXCEPT ![k] = "prepare"]
  /\ UNCHANGED <<ids, cancelFallbackTimer, forceEndedTurnIds, disposed, clientUp,
                 currentTurnProtected, lease, snapshots, replay, approvals,
                 bracket, stopped, checkpoints>>

TurnReturns(k) ==
  /\ stage[k] \in Running /\ k \notin snapshots
  /\ Return(k)
  /\ UNCHANGED <<turnCounter, currentTurnId, cancelledTurnId, translator,
                 forceEndedTurnIds, currentTurnProtected, disposed, clientUp,
                 snapshots, replay, stopped, checkpoints>>

\* Every step past an await is one of the two.
LEMMA TurnEither ==
  ASSUME SnapshotOrder, NEW k \in Turns,
         BarrierPasses(k) \/ TurnFails(k) \/ PromptSettles(k)
  PROVE  TurnMoves(k) \/ TurnReturns(k)
<1>1. CASE BarrierPasses(k)
  <2>1. CASE currentTurnId = k /\ cancelledTurnId # k
    BY <1>1, <2>1 DEF BarrierPasses, TurnMoves, ending, ids, replay
  <2>2. CASE ~(currentTurnId = k /\ cancelledTurnId # k)
    BY <1>1, <2>2 DEF BarrierPasses, TurnReturns, Running
  <2>3. QED BY <2>1, <2>2
<1>2. CASE TurnFails(k)
  BY <1>2 DEF TurnFails, TurnReturns, Running, SnapshotOrder
<1>3. CASE PromptSettles(k)
  BY <1>3 DEF PromptSettles, TurnReturns, Running, SnapshotOrder
<1>4. QED BY <1>1, <1>2, <1>3

\* A return changes nothing but its stage, unless its turn is the live one.
LEMMA ReturnEither ==
  ASSUME TypeOK, RunningIsLive, NEW k \in Turns, TurnReturns(k)
  PROVE  /\ stage' = [stage EXCEPT ![k] = "done"]
         /\ \/ currentTurnId # k /\ UNCHANGED ending
            \/ /\ currentTurnId = k /\ liveTurnId = k
               /\ liveTurnId' = NoTurn /\ releaseTurnLease
               /\ bracket' = TurnEnd(bracket, k)
               /\ cancelFallbackTimer' = NoTurn
               /\ settlePendingApprovals
BY DEF TurnReturns, Return, emitTurnEnd, RunningIsLive

\* So does the fallback, for the turn it was armed for.
LEMMA FallbackEither ==
  ASSUME TypeOK, FallbackFires
  PROVE  \/ UNCHANGED <<ids, approvals, lease, bracket, forceEndedTurnIds>>
         \/ /\ liveTurnId # NoTurn /\ currentTurnId = liveTurnId
            /\ liveTurnId' = NoTurn /\ currentTurnId' = NoTurn
            /\ translator' = NoTurn /\ releaseTurnLease
            /\ forceEndedTurnIds' = forceEndedTurnIds \cup {liveTurnId}
            /\ bracket' = TurnEnd(bracket, liveTurnId)
            /\ settlePendingApprovals
            /\ UNCHANGED <<turnCounter, cancelledTurnId>>
BY DEF FallbackFires, forceEnd, emitTurnEnd, ids

-----------------------------------------------------------------------------
(* The invariant is inductive.                                             *)

\* Every step keeps the types.
LEMMA TypeStep == IInv /\ [Next]_vars => TypeOK'
<1> SUFFICES ASSUME IInv PROVE [Next]_vars => TypeOK'
  OBVIOUS
<1>a. TypeOK
  BY DEF IInv, Shape
<1> USE <1>a
<1> USE DEF TypeOK, ids, replay, checkpoints
<1>1. ASSUME sendPrompt PROVE TypeOK'
  <2>1. turnCounter + 1 \in Turns
    BY <1>1, SessionTurnAssumption DEF sendPrompt, Turns
  <2>2. snapshots' \in SUBSET Turns /\ covered' \in SUBSET Turns /\ currentTurnProtected' \in BOOLEAN
    BY <1>1, <2>1 DEF sendPrompt, snapshotCheckpoint
  <2> QED
    BY <1>1, <2>1, <2>2, SessionTurnAssumption DEF sendPrompt, Admitted, TurnStart, Turns,
       NoTurn, Stages
<1>2. ASSUME NEW k \in Turns, NEW ok \in BOOLEAN, SnapshotSettles(k, ok) PROVE TypeOK'
  BY <1>2 DEF SnapshotSettles
<1>3. ASSUME NEW k \in Turns, TurnMoves(k) PROVE TypeOK'
  BY <1>3 DEF TurnMoves, Stages
<1>4. ASSUME NEW k \in Turns, TurnReturns(k) PROVE TypeOK'
  <2>1. bracket' \in [Turns -> {"none", "open", "closed", "twice"}]
    BY <1>4, ReturnEither, TurnEndAt DEF IInv, Control, ending, TypeOK
  <2>2. approvals' \in [Approvals -> Approval]
    BY <1>4, ReturnEither, Settled DEF IInv, Control, ending, TypeOK
  <2>3. QED
    BY <1>4, <2>1, <2>2, ReturnEither
    DEF IInv, Control, TurnReturns, TypeOK, ids, replay, ending, NoTurn, Stages,
        releaseTurnLease
<1>5. ASSUME NEW k \in Turns, PromptSent(k) PROVE TypeOK'
  BY <1>5 DEF PromptSent, Stages
<1>6. ASSUME cancel PROVE TypeOK'
  BY <1>6 DEF cancel, settlePendingApprovals, armCancelFallback, Approval,
     ApprovalStates, NoTurn
<1>7. ASSUME FallbackFires PROVE TypeOK'
  <2>1. bracket' \in [Turns -> {"none", "open", "closed", "twice"}]
    BY <1>7, FallbackEither, TurnEndAt DEF TypeOK, NoTurn
  <2>2. approvals' \in [Approvals -> Approval]
    BY <1>7, FallbackEither, Settled DEF TypeOK
  <2>3. cancelFallbackTimer' = NoTurn
    BY <1>7 DEF FallbackFires, forceEnd, emitTurnEnd
  <2>4. QED
    BY <1>7, <2>1, <2>2, <2>3, FallbackEither
    DEF FallbackFires, TypeOK, ids, replay, NoTurn, releaseTurnLease
<1>8. ASSUME NEW a \in Approvals, RequestPermission(a) PROVE TypeOK'
  BY <1>8 DEF RequestPermission, OnlyApprovals, Approval, ApprovalStates,
     NoTurn
<1>9. ASSUME NEW a \in Approvals, PolicyDecides(a) PROVE TypeOK'
  BY <1>9 DEF PolicyDecides, isStaleApprovalRegistration, Answer,
     OnlyApprovals, Approval, ApprovalStates, NoTurn
<1>10. ASSUME NEW a \in Approvals, respondApproval(a) PROVE TypeOK'
  BY <1>10 DEF respondApproval, Answer, OnlyApprovals, Approval,
     ApprovalStates, NoTurn
<1>11. ASSUME NEW a \in Approvals, Expire(a) PROVE TypeOK'
  BY <1>11 DEF Expire, Answer, OnlyApprovals, Approval, ApprovalStates, NoTurn
<1>12. ASSUME ReplayNextTurn PROVE TypeOK'
  BY <1>12, SessionTurnAssumption DEF ReplayNextTurn, TurnStart, TurnEnd,
     Turns, NoTurn
<1>13. ASSUME LoadFails PROVE TypeOK'
  <2>1. bracket' \in [Turns -> {"none", "open", "closed", "twice"}]
    BY <1>13, TurnEndAt DEF LoadFails, TypeOK
  <2>2. QED
    BY <1>13, <2>1 DEF LoadFails, OnlyReplay, TypeOK, ids
<1>14. ASSUME LoadOk PROVE TypeOK'
  BY <1>14 DEF LoadOk, OnlyReplay
<1>15. ASSUME PinSettles PROVE TypeOK'
  <2>1. bracket' \in [Turns -> {"none", "open", "closed", "twice"}]
    BY <1>15, TurnEndAt DEF PinSettles, TypeOK
  <2>2. QED
    BY <1>15, <2>1 DEF PinSettles, OnlyReplay, TypeOK, ids
<1>16. ASSUME endOnCrash PROVE TypeOK'
  BY <1>16 DEF endOnCrash, settlePendingApprovals, closeBracket, TurnEnd,
     releaseTurnLease, Approval, ApprovalStates, NoTurn
<1>17. ASSUME CrashAfterDispose PROVE TypeOK'
  <2>1. /\ clientUp' = FALSE
        /\ UNCHANGED <<ids, cancelFallbackTimer, forceEndedTurnIds, disposed, lease,
                       currentTurnProtected, stage, snapshots, replay, approvals,
                       bracket, stopped, checkpoints>>
    BY <1>17 DEF CrashAfterDispose
  <2>2. clientUp' \in BOOLEAN
    BY <2>1
  <2> QED BY <2>1, <2>2, SMTT(60)
<1>18. ASSUME NEW restart \in BOOLEAN, dispose(restart) PROVE TypeOK'
  BY <1>18 DEF dispose, settlePendingApprovals, closeBracket, TurnEnd,
     releaseTurnLease, Approval, ApprovalStates, NoTurn
<1>19. ASSUME LeaseTaken PROVE TypeOK'
  BY <1>19 DEF LeaseTaken, OnlyLease
<1>20. ASSUME LeaseReturned PROVE TypeOK'
  BY <1>20 DEF LeaseReturned, OnlyLease
<1>21. ASSUME UNCHANGED vars PROVE TypeOK'
  BY <1>21 DEF vars
<1>22. QED
  BY <1>1, <1>2, <1>3, <1>4, <1>5, <1>6, <1>7, <1>8, <1>9, <1>10, <1>11,
     <1>12, <1>13, <1>14, <1>15, <1>16, <1>17, <1>18, <1>19, <1>20, <1>21,
     TurnEither
     DEF IInv, Consent, Next, TurnStep, ApprovalStep, ReplayStep, EndStep, LeaseStep

\* No step mentions a turn that has not begun.
LEMMA FreshStep == IInv /\ [Next]_vars => Fresh'
<1> SUFFICES ASSUME IInv PROVE [Next]_vars => Fresh'
  OBVIOUS
<1>a. TypeOK
  BY DEF IInv, Shape
<1> USE <1>a
<1> USE TurnsAreNumbers
<1>b. Fresh /\ RunningIsLive
  BY DEF IInv, Shape, Control
<1> USE <1>b
<1> USE DEF TypeOK, Fresh, ids, replay, checkpoints
<1>1. ASSUME sendPrompt PROVE Fresh'
  <2>1. /\ turnCounter' = turnCounter + 1 /\ currentTurnId' = turnCounter + 1
        /\ liveTurnId' = turnCounter + 1
        /\ stage' = [stage EXCEPT ![turnCounter + 1] = "barrier"]
        /\ bracket' = [bracket EXCEPT ![turnCounter + 1] = "open"]
        /\ snapshots' \subseteq snapshots \cup {turnCounter + 1}
        /\ covered' \subseteq covered \cup {turnCounter + 1}
        /\ UNCHANGED <<replayTurnId, approvals, stopped, forceEndedTurnIds, captured>>
    BY <1>1 DEF sendPrompt, TurnStart, snapshotCheckpoint
  <2>2. turnCounter \in Int
    BY DEF TypeOK
  <2>3. \A a \in Approvals : approvals'[a].turn <= turnCounter + 1
    BY <2>1, <2>2 DEF TypeOK, Approval
  <2>4. replayTurnId' <= turnCounter + 1
    BY <2>1, <2>2 DEF TypeOK
  <2>5. \A j \in Turns : j > turnCounter + 1 => j > turnCounter /\ j # turnCounter + 1
    BY <2>2
  <2>6. \A j \in Turns : j > turnCounter + 1 =>
          stage'[j] = "none" /\ bracket'[j] = "none" /\ j \notin snapshots'
          /\ j \notin covered'
    BY <2>1, <2>5 DEF TypeOK
  <2>7. QED
    BY <2>1, <2>2, <2>3, <2>4, <2>5, <2>6
<1>2. ASSUME NEW k \in Turns, NEW ok \in BOOLEAN, SnapshotSettles(k, ok) PROVE Fresh'
  BY <1>2 DEF SnapshotSettles, Turns
<1>3. ASSUME NEW k \in Turns, TurnMoves(k) PROVE Fresh'
  BY <1>3 DEF TurnMoves
<1>4. ASSUME NEW k \in Turns, TurnReturns(k) PROVE Fresh'
  <2>1. bracket' = bracket \/ bracket' = TurnEnd(bracket, k)
    BY <1>4, ReturnEither DEF ending
  <2>2. \A j \in Turns : j > turnCounter => stage'[j] = "none" /\ bracket'[j] = "none"
    BY <1>4, <2>1, ReturnEither, TurnEndAt DEF TurnReturns, Running, TypeOK
  <2>3. \A a \in Approvals : approvals'[a].turn <= turnCounter
    BY <1>4, ReturnEither, Settled DEF ending
  <2>4. liveTurnId' <= turnCounter
    BY <1>4, ReturnEither DEF ending, NoTurn, TypeOK
  <2>5. QED
    BY <1>4, <2>2, <2>3, <2>4 DEF TurnReturns, replay
<1>5. ASSUME NEW k \in Turns, PromptSent(k) PROVE Fresh'
  BY <1>5 DEF PromptSent
<1>6. ASSUME cancel PROVE Fresh'
  BY <1>6 DEF cancel, settlePendingApprovals, armCancelFallback, Turns
<1>7. ASSUME FallbackFires PROVE Fresh'
  <2>1. bracket' = bracket \/ bracket' = TurnEnd(bracket, liveTurnId)
    BY <1>7, FallbackEither
  <2>2. \A j \in Turns : j > turnCounter => bracket'[j] = "none"
    BY <2>1, TurnEndAt DEF TypeOK
  <2>3. \A a \in Approvals : approvals'[a].turn <= turnCounter
    BY <1>7, FallbackEither, Settled
  <2>4. /\ liveTurnId' <= turnCounter /\ currentTurnId' <= turnCounter
        /\ \A k \in Turns : k > turnCounter => k \notin forceEndedTurnIds'
    BY <1>7, FallbackEither DEF NoTurn, TypeOK, ids
  <2>5. QED
    BY <1>7, <2>2, <2>3, <2>4 DEF FallbackFires, replay
<1>8. ASSUME NEW a \in Approvals, RequestPermission(a) PROVE Fresh'
  BY <1>8 DEF RequestPermission, OnlyApprovals, Approval
<1>9. ASSUME NEW a \in Approvals, PolicyDecides(a) PROVE Fresh'
  BY <1>9 DEF PolicyDecides, isStaleApprovalRegistration, Answer,
     OnlyApprovals, Approval
<1>10. ASSUME NEW a \in Approvals, respondApproval(a) PROVE Fresh'
  BY <1>10 DEF respondApproval, Answer, OnlyApprovals, Approval
<1>11. ASSUME NEW a \in Approvals, Expire(a) PROVE Fresh'
  BY <1>11 DEF Expire, Answer, OnlyApprovals, Approval
<1>12. ASSUME ReplayNextTurn PROVE Fresh'
  <2>1. bracket' = TurnStart(TurnEnd(bracket, replayTurnId), turnCounter + 1)
    BY <1>12 DEF ReplayNextTurn
  <2>2. \A j \in Turns : j > turnCounter + 1 => bracket'[j] = "none"
    BY <2>1, TurnEndAt DEF TypeOK, TurnStart
  <2>3. /\ turnCounter' = turnCounter + 1 /\ replayTurnId' = turnCounter + 1
        /\ UNCHANGED <<currentTurnId, liveTurnId, approvals, stage, snapshots,
                       stopped, forceEndedTurnIds, checkpoints>>
    BY <1>12 DEF ReplayNextTurn
  <2>4. turnCounter \in Int
    BY DEF TypeOK
  <2>5. \A a \in Approvals : approvals'[a].turn <= turnCounter + 1
    BY <2>3, <2>4 DEF TypeOK, Approval
  <2>6. /\ currentTurnId' <= turnCounter + 1 /\ liveTurnId' <= turnCounter + 1
        /\ \A j \in Turns : j > turnCounter + 1 => j > turnCounter
    BY <2>3, <2>4 DEF TypeOK
  <2>7. QED
    BY <2>2, <2>3, <2>4, <2>5, <2>6
<1>13. ASSUME LoadFails PROVE Fresh'
  <2>1. bracket' = bracket \/ bracket' = TurnEnd(bracket, replayTurnId)
    BY <1>13 DEF LoadFails
  <2>2. \A j \in Turns : j > turnCounter => bracket'[j] = "none"
    BY <2>1, TurnEndAt DEF TypeOK
  <2>3. QED
    BY <1>13, <2>2 DEF LoadFails, OnlyReplay
<1>14. ASSUME LoadOk PROVE Fresh'
  BY <1>14 DEF LoadOk, OnlyReplay
<1>15. ASSUME PinSettles PROVE Fresh'
  <2>1. bracket' = bracket \/ bracket' = TurnEnd(bracket, replayTurnId)
    BY <1>15 DEF PinSettles
  <2>2. \A j \in Turns : j > turnCounter => bracket'[j] = "none"
    BY <2>1, TurnEndAt DEF TypeOK
  <2>3. QED
    BY <1>15, <2>2 DEF PinSettles, OnlyReplay
<1>16. ASSUME endOnCrash PROVE Fresh'
  <2>1. bracket' \in {bracket, TurnEnd(bracket, liveTurnId), TurnEnd(bracket, replayTurnId)}
    BY <1>16 DEF endOnCrash, closeBracket
  <2>2. \A j \in Turns : j > turnCounter => bracket'[j] = "none"
    BY <2>1, TurnEndAt DEF TypeOK
  <2>3. \A a \in Approvals : approvals'[a].turn <= turnCounter
    BY <1>16, Settled DEF endOnCrash
  <2>4. liveTurnId' <= turnCounter /\ currentTurnId' <= turnCounter
    BY <1>16 DEF endOnCrash, TypeOK
  <2>5. QED
    BY <1>16, <2>2, <2>3, <2>4 DEF endOnCrash
<1>17. ASSUME CrashAfterDispose PROVE Fresh'
  BY <1>17 DEF CrashAfterDispose
<1>18. ASSUME NEW restart \in BOOLEAN, dispose(restart) PROVE Fresh'
  <2>1. bracket' \in {bracket, TurnEnd(bracket, liveTurnId), TurnEnd(bracket, replayTurnId)}
    BY <1>18 DEF dispose, closeBracket
  <2>2. \A j \in Turns : j > turnCounter => bracket'[j] = "none"
    BY <2>1, TurnEndAt DEF TypeOK
  <2>3. \A a \in Approvals : approvals'[a].turn <= turnCounter
    BY <1>18, Settled DEF dispose
  <2>4. liveTurnId' <= turnCounter /\ currentTurnId' <= turnCounter
    BY <1>18 DEF dispose, TypeOK
  <2>5. QED
    BY <1>18, <2>2, <2>3, <2>4 DEF dispose
<1>19. ASSUME LeaseTaken PROVE Fresh'
  BY <1>19 DEF LeaseTaken, OnlyLease
<1>20. ASSUME LeaseReturned PROVE Fresh'
  BY <1>20 DEF LeaseReturned, OnlyLease
<1>21. ASSUME UNCHANGED vars PROVE Fresh'
  BY <1>21 DEF vars
<1>22. QED
  BY <1>1, <1>2, <1>3, <1>4, <1>5, <1>6, <1>7, <1>8, <1>9, <1>10, <1>11,
     <1>12, <1>13, <1>14, <1>15, <1>16, <1>17, <1>18, <1>19, <1>20, <1>21,
     TurnEither
     DEF IInv, Consent, Next, TurnStep, ApprovalStep, ReplayStep, EndStep, LeaseStep

\* Every step keeps the ids, the running functions and the lease together.
LEMMA ControlStep == IInv /\ [Next]_vars => Control'
<1> SUFFICES ASSUME IInv PROVE [Next]_vars => Control'
  OBVIOUS
<1>a. TypeOK
  BY DEF IInv, Shape
<1> USE <1>a
<1>b. Fresh /\ Control /\ ReplayIsOpen
  BY DEF IInv, Shape, Brackets
<1> USE <1>b, TurnsAreNumbers
<1> USE DEF Control, LiveTurnRuns, RunningIsLive, CurrentIsLatest,
          NoTurnAfterEnd, LeaseIffLive, Running, ids, replay
<1>1. ASSUME sendPrompt PROVE Control'
  <2>1. turnCounter + 1 \in Turns /\ turnCounter \in Int
    BY <1>1, SessionTurnAssumption DEF sendPrompt, TypeOK, Turns
  <2>2. /\ stage' = [stage EXCEPT ![turnCounter + 1] = "barrier"]
        /\ bracket' = [bracket EXCEPT ![turnCounter + 1] = "open"]
        /\ liveTurnId = NoTurn /\ liveTurnId' = turnCounter + 1
        /\ currentTurnId' = turnCounter + 1 /\ translator' = turnCounter + 1
        /\ lease' = "session" /\ clientUp /\ ~disposed
        /\ UNCHANGED <<disposed, clientUp, replay, forceEndedTurnIds>>
    BY <1>1 DEF sendPrompt, Admitted, TurnStart
  <2>3. /\ stage'[turnCounter + 1] = "barrier" /\ bracket'[turnCounter + 1] = "open"
        /\ \A j \in Turns : j # turnCounter + 1 => stage'[j] = stage[j]
    BY <2>1, <2>2 DEF TypeOK
  <2>4. LiveTurnRuns' /\ LeaseIffLive' /\ NoTurnAfterEnd'
    BY <2>1, <2>2, <2>3
  <2>5. RunningIsLive' /\ CurrentIsLatest'
    BY <2>1, <2>2, <2>3 DEF TypeOK, Fresh
  <2>6. QED
    BY <2>4, <2>5
<1>2. ASSUME NEW k \in Turns, NEW ok \in BOOLEAN, SnapshotSettles(k, ok) PROVE Control'
  BY <1>2 DEF SnapshotSettles, TypeOK
<1>3. ASSUME NEW k \in Turns, TurnMoves(k) PROVE Control'
  BY <1>3 DEF TurnMoves, TypeOK
<1>4. ASSUME NEW k \in Turns, TurnReturns(k) PROVE Control'
  <2>1. CASE currentTurnId # k
    BY <1>4, <2>1, ReturnEither DEF TurnReturns, ending, TypeOK
  <2>2. CASE currentTurnId = k
    BY <1>4, <2>2, ReturnEither DEF TurnReturns, releaseTurnLease, TypeOK
  <2>3. QED BY <2>1, <2>2
<1>5. ASSUME NEW k \in Turns, PromptSent(k) PROVE Control'
  BY <1>5 DEF PromptSent, TypeOK
<1>6. ASSUME cancel PROVE Control'
  BY <1>6 DEF cancel, settlePendingApprovals, armCancelFallback
<1>7. ASSUME FallbackFires PROVE Control'
  <2>1. CASE UNCHANGED <<ids, approvals, lease, bracket, forceEndedTurnIds>>
    BY <1>7, <2>1 DEF FallbackFires
  <2>2. CASE ~UNCHANGED <<ids, approvals, lease, bracket, forceEndedTurnIds>>
    BY <1>7, <2>2, FallbackEither DEF FallbackFires, releaseTurnLease, TypeOK
  <2>3. QED BY <2>1, <2>2
<1>8. ASSUME NEW a \in Approvals, RequestPermission(a) PROVE Control'
  BY <1>8 DEF RequestPermission, OnlyApprovals
<1>9. ASSUME NEW a \in Approvals, PolicyDecides(a) PROVE Control'
  BY <1>9 DEF PolicyDecides, isStaleApprovalRegistration, Answer,
     OnlyApprovals
<1>10. ASSUME NEW a \in Approvals, respondApproval(a) PROVE Control'
  BY <1>10 DEF respondApproval, Answer, OnlyApprovals
<1>11. ASSUME NEW a \in Approvals, Expire(a) PROVE Control'
  BY <1>11 DEF Expire, Answer, OnlyApprovals
<1>12. ASSUME ReplayNextTurn PROVE Control'
  <2>1. turnCounter + 1 \in Turns /\ stage[turnCounter + 1] = "none"
    BY <1>12, SessionTurnAssumption DEF ReplayNextTurn, TypeOK, Turns, Fresh
  <2>2. \A j \in Turns : stage[j] \in Running => bracket'[j] = bracket[j]
    BY <1>12, <2>1, TurnEndAt DEF ReplayNextTurn, TurnStart, ReplayIsOpen
  <2>3. QED
    BY <1>12, <2>2 DEF ReplayNextTurn, TypeOK
<1>13. ASSUME LoadFails PROVE Control'
  <2>1. \A j \in Turns : stage[j] \in Running => bracket'[j] = bracket[j]
    BY <1>13, TurnEndAt DEF LoadFails, ReplayIsOpen
  <2>2. QED
    BY <1>13, <2>1 DEF LoadFails, OnlyReplay, TypeOK
<1>14. ASSUME LoadOk PROVE Control'
  BY <1>14 DEF LoadOk, OnlyReplay
<1>15. ASSUME PinSettles PROVE Control'
  <2>1. \A j \in Turns : stage[j] \in Running => bracket'[j] = bracket[j]
    BY <1>15, TurnEndAt DEF PinSettles, ReplayIsOpen
  <2>2. QED
    BY <1>15, <2>1 DEF PinSettles, OnlyReplay, TypeOK
<1>16. ASSUME endOnCrash PROVE Control'
  BY <1>16 DEF endOnCrash, settlePendingApprovals, closeBracket, TurnEnd,
     releaseTurnLease, TypeOK
<1>17. ASSUME CrashAfterDispose PROVE Control'
  BY <1>17 DEF CrashAfterDispose
<1>18. ASSUME NEW restart \in BOOLEAN, dispose(restart) PROVE Control'
  BY <1>18 DEF dispose, settlePendingApprovals, closeBracket, TurnEnd,
     releaseTurnLease
<1>19. ASSUME LeaseTaken PROVE Control'
  BY <1>19 DEF LeaseTaken, OnlyLease
<1>20. ASSUME LeaseReturned PROVE Control'
  BY <1>20 DEF LeaseReturned, OnlyLease
<1>21. ASSUME UNCHANGED vars PROVE Control'
  BY <1>21 DEF vars
<1>22. QED
  BY <1>1, <1>2, <1>3, <1>4, <1>5, <1>6, <1>7, <1>8, <1>9, <1>10, <1>11,
     <1>12, <1>13, <1>14, <1>15, <1>16, <1>17, <1>18, <1>19, <1>20, <1>21,
     TurnEither
     DEF IInv, Consent, Next, TurnStep, ApprovalStep, ReplayStep, EndStep, LeaseStep

\* Every step keeps the brackets of the webview closed once.
LEMMA BracketsStep == IInv /\ [Next]_vars => Brackets'
<1> SUFFICES ASSUME IInv PROVE [Next]_vars => Brackets'
  OBVIOUS
<1>a. TypeOK
  BY DEF IInv, Shape
<1> USE <1>a
<1>b. Fresh /\ LiveTurnRuns /\ RunningIsLive /\ NoTurnAfterEnd /\ BracketsClose /\ ReplayIsOpen
  BY DEF IInv, Shape, Brackets, Control
<1> USE <1>b, TurnsAreNumbers
<1> USE DEF Brackets, BracketsClose, ReplayIsOpen, LiveTurnRuns,
          NoTurnAfterEnd, Running, ids, replay
<1>1. ASSUME sendPrompt PROVE Brackets'
  BY <1>1 DEF sendPrompt, Admitted, TurnStart, TypeOK, Fresh
<1>2. ASSUME NEW k \in Turns, NEW ok \in BOOLEAN, SnapshotSettles(k, ok) PROVE Brackets'
  BY <1>2 DEF SnapshotSettles
<1>3. ASSUME NEW k \in Turns, TurnMoves(k) PROVE Brackets'
  BY <1>3 DEF TurnMoves, TypeOK
<1>4. ASSUME NEW k \in Turns, TurnReturns(k) PROVE Brackets'
  <2>1. CASE currentTurnId # k
    BY <1>4, <2>1, ReturnEither DEF TurnReturns, ending, TypeOK
  <2>2. CASE currentTurnId = k
    <3>1. /\ liveTurnId = k /\ liveTurnId' = NoTurn /\ bracket[k] = "open"
          /\ bracket' = TurnEnd(bracket, k) /\ stage' = [stage EXCEPT ![k] = "done"]
      BY <1>4, <2>2, ReturnEither
    <3>2. /\ bracket'[k] = "closed"
          /\ \A j \in Turns : j # k => bracket'[j] = bracket[j] /\ stage'[j] = stage[j]
      BY <3>1, TurnEndAt DEF TypeOK
    <3>3. UNCHANGED <<disposed, loading, replaying, replayTurnId>> /\ stage[k] # "none"
      BY <1>4 DEF TurnReturns
    <3>4. QED
      BY <3>1, <3>2, <3>3
  <2>3. QED BY <2>1, <2>2
<1>5. ASSUME NEW k \in Turns, PromptSent(k) PROVE Brackets'
  BY <1>5 DEF PromptSent, TypeOK
<1>6. ASSUME cancel PROVE Brackets'
  BY <1>6 DEF cancel, settlePendingApprovals, armCancelFallback
<1>7. ASSUME FallbackFires PROVE Brackets'
  <2>1. CASE UNCHANGED <<ids, approvals, lease, bracket, forceEndedTurnIds>>
    BY <1>7, <2>1 DEF FallbackFires
  <2>2. CASE ~UNCHANGED <<ids, approvals, lease, bracket, forceEndedTurnIds>>
    <3> DEFINE k == liveTurnId
    <3>1. /\ k \in Turns /\ liveTurnId' = NoTurn /\ bracket[k] = "open"
          /\ bracket' = TurnEnd(bracket, k)
      BY <1>7, <2>2, FallbackEither DEF TypeOK
    <3>2. /\ bracket'[k] = "closed" /\ stage[k] # "none"
          /\ \A j \in Turns : j # k => bracket'[j] = bracket[j]
      BY <3>1, TurnEndAt
    <3>3. UNCHANGED <<disposed, loading, replaying, replayTurnId, stage>>
      BY <1>7 DEF FallbackFires
    <3>4. QED
      BY <3>1, <3>2, <3>3
  <2>3. QED BY <2>1, <2>2
<1>8. ASSUME NEW a \in Approvals, RequestPermission(a) PROVE Brackets'
  BY <1>8 DEF RequestPermission, OnlyApprovals
<1>9. ASSUME NEW a \in Approvals, PolicyDecides(a) PROVE Brackets'
  BY <1>9 DEF PolicyDecides, isStaleApprovalRegistration, Answer,
     OnlyApprovals
<1>10. ASSUME NEW a \in Approvals, respondApproval(a) PROVE Brackets'
  BY <1>10 DEF respondApproval, Answer, OnlyApprovals
<1>11. ASSUME NEW a \in Approvals, Expire(a) PROVE Brackets'
  BY <1>11 DEF Expire, Answer, OnlyApprovals
<1>12. ASSUME ReplayNextTurn PROVE Brackets'
  <2>1. turnCounter + 1 \in Turns /\ turnCounter \in Int
    BY <1>12, SessionTurnAssumption DEF ReplayNextTurn, TypeOK, Turns
  <2>2. /\ replaying /\ loading = "load" /\ replayTurnId \in Turns
        /\ stage[turnCounter + 1] = "none" /\ replayTurnId # turnCounter + 1
        /\ bracket[replayTurnId] = "open"
    BY <1>12, <2>1 DEF ReplayNextTurn, Fresh
  <2>3. /\ bracket'[turnCounter + 1] = "open" /\ bracket'[replayTurnId] = "closed"
        /\ \A j \in Turns \ {replayTurnId, turnCounter + 1} : bracket'[j] = bracket[j]
    BY <1>12, <2>1, <2>2, TurnEndAt DEF ReplayNextTurn, TurnStart
  <2>4. UNCHANGED <<liveTurnId, loading, replaying, disposed, stage>>
        /\ replayTurnId' = turnCounter + 1
    BY <1>12 DEF ReplayNextTurn
  <2>5. QED
    BY <2>1, <2>2, <2>3, <2>4
<1>13. ASSUME LoadFails PROVE Brackets'
  BY <1>13 DEF LoadFails, TurnEnd, OnlyReplay, TypeOK
<1>14. ASSUME LoadOk PROVE Brackets'
  BY <1>14 DEF LoadOk, OnlyReplay
<1>15. ASSUME PinSettles PROVE Brackets'
  BY <1>15 DEF PinSettles, TurnEnd, OnlyReplay, TypeOK
<1>16. ASSUME endOnCrash PROVE Brackets'
  BY <1>16 DEF endOnCrash, settlePendingApprovals, closeBracket, TurnEnd,
     releaseTurnLease, TypeOK
<1>17. ASSUME CrashAfterDispose PROVE Brackets'
  BY <1>17 DEF CrashAfterDispose
<1>18. ASSUME NEW restart \in BOOLEAN, dispose(restart) PROVE Brackets'
  BY <1>18 DEF dispose, settlePendingApprovals, closeBracket, TurnEnd,
     releaseTurnLease
<1>19. ASSUME LeaseTaken PROVE Brackets'
  BY <1>19 DEF LeaseTaken, OnlyLease
<1>20. ASSUME LeaseReturned PROVE Brackets'
  BY <1>20 DEF LeaseReturned, OnlyLease
<1>21. ASSUME UNCHANGED vars PROVE Brackets'
  BY <1>21 DEF vars
<1>22. QED
  BY <1>1, <1>2, <1>3, <1>4, <1>5, <1>6, <1>7, <1>8, <1>9, <1>10, <1>11,
     <1>12, <1>13, <1>14, <1>15, <1>16, <1>17, <1>18, <1>19, <1>20, <1>21,
     TurnEither
     DEF IInv, Consent, Next, TurnStep, ApprovalStep, ReplayStep, EndStep, LeaseStep

\* Every step keeps what is said of cards, Stop and checkpoints.
LEMMA ConsentStep == IInv /\ [Next]_vars => Consent'
<1> SUFFICES ASSUME IInv PROVE [Next]_vars => Consent'
  OBVIOUS
<1>a. TypeOK
  BY DEF IInv, Shape
<1> USE <1>a
<1>b. /\ Fresh /\ LiveTurnRuns /\ RunningIsLive /\ CurrentIsLatest
      /\ NoTurnAfterEnd /\ Consent
  BY DEF IInv, Shape, Control
<1> USE <1>b, TurnsAreNumbers
<1> USE DEF Consent, NoZombieCard, CurrentStopped, SnapshotOrder,
          SaidOfPrompts, FlagIsFounded, SuspendedAfterSnapshot,
          AutoAllowIsProtected, ids, replay, checkpoints
<1>1. ASSUME sendPrompt PROVE Consent'
  <2> DEFINE n == turnCounter + 1
  <2>1. n \in Turns /\ turnCounter \in Int
    BY <1>1, SessionTurnAssumption DEF sendPrompt, TypeOK, Turns
  <2>2. /\ stage' = [stage EXCEPT ![n] = "barrier"] /\ snapshotCheckpoint(n)
        /\ currentTurnId' = n /\ clientUp /\ ~disposed /\ liveTurnId = NoTurn
        /\ UNCHANGED <<cancelledTurnId, forceEndedTurnIds, disposed, approvals,
                       stopped, captured>>
    BY <1>1 DEF sendPrompt, Admitted
  <2>3. n \notin stopped /\ \A a \in Approvals : approvals[a].turn # n
    BY <2>1 DEF Fresh, TypeOK, Approval
  <2>4. /\ stage'[n] = "barrier" /\ \A j \in Turns : j # n => stage'[j] = stage[j]
        /\ \A j \in Turns : j > n => stage[j] = "none"
        /\ stage[n] = "none"
    BY <2>1, <2>2 DEF Fresh, TypeOK
  <2> HIDE DEF n
  <2>5. /\ snapshots' \in {snapshots, snapshots \cup {n}} /\ covered \subseteq covered'
        /\ covered' \subseteq covered \cup {n}
        /\ UNCHANGED currentTurnProtected
    BY <2>2 DEF snapshotCheckpoint
  <2>6. NoZombieCard' /\ CurrentStopped' /\ AutoAllowIsProtected'
    BY <2>2, <2>3, <2>5
  <2>7. snapshots \subseteq forceEndedTurnIds
    BY <2>2 DEF RunningIsLive, Running, TypeOK
  <2>8. SnapshotOrder' /\ SaidOfPrompts'
    BY <2>1, <2>2, <2>4, <2>5, <2>7 DEF TypeOK
  <2>9. FlagIsFounded'
    <3> SUFFICES ASSUME currentTurnProtected, forceEndedTurnIds = {} PROVE FlagIsFounded'
      BY <2>2, <2>5
    <3>1. PICK j \in covered : \A i \in Turns : i > j => stage[i] = "none"
      BY <2>7
    <3>2. CASE snapshots' = snapshots \cup {n}
      BY <2>4, <2>5, <3>1, <3>2
    <3>3. CASE snapshots' # snapshots \cup {n}
      <4>1. n \in covered'
        BY <2>2, <3>1, <3>3 DEF snapshotCheckpoint, LastTurnCovered
      <4> QED BY <2>4, <4>1
    <3> QED BY <3>2, <3>3
  <2>10. SuspendedAfterSnapshot'
    BY <2>2, <2>3
  <2>11. QED
    BY <2>6, <2>8, <2>9, <2>10
<1>2. ASSUME NEW k \in Turns, NEW ok \in BOOLEAN, SnapshotSettles(k, ok) PROVE Consent'
  <2>1. /\ k \in snapshots /\ snapshots' = snapshots \ {k}
        /\ currentTurnProtected' = ok /\ covered \subseteq covered'
        /\ covered' \subseteq covered \cup {k} /\ (ok => k \in covered')
        /\ UNCHANGED <<ids, forceEndedTurnIds, disposed, stage, approvals, stopped>>
    BY <1>2 DEF SnapshotSettles
  <2>2. NoZombieCard' /\ CurrentStopped' /\ AutoAllowIsProtected'
    BY <2>1
  <2>3. SnapshotOrder' /\ SaidOfPrompts'
    BY <2>1 DEF TypeOK
  <2>4. FlagIsFounded'
    BY <2>1 DEF TypeOK
  <2>5. SuspendedAfterSnapshot'
    BY <2>1
  <2>6. QED
    BY <2>2, <2>3, <2>4, <2>5
<1>3. ASSUME NEW k \in Turns, TurnMoves(k) PROVE Consent'
  <2>1. /\ stage'[k] = "prepare" /\ stage[k] = "barrier" /\ k \notin snapshots
        /\ \A j \in Turns : j # k => stage'[j] = stage[j]
        /\ UNCHANGED <<ids, forceEndedTurnIds, disposed, currentTurnProtected,
                       snapshots, approvals, stopped, checkpoints>>
    BY <1>3 DEF TurnMoves, TypeOK
  <2>2. SnapshotOrder'
    BY <2>1 DEF TypeOK
  <2>3. QED
    BY <2>1, <2>2 DEF TypeOK
<1>4. ASSUME NEW k \in Turns, TurnReturns(k) PROVE Consent'
  <2>1. /\ \A a \in Approvals : /\ approvals'[a].turn = approvals[a].turn
                               /\ \/ approvals'[a].st = approvals[a].st
                                  \/ approvals'[a].st = "cancelled"
        /\ stage' = [stage EXCEPT ![k] = "done"]
    BY <1>4, ReturnEither, Settled DEF ending
  <2>2. \A j \in Turns : j # k => stage'[j] = stage[j]
    BY <2>1 DEF TypeOK
  <2>3. stage[k] # "none" /\ stage'[k] = "done" /\ k \notin snapshots
    BY <1>4, <2>1 DEF TurnReturns, Running, TypeOK
  <2>4. UNCHANGED <<currentTurnId, cancelledTurnId, forceEndedTurnIds, snapshots,
                    currentTurnProtected, disposed, stopped, checkpoints>>
    BY <1>4 DEF TurnReturns
  <2>5. NoZombieCard' /\ CurrentStopped' /\ AutoAllowIsProtected'
    BY <2>1, <2>4
  <2>6. SnapshotOrder'
    BY <2>2, <2>3, <2>4 DEF TypeOK
  <2>7. SaidOfPrompts' /\ FlagIsFounded' /\ SuspendedAfterSnapshot'
    BY <2>1, <2>2, <2>3, <2>4 DEF TypeOK
  <2>8. QED
    BY <2>5, <2>6, <2>7
<1>5. ASSUME NEW k \in Turns, PromptSent(k) PROVE Consent'
  <2>1. /\ stage'[k] = "prompt" /\ stage[k] = "prepare"
        /\ \A j \in Turns : j # k => stage'[j] = stage[j]
        /\ UNCHANGED <<ids, forceEndedTurnIds, disposed, currentTurnProtected,
                       snapshots, approvals, stopped, checkpoints>>
    BY <1>5 DEF PromptSent, TypeOK
  <2>2. SnapshotOrder'
    BY <2>1 DEF TypeOK
  <2>3. QED
    BY <2>1, <2>2 DEF TypeOK
<1>6. ASSUME cancel PROVE Consent'
  BY <1>6 DEF cancel, settlePendingApprovals, armCancelFallback, TypeOK
<1>7. ASSUME FallbackFires PROVE Consent'
  <2>1. CASE UNCHANGED <<ids, approvals, lease, bracket, forceEndedTurnIds>>
    BY <1>7, <2>1 DEF FallbackFires
  <2>2. CASE ~UNCHANGED <<ids, approvals, lease, bracket, forceEndedTurnIds>>
    <3>1. \A a \in Approvals : /\ approvals'[a].turn = approvals[a].turn
                            /\ \/ approvals'[a].st = approvals[a].st
                               \/ approvals'[a].st = "cancelled"
      BY <1>7, <2>2, FallbackEither, Settled
    <3>2. /\ currentTurnId' = NoTurn /\ liveTurnId # NoTurn
          /\ forceEndedTurnIds' = forceEndedTurnIds \cup {liveTurnId}
          /\ UNCHANGED <<currentTurnProtected, disposed, stage, snapshots, stopped,
                       checkpoints>>
      BY <1>7, <2>2, FallbackEither DEF FallbackFires
    <3>3. NoZombieCard' /\ CurrentStopped' /\ SuspendedAfterSnapshot' /\ AutoAllowIsProtected'
      BY <3>1, <3>2 DEF TypeOK
    <3>4. stage[liveTurnId] # "none"
      BY <3>2 DEF LiveTurnRuns
    <3>5. SnapshotOrder' /\ SaidOfPrompts' /\ FlagIsFounded'
      BY <3>2, <3>4 DEF TypeOK
    <3>6. QED BY <3>3, <3>5
  <2>3. QED BY <2>1, <2>2
<1>8. ASSUME NEW a \in Approvals, RequestPermission(a) PROVE Consent'
  <2>1. PICK k \in Turns : stage[k] = "prompt"
    BY <1>8 DEF RequestPermission
  <2>2. /\ clientUp /\ ~disposed /\ k \notin snapshots
        /\ UNCHANGED <<ids, forceEndedTurnIds, disposed, stage, snapshots, stopped,
                       currentTurnProtected, checkpoints>>
    BY <1>8, <2>1 DEF RequestPermission, OnlyApprovals
  <2>3. /\ approvals'[a] = [st |-> "suspended", turn |-> currentTurnId]
        /\ \A b \in Approvals : b # a => approvals'[b] = approvals[b]
    BY <1>8 DEF RequestPermission, TypeOK
  <2>4. currentTurnId # NoTurn =>
          currentTurnId = k \/ (k \in forceEndedTurnIds /\ k < currentTurnId)
    BY <2>1, <2>2 DEF LiveTurnRuns, RunningIsLive, Running, CurrentIsLatest, TypeOK
  <2>5. SuspendedAfterSnapshot'
    BY <2>1, <2>2, <2>3, <2>4
  <2>6. NoZombieCard' /\ AutoAllowIsProtected'
    BY <2>2, <2>3
  <2>7. QED
    BY <2>2, <2>5, <2>6
<1>9. ASSUME NEW a \in Approvals, PolicyDecides(a) PROVE Consent'
  <2>1. /\ UNCHANGED <<ids, forceEndedTurnIds, currentTurnProtected, disposed, stage,
                       snapshots, stopped, checkpoints>>
        /\ approvals[a].st = "suspended"
    BY <1>9 DEF PolicyDecides, OnlyApprovals
  <2>2. PICK st \in {"cancelled", "card", "denied", "auto"} :
          /\ approvals' = [approvals EXCEPT ![a].st = st]
          /\ st \in {"card", "auto"} =>
               /\ ~disposed /\ currentTurnId # NoTurn /\ cancelledTurnId # currentTurnId
               /\ approvals[a].turn = currentTurnId
          /\ st = "auto" => currentTurnProtected
    BY <1>9 DEF PolicyDecides, isStaleApprovalRegistration, Answer
  <2>3. /\ approvals'[a].st = st /\ approvals'[a].turn = approvals[a].turn
        /\ \A b \in Approvals : b # a => approvals'[b] = approvals[b]
    BY <2>2 DEF TypeOK, Approval
  <2>4. NoZombieCard' /\ CurrentStopped' /\ SuspendedAfterSnapshot'
    BY <2>1, <2>2, <2>3
  <2>5. SnapshotOrder' /\ SaidOfPrompts' /\ FlagIsFounded'
    BY <2>1
  <2>6. ASSUME st = "auto"
        PROVE  \/ approvals[a].turn \in covered
               \/ \E k \in forceEndedTurnIds : k < approvals[a].turn
    <3> DEFINE c == currentTurnId
    <3>1. c \in Turns /\ c = approvals[a].turn /\ currentTurnProtected
      BY <2>2, <2>6 DEF TypeOK
    <3>2. \A k \in Turns : stage[k] # "none" => k <= c
      BY <3>1 DEF CurrentIsLatest, Turns
    <3>3. CASE forceEndedTurnIds # {}
      BY <3>1, <3>2, <3>3 DEF CurrentIsLatest, TypeOK
    <3>4. CASE forceEndedTurnIds = {}
      <4>1. PICK j \in covered :
              \A i \in Turns : i > j => stage[i] = "none" \/ i \in snapshots
        BY <3>1, <3>4
      <4>2. j \in Turns /\ j <= c
        BY <3>2, <4>1 DEF TypeOK
      <4>3. stage[c] # "none" /\ c \notin snapshots
        BY <2>1, <3>1, <3>4
      <4> QED BY <3>1, <4>1, <4>2, <4>3 DEF Turns
    <3> QED BY <3>3, <3>4
  <2>7. AutoAllowIsProtected'
    BY <2>1, <2>3, <2>6
  <2>8. QED BY <2>4, <2>5, <2>7
<1>10. ASSUME NEW a \in Approvals, respondApproval(a) PROVE Consent'
  BY <1>10 DEF respondApproval, Answer, OnlyApprovals, Approval, TypeOK
<1>11. ASSUME NEW a \in Approvals, Expire(a) PROVE Consent'
  BY <1>11 DEF Expire, Answer, OnlyApprovals, Approval, TypeOK
<1>12. ASSUME ReplayNextTurn PROVE Consent'
  BY <1>12 DEF ReplayNextTurn, TurnStart, TurnEnd
<1>13. ASSUME LoadFails PROVE Consent'
  BY <1>13 DEF LoadFails, TurnEnd, OnlyReplay
<1>14. ASSUME LoadOk PROVE Consent'
  BY <1>14 DEF LoadOk, OnlyReplay
<1>15. ASSUME PinSettles PROVE Consent'
  BY <1>15 DEF PinSettles, TurnEnd, OnlyReplay
<1>16. ASSUME endOnCrash PROVE Consent'
  BY <1>16 DEF endOnCrash, settlePendingApprovals, closeBracket, TurnEnd,
     releaseTurnLease, TypeOK
<1>17. ASSUME CrashAfterDispose PROVE Consent'
  BY <1>17 DEF CrashAfterDispose
<1>18. ASSUME NEW restart \in BOOLEAN, dispose(restart) PROVE Consent'
  BY <1>18 DEF dispose, settlePendingApprovals, closeBracket, TurnEnd,
     releaseTurnLease, TypeOK
<1>19. ASSUME LeaseTaken PROVE Consent'
  BY <1>19 DEF LeaseTaken, OnlyLease
<1>20. ASSUME LeaseReturned PROVE Consent'
  BY <1>20 DEF LeaseReturned, OnlyLease
<1>21. ASSUME UNCHANGED vars PROVE Consent'
  BY <1>21 DEF vars
<1>22. QED
  BY <1>1, <1>2, <1>3, <1>4, <1>5, <1>6, <1>7, <1>8, <1>9, <1>10, <1>11,
     <1>12, <1>13, <1>14, <1>15, <1>16, <1>17, <1>18, <1>19, <1>20, <1>21,
     TurnEither
     DEF IInv, Consent, Next, TurnStep, ApprovalStep, ReplayStep, EndStep, LeaseStep

\* The initial state.
LEMMA InitInv == Init => IInv
<1> SUFFICES ASSUME Init PROVE IInv
  OBVIOUS
<1> USE SessionTurnAssumption, TurnsAreNumbers
<1>1. turnCounter \in {0, 1} /\ turnCounter \in Turns \cup {NoTurn} /\ turnCounter <= MaxTurn
      /\ (replaying => turnCounter = 1 /\ turnCounter \in Turns)
  BY DEF Init, Turns, NoTurn
<1>2. TypeOK
  <2>1. /\ replaying \in BOOLEAN /\ loading \in {"none", "load"}
        /\ turnCounter \in 0 .. MaxTurn
    BY <1>1 DEF Init
  <2>2. bracket \in [Turns -> {"none", "open", "closed", "twice"}]
    BY DEF Init
  <2>3. approvals \in [Approvals -> Approval]
    BY DEF Init, Approval, ApprovalStates
  <2>4. QED
    BY <1>1, <2>1, <2>2, <2>3 DEF Init, TypeOK, Stages
<1>3. Fresh
  BY <1>1 DEF Init, Fresh
<1>4. Control
  BY <1>1 DEF Init, Control, LiveTurnRuns, RunningIsLive, Running, CurrentIsLatest,
     NoTurnAfterEnd, LeaseIffLive
<1>5. Brackets
  BY <1>1 DEF Init, Brackets, BracketsClose, ReplayIsOpen
<1>6. Consent
  BY <1>1 DEF Init, Consent, NoZombieCard, CurrentStopped, SnapshotOrder, SaidOfPrompts,
     FlagIsFounded, SuspendedAfterSnapshot, AutoAllowIsProtected
<1>7. QED BY <1>2, <1>3, <1>4, <1>5, <1>6 DEF IInv, Shape

\* The invariant holds in every reachable state.
THEOREM Invariance == Spec => []IInv
<1>1. IInv /\ [Next]_vars => IInv'
  BY TypeStep, FreshStep, ControlStep, BracketsStep, ConsentStep DEF IInv, Shape
<1>2. QED BY InitInv, <1>1, PTL DEF Spec

-----------------------------------------------------------------------------
(* Theorems.                                                               *)

\* Every reachable state is well typed.
THEOREM TypeCorrect == Spec => []TypeOK
<1>1. IInv => TypeOK
  BY DEF IInv, Shape
<1>2. QED BY Invariance, <1>1, PTL

\* No way of ending a turn keeps the lease of the root, and no late
\* continuation gives away the lease of a later turn.
THEOREM LeaseFollowsTurn == Spec => []LeaseIffLive
<1>1. IInv => LeaseIffLive
  BY DEF IInv, Control
<1>2. QED BY Invariance, <1>1, PTL

\* A live turn always has a running function that will end it.
THEOREM LiveTurnIsRunning == Spec => []LiveTurnRuns
<1>1. IInv => LiveTurnRuns
  BY DEF IInv, Control
<1>2. QED BY Invariance, <1>1, PTL

\* Every turn and every replay is ended for the webview once.
THEOREM TurnsEndOnce == Spec => []BracketsClose
<1>1. IInv => BracketsClose
  BY DEF IInv, Brackets
<1>2. QED BY Invariance, <1>1, PTL

\* Stop and the end of a controller leave no card behind.
THEOREM StopLeavesNoCard == Spec => []NoZombieCard
<1>1. IInv => NoZombieCard
  BY DEF IInv, Consent
<1>2. QED BY Invariance, <1>1, PTL

\* The agent works on the live turn only, except for force-ended ones.
THEOREM AgentWorksOnLiveTurn == Spec => []PromptIsLive
<1>1. IInv => PromptIsLive
  BY TurnsAreNumbers
  DEF IInv, Control, RunningIsLive, Running, LiveTurnRuns, PromptIsLive
<1>2. QED BY Invariance, <1>1, PTL

\* Without a force-end, an edit allowed by the policy has the checkpoint of its turn
\* or, in a turn whose root has no tracker, of the last turn that had one.
THEOREM AllowedEditsAreProtected == Spec => []AutoAllowIsProtected
<1>1. IInv => AutoAllowIsProtected
  BY DEF IInv, Consent
<1>2. QED BY Invariance, <1>1, PTL

-----------------------------------------------------------------------------
(* Action properties.                                                      *)

Consents(a) == approvals[a].st # "auto" /\ approvals'[a].st = "auto"

\* Only the policy's decision consents, and it looks at Stop again first.
LEMMA ConsentIsFresh ==
  ASSUME IInv, [Next]_vars, NEW a \in Approvals, Consents(a)
  PROVE  approvals[a].turn \notin stopped /\ ~disposed
<1>a. TypeOK /\ CurrentStopped
  BY DEF IInv, Shape, Consent
<1> USE <1>a
<1> SUFFICES ASSUME ~(approvals[a].turn \notin stopped /\ ~disposed)
             PROVE  approvals'[a].st = "auto" => approvals[a].st = "auto"
  BY DEF Consents
<1>1. ASSUME settlePendingApprovals PROVE approvals'[a].st = "auto" => approvals[a].st = "auto"
  BY <1>1, Settled
<1>2. ASSUME NEW b \in Approvals, PolicyDecides(b)
      PROVE  approvals'[a].st = "auto" => approvals[a].st = "auto"
  <2>1. approvals' # approvals => approvals[b].st = "suspended"
    BY <1>2 DEF PolicyDecides
  <2>2. CASE b = a
    <3>1. disposed \/ isStaleApprovalRegistration(approvals[a].turn)
      BY DEF isStaleApprovalRegistration, CurrentStopped
    <3>2. QED
      BY <1>2, <2>2, <3>1 DEF PolicyDecides, Answer, TypeOK, Approval
  <2>3. CASE b # a
    BY <1>2, <2>3 DEF PolicyDecides, Answer, TypeOK
  <2>4. QED BY <2>2, <2>3
<1>3. ASSUME NEW b \in Approvals, RequestPermission(b) \/ respondApproval(b) \/ Expire(b)
      PROVE  approvals'[a].st = "auto" => approvals[a].st = "auto"
  BY <1>3 DEF RequestPermission, respondApproval, Expire, Answer, TypeOK, Approval
<1>4. ASSUME NEW k \in Turns, TurnMoves(k) \/ TurnReturns(k)
      PROVE  approvals'[a].st = "auto" => approvals[a].st = "auto"
  BY <1>1, <1>4, ReturnEither DEF TurnMoves, ending, IInv, Control
<1>5. ASSUME \/ cancel \/ FallbackFires \/ endOnCrash
             \/ \E restart \in BOOLEAN : dispose(restart)
      PROVE  approvals'[a].st = "auto" => approvals[a].st = "auto"
  BY <1>1, <1>5, FallbackEither DEF cancel, endOnCrash, dispose
<1>6. ASSUME UNCHANGED approvals
      PROVE  approvals'[a].st = "auto" => approvals[a].st = "auto"
  BY <1>6
<1>7. ASSUME \/ sendPrompt \/ ReplayStep \/ LeaseStep \/ CrashAfterDispose
             \/ \E k \in Turns : PromptSent(k) \/ \E ok \in BOOLEAN : SnapshotSettles(k, ok)
      PROVE  UNCHANGED approvals
  BY <1>7 DEF sendPrompt, ReplayStep, ReplayNextTurn, LoadFails, LoadOk, PinSettles,
     OnlyReplay, LeaseStep, LeaseTaken, LeaseReturned, OnlyLease, CrashAfterDispose,
     PromptSent, SnapshotSettles
<1>8. QED
  BY <1>2, <1>3, <1>4, <1>5, <1>6, <1>7, TurnEither
  DEF IInv, Consent, Next, TurnStep, ApprovalStep, EndStep, vars

\* Nothing is allowed by the policy once its turn was stopped.
THEOREM NoConsentAfterStop == Spec => NoAllowAfterStop
<1>1. IInv /\ [Next]_vars =>
        [\A a \in Approvals :
           approvals[a].st # "auto" /\ approvals'[a].st = "auto"
             => approvals[a].turn \notin stopped /\ ~disposed]_vars
  BY ConsentIsFresh DEF Consents
<1>2. QED BY Invariance, <1>1, PTL DEF Spec, NoAllowAfterStop

\* A disposed controller neither posts nor touches the lease.
LEMMA DisposedStep ==
  ASSUME IInv, [Next]_vars, disposed
  PROVE  bracket' = bracket /\ (lease' # lease => LeaseStep)
<1>a. TypeOK /\ NoTurnAfterEnd /\ RunningIsLive
  BY DEF IInv, Shape, Control
<1> USE <1>a, TurnsAreNumbers
<1>1. ASSUME NEW k \in Turns, TurnReturns(k) PROVE UNCHANGED <<bracket, lease>>
  BY <1>1, ReturnEither DEF ending, NoTurnAfterEnd
<1>2. ASSUME FallbackFires PROVE UNCHANGED <<bracket, lease>>
  BY <1>2, FallbackEither DEF NoTurnAfterEnd
<1>3. ASSUME ReplayStep PROVE UNCHANGED <<bracket, lease>>
  BY <1>3 DEF ReplayStep, ReplayNextTurn, LoadFails, LoadOk, PinSettles, OnlyReplay,
     NoTurnAfterEnd
<1>4. ASSUME NEW k \in Turns, \/ TurnMoves(k) \/ PromptSent(k)
                              \/ \E ok \in BOOLEAN : SnapshotSettles(k, ok)
      PROVE  UNCHANGED <<bracket, lease>>
  BY <1>4 DEF TurnMoves, PromptSent, SnapshotSettles
<1>5. ASSUME ApprovalStep \/ CrashAfterDispose PROVE UNCHANGED <<bracket, lease>>
  BY <1>5 DEF ApprovalStep, RequestPermission, PolicyDecides, respondApproval, Expire,
     OnlyApprovals, CrashAfterDispose
<1>6. ASSUME LeaseStep PROVE UNCHANGED bracket
  BY <1>6 DEF LeaseStep, LeaseTaken, LeaseReturned, OnlyLease
<1>7. ~sendPrompt /\ ~cancel /\ ~endOnCrash /\ \A restart \in BOOLEAN : ~dispose(restart)
  BY DEF sendPrompt, Admitted, cancel, endOnCrash, dispose
<1>8. QED
  BY <1>1, <1>2, <1>3, <1>4, <1>5, <1>6, <1>7, TurnEither
  DEF IInv, Consent, Next, TurnStep, EndStep, vars

\* A disposed controller is silent, and leaves the lease to its successor.
THEOREM DisposedStaysSilent == Spec => DisposedIsSilent
<1>1. IInv /\ [Next]_vars =>
        [disposed => bracket' = bracket /\ (lease' # lease => LeaseStep)]_vars
  BY DisposedStep
<1>2. QED BY Invariance, <1>1, PTL DEF Spec, DisposedIsSilent

-----------------------------------------------------------------------------
(* The permission requests.                                                *)

\* The ways a request goes on.
Unmoved(a) == approvals'[a] = approvals[a]

Asked(a) ==
  approvals[a].st = "none" /\ ~disposed /\ approvals'[a].st = "suspended"

AnsweredWith(a, states) ==
  /\ approvals[a].st \in {"suspended", "card"}
  /\ approvals'[a].st \in states /\ approvals'[a].turn = approvals[a].turn

Refused(a) == AnsweredWith(a, {"card", "denied", "cancelled"})

Consented(a) ==
  /\ AnsweredWith(a, {"auto", "allowed"})
  /\ ~disposed /\ approvals[a].turn \notin stopped

Moves(a) == Unmoved(a) \/ Asked(a) \/ Refused(a) \/ Consented(a)

\* Settling refuses what is shown as a card.
LEMMA SettledMoves ==
  ASSUME TypeOK, settlePendingApprovals, NEW a \in Approvals
  PROVE  Unmoved(a) \/ Refused(a)
BY DEF TypeOK, settlePendingApprovals, Approval, Unmoved, Refused, AnsweredWith

\* The policy consents only to what is neither stopped nor stale.
LEMMA PolicyMoves ==
  ASSUME TypeOK, CurrentStopped, NEW a \in Approvals,
         NEW b \in Approvals, PolicyDecides(b)
  PROVE  Moves(a)
<1>1. CASE b # a
  BY <1>1 DEF PolicyDecides, Answer, TypeOK, Moves, Unmoved
<1>2. CASE b = a
  <2>1. CASE disposed \/ isStaleApprovalRegistration(approvals[a].turn)
    BY <1>2, <2>1 DEF PolicyDecides, Answer, TypeOK, Approval, Moves, Refused, AnsweredWith
  <2>2. CASE ~(disposed \/ isStaleApprovalRegistration(approvals[a].turn))
    <3>1. ~disposed /\ approvals[a].turn \notin stopped
      BY <2>2 DEF isStaleApprovalRegistration, CurrentStopped
    <3>2. QED
      BY <1>2, <2>2, <3>1
      DEF PolicyDecides, Answer, TypeOK, Approval, Moves, Refused, Consented, AnsweredWith
  <2>3. QED BY <2>1, <2>2
<1>3. QED BY <1>1, <1>2

\* Each request goes on in one of the ways, whatever step is taken.
LEMMA EachRequestMoves ==
  ASSUME IInv, [Next]_vars, NEW a \in Approvals
  PROVE  Moves(a)
<1>a. TypeOK /\ CurrentStopped /\ NoZombieCard
  BY DEF IInv, Shape, Consent
<1> USE <1>a
<1>1. ASSUME settlePendingApprovals \/ UNCHANGED approvals PROVE Moves(a)
  BY <1>1, SettledMoves DEF Moves, Unmoved
<1>2. ASSUME NEW b \in Approvals, PolicyDecides(b) PROVE Moves(a)
  BY <1>2, PolicyMoves
<1>3. ASSUME NEW b \in Approvals, RequestPermission(b) PROVE Moves(a)
  BY <1>3 DEF RequestPermission, TypeOK, Moves, Unmoved, Asked
<1>4. ASSUME NEW b \in Approvals, respondApproval(b) PROVE Moves(a)
  BY <1>4 DEF respondApproval, Answer, NoZombieCard, TypeOK, Approval,
     Moves, Unmoved, Refused, Consented, AnsweredWith
<1>5. ASSUME NEW b \in Approvals, Expire(b) PROVE Moves(a)
  BY <1>5 DEF Expire, Answer, TypeOK, Approval, Moves, Unmoved, Refused, AnsweredWith
<1>6. ASSUME NEW k \in Turns, TurnMoves(k) \/ TurnReturns(k) PROVE Moves(a)
  BY <1>1, <1>6, ReturnEither DEF TurnMoves, ending, IInv, Control
<1>7. ASSUME \/ cancel \/ FallbackFires \/ endOnCrash
             \/ \E restart \in BOOLEAN : dispose(restart)
      PROVE  Moves(a)
  BY <1>1, <1>7, FallbackEither DEF cancel, endOnCrash, dispose
<1>8. ASSUME \/ sendPrompt \/ ReplayStep \/ LeaseStep \/ CrashAfterDispose
             \/ \E k \in Turns : PromptSent(k) \/ \E ok \in BOOLEAN : SnapshotSettles(k, ok)
      PROVE  UNCHANGED approvals
  BY <1>8 DEF sendPrompt, ReplayStep, ReplayNextTurn, LoadFails, LoadOk, PinSettles,
     OnlyReplay, LeaseStep, LeaseTaken, LeaseReturned, OnlyLease, CrashAfterDispose,
     PromptSent, SnapshotSettles
<1>9. QED
  BY <1>1, <1>2, <1>3, <1>4, <1>5, <1>6, <1>7, <1>8, TurnEither
  DEF IInv, Consent, Next, TurnStep, ApprovalStep, EndStep, vars

\* So the requests of the service are answered as it allows.
LEMMA RequestsRefine ==
  ASSUME IInv, [Next]_vars
  PROVE  Service!Answers
<1>1. SUFFICES ASSUME NEW a \in Approvals
      PROVE  LET is == AnswerOf(approvals[a].st)
                 is1 == AnswerOf(approvals'[a].st)
                 t == approvals[a].turn
                 t1 == approvals'[a].turn
             IN  \/ is1 = is /\ t1 = t
                 \/ is = "none" /\ is1 = "asked" /\ ~disposed
                 \/ is = "asked" /\ is1 = "refused" /\ t1 = t
                 \/ /\ is = "asked" /\ is1 = "consented" /\ t1 = t
                    /\ ~disposed /\ t \notin stopped
  BY DEF Service!Answers
<1>2. QED
  BY EachRequestMoves
  DEF AnswerOf, Moves, Unmoved, Asked, Refused, Consented, AnsweredWith
-----------------------------------------------------------------------------
(* The turns, the lease and the end of the controller.                     *)

Quiet == UNCHANGED <<liveTurnId, bracket, lease, disposed, stopped>>

\* The five ways a turn ends are one: it closes what is open and gives back
\* the lease it holds.
LEMMA EndRefines ==
  ASSUME TypeOK, Control, liveTurnId # NoTurn,
         bracket' = TurnEnd(bracket, liveTurnId), liveTurnId' = NoTurn,
         releaseTurnLease, UNCHANGED <<disposed, stopped>>
  PROVE  Service!End
<1>1. liveTurnId \in Turns /\ bracket[liveTurnId] = "open" /\ ~disposed
  BY DEF TypeOK, Control, LiveTurnRuns, NoTurnAfterEnd
<1>2. bracket' = [bracket EXCEPT ![liveTurnId] = "closed"]
  BY <1>1 DEF TurnEnd
<1>3. lease' = "free"
  BY <1>1 DEF Control, LeaseIffLive, releaseTurnLease
<1>4. QED BY <1>1, <1>2, <1>3 DEF Service!End

\* A replayed turn is not the live one.
LEMMA ReplayIsNotLive ==
  ASSUME TypeOK, Control, Brackets, replaying \/ (loading = "pin" /\ ~disposed)
  PROVE  /\ replayTurnId \in Turns \ {liveTurnId} /\ ~disposed
         /\ bracket[replayTurnId] = "open"
<1>1. ~disposed
  BY DEF Control, NoTurnAfterEnd
<1>2. /\ replayTurnId \in Turns
      /\ bracket[replayTurnId] = "open" /\ stage[replayTurnId] = "none"
  BY DEF Brackets, ReplayIsOpen
<1>3. liveTurnId # replayTurnId
  BY <1>2, TurnsAreNumbers DEF Control, LiveTurnRuns
<1>4. QED BY <1>1, <1>2, <1>3

\* The close of a replayed turn, alone.
LEMMA ReplayCloses ==
  ASSUME TypeOK, Control, Brackets, replaying \/ (loading = "pin" /\ ~disposed),
         bracket' = TurnEnd(bracket, replayTurnId),
         UNCHANGED <<liveTurnId, lease, disposed, stopped>>
  PROVE  Service!Replays
<1>1. /\ replayTurnId \in Turns \ {liveTurnId} /\ ~disposed
      /\ bracket[replayTurnId] = "open"
  BY ReplayIsNotLive
<1>2. bracket'[replayTurnId] = "closed"
  BY <1>1, TurnEndAt
<1>3. \A k \in Turns : k # replayTurnId => bracket'[k] = bracket[k]
  BY <1>1, TurnEndAt
<1>4. QED BY <1>1, <1>2, <1>3 DEF Service!Replays

\* The history moves on: one turn closes and the next, which is new, opens.
LEMMA ReplayNextRefines ==
  ASSUME IInv, ReplayNextTurn
  PROVE  Service!Replays
<1>a. TypeOK /\ Fresh /\ Control /\ Brackets
  BY DEF IInv, Shape
<1> DEFINE n == turnCounter + 1
<1>1. n \in Turns /\ n > turnCounter /\ replaying
  BY <1>a, SessionTurnAssumption DEF ReplayNextTurn, TypeOK, Turns
<1>2. bracket[n] = "none"
  BY <1>a, <1>1 DEF Fresh
<1>3. /\ replayTurnId \in Turns \ {liveTurnId} /\ ~disposed
      /\ bracket[replayTurnId] = "open"
  BY <1>a, <1>1, ReplayIsNotLive
<1>4. bracket' = [TurnEnd(bracket, replayTurnId) EXCEPT ![n] = "open"]
  BY DEF ReplayNextTurn, TurnStart
<1>5. bracket'[replayTurnId] = "closed" /\ bracket'[n] = "open"
  BY <1>a, <1>1, <1>2, <1>3, <1>4, TurnEndAt
<1>6. \A k \in Turns : k # replayTurnId /\ k # n => bracket'[k] = bracket[k]
  BY <1>a, <1>3, <1>4, TurnEndAt
<1>7. UNCHANGED <<liveTurnId, lease, disposed, stopped>>
  BY DEF ReplayNextTurn
<1>8. QED BY <1>2, <1>3, <1>5, <1>6, <1>7 DEF Service!Replays

\* A prompt opens a turn that was never shown.
LEMMA PromptRefines ==
  ASSUME IInv, sendPrompt
  PROVE  \E k \in Turns : Service!Begin(k)
<1>a. TypeOK /\ Fresh
  BY DEF IInv, Shape
<1>1. turnCounter + 1 \in Turns /\ turnCounter + 1 > turnCounter
  BY <1>a, SessionTurnAssumption DEF sendPrompt, TypeOK, Turns
<1>2. bracket[turnCounter + 1] = "none"
  BY <1>a, <1>1 DEF Fresh
<1>3. Service!Begin(turnCounter + 1)
  BY <1>2 DEF sendPrompt, Admitted, TurnStart, Service!Begin
<1>4. QED BY <1>1, <1>3

\* A crash ends the live turn, or else the replay.
LEMMA CrashRefines ==
  ASSUME IInv, endOnCrash
  PROVE  Service!End \/ Service!Replays \/ Quiet
<1>a. TypeOK /\ Control /\ Brackets
  BY DEF IInv, Shape
<1>1. CASE liveTurnId # NoTurn
  BY <1>a, <1>1, EndRefines DEF endOnCrash, closeBracket
<1>2. CASE liveTurnId = NoTurn /\ replaying
  BY <1>a, <1>2, ReplayCloses DEF endOnCrash, closeBracket
<1>3. CASE liveTurnId = NoTurn /\ ~replaying
  BY <1>3 DEF endOnCrash, closeBracket, Quiet
<1>4. QED BY <1>1, <1>2, <1>3

\* A dispose closes what is shown as running if it is for a restart.
LEMMA DisposeRefines ==
  ASSUME IInv, NEW restart \in BOOLEAN, dispose(restart)
  PROVE  Service!Close
<1>a. TypeOK /\ Control /\ Brackets
  BY DEF IInv, Shape
<1>1. bracket' = bracket
      \/ \E k \in Turns : bracket[k] = "open" /\ bracket' = [bracket EXCEPT ![k] = "closed"]
  <2>1. CASE restart /\ liveTurnId # NoTurn
    <3>1. liveTurnId \in Turns /\ bracket[liveTurnId] = "open"
      BY <1>a, <2>1 DEF TypeOK, Control, LiveTurnRuns
    <3>2. QED
      BY <2>1, <3>1 DEF dispose, closeBracket, TurnEnd
  <2>2. CASE restart /\ liveTurnId = NoTurn /\ replaying
    <3>1. replayTurnId \in Turns /\ bracket[replayTurnId] = "open"
      BY <1>a, <2>2, ReplayIsNotLive
    <3>2. QED
      BY <2>2, <3>1 DEF dispose, closeBracket, TurnEnd
  <2>3. CASE ~restart \/ (liveTurnId = NoTurn /\ ~replaying)
    BY <2>3 DEF dispose, closeBracket
  <2>4. QED BY <2>1, <2>2, <2>3
<1>2. lease' = IF liveTurnId # NoTurn THEN "free" ELSE lease
  BY <1>a DEF dispose, releaseTurnLease, Control, LeaseIffLive
<1>3. QED BY <1>1, <1>2 DEF dispose, Service!Close

\* Stop is pressed for the current turn, if there is one.
LEMMA StopRefines ==
  ASSUME TypeOK, cancel
  PROVE  (\E k \in Turns : Service!Halt(k)) \/ Quiet
<1>1. CASE currentTurnId = NoTurn
  BY <1>1 DEF cancel, Quiet
<1>2. CASE currentTurnId # NoTurn
  <2>1. currentTurnId \in Turns
    BY <1>2 DEF TypeOK
  <2>2. Service!Halt(currentTurnId)
    BY <1>2 DEF cancel, Service!Halt
  <2>3. QED BY <2>1, <2>2
<1>3. QED BY <1>1, <1>2

\* Others take the lease only while no turn of this controller is live.
LEMMA LeaseRefines ==
  ASSUME TypeOK, Control, LeaseStep
  PROVE  Service!Share
BY DEF TypeOK, Control, LeaseIffLive, NoTurnAfterEnd, LeaseStep, LeaseTaken,
       LeaseReturned, OnlyLease, ids, Service!Share

ServiceMoves ==
  \/ \E k \in Turns : Service!Begin(k) \/ Service!Halt(k)
  \/ Service!End \/ Service!Replays \/ Service!Share \/ Service!Close
  \/ Quiet

\* Every step of the controller is a move of the service, or none.
LEMMA ControlRefines ==
  ASSUME IInv, [Next]_vars
  PROVE  ServiceMoves
<1>a. TypeOK /\ Control /\ Brackets
  BY DEF IInv, Shape
<1> USE <1>a
<1>1. ASSUME sendPrompt \/ cancel \/ endOnCrash
             \/ \E restart \in BOOLEAN : dispose(restart)
      PROVE  ServiceMoves
  BY <1>1, PromptRefines, StopRefines, CrashRefines, DisposeRefines DEF ServiceMoves
<1>2. ASSUME NEW k \in Turns, TurnReturns(k) PROVE ServiceMoves
  <2>1. CASE UNCHANGED ending
    BY <1>2, <2>1 DEF TurnReturns, ending, ServiceMoves, Quiet
  <2>2. CASE ~ UNCHANGED ending
    <3>1. /\ currentTurnId = k /\ liveTurnId = k /\ liveTurnId' = NoTurn
          /\ releaseTurnLease /\ bracket' = TurnEnd(bracket, liveTurnId)
      BY <1>2, <2>2, ReturnEither DEF Control
    <3>2. liveTurnId # NoTurn
      BY <3>1, TurnsAreNumbers
    <3>3. Service!End
      BY <1>2, <3>1, <3>2, EndRefines DEF TurnReturns
    <3>4. QED BY <3>3 DEF ServiceMoves
  <2>3. QED BY <2>1, <2>2
<1>3. ASSUME FallbackFires PROVE ServiceMoves
  <2>1. UNCHANGED <<disposed, stopped>>
    BY <1>3 DEF FallbackFires
  <2>2. CASE UNCHANGED <<ids, lease, bracket>>
    BY <2>1, <2>2 DEF ids, ServiceMoves, Quiet
  <2>3. CASE ~ UNCHANGED <<ids, lease, bracket>>
    <3>1. Service!End
      BY <1>3, <2>1, <2>3, FallbackEither, EndRefines
    <3>2. QED BY <3>1 DEF ServiceMoves
  <2>4. QED BY <2>2, <2>3
<1>4. ASSUME LoadFails \/ PinSettles PROVE ServiceMoves
  <2>1. UNCHANGED <<liveTurnId, lease, disposed, stopped>>
    BY <1>4 DEF LoadFails, PinSettles, OnlyReplay, ids
  <2>2. CASE bracket' = bracket
    BY <2>1, <2>2 DEF ServiceMoves, Quiet
  <2>3. CASE bracket' # bracket
    <3>1. Service!Replays
      BY <1>4, <2>1, <2>3, ReplayCloses DEF LoadFails, PinSettles
    <3>2. QED BY <3>1 DEF ServiceMoves
  <2>4. QED BY <2>2, <2>3
<1>5. ASSUME ReplayNextTurn \/ LeaseStep PROVE ServiceMoves
  BY <1>5, ReplayNextRefines, LeaseRefines DEF ServiceMoves
<1>6. ASSUME \/ LoadOk \/ CrashAfterDispose \/ ApprovalStep
             \/ \E k \in Turns : \/ PromptSent(k) \/ TurnMoves(k)
                                  \/ \E ok \in BOOLEAN : SnapshotSettles(k, ok)
      PROVE  Quiet
  BY <1>6 DEF LoadOk, OnlyReplay, CrashAfterDispose, ApprovalStep, RequestPermission,
     PolicyDecides, respondApproval, Expire, OnlyApprovals, PromptSent, TurnMoves,
     SnapshotSettles, ids, Quiet
<1>7. ASSUME UNCHANGED vars PROVE Quiet
  BY <1>7 DEF vars, ids, Quiet
<1>8. QED
  BY <1>1, <1>2, <1>3, <1>4, <1>5, <1>6, <1>7, TurnEither
  DEF IInv, Consent, Next, TurnStep, ReplayStep, EndStep, ServiceMoves

-----------------------------------------------------------------------------
(* The refinement.                                                         *)

\* SessionTurn implements TurnService: whatever ends a turn, however late its
\* function finds out, and whoever else uses the lease, the webview is told of
\* each turn once, and the agent is given no consent for what was stopped.
THEOREM Refinement == Spec => ImplementsTurnService
<1>1. Init => Service!Init
  BY DEF Init, Service!Init, AnswerOf
<1>2. IInv /\ [Next]_vars => [Service!Next]_(Service!serviceVars)
  BY RequestsRefine, ControlRefines DEF Service!Next, ServiceMoves, Quiet
<1>3. QED
  BY <1>1, <1>2, Invariance, PTL DEF Spec, ImplementsTurnService, Service!Spec
=============================================================================
