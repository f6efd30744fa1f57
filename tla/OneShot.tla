------------------------------- MODULE OneShot --------------------------------
(***************************************************************************)
(* One-shot model calls (oneshot/OneShotRunner.ts) and their one caller,   *)
(* the generation of a commit message (scm/generateCommitCommand.ts).      *)
(*                                                                         *)
(* A call is a number, and so is its session.  Its caller waits as long as *)
(* the call holds the lease of the root, which the turns of tabs take too  *)
(* (module SessionTurn).  Its body may go on after the caller was answered *)
(* by the deadline, and notices at its next await.  What only continues    *)
(* promises within the extension is part of the step that settles them.    *)
(* The prompt, the diff and the wording of the results are left out.       *)
(***************************************************************************)
EXTENDS Integers, Sequences, SequencesExt

CONSTANTS MaxCalls,    \* bound: calls of the command
          MaxIds,      \* MAX_ONESHOT_SESSION_IDS
          MaxClients,  \* bound: clients of the agent
          MaxEdits     \* bound: texts the user types into the commit box

ASSUME OneShotAssumption ==
  /\ MaxCalls \in Nat /\ MaxIds \in Nat \ {0} /\ MaxClients \in Nat \ {0} /\ MaxEdits \in Nat

VARIABLES oneShots,    \* the calls so far
          rootLease,   \* who holds the root: a call, Turn or Nobody
          client,      \* the client of the connection, counted
          connected,   \* it is up
          ephemeral,   \* the calls whose collector gets the updates of its session
          oneShotIds,  \* OneShotSessionRegistry, oldest first
          storedIds,   \* what workspaceState holds of it
          boxBefore,   \* what was in the box before the placeholder (preWriteText)
          commitBox,   \* the pieces of the box: Placeholder, Message, texts of the user
          drafts,      \* history: the texts the user has there
          adopted,     \* history: the user edited around a placeholder
          forgotten    \* history: ids the registry evicted, or a reload lost

clientVars == <<client, connected>>
idVars == <<oneShotIds, storedIds, forgotten>>
boxVars == <<boxBefore, commitBox, drafts, adopted>>
oneShotVars == <<oneShots, rootLease, clientVars, ephemeral, idVars, boxVars>>

Turn == 0
Nobody == -1
Placeholder == 0
Message == -1

Bodies == {"git", "new", "mode", "snapshot", "prompt", "done", "gone"}
ShotIds == 1 .. Len(oneShots)

OneShotTypeOK ==
  /\ Len(oneShots) <= MaxCalls
  /\ \A n \in ShotIds : LET s == oneShots[n] IN
       /\ s.body \in Bodies /\ s.collector \in {"none", "live", "settled"}
       /\ s.client \in 0 .. client
       /\ {s.known, s.timedOut, s.cancelled, s.prompting, s.stopped, s.reclaimed} \subseteq BOOLEAN
  /\ rootLease \in {Nobody, Turn} \cup ShotIds
  /\ client \in 1 .. MaxClients /\ connected \in BOOLEAN
  /\ ephemeral \cup forgotten \subseteq ShotIds
  /\ \A ids \in {oneShotIds, storedIds} : Len(ids) <= MaxIds /\ Range(ids) \subseteq ShotIds
  /\ adopted \in BOOLEAN

OneShotInit ==
  /\ oneShots = <<>> /\ rootLease = Nobody /\ client = 1 /\ connected = TRUE
  /\ ephemeral = {} /\ oneShotIds = <<>> /\ storedIds = <<>> /\ boxBefore = <<>>
  /\ commitBox = <<>> /\ drafts = <<>> /\ adopted = FALSE /\ forgotten = {}

ShotAlive(n) == connected /\ oneShots[n].client = client

-------------------------------------------------------------------------------
\* What the steps share.

\* Mutant: the text is written over whatever the box holds.
BoxWithAnyway(text) == text

\* writeIfBoxUnchanged: the box of the command, unless the user changed it.
BoxWith(text) == IF commitBox = <<Placeholder>> \o boxBefore THEN text ELSE commitBox

\* The caller, if it still waits, gets a result, gives the lease back and writes
\* the message, or what was in the box before.
Answered(n, usable) ==
  IF rootLease # n THEN UNCHANGED <<rootLease, commitBox, boxBefore>>
  ELSE /\ rootLease' = Nobody
       /\ commitBox' = BoxWith(IF usable /\ ~ oneShots[n].cancelled
                               THEN <<Message>> \o boxBefore ELSE boxBefore)
       /\ boxBefore' = <<>>

\* The body returns, having asked for the deletion of its session or not.
Ended(s) == [s EXCEPT !.body = "done"]
Reclaimed(s) == [s EXCEPT !.reclaimed = TRUE]

\* settle: once, and session.delete is sent, which may fail.
ShotSettled(s) == IF s.collector = "live" THEN Reclaimed([s EXCEPT !.collector = "settled"]) ELSE s

-------------------------------------------------------------------------------
\* The command.

Generate ==
  /\ Len(oneShots) < MaxCalls
  /\ oneShots' = Append(oneShots,
       [body |-> "git", client |-> 0, known |-> FALSE, timedOut |-> FALSE,
        cancelled |-> FALSE, collector |-> "none", prompting |-> FALSE, stopped |-> FALSE,
        reclaimed |-> FALSE])
  /\ UNCHANGED <<rootLease, clientVars, ephemeral, idVars, boxVars>>

\* The repository was read.  Without changes, after a cancel, and when oneShot
\* refuses, the command ends and the box is as before; else the placeholder is
\* in the box, the root is the call's, and session/new is sent.
GitAnswers(n) ==
  /\ oneShots[n].body = "git"
  /\ \/ /\ oneShots' = [oneShots EXCEPT ![n] = Ended(@)]
        /\ UNCHANGED <<rootLease, commitBox, boxBefore>>
     \/ /\ ~ oneShots[n].cancelled /\ connected /\ rootLease = Nobody
        /\ rootLease' = n
        /\ boxBefore' = commitBox /\ commitBox' = <<Placeholder>> \o commitBox
        /\ oneShots' = [oneShots EXCEPT ![n].body = "new", ![n].client = client]
  /\ UNCHANGED <<clientVars, ephemeral, idVars, drafts, adopted>>

\* The cancel button: the box is put back at once, the call goes on.
CancelGeneration(n) ==
  /\ ~ oneShots[n].cancelled /\ (oneShots[n].body = "git" \/ rootLease = n)
  /\ oneShots' = [oneShots EXCEPT ![n].cancelled = TRUE]
  /\ commitBox' = IF rootLease = n THEN BoxWith(boxBefore) ELSE commitBox
  /\ UNCHANGED <<rootLease, clientVars, ephemeral, idVars, boxBefore, drafts, adopted>>

\* The user types a text of its own, or clears the box (a commit does).
EditBox ==
  /\ \/ /\ Len(drafts) < MaxEdits
        /\ drafts' = Append(drafts, Len(drafts) + 1)
        /\ commitBox' = Append(commitBox, Len(drafts'))
        /\ adopted' = (adopted \/ Placeholder \in Range(commitBox))
     \/ commitBox # <<>> /\ commitBox' = <<>> /\ drafts' = <<>> /\ adopted' = FALSE
  /\ UNCHANGED <<oneShots, rootLease, clientVars, ephemeral, idVars, boxBefore>>

-------------------------------------------------------------------------------
\* The body, runOneShotBody.

\* record: the oldest id leaves a full registry.
RecordedIds(n) ==
  LET ids == Append(oneShotIds, n)
  IN IF Len(ids) > MaxIds THEN Tail(ids) ELSE ids

\* recordOneShotSessionId; the update of workspaceState may fail.
Record(n) ==
  /\ oneShotIds' = RecordedIds(n) /\ storedIds' \in {storedIds, oneShotIds'}
  /\ forgotten' = forgotten \cup (Range(oneShotIds) \ Range(oneShotIds'))

\* session/new answers: too late, and the session is cancelled and deleted, or
\* its collector is registered, and the mode is set unless it is the default.
NewSessionAnswers(n) ==
  /\ oneShots[n].body = "new" /\ ShotAlive(n)
  /\ Record(n)
  /\ IF oneShots[n].timedOut
     THEN /\ oneShots' = [oneShots EXCEPT ![n] = [Ended(Reclaimed(@)) EXCEPT !.known = TRUE]]
          /\ UNCHANGED ephemeral
     ELSE /\ ephemeral' = ephemeral \cup {n}
          /\ \E body \in {"mode", "snapshot"} :
               oneShots' = [oneShots EXCEPT ![n].body = body, ![n].collector = "live",
                                            ![n].known = TRUE]
  /\ UNCHANGED <<rootLease, clientVars, boxVars>>

NewSessionFails(n) ==
  /\ oneShots[n].body = "new" /\ ShotAlive(n)
  /\ oneShots' = [oneShots EXCEPT ![n] = Ended(@)]
  /\ Answered(n, FALSE)
  /\ UNCHANGED <<clientVars, ephemeral, idVars, drafts, adopted>>

\* The checkpoint before the prompt comes next, unless the deadline passed.
ModeAnswers(n) ==
  /\ oneShots[n].body = "mode" /\ ShotAlive(n)
  /\ oneShots' = [oneShots EXCEPT ![n].body = IF oneShots[n].timedOut THEN "done" ELSE "snapshot"]
  /\ UNCHANGED <<rootLease, clientVars, ephemeral, idVars, boxVars>>

\* The catch: the collector goes, and the session is deleted.
ModeFails(n) ==
  /\ oneShots[n].body = "mode" /\ ShotAlive(n)
  /\ oneShots' = [oneShots EXCEPT ![n] = Ended(Reclaimed(@))]
  /\ ephemeral' = ephemeral \ {n}
  /\ Answered(n, FALSE)
  /\ UNCHANGED <<clientVars, idVars, drafts, adopted>>

\* Mutant: the deadline is not looked at again before the prompt.
LateAnyway(s) == FALSE

Late(s) == s.timedOut

\* The checkpoint is stored, fails or is not there.  The prompt goes out unless
\* the deadline passed; that of a dead client is rejected, and the result of the
\* crash is the answer.
SnapshotEnds(n) ==
  LET s == oneShots[n] IN
  /\ s.body = "snapshot"
  /\ IF Late(s) \/ ~ ShotAlive(n)
     THEN /\ oneShots' = [oneShots EXCEPT ![n] = Ended(@)]
          /\ Answered(n, FALSE)
     ELSE /\ oneShots' = [oneShots EXCEPT ![n].body = "prompt", ![n].prompting = TRUE]
          /\ UNCHANGED <<rootLease, commitBox, boxBefore>>
  /\ UNCHANGED <<clientVars, ephemeral, idVars, drafts, adopted>>

\* session/prompt answers or fails: the collector settles, if nothing did before.
PromptEnds(n, usable) ==
  /\ oneShots[n].prompting /\ ShotAlive(n)
  /\ oneShots' = [oneShots EXCEPT ![n] = [Ended(ShotSettled(@)) EXCEPT !.prompting = FALSE]]
  /\ ephemeral' = ephemeral \ {n}
  /\ Answered(n, usable /\ oneShots[n].collector = "live")
  /\ UNCHANGED <<clientVars, idVars, drafts, adopted>>

\* A tool call of a kind a one-shot must not make: the session is cancelled and
\* the call fails (OneShotCollector.collect).
Tripwire(n) ==
  /\ n \in ephemeral /\ oneShots[n].prompting /\ ShotAlive(n) /\ oneShots[n].collector = "live"
  /\ oneShots' = [oneShots EXCEPT ![n] = [Ended(ShotSettled(@)) EXCEPT !.stopped = TRUE]]
  /\ Answered(n, FALSE)
  /\ UNCHANGED <<clientVars, ephemeral, idVars, drafts, adopted>>

\* The timer of runOneShot: a session that is known is cancelled and settled.
Deadline(n) ==
  LET s == oneShots[n] IN
  /\ rootLease = n
  /\ oneShots' = [oneShots EXCEPT ![n] =
       [ShotSettled(s) EXCEPT !.timedOut = TRUE, !.stopped = s.prompting,
                          !.body = IF s.prompting THEN "done" ELSE s.body]]
  /\ ephemeral' = ephemeral \ {n}
  /\ Answered(n, FALSE)
  /\ UNCHANGED <<clientVars, idVars, drafts, adopted>>

-------------------------------------------------------------------------------
\* Around it.

TurnTakesRoot ==
  /\ connected /\ rootLease = Nobody /\ rootLease' = Turn
  /\ UNCHANGED <<oneShots, clientVars, ephemeral, idVars, boxVars>>

TurnLeavesRoot ==
  /\ rootLease = Turn /\ rootLease' = Nobody
  /\ UNCHANGED <<oneShots, clientVars, ephemeral, idVars, boxVars>>

\* What a body is after its client died: a pending request was rejected, which
\* ends it, and settleAll settled its collector.
Crashed(n) ==
  LET s == oneShots[n]
      settled == IF n \in ephemeral THEN ShotSettled(s) ELSE s
  IN IF s.client # client THEN s
     ELSE CASE s.body = "mode" -> Ended(Reclaimed(settled))
            [] s.body \in {"new", "prompt"} -> [Ended(settled) EXCEPT !.prompting = FALSE]
            [] OTHER -> [settled EXCEPT !.prompting = FALSE]

\* teardownForRespawn and teardownSession: the turn ends, the call fails, but one
\* that takes its checkpoint keeps its caller waiting.
ClientDies ==
  /\ connected /\ connected' = FALSE
  /\ oneShots' = [n \in ShotIds |-> Crashed(n)]
  /\ ephemeral' = {}
  /\ IF rootLease = Turn THEN rootLease' = Nobody /\ UNCHANGED <<commitBox, boxBefore>>
     ELSE IF rootLease \in ShotIds /\ oneShots[rootLease].body # "snapshot"
     THEN Answered(rootLease, FALSE)
     ELSE UNCHANGED <<rootLease, commitBox, boxBefore>>
  /\ UNCHANGED <<idVars, client, drafts, adopted>>

Reconnected ==
  /\ ~ connected /\ client < MaxClients
  /\ client' = client + 1 /\ connected' = TRUE
  /\ UNCHANGED <<oneShots, rootLease, ephemeral, idVars, boxVars>>

\* The window reloads: the registry is what workspaceState holds of it, and a
\* placeholder stays in the box.
ReloadWindow ==
  /\ client < MaxClients /\ client' = client + 1 /\ connected' = TRUE
  /\ oneShots' = [n \in ShotIds |-> [oneShots[n] EXCEPT !.body = "gone", !.prompting = FALSE]]
  /\ rootLease' = Nobody /\ ephemeral' = {} /\ boxBefore' = <<>>
  /\ oneShotIds' = storedIds /\ UNCHANGED storedIds
  /\ forgotten' = forgotten \cup (Range(oneShotIds) \ Range(storedIds))
  /\ adopted' = (adopted \/ Placeholder \in Range(commitBox))
  /\ UNCHANGED <<commitBox, drafts>>

OneShotNext ==
  \/ Generate \/ EditBox \/ TurnTakesRoot \/ TurnLeavesRoot
  \/ ClientDies \/ Reconnected \/ ReloadWindow
  \/ \E n \in ShotIds :
       \/ GitAnswers(n) \/ CancelGeneration(n)
       \/ NewSessionAnswers(n) \/ NewSessionFails(n) \/ ModeAnswers(n) \/ ModeFails(n)
       \/ SnapshotEnds(n) \/ Tripwire(n) \/ Deadline(n)
       \/ \E usable \in BOOLEAN : PromptEnds(n, usable)

-------------------------------------------------------------------------------
\* A one-shot the agent works on and that nobody cancelled holds the root: it
\* never works beside a turn of a tab or another one-shot, and never after its
\* deadline (runOneShotBody looks at it after each await).
PromptHoldsRoot ==
  \A n \in ShotIds : oneShots[n].prompting /\ ~ oneShots[n].stopped => rootLease = n

\* A session the agent answered with does not stay behind: once its body has
\* ended, session.delete was asked for, and its collector is gone as soon as no
\* prompt is out, whichever of the answer, the deadline, the tripwire, a failure
\* and a crash came first.
MintedIsReclaimed ==
  \A n \in ShotIds : oneShots[n].body = "done" =>
    /\ oneShots[n].known => oneShots[n].reclaimed
    /\ n \in ephemeral => oneShots[n].prompting

\* The sessions panel leaves out every one-shot session the agent answered with
\* and still has, whether or not its deletion succeeded, up to what the bound of
\* the registry and failed saves forget (TG-5, reshapeSessionsList).
HistoryHidesOneShots ==
  \A n \in ShotIds : oneShots[n].known => n \in Range(oneShotIds) \cup forgotten

OneShotContained == PromptHoldsRoot /\ MintedIsReclaimed /\ HistoryHidesOneShots

\* What the user typed into the commit box is never overwritten: it stands there
\* whole, below what the command wrote.  And the placeholder does not stay after
\* the command, but where the user edited around it (the compare-and-swap of
\* generateCommitMessage).
BoxIsUsers ==
  /\ \E n \in 0 .. Len(commitBox) :
       /\ \A k \in 1 .. n : commitBox[k] \in {Placeholder, Message}
       /\ SubSeq(commitBox, n + 1, Len(commitBox)) = drafts
  /\ Placeholder \in Range(commitBox) =>
       adopted \/ (rootLease > 0 /\ ~ oneShots[rootLease].cancelled)
===============================================================================
