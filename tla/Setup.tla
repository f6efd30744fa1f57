-------------------------------- MODULE Setup --------------------------------
(* The agent card of the Setup panel: the install and the recheck of         *)
(* SetupController, its memo of the search for Hermes, and the pushes of     *)
(* SetupData by the view provider.                                           *)
(*                                                                           *)
(* A handler that ends is followed by the provider's own push; a bumpStatus  *)
(* it makes right before is superseded on the spot and not shown.            *)
EXTENDS Naturals

CONSTANT MaxPushes   \* bound: pushes of SetupData in flight

ASSUME SetupAssumption == MaxPushes \in Nat \ {0}

VARIABLES setupOpen,   \* the lifecycle gate has not closed
          setupHeld,   \* the keys of LatchRegistry.latches
          setupAborted,  \* the handlers whose signal is aborted
          installAt,   \* where handleInstall is
          rechecking,  \* handleRecheck awaits locatePipx
          agent,       \* hermesPath is set, lastAgentIssue, awaitingReload
          memo,        \* hermesDiscoveryMemo
          fetches,     \* status() calls whose result will be posted
          panel        \* the phase the webview shows, and who posted it

setupVars == <<setupOpen, setupHeld, setupAborted, installAt, rechecking,
               agent, memo, fetches, panel>>
handlers == <<setupOpen, setupHeld, setupAborted, installAt, rechecking>>

AgentPhases == {"installing", "awaiting-reload", "installed", "issue", "missing"}
StatusSlots == 0 .. MaxPushes      \* slot 0 is a fetch of the webview
NoStatus == [newest |-> FALSE, path |-> FALSE, on |-> FALSE]
NoMemo == [value |-> "unsettled", inFlight |-> FALSE, live |-> FALSE]

\* Types of the variables, and: a handler holds its latch until it ends or the
\* gate closes.
SetupTypeOK ==
  /\ setupOpen \in BOOLEAN /\ rechecking \in BOOLEAN
  /\ setupHeld \subseteq {"install", "recheck"}
  /\ setupAborted \subseteq {"install", "recheck"}
  /\ installAt \in {"idle", "modal", "locating", "installing", "writing"}
  /\ agent \in [path : BOOLEAN, issue : BOOLEAN, reload : BOOLEAN]
  /\ memo \in [value : {"unsettled", "found", "missing"}, inFlight : BOOLEAN,
               live : BOOLEAN]
  /\ fetches \in [StatusSlots -> [newest : BOOLEAN, path : BOOLEAN, on : BOOLEAN]]
  /\ panel \in [by : {"none", "push", "fetch", "failed"}, phase : AgentPhases]
  /\ setupOpen => /\ "install" \in setupHeld <=> installAt # "idle"
                  /\ "recheck" \in setupHeld <=> rechecking
  /\ setupOpen \/ setupHeld = {}

------------------------------------------------------------------------------
(* SettledProbeMemo.  A superseded probe settles nothing, so only the probe  *)
(* of the current epoch is kept, as "live".                                  *)

Kick(m) == IF m.value = "unsettled" /\ ~m.inFlight
             THEN [m EXCEPT !.inFlight = TRUE, !.live = TRUE] ELSE m

\* Mutant: a probe in flight still counts as one of the new epoch.
InvalidateValueOnly(m) == [m EXCEPT !.value = "unsettled", !.live = FALSE]
Invalidate(m) == NoMemo

\* The head of status(): the probe is kicked only while no path is configured.
KickOn(m, path) == IF path THEN m ELSE Kick(m)

\* computeAgentPhase, in the tail of status(): the path was read at its head.
AgentPhase(path) ==
  IF "install" \in setupHeld THEN "installing"
  ELSE IF agent.reload THEN "awaiting-reload"
  ELSE IF path \/ memo.value = "found" THEN "installed"
  ELSE IF agent.issue THEN "issue" ELSE "missing"

(* pushSetupPanelData up to the first await of status(): the older pushes    *)
(* become stale, and what they read is dropped.  m is the memo before; slots *)
(* differ in nothing but their name, and the first free one is taken.        *)
SetupPush(m, path) ==
  \E s \in StatusSlots \ {0} :
    /\ ~fetches[s].on /\ \A t \in 1 .. s - 1 : fetches[t].on
    /\ fetches' = [t \in StatusSlots |->
                     IF t = s THEN [newest |-> TRUE, path |-> path, on |-> TRUE]
                     ELSE IF t = 0 THEN fetches[t]
                     ELSE [NoStatus EXCEPT !.on = fetches[t].on]]
    /\ memo' = KickOn(m, path)

(* bumpStatus: the disposed emitter fires nothing.                           *)
Bump(m, path) == IF setupOpen THEN SetupPush(m, path)
                              ELSE UNCHANGED fetches /\ memo' = m

------------------------------------------------------------------------------
SetupInit ==
  /\ setupOpen = TRUE /\ setupHeld = {} /\ setupAborted = {}
  /\ installAt = "idle" /\ rechecking = FALSE
  /\ agent \in [path : BOOLEAN, issue : {FALSE}, reload : {FALSE}]
  /\ memo = NoMemo /\ fetches = [s \in StatusSlots |-> NoStatus]
  /\ panel = [by |-> "none", phase |-> "missing"]

\* latches.has and latches.arm: the closed gate refuses.
Armed(k) ==
  /\ setupOpen /\ k \notin setupHeld
  /\ setupHeld' = setupHeld \cup {k} /\ setupAborted' = setupAborted \ {k}
  /\ UNCHANGED setupOpen

\* The finally of a handler, and the push of the provider when it returned.
Released(k, path) ==
  /\ setupHeld' = setupHeld \ {k} /\ setupAborted' = setupAborted \ {k}
  /\ SetupPush(memo, path) /\ UNCHANGED <<setupOpen, panel>>

InstallMoves(from, to) ==
  /\ installAt = from /\ installAt' = to
  /\ UNCHANGED <<setupOpen, setupHeld, setupAborted, rechecking, agent, panel>>

(* handleInstall                                                             *)
InstallRequested ==
  /\ installAt = "idle" /\ Armed("install") /\ installAt' = "modal"
  /\ agent' = [agent EXCEPT !.issue = FALSE]
  /\ UNCHANGED <<rechecking, memo, fetches, panel>>

InstallConfirmed ==
  InstallMoves("modal", "locating") /\ Bump(memo, agent.path)

InstallDeclined ==
  /\ installAt = "modal" /\ installAt' = "idle"
  /\ Released("install", agent.path) /\ UNCHANGED <<rechecking, agent>>

PipxLocated ==
  /\ "install" \notin setupAborted /\ InstallMoves("locating", "installing")
  /\ UNCHANGED <<memo, fetches>>

HermesInstalled ==
  /\ "install" \notin setupAborted /\ InstallMoves("installing", "writing")
  /\ UNCHANGED <<memo, fetches>>

\* onInstallEvent 'failed', before the rejection reaches handleInstall.
FailedEvent ==
  /\ installAt = "installing" /\ ~agent.issue
  /\ agent' = [agent EXCEPT !.issue = TRUE]
  /\ Bump(memo, agent.path) /\ UNCHANGED <<handlers, panel>>

\* No pipx, a failed install, or a failed write: the path may be written.
InstallFails ==
  /\ installAt \in {"locating", "installing", "writing"} /\ installAt' = "idle"
  /\ \E path \in {agent.path, agent.path \/ installAt = "writing"} :
       /\ agent' = [agent EXCEPT !.issue = TRUE, !.path = path]
       /\ Released("install", path)
  /\ UNCHANGED rechecking

SettingsWritten ==
  /\ installAt = "writing" /\ installAt' = "idle"
  /\ agent' = [agent EXCEPT !.path = TRUE, !.reload = TRUE]
  /\ Released("install", TRUE) /\ UNCHANGED rechecking

(* handleRecheck with scope agent: one that runs answers the later ones too. *)
RecheckStarts ==
  /\ ~rechecking /\ Armed("recheck") /\ rechecking' = TRUE
  /\ memo' = Invalidate(memo) /\ UNCHANGED <<installAt, agent, fetches, panel>>

RecheckJoins ==
  /\ "recheck" \in setupHeld /\ SetupPush(Invalidate(memo), agent.path)
  /\ UNCHANGED <<handlers, agent, panel>>

RecheckEnds ==
  /\ rechecking /\ rechecking' = FALSE /\ Released("recheck", agent.path)
  /\ \E issue \in BOOLEAN : agent' = [agent EXCEPT !.issue = issue]
  /\ UNCHANGED installAt

(* handleCancel: the wire names install or pull, never the recheck.          *)
CancelInstall ==
  /\ "install" \in setupHeld \ setupAborted
  /\ setupAborted' = setupAborted \cup {"install"}
  /\ SetupPush(memo, agent.path)
  /\ UNCHANGED <<setupOpen, setupHeld, installAt, rechecking, agent, panel>>

(* The settle of the probe of the current epoch.                             *)
DiscoverySettles ==
  /\ memo.live
  /\ \E v \in {"found", "missing"} :
       Bump([value |-> v, inFlight |-> FALSE, live |-> FALSE], agent.path)
  /\ UNCHANGED <<handlers, agent, panel>>

\* handleSetupPanelFetch: the request of the webview takes no sequence number.
ViewFetches ==
  /\ ~fetches[0].on
  /\ fetches' = [fetches EXCEPT ![0] = [newest |-> TRUE, path |-> agent.path,
                                        on |-> TRUE]]
  /\ memo' = KickOn(memo, agent.path) /\ UNCHANGED <<handlers, agent, panel>>

\* The tail of status(), and the check of the sequence number.
StatusPosts(s) ==
  /\ fetches[s].on /\ fetches' = [fetches EXCEPT ![s] = NoStatus]
  /\ panel' = IF fetches[s].newest
                THEN [by |-> IF s = 0 THEN "fetch" ELSE "push",
                      phase |-> AgentPhase(fetches[s].path)]
                ELSE panel
  /\ UNCHANGED <<handlers, agent, memo>>

\* The keychain rejects, so status() does: a push is only logged.
StatusFails(s) ==
  /\ fetches[s].on /\ fetches' = [fetches EXCEPT ![s] = NoStatus]
  /\ panel' = IF fetches[s].newest /\ s # 0 THEN [panel EXCEPT !.by = "failed"]
                                            ELSE panel
  /\ UNCHANGED <<handlers, agent, memo>>

(* dispose                                                                   *)
SetupDispose ==
  /\ setupOpen /\ setupOpen' = FALSE
  /\ setupAborted' = setupAborted \cup setupHeld /\ setupHeld' = {}
  /\ memo' = [memo EXCEPT !.live = FALSE]
  /\ UNCHANGED <<installAt, rechecking, agent, fetches, panel>>

SetupNext ==
  \/ InstallRequested \/ InstallConfirmed \/ InstallDeclined \/ PipxLocated
  \/ HermesInstalled \/ FailedEvent \/ InstallFails \/ SettingsWritten
  \/ RecheckStarts \/ RecheckJoins \/ RecheckEnds \/ CancelInstall
  \/ DiscoverySettles \/ ViewFetches \/ SetupDispose
  \/ \E s \in StatusSlots : StatusPosts(s) \/ StatusFails(s)

------------------------------------------------------------------------------
(* When nothing of Setup is under way, the card that the last push painted   *)
(* is what status() would say now, and the search for Hermes it needed has   *)
(* settled.  Installs, rechecks, probes and pushes overlap, and each changes *)
(* part of what the card shows: a memo that stays in flight for ever, or a   *)
(* push that an older one overtakes, leaves a card that nothing repairs      *)
(* (settledProbeMemo.ts:72-79, SetupController.ts:1608-1667,                 *)
(* TalariaViewProvider.ts:1202-1214).  A fetch of the webview, which the     *)
(* sequence number does not order, is exempt.                                *)
SetupSettles ==
  /\ setupOpen /\ setupHeld = {} /\ ~memo.live
  /\ \A s \in StatusSlots : ~fetches[s].on
  /\ panel.by = "push"
  => /\ panel.phase = AgentPhase(agent.path)
     /\ agent.path \/ memo.value # "unsettled"
=============================================================================
