------------------------------ MODULE EditPolicy ------------------------------
(***************************************************************************)
(* What becomes of a permission request of the agent: the decision table   *)
(* of policy/editPolicy.ts, and SessionController.handlePermission, which  *)
(* resolves the paths of the request, awaits that, and then decides with   *)
(* the preset, the custom mode and the turn of that moment.                *)
(*                                                                         *)
(* A path stands for a canonical one: what is asked of it is whether it    *)
(* lies outside the workspace, is a secret, is protected by name, or is    *)
(* matched by a rule of the mode.  A rule is the set of paths it matches.  *)
(* Module SessionTurn has the cards and the turns in full; here a request  *)
(* is over when it is answered or shown.                                   *)
(***************************************************************************)
EXTENDS Integers, FiniteSets

CONSTANTS Paths,         \* what an edit may name
          Outside,       \* outside the workspace
          Secret,        \* isSecretForEditFloor
          Guarded,       \* classifyPath(..).protected
          SettingsFiles, \* the files that hold talaria.customModes
          Scopes,        \* configurations of the custom mode
          MaxPaths,      \* bound: paths of one request
          MaxTurns       \* bound: turns

ASSUME EditPolicyAssumption ==
  /\ Outside \cup Secret \cup Guarded \cup SettingsFiles \subseteq Paths
  /\ Scopes \subseteq [deny : SUBSET Paths, allowOnly : SUBSET Paths, positive : BOOLEAN]
  /\ MaxPaths \in Nat /\ MaxTurns \in Nat

VARIABLES activePreset,
          activeCustomMode, \* the snapshot of the mode, NoFloor without one
          configured,       \* the mode in the settings, on disk: one scope or none
          policyTurn,       \* the turn that began last, 0: none did
          turnOver,         \* that turn is cancelled, or currentTurnId is undefined
          turnProtected,    \* currentTurnProtected
          request,          \* the request that waits for its paths, or NoRequest
          reply,          \* what became of the last one
          picked            \* history: the mode as it was configured when the user picked it

turnVars == <<policyTurn, turnOver, turnProtected>>
modeVars == <<activeCustomMode, picked>>
editPolicyVars == <<activePreset, modeVars, configured, turnVars, request, reply>>

Presets == {"normal", "manual", "strict", "plan"}
Commands == {"none", "plain", "dangerous"}
Outcomes == {"allow", "ask", "deny"}

\* allowOnly of a floor counts only if it is positive.
Floors == [deny : SUBSET Paths, allowOnly : SUBSET Paths, positive : BOOLEAN]
NoFloor == [deny |-> {}, allowOnly |-> {}, positive |-> FALSE]
NoRequest == [paths |-> {}, command |-> "none", edit |-> FALSE, turn |-> -1]

\* What the agent may ask: an edit of paths, a command, both, or neither.
Asked == {q \in [paths : SUBSET Paths, command : Commands, edit : BOOLEAN, turn : 0 .. MaxTurns] :
            Cardinality(q.paths) <= MaxPaths}

EditPolicyTypeOK ==
  /\ activePreset \in Presets
  /\ activeCustomMode \in Floors /\ picked \subseteq Scopes /\ configured \subseteq Scopes
  /\ policyTurn \in 0 .. MaxTurns
  /\ turnOver \in BOOLEAN /\ turnProtected \in BOOLEAN
  /\ request \in Asked \cup {NoRequest}
  /\ reply \in {"none", "allowed", "card", "errorCard", "refused"}

-------------------------------------------------------------------------------
\* The decision table.

\* violatesModeFloor.
Violates(path, floor) == path \in floor.deny \/ (floor.positive /\ path \notin floor.allowOnly)

\* The rows of evaluateEditPolicy that deny an edit: P1, and "plan" in F1 and
\* F2; F1 and F-M, a mode; F2, S1 and S2 under "strict".
Denied(preset, paths, floor, protected) ==
  \/ preset = "plan"
  \/ paths = {} /\ floor.positive
  \/ \E p \in paths : Violates(p, floor)
  \/ /\ preset = "strict" /\ paths # {}
     /\ ~ protected \/ paths \cap (Secret \cup Outside) # {}

\* N1, the only row that allows; F2 asks about a secret before it.
SafeEdit(preset, paths, protected) ==
  /\ preset = "normal" /\ protected
  /\ paths # {} /\ paths \cap (Secret \cup Outside \cup Guarded) = {}

EditOutcome(preset, paths, floor, protected) ==
  IF Denied(preset, paths, floor, protected) THEN "deny"
  ELSE IF SafeEdit(preset, paths, protected) THEN "allow" ELSE "ask"

\* The rows of a command (F1, F3, F4).
CommandOutcome(preset, command) ==
  IF command = "dangerous" /\ preset \in {"strict", "plan"} THEN "deny" ELSE "ask"

\* buildPresentEffectSignals: each effect that is present; without one, what
\* the request says it is, and a command without a text is one to ask about.
Effects(preset, q, floor, protected) ==
  IF q.paths = {} /\ q.command = "none"
  THEN {IF q.edit THEN EditOutcome(preset, {}, floor, protected) ELSE "ask"}
  ELSE (IF q.paths = {} THEN {} ELSE {EditOutcome(preset, q.paths, floor, protected)})
         \cup (IF q.command = "none" THEN {} ELSE {CommandOutcome(preset, q.command)})

\* pickStrictest.
Strictest(outcomes) ==
  IF "deny" \in outcomes THEN "deny" ELSE IF "ask" \in outcomes THEN "ask" ELSE "allow"

Decision(preset, q, floor, protected) == Strictest(Effects(preset, q, floor, protected))

\* buildModeFloorSnapshot of the configuration found, if one is.
Snapshot(found) ==
  IF found = {} THEN NoFloor
  ELSE LET scope == CHOOSE s \in found : TRUE
       IN [scope EXCEPT !.deny = @ \cup SettingsFiles]

-------------------------------------------------------------------------------
EditPolicyInit ==
  /\ activePreset = "manual" /\ activeCustomMode = NoFloor /\ picked = {}
  /\ configured \in {{}} \cup {{s} : s \in Scopes}
  /\ policyTurn = 0 /\ turnOver = TRUE /\ turnProtected = FALSE
  /\ request = NoRequest /\ reply = "none"

\* setPreset.
PickPreset(preset) ==
  /\ activePreset # preset
  /\ activePreset' = preset
  /\ UNCHANGED <<modeVars, configured, turnVars, request, reply>>

\* setCustomMode: the mode is read from the settings as they are now.
PickMode ==
  /\ activeCustomMode' = Snapshot(configured) /\ picked' = configured
  /\ UNCHANGED <<activePreset, configured, turnVars, request, reply>>

ClearMode ==
  /\ activeCustomMode' = NoFloor /\ picked' = {}
  /\ UNCHANGED <<activePreset, configured, turnVars, request, reply>>

\* Mutant: the mode in force follows the settings.
SettingsChangeFollowed ==
  /\ configured' \in {{}} \cup {{s} : s \in Scopes}
  /\ activeCustomMode' = IF picked = {} THEN NoFloor ELSE Snapshot(configured')
  /\ UNCHANGED <<activePreset, picked, turnVars, request, reply>>

\* The settings are edited, by the user or by the agent: the user is told, and
\* the mode in force stays (handleCustomModesConfigChanged).
SettingsChange ==
  /\ configured' \in {{}} \cup {{s} : s \in Scopes}
  /\ UNCHANGED <<activePreset, modeVars, turnVars, request, reply>>

\* The turn, as far as a decision looks at it.  A snapshot may settle late,
\* for a turn that is over (module SessionTurn).
TurnBegins ==
  /\ policyTurn < MaxTurns
  /\ policyTurn' = policyTurn + 1 /\ turnOver' = FALSE
  /\ UNCHANGED <<activePreset, modeVars, configured, turnProtected, request, reply>>

TurnSnapshot ==
  /\ policyTurn > 0
  /\ turnProtected' \in BOOLEAN
  /\ UNCHANGED <<activePreset, modeVars, configured, policyTurn, turnOver, request, reply>>

\* Stop, the force-end, a crash, or dispose.
TurnGone ==
  /\ ~ turnOver /\ turnOver' = TRUE
  /\ UNCHANGED <<activePreset, modeVars, configured, policyTurn, turnProtected, request, reply>>

-------------------------------------------------------------------------------
\* handlePermission, until the paths are resolved.
PermissionAsked(paths, command, edit) ==
  /\ request = NoRequest
  /\ request' = [paths |-> paths, command |-> command, edit |-> edit, turn |-> policyTurn]
  /\ reply' = "none"
  /\ UNCHANGED <<activePreset, modeVars, configured, turnVars>>

\* disposed, and isStaleApprovalRegistration.
Stale == turnOver \/ request.turn # policyTurn

\* The options of a request may lack the one that allows once.
Decided ==
  /\ request # NoRequest /\ request' = NoRequest
  /\ reply' \in
       IF Stale THEN {"refused"}
       ELSE LET decision == Decision(activePreset, request, activeCustomMode, turnProtected)
            IN (IF decision = "deny" THEN {"refused"} ELSE {"card"})
                 \cup (IF decision = "allow" THEN {"allowed"} ELSE {})
  /\ UNCHANGED <<activePreset, modeVars, configured, turnVars>>

\* The mapping or the resolution throws: a card with what is known, unless the
\* turn is gone.
InterceptionFails ==
  /\ request # NoRequest /\ request' = NoRequest
  /\ reply' = IF Stale THEN "refused" ELSE "errorCard"
  /\ UNCHANGED <<activePreset, modeVars, configured, turnVars>>

EditPolicyNext ==
  \/ \E preset \in Presets : PickPreset(preset)
  \/ PickMode \/ ClearMode \/ SettingsChange
  \/ TurnBegins \/ TurnSnapshot \/ TurnGone
  \/ \E q \in Asked : q.turn = policyTurn /\ PermissionAsked(q.paths, q.command, q.edit)
  \/ Decided \/ InterceptionFails

EditPolicySpec == EditPolicyInit /\ [][EditPolicyNext]_editPolicyVars

-------------------------------------------------------------------------------
\* The paths the mode that the user picked lets the agent edit, as the mode was
\* written then; not the settings that hold it.
InScope ==
  {p \in Paths : \A s \in picked :
     p \notin s.deny \cup SettingsFiles /\ (s.positive => p \in s.allowOnly)}

\* Nothing is edited without the user unless the user chose that: under the
\* preset "normal" now, in the turn that asked, protected and not stopped, only
\* known plain files of the workspace in the scope picked, and with no command
\* beside them.  And the user is not asked for what the user has ruled out: no
\* card for an edit under "plan" or beyond the scope picked.  Preset, mode,
\* settings and turn change while the paths are resolved
\* (SessionController.ts:1027-1077, editPolicy.ts:141-255).
ConsentIsEarned ==
  [][request # NoRequest /\ request' = NoRequest =>
       /\ reply' = "allowed" =>
            /\ activePreset = "normal" /\ request.paths # {} /\ request.command = "none"
            /\ request.paths \subseteq InScope \ (Outside \cup Secret \cup Guarded)
            /\ turnProtected /\ request.turn = policyTurn /\ ~ turnOver
       /\ reply' = "card" /\ request.paths # {} =>
            activePreset # "plan" /\ request.paths \subseteq InScope]_editPolicyVars
===============================================================================
