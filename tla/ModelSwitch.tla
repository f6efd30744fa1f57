----------------------------- MODULE ModelSwitch -----------------------------
(***************************************************************************)
(* The model of one session: what the agent uses, what its controller      *)
(* believes and what the tab shows.  backend/session/SessionController.ts  *)
(* (setModel), webview/src/hooks/useHostActions.ts and the folds of        *)
(* model.state and hydrate.                                                *)
(*                                                                         *)
(* A pick shows at once, takes its time to reach the host, and asks the    *)
(* agent, which answers when it likes.  A message of the host is folded    *)
(* when it is posted, as in PanelSync.                                     *)
(***************************************************************************)
EXTENDS Naturals

CONSTANTS Models,         \* the models of the agent
          DefaultModel,   \* the one a session starts with
          NoModel,        \* null
          MaxPicks,       \* bound: picks of the user
          MaxControllers  \* bound: controllers of the session

ASSUME ModelSwitchAssumption ==
  /\ DefaultModel \in Models /\ NoModel \notin Models
  /\ {MaxPicks, MaxControllers} \subseteq Nat /\ MaxControllers # 0

VARIABLES pick,           \* the picks, in the order of the clicks
          controller,     \* the number of the session's controller
          detached,       \* it was disposed and has no successor yet
          childUp,        \* getClient() is defined
          modelSwitchSeq,
          currentModelId,
          agentModel,     \* the model the agent uses in the session
          agentBy,        \* history: the pick it took last, 0 if none
          shownModel      \* currentModelId of the tab

modelVars == <<pick, controller, detached, childUp, modelSwitchSeq, currentModelId,
               agentModel, agentBy, shownModel>>
believed == <<controller, detached, childUp, modelSwitchSeq, currentModelId>>

Picks == 1 .. MaxPicks
NoPick == [phase |-> "none", model |-> NoModel, of |-> 0, seq |-> 0, previous |-> NoModel]

ModelTypeOK ==
  /\ \A i \in Picks : pick[i].phase \in
       {"none", "sent", "asked", "applied", "refused", "settled", "overtaken"}
  /\ controller \in 1 .. MaxControllers /\ {detached, childUp} \subseteq BOOLEAN
  /\ modelSwitchSeq \in 0 .. MaxPicks /\ agentBy \in 0 .. MaxPicks
  /\ currentModelId \in Models /\ agentModel \in Models /\ shownModel \in Models \cup {NoModel}

ModelInit ==
  /\ pick = [i \in Picks |-> NoPick]
  /\ controller = 1 /\ detached = FALSE /\ childUp = TRUE /\ modelSwitchSeq = 0
  /\ currentModelId = DefaultModel /\ agentModel = DefaultModel /\ agentBy = 0
  /\ shownModel = DefaultModel

\* useHostActions.setModel: local.setModel shows the model, and the host is told.
PickModel ==
  \E i \in Picks, m \in Models \ {shownModel} :
    /\ pick[i] = NoPick /\ \A j \in 1 .. i - 1 : pick[j] # NoPick
    /\ pick' = [pick EXCEPT ![i].phase = "sent", ![i].model = m]
    /\ shownModel' = m
    /\ UNCHANGED <<believed, agentModel, agentBy>>

\* setModel.  Without a controller the pick is dropped; without a client the tab
\* goes back to the model before it.
PickArrives(i) ==
  /\ pick[i].phase = "sent" /\ \A j \in 1 .. i - 1 : pick[j].phase # "sent"
  /\ IF detached
     THEN /\ pick' = [pick EXCEPT ![i].phase = "settled"]
          /\ UNCHANGED <<modelSwitchSeq, shownModel>>
     ELSE /\ modelSwitchSeq' = modelSwitchSeq + 1
          /\ pick' = [pick EXCEPT ![i] =
               [@ EXCEPT !.phase = IF childUp THEN "asked" ELSE "settled", !.of = controller,
                         !.seq = modelSwitchSeq + 1, !.previous = currentModelId]]
          /\ shownModel' = IF childUp THEN shownModel ELSE currentModelId
  /\ UNCHANGED <<controller, detached, childUp, currentModelId, agentModel, agentBy>>

\* session/set_model, which the agent may take out of order.
AgentTakes(i) ==
  /\ pick[i].phase = "asked" /\ childUp /\ pick[i].of = controller
  /\ pick' = [pick EXCEPT ![i].phase = "applied"]
  /\ agentModel' = pick[i].model /\ agentBy' = i
  /\ UNCHANGED <<believed, shownModel>>

AgentRefuses(i) ==
  /\ pick[i].phase = "asked" /\ childUp /\ pick[i].of = controller
  /\ pick' = [pick EXCEPT ![i].phase = "refused"]
  /\ UNCHANGED <<believed, agentModel, agentBy, shownModel>>

Superseded(i) == pick[i].of = controller /\ pick[i].seq # modelSwitchSeq
OfDetached(i) == pick[i].of # controller \/ detached

\* The resolve arm of setModel.
PickResolves(i) ==
  /\ pick[i].phase = "applied"
  /\ pick' = [pick EXCEPT ![i].phase = IF Superseded(i) THEN "overtaken" ELSE "settled"]
  /\ IF Superseded(i) \/ OfDetached(i) THEN UNCHANGED <<currentModelId, shownModel>>
     ELSE IF ~ childUp THEN shownModel' = pick[i].previous /\ UNCHANGED currentModelId
     ELSE currentModelId' = pick[i].model /\ shownModel' = pick[i].model
  /\ UNCHANGED <<controller, detached, childUp, modelSwitchSeq, agentModel, agentBy>>

\* The agent refused, or the call lost the race against the exit of its child.
CallRejected(i) ==
  \/ pick[i].phase = "refused"
  \/ pick[i].phase \in {"asked", "applied"} /\ (~ childUp \/ pick[i].of # controller)

\* Mutant: a refusal snaps back although a newer pick has been made.
PickRejectedUnguarded(i) ==
  /\ CallRejected(i)
  /\ pick' = [pick EXCEPT ![i].phase = "settled"]
  /\ shownModel' = IF OfDetached(i) THEN shownModel ELSE pick[i].previous
  /\ UNCHANGED <<believed, agentModel, agentBy>>

\* The reject arm of setModel.
PickRejected(i) ==
  /\ CallRejected(i)
  /\ pick' = [pick EXCEPT ![i].phase = "settled"]
  /\ shownModel' = IF Superseded(i) \/ OfDetached(i) THEN shownModel ELSE pick[i].previous
  /\ UNCHANGED <<believed, agentModel, agentBy>>

\* The child dies: the client goes first, then the controllers are disposed.
ClientGone ==
  /\ childUp /\ childUp' = FALSE
  /\ UNCHANGED <<pick, controller, detached, modelSwitchSeq, currentModelId,
                 agentModel, agentBy, shownModel>>

ControllerDisposed ==
  /\ ~ childUp /\ ~ detached /\ detached' = TRUE
  /\ UNCHANGED <<pick, controller, childUp, modelSwitchSeq, currentModelId,
                 agentModel, agentBy, shownModel>>

\* The recovery loads the session into a new controller, and loadReplayOutcome
\* takes the model the agent reports.
SessionRecovered ==
  /\ detached /\ controller < MaxControllers
  /\ controller' = controller + 1 /\ detached' = FALSE /\ childUp' = TRUE
  /\ modelSwitchSeq' = 0
  /\ agentModel' \in {agentModel, DefaultModel} /\ agentBy' = 0
  /\ currentModelId' = agentModel' /\ shownModel' = agentModel'
  /\ UNCHANGED pick

\* The webview is reloaded, and listTabs seeds the tab.
TabHydrated ==
  /\ shownModel' = IF detached THEN NoModel ELSE currentModelId
  /\ UNCHANGED <<pick, believed, agentModel, agentBy>>

ModelNext ==
  \/ PickModel \/ ClientGone \/ ControllerDisposed \/ SessionRecovered \/ TabHydrated
  \/ \E i \in Picks :
       PickArrives(i) \/ AgentTakes(i) \/ AgentRefuses(i) \/ PickResolves(i) \/ PickRejected(i)

-----------------------------------------------------------------------------
\* When no pick is under way the tab shows what the controller believes, and the
\* controller believes what the agent uses, unless the agent took last a pick
\* whose answer a newer one had overtaken (SessionController.ts:186-195, 847-862).
ModelIsTrue ==
  (childUp /\ \A i \in Picks : pick[i].phase \in {"none", "settled", "overtaken"})
    => /\ shownModel = currentModelId
       /\ \/ agentBy # 0 /\ pick[agentBy].phase = "overtaken"
          \/ currentModelId = agentModel
=============================================================================
