----------------------------- MODULE MCServices ------------------------------
(***************************************************************************)
(* The components that share no state with the agent's sessions, in one    *)
(* run: `running` names the one that takes the steps of a behaviour, and   *)
(* the others keep their initial state.  No variable of one occurs in      *)
(* another, so that interleaving two of them would reach nothing new.      *)
(***************************************************************************)
EXTENDS ShadowLock, TrackerRegistry, ControlChannel, ControlOps, RagIndex,
        DashboardManager, NextEdit, Setup, Provision, Completion, ApiKey, OneShot,
        Transcript, EditPolicy, LspHost, LspTools, PanelSync, ModelSwitch,
        ViewReload

VARIABLE running

\* Constants that are no model value.
MCTexts == {<<"a", "b">>}
MCFolderLists == {<<"w", "wn">>, <<"wn">>}
MCHolds == {<<"w", "wn">>}
MCCanon == [f \in {"w", "wn"} |-> IF f = "w" THEN "realw" ELSE f]
MCScopes == {[deny |-> {}, allowOnly |-> {"src"}, positive |-> TRUE],
             [deny |-> {"src"}, allowOnly |-> {}, positive |-> FALSE]}
MCOpKind == [op \in {"t", "a", "i"} |->
               CASE op = "t" -> "toggle" [] op = "a" -> "change" [] OTHER -> "install"]
MCAsked == <<3, 2>>
MCOpName == [op \in {"t", "a", "i"} |-> IF op = "i" THEN "a" ELSE op]

vars == <<running, lockVars, registryVars, channelVars, controlVars, ixVars,
          dashVars, nextEditVars, setupVars, provisionVars, completionVars,
          keyVars, oneShotVars, transcriptVars, editPolicyVars, lspHostVars, lspToolsVars,
          panelSyncVars, modelVars, viewReloadVars>>

\* A component that does not run starts in one of its initial states.  The
\* workspace opens with one file; its versions are symmetric.
Init ==
  /\ running \in {"lock", "registry", "channel", "control", "index",
                  "dashboard", "nextEdit", "setup", "provision",
                  "completion", "apiKey", "oneShot", "transcript", "policy",
                  "lspHost", "lspTools", "panel", "model", "reload"}
  /\ LockInit
  /\ RegistryInit /\ (running # "registry" => folders = <<"wn">>)
  /\ ChannelInit /\ ControlOpsInit
  /\ IxInit /\ \A p \in IxPaths :
       content[p] = IF running = "index" /\ p = "a" THEN "v1" ELSE "absent"
  /\ DashboardInit /\ (running # "dashboard" => shape)
  /\ NextEditInit /\ (running # "nextEdit" => Len(text) = 1)
  /\ SetupInit /\ (running # "setup" => agent.path)
  /\ ProvisionInit /\ (running # "provision" => ~ placed)
  /\ CompletionInit /\ (running # "completion" => document.context \in Blocked)
  /\ ApiKeyInit /\ (running # "apiKey" => keyring /\ setting = 0)
  /\ OneShotInit /\ TranscriptInit
  /\ EditPolicyInit /\ (running # "policy" => configured = {})
  /\ LspHostInit /\ (running # "lspHost" => backendKind = "mock")
  /\ LspToolsInit /\ (running # "lspTools" => symbolDoc.text = CHOOSE x \in DocTexts : TRUE)
  /\ PanelSyncInit /\ ModelInit /\ ViewReloadInit

\* What the step of one component leaves alone.
Only(name) ==
  /\ running = name /\ UNCHANGED running
  /\ IF name = "lock" THEN TRUE ELSE UNCHANGED lockVars
  /\ IF name = "registry" THEN TRUE ELSE UNCHANGED registryVars
  /\ IF name = "channel" THEN TRUE ELSE UNCHANGED channelVars
  /\ IF name = "control" THEN TRUE ELSE UNCHANGED controlVars
  /\ IF name = "index" THEN TRUE ELSE UNCHANGED ixVars
  /\ IF name = "dashboard" THEN TRUE ELSE UNCHANGED dashVars
  /\ IF name = "nextEdit" THEN TRUE ELSE UNCHANGED nextEditVars
  /\ IF name = "setup" THEN TRUE ELSE UNCHANGED setupVars
  /\ IF name = "provision" THEN TRUE ELSE UNCHANGED provisionVars
  /\ IF name = "completion" THEN TRUE ELSE UNCHANGED completionVars
  /\ IF name = "apiKey" THEN TRUE ELSE UNCHANGED keyVars
  /\ IF name = "oneShot" THEN TRUE ELSE UNCHANGED oneShotVars
  /\ IF name = "transcript" THEN TRUE ELSE UNCHANGED transcriptVars
  /\ IF name = "policy" THEN TRUE ELSE UNCHANGED editPolicyVars
  /\ IF name = "lspHost" THEN TRUE ELSE UNCHANGED lspHostVars
  /\ IF name = "lspTools" THEN TRUE ELSE UNCHANGED lspToolsVars
  /\ IF name = "panel" THEN TRUE ELSE UNCHANGED panelSyncVars
  /\ IF name = "model" THEN TRUE ELSE UNCHANGED modelVars
  /\ IF name = "reload" THEN TRUE ELSE UNCHANGED viewReloadVars

Next ==
  \/ Only("lock") /\ LockNext
  \/ Only("registry") /\ RegistryNext
  \/ Only("channel") /\ ChannelNext
  \/ Only("control") /\ ControlOpsNext
  \/ Only("index") /\ IxNext
  \/ Only("dashboard") /\ DashboardNext
  \/ Only("nextEdit") /\ NextEditNext
  \/ Only("setup") /\ SetupNext
  \/ Only("provision") /\ ProvisionNext
  \/ Only("completion") /\ CompletionNext
  \/ Only("apiKey") /\ ApiKeyNext
  \/ Only("oneShot") /\ OneShotNext
  \/ Only("transcript") /\ TranscriptNext
  \/ Only("policy") /\ EditPolicyNext
  \/ Only("lspHost") /\ LspHostNext
  \/ Only("lspTools") /\ LspToolsNext
  \/ Only("panel") /\ PanelSyncNext
  \/ Only("model") /\ ModelNext
  \/ Only("reload") /\ ViewReloadNext

Spec == Init /\ [][Next]_vars

\* The type invariant of each component.
ServicesTypeOK ==
  CASE running = "lock"      -> LockTypeOK
    [] running = "registry"  -> RegistryTypeOK
    [] running = "channel"   -> ChannelTypeOK
    [] running = "control"   -> ControlOpsTypeOK
    [] running = "index"     -> IndexTypeOK
    [] running = "dashboard" -> DashboardTypeOK
    [] running = "nextEdit"  -> NextEditTypeOK
    [] running = "setup"     -> SetupTypeOK
    [] running = "provision" -> ProvisionTypeOK
    [] running = "completion" -> CompletionTypeOK
    [] running = "apiKey" -> ApiKeyTypeOK
    [] running = "oneShot" -> OneShotTypeOK
    [] running = "transcript" -> TranscriptTypeOK
    [] running = "policy" -> EditPolicyTypeOK
    [] running = "lspHost" -> LspHostTypeOK
    [] running = "lspTools" -> LspToolsTypeOK
    [] running = "panel" -> PanelSyncTypeOK
    [] running = "model" -> ModelTypeOK
    [] running = "reload" -> ViewReloadTypeOK

\* One child process at a time: of the control channel, and of the dashboard.
AtMostOneChild == OneControlChild /\ OneDashboardChild

\* The key in use is the stored one, and the migration does not lose one, but for
\* a key that was read back from a storage in memory.
KeyKept == KeyIsLatest /\ KeySurvives

\* The panel shows what was written, or an add that failed is undone or said.
WritesShown == PanelReflectsWrites /\ AddUndoneOrDisclosed

\* A one-shot run ends without a trace in the agent or the history, and the
\* commit box keeps what the user wrote.
OneShotKept == OneShotContained /\ BoxIsUsers

\* The server of the language tools is advertised only while it is there, and
\* what it answers from its cache is current.
LspIsHonest == ServerIsOurs /\ SymbolsAreCurrent

\* What the webview shows is so: the transcript of a turn, the switch of a panel
\* and its data, the model of a session, and the tabs of a page that was made again.
ViewIsTrue ==
  /\ TranscriptIsTrue
  /\ NoDeadSpinner /\ SwitchIsHonest /\ WishIsShown
  /\ ModelIsTrue
  /\ OneTabShows /\ PageShowsItsSessions /\ DraftsReturn

\* Every card of the setup and of the downloads ends in what is so.
CardsSettle == SetupSettles /\ PullsSettle
==============================================================================
