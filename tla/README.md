# Verification of Talaria Code

Talaria Code is a VS Code extension that puts a chat agent in the editor. The
extension host spawns the agent as a child process and speaks ACP with it (one
child, many sessions); a webview shows one tab per session. Around that core are
checkpoints of the workspace, an index of its code, inline completion, next-edit
proposals, a control channel to the agent's gateway and a Setup panel. This
directory holds TLA+ models of the parts whose correctness depends on the order
of events, the TLC runs that check them on small instances, and TLAPS proofs for
every instance.

Paths below are relative to the repository root; `backend/` stands for
`src/host/backend/`.

## 1. Inventory

| Component | State it keeps | Operations | Hard behaviour |
|---|---|---|---|
| `ConnectionSupervisor` (`backend/connection`) | connection state, client, respawn timer, recovery snapshot, the serial tail of topology requests | start, reconnect, crash, respawn, recover, teardown | a crash at any await, retries, a common budget for the recovery of several sessions |
| `SessionRegistry` (`backend/session`) | session id -> controller and tab | open, close, getByTabId, disposeAll | deferred removal, eviction of a stale controller |
| `AcpBackend` (`backend`) | tombstones of closes, edit policy, abandoned `session/new` calls | tab open / close / load / New Session, prompt admission, dispose | calls that arrive while others wait on the tail; answers after the deadline |
| `SessionController` (`backend/session`) | live turn, epoch, pending approvals, parked diffs, replay, model, preset, custom mode | prompt, cancel, approve, set model / preset / mode, load replay, end on crash | updates of an old turn that arrive in a new one; approvals pending when their turn ends; model picks that settle out of order |
| `acpClient` (`backend/acp`) | the child, pending calls | newSession, loadSession, prompt, cancel | exit of the child under pending calls, deadlines |
| View provider (`src/host/TalariaViewProvider.ts`) | the webview, backend wiring | routing of the webview's messages, hydrate | a page that is lost and made again |
| Webview tab state (`webview/src/state`) | tabs, their binding and transcript, panels and switches, drafts, banner | folds of the host's messages, local tab actions | messages for tabs that were closed, ids that moved between tabs, deltas and ends out of order |
| Webview app shell (`webview/src/App.tsx`, `rpc.ts`) | pending requests | posts the user's requests | requests before any session exists, answers to a page that is gone |
| Root lease (`src/host/checkpoints/RootCoordinator.ts`) | the holder of the turn lease of a workspace root, ordinals | acquire, release | holders that come and go under one session id |
| Checkpoints (`src/host/checkpoints`) | shadow git repository, its index and lock file, one tracker per root | snapshot, restore, undo, redo, reconcile of the roots | two windows on one repository, a crash inside an operation, stale locks, folders that change meanwhile |
| One-shot runner (`backend/oneshot`, `src/scm`) | ephemeral sessions, the lease, the commit box | run, settle all, cancel | a deadline that races the whole body, a second caller, a user who types |
| Control channel (`src/host/control`, `src/host/transport`) | gateway child, pending calls, backoff | start, dispatch, respawn, dispose | readiness handshake, pending calls at exit |
| Control dispatch and panels (`backend/control`) | config write tail, single-flight slots, panel fetch numbers | fetches, toggles and admin operations | results that arrive out of order, a rollback that fails |
| Edit policy and confinement (`backend/policy`, `backend/acp`) | preset, mode as picked, protection of the turn | decide, canonicalise, open, write | a decision made after an await |
| Autocomplete (`src/autocomplete`) | debounce, in-flight request, cache, API key | complete, cancel, rebuild, key change | a completion for an edited document, reads of the key out of order |
| Next edit (`src/autocomplete/nextedit`) | proposal, its region, the Tab key | trigger, accept, dismiss | a proposal carried over edits |
| RAG index (`src/rag`) | store, manifest, watch queue | build, watch, search | an event during a build, a failure between store and manifest |
| LSP MCP server (`src/mcp/lsp`) | listener, advertisement, pool, cache | bind, rebind, dispose, tools | a listener that nobody closes, a cache under a version that restarts |
| Setup and provisioning (`src/host/setup`) | latches, aborts, memo of the discovery, progress | install, recheck, pull, cancel | two routes to one model, overlapping pushes |
| Dashboard manager (`src/host/dashboard`) | memo of an attempt, a server child | ensure, dispose | an attempt that outlives its child |
| Wire protocol (`src/shared/protocol.ts`) | none | message types | none |

How they interact. The webview posts messages to the view provider, which calls
`AcpBackend`. Operations that change the topology (start, reconnect, open, close,
New Session, load) run one at a time on the supervisor's tail
(`runOnStartTail`); a prompt, a crash of the child, a timer and `dispose` do not
and may come at any `await` of the request that runs. The backend answers with
messages (`tab.bound`, `tab.error`, `tab.clear`, `system.error`,
`system.recovered`) that the webview folds into its tabs. A turn takes the lease
of its workspace root, which one-shots and restores take as well, and is
bracketed by two snapshots of the checkpoint tracker of that root. Panels are
filled by correlated requests; toggles and admin operations go to the control
dispatch, which talks to the gateway over the control channel and to the
dashboard's server over HTTP. The Setup panel, the index and the completions
share nothing with the sessions but settings.

What makes them correct:

- supervisor, registry, router: at most one controller per tab; a tab that
  offers a composer has someone behind it or its user was told; a turn ends with
  its session or child; an outage always has a retry; what the user closed stays
  closed; dispose is final; the tail never wedges; every open is answered.
- controller: one live turn at a time; each prompt ends once; each approval is
  answered once, to the turn that asked; nothing of a cancelled turn reaches the
  next one; replay does not interleave with a live turn.
- webview: the transcript is what was said and decided; a switch shows what is
  saved or says that it is not; no spinner for ever; a page that was made again
  shows the sessions that live, and the text that was not sent.
- checkpoints: nothing captured is lost; the guard before a restore is neither
  fooled nor stuck; redo leads back; two windows never hold the lock at once.
- policy: an edit is allowed unasked only under what the user picked, in a turn
  that has a checkpoint.
- one-shot: its lease is released however the body ends, and its session leaves
  no trace; what the user wrote into the commit box stays.
- control channel, dashboard: one child at a time.
- control dispatch: what was reported as done is in the configuration and shown.
- autocomplete, next edit: nothing computed for an old version is shown or
  applied; a key is not lost and the newest one is used.
- RAG: the manifest claims a file only with its rows, and no event is lost.
- LSP server: advertised only while it is there; its cache is current.
- setup: every card ends, and ends in what is so.

## 2. Plan

The order puts what the user relies on most first. Everything below is written
and checked unless it is listed as left.

1. `TabView`, `Topology`, `Topology_proofs`: connection, sessions, tabs.
2. `SessionTurn`, `SessionTurn_proofs`: one controller. `TurnService`, the
   abstract specification it implements, with `SessionTurnRefinement`.
3. `ShadowLock` and `Checkpoints`: the lock file with several windows, steals and
   crashes; snapshots, restores and the redo pointer. `TrackerRegistry`.
4. `ControlChannel`, `ControlOps`, `DashboardManager`, `OneShot`.
5. `RagIndex`, `NextEdit`, `Completion`, `ApiKey`, `Setup`, `Provision`,
   `LspHost`, `LspTools`.
6. The webview: `Transcript`, `PanelSync`, `ModelSwitch`, `ViewReload`.
7. `EditPolicy`: the decision table and the decision of a permission request.
8. `Checkpoints_proofs`, `Services_proofs`, `Panels_proofs`, `Editor_proofs`,
   `Transcript_proofs` and `MCServices_proofs`: with those of items 1 and 2, every
   safety property of the passing runs for every value of the constants.

Of the theorems nothing is left but liveness, which the prover does not reach. Of
the models: the other cards of the Setup panel, the History loads of a tab that is
picking a model, `redoAll` as a loop, directory events of the index.

## 3. Modules

Every module says in its header what it leaves out, and every bound is a named
constant.

### TabView

`webview/src/state/transcript.ts` and `scopedFold.ts` as pure operators: a view
maps each tab to what is shown of it (`ui`, the id it names, the open-failed
marker), and every message of the host is an operator from views to views. The
code's `pending` and `unbound` bindings are one value, since neither takes
prompts and no guard of the model tells them apart. Tabs are numbered in the
order of their creation, which is also the order in which `sessionToTab` fills
its map.

### Topology

| Variable | Code |
|---|---|
| `acpState`, `acpRespawnTimer`, `pendingRecovery`, `recoveryHeld` | the fields of `ConnectionSupervisor`; `recoveryHeld` is `pendingRecovery !== undefined` |
| `client` | the ACP client: not spawned, connecting, adopted |
| `sessions` | the registry, session -> tab of its controller |
| `turns` | the controllers with a live turn |
| `pendingClose` | the tombstones of `closeTab` |
| `tail`, `cur` | the waiting requests of `runOnStartTail`; the running one and the await it is at |
| `rest` | what is left of the loop of `recoverSessions` |
| `staleMints` | `session/new` calls whose caller gave up |
| `issued` | the ids the agent has handed out |
| `view`, `banner` | the webview |
| `userClosed`, `closedLive`, `closedAway`, `cleared` | history, read by properties only: the sessions the user closed, those closed while connected, the tabs that lost their session to a close through another tab, the tabs a restart cleared |

Steps. A step is the code between two awaits. `MicrotaskDue` states when a
settled promise must resume before the event loop takes another macrotask: the
next request of a free tail, the recovery loop between two sessions, and every
call on a child that is gone (`AcpClient.raceTermination`, `settleRace`). Every
action of the user, the agent's process or a timer is a `Macrotask` and is
disabled meanwhile. An answer of the agent needs the child to be up.

A request is one action of the user that joins the tail (`UserStart`, `NewTab`,
`LoadInto`, ...), one `Begin...` action when it reaches the head, where all its
decisions are made, and one action per outcome of each await (`ResolveOk`,
`ConnectFails`, `MintOk`, `MintDeadline`, `ConfineOk`, ...). `RecoverNext` starts
one attempt of the recovery loop. The budget of the loop is a point in time that
is read again before each attempt, so `RecoverBudgetSpent` is possible after the
first attempt. `handleAcpCrash`, `dispose`, prompts and the late answer of an
abandoned mint do not go through the tail.

`dispose` stops the user's and timer's macrotasks and mutes the messages
(`Post`), as the cleared emitter does; the continuations of the running request
still run, and so do the requests that wait.

`MCTopology` holds the symmetry of the session ids, used in safety runs only.

### SessionTurn, TurnService, SessionTurnRefinement

One `SessionController`, from the constructor to `dispose`.

| Variable | Code |
|---|---|
| `turnCounter`, `currentTurnId`, `liveTurnId`, `cancelledTurnId`, `forceEndedTurnIds`, `currentTurnProtected`, `disposed` | the fields of the same names; a turn is its number, 0 is `undefined` |
| `translator` | the turn of `this.turn` |
| `cancelFallbackTimer` | the turn the timer was armed for |
| `clientUp` | `port.getClient()` is defined and its child lives |
| `lease` | `RootCoordinator.leaseHolder`: free, this session id, or another holder |
| `stage` | for each turn, the await its function is at |
| `snapshots` | the before-snapshots that have not settled |
| `loading`, `replaying`, `replayTurnId` | the await of `loadReplayOutcome`, whether `this.replay` is set, and the turn its translator is at |
| `approvals` | each permission request: suspended, shown as a card, or answered, with the turn it was born in |
| `bracket` | the `turn.start` and `turn.end` the webview received |
| `stopped`, `captured`, `covered` | history, read by properties only; `covered` are the turns with a before-checkpoint, and those without a tracker that follow one |

A turn is the asynchronous function `runTurnWithCheckpoint` and is not ended by
whoever ends the turn: Stop's fallback, a crash, a dispose and a new prompt all
leave it where it waits. It has three awaits: the *barrier* (the snapshot and the
mentions), the *preparation* (pinning the mode, confining attachments) and the
*prompt*. `BarrierPasses`, `PromptSent`, `PromptSettles` and `TurnFails` are the
steps past them, each with the checks the code makes after that await, and
`Return` is the common tail.

The root of a session may have no tracker when a prompt begins: its folder was
removed, the repository of its tracker failed to come up late, or a folder around it
was added and is the tracked one now. `sendPrompt` takes either case;
`snapshotCheckpoint` then returns at once and leaves the flag of the turn before.
Snapshots settle in any order: one tracker answers in the order it was asked, a
tracker that was removed and its successor need not.

A permission request is suspended while its paths are canonicalised
(`RequestPermission`), and `PolicyDecides` makes the checks that follow and takes
any of the outcomes of the policy (which `EditPolicy` works out): deny, ask, or
allow if the turn is protected. `settlePendingApprovals` is part of each action
whose code calls it.

The environment is the agent (it asks, answers and replays when it likes, and may
do none of them), the user, and the other holders of the lease. After a dispose
the lease may be taken again under the same session id: the registry mints the
successor of a controller under the id of the one it replaces, and the lease is
checked against the id.

`TurnService` is what a controller promises, without how: each turn is opened and
closed once for the webview, one prompted turn is live at a time and holds the
lease as long as it lives, no request of a stopped turn is consented to, and
nothing happens after the close. It has six variables; stages, the fallback, the
snapshots and the awaits of replays and requests are gone.
`SessionTurnRefinement` maps the controller to it: a suspended request and a card
are both "asked".

### EditPolicy

`policy/editPolicy.ts` and `SessionController.handlePermission`.

| Variable | Code |
|---|---|
| `activePreset`, `activeCustomMode` | the fields of the controller; the mode is the snapshot taken when it was picked |
| `configured` | `talaria.customModes` in the settings, on disk |
| `policyTurn`, `turnOver`, `turnProtected` | the turn a request belongs to, whether it is cancelled or over, `currentTurnProtected` |
| `request`, `reply` | the request that waits for its paths; what became of the last one |
| `picked` | history: the mode as it was written when the user picked it |

The table is an operator over the preset, the mode and the kind of each path: in
or out of the workspace, secret, protected by name, matched by a rule. Paths stand
for canonical ones.

### Checkpoints, ShadowLock, TrackerRegistry

`Checkpoints` is one workspace root that several windows share
(`CheckpointTracker.ts`, driven by `RootCoordinator.ts`, `SessionController.ts`
and `control/checkpointActions.ts`).

| Variable | Code |
|---|---|
| `worktree` | the live content of each path; a file over the size cutoff is live but captured as absent |
| `index` | `index.json`: rows, baseline, redo pointer, sequence |
| `borrowed`, `missing` | stored trees with objects that only the real repository has, and those with an object that was pruned |
| `op`, `jobs` | the job under the cross-process lock, and the queue of each window |
| `state`, `lease`, `turns` | of each window: its tracker, who holds the lease of the root, its last ordinal |
| `localize` | `localizePending` and its timer |
| `opens`, `edits`, `asks`, `faults` | counters of the bounds |
| `settled`, `tip`, `displaced`, `wiped`, `unflushed` | history, read by properties only |

A restore is several steps, one per write; the user edits between any two of
them, and a failure or a crash stops it half way. The lock is exclusive here;
whether it is, is the question of `ShadowLock`, where a process is a window, a
lockfile an inode and time one bit per inode: whether its mtime is older than
`staleMs`. Every system call of `acquireLock`, `tryStealStaleLock`, the heartbeat
and the release is a step, and a window may die at each.

`TrackerRegistry` is `trackerRegistry.ts`: reconcile passes in a chain, each of
which re-reads the folders, adds and removes trackers, while inits reject late and
flushes take their time.

### Control: ControlChannel, ControlOps, DashboardManager, PanelSync

`ControlChannel` is `host/control/ControlChannel.ts` over
`host/transport/JsonRpcStdio.ts`: `chState`, the published `transport`, the `child`
of each transport, the awaits of the `spawn`, the respawn timer (`retry`) and the
calls `inFlight`.

`ControlOps` is the host's side of the configuration (`backend/control/`). A short
write reads the file of the server (`readConfig`) and writes it back in two steps
on `writeTail`; an install runs off the tail; an `mcp.add` may carry a secret
(`env`), and takes back what it did when a later call fails (`disclosed` is what
its error names). `fetch`, `fetchSeq` and `pushed` are the panel.

`DashboardManager` is `HermesDashboardManager.ts`: the memoized attempt (`ready`),
the attempts that run (`bringUp`), their processes (`server`), the callers of
`ensure` that probe a memo (`probing`).

`PanelSync` is a panel with one switch, from the page to the host: `pending` and
`rpcSeq` of `RpcClient`, the `slot` of the panel (`RemoteData`), the `switch` of
`useToggle`, the `queued` toggles of `SequentialQueue`, the `jobs` of the host, its
`configTail`, `panelFetchSeq`, and what is `saved`. A message of the host is folded
when it is posted; a request of the page takes its time. Both directions are first
in, first out, and a page that delays what it reads reads nothing the host does not
know, so no order is lost. A page may be replaced (`page`), and the component of
the panel mounted again (`mount`).

### The webview: Transcript, ModelSwitch, ViewReload

`Transcript` is what one tab shows of a turn: `translator` is the
`TurnTranslator` (message buffer, open block, tool statuses), `items` the
transcript, `verdict` and `decided` the host's record of approvals and hunks,
`posts` the clicks that travel. A text is the sequence of its chunks. A post of the
host is folded in the step that makes it: the host does not read the view and a
click does not read the host, so a click that comes while posts travel has the
effect it has before them.

`ModelSwitch` is the model of a session in the three places that know it: the
agent (`agentModel`), the controller (`currentModelId`, `modelSwitchSeq`) and the
tab (`shownModel`), with up to three picks under way and a recovery meanwhile.

`ViewReload` is the page of the webview, lost and made again while sessions live
on. `strip` are the tabs, `restoredDrafts` what `getState` gave the page, `toHost`
what it posted, `hosted` each session of the registry or of `pendingRecovery`,
`liveTurns` and `tombs` (`pendingClose`). `HandleReady` is the hydrate:
`listTabs` (`Seeded`) folded by `foldHydrateReconcile` (`Hydrated`).
`TurnStarts` is the adoption of a session no tab knows. What a lost page had posted
is heard or not. `known`, the sessions the page was told of or asked for, and
`owed`, the tabs with text that was not admitted, are history.

### OneShot

`OneShotRunner.ts` and its one caller, `generateCommitCommand.ts`: `rootLease`,
the `client` and whether it is `connected`, the calls and their awaits
(`oneShots`), the collectors (`ephemeral`), `oneShotIds` (the registry of the ids
to hide) with `storedIds` (what `workspaceState` has of it, which is what a reload
of the window brings back), and the commit box with the placeholder (`commitBox`,
`boxBefore`).
`drafts`, `adopted` and `forgotten` are history. A body goes on after its caller
was answered by the deadline, and notices at its next await.

### Completion, ApiKey, NextEdit

`Completion`: the `requests` of VS Code under way, the `engines` with their
debounce sequence and cache, the item that is `offered`. `ApiKey`: `storedKey`
(SecretStorage, with or without a keyring), the deprecated `setting`, `apiKey`, the
reads under way with `keyRefreshSeq`, and the migration of `initApiKey` over two
sessions. An activation follows a quit of the editor (`Restart`), which wipes a
storage in memory, or a restart of the extension host (`HostRestarts`), which does
not. `NextEdit`: a document is a sequence of lines with their original numbers; the
`proposal` of the state machine, the decorations (`painted`), the two context keys,
the prediction and the `WorkspaceEdit` in flight, and the inline completion that
shares the key.

### RagIndex

`content` are the files, `rows` the store, `claims` the manifest, `meta` its
configuration, `timers` the debounce timers, `chain` and `job` the promise chain of
builds and events. A file is embedded in several batches, and each call of a job
may fail.

### Setup, Provision

`Setup` is the agent card: install, recheck, the memo of the discovery and the
`fetches` whose results are posted to the `panel`. `Provision` is the pull of one
model over its two routes, with their latches, aborts, throttled progress (`bar`)
and the files they leave (`placed`, `attested`).

### LspHost, LspTools

`LspHost` is `libServerHost.ts` with its registration: where the listener is
(`bound`), its one rebind, the `advertised` address, and whether the backend has it
(`registeredServer`). `LspTools` is a call of the tools: the pool (`poolActive`,
`poolQueue`), the one retry of an empty result, and the cache of the document
symbols under the version of the document.

### MCServices, MCLiveness

The components of `MCServices` share no variable, so interleaving two of them
reaches no new state of either. `MCServices` checks them in one run: `running`
names the component that takes the steps of a behaviour and the others keep an
initial state, so that the run is the union of the components' state graphs.
`MCLiveness` does the same for `Topology` and `ShadowLock` with fairness. The other
MC modules hold model values, bounds and symmetry sets only.

### The proof modules

| Module | Is about |
|---|---|
| `Topology_proofs` | `Topology` |
| `SessionTurn_proofs` | `SessionTurn`, and that it implements `TurnService` |
| `Checkpoints_proofs` | `Checkpoints` |
| `Services_proofs` | `ShadowLock`, `TrackerRegistry`, `ControlChannel`, `DashboardManager`, `RagIndex`, `ApiKey`, `LspHost`, `LspTools`, `EditPolicy` |
| `Panels_proofs` | `ControlOps`, `Setup`, `Provision`, `ModelSwitch`, `PanelSync`, `ViewReload` |
| `Editor_proofs` | `Completion`, `NextEdit`, `OneShot` |
| `Transcript_proofs` | `Transcript` |
| `MCServices_proofs` | the properties that join components: `ViewIsTrue`, `ServicesTypeOK` |

`Services_proofs`, `Panels_proofs` and `Editor_proofs` extend `MCServices`, because
some properties join two components, and `MCServices_proofs` extends all four
before it; the constants stay constants there, so the theorems hold for all their
values. See section 5.

## 4. Runs

All runs set `CHECK_DEADLOCK FALSE`: after `dispose`, or when every bounded id is
used up, the system may stop for good.

| Run | Instance | Checks | Shows |
|---|---|---|---|
| `topology` | 2 tabs, 2 sessions, every request | `TypeOK`, `OneSessionPerTab`, `NoSilentDrop`, `TurnsAreServed`, `ClosedStaysClosed` | the safety of the core, 1.5 million states |
| `session_turn` | 2 turns, 2 requests | `TypeOK`, `LeaseIffLive`, `BracketsClose`, `NoZombieCard`, `PromptIsLive`, `AutoAllowIsProtected`, `NoAllowAfterStop`, `ImplementsTurnService`, `StopEndsTurn`, `RequestsAreAnswered` | the safety of a controller; that it implements `TurnService`; that Stop ends the turn and every request is answered, even if the agent is silent; 0.9 million states |
| `liveness` | 2 tabs, 2 sessions, start, open, New Session; 2 windows on a lock | `TailDrains`, `OutageRetried`, `OpenAnswered`, `OrphanReclaimed` | nothing wedges, an outage is retried, an open is answered, the lock of a dead window is reclaimed |
| `checkpoints` | 2 windows, 2 paths, 3 rows | `CkTypeOK`, `NothingLost`, `SettledNotDirty`, `RedoReachesTip`, `BorrowedIsOwed`, `RowsKept`, `UncapturedKept` | snapshots, restores and redos of two windows with edits, failures and crashes at any step, 1.9 million states |
| `services` | see below | `ServicesTypeOK` and the properties of the next table | the other components, 1.4 million states |
| `resurrection`, `reconnecting`, `zombie_tab`, `unprotected_allow`, `checkpoint_ids`, `lock_displaced`, `next_edit_key` | as the passing run of the component, or smaller | one property each | violated: see section 6 |

The properties of `services`:

| Property | Component | States |
|---|---|---|
| `ExclusiveUntilStale` | `ShadowLock` | while no lockfile has aged, one window at most is in the locked section and its file is at the path |
| `RegistryMatchesFolders` | `TrackerRegistry` | once the passes are done, the trackers are those the folders ask for, but for roots whose current tracker failed |
| `WritesShown` | `ControlOps` | what was reported as done is in the configuration and on the panel; an add that was taken back leaves nothing its error does not name |
| `AtMostOneChild` | `ControlChannel`, `DashboardManager` | one child that was not killed, however starts, crashes and dispose overlap |
| `IndexFollowsFiles` | `RagIndex` | the manifest claims no file without its rows, and in the end every file as it is |
| `ProposalIsSound` | `NextEdit` | Tab is taken only for what is on the screen, and a proposal stands on the lines it was made for |
| `CardsSettle` | `Setup`, `Provision` | no card runs for ever, no latch stays, and what is shown is so |
| `ShownContinues` | `Completion` | what is shown continues the document as it is, as the backend of this engine answered in this context |
| `KeyKept` | `ApiKey` | the newest key is used; the migration loses no key to a storage that survives the editor, and to one in memory only a key that was read back from it |
| `OneShotKept` | `OneShot` | the lease is given back, the session is deleted or hidden, and the user's text in the box stays |
| `ViewIsTrue` | `Transcript`, `PanelSync`, `ModelSwitch`, `ViewReload` | what the webview shows is so: items, cards and hunks of a turn; the switch and the data of a panel; the model; the tabs, turns and drafts of a page that was made again |
| `LspIsHonest` | `LspHost`, `LspTools` | no listener or advertisement outlives its reason, the pool loses no slot, the cache is current |
| `ConsentIsEarned` | `EditPolicy` | see section 5 |

Bounds. `MaxTab` numbers the tabs: two are needed for a session to move between
tabs. `Sessions` bounds the ids the agent issues; once all are issued a mint can
only fail or time out. `MaxTail` is 1: a request that waits behind the running one,
and the timer's start, which is not bounded, may join them. A longer queue adds no
decision, since every request decides at the head. `UserOps` names the requests of
a run.

Two turns are what the hazards of a controller need: a turn that is stopped,
force-ended or replayed, and its successor; the invariants of the run are proved
for any number. Two requests can belong to two turns.

`Checkpoints`: two windows are needed for the races on the index; two paths for a
restore that stops half way; three rows for an undo, a second undo and the tip; two
edits, two operations asked for, one fault. Windows and paths are symmetric.
`ShadowLock`: the two windows that race, with a crash each; for the violation three
roles, of which two are played by one window after another.

The instances of `services`: folders of one workspace, one nested; three children
of the gateway; a toggle, an add and an install, and one viewer; two indexed files,
one with two versions in two batches; three attempts of the dashboard with two
callers; a document of three lines; two engines, two requests, two typed characters;
two keys; two one-shots, one of them forgotten; five events of a transcript with two
tools, one with a diff of two hunks, and a cap of two items; four paths, one of each
kind, two scopes of a mode, two turns; two tool calls on one slot; two pages with
three and two requests; two models, three picks; two tabs, three pages, two
outages, two posts on their way. Each was chosen as the smallest at which every
action of the component fires and the mutant of its property is found.

Two assumptions of these instances are worth naming. In `PanelSync` an answer that
is under way is taken to arrive before the page's 30-second timer fires, and in the
models of the webview the messages of the host are folded at once, while those of
the page travel.

Fairness. `FairSpec` of `Topology`, and its copy in `MCLiveness`, has weak fairness
of `Begin` and `Continue`: the promise chain runs its next request, and each await
settles, because each call on the child is raced against its exit and against a
deadline (`settleRace`, `raceTermination`) and the remaining awaits are local. It
has strong fairness of `RespawnTimerFires`: an armed timer of Node fires in one of
the turns of the event loop even though microtasks and restarts disable it in
between. No fairness is assumed of the user, of the agent's answers (a deadline is
as good) or of crashes.

The lock has weak fairness of `Age`, since time passes, and, per process, of its
next step in an acquire or release or of its restart: a window that wants the lock
polls for it, and the user opens a window that died again.

`FairSpec` of `SessionTurn` has weak fairness of `FallbackFires` and `Expire`,
which are timers of Node, and of `PolicyDecides`, which waits for local calls of
the file system. Nothing is assumed of the agent or the user: `StopEndsTurn` and
`RequestsAreAnswered` are promises made against an agent that never answers.

## 5. Proofs

`Topology_proofs` proves, for every number of tabs and sessions and a tail of any
length (the assumptions are `TabViewAssumption` and `TopologyAssumption`):

| Theorem | States |
|---|---|
| `TypeCorrect` | `Spec => []TypeOK` |
| `NoTabHasTwoSessions` | `Spec => []OneSessionPerTab` |
| `EveryTurnIsServed` | `Spec => []TurnsAreServed` |
| `DisposeIsFinal` | `Spec => []DisposedIsFinal` |
| `OutageHasRetry` | `Spec => []RetryPending` |
| `ClosedIsClosed` | `Spec => []ClosedStaysClosed` |
| `NobodyIsDroppedSilently` | `Spec => []NoSilentDrop` |

The inductive invariant is `IInv == Shape /\ Ownership /\ Live`.

- `Shape` adds to `TypeOK` what each queued request and each await carries
  (`Requests`: an open names a tab, a load names a session that was issued, a
  request at the confinement await is a load...) and that every id found anywhere
  was issued (`IdsIssued`). The second is why a mint cannot collide: the new id is
  in no map.
- `Ownership` is the argument for one session per tab. `OneSessionPerTab` alone
  is not inductive: a recovery registers the sessions of `rest` one by one, so
  `rest` and `pendingRecovery` must be injective themselves, and no tab of `rest`
  may be occupied; a mint may run only for a tab that is free, and stays free
  because the tail serves one request at a time. The load reads its occupant
  again after its await, so it needs no such premise.
- `Live` relates `acpState`, `client` and the await of the running request
  (`Connection`), and says which turns may exist (`Turns`).

Each part has one lemma for the initial state and one for the step, with a step of
the proof per action of `Next`. `DisposedIsFinal` and `RetryPending` are proved on
top of `IInv` and are no longer checked by a run. The parts of `IInv` were also
checked by TLC on the instance of `topology`.

The last two theorems have invariants of their own on top of `IInv`.

- `ClosedIsClosed` needs `KeptClosed`: a recovery is held only while there is no
  child, and a closed session is in no promise of recovery and, once its tombstone
  is gone, neither in the registry nor in `rest`. The three must go together: each
  of them is where a session goes next.
- `NobodyIsDroppedSilently` needs `DropInv`. A bound tab names a session
  (`BoundHasId`). `Owed` follows that session over the outage: every registered
  session is promised to the recovery or being closed (`Held`), what the loop has
  not reached has no controller (`RestFree`), and the session that is being loaded
  belongs to its tab (`CurOwns`, and `Pinned` for the one whose mode is being set).
  `Tombstones` and `Away` do the same for closes: a tombstone has its close on the
  tail, and a tab whose session is about to be closed through another tab is in
  `closedAway` already. The step lemmas rest on one fact about the view: only the
  actions that announce a binding bind a tab (`BindsTab`), and every other one
  leaves a tab that stays bound as it was (`BoundStays`).

The proof found a flaw of the model. `NoSilentDrop` used to excuse a tab whose
session was closed by naming the session, which is right with two tabs and wrong
with three: when a closed session is loaded into a third tab it counts as open
again, and the tab that lost it to the close is no longer excused. TLC shows it with
`MaxTab = 2`. The histories `closedAway` and `cleared` speak of tabs now, and a tab
that is bound anew (`Rebound`) is no longer excused.

`SessionTurn_proofs` proves, for any number of turns and requests (the assumption
is `SessionTurnAssumption`):

| Theorem | States |
|---|---|
| `TypeCorrect` | `Spec => []TypeOK` |
| `LeaseFollowsTurn` | `Spec => []LeaseIffLive` |
| `LiveTurnIsRunning` | `Spec => []LiveTurnRuns` |
| `TurnsEndOnce` | `Spec => []BracketsClose` |
| `StopLeavesNoCard` | `Spec => []NoZombieCard` |
| `AgentWorksOnLiveTurn` | `Spec => []PromptIsLive` |
| `AllowedEditsAreProtected` | `Spec => []AutoAllowIsProtected` |
| `NoConsentAfterStop` | `Spec => NoAllowAfterStop` |
| `DisposedStaysSilent` | `Spec => DisposedIsSilent` |

The inductive invariant is `IInv == Shape /\ Control /\ Brackets /\ Consent`.

- `Shape` adds to `TypeOK` that a turn that has not begun is mentioned nowhere
  (`Fresh`), which is why a new prompt cannot meet old state.
- `Control` explains why a late continuation is harmless: a function that still
  runs is that of the live turn, or its turn was force-ended, or it has lost its
  child or controller (`RunningIsLive`); and in the last three cases its turn is
  not current, so that the check of `currentTurnId` drops it.
- `Brackets` adds to `BracketsClose` that a replay that will be closed is open, is
  not the turn of a prompt, and is closed already if it was cut short.
- `Consent` adds what makes the checks of `PolicyDecides` enough: if the current
  turn was stopped, `cancelledTurnId` says so (`CurrentStopped`); a turn begins while
  a snapshot pends only after a force-end (`SnapshotOrder`), hence without one the
  flag is about the last prompt whose snapshot does not pend (`FlagIsFounded`), and
  the agent asks only once that prompt is the current one
  (`SuspendedAfterSnapshot`).

The three actions that move a turn's function are first reduced to two cases, it
goes on or it returns (`TurnEither`), and a return to what it changes
(`ReturnEither`); then there is one lemma per part and one step per action. The
parts of `IInv` were checked by TLC.

Of `EditPolicy`, `Services_proofs` proves, for every set of paths, every rule and
mode, and any number of turns (the assumption is `EditPolicyAssumption`):

| Theorem | States |
|---|---|
| `MorePathsAreStricter` | an edit of more paths is never decided more leniently |
| `PresetsAreOrdered` | the presets are ordered, normal, manual, strict, plan: a stricter one answers no edit and no command more loosely |
| `ModesOnlyNarrow` | a custom mode never turns a denial or a question into an allowance |
| `PolicyInvariant` | the mode in force is the one the user picked, as it was written then (`ModeAsPicked`) |
| `Consent` | `EditPolicySpec => ConsentIsEarned` |

The first three are about the table alone, by cases on its rows; they are stated
over a rank of the decisions. `ConsentIsEarned` is about the step of
`handlePermission`: its await lets preset, mode, settings and turn change between
the request and the decision, and the theorem says that an allowance is earned by
those of the moment of the decision. Its inductive invariant `PolicyInv` is the
type invariant with `ModeAsPicked`, which is what keeps an agent that edits the
settings from loosening the mode that binds it.

`SessionTurn_proofs` also proves `Refinement`, `Spec => ImplementsTurnService`, from
its invariant `IInv`: the initial state is one of
`TurnService`, and each action is, under the mapping, one step of it or a stutter.
The steps past an await are stutters as long as the function goes on; a return, a
force-end, a crash and a dispose close the turn. A request is mapped by where it
stands, and the four ways one goes on (`Unmoved` and its siblings) are settled once.

`Checkpoints_proofs` proves, for any number of windows and paths, any contents and
any bounds (the assumption is `CheckpointAssumption`):

| Theorem | States |
|---|---|
| `CkTypeCorrect` | `CkSpec => []CkTypeOK` |
| `NothingIsLost` | `CkSpec => []NothingLost` |
| `SettledIsClean` | `CkSpec => []SettledNotDirty` |
| `RedoIsSound` | `CkSpec => []RedoReachesTip` |
| `BorrowedHasOwner` | `CkSpec => []BorrowedIsOwed` |
| `RowsStay` | `CkSpec => RowsKept` |
| `UncapturedIsKept` | `CkSpec => UncapturedKept` |

They share the inductive invariant `CkInv`. What makes it more than the properties
is the job that holds the lock while others edit, write a late empty index, fail or
die:

- `OpIndexed`: the index the job works on is the one on disk, unless a cold window
  has written its empty one meanwhile (then `wiped`);
- `OpCaptured`: what a snapshot captured is still live on the paths nobody touched;
- `OpRestores`: a path a restore has dealt with is as in its target, one it will
  write is as captured or forced, and others may touch any path (`touched`);
- `OpAnchored`: before the first write the captured tree is a row on disk, from
  which `NothingLost` follows at whichever write the restore stops;
- `IndexSound`: an index without rows says nothing, and its redo pointer names rows
  and leads to `tip`;
- `Alive`, `HasIndex`, `TurnsAsked`: a job belongs to an open window and finds an
  index.

`CkTypeOK` says more since it is proved: rows, pointers, indexes and jobs have sets
of their own (`RowSet`, `Pointers`, `Indexes`, `OpSet`), and the assumption says
that `None` is in none of them.

`Services_proofs`, `Panels_proofs`, `Editor_proofs`, `Transcript_proofs` and
`MCServices_proofs` prove, each from the assumptions of the component's module, and
for any bounds:

| Theorem | States | Inductive invariant |
|---|---|---|
| `LockTypeCorrect` | `LockSpec => []LockTypeOK` | `LockInv` |
| `ExclusionUntilStale` | `LockSpec => []ExclusiveUntilStale` | `LockInv` |
| `OneChildOnly` | `Spec => []AtMostOneChild` | `ChannelInv`, `DashboardInv` |
| `ServerOfToolsIsHonest` | `Spec => []LspIsHonest` | `LspHostInv`, `LspToolsInv` |
| `TrackersFollowFolders` | `Spec => []RegistryMatchesFolders` | `RegistryInv` |
| `KeyIsKept` | `Spec => []KeyKept` | `KeyInv` |
| `IndexIsFollowed` | `Spec => []IndexFollowsFiles` | `IxInv` |
| `WritesAreShown` | `Spec => []WritesShown` | `ControlInv` |
| `EveryCardSettles` | `Spec => []CardsSettle` | `SetupInv`, `ProvisionInv` |
| `ShownIsContinuation` | `Spec => []ShownContinues` | `CompletionInv` |
| `ProposalsStandOnTheirLines` | `Spec => []ProposalIsSound` | `NextEditInv` |
| `OneShotsAreContained` | `Spec => []OneShotKept` | `OneShotInv` |
| `ModelAlwaysTrue` | `Spec => []ModelIsTrue` | `ModelInv` |
| `PanelAlwaysHonest` | `Spec => [](NoDeadSpinner /\ SwitchIsHonest /\ WishIsShown)` | `PanelInv` |
| `PageComesBack` | `Spec => [](OneTabShows /\ PageShowsItsSessions /\ DraftsReturn)` | `ReloadInv` |
| `TranscriptAlwaysTrue` | `Spec => []TranscriptIsTrue` | `TranscriptInv` |
| `ViewAlwaysTrue` | `Spec => []ViewIsTrue` | the four above |
| `ServicesTypeCorrect` | `Spec => []ServicesTypeOK` | all of them, each with its bounds |

`Spec` is that of `MCServices`. A step of it is a step of one component and leaves
the variables of the others alone, so each proof starts from a lemma that says so
(`ControlSteps`, ...) and goes on within the component. The arguments:

- *Lock.* While nothing has aged nobody gets past the stat of a foreign file
  (`NobodySteals`), hence the file that a window created with O_EXCL stays at the
  path until that window unlinks it (`FileIsOwned`); tokens name their windows
  (`OwnToken`), hence two holders would have one file.
- *Gateway and dashboard.* A transport is published in `ready` only, when no spawn
  is under way (`Published`), and only it and the child of the spawn can be alive
  (`ChildrenOwned`). The child of the dashboard is that of the memoized attempt,
  which is past its spawn (`ChildIsMemo`); an attempt that can still spawn is the
  memoized one (`SpawnIsMemo`).
- *Language tools.* The host binds once, and a dispose withdraws what was advertised
  (`HostOrder`); the pool counts its running calls and its queue has no call twice
  (`PoolSound`, `Distinct`); what a call resolved and what the cache holds is not
  newer than the document, and what is as new is its text (`NoneIsNewer`).
- *Trackers.* What a pass has still to add or remove is what is missing or too much
  (`PassOwes`), and a pass that no other follows read the folders of now
  (`LastPass`).
- *Key.* When no event is left, the newest read brings the stored key, has brought
  it, or failed (`NewestBringsStored`); the setting is cleared only for a key that
  the storage handed back, and that it still holds, or another the user entered
  (`ClearedWhenReadBack`). Without a keyring the history `inMemory` notes that, and
  what was left when the editor quit.
- *Index.* The batches a job has queued are complete for every file but the first,
  and what is missing of the first is in the store already (`JobShaped`,
  `HeadStored`). A claim, on disk or in the manifest the job works on, is backed by
  rows unless its file is torn (`ClaimsBacked`, `JobBacked`); and a file the manifest
  is wrong about has a timer, an event in the chain or a place in the job, while
  nothing failed (`Fresh`, `DeletesFollowed`).
- *Configuration.* A short operation is the one the tail runs (`QueuedOnTail`,
  `TailExcludes`), so what it read is still in the file when it writes
  (`ReadIsFresh`); an answer lists what was done when it was read (`AnswersList`),
  and fetches are numbered, so the newest one that ended is the newest that was read
  (`FetchesNumbered`); a rollback names what it could not remove (`Disclosed`).
- *Cards.* A push that nothing has overtaken is on its way or the panel shows what
  `status()` would say (`PaintedIsSo`, `SearchIsDue`); a handler that runs holds the
  latch (`PullsLatched`), and the last event of a pull is `done` or waits behind the
  timer of the throttle (`DoneIsLast`).
- *Completion.* Every entry of a cache is something its engine's backend answered
  (`KeptIsAnswered`), and an uncancelled request is about the document as it is
  (`UncancelledIsCurrent`); that the remainder of a hit continues the document is a
  lemma about sequences.
- *Next edit.* A region stands on its lines of a document (`StandsOn`), and
  `remapRange` keeps it so over a change that does not overlap: the lines of a
  spliced document, worked out once (`Splice`), then for batches of two.
- *One-shot.* Where a call may be that holds the root, that gets updates, and that
  belongs to the client of now (`CallsFit`); the ids to hide; and that the box is the
  user's text below marks of the command (`BoxSound`).
- *Model.* The picks a controller has got are numbered in the order they reached it
  (`PicksNumbered`). The newest one, while it is under way, would snap back to what
  the controller believes (`SnapsBack`); with none on its way or under way the tab
  shows that (`ShowsBelieved`). The pick the agent took last is one the controller
  has still to hear of, has overtaken, or believes, and then every answer still to
  come is to an older one (`AgentHeard`).
- *Panel.* The toggles of a component are numbered as they are queued, sent and
  written, and one at a time is waited for (`TogglesNumbered`, `TailHolds`). Hence
  the newest one is queued or waited for until it settles, and the switch shows its
  wish so long (`WishKept`). A toggle the page has given up while the host has not
  is covered by an error or by a newer one (`GivenUpIsSaid`). A spinner has a
  request on its way or the newest fetch (`SpinsForAnAnswer`), and that fetch reads
  what is saved, unless a newer toggle is still to be written (`ShownIsSaved`).
- *Page.* Ids are minted once (`NumbersMinted`), and a session that another tab
  shows has no tab of its own (`ShownElsewhere`); an open asks for a session that
  does not exist yet, and a close forgets one (`PostsInOrder`). With these, what the
  host does with a session the page knows reaches the tab that waits for it or
  shows it (`KnownAreShown`), and a text that is owed is in its tab or among the
  drafts to restore (`TextIsKept`).
- *Transcript.* What the host holds of the session is an account of eight fields:
  the turn with its end, the verdicts, the status of the tools, the open block, the
  length of the text, the clicks. `Shows(items, account)` says that the transcript
  fits it: the blocks of the newest turn cut its text into consecutive segments
  (`BlocksShow`), and each card, tool and block agrees with the account (`ItemOk`).
  `Legal` says which posts lead from one account to the next. Every legal post keeps
  `Shows` (`LegalKeeps`), so every list of them does (`ReachKeeps`), whatever the cap
  drops in between; and every action posts a legal list.
- *Types.* What an inductive invariant needs no type for, it does not bound: the
  counters, the booleans, the capacity of caches and queues. These bounds are
  inductive beside it (`LineBounds`, `ShotBounds`, `CompletionBounds`, ...), and the
  two together give the type invariant of the component. The capacity of the cache
  of completions and the bound of the ids a one-shot hides are of this kind.

What the proofs changed in the models. Apart from `NoSilentDrop` (above) only the
reload of `OneShot` changes the states TLC explores.

- `SelectSeq` and the folds take an operator as a parameter, and tlapm cannot
  instantiate the facts about such operators. Where a selection has at most one hit
  (`Completion.Without`, `RagIndex.TimersOf`, `ControlOps.OpSettles`,
  `OneShot.BoxIsUsers`) it is written with `CHOOSE` and `RemoveAt` or a quantifier;
  `NextEdit.ChangedByBatch` and `RemapByBatch` apply the one or two changes of a
  batch without a fold. `TrackerRegistry.FindContainingWorkspaceRoot` takes the
  least index with `CHOOSE`. The fold of `Transcript` over a list of messages is a
  recursive function.
- `LspToolsAssumption` says that there is a text and that the bounds are positive;
  `ModelSwitchAssumption` and `ViewReloadAssumption`, that there is a controller and
  a page; `ControlOpsAssumption`, that the operations asked for are finitely many.
- `ControlChannel.SpawnFailed` and `ChildExits` were `CASE`s whose guards overlap:
  which arm holds is then unspecified, and no theorem can tell. They have disjoint
  guards now, in the order of the `if`s of the code.
- A reload of the window made `OneShot` forget any of the ids it hides, also those
  whose save had succeeded. `storedIds` is now what `workspaceState` holds, each
  `Record` saves the whole list or fails to, and a reload brings back what was saved.

Induction over data. The induction theorems of the library take an operator, which
the provers cannot instantiate. Where a proof needs induction (what the fold of a
list of posts keeps, how the blocks cut a text, which folder comes first) it is by the
least counterexample: the set of numbers for which the claim fails has a least
element, by `WFMin` of `WellFoundedInduction`, whose parameters are sets.

Only model-checked: liveness, which is outside the reach of the prover
(`TailDrains`, `OutageRetried`, `OpenAnswered`, `OrphanReclaimed`, `StopEndsTurn`,
`RequestsAreAnswered`).

## 6. Where the code and its comments disagree

Each of these is a run that finds the violation.

1. *A tab closed during an outage comes back* (run `resurrection`, property `NoResurrection`). The tombstone of
   `closeTab` keeps a close that waits at the instant of the crash out of the
   snapshot. A close that comes after the crash empties the registry entry and
   drops its tombstone, but the snapshot still names the session, and the respawn
   opens it again. The comments at `backend/AcpBackend.ts` 361 and 1115 say that
   this cannot happen.
2. *"Reconnecting" with nothing pending* (run `reconnecting`, property `ReconnectingMeansRetrying`). A start of the user
   during an outage clears the timer; if it fails, the state becomes `idle`, the
   banner stays "reconnecting", and no timer is armed.
3. *A zombie tab* (run `zombie_tab`, property `NoZombieTab`). A tab that lost its session to another tab keeps
   its id; closing it closes the session of the other tab, which is not told.
4. *An edit allowed without a checkpoint* (run `unprotected_allow`, property `AutoAllowIsCaptured`). The flag
   `currentTurnProtected` is not reset when a turn begins. There are two ways. A turn
   whose root has no tracker takes no snapshot (`SessionController.ts` 1390-1391) and
   keeps the flag of the turn before: its edits are allowed on the strength of an
   older checkpoint, that of the last turn that had a tracker. And after a force-end
   the agent still works on the old prompt; if the user sends the next one, an edit of
   the old work is attributed to the new turn and allowed before the new turn has a
   checkpoint. TLC's trace is of the first kind. `AutoAllowIsProtected` is the part of
   the promise that the code keeps: without a force-end, an allowed edit has the
   checkpoint of its turn or, if its turn has no tracker, of the last one that had one,
   and none is allowed after a snapshot that failed.
5. *Two checkpoints with one id* (run `checkpoint_ids`, property `IdsUnique`). The ordinals of
   `RootCoordinator` start again with every activation and are counted per window,
   the rows they label persist; a step of redo looks its cursor up by that id.
6. *Two windows inside the lock* (run `lock_displaced`, property `MutualExclusion`). `tryStealStaleLock` renames
   what is at the path after a stat that saw an older file. `ExclusiveUntilStale`
   is the part of the promise that the code keeps.
7. *A proposal that Tab does not take* (run `next_edit_key`, property `KeyIffPainted`). `reanchor` keeps a cursor
   line that is past the end of the document; the screen is cleared, the state
   machine is not, and a later edit paints the proposal without its key.

`ClosedStaysClosed` is the part of the first promise that the code does keep, and
it is checked as such.

The following were met while modelling. They have no run of their own; where a
property would see them, it excepts them, and its comment says so.

- `src/autocomplete/index.ts` 407-411 and `apiKey.ts` 41-46 take a key that is read
  back by a later activation, without a migration, for the proof that SecretStorage
  outlived the process. Without a keyring it is none while the editor runs: an
  extension host that is restarted, or a user who enters the key of the setting by
  hand before the first read, makes `initApiKey` read it back from memory and clear
  the setting, and quitting the editor loses the only copy. `KeySurvives` excepts
  this case (`inMemory`), and no other.
- `src/mcp/lsp/tools.ts` 884-890 keys the cache of document symbols by the version
  of the document, which starts again when the document is closed and opened:
  symbols of the earlier text can be served, while lines 236-237 call the version
  exact.
- `src/mcp/lsp/libServerHost.ts` 14-18: a second error of the listener ends the
  advertisement and burns the token, but leaves the listener serving.
- `SessionController.setModel` (878-948): a pick that the agent accepts and that
  was overtaken, followed by one that it refuses, snaps host and view back to the
  model before both.
- A new controller starts with the preset `manual` and announces its mode only
  (`AcpBackend.ts` 891-906), and `tab.bound` does not touch the preset of the tab:
  a tab that was rebound keeps showing a preset that the host does not enforce,
  until the next hydrate or pick.
- `panelDataCoordinator.ts` 97-99 says that a fetch whose push is dropped was
  overtaken by one that "has since landed"; it may only have started, and fail. If
  the later fetch was the host's own, the panel stays at "loading", where
  `remoteData.ts` 4-6 says never a spinner for ever.
- `useToggle.ts` says that the host pushes again before it answers, so that the
  server's value is the saved one; `rePushPanel` swallows its failure, and the
  switch goes back to the old value without a word.
- `transcript.ts` 311-315 says that any item that comes between closes the open
  message; the `user` arm (231-250) does not.
- `src/autocomplete/provider.ts` 355-356 says that an actionable failure is shown
  once "until the next engine rebuild"; the registry of what was shown is never
  reset (`index.ts` 203-216).
- `hydrateFold.ts` 30-33 says that a local tab the seed does not name "owns no live
  host session, so there is nothing to leak". A tab whose open was under way when
  the page was lost, or that was opened before the hydrate, gets its session later;
  its `tab.bound` then names an unknown tab, and the session has none until the
  next hydrate.
- During an outage the registry is empty, so a page that is made again gets no
  seed. A recovered session is adopted by the bootstrap tab or a new one
  (`foldTurnStart`), which never learns its root, and if that recovery fails, its
  `tab.error` names a tab the page does not have: the adopted tab stays bound to
  nothing. The drafts of the lost page are not put back in that case either, since
  `restoredDrafts` is read by the reconciling branch of the hydrate only, and the
  page writes its own, empty, drafts over them.

## 7. Not modelled

The map covers about an eighth of the implementation lines. The rest is mostly not
of a kind a model of state says anything about: type declarations and the wire
protocol (`shared/protocol.ts`), the rendering of the webview, formatting and
parsing, the texts of prompts, long explanatory comments (in many files more than
half of the lines), installers and shell commands. What has state and is left out:

- *Topology and the router*: the contents of messages, the session list of the
  History panel, the settings that the router forwards, a session's `cwd`, and
  `activeSessionId`, which the code documents as used for display only.
- *Webview*: dismissal of banners, titles, attachments of a draft, which tab is
  active; `ViewReload` leaves out loads, New Session and the bootstrap session a
  respawn mints when nothing is to be recovered, and lets any unbound tab be the
  one that adopts. `Transcript` leaves out updates of a turn the agent opens on its
  own, outputs, usage and replayed turns. `PanelSync` leaves out the dismissal of
  an error, `ModelSwitch` loads of another session into the tab.
- *SessionController*: the outcome of the control utterances of a running turn
  (`/steer`, `/queue`).
- *Policy*: how a path is made canonical, which commands are dangerous, the
  confined reads and writes, which ask the file system.
- *Checkpoints*: the git commands, `redoAll` as a loop of steps, the listing of
  diffs, the move of a symlinked root's history.
- *OneShot*: a session whose answer never came, ids evicted at the bound of 200
  whose delete failed too, and the placeholder that a reload of the window leaves in
  the box.
- *ApiKey*: a user who edits the deprecated setting itself; two windows whose
  activations overlap.
- *ControlOps*: `skills.create` takes no lock of its name in the code, so that a
  second one is queued where the model refuses it; the branch of
  `mcp.catalogInstall` that answers at once is folded into the poll.
- *Completion*: requests made while the suggestion widget is open, the gathering
  and pruning of context.
- *NextEdit*: the consent dialogue of the toggle, the model call.
- *RagIndex*: chunking, embedding, retrieval, directory events other than a
  deletion; events are taken to reach the chain within their debounce.
- *LSP*: the check of a request's headers, confinement and the shaping of results;
  the other tools are the modelled call without its cache.
- *Setup*: the cards other than the agent's, the settings they write, sizes and
  digests of downloads.
- *Control*: the validation of requests and the reshaping of panel data; the length
  of a backoff.

Some hazards have no property, or one with an exception, for the reasons given in
`PROJECT.json`: a turn that begins during the confinement await of a load is ended
without a word, and a session minted for a tab that was closed meanwhile stays
registered until the next restart; a Stop during the preparation of a turn reaches
the agent before the prompt, which is sent all the same; a force-end gives the lease
back while the agent may still edit. The code promises nothing about them.

## 8. Running

    tlc -workers 2 -config MCTopology.cfg MCTopology
    tlc -workers 2 -config MCSessionTurn.cfg MCSessionTurn
    tlc -workers 2 -config MCLiveness.cfg MCLiveness
    tlc -workers 2 -config MCCheckpoints.cfg MCCheckpoints
    tlc -workers 2 -config MCServices.cfg MCServices

    tlc -workers 2 -config MCResurrection.cfg MCTopology
    tlc -workers 2 -config MCReconnecting.cfg MCTopology
    tlc -workers 2 -config MCZombieTab.cfg MCTopology
    tlc -workers 2 -config MCUnprotected.cfg MCSessionTurn
    tlc -workers 2 -config MCCheckpointIds.cfg MCCheckpoints
    tlc -workers 2 -config MCShadowLock.cfg MCShadowLock
    tlc -workers 2 -config MCNextEdit.cfg NextEdit

    tlapm Topology_proofs.tla
    tlapm SessionTurn_proofs.tla
    tlapm Checkpoints_proofs.tla
    tlapm Services_proofs.tla
    tlapm Panels_proofs.tla
    tlapm Editor_proofs.tla
    tlapm Transcript_proofs.tla
    tlapm MCServices_proofs.tla

The passing runs take between one and four minutes each with two workers; the
proof modules take from half a minute to twenty minutes each from nothing,
`Panels_proofs` the longest.
