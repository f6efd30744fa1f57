------------------------------ MODULE ControlOps ------------------------------
(***************************************************************************)
(* The control operations that change the configuration of the agent, and  *)
(* the panel that shows it: host/backend/control/ (ControlDispatcher.ts,   *)
(* mcpAdminHandler.ts, skillsAdminHandler.ts, dashboardToggles.ts,         *)
(* adminOpRunner.ts, configWriteTail.ts, panelDataCoordinator.ts).         *)
(*                                                                         *)
(* An operation is requested once.  Its kind says which way it goes:       *)
(*   toggle   skills.toggle, toolsets.toggle: on the tail, pushed off it   *)
(*   change   mcp.add, mcp.remove, mcp.setEnabled, skills.create: all of   *)
(*            it on the tail; an mcp.add may carry one secret              *)
(*   install  mcp.catalogInstall, skills.hub*: off the tail, polled        *)
(* A short write reads the file of the server and writes it back in two    *)
(* steps.  The server's own write at the end of an install is kept apart.  *)
(***************************************************************************)
EXTENDS Naturals, FiniteSets, Sequences

CONSTANTS ConfigOps, \* the operations
          OpKind,    \* the kind of each operation
          OpName,    \* the server or skill each operation is about
          Viewers,   \* panel.data requests of the webview that may be in flight
          MaxFetches \* bound: fetches of the panel

ASSUME ControlOpsAssumption ==
  /\ MaxFetches \in Nat /\ IsFiniteSet(ConfigOps) /\ ConfigOps \cap Viewers = {}
  /\ \A op \in ConfigOps : OpKind[op] \in {"toggle", "change", "install"}

VARIABLES opPc,       \* where each operation is
          readConfig, \* the configuration a short write read
          config,     \* changes in config.yaml
          env,        \* operations whose secret is in .env
          written,    \* operations whose secret write was acknowledged
          disclosed,  \* what operations reported that their rollback left behind
          writeTail,  \* ConfigWriteTail
          busy,       \* busyMcpNames, busySkill*
          installing, \* background actions the server runs
          installed,  \* background actions that took effect
          fetch,      \* the fetches of the panel that are under way
          fetchSeq,   \* panelFetchSeq of the panel
          pushed      \* what the webview shows, and whether the newest fetch failed

opVars == <<opPc, readConfig, config, env, written, disclosed, writeTail, busy,
            installing, installed>>
panelVars == <<fetch, fetchSeq, pushed>>
controlVars == <<opVars, panelVars>>

Fetchers == ConfigOps \cup Viewers
NoFetch == [phase |-> "none", seq |-> 0, data |-> {}]
Settled == {"ok", "failed", "refused", "undone"}

ControlOpsTypeOK ==
  /\ opPc \in [ConfigOps -> Settled \cup
       {"new", "queued", "running", "writing", "secret", "verify", "undoEnv",
        "undoConfig", "polling", "reload", "push", "diverged"}]
  /\ \A s \in {config, env, written, installing, installed} : s \subseteq ConfigOps
  /\ disclosed \subseteq ConfigOps \X {"secret", "entry"}
  /\ readConfig \in [ConfigOps -> SUBSET ConfigOps]
  /\ \A i \in DOMAIN writeTail : writeTail[i] \in ConfigOps
  /\ \A f \in Fetchers : fetch[f].phase \in {"none", "started", "read"}
  /\ fetchSeq \in 0 .. MaxFetches + Cardinality(ConfigOps)

ControlOpsInit ==
  /\ opPc = [op \in ConfigOps |-> "new"]
  /\ readConfig = [op \in ConfigOps |-> {}]
  /\ config = {} /\ env = {} /\ written = {} /\ disclosed = {}
  /\ writeTail = << >> /\ busy = {}
  /\ installing = {} /\ installed = {}
  /\ fetch = [f \in Fetchers |-> NoFetch] /\ fetchSeq = 0
  /\ pushed = [shown |-> {}, failed |-> FALSE]

Locks(op) == OpKind[op] # "toggle"
OnTail(op) == OpKind[op] # "install"
Goes(op, from, to) == opPc[op] = from /\ opPc' = [opPc EXCEPT ![op] = to]

\* runAdminOp and DashboardToggleHandler.toggle: the name is taken before the
\* operation joins the tail, so that a second one is refused and never queued.
Request(op) ==
  /\ opPc[op] = "new"
  /\ IF Locks(op) /\ OpName[op] \in busy
     THEN /\ opPc' = [opPc EXCEPT ![op] = "refused"]
          /\ UNCHANGED <<busy, writeTail>>
     ELSE /\ opPc' = [opPc EXCEPT ![op] = IF OnTail(op) THEN "queued" ELSE "running"]
          /\ busy' = IF Locks(op) THEN busy \cup {OpName[op]} ELSE busy
          /\ writeTail' = IF OnTail(op) THEN Append(writeTail, op) ELSE writeTail
  /\ UNCHANGED <<readConfig, config, env, written, disclosed, installing, installed, panelVars>>

\* Mutant: an operation does not wait for the one before it on the tail.
RunsAtOnce(op) ==
  /\ Goes(op, "queued", "running")
  /\ UNCHANGED <<readConfig, config, env, written, disclosed, writeTail, busy,
                 installing, installed, panelVars>>

\* The tail reaches the operation.
TailRuns(op) ==
  /\ Goes(op, "queued", "running")
  /\ Head(writeTail) = op
  /\ UNCHANGED <<readConfig, config, env, written, disclosed, writeTail, busy,
                 installing, installed, panelVars>>

\* The promise of the operation settles: the tail it ran on goes on to the next
\* one, and its name is free.
OpSettles(op, to) ==
  /\ opPc' = [opPc EXCEPT ![op] = to]
  /\ writeTail' = IF writeTail # << >> /\ Head(writeTail) = op
                  THEN Tail(writeTail) ELSE writeTail
  /\ busy' = IF Locks(op) THEN busy \ {OpName[op]} ELSE busy

\* Untrusted workspace, no dashboard, a name that was not listed, a payload or
\* a modal that says no.
Refuse(op) ==
  /\ opPc[op] = "running"
  /\ OpSettles(op, "failed")
  /\ UNCHANGED <<readConfig, config, env, written, disclosed, installing, installed, panelVars>>

\* The server starts the write of a short operation.
ServerReads(op) ==
  /\ Goes(op, "running", "writing") /\ OnTail(op)
  /\ readConfig' = [readConfig EXCEPT ![op] = config]
  /\ UNCHANGED <<config, env, written, disclosed, writeTail, busy, installing, installed, panelVars>>

\* It is written and acknowledged.  A toggle leaves the tail here; a secret,
\* the reload of the agent (not after skills.create) and the panel follow.
ServerWrites(op) ==
  /\ opPc[op] = "writing"
  /\ config' = readConfig[op] \cup {op}
  /\ \E next \in IF OpKind[op] = "toggle" THEN {"push"} ELSE {"secret", "reload", "push"} :
       opPc' = [opPc EXCEPT ![op] = next]
  /\ writeTail' = IF OpKind[op] = "toggle" THEN Tail(writeTail) ELSE writeTail
  /\ UNCHANGED <<readConfig, env, written, disclosed, busy, installing, installed, panelVars>>

\* The write is refused, or its answer is lost.
WriteRejected(op) ==
  /\ opPc[op] = "writing"
  /\ config' \in {config, readConfig[op] \cup {op}}
  /\ OpSettles(op, "failed")
  /\ UNCHANGED <<readConfig, env, written, disclosed, installing, installed, panelVars>>

\* PUT /api/env is acknowledged; a managed server stores nothing.
SecretWritten(op) ==
  /\ Goes(op, "secret", "verify")
  /\ env' \in {env, env \cup {op}}
  /\ written' = written \cup {op}
  /\ UNCHANGED <<readConfig, config, disclosed, writeTail, busy, installing, installed, panelVars>>

\* PUT /api/env rejects, with or without the secret stored.
SecretRejected(op) ==
  /\ Goes(op, "secret", "undoConfig")
  /\ env' \in {env, env \cup {op}}
  /\ UNCHANGED <<readConfig, config, written, disclosed, writeTail, busy,
                 installing, installed, panelVars>>

\* GET /api/env lists the key.
SecretVerified(op) ==
  /\ Goes(op, "verify", "reload") /\ op \in env
  /\ UNCHANGED <<readConfig, config, env, written, disclosed, writeTail, busy,
                 installing, installed, panelVars>>

\* It does not, or cannot be read.
SecretMissing(op) ==
  /\ Goes(op, "verify", "undoEnv")
  /\ UNCHANGED <<readConfig, config, env, written, disclosed, writeTail, busy,
                 installing, installed, panelVars>>

\* Mutant: the rollback keeps silent about a secret it could not remove.
UndoEnvSilently(op) ==
  /\ Goes(op, "undoEnv", "undoConfig")
  /\ env' \in {env, env \ {op}}
  /\ UNCHANGED <<readConfig, config, written, disclosed, writeTail, busy,
                 installing, installed, panelVars>>

\* compensateSecretAdd, the secret first: removed, or stranded and disclosed.
UndoEnv(op) ==
  /\ Goes(op, "undoEnv", "undoConfig")
  /\ \/ env' = env \ {op} /\ UNCHANGED disclosed
     \/ disclosed' = disclosed \cup {<<op, "secret">>} /\ UNCHANGED env
  /\ UNCHANGED <<readConfig, config, written, writeTail, busy, installing, installed, panelVars>>

\* Then the server entry: removed, or left and disclosed.
UndoConfig(op) ==
  /\ opPc[op] = "undoConfig"
  /\ \/ config' = config \ {op} /\ UNCHANGED disclosed
     \/ disclosed' = disclosed \cup {<<op, "entry">>} /\ UNCHANGED config
  /\ OpSettles(op, "undone")
  /\ UNCHANGED <<readConfig, env, written, installing, installed, panelVars>>

\* The install is dispatched and runs in the background.
InstallStarts(op) ==
  /\ Goes(op, "running", "polling") /\ OpKind[op] = "install"
  /\ installing' = installing \cup {op}
  /\ UNCHANGED <<readConfig, config, env, written, disclosed, writeTail, busy, installed, panelVars>>

\* The action of the server ends; a blocked install ends like a good one.
InstallEnds(op) ==
  /\ op \in installing
  /\ installing' = installing \ {op}
  /\ installed' \in {installed, installed \cup {op}}
  /\ UNCHANGED <<opPc, readConfig, config, env, written, disclosed, writeTail, busy, panelVars>>

\* pollActionUntilVerified: it ended, and the fresh list shows it.  The agent is
\* reloaded for a server, not for a skill.
PollVerified(op) ==
  /\ Goes(op, "polling", "reload") \/ Goes(op, "polling", "push")
  /\ op \in installed \ installing
  /\ UNCHANGED <<readConfig, config, env, written, disclosed, writeTail, busy,
                 installing, installed, panelVars>>

\* It ended without effect, the cap passed, or an answer was lost: the server
\* goes on by itself.
PollGivesUp(op) ==
  /\ opPc[op] = "polling"
  /\ OpSettles(op, "failed")
  /\ UNCHANGED <<readConfig, config, env, written, disclosed, installing, installed, panelVars>>

\* reload.mcp: when it fails the panel is fetched all the same and the
\* operation rejects.
Reload(op) ==
  /\ opPc[op] = "reload"
  /\ opPc' \in {[opPc EXCEPT ![op] = "push"], [opPc EXCEPT ![op] = "diverged"]}
  /\ UNCHANGED <<readConfig, config, env, written, disclosed, writeTail, busy,
                 installing, installed, panelVars>>

\* fetchPanelData: the sequence token is taken before the fetch starts.
FetchStarts(f) ==
  /\ fetch[f] = NoFetch
  /\ IF f \in Viewers THEN fetchSeq < MaxFetches ELSE opPc[f] \in {"push", "diverged"}
  /\ fetchSeq' = fetchSeq + 1
  /\ fetch' = [fetch EXCEPT ![f] = [phase |-> "started", seq |-> fetchSeq', data |-> {}]]
  /\ pushed' = [pushed EXCEPT !.failed = FALSE]
  /\ UNCHANGED opVars

FetchReads(f) ==
  /\ fetch[f].phase = "started"
  /\ fetch' = [fetch EXCEPT ![f] = [phase |-> "read", seq |-> @.seq, data |-> config \cup installed]]
  /\ UNCHANGED <<opVars, fetchSeq, pushed>>

\* The operation that pushed settles with its fetch.  rePushPanel swallows a
\* failure, reloadMcpAndRefetch does not.
Pushes(f, ok) ==
  IF f \in ConfigOps
  THEN /\ OpSettles(f, IF opPc[f] = "push" /\ (ok \/ OpKind[f] = "toggle") THEN "ok" ELSE "failed")
       /\ UNCHANGED <<readConfig, config, env, written, disclosed, installing, installed>>
  ELSE UNCHANGED opVars

\* Mutant: a belated answer is pushed as well.
FetchPushesAlways(f) ==
  /\ fetch[f].phase = "read"
  /\ fetch' = [fetch EXCEPT ![f] = NoFetch]
  /\ pushed' = [pushed EXCEPT !.shown = fetch[f].data]
  /\ Pushes(f, TRUE)
  /\ UNCHANGED fetchSeq

\* The answer arrives; only the newest attempt is pushed to the webview.
FetchEnds(f) ==
  /\ fetch[f].phase = "read"
  /\ fetch' = [fetch EXCEPT ![f] = NoFetch]
  /\ pushed' = IF fetch[f].seq = fetchSeq
               THEN [pushed EXCEPT !.shown = fetch[f].data] ELSE pushed
  /\ Pushes(f, TRUE)
  /\ UNCHANGED fetchSeq

\* The source is unavailable: the call rejects and nothing is pushed.
FetchFails(f) ==
  /\ fetch[f].phase # "none"
  /\ fetch' = [fetch EXCEPT ![f] = NoFetch]
  /\ pushed' = IF fetch[f].seq = fetchSeq THEN [pushed EXCEPT !.failed = TRUE] ELSE pushed
  /\ Pushes(f, FALSE)
  /\ UNCHANGED fetchSeq

ControlOpsNext ==
  \/ \E op \in ConfigOps :
       \/ Request(op) \/ TailRuns(op) \/ Refuse(op)
       \/ ServerReads(op) \/ ServerWrites(op) \/ WriteRejected(op)
       \/ SecretWritten(op) \/ SecretRejected(op) \/ SecretVerified(op) \/ SecretMissing(op)
       \/ UndoEnv(op) \/ UndoConfig(op)
       \/ InstallStarts(op) \/ InstallEnds(op) \/ PollVerified(op) \/ PollGivesUp(op)
       \/ Reload(op)
  \/ \E f \in Fetchers : FetchStarts(f) \/ FetchReads(f) \/ FetchEnds(f) \/ FetchFails(f)

-----------------------------------------------------------------------------
\* Once no fetch is under way and the newest one did not fail, every operation
\* that was reported as done is in the configuration and on the panel: no short
\* write is lost to another, no install is believed on its exit code, and no
\* belated fetch overwrites a newer one (configWriteTail.ts:1-23,
\* panelDataCoordinator.ts:30-40, adminOpRunner.ts:157-163).
PanelReflectsWrites ==
  ((\A f \in Fetchers : fetch[f] = NoFetch) /\ ~ pushed.failed)
    => {op \in ConfigOps : opPc[op] = "ok"} \subseteq pushed.shown

\* An mcp.add that was rolled back leaves neither its entry nor a secret whose
\* write was acknowledged, unless its error names it (mcpAdminHandler.ts:333-379,
\* 710-716).  A secret stored by a call whose answer was lost stays unnamed.
AddUndoneOrDisclosed ==
  \A op \in ConfigOps : opPc[op] = "undone" =>
    /\ op \in config => <<op, "entry">> \in disclosed
    /\ op \in env \cap written => <<op, "secret">> \in disclosed
=============================================================================
