------------------------------ MODULE Topology ------------------------------
(***************************************************************************)
(* The topology of the extension host: one agent child process, the        *)
(* sessions registered on it, and the tabs those sessions are shown in.    *)
(*                                                                         *)
(* ConnectionSupervisor owns the child: start, reconnect, crash, respawn   *)
(* with backoff, and the recovery of the sessions that were open when it   *)
(* died.  AcpBackend owns the operations on tabs: open, close, New Session *)
(* and load from History.  Every one of them is a request on a single FIFO *)
(* queue (runOnStartTail); a crash, a timer, a prompt and a dispose are    *)
(* not, and may come at any await of the request that is running.          *)
(*                                                                         *)
(* A step is a macrotask of the event loop, or a microtask that must run   *)
(* before the next macrotask (MicrotaskDue).  Messages to the webview are  *)
(* applied to the view in the step that emits them.                        *)
(***************************************************************************)
EXTENDS TabView, Sequences, FiniteSets

CONSTANTS
  MaxTail,   \* bound on the requests that wait on the tail
  UserOps    \* the requests the user issues

Ops == {"start", "reconnect", "open", "new", "load", "close"}

ASSUME TopologyAssumption == MaxTail \in Nat /\ UserOps \subseteq Ops

VARIABLES
  acpState,         \* the supervisor's connection state
  client,           \* "none", "connecting" (not adopted yet) or "up"
  acpRespawnTimer,  \* a backoff timer is armed
  pendingRecovery,  \* snapshot taken at the last teardown: session -> tab
  recoveryHeld,     \* pendingRecovery !== undefined
  sessions,         \* the registry: session -> the tab of its controller
  turns,            \* the registered sessions with a live turn
  pendingClose,     \* tombstones of closes that wait on the tail
  tail,             \* the requests waiting behind inFlightStart
  cur,              \* the request that is running, and where it awaits
  rest,             \* what is left of the recovery loop: session -> tab
  staleMints,       \* the tabs of abandoned session/new calls
  issued,           \* the ids the agent has issued
  view,             \* what the webview shows of each tab
  banner,           \* the connection banner of the webview
  userClosed,       \* history: closed by the user and not reloaded since
  closedLive,       \* history: those of userClosed closed while connected
  closedAway,       \* history: tabs whose session another tab closed
  cleared           \* history: tabs whose session a restart ended with a clear

conn == <<acpState, client, acpRespawnTimer>>
recovery == <<pendingRecovery, recoveryHeld, rest>>
registry == <<sessions, turns, pendingClose>>
ui == <<view, banner>>
history == <<userClosed, closedLive, closedAway, cleared>>
vars == <<conn, recovery, registry, tail, cur, staleMints, issued, ui, history>>

-----------------------------------------------------------------------------
(* Types.                                                                  *)

Owner == [Sessions -> Tabs \cup {NoTab}]   \* a Map from session to tab
NoOwner == [s \in Sessions |-> NoTab]
In(owner) == {s \in Sessions : owner[s] # NoTab}

\* flag: a start issued by the respawn timer, or a forced reconnect.
Request == [op   : Ops,
            tab  : Tabs \cup {NoTab},
            sid  : Sessions \cup {NoSession},
            flag : BOOLEAN]

\* What the running request awaits.
Awaits == {"resolve", "connect", "recover", "mint", "pin", "confine", "replay"}

Idle == [op |-> "none", tab |-> NoTab, sid |-> NoSession, flag |-> FALSE,
         at |-> "none", was |-> FALSE, tried |-> 0]

\* at: the await.  was: startInternal's wasRespawning.  tried: the attempts of
\* the recovery loop, which its time budget bounds.
Running == [op    : Ops \ {"close"},
            tab   : Tabs \cup {NoTab},
            sid   : Sessions \cup {NoSession},
            flag  : BOOLEAN,
            at    : Awaits,
            was   : BOOLEAN,
            tried : Nat]

TypeOK ==
  /\ acpState \in {"idle", "starting", "ready", "respawning", "disposed"}
  /\ client \in {"none", "connecting", "up"}
  /\ acpRespawnTimer \in BOOLEAN
  /\ pendingRecovery \in Owner /\ recoveryHeld \in BOOLEAN /\ rest \in Owner
  /\ sessions \in Owner
  /\ turns \in SUBSET Sessions
  /\ pendingClose \in SUBSET Sessions
  /\ tail \in Seq(Request)
  /\ cur \in Running \cup {Idle}
  /\ staleMints \in SUBSET Tabs
  /\ issued \in SUBSET Sessions
  /\ view \in View
  /\ banner \in {"none", "failed", "reconnecting"}
  /\ userClosed \in SUBSET Sessions
  /\ closedLive \in SUBSET Sessions
  /\ closedAway \in SUBSET Tabs
  /\ cleared \in SUBSET Tabs

Init ==
  /\ acpState = "idle" /\ client = "none" /\ acpRespawnTimer = FALSE
  /\ pendingRecovery = NoOwner /\ recoveryHeld = FALSE /\ rest = NoOwner
  /\ sessions = NoOwner /\ turns = {} /\ pendingClose = {}
  /\ tail = <<>> /\ cur = Idle
  /\ staleMints = {} /\ issued = {}
  /\ view = InitialView /\ banner = "none"
  /\ userClosed = {} /\ closedLive = {}
  /\ closedAway = {} /\ cleared = {}

-----------------------------------------------------------------------------
(* Helpers.                                                                *)

isDisposed == acpState = "disposed"

Registered == In(sessions)

\* SessionRegistry.open evicts the controller that holds the id, if any; the
\* registry keeps one entry per id.
Open(owner, s, t) == [owner EXCEPT ![s] = t]
Close(owner, s) == [owner EXCEPT ![s] = NoTab]

\* getByTabId, as a set of at most one session (OneSessionPerTab).
getByTabId(t) == {s \in Registered : sessions[s] = t}
\* Mutant: openTab no longer asks whether the tab already has a session.
OccupiedIgnored(t) == FALSE
Occupied(t) == getByTabId(t) # {}
Without(owner, S) == [s \in Sessions |-> IF s \in S THEN NoTab ELSE owner[s]]

\* A close of session s is on its way.
CloseWaits(s) == \E i \in DOMAIN tail : tail[i].op = "close" /\ tail[i].sid = s

\* What tab t is bound to from now on is session s: what happened to an earlier
\* session of the tab is history, and a close of s still waits or does not.
Rebound(t, s) ==
  /\ closedAway' = IF CloseWaits(s) THEN closedAway \cup {t} ELSE closedAway \ {t}
  /\ cleared' = cleared \ {t}

\* Dispose clears the emitter: nothing reaches the webview afterwards.
Post(newView) == view' = IF isDisposed THEN view ELSE newView
PostBanner(b) == banner' = IF isDisposed THEN banner ELSE b

Enqueue(op, t, s, flag) ==
  tail' = Append(tail, [op |-> op, tab |-> t, sid |-> s, flag |-> flag])

AwaitsClient == cur.at \in {"mint", "pin", "replay"}
                \/ (cur.at = "recover" /\ cur.sid # NoSession)

\* A promise that is settled resumes its function before the event loop takes
\* the next macrotask: the head of a tail that is free, the recovery loop
\* between two sessions, and every call on a child that has died or has been
\* disposed (AcpClient.raceTermination, settleRace's exit).
MicrotaskDue ==
  \/ cur.op = "none" /\ tail # <<>>
  \/ cur.at = "recover" /\ cur.sid = NoSession
  \/ AwaitsClient /\ client # "up"
  \/ cur.at = "connect" /\ client = "none"

\* The guard of every macrotask that the user, the agent or a timer starts.
Macrotask == ~MicrotaskDue /\ ~isDisposed

MayRequest(op) == Macrotask /\ op \in UserOps /\ Len(tail) < MaxTail

-----------------------------------------------------------------------------
(* Requests of the user, and of the retry timer.  Each one only joins the  *)
(* tail; what it does is decided when it reaches the head.                 *)

UserStart ==
  /\ MayRequest("start")
  /\ Enqueue("start", NoTab, NoSession, FALSE)
  /\ UNCHANGED <<conn, recovery, registry, cur, staleMints, issued, ui, history>>

UserReconnect(force) ==
  /\ MayRequest("reconnect")
  /\ Enqueue("reconnect", NoTab, NoSession, force)
  /\ UNCHANGED <<conn, recovery, registry, cur, staleMints, issued, ui, history>>

\* The "+" of the tab strip.  Ids are fresh: tabs are taken in order.
NewTab(t) ==
  /\ MayRequest("open")
  /\ view[t].ui = "absent"
  /\ \A u \in Tabs : u < t => view[u].ui # "absent"
  /\ view' = LocalOpen(view, t)
  /\ Enqueue("open", t, NoSession, FALSE)
  /\ UNCHANGED <<conn, recovery, registry, cur, staleMints, issued, banner, history>>

\* The Retry of an open-failed tab posts tab.open again.
RetryOpen(t) ==
  /\ MayRequest("open")
  /\ Shown(view, t) /\ view[t].failed
  /\ Enqueue("open", t, NoSession, FALSE)
  /\ UNCHANGED <<conn, recovery, registry, cur, staleMints, issued, ui, history>>

\* The composer's New Session.
NewSession(t) ==
  /\ MayRequest("new")
  /\ Shown(view, t)
  /\ Enqueue("new", t, NoSession, FALSE)
  /\ UNCHANGED <<conn, recovery, registry, cur, staleMints, issued, ui, history>>

\* A row of the History panel, loaded into a tab.
LoadInto(s, t) ==
  /\ MayRequest("load")
  /\ s \in issued /\ Shown(view, t)
  /\ Enqueue("load", t, s, FALSE)
  /\ UNCHANGED <<conn, recovery, registry, cur, staleMints, issued, ui, history>>

\* The x of a tab.  The webview sends the id the tab names; the host lays the
\* tombstone at once and leaves the removal to the tail.
CloseTab(t) ==
  /\ MayRequest("close")
  /\ Shown(view, t) /\ \E u \in Tabs \ {t} : Shown(view, u)
  /\ view' = LocalClose(view, t)
  /\ LET s == view[t].sid
     IN  IF s = NoSession
         THEN UNCHANGED <<pendingClose, tail, history>>
         ELSE /\ pendingClose' = pendingClose \cup {s}
              /\ Enqueue("close", NoTab, s, FALSE)
              /\ userClosed' = userClosed \cup {s}
              /\ closedLive' = IF acpState = "ready"
                               THEN closedLive \cup {s} ELSE closedLive
              /\ closedAway' = closedAway \cup {u \in Tabs \ {t} : view[u].sid = s}
              /\ UNCHANGED cleared
  /\ UNCHANGED <<conn, recovery, sessions, turns, cur,
                 staleMints, issued, banner>>

\* The backoff timer elapses: start() joins the tail.
RespawnTimerFires ==
  /\ Macrotask /\ acpRespawnTimer
  /\ acpRespawnTimer' = FALSE
  /\ Enqueue("start", NoTab, NoSession, TRUE)
  /\ UNCHANGED <<acpState, client, recovery, registry, cur, staleMints, issued,
                 ui, history>>

-----------------------------------------------------------------------------
(* What does not go through the tail.                                      *)

\* A prompt reaches the controller of the id the tab names, unless that id is
\* being closed or nothing is registered under it.
sendPrompt(t) ==
  /\ Macrotask
  /\ view[t].ui = "bound"
  /\ LET s == view[t].sid
     IN  /\ s \in Registered \ pendingClose
         /\ s \notin turns
         /\ client = "up"
         /\ turns' = turns \cup {s}
  /\ UNCHANGED <<conn, recovery, sessions, pendingClose, tail,
                 cur, staleMints, issued, ui, history>>

TurnEnds(s) ==
  /\ Macrotask
  /\ s \in turns
  /\ turns' = turns \ {s}
  /\ UNCHANGED <<conn, recovery, sessions, pendingClose, tail,
                 cur, staleMints, issued, ui, history>>

\* Mutant: a session that is being closed is recovered like any other.
RecoverySnapshotOfAll == sessions

\* The snapshot a teardown takes: every registered session but those being
\* closed.
RecoverySnapshot == Without(sessions, pendingClose)

\* Mutant: the turn of a crashed session stays open.
endOnCrashSkipped == UNCHANGED turns

\* Every live turn of the registry ends with the child.
endOnCrash == turns' = {}

\* Mutant: a retry that fails is not followed by another.
scheduleAcpRespawnOnce ==
  acpState' = "respawning" /\ acpRespawnTimer' = ~cur.was

\* Stay in the outage and arm the backoff timer.
scheduleAcpRespawn == acpState' = "respawning" /\ acpRespawnTimer' = TRUE

\* The child dies under an adopted client (handleAcpCrash): the registry is
\* left as it is, for the coming start to clear.
Crash ==
  /\ Macrotask /\ client = "up"
  /\ banner' = IF acpState # "respawning" THEN "reconnecting" ELSE banner
  /\ pendingRecovery' = RecoverySnapshot /\ recoveryHeld' = TRUE
  /\ endOnCrash
  /\ scheduleAcpRespawn
  /\ client' = "none" /\ staleMints' = {}
  /\ UNCHANGED <<rest, sessions, pendingClose, tail, cur,
                 issued, view, history>>

\* An abandoned session/new answers late.
LateMint(t) ==
  /\ Macrotask /\ t \in staleMints
  /\ staleMints' = staleMints \ {t}
  /\ \E s \in Sessions \ issued :
       /\ issued' = issued \cup {s}
       /\ sessions' = Close(Open(sessions, s, t), s)
  /\ UNCHANGED <<conn, recovery, turns, pendingClose, tail, cur,
                 ui, history>>

dispose ==
  /\ Macrotask
  /\ acpState' = "disposed" /\ acpRespawnTimer' = FALSE /\ client' = "none"
  /\ sessions' = NoOwner /\ turns' = {}
  /\ staleMints' = {}
  /\ UNCHANGED <<recovery, pendingClose, tail, cur, issued, ui, history>>

-----------------------------------------------------------------------------
(* The head of the tail, when nothing runs.                                *)

AtHead(op) == cur.op = "none" /\ tail # <<>> /\ Head(tail).op = op

\* Mutant: the slot of the running request is not emptied.
FinishKeepsRequest == cur' = [cur EXCEPT !.at = "none"]

\* The request settles and the tail is free.
Finish == cur' = Idle

Run(at, was) ==
  cur' = [op |-> Head(tail).op, tab |-> Head(tail).tab, sid |-> Head(tail).sid,
          flag |-> Head(tail).flag, at |-> at, was |-> was, tried |-> 0]

\* Mutant: the registry outlives the connection.
teardownSessionKeepsRegistry ==
  client' = "none" /\ turns' = {} /\ staleMints' = {} /\ UNCHANGED sessions

\* Every controller ends its turn and is dropped; the child is disposed, which
\* rejects the calls that are still out.
teardownSession ==
  /\ client' = "none"
  /\ sessions' = NoOwner /\ turns' = {}
  /\ staleMints' = {}

\* Mutant: a restart tells no tab.
restartViewSilent == view

\* fanOutRestartSignal: unless a teardown already promised a recovery, every
\* tab with a session is told that it ended.  The bootstrap tab gets a clear.
restartView ==
  IF recoveryHeld THEN view
  ELSE TabsSessionLost(view, {sessions[s] : s \in Registered} \ {Boot})

\* startInternal up to its first await.
BeginStart ==
  /\ AtHead("start") /\ ~isDisposed
  /\ acpRespawnTimer' = FALSE
  /\ view' = restartView
  /\ cleared' = IF recoveryHeld \/ ~Occupied(Boot) THEN cleared ELSE cleared \cup {Boot}
  /\ teardownSession
  /\ acpState' = "starting"
  /\ tail' = Tail(tail)
  /\ Run("resolve", acpState = "respawning")
  /\ UNCHANGED <<recovery, pendingClose, issued, banner, userClosed, closedLive,
                 closedAway>>

\* reconnect tears down for a respawn and starts in the same step.
BeginReconnect ==
  /\ AtHead("reconnect") /\ acpState = "ready"
  /\ Head(tail).flag \/ turns = {}
  /\ pendingRecovery' = RecoverySnapshot /\ recoveryHeld' = TRUE
  /\ acpRespawnTimer' = FALSE
  /\ teardownSession
  /\ acpState' = "starting"
  /\ tail' = Tail(tail)
  /\ Run("resolve", TRUE)
  /\ UNCHANGED <<rest, pendingClose, issued, ui, history>>

BeginOpen ==
  /\ AtHead("open") /\ client = "up"
  /\ ~Occupied(Head(tail).tab)
  /\ tail' = Tail(tail)
  /\ Run("mint", FALSE)
  /\ UNCHANGED <<conn, recovery, registry, staleMints, issued, ui, history>>

\* New Session ends the tab's own session first.
BeginNew ==
  /\ AtHead("new") /\ client = "up"
  /\ LET t   == Head(tail).tab
         old == getByTabId(t)
     IN  /\ sessions' = Without(sessions, old)
         /\ turns' = turns \ old
         /\ view' = TabClear(view, t)
  /\ tail' = Tail(tail)
  /\ Run("mint", FALSE)
  /\ UNCHANGED <<conn, recovery, pendingClose, staleMints,
                 issued, banner, history>>

BeginLoad ==
  /\ AtHead("load") /\ client = "up"
  /\ getByTabId(Head(tail).tab) \cap turns = {}
  /\ tail' = Tail(tail)
  /\ Run("confine", FALSE)
  /\ UNCHANGED <<conn, recovery, registry, staleMints, issued, ui, history>>

\* closeTabInternal: the removal and the end of the tombstone.
closeTabInternal ==
  /\ AtHead("close")
  /\ LET s == Head(tail).sid
     IN  /\ sessions' = Close(sessions, s)
         /\ turns' = turns \ {s}
         /\ pendingClose' = pendingClose \ {s}
  /\ tail' = Tail(tail)
  /\ UNCHANGED <<conn, recovery, cur, staleMints, issued, ui,
                 history>>

\* The requests that return without a change.
IgnoreHead ==
  /\ \/ AtHead("start") /\ isDisposed
     \/ AtHead("reconnect") /\ acpState # "ready"
     \/ AtHead("reconnect") /\ ~Head(tail).flag /\ turns # {}
     \/ AtHead("open") /\ Occupied(Head(tail).tab)
     \/ /\ AtHead("load") /\ client = "up"
        /\ getByTabId(Head(tail).tab) \cap turns # {}
  /\ tail' = Tail(tail)
  /\ UNCHANGED <<conn, recovery, registry, cur, staleMints, issued, ui, history>>

\* Mutant: without a client the request is dropped, its tab told nothing.
NotConnectedSilent ==
  /\ client # "up"
  /\ \/ AtHead("open") /\ ~Occupied(Head(tail).tab)
     \/ AtHead("new")
     \/ AtHead("load")
  /\ tail' = Tail(tail)
  /\ UNCHANGED <<conn, recovery, registry, cur, staleMints, issued, ui, history>>

\* open, New Session and load answer open-failed while there is no client.
NotConnected ==
  /\ client # "up"
  /\ \/ AtHead("open") /\ ~Occupied(Head(tail).tab)
     \/ AtHead("new")
     \/ AtHead("load")
  /\ Post(TabOpenFailed(view, Head(tail).tab))
  /\ tail' = Tail(tail)
  /\ UNCHANGED <<conn, recovery, registry, cur, staleMints, issued, banner,
                 history>>

-----------------------------------------------------------------------------
(* start and reconnect, from the resolution of the runtime to the end of   *)
(* the initial establishment.                                              *)

\* The catch of startInternal, then the caller's: the timer's start and
\* reconnect stay in the outage and arm a retry, the user's start does not.
StartFails ==
  /\ client' = "none"
  /\ IF isDisposed
     THEN UNCHANGED <<acpState, acpRespawnTimer, banner>>
     ELSE /\ IF cur.flag \/ cur.op = "reconnect"
             THEN scheduleAcpRespawn
             ELSE acpState' = "idle" /\ UNCHANGED acpRespawnTimer
          /\ banner' = IF cur.was THEN banner ELSE "failed"
  /\ Finish
  /\ UNCHANGED <<recovery, registry, tail, staleMints, issued, view, history>>

\* Mutant: the disposal is not checked again after the await.
ResolveOkUnchecked ==
  /\ cur.at = "resolve"
  /\ client' = "connecting"
  /\ cur' = [cur EXCEPT !.at = "connect"]
  /\ UNCHANGED <<acpState, acpRespawnTimer, recovery, registry, tail, staleMints,
                 issued, ui, history>>

\* A runtime was found.
ResolveOk ==
  /\ cur.at = "resolve" /\ ~isDisposed
  /\ client' = "connecting"
  /\ cur' = [cur EXCEPT !.at = "connect"]
  /\ UNCHANGED <<acpState, acpRespawnTimer, recovery, registry, tail, staleMints,
                 issued, ui, history>>

\* No runtime was found, or the backend was disposed meanwhile.
ResolveFails == cur.at = "resolve" /\ StartFails

\* The child fails to connect, exits, misses the deadline, or was disposed.
ConnectFails == cur.at = "connect" /\ StartFails

\* The client is adopted.  pendingRecovery is consumed once: by the recovery
\* loop, or, when nothing is to be recovered, by a new bootstrap session.
ConnectOk ==
  /\ cur.at = "connect" /\ client = "connecting"
  /\ client' = "up" /\ acpState' = "ready"
  /\ pendingRecovery' = NoOwner /\ recoveryHeld' = FALSE
  /\ IF recoveryHeld /\ In(pendingRecovery) # {}
     THEN /\ rest' = pendingRecovery
          /\ cur' = [cur EXCEPT !.at = "recover"]
     ELSE /\ cur' = [cur EXCEPT !.at = "mint", !.tab = Boot]
          /\ UNCHANGED rest
  /\ UNCHANGED <<acpRespawnTimer, registry, tail, staleMints, issued, ui, history>>

\* One attempt: mint the controller, announce it, then load.  With no client
\* the load answers at once and the session is lost.
RecoverNext(s) ==
  /\ cur.at = "recover" /\ cur.sid = NoSession /\ s \in In(rest)
  /\ LET t     == rest[s]
         bound == TabBound(view, t, s)
     IN  /\ rest' = Close(rest, s)
         /\ turns' = turns \ {s}
         /\ Rebound(t, s)
         /\ IF client = "up"
            THEN /\ sessions' = Open(sessions, s, t)
                 /\ Post(bound)
                 /\ cur' = [cur EXCEPT !.sid = s, !.tab = t, !.tried = @ + 1]
            ELSE /\ sessions' = Close(Open(sessions, s, t), s)
                 /\ Post(TabSessionLost(bound, t))
                 /\ cur' = [cur EXCEPT !.tried = @ + 1]
  /\ UNCHANGED <<conn, pendingRecovery, recoveryHeld, pendingClose, tail,
                 staleMints, issued, banner, userClosed, closedLive>>

\* Mutant: a session the budget no longer covers is dropped silently.
RecoverBudgetSpentSilent(s) ==
  /\ cur.at = "recover" /\ cur.sid = NoSession /\ s \in In(rest)
  /\ cur.tried >= 1
  /\ rest' = Close(rest, s)
  /\ UNCHANGED <<conn, pendingRecovery, recoveryHeld, registry, tail, cur,
                 staleMints, issued, ui, history>>

\* The budget of the loop is a point in time, read again before each attempt.  It
\* is not spent before the first one, and can be after it (two slow attempts, or
\* a host that sleeps).
RecoverBudgetSpent(s) ==
  /\ cur.at = "recover" /\ cur.sid = NoSession /\ s \in In(rest)
  /\ cur.tried >= 1
  /\ rest' = Close(rest, s)
  /\ Post(TabSessionLost(view, rest[s]))
  /\ UNCHANGED <<conn, pendingRecovery, recoveryHeld, registry, tail, cur,
                 staleMints, issued, banner, history>>

RecoverLoaded ==
  /\ cur.at = "recover" /\ cur.sid # NoSession /\ client = "up"
  /\ cur' = [cur EXCEPT !.sid = NoSession]
  /\ UNCHANGED <<conn, recovery, sessions, turns, pendingClose, tail, staleMints,
                 issued, ui, history>>

\* The load fails, finds nothing, misses its deadline, or the child exits.
RecoverFails ==
  /\ cur.at = "recover" /\ cur.sid # NoSession
  /\ sessions' = Close(sessions, cur.sid)
  /\ turns' = turns \ {cur.sid}
  /\ Post(TabSessionLost(view, cur.tab))
  /\ cur' = [cur EXCEPT !.sid = NoSession]
  /\ UNCHANGED <<conn, recovery, pendingClose, tail, staleMints,
                 issued, banner, history>>

\* system.recovered, unless the connection died again during the loop.
RecoverDone ==
  /\ cur.at = "recover" /\ cur.sid = NoSession /\ In(rest) = {}
  /\ PostBanner(IF acpState # "respawning" THEN "none" ELSE banner)
  /\ Finish
  /\ UNCHANGED <<conn, recovery, registry, tail, staleMints, issued, view, history>>

-----------------------------------------------------------------------------
(* openSession, for the bootstrap session, open and New Session.           *)

\* The session/new answer: register, adopt, announce, then pin the mode.
MintOk(s) ==
  /\ cur.at = "mint" /\ client = "up"
  /\ s \in Sessions \ issued
  /\ issued' = issued \cup {s}
  /\ sessions' = Open(sessions, s, cur.tab)
  /\ Post(TabBound(view, cur.tab, s))
  /\ Rebound(cur.tab, s)
  /\ cur' = [cur EXCEPT !.at = "pin", !.sid = s]
  /\ UNCHANGED <<conn, recovery, turns, pendingClose, tail, staleMints, banner,
                 userClosed, closedLive>>

\* The caller stops waiting: the tab gets open-failed; for the bootstrap
\* session the banner is raised, unless the crash already raised its own.
GiveUp ==
  /\ IF cur.op \in {"start", "reconnect"}
     THEN /\ PostBanner(IF acpState # "respawning" THEN "failed" ELSE banner)
          /\ UNCHANGED view
     ELSE /\ Post(TabOpenFailed(view, cur.tab))
          /\ UNCHANGED banner
  /\ Finish
  /\ UNCHANGED <<conn, recovery, registry, tail, issued, history>>

\* Mutant: session/new is not raced against the exit of the child.
MintFailsUnraced ==
  /\ cur.at = "mint" /\ client = "up"
  /\ GiveUp
  /\ UNCHANGED staleMints

\* session/new is refused, or the child exits.
MintFails ==
  /\ cur.at = "mint"
  /\ GiveUp
  /\ UNCHANGED staleMints

\* The deadline: the call is abandoned and may still answer (LateMint).
MintDeadline ==
  /\ cur.at = "mint" /\ client = "up"
  /\ GiveUp
  /\ staleMints' = staleMints \cup {cur.tab}

PinOk ==
  /\ cur.at = "pin" /\ client = "up"
  /\ PostBanner(IF cur.op \in {"start", "reconnect"} THEN "none" ELSE banner)
  /\ Finish
  /\ UNCHANGED <<conn, recovery, registry, tail, staleMints, issued, view, history>>

\* The deadline, or the exit of the child, comes while the mode is pinned:
\* the session stays registered and bound.
PinGivesUp ==
  /\ cur.at = "pin"
  /\ GiveUp
  /\ UNCHANGED staleMints

-----------------------------------------------------------------------------
(* loadSessionIntoTabInternal after its checks.                            *)

\* The session is outside the workspace.
ConfineDenied ==
  /\ cur.at = "confine"
  /\ Post(TabOpenFailed(view, cur.tab))
  /\ Finish
  /\ UNCHANGED <<conn, recovery, registry, tail, staleMints, issued, banner,
                 history>>

\* The occupant of the tab, read again after the await, is closed; the session
\* is taken from the tab that held it, which is told so; the tab is bound.  If
\* the child died during the await, the binding is undone on the spot.
ConfineOk ==
  /\ cur.at = "confine"
  /\ LET s        == cur.sid
         t        == cur.tab
         old      == getByTabId(t)
         orphaned == {sessions[s]} \ {t, NoTab}
         moved    == Open(Without(sessions, old), s, t)
         bound    == TabBound(TabsSessionLost(view, orphaned), t, s)
         reopened == {s} \ pendingClose
     IN  /\ userClosed' = userClosed \ reopened
         /\ closedLive' = closedLive \ reopened
         /\ Rebound(t, s)
         /\ turns' = turns \ (old \cup {s})
         /\ IF client = "up"
            THEN /\ sessions' = moved
                 /\ Post(bound)
                 /\ cur' = [cur EXCEPT !.at = "replay"]
            ELSE /\ sessions' = Close(moved, s)
                 /\ Post(TabSessionLost(bound, t))
                 /\ Finish
  /\ UNCHANGED <<conn, recovery, pendingClose, tail, staleMints, issued, banner>>

\* Loaded, failed, found nothing, or superseded, which is what an exit of the
\* child makes of it: the session stays registered in each case.
ReplayEnds ==
  /\ cur.at = "replay"
  /\ Finish
  /\ UNCHANGED <<conn, recovery, registry, tail, staleMints, issued, ui, history>>

\* The deadline: the session is closed and its tab told.
ReplayDeadline ==
  /\ cur.at = "replay" /\ client = "up"
  /\ sessions' = Close(sessions, cur.sid)
  /\ turns' = turns \ {cur.sid}
  /\ Post(TabSessionLost(view, cur.tab))
  /\ Finish
  /\ UNCHANGED <<conn, recovery, pendingClose, tail, staleMints, issued, banner,
                 history>>

-----------------------------------------------------------------------------
(* Next-state relation and specification.                                  *)

UserRequest ==
  \/ UserStart
  \/ \E force \in BOOLEAN : UserReconnect(force)
  \/ \E t \in Tabs : NewTab(t) \/ RetryOpen(t) \/ NewSession(t) \/ CloseTab(t)
  \/ \E s \in Sessions, t \in Tabs : LoadInto(s, t)

OffTail ==
  \/ \E t \in Tabs : sendPrompt(t) \/ LateMint(t)
  \/ \E s \in Sessions : TurnEnds(s)
  \/ Crash
  \/ dispose

Begin == \/ BeginStart \/ BeginReconnect \/ BeginOpen \/ BeginNew \/ BeginLoad
         \/ closeTabInternal \/ IgnoreHead \/ NotConnected

Continue ==
  \/ ResolveOk \/ ResolveFails \/ ConnectOk \/ ConnectFails
  \/ \E s \in Sessions : RecoverNext(s) \/ RecoverBudgetSpent(s) \/ MintOk(s)
  \/ RecoverLoaded \/ RecoverFails \/ RecoverDone
  \/ MintFails \/ MintDeadline \/ PinOk \/ PinGivesUp
  \/ ConfineDenied \/ ConfineOk \/ ReplayEnds \/ ReplayDeadline

Next == UserRequest \/ OffTail \/ RespawnTimerFires \/ Begin \/ Continue

\* Every await of a request settles: the calls on the child are raced against
\* its exit and a deadline, the others are local file-system calls.  A timer
\* that stays armed fires in one of the event loop's turns, however busy the
\* tail is.
Fairness == WF_vars(Begin) /\ WF_vars(Continue) /\ SF_vars(RespawnTimerFires)

Spec == Init /\ [][Next]_vars

FairSpec == Spec /\ Fairness

-----------------------------------------------------------------------------
(* Safety.                                                                 *)

\* A tab has at most one controller.  The registry guarantees one controller
\* per session id; one per tab is the work of the tail, of the occupant that a
\* load reads again after its await, of the occupied check of openTab and of
\* the discarding of abandoned mints.
OneSessionPerTab ==
  \A s1, s2 \in Registered : sessions[s1] = sessions[s2] => s1 = s2

\* Someone still answers for session s of tab t: a controller, a recovery that
\* is promised or under way, or a New Session that replaces it.
Answered(t, s) ==
  \/ sessions[s] = t
  \/ recoveryHeld /\ pendingRecovery[s] = t
  \/ rest[s] = t
  \/ cur.op = "new" /\ cur.tab = t

\* Never a silent drop: a tab that offers its session for prompts is answered
\* for, or its user was told (open-failed after a New Session, the clear of a
\* restart), or closed that very session through another tab that named it.
NoSilentDrop ==
  \A t \in Tabs :
    view[t].ui = "bound" /\ ~isDisposed
    => \/ Answered(t, view[t].sid)
       \/ view[t].failed
       \/ t \in closedAway \cup cleared

\* Turns live on registered sessions of a live child: a crash, a restart, a
\* close, a rebind or a load leaves none behind.
TurnsAreServed ==
  turns \subseteq Registered /\ (turns # {} => client = "up")

\* An outage that is not being handled by a start has its retry: the timer is
\* armed, or its start waits on the tail.
RetryPending ==
  acpState = "respawning" =>
    \/ acpRespawnTimer
    \/ \E i \in DOMAIN tail : tail[i].op = "start"

\* A session that was closed while the connection was up, and not loaded again
\* since, is not brought back by the respawn after a crash.
ClosedStaysClosed ==
  \A s \in closedLive :
    /\ s \notin pendingClose => s \notin Registered
    /\ recoveryHeld => pendingRecovery[s] = NoTab

\* Disposed is final: no child, no session, no retry, whatever was under way.
DisposedIsFinal ==
  isDisposed => client = "none" /\ Registered = {} /\ ~acpRespawnTimer

-----------------------------------------------------------------------------
(* Liveness, under FairSpec.                                               *)

\* The tail never wedges: whatever runs on it ends.
TailDrains == \A op \in Ops \ {"close"} :
                cur.op = op ~> cur.op = "none"

\* Every open gets a terminal reply: a new tab does not stay disabled for ever.
OpenAnswered ==
  \A t \in Tabs \ {Boot} :
    view[t].ui = "unbound" ~> view[t].ui # "unbound" \/ view[t].failed
                              \/ view[t].sid # NoSession \/ isDisposed

\* An outage leads to a new attempt.
OutageRetried == acpState = "respawning" ~> acpState # "respawning"

-----------------------------------------------------------------------------
(* What the code's documentation says and the code does not do.            *)

\* A session the user closed is never resurrected.
NoResurrection ==
  \A s \in userClosed \ pendingClose : s \notin Registered

\* While the banner says "reconnecting", an attempt is pending or under way.
ReconnectingMeansRetrying ==
  banner = "reconnecting" /\ ~isDisposed =>
    \/ acpRespawnTimer
    \/ cur.op \in {"start", "reconnect"}
    \/ \E i \in DOMAIN tail : tail[i].op \in {"start", "reconnect"}

\* A tab that shows its session as bound has a controller behind it whenever
\* the connection is up and the tail is idle, or its user was told.
NoZombieTab ==
  \A t \in Tabs :
    /\ view[t].ui = "bound" /\ acpState = "ready"
    /\ cur.op = "none" /\ tail = <<>>
    => sessions[view[t].sid] = t \/ view[t].failed \/ t \in cleared
=============================================================================
