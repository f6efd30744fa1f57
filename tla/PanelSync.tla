------------------------------ MODULE PanelSync ------------------------------
(***************************************************************************)
(* A panel of the webview with one switch, and the host that fills it:     *)
(* webview/src/rpc.ts, state/panels.ts, state/panelScopeFold.ts,           *)
(* state/sequentialQueue.ts and panels/useToggle.ts on one side,           *)
(* ControlDispatcher.ts and panelDataCoordinator.ts on the other.          *)
(*                                                                         *)
(* A message of the host is folded when it is posted.  Both directions are *)
(* first in, first out, and a request takes its time to arrive, so that no *)
(* order of what either side sees is lost.                                 *)
(***************************************************************************)
EXTENDS Naturals, FiniteSets, Sequences

CONSTANTS MaxPages,    \* bound: instances of the webview's page
          MaxAsked,    \* bound: requests of each instance
          MaxMounts    \* bound: instances of the panel, over all pages

ASSUME PanelSyncAssumption ==
  /\ {MaxPages, MaxMounts} \subseteq Nat \ {0}
  /\ MaxAsked \in [1 .. MaxPages -> Nat \ {0}]
  /\ MaxPages <= MaxMounts

VARIABLES page,        \* instanceId of the RpcClient
          mount,       \* the instance of the panel's component
          rpcSeq,      \* RpcClient.seq
          pending,     \* RpcClient.pending
          slot,        \* the RemoteData of the panel, and its refreshError
          switch,      \* ToggleState of the switch; an absent value is {}
          queued,      \* the toggles of the SequentialQueue, each [mount, seq, want]
          jobs,        \* the requests at the host, by page and number
          configTail,  \* ConfigWriteTail
          panelFetchSeq,
          saved,       \* what config.yaml says
          lapsed       \* history: since the newest fetch started, something happened
                       \* of which the page knows nothing

pageVars == <<page, mount, rpcSeq, pending, slot, switch, queued>>
panelHostVars == <<jobs, configTail, panelFetchSeq, saved, lapsed>>
panelSyncVars == <<pageVars, panelHostVars>>

Requests == UNION {{p} \X (1 .. MaxAsked[p]) : p \in 1 .. MaxPages}
Absent == {}
NoToggle == [mount |-> 0, seq |-> 0, want |-> FALSE]
NotAsked == [phase |-> "none", toggle |-> NoToggle, seq |-> 0, data |-> FALSE]
FreshSwitch == [override |-> Absent, confirmed |-> Absent, latest |-> 0, settled |-> 0,
                error |-> FALSE]
FreshSlot == [status |-> "idle", on |-> FALSE, refreshError |-> FALSE]

PanelSyncTypeOK ==
  /\ page \in 1 .. MaxPages /\ mount \in 1 .. MaxMounts /\ rpcSeq \in 0 .. MaxAsked[page]
  /\ pending \subseteq 1 .. rpcSeq
  /\ slot.status \in {"idle", "loading", "success", "error"}
  /\ switch.override \in {Absent, {TRUE}, {FALSE}} /\ switch.confirmed \in {Absent, {TRUE}, {FALSE}}
  /\ switch.settled <= switch.latest
  /\ DOMAIN jobs = Requests
  /\ \A r \in Requests : jobs[r].phase \in {"none", "sent", "tail", "fetching", "read"}
  /\ \A i \in DOMAIN configTail : jobs[configTail[i]].phase = "tail"

PanelSyncInit ==
  /\ page = 1 /\ mount = 1 /\ rpcSeq = 0 /\ pending = {}
  /\ slot = FreshSlot /\ switch = FreshSwitch /\ queued = << >>
  /\ jobs = [r \in Requests |-> NotAsked]
  /\ configTail = << >> /\ panelFetchSeq = 0
  /\ saved = FALSE /\ lapsed = FALSE

IsToggle(r) == jobs[r].toggle # NoToggle

\* isOn: the optimistic value, else the server's.
ShownOn == IF switch.override = Absent THEN slot.on ELSE TRUE \in switch.override

-----------------------------------------------------------------------------
\* RpcClient.request.
SendRequest(toggle) ==
  /\ rpcSeq < MaxAsked[page]
  /\ rpcSeq' = rpcSeq + 1
  /\ pending' = pending \cup {rpcSeq'}
  /\ jobs' = [jobs EXCEPT ![<<page, rpcSeq'>>] =
                [NotAsked EXCEPT !.phase = "sent", !.toggle = toggle]]

\* fetchPanel: loading, unless data is shown already.  Retry, reload and a panel
\* that is opened are all this.
Loading(s) == IF s.status = "success" THEN s ELSE [s EXCEPT !.status = "loading"]

RequestPanel ==
  /\ SendRequest(NoToggle)
  /\ slot' = Loading(slot)
  /\ UNCHANGED <<page, mount, switch, queued, configTail, panelFetchSeq, saved, lapsed>>

\* The user leaves the panel and opens it again: the component is a new one.
\* The queue of the old one goes on, its results reach no state.
ReopenPanel ==
  /\ mount < MaxMounts /\ mount' = mount + 1
  /\ switch' = FreshSwitch
  /\ SendRequest(NoToggle)
  /\ slot' = Loading(slot)
  /\ lapsed' = TRUE
  /\ UNCHANGED <<page, queued, configTail, panelFetchSeq, saved>>

\* toggle: the switch flips at once and the write joins the queue.
ClickSwitch ==
  /\ slot.status = "success" /\ rpcSeq + Len(queued) < MaxAsked[page]
  /\ LET seq == switch.latest + 1
         want == ~ ShownOn
     IN /\ switch' = [switch EXCEPT !.override = {want}, !.latest = seq, !.error = FALSE]
        /\ queued' = Append(queued, [mount |-> mount, seq |-> seq, want |-> want])
  /\ UNCHANGED <<page, mount, rpcSeq, pending, slot, panelHostVars>>

\* SequentialQueue.run: a write starts when the one before it, of the same
\* component, has settled.
PerformToggle ==
  \E i \in DOMAIN queued :
    /\ \A j \in 1 .. i - 1 : queued[j].mount # queued[i].mount
    /\ \A id \in pending : jobs[<<page, id>>].toggle.mount # queued[i].mount
    /\ SendRequest(queued[i])
    /\ queued' = [j \in 1 .. Len(queued) - 1 |-> IF j < i THEN queued[j] ELSE queued[j + 1]]
    /\ UNCHANGED <<page, mount, slot, switch, configTail, panelFetchSeq, saved, lapsed>>

\* The webview is reloaded: pagehide rejects what is pending and the page is gone.
ReloadPage ==
  /\ page < MaxPages /\ page' = page + 1
  /\ mount < MaxMounts /\ mount' = mount + 1
  /\ rpcSeq' = 0 /\ pending' = {}
  /\ slot' = FreshSlot /\ switch' = FreshSwitch /\ queued' = << >>
  /\ lapsed' = TRUE
  /\ UNCHANGED <<jobs, configTail, panelFetchSeq, saved>>

-----------------------------------------------------------------------------
\* reconcileToggle, which each render makes: a switch with nothing in flight
\* shows the server's value.
Reconciled(s) ==
  IF s.latest = s.settled THEN [s EXCEPT !.override = Absent, !.confirmed = Absent] ELSE s

\* confirmToggle.
Confirmed(s, t) ==
  Reconciled([s EXCEPT !.confirmed = {t.want},
                       !.settled = IF s.latest = t.seq THEN t.seq ELSE @])

\* Mutant: a refusal of a toggle that a newer one overtook reverts the switch too.
RollsBackAlways(s, t) ==
  [s EXCEPT !.override = s.confirmed, !.settled = t.seq, !.error = TRUE]

\* rollbackToggle: back to what was confirmed last, and "Not saved" is said.
RolledBack(s, t) ==
  IF s.latest # t.seq THEN s
  ELSE Reconciled([s EXCEPT !.override = s.confirmed, !.settled = t.seq, !.error = TRUE])

\* local.panelError: an error card, or a banner above the data there is.
Failed(s) ==
  IF s.status = "success" THEN [s EXCEPT !.refreshError = TRUE] ELSE [s EXCEPT !.status = "error"]

\* foldPanelData.
Filled(on) == [status |-> "success", on |-> on, refreshError |-> FALSE]

\* A pending request of the page settles over the slot s it finds.
Settle(id, ok, s) ==
  LET t == jobs[<<page, id>>].toggle
  IN /\ pending' = pending \ {id}
     /\ slot' = IF t = NoToggle /\ ~ ok THEN Failed(s) ELSE s
     /\ switch' = IF t = NoToggle \/ t.mount # mount THEN switch
                  ELSE IF ok THEN Confirmed(switch, t) ELSE RolledBack(switch, t)

\* Mutant: the page takes the answer to a request of the page before it.
AnsweredByNumber(r, ok, s) ==
  /\ IF r[2] \in pending THEN Settle(r[2], ok, s)
     ELSE slot' = s /\ UNCHANGED <<pending, switch>>
  /\ UNCHANGED <<page, mount, rpcSeq, queued>>

\* handleControlRequest answers, and handleResponse drops what this page did not
\* ask or has given up.
Responds(r, ok, s) ==
  /\ IF r[1] = page /\ r[2] \in pending THEN Settle(r[2], ok, s)
     ELSE slot' = s /\ UNCHANGED <<pending, switch>>
  /\ UNCHANGED <<page, mount, rpcSeq, queued>>

\* The timer of a request that the host has got: the page gives up, the host
\* goes on.  A message takes less than the 30 seconds of the timer to arrive.
RequestTimesOut ==
  /\ \E id \in pending : jobs[<<page, id>>].phase # "sent" /\ Settle(id, FALSE, slot)
  /\ UNCHANGED <<page, mount, rpcSeq, queued, panelHostVars>>

-----------------------------------------------------------------------------
\* fetchPanelData takes its number before it waits for the source.
Fetching(j) == [j EXCEPT !.phase = "fetching", !.seq = panelFetchSeq + 1]

\* The next request arrives: a fetch starts, a toggle joins the tail.
Arrives(r) ==
  /\ jobs[r].phase = "sent"
  /\ \A q \in Requests : jobs[q].phase = "sent" =>
       (r[1] < q[1] \/ (r[1] = q[1] /\ r[2] <= q[2]))
  /\ IF IsToggle(r)
     THEN /\ jobs' = [jobs EXCEPT ![r].phase = "tail"]
          /\ configTail' = Append(configTail, r)
          /\ UNCHANGED <<panelFetchSeq, lapsed>>
     ELSE /\ jobs' = [jobs EXCEPT ![r] = Fetching(@)]
          /\ panelFetchSeq' = panelFetchSeq + 1
          /\ lapsed' = FALSE
          /\ UNCHANGED configTail
  /\ UNCHANGED <<pageVars, saved>>

\* Mutant: the answer of a toggle does not wait for the panel.
TogglePersistsUnpushed(r) ==
  /\ jobs[r].phase = "tail" /\ Head(configTail) = r
  /\ saved' = jobs[r].toggle.want
  /\ configTail' = Tail(configTail)
  /\ jobs' = [jobs EXCEPT ![r] = NotAsked]
  /\ Responds(r, TRUE, slot)
  /\ UNCHANGED <<panelFetchSeq, lapsed>>

\* toggleDashboardInner at the head of the tail: written, and rePushPanel fetches
\* the panel before the answer.
TogglePersists(r) ==
  /\ jobs[r].phase = "tail" /\ Head(configTail) = r
  /\ saved' = jobs[r].toggle.want
  /\ configTail' = Tail(configTail)
  /\ jobs' = [jobs EXCEPT ![r] = Fetching(@)]
  /\ panelFetchSeq' = panelFetchSeq + 1
  /\ lapsed' = FALSE
  /\ UNCHANGED pageVars

\* It is refused, or the server's answer is lost with or without the write.  A
\* page or a panel that came later cannot know of the write.
ToggleRejected(r) ==
  /\ jobs[r].phase = "tail" /\ Head(configTail) = r
  /\ saved' \in {saved, jobs[r].toggle.want}
  /\ lapsed' = (lapsed \/ (saved' # saved /\ jobs[r].toggle.mount # mount))
  /\ configTail' = Tail(configTail)
  /\ jobs' = [jobs EXCEPT ![r] = NotAsked]
  /\ Responds(r, FALSE, slot)
  /\ UNCHANGED panelFetchSeq

\* The source reads the configuration.
SourceReads(r) ==
  /\ jobs[r].phase = "fetching"
  /\ jobs' = [jobs EXCEPT ![r].phase = "read", ![r].data = saved]
  /\ UNCHANGED <<pageVars, configTail, panelFetchSeq, saved, lapsed>>

\* The fetch ends: pushed unless a later one has started, then answered.
PanelFetched(r) ==
  /\ jobs[r].phase = "read"
  /\ Responds(r, TRUE, IF jobs[r].seq = panelFetchSeq THEN Filled(jobs[r].data) ELSE slot)
  /\ jobs' = [jobs EXCEPT ![r] = NotAsked]
  /\ UNCHANGED <<configTail, panelFetchSeq, saved, lapsed>>

\* The source fails.  A fetch the page asked for rejects; the one of a toggle is
\* only logged, and that of an old page is answered to nobody.
PanelFetchFails(r) ==
  /\ jobs[r].phase \in {"fetching", "read"}
  /\ Responds(r, IsToggle(r), slot)
  /\ jobs' = [jobs EXCEPT ![r] = NotAsked]
  /\ lapsed' = (lapsed \/ (jobs[r].seq = panelFetchSeq /\ (IsToggle(r) \/ r[1] # page)))
  /\ UNCHANGED <<configTail, panelFetchSeq, saved>>

PanelSyncNext ==
  \/ RequestPanel \/ ReopenPanel \/ ClickSwitch \/ PerformToggle \/ ReloadPage
  \/ RequestTimesOut
  \/ \E r \in Requests :
       \/ Arrives(r) \/ TogglePersists(r) \/ ToggleRejected(r)
       \/ SourceReads(r) \/ PanelFetched(r) \/ PanelFetchFails(r)

-----------------------------------------------------------------------------
PanelQuiet == pending = {} /\ queued = << >> /\ \A r \in Requests : jobs[r] = NotAsked

\* A panel does not spin when nothing is under way, except when the newest fetch
\* was not the view's own and failed (remoteData.ts:4-6).
NoDeadSpinner == (PanelQuiet /\ ~ lapsed) => slot.status # "loading"

\* When nothing is under way the switch shows what is saved, or the page says
\* that it was not saved or not refreshed (useToggle.ts:5-20, 38-56).
SwitchIsHonest ==
  (PanelQuiet /\ ~ lapsed /\ slot.status = "success")
    => (ShownOn = saved \/ switch.error \/ slot.refreshError)

\* While the newest toggle is waiting or under way the switch shows its wish,
\* whatever is pushed or refused meanwhile (useToggle.ts:30-36).
WishIsShown ==
  \A t \in {queued[i] : i \in DOMAIN queued} \cup {jobs[<<page, id>>].toggle : id \in pending} :
    (t.mount = mount /\ t.seq = switch.latest /\ t # NoToggle) => switch.override = {t.want}
=============================================================================
