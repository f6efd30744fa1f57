------------------------------ MODULE ViewReload ------------------------------
(***************************************************************************)
(* The webview's page is lost and made again while the sessions of its     *)
(* tabs live on in the host: TalariaViewProvider.ts (resolveWebviewView,   *)
(* reloadWebview, ready), sessionScopeActions.ts (listTabs),               *)
(* webview/src/state/hydrateFold.ts, transcript.ts (tab.bound, turn.start) *)
(* and the drafts of persist.ts.                                           *)
(*                                                                         *)
(* A session has the number of the tab it was minted for.  A message of    *)
(* the host is folded when it is posted, or lost on a page that does not   *)
(* listen yet; what the page posts takes its time.                         *)
(***************************************************************************)
EXTENDS Naturals, FiniteSets, Sequences

CONSTANTS MaxTabId,   \* bound: tabs are numbered 0 .. MaxTabId
          MaxLoads,   \* bound: loads of the page
          MaxOutages, \* bound: crashes of the agent
          MaxPosted   \* bound: messages on their way to the host

ASSUME ViewReloadAssumption ==
  {MaxTabId, MaxLoads, MaxOutages, MaxPosted} \subseteq Nat /\ MaxLoads # 0

VARIABLES pageState,  \* "mounting", "listening" (ready is on its way) or "hydrated"
          loads,
          strip,      \* AppState.tabs
          minted,     \* the tab ids that were used
          restoredDrafts,
          toHost,     \* what the page has posted
          hosted,     \* each session in the registry, or in pendingRecovery
          liveTurns,  \* the sessions with hasLiveTurn()
          tombs,      \* pendingClose
          outages,
          known,      \* history: the sessions this page was told of or asked for
          owed        \* history: the tabs with text that was not admitted

reloadPageVars == <<pageState, loads, strip, minted, restoredDrafts>>
reloadHostVars == <<hosted, liveTurns, tombs, outages>>
viewReloadVars == <<reloadPageVars, reloadHostVars, toHost, known, owed>>

TabIds == 0 .. MaxTabId
BootstrapTab == 0
NoSid == MaxTabId + 1

\* A draft is there or not; "sent" is one that was posted and not admitted yet.
NoTabState == [binding |-> "absent", sid |-> NoSid, turn |-> FALSE, draft |-> "none"]
FreshTab == [NoTabState EXCEPT !.binding = "unbound"]
BootStrip == [t \in TabIds |-> IF t = BootstrapTab THEN FreshTab ELSE NoTabState]

ViewReloadTypeOK ==
  /\ pageState \in {"mounting", "listening", "hydrated"} /\ loads \in 1 .. MaxLoads
  /\ \A t \in TabIds :
       /\ strip[t].binding \in {"absent", "unbound", "pending", "bound"}
       /\ strip[t].sid \in TabIds \cup {NoSid} /\ strip[t].turn \in BOOLEAN
       /\ strip[t].draft \in {"none", "typed", "sent"}
  /\ minted \subseteq TabIds /\ restoredDrafts \subseteq TabIds
  /\ \A s \in TabIds : hosted[s] \in {"none", "opening", "live", "recovering", "replaying"}
  /\ liveTurns \subseteq {s \in TabIds : hosted[s] = "live"} /\ tombs \subseteq TabIds
  /\ known \subseteq TabIds /\ owed \subseteq TabIds /\ outages \in 0 .. MaxOutages

\* The first page is there, and the first session is being minted for its tab.
ViewReloadInit ==
  /\ pageState = "hydrated" /\ loads = 1 /\ strip = BootStrip /\ minted = {BootstrapTab}
  /\ restoredDrafts = {} /\ toHost = << >>
  /\ hosted = [s \in TabIds |-> IF s = BootstrapTab THEN "opening" ELSE "none"]
  /\ liveTurns = {} /\ tombs = {} /\ outages = 0 /\ known = {BootstrapTab}
  /\ owed = {}

Present == {t \in TabIds : strip[t].binding # "absent"}
PageListens == pageState # "mounting"

\* sessionToTab.
TabsOf(s) == {t \in Present : strip[t].sid = s}

-----------------------------------------------------------------------------
\* The user.
OpenTab ==
  /\ PageListens /\ Len(toHost) < MaxPosted
  /\ \E t \in TabIds \ minted :
       /\ \A q \in TabIds \ minted : t <= q
       /\ minted' = minted \cup {t}
       /\ strip' = [strip EXCEPT ![t] = [FreshTab EXCEPT !.binding = "pending"]]
       /\ toHost' = Append(toHost, [type |-> "tab.open", of |-> t])
       /\ known' = IF pageState = "hydrated" THEN known \cup {t} ELSE known
  /\ UNCHANGED <<pageState, loads, restoredDrafts, owed, reloadHostVars>>

\* A tab without a session closes without a word to the host.
CloseTab ==
  /\ PageListens /\ Cardinality(Present) > 1 /\ Len(toHost) < MaxPosted
  /\ \E t \in Present :
       /\ strip' = [strip EXCEPT ![t] = NoTabState]
       /\ toHost' = IF strip[t].sid = NoSid THEN toHost
                    ELSE Append(toHost, [type |-> "tab.close", of |-> strip[t].sid])
       /\ known' = known \ {t, strip[t].sid} /\ owed' = owed \ {t}
  /\ UNCHANGED <<pageState, loads, minted, restoredDrafts, reloadHostVars>>

TypeDraft ==
  /\ PageListens
  /\ \E t \in Present :
       /\ strip[t].draft # "typed" /\ strip[t].binding = "bound"
       /\ strip' = [strip EXCEPT ![t].draft = "typed"] /\ owed' = owed \cup {t}
  /\ UNCHANGED <<pageState, loads, minted, restoredDrafts, toHost, known, reloadHostVars>>

\* The draft stays until the host has admitted the prompt.
SendDraft ==
  /\ PageListens /\ Len(toHost) < MaxPosted
  /\ \E t \in Present :
       /\ strip[t].binding = "bound" /\ strip[t].draft = "typed"
       /\ strip' = [strip EXCEPT ![t].draft = "sent"]
       /\ toHost' = Append(toHost, [type |-> "prompt", of |-> strip[t].sid])
  /\ UNCHANGED <<pageState, loads, minted, restoredDrafts, known, owed, reloadHostVars>>

\* The page is lost: disposed while it was hidden, or built again by the error
\* boundary.  Its last act writes the drafts, over those it had read itself and not
\* put back yet; what it had posted is heard or not.
LosePage ==
  /\ loads < MaxLoads /\ loads' = loads + 1
  /\ pageState' = "mounting" /\ strip' = BootStrip /\ known' = {}
  /\ restoredDrafts' = {t \in Present : strip[t].draft # "none"}
  /\ owed' = owed \cap known
  /\ toHost' \in {toHost, << >>}
  /\ UNCHANGED <<minted, reloadHostVars>>

\* The new page subscribes, then says that it is ready.
PageMounts ==
  /\ pageState = "mounting" /\ pageState' = "listening"
  /\ toHost' = Append(toHost, [type |-> "ready", of |-> NoSid])
  /\ UNCHANGED <<loads, strip, minted, restoredDrafts, known, owed, reloadHostVars>>

-----------------------------------------------------------------------------
\* Mutant: the seed holds the sessions that wait for their close.
SeededAll == {s \in TabIds : hosted[s] \in {"live", "replaying"}}

\* listTabs.
Seeded == {s \in TabIds : hosted[s] \in {"live", "replaying"} /\ s \notin tombs}

\* The state a seeded tab is built on: that of the tab that shows the session, or of
\* that number, or that of a new one.
BaseTab(s) == IF TabsOf(s) = {} THEN s ELSE CHOOSE t \in TabsOf(s) : TRUE
BaseOf(s) == IF BaseTab(s) \in Present THEN strip[BaseTab(s)] ELSE FreshTab

\* Mutant: the drafts of the lost page are not put back.
HydratedBare ==
  [t \in TabIds |->
     IF t \notin Seeded THEN NoTabState
     ELSE [binding |-> "bound", sid |-> t, turn |-> t \in liveTurns, draft |-> BaseOf(t).draft]]

\* foldHydrateReconcile.  A tab the seed does not name is dropped.
Hydrated ==
  [t \in TabIds |->
     IF t \notin Seeded THEN NoTabState
     ELSE [binding |-> "bound", sid |-> t, turn |-> t \in liveTurns,
           draft |-> IF BaseOf(t).draft = "none" /\ t \in restoredDrafts THEN "typed"
                     ELSE BaseOf(t).draft]]

\* foldHydrate: an empty seed keeps the tabs there are.  The text on a tab goes where
\* its session goes; that of a tab the seed does not name is dropped with it, unless
\* it is to be restored.
HandleReady ==
  /\ Head(toHost).type = "ready"
  /\ IF PageListens
     THEN /\ pageState' = "hydrated"
          /\ strip' = IF Seeded = {} THEN strip ELSE Hydrated
          /\ known' = Seeded \ {Tail(toHost)[i].of : i \in {j \in DOMAIN Tail(toHost) :
                                                           Tail(toHost)[j].type = "tab.close"}}
          /\ owed' = IF Seeded = {} THEN owed
                     ELSE (owed \cap restoredDrafts)
                          \cup {s \in Seeded : BaseTab(s) \in owed /\ BaseOf(s).draft # "none"}
     ELSE UNCHANGED <<pageState, strip, known, owed>>
  /\ UNCHANGED <<loads, minted, restoredDrafts, reloadHostVars>>

HandleOpen ==
  /\ Head(toHost).type = "tab.open"
  /\ hosted' = [hosted EXCEPT ![Head(toHost).of] = "opening"]
  /\ UNCHANGED <<reloadPageVars, liveTurns, tombs, outages, known, owed>>

HandleClose ==
  /\ Head(toHost).type = "tab.close"
  /\ tombs' = tombs \cup {Head(toHost).of}
  /\ UNCHANGED <<reloadPageVars, hosted, liveTurns, outages, known, owed>>

\* sendPrompt, up to its admission: turn.start and the user's echo.
HandlePrompt ==
  /\ Head(toHost).type = "prompt"
  /\ LET s == Head(toHost).of
         admitted == hosted[s] = "live" /\ s \notin liveTurns
     IN /\ liveTurns' = IF admitted THEN liveTurns \cup {s} ELSE liveTurns
        /\ strip' = [t \in TabIds |->
             IF t \notin TabsOf(s) \/ ~ (admitted /\ PageListens) THEN strip[t]
             ELSE [strip[t] EXCEPT !.turn = TRUE,
                                   !.draft = IF @ = "sent" THEN "none" ELSE @]]
        /\ owed' = {t \in owed : ~ (admitted /\ t \in TabsOf(s) /\ strip[t].draft = "sent")}
  /\ UNCHANGED <<pageState, loads, minted, restoredDrafts, hosted, tombs, outages, known>>

HandleMessage ==
  /\ toHost # << >> /\ toHost' = Tail(toHost)
  /\ HandleReady \/ HandleOpen \/ HandleClose \/ HandlePrompt

-----------------------------------------------------------------------------
\* tab.bound.
TabBinds(tabs, t, s) ==
  IF PageListens /\ t \in Present THEN [tabs EXCEPT ![t].binding = "bound", ![t].sid = s] ELSE tabs

\* turn.end, for the sessions S.
TurnsEnd(tabs, S) ==
  IF PageListens
  THEN [t \in TabIds |-> IF tabs[t].sid \in S THEN [tabs[t] EXCEPT !.turn = FALSE] ELSE tabs[t]]
  ELSE tabs

\* foldTurnStart.  A session no tab shows is adopted by the active tab if that is
\* unbound, and gets a tab of its own otherwise.  Any tab may be the active one.
TurnStarts(tabs, s) ==
  LET owners == {t \in TabIds : tabs[t].binding # "absent" /\ tabs[t].sid = s}
      Adopt(t) == /\ strip' = [tabs EXCEPT ![t] = [@ EXCEPT !.binding = "bound", !.sid = s,
                                                            !.turn = TRUE]]
                  /\ minted' = minted \cup {t}
  IN IF ~ PageListens THEN strip' = tabs /\ UNCHANGED minted
     ELSE IF owners # {} THEN \E t \in owners : Adopt(t)
     ELSE \E t \in {u \in Present : tabs[u].binding = "unbound" /\ tabs[u].sid = NoSid}
                     \cup (TabIds \ minted) : Adopt(t)

\* The start tail serves one request at a time, in their order; while sessions wait
\* for their recovery the agent is not up, or the tail is at them.
OpenSettles(s) ==
  /\ hosted[s] = "opening" /\ \A q \in TabIds : hosted[q] = "opening" => q >= s
  /\ \/ /\ {"recovering", "replaying"} \cap {hosted[q] : q \in TabIds} = {}
        /\ hosted' = [hosted EXCEPT ![s] = "live"]
        /\ strip' = TabBinds(strip, s, s)
     \/ hosted' = [hosted EXCEPT ![s] = "none"] /\ UNCHANGED strip
  /\ UNCHANGED <<pageState, loads, minted, restoredDrafts, toHost, liveTurns, tombs, outages,
                 known, owed>>

TurnFinishes(s) ==
  /\ s \in liveTurns /\ liveTurns' = liveTurns \ {s}
  /\ strip' = TurnsEnd(strip, {s})
  /\ UNCHANGED <<pageState, loads, minted, restoredDrafts, toHost, hosted, tombs, outages,
                 known, owed>>

\* The start tail comes to the close of a session, live or not.
CloseRuns(s) ==
  /\ s \in tombs /\ "replaying" \notin {hosted[q] : q \in TabIds}
  /\ tombs' = tombs \ {s} /\ liveTurns' = liveTurns \ {s}
  /\ hosted' = [hosted EXCEPT ![s] = IF @ = "live" THEN "none" ELSE @]
  /\ UNCHANGED <<reloadPageVars, toHost, outages, known, owed>>

\* tab.error of kind session-lost names the tab, not the session.
SessionLost(tabs, t) ==
  IF PageListens /\ t \in Present THEN [tabs EXCEPT ![t].binding = "unbound"] ELSE tabs

\* The agent dies.  A session on its way to its close is not kept for recovery; the
\* one that was being replayed is lost to its tab, and tried again.
AgentDies ==
  /\ outages < MaxOutages /\ outages' = outages + 1
  /\ LET replayed == {s \in TabIds : hosted[s] = "replaying"}
         ended == TurnsEnd(strip, liveTurns \cup replayed)
     IN strip' = [t \in TabIds |-> IF t \in replayed THEN SessionLost(ended, t)[t] ELSE ended[t]]
  /\ liveTurns' = {}
  /\ hosted' = [s \in TabIds |->
       IF hosted[s] \notin {"live", "replaying"} THEN hosted[s]
       ELSE IF s \in tombs THEN "none" ELSE "recovering"]
  /\ UNCHANGED <<pageState, loads, minted, restoredDrafts, toHost, tombs, known, owed>>

\* recoverOneSession: bound again, then replayed inside a turn.
RecoveryBegins(s) ==
  /\ hosted[s] = "recovering"
  /\ "replaying" \notin {hosted[q] : q \in TabIds}
  /\ hosted' = [hosted EXCEPT ![s] = "replaying"]
  /\ TurnStarts(TabBinds(strip, s, s), s)
  /\ UNCHANGED <<pageState, loads, restoredDrafts, toHost, liveTurns, tombs, outages,
                 known, owed>>

RecoveryEnds(s) ==
  /\ hosted[s] = "replaying"
  /\ \/ /\ hosted' = [hosted EXCEPT ![s] = "live"]
        /\ strip' = TurnsEnd(strip, {s})
     \/ /\ hosted' = [hosted EXCEPT ![s] = "none"]
        /\ strip' = SessionLost(TurnsEnd(strip, {s}), s)
  /\ UNCHANGED <<pageState, loads, minted, restoredDrafts, toHost, liveTurns, tombs, outages,
                 known, owed>>

ViewReloadNext ==
  \/ OpenTab \/ CloseTab \/ TypeDraft \/ SendDraft \/ LosePage \/ PageMounts
  \/ HandleMessage \/ AgentDies
  \/ \E s \in TabIds : OpenSettles(s) \/ TurnFinishes(s) \/ CloseRuns(s)
                       \/ RecoveryBegins(s) \/ RecoveryEnds(s)

-----------------------------------------------------------------------------
ReloadQuiet ==
  /\ pageState = "hydrated" /\ toHost = << >> /\ tombs = {}
  /\ \A s \in TabIds : hosted[s] \in {"none", "live"}

\* No session is shown by two tabs, whatever the page missed (tabs.ts:11-21).
OneTabShows == \A t, u \in Present : strip[t].sid = strip[u].sid /\ strip[t].sid # NoSid => t = u

\* When nothing is under way, each session the page was told of or asked for is in
\* its tab with its turn, if it lives, and that tab takes no prompts, if it does
\* not (hydrateFold.ts:5-24).
PageShowsItsSessions ==
  ReloadQuiet => \A s \in known :
    IF hosted[s] = "live"
    THEN strip[s].binding = "bound" /\ strip[s].sid = s /\ strip[s].turn = (s \in liveTurns)
    ELSE ~ (strip[s].binding = "bound" /\ strip[s].sid = s)

\* Text that the host has not admitted outlives the page it was typed on
\* (hydrateFold.ts:94-99).
DraftsReturn == pageState = "hydrated" => \A t \in known \cap owed : strip[t].draft # "none"
=============================================================================
