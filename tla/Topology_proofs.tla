-------------------------- MODULE Topology_proofs --------------------------
(* The safety of the topology of the extension host, for any number of tabs *)
(* and sessions, any set of user requests and any length of the tail.       *)
EXTENDS Topology, TLAPS

-----------------------------------------------------------------------------
(* The inductive invariant.                                                 *)

OnePerTab(owner) ==
  \A s1, s2 \in Sessions :
    owner[s1] # NoTab /\ owner[s1] = owner[s2] => s1 = s2

\* The requests that work on a tab, or on a session, name one.
Named(r) ==
  /\ r.op \in {"open", "new", "load"} => r.tab \in Tabs
  /\ r.op = "load" => r.sid \in issued
  /\ r.op \in {"start", "reconnect"} => r.sid = NoSession

CurNamed ==
  /\ cur.op \in {"new", "open", "load"} => cur.tab \in Tabs
  /\ cur.op = "load" => cur.sid \in issued
  /\ cur.at \in {"mint", "pin", "confine", "replay"} => cur.tab \in Tabs
  /\ cur.at \in {"confine", "replay"} => cur.op = "load"
  /\ cur.at \in {"resolve", "connect", "recover"} => cur.op \in {"start", "reconnect"}
  /\ cur.at \in {"mint", "pin"} => cur.op # "load"
  /\ cur.at = "recover" => cur.sid \in issued \cup {NoSession}
  /\ cur.at = "recover" /\ cur.sid # NoSession => cur.tab \in Tabs
  /\ cur.at \in {"resolve", "connect"} => cur.sid = NoSession

QueueNamed == \A i \in DOMAIN tail : Named(tail[i])

Requests == QueueNamed /\ CurNamed

\* Whatever has an owner was issued by the agent.
IdsIssued ==
  \A s \in Sessions :
    sessions[s] # NoTab \/ pendingRecovery[s] # NoTab \/ rest[s] # NoTab
    => s \in issued

\* Where each request stands with the registry.
Ownership ==
  /\ OnePerTab(sessions) /\ OnePerTab(pendingRecovery) /\ OnePerTab(rest)
  /\ cur.at # "recover" => rest = NoOwner
  /\ \A s1, s2 \in Sessions : rest[s1] # NoTab => rest[s1] # sessions[s2]
  /\ cur.at \in {"resolve", "connect"} => sessions = NoOwner
  /\ cur.at = "mint" => \A s \in Sessions : sessions[s] # cur.tab

\* The child, the state of the connection and the running request agree.
Connection ==
  /\ client = "up" <=> acpState = "ready"
  /\ client = "connecting" => cur.at = "connect"
  /\ cur.at \in {"resolve", "connect"} => acpState \in {"starting", "disposed"}
  /\ cur.at = "resolve" => client = "none"
  /\ isDisposed => client = "none" /\ ~acpRespawnTimer /\ sessions = NoOwner

Turns ==
  /\ \A s \in turns : sessions[s] # NoTab
  /\ turns # {} => client = "up"


-----------------------------------------------------------------------------
(* The helpers.                                                             *)

\* The folds of the tab messages turn a view into a view.
LEMMA FoldsKeepType ==
  ASSUME NEW w \in View, NEW t \in Tabs
  PROVE  /\ \A s \in Sessions : TabBound(w, t, s) \in View
         /\ TabOpenFailed(w, t) \in View
         /\ TabSessionLost(w, t) \in View /\ TabClear(w, t) \in View
         /\ LocalOpen(w, t) \in View /\ LocalClose(w, t) \in View
BY DEF TabBound, TabOpenFailed, TabSessionLost, TabClear, LocalOpen, LocalClose,
       foldTabScoped, View, TabState, UIStates

\* So does a fan-out of session-lost.
LEMMA FanOutKeepsType ==
  ASSUME NEW w \in View, NEW T
  PROVE  TabsSessionLost(w, T) \in View
<1>1. \A t \in Tabs : TabSessionLost(w, t)[t] \in TabState
  BY DEF TabSessionLost, foldTabScoped, View, TabState, UIStates
<1>2. QED BY <1>1 DEF TabsSessionLost, View

\* The operations on a map from sessions to tabs.
LEMMA OwnerOperations ==
  ASSUME NEW o \in Owner, NEW s \in Sessions, NEW t \in Tabs, NEW S
  PROVE  /\ Open(o, s, t) \in Owner /\ Close(o, s) \in Owner
         /\ Without(o, S) \in Owner /\ NoOwner \in Owner
BY DEF Open, Close, Without, NoOwner, Owner

\* Closing an owner that is not an id of the map changes nothing.
LEMMA CloseKeepsType ==
  ASSUME NEW o \in Owner, NEW s
  PROVE  Close(o, s) \in Owner
BY DEF Close, Owner

\* A queue of requests stays one when a request joins or leaves.
LEMMA QueueOperations ==
  ASSUME NEW q \in Seq(Request)
  PROVE  /\ \A r \in Request : Append(q, r) \in Seq(Request)
         /\ q # <<>> => Head(q) \in Request /\ Tail(q) \in Seq(Request)
OBVIOUS

\* Every constant of the tabs is an integer; no tab is NoTab.
LEMMA TabsAreNotNoTab == Boot \in Tabs /\ NoTab \notin Tabs
BY TabViewAssumption DEF Boot, Tabs, NoTab

-----------------------------------------------------------------------------
(* Types, together with what the requests name and the ids in use.          *)

Shape == TypeOK /\ Requests /\ IdsIssued

\* What a tab is bound to anew leaves the histories of tabs such.
LEMMA ReboundKeepsType ==
  ASSUME TypeOK, NEW t \in Tabs, NEW s, Rebound(t, s)
  PROVE  closedAway' \in SUBSET Tabs /\ cleared' \in SUBSET Tabs
BY DEF Rebound, TypeOK

LEMMA ShapeInit == Init => Shape
<1> SUFFICES ASSUME Init PROVE Shape
  OBVIOUS
<1>1. view \in View
  BY DEF Init, InitialView, View, TabState, UIStates
<1>2. NoOwner \in Owner
  BY DEF NoOwner, Owner
<1>3. tail \in Seq(Request) /\ QueueNamed
  BY DEF Init, QueueNamed
<1>4. TypeOK
  BY <1>1, <1>2, <1>3, TabsAreNotNoTab DEF Init, TypeOK
<1>5. Requests
  BY <1>3 DEF Init, Idle, Requests, CurNamed
<1>6. IdsIssued
  BY DEF Init, NoOwner, IdsIssued
<1>7. QED BY <1>4, <1>5, <1>6 DEF Shape

\* The requests that only join the tail.
LEMMA ShapeUserRequest == Shape /\ UserRequest => Shape'
<1> SUFFICES ASSUME Shape, UserRequest PROVE Shape'
  OBVIOUS
<1> USE DEF Shape, MayRequest
<1>1. CASE UserStart
  BY <1>1 DEF UserStart, Enqueue, TypeOK, Requests, CurNamed, IdsIssued, QueueNamed, Named, conn, recovery,
     registry, ui, history, Request, Ops
<1>2. ASSUME NEW force \in BOOLEAN, UserReconnect(force) PROVE Shape'
  BY <1>2 DEF UserReconnect, Enqueue, TypeOK, Requests, CurNamed, IdsIssued, QueueNamed, Named, conn, recovery,
     registry, ui, history, Request, Ops
<1>3. ASSUME NEW t \in Tabs, NewTab(t) PROVE Shape'
  <2>1. view' \in View
    BY <1>3, FoldsKeepType DEF NewTab, TypeOK
  <2>2. Enqueue("open", t, NoSession, FALSE) /\ UNCHANGED <<conn, recovery, registry, cur, staleMints, issued, banner, history>>
    BY <1>3 DEF NewTab
  <2>3. QED
    BY <2>1, <2>2 DEF Enqueue, TypeOK, Requests, CurNamed, IdsIssued, QueueNamed, Named,
       conn, recovery, registry, history, Request, Ops
<1>4. ASSUME NEW t \in Tabs, RetryOpen(t) PROVE Shape'
  BY <1>4 DEF RetryOpen, Enqueue, TypeOK, Requests, CurNamed, IdsIssued, QueueNamed, Named, conn, recovery,
     registry, ui, history, Request, Ops
<1>5. ASSUME NEW t \in Tabs, NewSession(t) PROVE Shape'
  BY <1>5 DEF NewSession, Enqueue, TypeOK, Requests, CurNamed, IdsIssued, QueueNamed, Named, conn, recovery,
     registry, ui, history, Request, Ops
<1>6. ASSUME NEW t \in Tabs, CloseTab(t) PROVE Shape'
  <2>1. view' \in View
    BY <1>6, FoldsKeepType DEF CloseTab, TypeOK
  <2>2. view[t].sid \in Sessions \cup {NoSession}
    BY DEF TypeOK, View, TabState
  <2>3. UNCHANGED <<conn, recovery, sessions, turns, cur, staleMints, issued, banner>>
    BY <1>6 DEF CloseTab
  <2>4. CASE view[t].sid = NoSession
    <3>1. UNCHANGED <<pendingClose, tail, history>>
      BY <1>6, <2>4 DEF CloseTab
    <3>2. QED
      BY <2>1, <2>3, <3>1 DEF TypeOK, Requests, CurNamed, IdsIssued, QueueNamed, Named,
         conn, recovery, registry, history
  <2>5. CASE view[t].sid # NoSession
    <3> DEFINE s == view[t].sid
    <3>1. /\ s \in Sessions
          /\ pendingClose' = pendingClose \cup {s} /\ userClosed' = userClosed \cup {s}
          /\ Enqueue("close", NoTab, s, FALSE)
      BY <1>6, <2>2, <2>5 DEF CloseTab
    <3>2. /\ closedLive' \in {closedLive, closedLive \cup {s}}
          /\ closedAway' \in SUBSET (closedAway \cup Tabs) /\ UNCHANGED cleared
      BY <1>6, <2>5 DEF CloseTab
    <3> HIDE DEF s
    <3>3. TypeOK'
      BY <2>1, <2>3, <3>1, <3>2 DEF TypeOK, Enqueue, Request, Ops, conn, recovery
    <3>4. Requests' /\ IdsIssued'
      BY <2>3, <3>1 DEF TypeOK, Requests, CurNamed, IdsIssued, QueueNamed, Named, Enqueue,
         Request, Ops, conn, recovery
    <3>5. QED BY <3>3, <3>4
  <2>6. QED BY <2>4, <2>5
<1>7. ASSUME NEW s \in Sessions, NEW t \in Tabs, LoadInto(s, t) PROVE Shape'
  BY <1>7 DEF LoadInto, Enqueue, TypeOK, Requests, CurNamed, IdsIssued, QueueNamed, Named, conn, recovery,
     registry, ui, history, Request, Ops
<1>8. QED BY <1>1, <1>2, <1>3, <1>4, <1>5, <1>6, <1>7 DEF UserRequest

\* A request that leaves the tail was well formed, and so are those it leaves.
LEMMA LeavesTail ==
  ASSUME Shape, tail # <<>>
  PROVE  /\ Head(tail) \in Request /\ Named(Head(tail))
         /\ tail' = Tail(tail) /\ issued \subseteq issued'
            => tail' \in Seq(Request) /\ QueueNamed'
<1>1. tail \in Seq(Request) /\ QueueNamed
  BY DEF Shape, TypeOK, Requests
<1>2. Head(tail) = tail[1] /\ 1 \in DOMAIN tail /\ Head(tail) \in Request
  BY <1>1 DEF QueueNamed
<1>3. ASSUME tail' = Tail(tail), issued \subseteq issued'
      PROVE  tail' \in Seq(Request) /\ QueueNamed'
  <2>1. Tail(tail) \in Seq(Request)
    BY <1>1
  <2>2. \A i \in DOMAIN Tail(tail) : i + 1 \in DOMAIN tail /\ Tail(tail)[i] = tail[i + 1]
    BY <1>1
  <2>3. QED BY <1>1, <1>3, <2>1, <2>2 DEF QueueNamed, Named
<1>4. QED BY <1>1, <1>2, <1>3 DEF QueueNamed

\* The request at the head becomes the running one.
LEMMA HeadRuns ==
  ASSUME Shape, NEW op \in Ops \ {"close"}, NEW at \in Awaits, NEW was \in BOOLEAN,
         AtHead(op), Run(at, was)
  PROVE  /\ cur' \in Running
         /\ cur'.op = op /\ cur'.at = at /\ cur'.sid = Head(tail).sid
         /\ cur'.tab = Head(tail).tab /\ Head(tail).op = op
BY LeavesTail DEF AtHead, Run, Running, Request

\* What does not go through the tail.
LEMMA ShapeOffTail == Shape /\ OffTail => Shape'
<1> SUFFICES ASSUME Shape, OffTail PROVE Shape'
  OBVIOUS
<1> USE DEF Shape
<1>1. ASSUME NEW t \in Tabs, sendPrompt(t) PROVE Shape'
  BY <1>1 DEF sendPrompt, Registered, In, View, TabState, TypeOK, Requests, CurNamed, IdsIssued, QueueNamed, Named, conn, recovery, registry, ui, history
<1>2. ASSUME NEW t \in Tabs, LateMint(t) PROVE Shape'
  BY <1>2 DEF LateMint, Open, Close, Owner, TypeOK, Requests, CurNamed, IdsIssued, QueueNamed, Named, conn, recovery, registry, ui, history
<1>3. ASSUME NEW s \in Sessions, TurnEnds(s) PROVE Shape'
  BY <1>3 DEF TurnEnds, TypeOK, Requests, CurNamed, IdsIssued, QueueNamed, Named, conn, recovery, registry, ui, history
<1>4. CASE Crash
  BY <1>4 DEF Crash, RecoverySnapshot, Without, Owner, endOnCrash, scheduleAcpRespawn, TypeOK, Requests, CurNamed, IdsIssued, QueueNamed, Named, conn, recovery, registry, ui, history
<1>5. CASE dispose
  BY <1>5 DEF dispose, NoOwner, Owner, TypeOK, Requests, CurNamed, IdsIssued, QueueNamed, Named, conn, recovery, registry, ui, history
<1>6. QED BY <1>1, <1>2, <1>3, <1>4, <1>5 DEF OffTail

\* The retry joins the tail.
LEMMA ShapeRespawnTimerFires == Shape /\ RespawnTimerFires => Shape'
<1> SUFFICES ASSUME Shape, RespawnTimerFires PROVE Shape'
  OBVIOUS
<1>1. /\ Enqueue("start", NoTab, NoSession, TRUE) /\ acpRespawnTimer' = FALSE
      /\ UNCHANGED <<acpState, client, recovery, registry, cur, staleMints, issued, ui, history>>
  BY DEF RespawnTimerFires
<1>2. QED
  <2>1. [op |-> "start", tab |-> NoTab, sid |-> NoSession, flag |-> TRUE] \in Request
    BY DEF Request, Ops
  <2>2. TypeOK'
    <3>1. tail' \in Seq(Request)
      BY <1>1, <2>1 DEF Shape, TypeOK, Enqueue
    <3>2. QED BY <1>1, <3>1 DEF Shape, TypeOK, recovery, registry, ui, history
  <2>3. Requests'
    BY <1>1, <2>1 DEF Shape, Enqueue, TypeOK, Requests, CurNamed, QueueNamed, Named
  <2>4. IdsIssued'
    BY <1>1 DEF Shape, IdsIssued, recovery, registry
  <2>5. QED BY <2>2, <2>3, <2>4 DEF Shape

\* The head of the tail begins.
LEMMA ShapeBegin == Shape /\ Begin => Shape'
<1> SUFFICES ASSUME Shape, Begin PROVE Shape'
  OBVIOUS
<1> USE DEF Shape
<1>1. CASE BeginStart
  <2>1. /\ Head(tail) \in Request /\ Named(Head(tail))
        /\ UNCHANGED issued /\ tail' \in Seq(Request) /\ QueueNamed'
    BY <1>1, LeavesTail DEF BeginStart, AtHead, history
  <2>2. /\ cur' \in Running /\ cur'.op = "start" /\ cur'.at = "resolve"
        /\ cur'.sid = Head(tail).sid /\ cur'.tab = Head(tail).tab /\ Head(tail).op = "start"
    BY <1>1, HeadRuns DEF BeginStart, Ops, Awaits
  <2>3. TypeOK'
    BY <1>1, <2>1, <2>2, FanOutKeepsType, TabsAreNotNoTab DEF BeginStart, restartView, getByTabId, Registered, In, teardownSession, NoOwner, Owner, TypeOK, conn, recovery, registry, ui, history
  <2>4. Requests'
    BY <1>1, <2>1, <2>2 DEF Requests, CurNamed, Named
  <2>5. IdsIssued'
    BY <1>1 DEF BeginStart, teardownSession, NoOwner, IdsIssued, conn, recovery, registry, history, TypeOK
  <2>6. QED BY <2>3, <2>4, <2>5
<1>2. CASE BeginReconnect
  <2>1. /\ Head(tail) \in Request /\ Named(Head(tail))
        /\ UNCHANGED issued /\ tail' \in Seq(Request) /\ QueueNamed'
    BY <1>2, LeavesTail DEF BeginReconnect, AtHead, history
  <2>2. /\ cur' \in Running /\ cur'.op = "reconnect" /\ cur'.at = "resolve"
        /\ cur'.sid = Head(tail).sid /\ cur'.tab = Head(tail).tab /\ Head(tail).op = "reconnect"
    BY <1>2, HeadRuns DEF BeginReconnect, Ops, Awaits
  <2>3. TypeOK'
    BY <1>2, <2>1, <2>2 DEF BeginReconnect, RecoverySnapshot, Without, teardownSession, NoOwner, Owner, TypeOK, conn, recovery, registry, ui, history
  <2>4. Requests'
    BY <1>2, <2>1, <2>2 DEF Requests, CurNamed, Named
  <2>5. IdsIssued'
    BY <1>2 DEF BeginReconnect, RecoverySnapshot, Without, teardownSession, NoOwner, IdsIssued, conn, recovery, registry, history, TypeOK
  <2>6. QED BY <2>3, <2>4, <2>5
<1>3. CASE BeginOpen
  <2>1. /\ Head(tail) \in Request /\ Named(Head(tail))
        /\ UNCHANGED issued /\ tail' \in Seq(Request) /\ QueueNamed'
    BY <1>3, LeavesTail DEF BeginOpen, AtHead, history
  <2>2. /\ cur' \in Running /\ cur'.op = "open" /\ cur'.at = "mint"
        /\ cur'.sid = Head(tail).sid /\ cur'.tab = Head(tail).tab /\ Head(tail).op = "open"
    BY <1>3, HeadRuns DEF BeginOpen, Ops, Awaits
  <2>3. TypeOK'
    BY <1>3, <2>1, <2>2 DEF BeginOpen, TypeOK, conn, recovery, registry, ui, history
  <2>4. Requests'
    BY <1>3, <2>1, <2>2 DEF Requests, CurNamed, Named
  <2>5. IdsIssued'
    BY <1>3 DEF BeginOpen, IdsIssued, conn, recovery, registry, history, TypeOK
  <2>6. QED BY <2>3, <2>4, <2>5
<1>4. CASE BeginNew
  <2>1. /\ Head(tail) \in Request /\ Named(Head(tail))
        /\ UNCHANGED issued /\ tail' \in Seq(Request) /\ QueueNamed'
    BY <1>4, LeavesTail DEF BeginNew, AtHead, history
  <2>2. /\ cur' \in Running /\ cur'.op = "new" /\ cur'.at = "mint"
        /\ cur'.sid = Head(tail).sid /\ cur'.tab = Head(tail).tab /\ Head(tail).op = "new"
    BY <1>4, HeadRuns DEF BeginNew, Ops, Awaits
  <2>3. TypeOK'
    BY <1>4, <2>1, <2>2, FoldsKeepType DEF BeginNew, AtHead, Named, Without, Owner, TypeOK, conn, recovery, registry, ui, history
  <2>4. Requests'
    BY <1>4, <2>1, <2>2 DEF Requests, CurNamed, Named
  <2>5. IdsIssued'
    BY <1>4 DEF BeginNew, Without, Owner, IdsIssued, conn, recovery, registry, history, TypeOK
  <2>6. QED BY <2>3, <2>4, <2>5
<1>5. CASE BeginLoad
  <2>1. /\ Head(tail) \in Request /\ Named(Head(tail))
        /\ UNCHANGED issued /\ tail' \in Seq(Request) /\ QueueNamed'
    BY <1>5, LeavesTail DEF BeginLoad, AtHead, history
  <2>2. /\ cur' \in Running /\ cur'.op = "load" /\ cur'.at = "confine"
        /\ cur'.sid = Head(tail).sid /\ cur'.tab = Head(tail).tab /\ Head(tail).op = "load"
    BY <1>5, HeadRuns DEF BeginLoad, Ops, Awaits
  <2>3. TypeOK'
    BY <1>5, <2>1, <2>2 DEF BeginLoad, TypeOK, conn, recovery, registry, ui, history
  <2>4. Requests'
    BY <1>5, <2>1, <2>2 DEF Requests, CurNamed, Named
  <2>5. IdsIssued'
    BY <1>5 DEF BeginLoad, IdsIssued, conn, recovery, registry, history, TypeOK
  <2>6. QED BY <2>3, <2>4, <2>5
<1>6. CASE closeTabInternal
  <2>1. /\ Head(tail) \in Request /\ Named(Head(tail))
        /\ UNCHANGED issued /\ tail' \in Seq(Request) /\ QueueNamed'
    BY <1>6, LeavesTail DEF closeTabInternal, AtHead, history
  <2>3. TypeOK'
    BY <1>6, <2>1, CloseKeepsType DEF closeTabInternal, TypeOK, conn, recovery, registry, ui, history
  <2>4. Requests'
    BY <1>6, <2>1 DEF Requests, CurNamed, closeTabInternal
  <2>5. IdsIssued'
    BY <1>6 DEF closeTabInternal, Close, Owner, IdsIssued, conn, recovery, registry, history, TypeOK
  <2>6. QED BY <2>3, <2>4, <2>5
<1>7. CASE IgnoreHead
  <2>1. /\ Head(tail) \in Request /\ Named(Head(tail))
        /\ UNCHANGED issued /\ tail' \in Seq(Request) /\ QueueNamed'
    BY <1>7, LeavesTail DEF IgnoreHead, AtHead, history
  <2>3. TypeOK'
    BY <1>7, <2>1 DEF IgnoreHead, TypeOK, conn, recovery, registry, ui, history
  <2>4. Requests'
    BY <1>7, <2>1 DEF Requests, CurNamed, IgnoreHead
  <2>5. IdsIssued'
    BY <1>7 DEF IgnoreHead, IdsIssued, conn, recovery, registry, history, TypeOK
  <2>6. QED BY <2>3, <2>4, <2>5
<1>8. CASE NotConnected
  <2>1. /\ Head(tail) \in Request /\ Named(Head(tail))
        /\ UNCHANGED issued /\ tail' \in Seq(Request) /\ QueueNamed'
    BY <1>8, LeavesTail DEF NotConnected, AtHead, history
  <2>3. TypeOK'
    BY <1>8, <2>1, FoldsKeepType DEF NotConnected, Post, AtHead, Named, TypeOK, conn, recovery, registry, ui, history
  <2>4. Requests'
    BY <1>8, <2>1 DEF Requests, CurNamed, NotConnected
  <2>5. IdsIssued'
    BY <1>8 DEF NotConnected, IdsIssued, conn, recovery, registry, history, TypeOK
  <2>6. QED BY <2>3, <2>4, <2>5
<1>9. QED BY <1>1, <1>2, <1>3, <1>4, <1>5, <1>6, <1>7, <1>8 DEF Begin

\* While the tail is left alone, its requests keep their names.
LEMMA QueueStays ==
  ASSUME Shape, tail' = tail, issued \subseteq issued'
  PROVE  tail' \in Seq(Request) /\ QueueNamed'
BY DEF Shape, TypeOK, Requests, QueueNamed, Named

\* A request that awaits something is a running one.
LEMMA AwaitingRuns == Shape /\ cur.at # "none" => cur \in Running
BY DEF Shape, TypeOK, Idle

\* The two ways a request ends that several steps share.
LEMMA ShapeStartFails == Shape /\ StartFails => Shape'
<1> SUFFICES ASSUME Shape, StartFails PROVE Shape'
  OBVIOUS
<1>1. tail' \in Seq(Request) /\ QueueNamed'
  BY QueueStays DEF StartFails
<1>2. TypeOK'
  BY <1>1 DEF Shape, StartFails, scheduleAcpRespawn, Finish, Idle, TypeOK, recovery, registry, history
<1>3. Requests' /\ IdsIssued'
  BY <1>1 DEF Shape, StartFails, Finish, Idle, Requests, CurNamed, IdsIssued, recovery, registry
<1>4. QED BY <1>2, <1>3 DEF Shape

LEMMA ShapeGiveUp ==
  ASSUME Shape, cur.at \in {"mint", "pin"}, GiveUp, staleMints' \in SUBSET Tabs
  PROVE  Shape'
<1>1. tail' \in Seq(Request) /\ QueueNamed'
  BY QueueStays DEF GiveUp
<1>2. cur.tab \in Tabs
  BY DEF Shape, Requests, CurNamed
<1>3. view' \in View
  BY <1>2, FoldsKeepType DEF Shape, TypeOK, GiveUp, Post
<1>4. banner' \in {"none", "failed", "reconnecting"}
  BY DEF Shape, TypeOK, GiveUp, PostBanner
<1>5. TypeOK'
  BY <1>1, <1>3, <1>4 DEF Shape, GiveUp, Finish, Idle, TypeOK, conn, recovery, registry, history
<1>6. Requests' /\ IdsIssued'
  BY <1>1 DEF Shape, GiveUp, Finish, Idle, Requests, CurNamed, IdsIssued, recovery, registry
<1>7. QED BY <1>5, <1>6 DEF Shape

\* The running request goes on.
LEMMA ShapeContinue == Shape /\ Continue => Shape'
<1> SUFFICES ASSUME Shape, Continue PROVE Shape'
  OBVIOUS
<1> USE DEF Shape
<1>1. CASE ResolveOk
  <2>1. tail' \in Seq(Request) /\ QueueNamed' /\ cur \in Running
    BY <1>1, QueueStays, AwaitingRuns DEF ResolveOk, history
  <2>3. TypeOK'
    BY <1>1, <2>1 DEF ResolveOk, TypeOK, Running, Awaits, Finish, conn, recovery, registry, ui, history
  <2>4. Requests'
    BY <1>1, <2>1, TabsAreNotNoTab DEF ResolveOk, Requests, CurNamed, TypeOK, Running, Finish, Idle
  <2>5. IdsIssued'
    BY <1>1, <2>1 DEF ResolveOk, IdsIssued, Requests, CurNamed, TypeOK, conn, recovery, registry
  <2>6. QED BY <2>3, <2>4, <2>5
<1>2. CASE ResolveFails
  BY <1>2, ShapeStartFails DEF ResolveFails, TypeOK
<1>3. CASE ConnectFails
  BY <1>3, ShapeStartFails DEF ConnectFails, TypeOK
<1>4. CASE ConnectOk
  <2>1. tail' \in Seq(Request) /\ QueueNamed' /\ cur \in Running
    BY <1>4, QueueStays, AwaitingRuns DEF ConnectOk, history
  <2>2. /\ cur' \in Running /\ cur'.op = cur.op /\ cur'.sid = cur.sid
        /\ cur'.at \in {"recover", "mint"} /\ (cur'.at = "mint" => cur'.tab = Boot)
    <3>1. CASE recoveryHeld /\ In(pendingRecovery) # {}
      BY <1>4, <2>1, <3>1 DEF ConnectOk, Running, Awaits
    <3>2. CASE ~(recoveryHeld /\ In(pendingRecovery) # {})
      <4>1. cur' = [cur EXCEPT !.at = "mint", !.tab = Boot]
        BY <1>4, <3>2 DEF ConnectOk
      <4>2. QED BY <2>1, <4>1, TabsAreNotNoTab DEF Running, Awaits
    <3>3. QED BY <3>1, <3>2
  <2>3. rest' \in {rest, pendingRecovery} /\ pendingRecovery' = NoOwner
    BY <1>4 DEF ConnectOk
  <2>4. TypeOK'
    BY <1>4, <2>1, <2>2, <2>3 DEF ConnectOk, TypeOK, NoOwner, Owner, registry, ui, history
  <2>5. CurNamed'
    BY <1>4, <2>1, <2>2, TabsAreNotNoTab DEF ConnectOk, Requests, CurNamed
  <2>6. IdsIssued'
    BY <1>4, <2>3 DEF ConnectOk, NoOwner, IdsIssued, registry
  <2>7. QED BY <2>1, <2>4, <2>5, <2>6 DEF Requests
<1>5. ASSUME NEW s \in Sessions, RecoverNext(s) PROVE Shape'
  <2>1. tail' \in Seq(Request) /\ QueueNamed' /\ cur \in Running
    BY <1>5, QueueStays, AwaitingRuns DEF RecoverNext, history
  <2>2. rest[s] \in Tabs /\ s \in issued
    BY <1>5 DEF RecoverNext, In, Owner, TypeOK, IdsIssued
  <2>3. view' \in View
    BY <1>5, <2>2, FoldsKeepType DEF RecoverNext, Post, TypeOK
  <2>4. /\ cur' \in Running /\ cur'.op = cur.op /\ cur'.at = "recover"
        /\ cur'.sid \in {s, NoSession} /\ (cur'.sid # NoSession => cur'.tab \in Tabs)
    <3>1. CASE client = "up"
      <4>1. cur' = [cur EXCEPT !.sid = s, !.tab = rest[s], !.tried = @ + 1]
        BY <1>5, <3>1 DEF RecoverNext
      <4>2. cur.at = "recover" /\ cur.tried + 1 \in Nat
        BY <1>5, <2>1 DEF RecoverNext, Running
      <4>3. cur' \in Running
        BY <2>1, <2>2, <4>1, <4>2 DEF Running
      <4>4. QED BY <2>1, <2>2, <4>1, <4>2, <4>3 DEF Running
    <3>2. CASE client # "up"
      <4>1. cur' = [cur EXCEPT !.tried = @ + 1]
        BY <1>5, <3>2 DEF RecoverNext
      <4>2. QED BY <1>5, <2>1, <2>2, <4>1 DEF RecoverNext, Running
    <3>3. QED BY <3>1, <3>2
  <2>5. /\ sessions' \in {Open(sessions, s, rest[s]), Close(Open(sessions, s, rest[s]), s)}
        /\ rest' = Close(rest, s) /\ turns' = turns \ {s}
    BY <1>5 DEF RecoverNext
  <2>6. sessions' \in Owner /\ rest' \in Owner
    BY <2>2, <2>5, OwnerOperations DEF TypeOK
  <2>7. TypeOK'
    BY <1>5, <2>1, <2>2, <2>3, <2>4, <2>5, <2>6, ReboundKeepsType DEF RecoverNext, TypeOK, conn
  <2>8. CurNamed'
    BY <1>5, <2>1, <2>2, <2>4 DEF RecoverNext, Requests, CurNamed
  <2>9. IdsIssued'
    BY <1>5, <2>2, <2>5 DEF RecoverNext, Open, Close, Owner, IdsIssued, TypeOK
  <2>10. QED BY <2>1, <2>7, <2>8, <2>9 DEF Requests
<1>6. ASSUME NEW s \in Sessions, RecoverBudgetSpent(s) PROVE Shape'
  <2>1. tail' \in Seq(Request) /\ QueueNamed' /\ cur \in Running
    BY <1>6, QueueStays, AwaitingRuns DEF RecoverBudgetSpent, history
  <2>2. view' \in View
    BY <1>6, FoldsKeepType DEF RecoverBudgetSpent, Post, TypeOK, In, Owner
  <2>3. TypeOK'
    BY <1>6, <2>1, <2>2 DEF RecoverBudgetSpent, Close, Owner, TypeOK, Running, Awaits, Finish, conn, recovery, registry, ui, history
  <2>4. Requests'
    BY <1>6, <2>1, <2>2, TabsAreNotNoTab DEF RecoverBudgetSpent, Requests, CurNamed, TypeOK, Running, Finish, Idle
  <2>5. IdsIssued'
    BY <1>6, <2>1, <2>2 DEF RecoverBudgetSpent, Close, Owner, IdsIssued, Requests, CurNamed, TypeOK, conn, recovery, registry
  <2>6. QED BY <2>3, <2>4, <2>5
<1>7. ASSUME NEW s \in Sessions, MintOk(s) PROVE Shape'
  <2>1. tail' \in Seq(Request) /\ QueueNamed' /\ cur \in Running
    BY <1>7, QueueStays, AwaitingRuns DEF MintOk, history
  <2>2. cur.tab \in Tabs /\ view' \in View
    BY <1>7, TabsAreNotNoTab, FoldsKeepType, FanOutKeepsType DEF MintOk, Post, TypeOK, Requests, CurNamed
  <2>3. TypeOK'
    BY <1>7, <2>1, <2>2, ReboundKeepsType DEF MintOk, Open, Owner, TypeOK, Running, Awaits, Finish, conn, recovery
  <2>4. Requests'
    BY <1>7, <2>1, <2>2, TabsAreNotNoTab DEF MintOk, Requests, CurNamed, TypeOK, Running, Finish, Idle
  <2>5. IdsIssued'
    BY <1>7, <2>1, <2>2 DEF MintOk, Open, Owner, IdsIssued, Requests, CurNamed, TypeOK, conn, recovery, registry
  <2>6. QED BY <2>3, <2>4, <2>5
<1>8. CASE RecoverLoaded
  <2>1. tail' \in Seq(Request) /\ QueueNamed' /\ cur \in Running
    BY <1>8, QueueStays, AwaitingRuns DEF RecoverLoaded, history
  <2>3. TypeOK'
    BY <1>8, <2>1 DEF RecoverLoaded, TypeOK, Running, Awaits, Finish, conn, recovery, registry, ui, history
  <2>4. Requests'
    BY <1>8, <2>1, TabsAreNotNoTab DEF RecoverLoaded, Requests, CurNamed, TypeOK, Running, Finish, Idle
  <2>5. IdsIssued'
    BY <1>8, <2>1 DEF RecoverLoaded, IdsIssued, Requests, CurNamed, TypeOK, conn, recovery, registry
  <2>6. QED BY <2>3, <2>4, <2>5
<1>9. CASE RecoverFails
  <2>1. tail' \in Seq(Request) /\ QueueNamed' /\ cur \in Running
    BY <1>9, QueueStays, AwaitingRuns DEF RecoverFails, history
  <2>2. cur.tab \in Tabs /\ view' \in View
    BY <1>9, TabsAreNotNoTab, FoldsKeepType, FanOutKeepsType DEF RecoverFails, Post, TypeOK, Requests, CurNamed
  <2>3. TypeOK'
    BY <1>9, <2>1, <2>2 DEF RecoverFails, Close, Owner, TypeOK, Running, Awaits, Finish, conn, recovery, registry, ui, history
  <2>4. Requests'
    BY <1>9, <2>1, <2>2, TabsAreNotNoTab DEF RecoverFails, Requests, CurNamed, TypeOK, Running, Finish, Idle
  <2>5. IdsIssued'
    BY <1>9, <2>1, <2>2 DEF RecoverFails, Close, Owner, IdsIssued, Requests, CurNamed, TypeOK, conn, recovery, registry
  <2>6. QED BY <2>3, <2>4, <2>5
<1>10. CASE RecoverDone
  <2>1. tail' \in Seq(Request) /\ QueueNamed' /\ cur \in Running
    BY <1>10, QueueStays, AwaitingRuns DEF RecoverDone, history
  <2>3. TypeOK'
    BY <1>10, <2>1 DEF RecoverDone, PostBanner, TypeOK, Running, Awaits, Finish, conn, recovery, registry, ui, history
  <2>4. Requests'
    BY <1>10, <2>1, TabsAreNotNoTab DEF RecoverDone, Requests, CurNamed, TypeOK, Running, Finish, Idle
  <2>5. IdsIssued'
    BY <1>10, <2>1 DEF RecoverDone, IdsIssued, Requests, CurNamed, TypeOK, conn, recovery, registry
  <2>6. QED BY <2>3, <2>4, <2>5
<1>11. CASE MintFails
  BY <1>11, ShapeGiveUp DEF MintFails, TypeOK
<1>12. CASE MintDeadline
  BY <1>12, ShapeGiveUp DEF MintDeadline, Requests, CurNamed, TypeOK
<1>13. CASE PinOk
  <2>1. tail' \in Seq(Request) /\ QueueNamed' /\ cur \in Running
    BY <1>13, QueueStays, AwaitingRuns DEF PinOk, history
  <2>3. TypeOK'
    BY <1>13, <2>1 DEF PinOk, PostBanner, TypeOK, Running, Awaits, Finish, conn, recovery, registry, ui, history
  <2>4. Requests'
    BY <1>13, <2>1, TabsAreNotNoTab DEF PinOk, Requests, CurNamed, TypeOK, Running, Finish, Idle
  <2>5. IdsIssued'
    BY <1>13, <2>1 DEF PinOk, IdsIssued, Requests, CurNamed, TypeOK, conn, recovery, registry
  <2>6. QED BY <2>3, <2>4, <2>5
<1>14. CASE PinGivesUp
  BY <1>14, ShapeGiveUp DEF PinGivesUp, TypeOK
<1>15. CASE ConfineDenied
  <2>1. tail' \in Seq(Request) /\ QueueNamed' /\ cur \in Running
    BY <1>15, QueueStays, AwaitingRuns DEF ConfineDenied, history
  <2>2. cur.tab \in Tabs /\ view' \in View
    BY <1>15, TabsAreNotNoTab, FoldsKeepType, FanOutKeepsType DEF ConfineDenied, Post, TypeOK, Requests, CurNamed
  <2>3. TypeOK'
    BY <1>15, <2>1, <2>2 DEF ConfineDenied, TypeOK, Running, Awaits, Finish, conn, recovery, registry, ui, history
  <2>4. Requests'
    BY <1>15, <2>1, <2>2, TabsAreNotNoTab DEF ConfineDenied, Requests, CurNamed, TypeOK, Running, Finish, Idle
  <2>5. IdsIssued'
    BY <1>15, <2>1, <2>2 DEF ConfineDenied, IdsIssued, Requests, CurNamed, TypeOK, conn, recovery, registry
  <2>6. QED BY <2>3, <2>4, <2>5
<1>16. CASE ConfineOk
  <2> DEFINE s     == cur.sid
             t     == cur.tab
             moved == Open(Without(sessions, getByTabId(t)), s, t)
             bound == TabBound(TabsSessionLost(view, {sessions[s]} \ {t, NoTab}), t, s)
  <2>1. tail' \in Seq(Request) /\ QueueNamed' /\ cur \in Running
    BY <1>16, QueueStays, AwaitingRuns DEF ConfineOk, history
  <2>2. t \in Tabs /\ s \in Sessions /\ s \in issued
    BY <1>16 DEF ConfineOk, TypeOK, Requests, CurNamed
  <2>3. bound \in View /\ TabSessionLost(bound, t) \in View
    BY <2>2, FoldsKeepType, FanOutKeepsType DEF TypeOK
  <2>4. /\ cur' \in {[cur EXCEPT !.at = "replay"], Idle}
        /\ sessions' \in {moved, Close(moved, s)}
        /\ view' \in {view, bound, TabSessionLost(bound, t)}
        /\ turns' \in SUBSET turns /\ userClosed' \in SUBSET userClosed
        /\ closedLive' \in SUBSET closedLive /\ Rebound(t, s)
        /\ UNCHANGED <<conn, recovery, pendingClose, tail, staleMints, issued, banner>>
    BY <1>16 DEF ConfineOk, Post, Finish
  <2>5. moved \in Owner /\ Close(moved, s) \in Owner
    <3>1. Without(sessions, getByTabId(t)) \in Owner
      BY <2>2, OwnerOperations DEF TypeOK
    <3>2. QED BY <2>2, <3>1, OwnerOperations
  <2>6. \A u \in Sessions : sessions'[u] # NoTab => sessions[u] # NoTab \/ u = s
    BY <2>2, <2>4 DEF Open, Close, Without, Owner, TypeOK
  <2> HIDE DEF moved, bound
  <2>7. [cur EXCEPT !.at = "replay"] \in Running
    BY <2>1 DEF Running, Awaits
  <2>8. TypeOK'
    BY <2>1, <2>2, <2>3, <2>4, <2>5, <2>7, ReboundKeepsType DEF TypeOK, conn, recovery
  <2>9. CurNamed'
    BY <1>16, <2>1, <2>2, <2>4 DEF ConfineOk, Requests, CurNamed, Running, Idle
  <2>10. IdsIssued'
    BY <2>2, <2>4, <2>6 DEF IdsIssued, recovery
  <2>11. QED BY <2>1, <2>8, <2>9, <2>10 DEF Requests
<1>17. CASE ReplayEnds
  <2>1. tail' \in Seq(Request) /\ QueueNamed' /\ cur \in Running
    BY <1>17, QueueStays, AwaitingRuns DEF ReplayEnds, history
  <2>3. TypeOK'
    BY <1>17, <2>1 DEF ReplayEnds, TypeOK, Running, Awaits, Finish, conn, recovery, registry, ui, history
  <2>4. Requests'
    BY <1>17, <2>1, TabsAreNotNoTab DEF ReplayEnds, Requests, CurNamed, TypeOK, Running, Finish, Idle
  <2>5. IdsIssued'
    BY <1>17, <2>1 DEF ReplayEnds, IdsIssued, Requests, CurNamed, TypeOK, conn, recovery, registry
  <2>6. QED BY <2>3, <2>4, <2>5
<1>18. CASE ReplayDeadline
  <2>1. tail' \in Seq(Request) /\ QueueNamed' /\ cur \in Running
    BY <1>18, QueueStays, AwaitingRuns DEF ReplayDeadline, history
  <2>2. cur.tab \in Tabs /\ view' \in View
    BY <1>18, TabsAreNotNoTab, FoldsKeepType, FanOutKeepsType DEF ReplayDeadline, Post, TypeOK, Requests, CurNamed
  <2>3. TypeOK'
    BY <1>18, <2>1, <2>2 DEF ReplayDeadline, Close, Owner, TypeOK, Running, Awaits, Finish, conn, recovery, registry, ui, history
  <2>4. Requests'
    BY <1>18, <2>1, <2>2, TabsAreNotNoTab DEF ReplayDeadline, Requests, CurNamed, TypeOK, Running, Finish, Idle
  <2>5. IdsIssued'
    BY <1>18, <2>1, <2>2 DEF ReplayDeadline, Close, Owner, IdsIssued, Requests, CurNamed, TypeOK, conn, recovery, registry
  <2>6. QED BY <2>3, <2>4, <2>5
<1>19. QED BY <1>1, <1>2, <1>3, <1>4, <1>5, <1>6, <1>7, <1>8, <1>9, <1>10, <1>11, <1>12, <1>13, <1>14, <1>15, <1>16, <1>17, <1>18 DEF Continue

LEMMA ShapeStep == Shape /\ [Next]_vars => Shape'
<1>1. Shape /\ UNCHANGED vars => Shape'
  BY DEF Shape, vars, conn, recovery, registry, ui, history, TypeOK, Requests,
     QueueNamed, CurNamed, Named, IdsIssued
<1>2. QED
  BY <1>1, ShapeUserRequest, ShapeOffTail, ShapeRespawnTimerFires, ShapeBegin,
     ShapeContinue DEF Next

\* Every reachable state is well typed, whatever the bounds of the runs leave
\* out: the requests name the tabs and sessions their handlers index by.
THEOREM TypeCorrect == Spec => []TypeOK
<1>1. Init => Shape
  BY ShapeInit
<1>2. Shape /\ [Next]_vars => Shape'
  BY ShapeStep
<1>3. Shape => TypeOK
  BY DEF Shape
<1>4. QED BY <1>1, <1>2, <1>3, PTL DEF Spec

-----------------------------------------------------------------------------
(* Ownership: one session per tab.                                          *)

\* The requests of the user, the timer and a prompt touch no owner.
LEMMA OwnersUntouched ==
  ASSUME Ownership, UNCHANGED <<sessions, pendingRecovery, rest, cur>>
  PROVE  Ownership'
BY DEF Ownership, OnePerTab

\* Closing sessions cannot give a tab a second one.
LEMMA OwnersShrink ==
  ASSUME Shape, Ownership, sessions' \in Owner,
         \A s \in Sessions : sessions'[s] \in {sessions[s], NoTab},
         UNCHANGED <<pendingRecovery, rest, cur>>
  PROVE  Ownership'
<1>1. \A s \in Sessions : sessions[s] \in Tabs \cup {NoTab} /\ rest[s] \in Tabs \cup {NoTab}
  BY DEF Shape, TypeOK, Owner
<1>2. OnePerTab(sessions)' /\ OnePerTab(pendingRecovery)' /\ OnePerTab(rest)'
  BY DEF Ownership, OnePerTab
<1>3. cur.at \in {"resolve", "connect"} => sessions' = NoOwner
  BY DEF Ownership, NoOwner, Owner
<1>4. cur.at = "mint" => \A s \in Sessions : sessions'[s] # cur.tab
  BY TabsAreNotNoTab DEF Ownership, Shape, Requests, CurNamed
<1>5. \A s1, s2 \in Sessions : rest[s1] # NoTab => rest[s1] # sessions'[s2]
  BY DEF Ownership
<1>6. QED BY <1>2, <1>3, <1>4, <1>5 DEF Ownership

LEMMA OwnershipUserRequest == Ownership /\ UserRequest => Ownership'
<1> SUFFICES ASSUME Ownership, UserRequest PROVE Ownership'
  OBVIOUS
<1>1. UNCHANGED <<sessions, pendingRecovery, rest, cur>>
  BY DEF UserRequest, UserStart, UserReconnect, NewTab, RetryOpen, NewSession,
     CloseTab, LoadInto, recovery, registry
<1>2. QED BY <1>1, OwnersUntouched

LEMMA OwnershipOffTail == Shape /\ Ownership /\ OffTail => Ownership'
<1> SUFFICES ASSUME Shape, Ownership, OffTail PROVE Ownership'
  OBVIOUS
<1>1. ASSUME NEW t \in Tabs, sendPrompt(t) PROVE Ownership'
  BY <1>1, OwnersUntouched DEF sendPrompt, recovery
<1>2. ASSUME NEW t \in Tabs, LateMint(t) PROVE Ownership'
  <2>1. sessions' \in Owner /\ \A s \in Sessions : sessions'[s] \in {sessions[s], NoTab}
    BY <1>2 DEF LateMint, Open, Close, Owner, Shape, TypeOK
  <2>2. QED BY <1>2, <2>1, OwnersShrink DEF LateMint, recovery
<1>3. ASSUME NEW s \in Sessions, TurnEnds(s) PROVE Ownership'
  BY <1>3, OwnersUntouched DEF TurnEnds, recovery
<1>4. CASE Crash
  <2>1. pendingRecovery' = RecoverySnapshot /\ UNCHANGED <<sessions, rest, cur>>
    BY <1>4 DEF Crash
  <2>2. OnePerTab(pendingRecovery)'
    BY <2>1 DEF RecoverySnapshot, Without, OnePerTab, Ownership
  <2>3. QED BY <2>1, <2>2 DEF Ownership, OnePerTab
<1>5. CASE dispose
  <2>1. sessions' = NoOwner /\ UNCHANGED <<pendingRecovery, rest, cur>>
    BY <1>5 DEF dispose, recovery
  <2>2. QED BY <2>1, OwnersShrink, OwnerOperations DEF NoOwner, Owner
<1>6. QED BY <1>1, <1>2, <1>3, <1>4, <1>5 DEF OffTail

\* When nothing runs, a request may begin.
LEMMA OwnershipBegin == Shape /\ Ownership /\ Begin => Ownership'
<1> SUFFICES ASSUME Shape, Ownership, Begin PROVE Ownership'
  OBVIOUS
<1>1. ASSUME NEW op \in Ops, AtHead(op) PROVE rest = NoOwner /\ cur.at = "none"
  BY <1>1 DEF AtHead, Ownership, Shape, TypeOK, Running, Idle, Ops
<1>2. CASE BeginStart
  <2>1. sessions' = NoOwner /\ UNCHANGED <<pendingRecovery, rest>> /\ cur'.at = "resolve"
        /\ rest = NoOwner
    BY <1>1, <1>2, HeadRuns DEF BeginStart, teardownSession, recovery, Ops, Awaits
  <2>2. QED BY <2>1 DEF Ownership, OnePerTab, NoOwner
<1>3. CASE BeginReconnect
  <2>1. sessions' = NoOwner /\ pendingRecovery' = RecoverySnapshot /\ rest' = rest
        /\ cur'.at = "resolve" /\ rest = NoOwner
    BY <1>1, <1>3, HeadRuns DEF BeginReconnect, teardownSession, Ops, Awaits
  <2>2. QED BY <2>1 DEF Ownership, OnePerTab, NoOwner, RecoverySnapshot, Without
<1>4. CASE BeginOpen
  <2>1. UNCHANGED <<sessions, pendingRecovery, rest>> /\ cur'.at = "mint"
        /\ cur'.tab = Head(tail).tab /\ rest = NoOwner /\ Head(tail).tab \in Tabs
    BY <1>1, <1>4, HeadRuns, LeavesTail DEF BeginOpen, AtHead, Named, registry, recovery, Ops, Awaits
  <2>2. \A s \in Sessions : sessions[s] # cur'.tab
    BY <1>4, <2>1, TabsAreNotNoTab DEF BeginOpen, Occupied, getByTabId, Registered, In
  <2>3. QED BY <2>1, <2>2 DEF Ownership, OnePerTab, NoOwner
<1>5. CASE BeginNew
  <2>1. UNCHANGED <<pendingRecovery, rest>> /\ cur'.at = "mint"
        /\ cur'.tab = Head(tail).tab /\ rest = NoOwner /\ Head(tail).tab \in Tabs
        /\ sessions' = Without(sessions, getByTabId(Head(tail).tab))
    BY <1>1, <1>5, HeadRuns, LeavesTail DEF BeginNew, AtHead, Named, recovery, Ops, Awaits
  <2>2. \A s \in Sessions : sessions'[s] # cur'.tab
    BY <2>1, TabsAreNotNoTab DEF Without, getByTabId, Registered, In
  <2>3. OnePerTab(sessions)'
    BY <2>1 DEF Ownership, OnePerTab, Without
  <2>4. QED BY <2>1, <2>2, <2>3 DEF Ownership, OnePerTab, NoOwner
<1>6. CASE BeginLoad
  <2>1. UNCHANGED <<sessions, pendingRecovery, rest>> /\ cur'.at = "confine" /\ rest = NoOwner
    BY <1>1, <1>6, HeadRuns DEF BeginLoad, AtHead, registry, recovery, Ops, Awaits
  <2>2. QED BY <2>1 DEF Ownership, OnePerTab, NoOwner
<1>7. CASE closeTabInternal
  <2>1. sessions' = Close(sessions, Head(tail).sid) /\ UNCHANGED <<pendingRecovery, rest, cur>>
    BY <1>7 DEF closeTabInternal, recovery
  <2>2. sessions' \in Owner /\ \A s \in Sessions : sessions'[s] \in {sessions[s], NoTab}
    BY <2>1 DEF Close, Owner, Shape, TypeOK
  <2>3. QED BY <2>1, <2>2, OwnersShrink
<1>8. CASE IgnoreHead
  BY <1>8, OwnersUntouched DEF IgnoreHead, registry, recovery
<1>9. CASE NotConnected
  BY <1>9, OwnersUntouched DEF NotConnected, registry, recovery
<1>10. QED BY <1>2, <1>3, <1>4, <1>5, <1>6, <1>7, <1>8, <1>9 DEF Begin

\* The running request goes on: only a step that registers a session for a tab
\* has to know that the tab has none.
LEMMA OwnershipContinue == Shape /\ Ownership /\ Continue => Ownership'
<1> SUFFICES ASSUME Shape, Ownership, Continue PROVE Ownership'
  OBVIOUS
<1>1. CASE ResolveOk
  BY <1>1, AwaitingRuns DEF ResolveOk, Running, registry, recovery, Ownership, OnePerTab
<1>2. ASSUME UNCHANGED <<sessions, pendingRecovery, rest>>, cur.at # "recover" \/ rest = NoOwner,
             cur' = Idle
      PROVE  Ownership'
  BY <1>2 DEF Ownership, OnePerTab, Idle
<1>3. CASE ResolveFails \/ ConnectFails
  BY <1>2, <1>3 DEF ResolveFails, ConnectFails, StartFails, Finish, registry, recovery
<1>4. CASE ConnectOk
  <2>1. sessions = NoOwner /\ sessions' = NoOwner /\ pendingRecovery' = NoOwner
    BY <1>4 DEF ConnectOk, Ownership, registry
  <2>2. rest' \in {rest, pendingRecovery} /\ rest = NoOwner
    BY <1>4 DEF ConnectOk, Ownership
  <2>3. CASE cur' = [cur EXCEPT !.at = "recover"]
    <3>1. cur'.at = "recover"
      BY <1>4, <2>3, AwaitingRuns DEF ConnectOk, Running
    <3>2. QED BY <2>1, <2>2, <3>1 DEF Ownership, OnePerTab, NoOwner
  <2>4. CASE cur' = [cur EXCEPT !.at = "mint", !.tab = Boot] /\ rest' = rest
    <3>1. cur'.at = "mint" /\ cur'.tab = Boot
      BY <1>4, <2>4, AwaitingRuns DEF ConnectOk, Running
    <3>2. QED BY <2>1, <2>2, <2>4, <3>1, TabsAreNotNoTab DEF Ownership, OnePerTab, NoOwner
  <2>5. QED BY <1>4, <2>3, <2>4 DEF ConnectOk
<1>5. ASSUME NEW s \in Sessions, RecoverNext(s) PROVE Ownership'
  <2>1. /\ sessions' \in {Open(sessions, s, rest[s]), Close(Open(sessions, s, rest[s]), s)}
        /\ rest' = Close(rest, s) /\ pendingRecovery' = pendingRecovery
        /\ rest[s] # NoTab
    BY <1>5 DEF RecoverNext, In
  <2>2. cur'.at = "recover"
    BY <1>5, AwaitingRuns DEF RecoverNext, Running
  <2>3. /\ \A u \in Sessions : u # s => rest'[u] = rest[u] /\ sessions'[u] = sessions[u]
        /\ rest'[s] = NoTab /\ sessions'[s] \in {rest[s], NoTab}
    BY <2>1 DEF Open, Close, Owner, Shape, TypeOK
  <2>4. OnePerTab(sessions)'
    BY <2>1, <2>3 DEF Ownership, OnePerTab
  <2>5. OnePerTab(rest)'
    BY <2>3 DEF Ownership, OnePerTab
  <2>6. \A s1, s2 \in Sessions : rest'[s1] # NoTab => rest'[s1] # sessions'[s2]
    BY <2>1, <2>3 DEF Ownership, OnePerTab
  <2>7. OnePerTab(pendingRecovery)'
    BY <2>1 DEF Ownership, OnePerTab
  <2>8. QED BY <2>2, <2>4, <2>5, <2>6, <2>7 DEF Ownership
<1>6. ASSUME NEW s \in Sessions, RecoverBudgetSpent(s) PROVE Ownership'
  <2>1. /\ UNCHANGED <<sessions, pendingRecovery, cur>> /\ rest' = Close(rest, s)
        /\ cur.at = "recover"
    BY <1>6 DEF RecoverBudgetSpent, registry
  <2>2. \A u \in Sessions : rest'[u] \in {rest[u], NoTab}
    BY <2>1 DEF Close, Owner, Shape, TypeOK
  <2>3. OnePerTab(rest)' /\ OnePerTab(sessions)' /\ OnePerTab(pendingRecovery)'
    BY <2>1, <2>2 DEF Ownership, OnePerTab
  <2>4. QED BY <2>1, <2>2, <2>3 DEF Ownership
<1>7. ASSUME NEW s \in Sessions, MintOk(s) PROVE Ownership'
  <2>1. /\ sessions' = Open(sessions, s, cur.tab) /\ UNCHANGED <<pendingRecovery, rest>>
        /\ rest = NoOwner
    BY <1>7 DEF MintOk, Ownership, recovery
  <2>2. cur'.at = "pin"
    BY <1>7, AwaitingRuns DEF MintOk, Running
  <2>3. /\ \A u \in Sessions : u # s => sessions'[u] = sessions[u]
        /\ sessions'[s] = cur.tab /\ \A u \in Sessions : sessions[u] # cur.tab
    BY <1>7, <2>1 DEF MintOk, Open, Owner, Shape, TypeOK, Ownership
  <2>4. OnePerTab(sessions)'
    BY <2>3 DEF Ownership, OnePerTab
  <2>5. QED BY <2>1, <2>2, <2>4 DEF Ownership, OnePerTab, NoOwner
<1>8. CASE RecoverLoaded
  <2>1. cur'.at = "recover" /\ UNCHANGED <<sessions, pendingRecovery, rest>>
    BY <1>8, AwaitingRuns DEF RecoverLoaded, Running, recovery
  <2>2. QED BY <2>1 DEF Ownership, OnePerTab
<1>9. CASE RecoverFails
  <2>1. /\ cur'.at = "recover" /\ UNCHANGED <<pendingRecovery, rest>>
        /\ sessions' = Close(sessions, cur.sid)
    BY <1>9, AwaitingRuns DEF RecoverFails, Running, recovery
  <2>2. \A u \in Sessions : sessions'[u] \in {sessions[u], NoTab}
    BY <2>1 DEF Close, Owner, Shape, TypeOK
  <2>3. OnePerTab(sessions)'
    BY <2>2 DEF Ownership, OnePerTab
  <2>4. QED BY <2>1, <2>2, <2>3 DEF Ownership, OnePerTab
<1>10. CASE RecoverDone
  <2>1. rest = NoOwner
    BY <1>10 DEF RecoverDone, In, NoOwner, Shape, TypeOK, Owner
  <2>2. QED BY <1>2, <1>10, <2>1 DEF RecoverDone, Finish, registry, recovery
<1>11. CASE MintFails \/ MintDeadline \/ PinOk \/ PinGivesUp \/ ConfineDenied \/ ReplayEnds
  <2>1. /\ UNCHANGED <<sessions, pendingRecovery, rest>> /\ cur' = Idle
        /\ cur.at \in {"mint", "pin", "confine", "replay"}
    BY <1>11 DEF MintFails, MintDeadline, PinOk, PinGivesUp, ConfineDenied,
       ReplayEnds, GiveUp, Finish, registry, recovery
  <2>2. QED BY <1>2, <2>1
<1>12. CASE ConfineOk
  <2> DEFINE s     == cur.sid
             t     == cur.tab
             moved == Open(Without(sessions, getByTabId(t)), s, t)
  <2>1. t \in Tabs /\ s \in Sessions
    BY <1>12 DEF ConfineOk, Shape, TypeOK, Requests, CurNamed
  <2>2. /\ sessions' \in {moved, Close(moved, s)} /\ UNCHANGED <<pendingRecovery, rest>>
        /\ rest = NoOwner /\ cur' \in {[cur EXCEPT !.at = "replay"], Idle}
    BY <1>12 DEF ConfineOk, Finish, recovery, Ownership
  <2>3. cur'.at \in {"replay", "none"}
    BY <1>12, <2>2, AwaitingRuns DEF ConfineOk, Running, Idle
  <2>4. \A u \in Sessions : u # s /\ sessions'[u] # NoTab
          => sessions'[u] = sessions[u] /\ sessions[u] # t
    BY <2>1, <2>2 DEF Open, Close, Without, getByTabId, Registered, In
  <2>5. sessions'[s] \in {t, NoTab}
    BY <2>1, <2>2 DEF Open, Close, Without
  <2>6. OnePerTab(sessions)'
    BY <2>4, <2>5 DEF Ownership, OnePerTab
  <2>7. QED BY <2>2, <2>3, <2>6 DEF Ownership, OnePerTab, NoOwner
<1>13. CASE ReplayDeadline
  <2>1. /\ sessions' = Close(sessions, cur.sid) /\ UNCHANGED <<pendingRecovery, rest>>
        /\ cur' = Idle /\ rest = NoOwner
    BY <1>13 DEF ReplayDeadline, Finish, recovery, Ownership
  <2>2. OnePerTab(sessions)'
    BY <2>1 DEF Ownership, OnePerTab, Close, Owner, Shape, TypeOK
  <2>3. QED BY <2>1, <2>2 DEF Ownership, OnePerTab, NoOwner, Idle
<1>14. QED
  BY <1>1, <1>3, <1>4, <1>5, <1>6, <1>7, <1>8, <1>9, <1>10, <1>11, <1>12, <1>13 DEF Continue

LEMMA OwnershipStep == Shape /\ Ownership /\ [Next]_vars => Ownership'
<1>1. Ownership /\ UNCHANGED vars => Ownership'
  BY OwnersUntouched DEF vars, registry, recovery
<1>2. Ownership /\ RespawnTimerFires => Ownership'
  BY OwnersUntouched DEF RespawnTimerFires, registry, recovery
<1>3. QED
  BY <1>1, <1>2, OwnershipUserRequest, OwnershipOffTail, OwnershipBegin,
     OwnershipContinue DEF Next

\* A tab never has two controllers, whatever opens, loads, closes, crashes,
\* recoveries and abandoned mints are under way.
THEOREM NoTabHasTwoSessions == Spec => []OneSessionPerTab
<1>1. Init => Shape /\ Ownership
  <2>1. Init => Ownership
    BY DEF Init, Ownership, OnePerTab, NoOwner, Idle
  <2>2. QED BY <2>1, ShapeInit
<1>2. Shape /\ Ownership /\ [Next]_vars => (Shape /\ Ownership)'
  BY ShapeStep, OwnershipStep
<1>3. Shape /\ Ownership => OneSessionPerTab
  BY DEF Ownership, OnePerTab, OneSessionPerTab, Registered, In
<1>4. QED BY <1>1, <1>2, <1>3, PTL DEF Spec

-----------------------------------------------------------------------------
(* The connection, the turns on it, and its disposal.                       *)

Live == Connection /\ Turns

\* A step that leaves the connection, the registry and the turns alone, and
\* does not begin or end a connection attempt.
LEMMA LiveUntouched ==
  ASSUME Live, UNCHANGED <<conn, sessions, turns>>, cur'.at \notin {"resolve"},
         cur'.at = "connect" => cur.at = "connect",
         cur.at = "connect" /\ client = "connecting" => cur'.at = "connect"
  PROVE  Live'
BY DEF Live, Connection, Turns, isDisposed, conn

\* The registry loses sessions, and the turns on them end.
LEMMA LiveShrink ==
  ASSUME Shape, Live, UNCHANGED conn, sessions' \in Owner,
         \A s \in Sessions : sessions'[s] \in {sessions[s], NoTab},
         turns' \subseteq turns, \A s \in turns' : sessions'[s] # NoTab,
         cur'.at \notin {"resolve", "connect"}, cur.at \notin {"resolve", "connect"}
  PROVE  Live'
BY DEF Live, Connection, Turns, isDisposed, conn, NoOwner, Owner

LEMMA LiveUserRequest == Live /\ UserRequest => Live'
<1> SUFFICES ASSUME Live, UserRequest PROVE Live'
  OBVIOUS
<1>1. UNCHANGED <<conn, sessions, turns, cur>>
  BY DEF UserRequest, UserStart, UserReconnect, NewTab, RetryOpen, NewSession,
     CloseTab, LoadInto, registry
<1>2. QED BY <1>1 DEF Live, Connection, Turns, isDisposed, conn

LEMMA LiveOffTail == Shape /\ Ownership /\ Live /\ (OffTail \/ RespawnTimerFires) => Live'
<1> SUFFICES ASSUME Shape, Ownership, Live, OffTail \/ RespawnTimerFires PROVE Live'
  OBVIOUS
<1>1. ASSUME NEW t \in Tabs, sendPrompt(t) PROVE Live'
  BY <1>1 DEF sendPrompt, Live, Connection, Turns, isDisposed, conn, Registered, In
<1>2. ASSUME NEW t \in Tabs, LateMint(t) PROVE Live'
  <2>1. PICK s \in Sessions \ issued : sessions' = Close(Open(sessions, s, t), s)
    BY <1>2 DEF LateMint
  <2>2. sessions[s] = NoTab
    BY DEF Shape, IdsIssued
  <2>3. \A u \in Sessions : sessions'[u] = sessions[u]
    BY <2>1, <2>2 DEF Open, Close, Owner, Shape, TypeOK
  <2>4. UNCHANGED <<conn, turns, cur>> /\ turns \in SUBSET Sessions
    BY <1>2 DEF LateMint, Shape, TypeOK
  <2>5. sessions' = sessions
    BY <2>1, <2>3 DEF Open, Close, Owner, Shape, TypeOK
  <2>6. QED BY <2>4, <2>5 DEF Live, Connection, Turns, isDisposed, conn
<1>3. ASSUME NEW s \in Sessions, TurnEnds(s) PROVE Live'
  BY <1>3 DEF TurnEnds, Live, Connection, Turns, isDisposed, conn
<1>4. CASE Crash
  BY <1>4 DEF Crash, endOnCrash, scheduleAcpRespawn, Live, Connection, Turns, isDisposed
<1>5. CASE dispose
  BY <1>5 DEF dispose, Live, Connection, Turns, isDisposed
<1>6. CASE RespawnTimerFires
  BY <1>6 DEF RespawnTimerFires, registry, Live, Connection, Turns, isDisposed
<1>7. QED BY <1>1, <1>2, <1>3, <1>4, <1>5, <1>6 DEF OffTail

LEMMA LiveBegin == Shape /\ Ownership /\ Live /\ Begin => Live'
<1> SUFFICES ASSUME Shape, Ownership, Live, Begin PROVE Live'
  OBVIOUS
<1>1. ASSUME NEW op \in Ops, AtHead(op) PROVE cur.at = "none"
  BY <1>1 DEF AtHead, Shape, TypeOK, Running, Idle, Ops
<1>2. CASE BeginStart
  <2>1. cur'.at = "resolve"
    BY <1>2, HeadRuns DEF BeginStart, Ops, Awaits
  <2>2. QED BY <1>2, <2>1 DEF BeginStart, teardownSession, Live, Connection, Turns, isDisposed
<1>3. CASE BeginReconnect
  <2>1. cur'.at = "resolve"
    BY <1>3, HeadRuns DEF BeginReconnect, Ops, Awaits
  <2>2. QED BY <1>3, <2>1 DEF BeginReconnect, teardownSession, Live, Connection, Turns, isDisposed
<1>4. CASE BeginOpen
  <2>1. cur'.at = "mint" /\ cur.at = "none"
    BY <1>1, <1>4, HeadRuns DEF BeginOpen, Ops, Awaits
  <2>2. QED BY <1>4, <2>1, LiveUntouched DEF BeginOpen, registry
<1>5. CASE BeginNew
  <2>1. cur'.at = "mint" /\ cur.at = "none"
    BY <1>1, <1>5, HeadRuns DEF BeginNew, Ops, Awaits
  <2>2. PICK old : sessions' = Without(sessions, old) /\ turns' = turns \ old
    BY <1>5 DEF BeginNew
  <2>3. /\ sessions' \in Owner /\ \A s \in Sessions : sessions'[s] \in {sessions[s], NoTab}
        /\ \A s \in turns' : sessions'[s] # NoTab
    BY <2>2 DEF Without, Owner, Shape, TypeOK, Live, Turns
  <2>4. QED BY <1>5, <2>1, <2>2, <2>3, LiveShrink DEF BeginNew
<1>6. CASE BeginLoad
  <2>1. cur'.at = "confine" /\ cur.at = "none"
    BY <1>1, <1>6, HeadRuns DEF BeginLoad, Ops, Awaits
  <2>2. QED BY <1>6, <2>1, LiveUntouched DEF BeginLoad, registry
<1>7. CASE closeTabInternal
  <2>1. cur.at = "none" /\ cur' = cur /\ UNCHANGED conn
    BY <1>1, <1>7 DEF closeTabInternal, Ops
  <2>2. sessions' = Close(sessions, Head(tail).sid) /\ turns' = turns \ {Head(tail).sid}
    BY <1>7 DEF closeTabInternal
  <2>3. /\ sessions' \in Owner /\ \A s \in Sessions : sessions'[s] \in {sessions[s], NoTab}
        /\ \A s \in turns' : sessions'[s] # NoTab
    BY <2>2 DEF Close, Owner, Shape, TypeOK, Live, Turns
  <2>4. QED BY <2>1, <2>2, <2>3, LiveShrink
<1>8. CASE IgnoreHead
  BY <1>8 DEF IgnoreHead, registry, conn, Live, Connection, Turns, isDisposed
<1>9. CASE NotConnected
  BY <1>9 DEF NotConnected, registry, conn, Live, Connection, Turns, isDisposed
<1>10. QED BY <1>2, <1>3, <1>4, <1>5, <1>6, <1>7, <1>8, <1>9 DEF Begin

LEMMA LiveContinue == Shape /\ Ownership /\ Live /\ Continue => Live'
<1> SUFFICES ASSUME Shape, Ownership, Live, Continue PROVE Live'
  OBVIOUS
<1>1. CASE ResolveOk
  <2>1. cur'.at = "connect"
    BY <1>1, AwaitingRuns DEF ResolveOk, Running
  <2>2. QED BY <1>1, <2>1 DEF ResolveOk, registry, Live, Connection, Turns, isDisposed
<1>2. CASE ResolveFails \/ ConnectFails
  <2>1. StartFails /\ cur.at \in {"resolve", "connect"} /\ cur' = Idle
    BY <1>2 DEF ResolveFails, ConnectFails, StartFails, Finish
  <2>2. turns = {} /\ UNCHANGED <<sessions, turns>> /\ client' = "none"
    BY <2>1 DEF StartFails, registry, Live, Turns, Connection
  <2>3. cur'.at = "none"
    BY <2>1 DEF Idle
  <2>4. CASE isDisposed
    BY <2>1, <2>2, <2>3, <2>4 DEF StartFails, Live, Connection, Turns, isDisposed
  <2>5. CASE ~isDisposed
    <3>1. acpState' \in {"respawning", "idle"}
      BY <2>1, <2>5 DEF StartFails, scheduleAcpRespawn
    <3>2. QED BY <2>2, <2>3, <3>1 DEF Live, Connection, Turns, isDisposed
  <2>6. QED BY <2>4, <2>5
<1>3. CASE ConnectOk
  <2>1. cur'.at \in {"recover", "mint"}
    <3>1. cur' \in {[cur EXCEPT !.at = "recover"], [cur EXCEPT !.at = "mint", !.tab = Boot]}
      BY <1>3 DEF ConnectOk
    <3>2. QED BY <1>3, <3>1, AwaitingRuns DEF ConnectOk, Running
  <2>2. /\ client' = "up" /\ acpState' = "ready" /\ acpRespawnTimer' = acpRespawnTimer
        /\ UNCHANGED <<sessions, turns>>
    BY <1>3 DEF ConnectOk, registry
  <2>3. QED BY <2>1, <2>2 DEF Live, Connection, Turns, isDisposed
<1>4. ASSUME NEW s \in Sessions, RecoverNext(s) PROVE Live'
  <2>1. cur'.at = "recover" /\ cur.at = "recover"
    BY <1>4, AwaitingRuns DEF RecoverNext, Running
  <2>2. CASE client = "up"
    <3>1. /\ sessions' = Open(sessions, s, rest[s]) /\ turns' = turns \ {s}
          /\ UNCHANGED conn
      BY <1>4, <2>2 DEF RecoverNext
    <3>2. \A u \in turns' : sessions'[u] # NoTab
      BY <3>1 DEF Open, Owner, Shape, TypeOK, Live, Turns
    <3>3. QED BY <2>1, <2>2, <3>1, <3>2 DEF Live, Connection, Turns, isDisposed, conn
  <2>3. CASE client # "up"
    <3>1. /\ sessions' = Close(Open(sessions, s, rest[s]), s) /\ turns' = turns \ {s}
          /\ UNCHANGED conn
      BY <1>4, <2>3 DEF RecoverNext
    <3>2. /\ sessions' \in Owner /\ \A u \in Sessions : sessions'[u] \in {sessions[u], NoTab}
          /\ \A u \in turns' : sessions'[u] # NoTab
      BY <3>1 DEF Open, Close, Owner, Shape, TypeOK, Live, Turns
    <3>3. QED BY <2>1, <3>1, <3>2, LiveShrink
  <2>4. QED BY <2>2, <2>3
<1>5. ASSUME NEW s \in Sessions, RecoverBudgetSpent(s) PROVE Live'
  BY <1>5, LiveUntouched DEF RecoverBudgetSpent, registry
<1>6. ASSUME NEW s \in Sessions, MintOk(s) PROVE Live'
  <2>1. cur'.at = "pin"
    BY <1>6, AwaitingRuns DEF MintOk, Running
  <2>2. sessions' = Open(sessions, s, cur.tab) /\ client = "up" /\ UNCHANGED <<conn, turns>>
    BY <1>6 DEF MintOk
  <2>3. \A u \in turns : sessions'[u] # NoTab
    BY <1>6, <2>2, TabsAreNotNoTab DEF MintOk, Open, Owner, Shape, TypeOK, Requests, CurNamed, Live, Turns
  <2>4. QED BY <1>6, <2>1, <2>2, <2>3 DEF MintOk, Live, Connection, Turns, isDisposed, conn
<1>7. CASE RecoverLoaded
  <2>1. cur'.at = "recover" /\ cur.at = "recover" /\ UNCHANGED <<conn, sessions, turns>>
    BY <1>7, AwaitingRuns DEF RecoverLoaded, Running
  <2>2. QED BY <2>1, LiveUntouched
<1>8. CASE RecoverFails
  <2>1. /\ cur'.at = "recover" /\ cur.at = "recover" /\ UNCHANGED conn
        /\ sessions' = Close(sessions, cur.sid) /\ turns' = turns \ {cur.sid}
    BY <1>8, AwaitingRuns DEF RecoverFails, Running
  <2>2. /\ sessions' \in Owner /\ \A u \in Sessions : sessions'[u] \in {sessions[u], NoTab}
        /\ \A u \in turns' : sessions'[u] # NoTab
    BY <2>1 DEF Close, Owner, Shape, TypeOK, Live, Turns
  <2>3. QED BY <2>1, <2>2, LiveShrink
<1>9. CASE RecoverDone \/ MintFails \/ MintDeadline \/ PinOk \/ PinGivesUp
           \/ ConfineDenied \/ ReplayEnds
  <2>1. /\ UNCHANGED <<conn, sessions, turns>> /\ cur' = Idle
        /\ cur.at \in {"recover", "mint", "pin", "confine", "replay"}
    BY <1>9 DEF RecoverDone, MintFails, MintDeadline, PinOk, PinGivesUp, ConfineDenied,
       ReplayEnds, GiveUp, Finish, registry
  <2>2. QED BY <2>1, LiveUntouched DEF Idle
<1>10. CASE ConfineOk
  <2> DEFINE s     == cur.sid
             t     == cur.tab
             old   == getByTabId(t)
             moved == Open(Without(sessions, old), s, t)
  <2>1. t \in Tabs /\ s \in Sessions /\ UNCHANGED conn /\ turns' = turns \ (old \cup {s})
        /\ cur.at = "confine"
    BY <1>10 DEF ConfineOk, Shape, TypeOK, Requests, CurNamed
  <2>2. \A u \in turns' : moved[u] # NoTab /\ u # s
    BY <2>1 DEF Open, Without, Shape, TypeOK, Live, Turns
  <2>3. CASE client = "up"
    <3>1. cur' = [cur EXCEPT !.at = "replay"] /\ sessions' = moved
      BY <1>10, <2>3 DEF ConfineOk
    <3>2. cur'.at = "replay"
      BY <2>1, <3>1, AwaitingRuns DEF Running
    <3>3. QED BY <2>1, <2>2, <2>3, <3>1, <3>2 DEF Live, Connection, Turns, isDisposed, conn
  <2>4. CASE client # "up"
    <3>1. cur' = Idle /\ sessions' = Close(moved, s)
      BY <1>10, <2>4 DEF ConfineOk, Finish
    <3>2. /\ sessions' \in Owner /\ \A u \in Sessions : sessions'[u] \in {sessions[u], NoTab}
          /\ \A u \in turns' : sessions'[u] # NoTab
      BY <2>1, <2>2, <3>1 DEF Open, Close, Without, Owner, Shape, TypeOK
    <3>3. QED BY <2>1, <3>1, <3>2, LiveShrink DEF Idle
  <2>5. QED BY <2>3, <2>4
<1>11. CASE ReplayDeadline
  <2>1. /\ cur' = Idle /\ cur.at = "replay" /\ UNCHANGED conn
        /\ sessions' = Close(sessions, cur.sid) /\ turns' = turns \ {cur.sid}
    BY <1>11 DEF ReplayDeadline, Finish
  <2>2. /\ sessions' \in Owner /\ \A u \in Sessions : sessions'[u] \in {sessions[u], NoTab}
        /\ \A u \in turns' : sessions'[u] # NoTab
    BY <2>1 DEF Close, Owner, Shape, TypeOK, Live, Turns
  <2>3. QED BY <2>1, <2>2, LiveShrink DEF Idle
<1>12. QED
  BY <1>1, <1>2, <1>3, <1>4, <1>5, <1>6, <1>7, <1>8, <1>9, <1>10, <1>11 DEF Continue

LEMMA LiveStep == Shape /\ Ownership /\ Live /\ [Next]_vars => Live'
<1>1. Live /\ UNCHANGED vars => Live'
  BY DEF vars, conn, registry, Live, Connection, Turns, isDisposed
<1>2. QED BY <1>1, LiveUserRequest, LiveOffTail, LiveBegin, LiveContinue DEF Next

IInv == Shape /\ Ownership /\ Live

LEMMA Inductive == Spec => []IInv
<1>1. Init => IInv
  <2>1. Init => Ownership
    BY DEF Init, Ownership, OnePerTab, NoOwner, Idle
  <2>2. Init => Live
    BY DEF Init, Idle, Live, Connection, Turns, isDisposed
  <2>3. QED BY <2>1, <2>2, ShapeInit DEF IInv
<1>2. IInv /\ [Next]_vars => IInv'
  BY ShapeStep, OwnershipStep, LiveStep DEF IInv
<1>3. QED BY <1>1, <1>2, PTL DEF Spec

\* No turn outlives its session or its child: what ends a session ends its
\* turn, and what ends the child ends them all.
THEOREM EveryTurnIsServed == Spec => []TurnsAreServed
<1>1. IInv => TurnsAreServed
  BY DEF IInv, Shape, TypeOK, Live, Turns, TurnsAreServed, Registered, In
<1>2. QED BY <1>1, Inductive, PTL

\* A dispose that lands at any await of the running request is final: no child
\* is adopted, no session registered and no retry armed after it.
THEOREM DisposeIsFinal == Spec => []DisposedIsFinal
<1>1. IInv => DisposedIsFinal
  BY DEF IInv, Live, Connection, DisposedIsFinal, Registered, In, NoOwner
<1>2. QED BY <1>1, Inductive, PTL

-----------------------------------------------------------------------------
(* The retry of an outage.                                                  *)

StartWaits == \E i \in DOMAIN tail : tail[i].op = "start"

\* Whatever joins the tail, or leaves it, a start in it keeps waiting, unless it
\* is the head that leaves.
LEMMA StartKeepsWaiting ==
  ASSUME Shape, StartWaits,
         \/ \E r : tail' = Append(tail, r)
         \/ tail # <<>> /\ tail' = Tail(tail) /\ Head(tail).op # "start"
         \/ tail' = tail
  PROVE  StartWaits'
<1>1. PICK i \in DOMAIN tail : tail[i].op = "start"
  BY DEF StartWaits
<1>2. tail \in Seq(Request)
  BY DEF Shape, TypeOK
<1>3. ASSUME NEW r, tail' = Append(tail, r) PROVE StartWaits'
  <2>1. i \in DOMAIN tail' /\ tail'[i] = tail[i]
    BY <1>1, <1>2, <1>3
  <2>2. QED BY <1>1, <2>1 DEF StartWaits
<1>4. CASE tail # <<>> /\ tail' = Tail(tail) /\ Head(tail).op # "start"
  <2>1. i # 1 /\ i \in 1 .. Len(tail)
    BY <1>1, <1>2, <1>4
  <2>2. i - 1 \in DOMAIN tail' /\ tail'[i - 1] = tail[i]
    BY <1>2, <1>4, <2>1
  <2>3. QED BY <1>1, <2>2 DEF StartWaits
<1>5. CASE tail' = tail
  BY <1>5 DEF StartWaits
<1>6. QED BY <1>3, <1>4, <1>5

\* An outage stays one only with its retry armed or waiting.
LEMMA RetryStep == IInv /\ RetryPending /\ [Next]_vars => RetryPending'
<1> SUFFICES ASSUME IInv, RetryPending, [Next]_vars, acpState' = "respawning"
             PROVE  acpRespawnTimer' \/ StartWaits'
  BY DEF RetryPending, StartWaits
<1>1. ASSUME UNCHANGED conn,
             \/ \E r : tail' = Append(tail, r)
             \/ tail # <<>> /\ tail' = Tail(tail) /\ Head(tail).op # "start"
             \/ tail' = tail
      PROVE  acpRespawnTimer' \/ StartWaits'
  BY <1>1, StartKeepsWaiting DEF IInv, RetryPending, StartWaits, conn
<1>2. CASE UNCHANGED vars
  BY <1>1, <1>2 DEF vars
<1>3. CASE UserRequest
  <2>1. UNCHANGED conn
    BY <1>3 DEF UserRequest, UserStart, UserReconnect, NewTab, RetryOpen, NewSession,
       CloseTab, LoadInto
  <2>2. tail' = tail \/ \E r : tail' = Append(tail, r)
    BY <1>3 DEF UserRequest, UserStart, UserReconnect, NewTab, RetryOpen, NewSession,
       CloseTab, LoadInto, Enqueue
  <2>3. QED BY <1>1, <2>1, <2>2
<1>4. CASE OffTail
  <2>1. CASE Crash
    BY <2>1 DEF Crash, scheduleAcpRespawn
  <2>2. CASE dispose
    BY <2>2 DEF dispose
  <2>3. CASE ~Crash /\ ~dispose
    BY <1>1, <1>4, <2>3 DEF OffTail, sendPrompt, LateMint, TurnEnds
  <2>4. QED BY <2>1, <2>2, <2>3
<1>5. CASE RespawnTimerFires
  <2>1. tail \in Seq(Request)
    BY DEF IInv, Shape, TypeOK
  <2>2. tail'[Len(tail')].op = "start" /\ Len(tail') \in DOMAIN tail'
    BY <1>5, <2>1 DEF RespawnTimerFires, Enqueue
  <2>3. QED BY <2>2 DEF StartWaits
<1>6. CASE Begin
  <2>1. CASE BeginStart \/ BeginReconnect
    BY <2>1 DEF BeginStart, BeginReconnect
  <2>2. CASE ~BeginStart /\ ~BeginReconnect
    <3>1. UNCHANGED conn /\ tail # <<>> /\ tail' = Tail(tail)
      BY <1>6, <2>2 DEF Begin, BeginOpen, BeginNew, BeginLoad, closeTabInternal,
         IgnoreHead, NotConnected, AtHead
    <3>2. Head(tail).op # "start" \/ isDisposed
      BY <1>6, <2>2 DEF Begin, BeginOpen, BeginNew, BeginLoad, closeTabInternal,
         IgnoreHead, NotConnected, AtHead
    <3>3. QED BY <1>1, <3>1, <3>2 DEF isDisposed, conn
  <2>3. QED BY <2>1, <2>2
<1>7. CASE Continue
  <2>1. CASE StartFails
    <3>1. ~isDisposed
      BY <2>1 DEF StartFails, isDisposed
    <3>2. QED BY <2>1, <3>1 DEF StartFails, scheduleAcpRespawn
  <2>2. CASE ResolveOk \/ ConnectOk
    BY <2>2, <1>1 DEF ResolveOk, ConnectOk, IInv, Live, Connection
  <2>3. CASE ~StartFails /\ ~ResolveOk /\ ~ConnectOk
    BY <1>1, <1>7, <2>3 DEF Continue, ResolveFails, ConnectFails, RecoverNext,
       RecoverBudgetSpent, MintOk, RecoverLoaded, RecoverFails, RecoverDone, MintFails,
       MintDeadline, PinOk, PinGivesUp, GiveUp, ConfineDenied, ConfineOk, ReplayEnds,
       ReplayDeadline
  <2>4. QED BY <2>1, <2>2, <2>3
<1>8. QED BY <1>2, <1>3, <1>4, <1>5, <1>6, <1>7 DEF Next

\* An outage is never left without its retry.
THEOREM OutageHasRetry == Spec => []RetryPending
<1>1. Init => RetryPending
  BY DEF Init, RetryPending
<1>2. QED BY <1>1, RetryStep, Inductive, PTL DEF Spec
-----------------------------------------------------------------------------
(* What the user closed while connected.                                    *)

\* The tabs name sessions that the agent issued.
ViewNames == \A t \in Tabs : view[t].sid \in issued \cup {NoSession}

\* A recovery is held only while there is no child.  A session that was closed
\* while connected is in no promise of recovery, and once its tombstone is gone
\* neither in the registry nor in what is left of a recovery.
KeptClosed ==
  /\ client = "up" => ~recoveryHeld
  /\ closedLive \subseteq issued
  /\ \A s \in closedLive :
       /\ s \notin pendingClose => sessions[s] = NoTab /\ rest[s] = NoTab
       /\ recoveryHeld => pendingRecovery[s] = NoTab

\* Which session a tab names after a message.
LEMMA FoldSids ==
  ASSUME NEW w \in View, NEW t \in Tabs, NEW u \in Tabs
  PROVE  /\ \A s \in Sessions : TabBound(w, t, s)[u].sid \in {w[u].sid, s}
         /\ TabOpenFailed(w, t)[u].sid = w[u].sid
         /\ TabSessionLost(w, t)[u].sid = w[u].sid
         /\ TabClear(w, t)[u].sid = w[u].sid
         /\ LocalOpen(w, t)[u].sid \in {w[u].sid, NoSession}
         /\ LocalClose(w, t)[u].sid \in {w[u].sid, NoSession}
BY DEF TabBound, TabOpenFailed, TabSessionLost, TabClear, LocalOpen, LocalClose,
       foldTabScoped, View, TabState

LEMMA FanOutSids ==
  ASSUME NEW w \in View, NEW T, NEW u \in Tabs
  PROVE  TabsSessionLost(w, T)[u].sid = w[u].sid
<1>1. TabsSessionLost(w, T)[u] = IF u \in T THEN TabSessionLost(w, u)[u] ELSE w[u]
  BY DEF TabsSessionLost
<1>2. QED BY <1>1, FoldSids

\* A view that names no other sessions than before, but for one that is issued.
LEMMA ViewNamesStay ==
  ASSUME ViewNames, issued \subseteq issued',
         \A u \in Tabs : view'[u].sid \in {view[u].sid, NoSession} \cup issued'
  PROVE  ViewNames'
BY DEF ViewNames

LEMMA ViewNamesStep == IInv /\ ViewNames /\ [Next]_vars => ViewNames'
<1> SUFFICES ASSUME IInv, ViewNames, [Next]_vars PROVE ViewNames'
  OBVIOUS
<1>0. view \in View /\ issued \in SUBSET Sessions
  BY DEF IInv, Shape, TypeOK
<1>1. ASSUME view' = view, issued \subseteq issued' PROVE ViewNames'
  BY <1>1 DEF ViewNames
<1>2. CASE UNCHANGED vars
  BY <1>1, <1>2 DEF vars, ui
<1>3. CASE UserRequest
  <2>1. ASSUME NEW t \in Tabs, NewTab(t) \/ CloseTab(t) PROVE ViewNames'
    <3>1. view' \in {LocalOpen(view, t), LocalClose(view, t)} /\ issued' = issued
      BY <2>1 DEF NewTab, CloseTab
    <3>2. QED BY <1>0, <3>1, FoldSids, ViewNamesStay
  <2>2. CASE ~\E t \in Tabs : NewTab(t) \/ CloseTab(t)
    BY <1>1, <1>3, <2>2 DEF UserRequest, UserStart, UserReconnect, RetryOpen,
       NewSession, LoadInto, ui
  <2>3. QED BY <2>1, <2>2
<1>4. CASE OffTail
  BY <1>1, <1>4 DEF OffTail, sendPrompt, LateMint, TurnEnds, Crash, dispose, ui
<1>5. CASE RespawnTimerFires
  BY <1>1, <1>5 DEF RespawnTimerFires, ui
<1>6. CASE Begin
  <2>1. CASE BeginStart
    <3>1. issued' = issued /\ \A u \in Tabs : view'[u].sid = view[u].sid
      BY <1>0, <2>1, FanOutSids DEF BeginStart, restartView
    <3>2. QED BY <3>1, ViewNamesStay
  <2>2. CASE BeginNew \/ NotConnected
    <3>1. Head(tail).tab \in Tabs
      BY <2>2, LeavesTail DEF BeginNew, NotConnected, AtHead, IInv, Named
    <3>2. /\ issued' = issued
          /\ view' \in {view, TabClear(view, Head(tail).tab), TabOpenFailed(view, Head(tail).tab)}
      BY <2>2 DEF BeginNew, NotConnected, Post
    <3>3. QED BY <1>0, <3>1, <3>2, FoldSids, ViewNamesStay
  <2>3. CASE BeginReconnect \/ BeginOpen \/ BeginLoad \/ closeTabInternal \/ IgnoreHead
    BY <1>1, <2>3 DEF BeginReconnect, BeginOpen, BeginLoad, closeTabInternal, IgnoreHead, ui
  <2>4. QED BY <1>6, <2>1, <2>2, <2>3 DEF Begin
<1>7. CASE Continue
  <2>1. ASSUME NEW s \in Sessions, RecoverNext(s) \/ RecoverBudgetSpent(s) PROVE ViewNames'
    <3> DEFINE t == rest[s]
               b == TabBound(view, t, s)
    <3>1. t \in Tabs /\ s \in issued /\ issued' = issued
      BY <2>1 DEF RecoverNext, RecoverBudgetSpent, In, IInv, Shape, TypeOK, Owner, IdsIssued
    <3>2. b \in View /\ \A u \in Tabs : b[u].sid \in {view[u].sid, s}
      BY <1>0, <3>1, FoldsKeepType, FoldSids
    <3>3. view' \in {view, b, TabSessionLost(b, t), TabSessionLost(view, t)}
      BY <2>1 DEF RecoverNext, RecoverBudgetSpent, Post
    <3> HIDE DEF b, t
    <3>4. \A u \in Tabs : /\ TabSessionLost(b, t)[u].sid = b[u].sid
                          /\ TabSessionLost(view, t)[u].sid = view[u].sid
      BY <1>0, <3>1, <3>2, FoldSids
    <3>5. \A u \in Tabs : view'[u].sid \in {view[u].sid, s}
      BY <3>2, <3>3, <3>4
    <3>6. QED BY <3>1, <3>5, ViewNamesStay
  <2>2. ASSUME NEW s \in Sessions, MintOk(s) PROVE ViewNames'
    <3>1. cur.tab \in Tabs /\ issued' = issued \cup {s}
      BY <2>2 DEF MintOk, IInv, Shape, Requests, CurNamed
    <3>2. view' \in {view, TabBound(view, cur.tab, s)}
      BY <2>2 DEF MintOk, Post
    <3>3. \A u \in Tabs : view'[u].sid \in {view[u].sid, s}
      BY <1>0, <3>1, <3>2, FoldSids
    <3>4. QED BY <3>1, <3>3, ViewNamesStay
  <2>3. CASE ConfineOk
    <3> DEFINE s == cur.sid
               t == cur.tab
               w == TabsSessionLost(view, {sessions[s]} \ {t, NoTab})
               b == TabBound(w, t, s)
    <3>1. t \in Tabs /\ s \in issued /\ s \in Sessions /\ issued' = issued
      BY <1>0, <2>3 DEF ConfineOk, IInv, Shape, Requests, CurNamed
    <3>2. view' \in {view, b, TabSessionLost(b, t)}
      BY <2>3 DEF ConfineOk, Post
    <3>3. w \in View /\ \A u \in Tabs : w[u].sid = view[u].sid
      BY <1>0, FanOutKeepsType, FanOutSids
    <3> HIDE DEF w
    <3>4. b \in View /\ \A u \in Tabs : b[u].sid \in {w[u].sid, s}
      BY <3>1, <3>3, FoldsKeepType, FoldSids
    <3> HIDE DEF b, s, t
    <3>5. \A u \in Tabs : TabSessionLost(b, t)[u].sid = b[u].sid
      BY <3>1, <3>4, FoldSids
    <3>6. \A u \in Tabs : view'[u].sid \in {view[u].sid, s}
      BY <3>2, <3>3, <3>4, <3>5
    <3>7. QED BY <3>1, <3>6, ViewNamesStay
  <2>4. CASE RecoverFails \/ MintFails \/ MintDeadline \/ PinGivesUp \/ ConfineDenied
             \/ ReplayDeadline
    <3>1. issued' = issued
      BY <2>4 DEF RecoverFails, MintFails, MintDeadline, PinGivesUp, GiveUp, ConfineDenied,
         ReplayDeadline
    <3>2. CASE view' = view
      BY <1>1, <3>1, <3>2
    <3>3. CASE view' # view
      <4>1. cur.tab \in Tabs
        BY <2>4, TabsAreNotNoTab DEF RecoverFails, MintFails, MintDeadline, PinGivesUp,
           ConfineDenied, ReplayDeadline, IInv, Shape, Requests, CurNamed
      <4>2. view' \in {TabOpenFailed(view, cur.tab), TabSessionLost(view, cur.tab)}
        BY <2>4, <3>3 DEF RecoverFails, MintFails, MintDeadline, PinGivesUp, GiveUp,
           ConfineDenied, ReplayDeadline, Post
      <4>3. QED BY <1>0, <3>1, <4>1, <4>2, FoldSids, ViewNamesStay
    <3>4. QED BY <3>2, <3>3
  <2>5. CASE ResolveOk \/ ResolveFails \/ ConnectOk \/ ConnectFails \/ RecoverLoaded
             \/ RecoverDone \/ PinOk \/ ReplayEnds
    BY <1>1, <2>5 DEF ResolveOk, ResolveFails, ConnectOk, ConnectFails, StartFails,
       RecoverLoaded, RecoverDone, PinOk, ReplayEnds, ui
  <2>6. QED BY <1>7, <2>1, <2>2, <2>3, <2>4, <2>5 DEF Continue
<1>8. QED BY <1>2, <1>3, <1>4, <1>5, <1>6, <1>7 DEF Next

\* Nothing is brought back by a step that registers, promises and reopens
\* nothing, and that ends no tombstone.
LEMMA KeptClosedStays ==
  ASSUME KeptClosed, closedLive' \subseteq closedLive, pendingClose \subseteq pendingClose',
         issued \subseteq issued', client' = "up" => client = "up",
         recoveryHeld' = recoveryHeld, pendingRecovery' = pendingRecovery,
         \A s \in Sessions : /\ sessions'[s] \in {sessions[s], NoTab}
                             /\ rest'[s] \in {rest[s], NoTab},
         closedLive \subseteq Sessions
  PROVE  KeptClosed'
BY DEF KeptClosed

LEMMA KeptClosedStep == IInv /\ ViewNames /\ KeptClosed /\ [Next]_vars => KeptClosed'
<1> SUFFICES ASSUME IInv, ViewNames, KeptClosed, [Next]_vars PROVE KeptClosed'
  OBVIOUS
<1>0. /\ sessions \in Owner /\ rest \in Owner /\ pendingRecovery \in Owner
      /\ closedLive \subseteq Sessions /\ issued \subseteq Sessions
      /\ pendingClose \subseteq Sessions
  BY DEF IInv, Shape, TypeOK
<1>1. ASSUME sessions' = sessions, rest' = rest, pendingRecovery' = pendingRecovery,
             recoveryHeld' = recoveryHeld, closedLive' = closedLive,
             pendingClose' = pendingClose, issued' = issued,
             client' = "up" => client = "up"
      PROVE  KeptClosed'
  BY <1>1 DEF KeptClosed
<1>2. CASE UNCHANGED vars
  BY <1>1, <1>2 DEF vars, conn, recovery, registry, history
<1>3. CASE UserRequest
  <2>1. ASSUME NEW t \in Tabs, CloseTab(t) PROVE KeptClosed'
    <3>1. UNCHANGED <<conn, recovery, sessions, issued>>
      BY <2>1 DEF CloseTab
    <3>2. CASE view[t].sid = NoSession
      BY <1>1, <2>1, <3>1, <3>2 DEF CloseTab, conn, recovery, history
    <3>3. CASE view[t].sid # NoSession
      <4>1. /\ pendingClose' = pendingClose \cup {view[t].sid} /\ view[t].sid \in issued
            /\ closedLive' = IF acpState = "ready"
                             THEN closedLive \cup {view[t].sid} ELSE closedLive
        BY <2>1, <3>3 DEF CloseTab, ViewNames
      <4>2. CASE acpState # "ready"
        BY <3>1, <4>1, <4>2 DEF KeptClosed, conn, recovery
      <4>3. CASE acpState = "ready"
        <5>1. ~recoveryHeld
          BY <4>3 DEF KeptClosed, IInv, Live, Connection
        <5>2. QED BY <3>1, <4>1, <4>3, <5>1 DEF KeptClosed, conn, recovery
      <4>4. QED BY <4>2, <4>3
    <3>4. QED BY <3>2, <3>3
  <2>2. CASE ~\E t \in Tabs : CloseTab(t)
    BY <1>1, <1>3, <2>2 DEF UserRequest, UserStart, UserReconnect, NewTab, RetryOpen,
       NewSession, LoadInto, conn, recovery, registry, history
  <2>3. QED BY <2>1, <2>2
<1>4. CASE OffTail
  <2>1. CASE Crash
    <3>1. /\ pendingRecovery' = Without(sessions, pendingClose) /\ client' = "none"
          /\ UNCHANGED <<rest, sessions, pendingClose, issued, history>>
      BY <2>1 DEF Crash, RecoverySnapshot
    <3>2. \A s \in closedLive : pendingRecovery'[s] = NoTab
      BY <1>0, <3>1 DEF Without, KeptClosed
    <3>3. QED BY <3>1, <3>2 DEF KeptClosed, history
  <2>2. ASSUME NEW t \in Tabs, LateMint(t) PROVE KeptClosed'
    <3>1. PICK s \in Sessions \ issued :
            /\ issued' = issued \cup {s}
            /\ sessions' = Close(Open(sessions, s, t), s)
      BY <2>2 DEF LateMint
    <3>2. \A u \in Sessions : sessions'[u] \in {sessions[u], NoTab}
      BY <1>0, <3>1 DEF Open, Close, Owner
    <3>3. UNCHANGED <<conn, recovery, pendingClose, history>>
      BY <2>2 DEF LateMint
    <3>4. QED BY <1>0, <3>1, <3>2, <3>3, KeptClosedStays DEF conn, recovery, history
  <2>3. CASE dispose
    <3>1. /\ sessions' = NoOwner /\ client' = "none"
          /\ UNCHANGED <<recovery, pendingClose, issued, history>>
      BY <2>3 DEF dispose
    <3>2. \A u \in Sessions : sessions'[u] \in {sessions[u], NoTab}
      BY <3>1 DEF NoOwner
    <3>3. QED BY <1>0, <3>1, <3>2, KeptClosedStays DEF recovery, history
  <2>4. CASE ~Crash /\ ~dispose /\ ~\E t \in Tabs : LateMint(t)
    BY <1>1, <1>4, <2>4 DEF OffTail, sendPrompt, TurnEnds, conn, recovery, registry, history
  <2>5. QED BY <2>1, <2>2, <2>3, <2>4
<1>5. CASE RespawnTimerFires
  BY <1>1, <1>5 DEF RespawnTimerFires, recovery, registry, history
<1>6. CASE Begin
  <2>1. CASE BeginStart
    <3>1. /\ sessions' = NoOwner /\ client' = "none"
          /\ UNCHANGED <<recovery, pendingClose, issued, closedLive>>
      BY <2>1 DEF BeginStart, teardownSession
    <3>2. \A u \in Sessions : sessions'[u] \in {sessions[u], NoTab}
      BY <3>1 DEF NoOwner
    <3>3. QED BY <1>0, <3>1, <3>2, KeptClosedStays DEF recovery
  <2>2. CASE BeginReconnect
    <3>1. /\ pendingRecovery' = Without(sessions, pendingClose) /\ client' = "none"
          /\ sessions' = NoOwner /\ UNCHANGED <<rest, pendingClose, issued, history>>
      BY <2>2 DEF BeginReconnect, RecoverySnapshot, teardownSession
    <3>2. \A s \in closedLive : pendingRecovery'[s] = NoTab
      BY <1>0, <3>1 DEF Without, KeptClosed
    <3>3. QED BY <1>0, <3>1, <3>2 DEF KeptClosed, history, NoOwner
  <2>3. CASE BeginNew
    <3>1. PICK old : sessions' = Without(sessions, old)
      BY <2>3 DEF BeginNew
    <3>2. \A u \in Sessions : sessions'[u] \in {sessions[u], NoTab}
      BY <3>1 DEF Without
    <3>3. UNCHANGED <<conn, recovery, pendingClose, issued, history>>
      BY <2>3 DEF BeginNew
    <3>4. QED BY <1>0, <3>2, <3>3, KeptClosedStays DEF conn, recovery, history
  <2>4. CASE closeTabInternal
    <3> DEFINE s == Head(tail).sid
    <3>1. /\ sessions' = Close(sessions, s) /\ pendingClose' = pendingClose \ {s}
          /\ UNCHANGED <<conn, recovery, issued, history>>
      BY <2>4 DEF closeTabInternal
    <3>2. rest = NoOwner
      BY <2>4 DEF closeTabInternal, AtHead, IInv, Shape, TypeOK, Idle, Running, Ops, Ownership
    <3> HIDE DEF s
    <3>3. \A u \in closedLive : u \notin pendingClose' => sessions'[u] = NoTab
      BY <1>0, <3>1 DEF Close, Owner, KeptClosed
    <3>4. QED BY <1>0, <3>1, <3>2, <3>3 DEF KeptClosed, NoOwner, conn, recovery, history
  <2>5. CASE BeginOpen \/ BeginLoad \/ IgnoreHead \/ NotConnected
    BY <1>1, <2>5 DEF BeginOpen, BeginLoad, IgnoreHead, NotConnected, conn, recovery,
       registry, history
  <2>6. QED BY <1>6, <2>1, <2>2, <2>3, <2>4, <2>5 DEF Begin
<1>7. CASE Continue
  <2>1. CASE ConnectOk
    <3>1. /\ rest' \in {pendingRecovery, rest} /\ (~recoveryHeld => rest' = rest)
          /\ recoveryHeld' = FALSE
          /\ UNCHANGED <<sessions, pendingClose, issued, history>>
      BY <2>1 DEF ConnectOk, registry
    <3>2. QED BY <3>1 DEF KeptClosed, history
  <2>2. ASSUME NEW s \in Sessions, RecoverNext(s) PROVE KeptClosed'
    <3>1. /\ sessions' \in {Open(sessions, s, rest[s]), Close(Open(sessions, s, rest[s]), s)}
          /\ rest' = Close(rest, s) /\ rest[s] # NoTab
          /\ UNCHANGED <<conn, pendingRecovery, recoveryHeld, pendingClose, issued, closedLive>>
      BY <2>2 DEF RecoverNext, In
    <3>2. \A u \in closedLive : u \notin pendingClose => u # s
      BY <3>1 DEF KeptClosed
    <3>3. \A u \in closedLive : u # s => sessions'[u] = sessions[u]
      BY <1>0, <3>1 DEF Open, Close, Owner
    <3>4. \A u \in closedLive : u # s => rest'[u] = rest[u]
      BY <1>0, <3>1 DEF Close, Owner
    <3>5. QED BY <3>1, <3>2, <3>3, <3>4 DEF KeptClosed, conn
  <2>3. ASSUME NEW s \in Sessions, RecoverBudgetSpent(s) PROVE KeptClosed'
    <3>1. /\ rest' = Close(rest, s)
          /\ UNCHANGED <<conn, pendingRecovery, recoveryHeld, registry, issued, history>>
      BY <2>3 DEF RecoverBudgetSpent
    <3>2. \A u \in Sessions : rest'[u] \in {rest[u], NoTab}
      BY <1>0, <3>1 DEF Close, Owner
    <3>3. QED BY <1>0, <3>1, <3>2, KeptClosedStays DEF conn, registry, history
  <2>4. ASSUME NEW s \in Sessions, MintOk(s) PROVE KeptClosed'
    <3>1. /\ sessions' = Open(sessions, s, cur.tab) /\ s \notin issued
          /\ issued' = issued \cup {s}
          /\ UNCHANGED <<conn, recovery, pendingClose, closedLive>>
      BY <2>4 DEF MintOk
    <3>2. \A u \in closedLive : u # s /\ sessions'[u] = sessions[u]
      BY <1>0, <3>1 DEF Open, Owner, KeptClosed
    <3>3. QED BY <3>1, <3>2 DEF KeptClosed, conn, recovery
  <2>5. CASE ConfineOk
    <3> DEFINE s     == cur.sid
               moved == Open(Without(sessions, getByTabId(cur.tab)), s, cur.tab)
    <3>1. /\ sessions' \in {moved, Close(moved, s)}
          /\ closedLive' = closedLive \ ({s} \ pendingClose)
          /\ UNCHANGED <<conn, recovery, pendingClose, issued>>
      BY <2>5 DEF ConfineOk
    <3>2. \A u \in Sessions : u # s => sessions'[u] \in {sessions[u], NoTab}
      BY <1>0, <3>1 DEF Open, Close, Without, Owner
    <3> HIDE DEF moved, s
    <3>3. \A u \in closedLive' : u \in closedLive /\ (u \notin pendingClose => u # s)
      BY <3>1
    <3>4. QED BY <1>0, <3>1, <3>2, <3>3 DEF KeptClosed, conn, recovery
  <2>6. CASE RecoverFails \/ ReplayDeadline
    <3>1. /\ sessions' = Close(sessions, cur.sid)
          /\ UNCHANGED <<conn, recovery, pendingClose, issued, history>>
      BY <2>6 DEF RecoverFails, ReplayDeadline
    <3>2. \A u \in Sessions : sessions'[u] \in {sessions[u], NoTab}
      BY <1>0, <3>1 DEF Close, Owner
    <3>3. QED BY <1>0, <3>1, <3>2, KeptClosedStays DEF conn, recovery, history
  <2>7. CASE ResolveOk \/ ResolveFails \/ ConnectFails \/ RecoverLoaded \/ RecoverDone
             \/ MintFails \/ MintDeadline \/ PinOk \/ PinGivesUp \/ ConfineDenied \/ ReplayEnds
    BY <1>1, <2>7 DEF ResolveOk, ResolveFails, ConnectFails, StartFails, RecoverLoaded,
       RecoverDone, MintFails, MintDeadline, PinOk, PinGivesUp, GiveUp, ConfineDenied,
       ReplayEnds, conn, recovery, registry, history
  <2>8. QED BY <1>7, <2>1, <2>2, <2>3, <2>4, <2>5, <2>6, <2>7 DEF Continue
<1>8. QED BY <1>2, <1>3, <1>4, <1>5, <1>6, <1>7 DEF Next

LEMMA ClosedInvariance == Spec => [](IInv /\ ViewNames /\ KeptClosed)
<1>1. Init => ViewNames /\ KeptClosed
  BY DEF Init, InitialView, ViewNames, KeptClosed
<1>2. QED BY <1>1, ViewNamesStep, KeptClosedStep, Inductive, PTL DEF Spec

\* No respawn brings a session back that the user closed while connected: it is
\* in no snapshot that a teardown takes, and no load but the user's own, after
\* its tombstone is gone, registers it.
THEOREM ClosedIsClosed == Spec => []ClosedStaysClosed
<1>1. IInv /\ KeptClosed => ClosedStaysClosed
  BY DEF KeptClosed, ClosedStaysClosed, Registered, In
<1>2. QED BY <1>1, ClosedInvariance, PTL
-----------------------------------------------------------------------------
(* No tab is dropped in silence.                                            *)

\* A tombstone has its close on the tail.
Tombstones == \A s \in pendingClose : CloseWaits(s)

\* A tab that shows a session whose close waits will lose it to the user.
Away ==
  ~isDisposed =>
    \A t \in Tabs : view[t].ui = "bound" /\ CloseWaits(view[t].sid) => t \in closedAway

\* During an outage every session of the registry is promised, or being closed.
Held ==
  recoveryHeld =>
    \A s \in Sessions :
      sessions[s] # NoTab => pendingRecovery[s] = sessions[s] \/ s \in pendingClose

\* What the recovery loop has not reached yet has no controller.
RestFree == \A s \in Sessions : rest[s] # NoTab => sessions[s] = NoTab

\* The session that is being loaded belongs to the tab it is loaded into.
CurOwns ==
  cur.at \in {"recover", "replay"} /\ cur.sid # NoSession
  => sessions[cur.sid] \in {cur.tab, NoTab}

\* So does the one whose mode is being pinned, and the tab shows it.
Pinned ==
  cur.at = "pin" /\ ~isDisposed /\ view[cur.tab].ui = "bound"
  => view[cur.tab].sid = cur.sid /\ sessions[cur.sid] = cur.tab

\* What a message changes of each tab.
LEMMA FoldEffects ==
  ASSUME NEW w \in View, NEW t \in Tabs, NEW u \in Tabs
  PROVE  /\ u # t => /\ \A s \in Sessions : TabBound(w, t, s)[u] = w[u]
                     /\ TabOpenFailed(w, t)[u] = w[u]
                     /\ TabSessionLost(w, t)[u] = w[u]
                     /\ TabClear(w, t)[u] = w[u]
                     /\ LocalOpen(w, t)[u] = w[u] /\ LocalClose(w, t)[u] = w[u]
         /\ \A s \in Sessions :
              TabBound(w, t, s)[t].ui = "bound" => TabBound(w, t, s)[t].sid = s
         /\ TabOpenFailed(w, t)[t].ui = w[t].ui /\ TabOpenFailed(w, t)[t].sid = w[t].sid
         /\ w[t].ui = "bound" => TabOpenFailed(w, t)[t].failed
         /\ TabSessionLost(w, t)[t].ui # "bound"
         /\ TabClear(w, t)[t].ui = w[t].ui /\ TabClear(w, t)[t].sid = w[t].sid
         /\ LocalOpen(w, t)[t].ui # "bound" /\ LocalClose(w, t)[t].ui # "bound"
BY DEF TabBound, TabOpenFailed, TabSessionLost, TabClear, LocalOpen, LocalClose,
       foldTabScoped, Shown, View, TabState

LEMMA FanOutEffects ==
  ASSUME NEW w \in View, NEW T, NEW u \in Tabs
  PROVE  /\ u \notin T => TabsSessionLost(w, T)[u] = w[u]
         /\ u \in T => TabsSessionLost(w, T)[u].ui # "bound"
<1>1. TabsSessionLost(w, T)[u] = IF u \in T THEN TabSessionLost(w, u)[u] ELSE w[u]
  BY DEF TabsSessionLost
<1>2. QED BY <1>1, FoldEffects

\* The closes that wait, as requests join and leave.
LEMMA ClosesOnTail ==
  ASSUME Shape, NEW s
  PROVE  /\ tail' = tail => (CloseWaits(s)' <=> CloseWaits(s))
         /\ \A r : tail' = Append(tail, r) =>
              (CloseWaits(s)' <=> CloseWaits(s) \/ (r.op = "close" /\ r.sid = s))
         /\ tail # <<>> /\ tail' = Tail(tail) =>
              /\ CloseWaits(s)' => CloseWaits(s)
              /\ CloseWaits(s) => CloseWaits(s)' \/ (Head(tail).op = "close" /\ Head(tail).sid = s)
<1>1. tail \in Seq(Request)
  BY DEF Shape, TypeOK
<1>2. tail' = tail => (CloseWaits(s)' <=> CloseWaits(s))
  BY DEF CloseWaits
<1>3. ASSUME NEW r, tail' = Append(tail, r)
      PROVE  CloseWaits(s)' <=> CloseWaits(s) \/ (r.op = "close" /\ r.sid = s)
  <2>1. /\ DOMAIN tail = 1 .. Len(tail) /\ DOMAIN tail' = 1 .. (Len(tail) + 1) /\ Len(tail) \in Nat
        /\ \A i \in DOMAIN tail : tail'[i] = tail[i]
        /\ tail'[Len(tail) + 1] = r
    BY <1>1, <1>3
  <2>2. \A i \in DOMAIN tail' : i \in DOMAIN tail \/ i = Len(tail) + 1
    BY <2>1
  <2>3. DOMAIN tail \subseteq DOMAIN tail' /\ Len(tail) + 1 \in DOMAIN tail'
    BY <2>1
  <2>4. QED BY <2>1, <2>2, <2>3 DEF CloseWaits
<1>4. ASSUME tail # <<>>, tail' = Tail(tail)
      PROVE  /\ CloseWaits(s)' => CloseWaits(s)
             /\ CloseWaits(s) => CloseWaits(s)' \/ (Head(tail).op = "close" /\ Head(tail).sid = s)
  <2>1. \A i \in DOMAIN tail' : i + 1 \in DOMAIN tail /\ tail'[i] = tail[i + 1]
    BY <1>1, <1>4
  <2>2. \A i \in DOMAIN tail : i = 1 \/ (i - 1 \in DOMAIN tail' /\ tail'[i - 1] = tail[i])
    BY <1>1, <1>4
  <2>3. Head(tail) = tail[1]
    BY <1>1, <1>4
  <2>4. QED BY <2>1, <2>2, <2>3 DEF CloseWaits
<1>5. QED BY <1>2, <1>3, <1>4

\* A step binds a tab only where the code announces a binding.
BindsTab(t, s) ==
  \/ RecoverNext(s) /\ t = rest[s]
  \/ MintOk(s) /\ t = cur.tab
  \/ ConfineOk /\ s = cur.sid /\ t = cur.tab

NoBinding == ~ConfineOk /\ ~\E s \in Sessions : RecoverNext(s) \/ MintOk(s)

LEMMA BindEffects ==
  ASSUME IInv, NEW s \in Sessions, NEW t, BindsTab(t, s)
  PROVE  /\ t \in Tabs /\ Rebound(t, s)
         /\ UNCHANGED <<conn, tail, pendingClose, pendingRecovery, recoveryHeld>>
         /\ ~isDisposed =>
              \A u \in Tabs :
                view'[u].ui = "bound" => /\ u = t => view'[u].sid = s
                                         /\ u # t => view'[u] = view[u]
<1>0. view \in View
  BY DEF IInv, Shape, TypeOK
<1>1. CASE RecoverNext(s) /\ t = rest[s]
  <2> DEFINE b == TabBound(view, t, s)
  <2>1. t \in Tabs
    BY <1>1 DEF RecoverNext, In, IInv, Shape, TypeOK, Owner
  <2>2. /\ Rebound(t, s)
        /\ UNCHANGED <<conn, tail, pendingClose, pendingRecovery, recoveryHeld>>
    BY <1>1 DEF RecoverNext
  <2>3. ~isDisposed => view' \in {b, TabSessionLost(b, t)}
    BY <1>1 DEF RecoverNext, Post
  <2>4. b \in View
    BY <1>0, <2>1, FoldsKeepType
  <2>5. /\ \A u \in Tabs : u # t => b[u] = view[u]
        /\ b[t].ui = "bound" => b[t].sid = s
    BY <1>0, <2>1, FoldEffects
  <2> HIDE DEF b
  <2>6. /\ \A u \in Tabs : u # t => TabSessionLost(b, t)[u] = b[u]
        /\ TabSessionLost(b, t)[t].ui # "bound"
    BY <2>1, <2>4, FoldEffects
  <2>7. QED BY <2>1, <2>2, <2>3, <2>4, <2>5, <2>6
<1>2. CASE MintOk(s) /\ t = cur.tab
  <2>1. t \in Tabs
    BY <1>2 DEF MintOk, IInv, Shape, Requests, CurNamed
  <2>2. Rebound(t, s) /\ UNCHANGED <<conn, recovery, tail, pendingClose>>
    BY <1>2 DEF MintOk
  <2>3. ~isDisposed => view' = TabBound(view, t, s)
    BY <1>2 DEF MintOk, Post
  <2>4. /\ \A u \in Tabs : u # t => TabBound(view, t, s)[u] = view[u]
        /\ TabBound(view, t, s)[t].ui = "bound" => TabBound(view, t, s)[t].sid = s
    BY <1>0, <2>1, FoldEffects
  <2>5. QED BY <2>1, <2>2, <2>3, <2>4 DEF recovery
<1>3. CASE ConfineOk /\ s = cur.sid /\ t = cur.tab
  <2> DEFINE T == {sessions[s]} \ {t, NoTab}
             w == TabsSessionLost(view, T)
             b == TabBound(w, t, s)
  <2>1. t \in Tabs
    BY <1>3 DEF ConfineOk, IInv, Shape, Requests, CurNamed
  <2>2. Rebound(t, s) /\ UNCHANGED <<conn, recovery, tail, pendingClose>>
    BY <1>3 DEF ConfineOk
  <2>3. ~isDisposed => view' \in {b, TabSessionLost(b, t)}
    BY <1>3 DEF ConfineOk, Post
  <2>4. /\ w \in View
        /\ \A u \in Tabs : w[u].ui = "bound" => w[u] = view[u]
    BY <1>0, FanOutKeepsType, FanOutEffects
  <2> HIDE DEF w
  <2>5. b \in View
    BY <2>1, <2>4, FoldsKeepType
  <2>6. /\ \A u \in Tabs : u # t => b[u] = w[u]
        /\ b[t].ui = "bound" => b[t].sid = s
    BY <2>1, <2>4, FoldEffects
  <2> HIDE DEF b
  <2>7. /\ \A u \in Tabs : u # t => TabSessionLost(b, t)[u] = b[u]
        /\ TabSessionLost(b, t)[t].ui # "bound"
    BY <2>1, <2>5, FoldEffects
  <2>8. QED BY <2>1, <2>2, <2>3, <2>4, <2>5, <2>6, <2>7 DEF recovery
<1>4. QED BY <1>1, <1>2, <1>3 DEF BindsTab

\* Any other step leaves the tabs that it leaves bound as they were, but for
\* the clear of a New Session, which forgets that an earlier one failed.
BoundStays(t) ==
  view'[t].ui = "bound" =>
    /\ view[t].ui = "bound" /\ view'[t].sid = view[t].sid
    /\ view[t].failed => view'[t].failed \/ (BeginNew /\ Head(tail).tab = t)

LEMMA OtherStepsBindNone ==
  ASSUME IInv, [Next]_vars, NoBinding
  PROVE  \A t \in Tabs : BoundStays(t)
<1>0. view \in View
  BY DEF IInv, Shape, TypeOK
<1>1. ASSUME view' = view PROVE \A t \in Tabs : BoundStays(t)
  BY <1>1 DEF BoundStays
<1>2. CASE UNCHANGED vars
  BY <1>1, <1>2 DEF vars, ui
<1>3. CASE UserRequest
  <2>1. ASSUME NEW u \in Tabs, NewTab(u) \/ CloseTab(u) PROVE \A t \in Tabs : BoundStays(t)
    <3>1. view' \in {LocalOpen(view, u), LocalClose(view, u)}
      BY <2>1 DEF NewTab, CloseTab
    <3>2. \A t \in Tabs : view'[t].ui = "bound" => view'[t] = view[t]
      BY <1>0, <3>1, FoldEffects
    <3>3. QED BY <3>2 DEF BoundStays
  <2>2. CASE ~\E u \in Tabs : NewTab(u) \/ CloseTab(u)
    BY <1>1, <1>3, <2>2 DEF UserRequest, UserStart, UserReconnect, RetryOpen,
       NewSession, LoadInto, ui
  <2>3. QED BY <2>1, <2>2
<1>4. CASE OffTail
  BY <1>1, <1>4 DEF OffTail, sendPrompt, LateMint, TurnEnds, Crash, dispose, ui
<1>5. CASE RespawnTimerFires
  BY <1>1, <1>5 DEF RespawnTimerFires, ui
<1>6. CASE Begin
  <2>1. CASE BeginStart
    <3>1. \A t \in Tabs : view'[t].ui = "bound" => view'[t] = view[t]
      BY <1>0, <2>1, FanOutEffects DEF BeginStart, restartView
    <3>2. QED BY <3>1 DEF BoundStays
  <2>2. CASE BeginNew
    <3> DEFINE u == Head(tail).tab
    <3>1. u \in Tabs /\ view' = TabClear(view, u)
      BY <2>2, LeavesTail DEF BeginNew, AtHead, IInv, Named
    <3>2. /\ \A t \in Tabs : t # u => view'[t] = view[t]
          /\ view'[u].ui = view[u].ui /\ view'[u].sid = view[u].sid
      BY <1>0, <3>1, FoldEffects
    <3>3. QED BY <2>2, <3>2 DEF BoundStays
  <2>3. CASE NotConnected
    <3> DEFINE u == Head(tail).tab
    <3>1. u \in Tabs /\ view' \in {view, TabOpenFailed(view, u)}
      BY <2>3, LeavesTail DEF NotConnected, AtHead, IInv, Named, Post
    <3> HIDE DEF u
    <3>2. /\ \A t \in Tabs : t # u => view'[t] = view[t]
          /\ view'[u].ui = view[u].ui /\ view'[u].sid = view[u].sid
          /\ view[u].ui = "bound" /\ view[u].failed => view'[u].failed
      BY <1>0, <3>1, FoldEffects
    <3>3. QED BY <3>2 DEF BoundStays
  <2>4. CASE BeginReconnect \/ BeginOpen \/ BeginLoad \/ closeTabInternal \/ IgnoreHead
    BY <1>1, <2>4 DEF BeginReconnect, BeginOpen, BeginLoad, closeTabInternal, IgnoreHead, ui
  <2>5. QED BY <1>6, <2>1, <2>2, <2>3, <2>4 DEF Begin
<1>7. CASE Continue
  <2>1. ASSUME NEW s \in Sessions, RecoverBudgetSpent(s)
        PROVE  \A t \in Tabs : BoundStays(t)
    <3>1. rest[s] \in Tabs /\ view' \in {view, TabSessionLost(view, rest[s])}
      BY <2>1 DEF RecoverBudgetSpent, In, IInv, Shape, TypeOK, Owner, Post
    <3>2. \A t \in Tabs : view'[t].ui = "bound" => view'[t] = view[t]
      BY <1>0, <3>1, FoldEffects
    <3>3. QED BY <3>2 DEF BoundStays
  <2>2. CASE RecoverFails \/ MintFails \/ MintDeadline \/ PinGivesUp \/ ConfineDenied
             \/ ReplayDeadline
    <3>1. CASE view' = view
      BY <1>1, <3>1
    <3>2. CASE view' # view
      <4> DEFINE u == cur.tab
      <4>1. u \in Tabs
        BY <2>2, TabsAreNotNoTab DEF RecoverFails, MintFails, MintDeadline, PinGivesUp,
           ConfineDenied, ReplayDeadline, IInv, Shape, Requests, CurNamed
      <4>2. view' \in {TabOpenFailed(view, u), TabSessionLost(view, u)}
        BY <2>2, <3>2 DEF RecoverFails, MintFails, MintDeadline, PinGivesUp, GiveUp,
           ConfineDenied, ReplayDeadline, Post
      <4> HIDE DEF u
      <4>3. /\ \A t \in Tabs : t # u => view'[t] = view[t]
            /\ view'[u].ui = "bound" =>
                 /\ view[u].ui = "bound" /\ view'[u].sid = view[u].sid /\ view'[u].failed
        BY <1>0, <4>1, <4>2, FoldEffects
      <4>4. QED BY <4>3 DEF BoundStays
    <3>3. QED BY <3>1, <3>2
  <2>3. CASE ResolveOk \/ ResolveFails \/ ConnectOk \/ ConnectFails \/ RecoverLoaded
             \/ RecoverDone \/ PinOk \/ ReplayEnds
    BY <1>1, <2>3 DEF ResolveOk, ResolveFails, ConnectOk, ConnectFails, StartFails,
       RecoverLoaded, RecoverDone, PinOk, ReplayEnds, ui
  <2>4. QED BY <1>7, <2>1, <2>2, <2>3 DEF Continue, NoBinding
<1>8. QED BY <1>2, <1>3, <1>4, <1>5, <1>6, <1>7 DEF Next

\* What the steps that bind no tab and close none do to the tail, to the
\* tombstones and to the history.
LEMMA TailOfStep ==
  ASSUME IInv, [Next]_vars, NoBinding, ~\E t \in Tabs : CloseTab(t)
  PROVE  /\ closedAway' = closedAway /\ (isDisposed => isDisposed')
         /\ \/ closeTabInternal
            \/ /\ pendingClose' = pendingClose
               /\ \/ tail' = tail
                  \/ \E r : tail' = Append(tail, r) /\ r.op # "close"
                  \/ tail # <<>> /\ tail' = Tail(tail) /\ Head(tail).op # "close"
<1>0. isDisposed => client = "none"
  BY DEF IInv, Live, Connection
<1>1. CASE UNCHANGED vars
  BY <1>1 DEF vars, conn, registry, history, isDisposed
<1>2. CASE UserRequest
  <2>1. /\ UNCHANGED <<conn, pendingClose, closedAway>>
        /\ \E op, t, s, flag : op \in Ops \ {"close"} /\ Enqueue(op, t, s, flag)
    BY <1>2 DEF UserRequest, UserStart, UserReconnect, NewTab, RetryOpen, NewSession,
       LoadInto, Ops, registry, history
  <2>2. \E r : tail' = Append(tail, r) /\ r.op # "close"
    BY <2>1 DEF Enqueue
  <2>3. QED BY <2>1, <2>2 DEF isDisposed, conn
<1>3. CASE OffTail
  BY <1>0, <1>3 DEF OffTail, sendPrompt, LateMint, TurnEnds, Crash, dispose, conn, registry,
     history, isDisposed
<1>4. CASE RespawnTimerFires
  BY <1>4 DEF RespawnTimerFires, Enqueue, registry, history, isDisposed
<1>5. CASE Begin
  BY <1>5 DEF Begin, BeginStart, BeginReconnect, BeginOpen, BeginNew, BeginLoad,
     IgnoreHead, NotConnected, closeTabInternal, AtHead, conn, registry, history, isDisposed
<1>6. CASE Continue
  <2>1. CASE \E s \in Sessions : RecoverBudgetSpent(s)
    BY <2>1 DEF RecoverBudgetSpent, conn, registry, history, isDisposed
  <2>2. CASE ~\E s \in Sessions : RecoverBudgetSpent(s)
    BY <1>0, <1>6, <2>2 DEF Continue, NoBinding, ResolveOk, ResolveFails, ConnectOk, ConnectFails,
       StartFails, RecoverLoaded, RecoverFails, RecoverDone, MintFails, MintDeadline, PinOk,
       PinGivesUp, GiveUp, ConfineDenied, ReplayEnds, ReplayDeadline,
       conn, registry, history, isDisposed
  <2>3. QED BY <2>1, <2>2
<1>7. QED BY <1>1, <1>2, <1>3, <1>4, <1>5, <1>6 DEF Next

\* Every step binds one tab or none.
LEMMA BindingOrNot ==
  ASSUME IInv PROVE NoBinding \/ \E s \in Sessions : \E t : BindsTab(t, s)
<1>1. ConfineOk => cur.sid \in Sessions
  BY DEF ConfineOk, IInv, Shape, TypeOK, Requests, CurNamed
<1>2. CASE ConfineOk
  BY <1>1, <1>2 DEF BindsTab
<1>3. ASSUME NEW s \in Sessions, RecoverNext(s) PROVE BindsTab(rest[s], s)
  BY <1>3 DEF BindsTab
<1>4. ASSUME NEW s \in Sessions, MintOk(s) PROVE BindsTab(cur.tab, s)
  BY <1>4 DEF BindsTab
<1>5. QED BY <1>2, <1>3, <1>4 DEF NoBinding

LEMMA AwayStep == IInv /\ Tombstones /\ Away /\ [Next]_vars => (Tombstones /\ Away)'
<1> SUFFICES ASSUME IInv, Tombstones, Away, [Next]_vars PROVE (Tombstones /\ Away)'
  OBVIOUS
<1>0. Shape /\ view \in View
  BY DEF IInv, Shape, TypeOK
<1>1. ASSUME NEW t \in Tabs, CloseTab(t) PROVE (Tombstones /\ Away)'
  <2> DEFINE s == view[t].sid
  <2>1. \A u \in Tabs : view'[u].ui = "bound" => u # t /\ view'[u] = view[u]
    BY <1>0, <1>1, FoldEffects DEF CloseTab
  <2>2. UNCHANGED conn
    BY <1>1 DEF CloseTab
  <2>3. CASE s = NoSession
    <3>1. UNCHANGED <<pendingClose, tail, history>>
      BY <1>1, <2>3 DEF CloseTab
    <3>2. \A u : CloseWaits(u)' <=> CloseWaits(u)
      BY <1>0, <3>1, ClosesOnTail
    <3>3. Tombstones'
      BY <3>1, <3>2 DEF Tombstones
    <3>4. Away'
      BY <2>1, <2>2, <3>1, <3>2 DEF Away, isDisposed, conn, history
    <3>5. QED BY <3>3, <3>4
  <2>4. CASE s # NoSession
    <3> DEFINE r == [op |-> "close", tab |-> NoTab, sid |-> s, flag |-> FALSE]
    <3>1. /\ pendingClose' = pendingClose \cup {s} /\ tail' = Append(tail, r)
          /\ closedAway' = closedAway \cup {u \in Tabs \ {t} : view[u].sid = s}
      BY <1>1, <2>4 DEF CloseTab, Enqueue
    <3>2. r.op = "close" /\ r.sid = s
      OBVIOUS
    <3> HIDE DEF r, s
    <3>3. \A u : CloseWaits(u)' <=> CloseWaits(u) \/ u = s
      BY <1>0, <3>1, <3>2, ClosesOnTail
    <3>4. Tombstones'
      BY <3>1, <3>3 DEF Tombstones
    <3>5. Away'
      BY <2>1, <2>2, <3>1, <3>3 DEF Away, isDisposed, conn
    <3>6. QED BY <3>4, <3>5
  <2>5. QED BY <2>3, <2>4
<1>2. ASSUME NEW s \in Sessions, NEW t, BindsTab(t, s) PROVE (Tombstones /\ Away)'
  <2>1. /\ Rebound(t, s) /\ UNCHANGED <<conn, tail, pendingClose>>
        /\ ~isDisposed =>
              \A u \in Tabs :
                view'[u].ui = "bound" => /\ u = t => view'[u].sid = s
                                         /\ u # t => view'[u] = view[u]
    BY <1>2, BindEffects
  <2>2. \A u : CloseWaits(u)' <=> CloseWaits(u)
    BY <1>0, <2>1, ClosesOnTail
  <2>3. Tombstones'
    BY <2>1, <2>2 DEF Tombstones
  <2>4. Away'
    BY <2>1, <2>2 DEF Away, Rebound, isDisposed, conn
  <2>5. QED BY <2>3, <2>4
<1>3. CASE NoBinding /\ ~\E t \in Tabs : CloseTab(t)
  <2>1. \A t \in Tabs : view'[t].ui = "bound" => view[t].ui = "bound" /\ view'[t].sid = view[t].sid
    BY <1>3, OtherStepsBindNone DEF BoundStays
  <2>2. closedAway' = closedAway /\ (isDisposed => isDisposed')
    BY <1>3, TailOfStep
  <2>3. CASE closeTabInternal
    <3>1. /\ tail # <<>> /\ tail' = Tail(tail)
          /\ pendingClose' = pendingClose \ {Head(tail).sid}
      BY <2>3 DEF closeTabInternal, AtHead
    <3>2. \A u : /\ CloseWaits(u)' => CloseWaits(u)
                 /\ CloseWaits(u) => CloseWaits(u)' \/ u = Head(tail).sid
      BY <1>0, <3>1, ClosesOnTail
    <3>3. Tombstones'
      BY <3>1, <3>2 DEF Tombstones
    <3>4. Away'
      BY <2>1, <2>2, <3>2 DEF Away
    <3>5. QED BY <3>3, <3>4
  <2>4. CASE ~closeTabInternal
    <3>1. /\ pendingClose' = pendingClose
          /\ \/ tail' = tail
             \/ \E r : tail' = Append(tail, r) /\ r.op # "close"
             \/ tail # <<>> /\ tail' = Tail(tail) /\ Head(tail).op # "close"
      BY <1>3, <2>4, TailOfStep
    <3>2. \A u : CloseWaits(u)' <=> CloseWaits(u)
      BY <1>0, <3>1, ClosesOnTail
    <3>3. Tombstones'
      BY <3>1, <3>2 DEF Tombstones
    <3>4. Away'
      BY <2>1, <2>2, <3>2 DEF Away
    <3>5. QED BY <3>3, <3>4
  <2>5. QED BY <2>3, <2>4
<1>4. QED BY <1>1, <1>2, <1>3, BindingOrNot

\* Where the controllers, the promises and the running request stand.
Owed == Held /\ RestFree /\ CurOwns

LEMMA OwedStays ==
  ASSUME Owed, cur \in Running \cup {Idle},
         recoveryHeld' = recoveryHeld, pendingRecovery' = pendingRecovery,
         pendingClose \subseteq pendingClose',
         \A s \in Sessions : /\ sessions'[s] \in {sessions[s], NoTab}
                             /\ rest'[s] \in {rest[s], NoTab},
         \/ cur' = cur
         \/ cur'.at \notin {"recover", "replay"}
         \/ cur'.sid = NoSession
  PROVE  Owed'
<1>1. Held' /\ RestFree'
  BY DEF Owed, Held, RestFree
<1>2. CurOwns'
  <2>1. CASE cur' = cur
    <3>1. cur.at \in {"recover", "replay"} /\ cur.sid # NoSession => cur.sid \in Sessions
      BY DEF Running, Idle
    <3>2. QED BY <2>1, <3>1 DEF Owed, CurOwns
  <2>2. CASE cur'.at \notin {"recover", "replay"} \/ cur'.sid = NoSession
    BY <2>2 DEF CurOwns
  <2>3. QED BY <2>1, <2>2
<1>3. QED BY <1>1, <1>2 DEF Owed

LEMMA OwedStep == IInv /\ KeptClosed /\ Owed /\ [Next]_vars => Owed'
<1> SUFFICES ASSUME IInv, KeptClosed, Owed, [Next]_vars PROVE Owed'
  OBVIOUS
<1>0. /\ sessions \in Owner /\ rest \in Owner /\ pendingRecovery \in Owner
      /\ pendingClose \subseteq Sessions /\ cur \in Running \cup {Idle}
  BY DEF IInv, Shape, TypeOK
<1>1. ASSUME UNCHANGED <<recovery, sessions>>, pendingClose \subseteq pendingClose',
             \/ cur' = cur
             \/ cur'.at \notin {"recover", "replay"}
             \/ cur'.sid = NoSession
      PROVE  Owed'
  BY <1>0, <1>1, OwedStays DEF recovery
<1>2. CASE UNCHANGED vars
  BY <1>1, <1>2 DEF vars, registry
<1>3. CASE UserRequest
  BY <1>1, <1>3 DEF UserRequest, UserStart, UserReconnect, NewTab, RetryOpen, NewSession,
     LoadInto, CloseTab, registry
<1>4. CASE OffTail
  <2>1. CASE Crash
    <3>1. /\ pendingRecovery' = Without(sessions, pendingClose)
          /\ UNCHANGED <<rest, sessions, pendingClose, cur>>
      BY <2>1 DEF Crash, RecoverySnapshot
    <3>2. Held'
      BY <1>0, <3>1 DEF Held, Without
    <3>3. RestFree' /\ CurOwns'
      BY <3>1 DEF Owed, RestFree, CurOwns
    <3>4. QED BY <3>2, <3>3 DEF Owed
  <2>2. ASSUME NEW t \in Tabs, LateMint(t) PROVE Owed'
    <3>1. PICK s \in Sessions \ issued : sessions' = Close(Open(sessions, s, t), s)
      BY <2>2 DEF LateMint
    <3>2. \A u \in Sessions : sessions'[u] \in {sessions[u], NoTab}
      BY <1>0, <3>1 DEF Open, Close, Owner
    <3>3. UNCHANGED <<recovery, pendingClose, cur>>
      BY <2>2 DEF LateMint
    <3>4. QED BY <1>0, <3>2, <3>3, OwedStays DEF recovery
  <2>3. CASE dispose
    <3>1. sessions' = NoOwner /\ UNCHANGED <<recovery, pendingClose, cur>>
      BY <2>3 DEF dispose
    <3>2. \A u \in Sessions : sessions'[u] \in {sessions[u], NoTab}
      BY <3>1 DEF NoOwner
    <3>3. QED BY <1>0, <3>1, <3>2, OwedStays DEF recovery
  <2>4. CASE ~Crash /\ ~dispose /\ ~\E t \in Tabs : LateMint(t)
    BY <1>1, <1>4, <2>4 DEF OffTail, sendPrompt, TurnEnds
  <2>5. QED BY <2>1, <2>2, <2>3, <2>4
<1>5. CASE RespawnTimerFires
  BY <1>1, <1>5 DEF RespawnTimerFires, registry
<1>6. CASE Begin
  <2>1. CASE BeginStart
    <3>1. sessions' = NoOwner /\ UNCHANGED <<recovery, pendingClose>> /\ cur'.at = "resolve"
      BY <2>1 DEF BeginStart, teardownSession, Run
    <3>2. \A u \in Sessions : sessions'[u] \in {sessions[u], NoTab}
      BY <3>1 DEF NoOwner
    <3>3. QED BY <1>0, <3>1, <3>2, OwedStays DEF recovery
  <2>2. CASE BeginReconnect
    <3>1. sessions' = NoOwner /\ cur'.at = "resolve"
      BY <2>2 DEF BeginReconnect, teardownSession, Run
    <3>2. QED BY <3>1 DEF Owed, Held, RestFree, CurOwns, NoOwner
  <2>3. CASE BeginNew
    <3>1. PICK old : sessions' = Without(sessions, old)
      BY <2>3 DEF BeginNew
    <3>2. \A u \in Sessions : sessions'[u] \in {sessions[u], NoTab}
      BY <3>1 DEF Without
    <3>3. UNCHANGED <<recovery, pendingClose>> /\ cur'.at = "mint"
      BY <2>3 DEF BeginNew, Run
    <3>4. QED BY <1>0, <3>2, <3>3, OwedStays DEF recovery
  <2>4. CASE closeTabInternal
    <3> DEFINE s == Head(tail).sid
    <3>1. /\ sessions' = Close(sessions, s) /\ pendingClose' = pendingClose \ {s}
          /\ UNCHANGED <<recovery, cur>> /\ cur.at = "none"
      BY <1>0, <2>4 DEF closeTabInternal, AtHead, Idle, Running, Ops
    <3> HIDE DEF s
    <3>2. /\ \A u \in Sessions : sessions'[u] \in {sessions[u], NoTab}
          /\ \A u \in Sessions : u = s => sessions'[u] = NoTab
      BY <1>0, <3>1 DEF Close, Owner
    <3>3. Held'
      BY <3>1, <3>2 DEF Owed, Held, recovery
    <3>4. RestFree' /\ CurOwns'
      BY <3>1, <3>2 DEF Owed, RestFree, CurOwns, recovery
    <3>5. QED BY <3>3, <3>4 DEF Owed
  <2>5. CASE BeginOpen \/ BeginLoad
    BY <1>1, <2>5 DEF BeginOpen, BeginLoad, Run, registry
  <2>6. CASE IgnoreHead \/ NotConnected
    BY <1>1, <2>6 DEF IgnoreHead, NotConnected, registry
  <2>7. QED BY <1>6, <2>1, <2>2, <2>3, <2>4, <2>5, <2>6 DEF Begin
<1>7. CASE Continue
  <2>1. CASE ConnectOk
    <3>1. cur \in Running /\ cur.sid = NoSession /\ sessions = NoOwner
      BY <2>1, AwaitingRuns DEF ConnectOk, IInv, Shape, Requests, CurNamed, Ownership
    <3>2. /\ recoveryHeld' = FALSE /\ UNCHANGED <<sessions>>
          /\ cur' \in {[cur EXCEPT !.at = "recover"], [cur EXCEPT !.at = "mint", !.tab = Boot]}
      BY <2>1 DEF ConnectOk, registry
    <3>3. cur'.sid = NoSession
      BY <3>1, <3>2 DEF Running
    <3>4. QED BY <3>1, <3>2, <3>3 DEF Owed, Held, RestFree, CurOwns, NoOwner
  <2>2. ASSUME NEW s \in Sessions, RecoverNext(s) PROVE Owed'
    <3> DEFINE t == rest[s]
    <3>1. /\ cur.at = "recover" /\ cur.sid = NoSession /\ t \in Tabs /\ cur \in Running
          /\ sessions[s] = NoTab
      BY <2>2, AwaitingRuns DEF RecoverNext, In, IInv, Shape, TypeOK, Owner, Owed, RestFree
    <3>2. /\ rest' = Close(rest, s) /\ s \in Sessions
          /\ UNCHANGED <<pendingRecovery, recoveryHeld, pendingClose>>
      BY <2>2 DEF RecoverNext
    <3>3. \A u \in Sessions : /\ rest'[u] \in {rest[u], NoTab}
                              /\ u = s => rest'[u] = NoTab
      BY <1>0, <3>2 DEF Close, Owner
    <3>4. CASE client = "up"
      <4>1. /\ sessions' = Open(sessions, s, t)
            /\ cur' = [cur EXCEPT !.sid = s, !.tab = t, !.tried = @ + 1]
        BY <2>2, <3>4 DEF RecoverNext
      <4>2. cur'.sid = s /\ cur'.tab = t
        BY <3>1, <4>1 DEF Running
      <4>3. sessions'[s] = t /\ \A u \in Sessions : u # s => sessions'[u] = sessions[u]
        BY <1>0, <4>1 DEF Open, Owner
      <4>4. ~recoveryHeld
        BY <3>4 DEF KeptClosed
      <4> HIDE DEF t
      <4>5. QED BY <3>2, <3>3, <4>2, <4>3, <4>4 DEF Owed, Held, RestFree, CurOwns
    <3>5. CASE client # "up"
      <4>1. /\ sessions' = Close(Open(sessions, s, t), s)
            /\ cur' = [cur EXCEPT !.tried = @ + 1]
        BY <2>2, <3>5 DEF RecoverNext
      <4>2. cur'.sid = NoSession
        BY <3>1, <4>1 DEF Running
      <4>3. \A u \in Sessions : sessions'[u] \in {sessions[u], NoTab}
        BY <1>0, <4>1 DEF Open, Close, Owner
      <4>4. QED BY <1>0, <3>2, <3>3, <4>2, <4>3, OwedStays
    <3>6. QED BY <3>4, <3>5
  <2>3. ASSUME NEW s \in Sessions, RecoverBudgetSpent(s) PROVE Owed'
    <3>1. /\ rest' = Close(rest, s)
          /\ UNCHANGED <<pendingRecovery, recoveryHeld, registry, cur>>
      BY <2>3 DEF RecoverBudgetSpent
    <3>2. \A u \in Sessions : rest'[u] \in {rest[u], NoTab}
      BY <1>0, <3>1 DEF Close, Owner
    <3>3. QED BY <1>0, <3>1, <3>2, OwedStays DEF registry
  <2>4. ASSUME NEW s \in Sessions, MintOk(s) PROVE Owed'
    <3>1. /\ ~recoveryHeld /\ UNCHANGED recovery /\ rest = NoOwner
          /\ cur' = [cur EXCEPT !.at = "pin", !.sid = s] /\ cur \in Running
      BY <2>4, AwaitingRuns DEF MintOk, KeptClosed, IInv, Ownership
    <3>2. cur'.at = "pin"
      BY <3>1 DEF Running
    <3>3. QED BY <3>1, <3>2 DEF Owed, Held, RestFree, CurOwns, recovery, NoOwner
  <2>5. CASE ConfineOk
    <3> DEFINE s     == cur.sid
               t     == cur.tab
               moved == Open(Without(sessions, getByTabId(t)), s, t)
    <3>1. /\ UNCHANGED <<recovery, pendingClose>> /\ rest = NoOwner
          /\ s \in Sessions /\ cur \in Running
      BY <1>0, <2>5, AwaitingRuns DEF ConfineOk, IInv, Ownership, Shape, TypeOK, Requests, CurNamed
    <3>2. CASE client = "up"
      <4>1. sessions' = moved /\ cur' = [cur EXCEPT !.at = "replay"]
        BY <2>5, <3>2 DEF ConfineOk
      <4>2. cur'.sid = s /\ cur'.tab = t /\ moved[s] = t
        BY <1>0, <3>1, <4>1 DEF Running, Open, Without
      <4>3. ~recoveryHeld
        BY <3>2 DEF KeptClosed
      <4> HIDE DEF moved, s, t
      <4>4. QED BY <3>1, <4>1, <4>2, <4>3 DEF Owed, Held, RestFree, CurOwns, recovery, NoOwner
    <3>3. CASE client # "up"
      <4>1. sessions' = Close(moved, s) /\ cur' = Idle
        BY <2>5, <3>3 DEF ConfineOk, Finish
      <4>2. \A u \in Sessions : sessions'[u] \in {sessions[u], NoTab}
        BY <1>0, <3>1, <4>1 DEF Open, Close, Without, Owner
      <4>3. QED BY <1>0, <3>1, <4>1, <4>2, OwedStays DEF Idle, recovery
    <3>4. QED BY <3>2, <3>3
  <2>6. CASE RecoverFails \/ ReplayDeadline
    <3>1. /\ sessions' = Close(sessions, cur.sid) /\ UNCHANGED <<recovery, pendingClose>>
          /\ cur' \in {[cur EXCEPT !.sid = NoSession], Idle} /\ cur \in Running
      BY <2>6, AwaitingRuns DEF RecoverFails, ReplayDeadline, Finish, IInv
    <3>2. \A u \in Sessions : sessions'[u] \in {sessions[u], NoTab}
      BY <1>0, <3>1 DEF Close, Owner
    <3>3. cur'.sid = NoSession
      BY <3>1 DEF Running, Idle
    <3>4. QED BY <1>0, <3>1, <3>2, <3>3, OwedStays DEF recovery
  <2>7. CASE ResolveOk \/ RecoverLoaded
    <3>1. cur \in Running /\ cur' \in {[cur EXCEPT !.at = "connect"], [cur EXCEPT !.sid = NoSession]}
      BY <2>7, AwaitingRuns DEF ResolveOk, RecoverLoaded, IInv
    <3>2. cur'.at \notin {"recover", "replay"} \/ cur'.sid = NoSession
      BY <3>1 DEF Running
    <3>3. QED BY <1>1, <2>7, <3>2 DEF ResolveOk, RecoverLoaded, registry
  <2>8. CASE ResolveFails \/ ConnectFails \/ RecoverDone \/ MintFails \/ MintDeadline \/ PinOk
             \/ PinGivesUp \/ ConfineDenied \/ ReplayEnds
    BY <1>1, <2>8 DEF ResolveFails, ConnectFails, StartFails, RecoverDone, MintFails,
       MintDeadline, PinOk, PinGivesUp, GiveUp, ConfineDenied, ReplayEnds, Finish, Idle, registry
  <2>9. QED BY <1>7, <2>1, <2>2, <2>3, <2>4, <2>5, <2>6, <2>7, <2>8 DEF Continue
<1>8. QED BY <1>2, <1>3, <1>4, <1>5, <1>6, <1>7 DEF Next

\* A tab is bound with its controller registered, and the tabs that a binding
\* leaves bound keep whoever answers for them.
LEMMA BindOwners ==
  ASSUME IInv, Owed, ~isDisposed, NEW s \in Sessions, NEW t, BindsTab(t, s)
  PROVE  /\ view'[t].ui = "bound" => sessions'[s] = t
         /\ \A u \in Tabs \ {t}, c \in Sessions :
              view'[u].ui = "bound" /\ Answered(u, c) => Answered(u, c)'
<1>0. /\ view \in View /\ sessions \in Owner /\ rest \in Owner /\ pendingRecovery \in Owner
      /\ t \in Tabs
  BY BindEffects DEF IInv, Shape, TypeOK
<1>1. CASE RecoverNext(s) /\ t = rest[s]
  <2> DEFINE b == TabBound(view, t, s)
  <2>1. /\ rest' = Close(rest, s) /\ cur.op # "new" /\ sessions[s] = NoTab
        /\ UNCHANGED <<pendingRecovery, recoveryHeld>>
    BY <1>0, <1>1, TabsAreNotNoTab DEF RecoverNext, IInv, Shape, Requests, CurNamed, Owed, RestFree
  <2>2. \A c \in Sessions : c # s => rest'[c] = rest[c]
    BY <1>0, <2>1 DEF Close, Owner
  <2>3. sessions' \in {Open(sessions, s, t), Close(Open(sessions, s, t), s)}
    BY <1>1 DEF RecoverNext
  <2>4. \A c \in Sessions : c # s => sessions'[c] = sessions[c]
    BY <1>0, <2>3 DEF Open, Close, Owner
  <2>5. view'[t].ui = "bound" => sessions'[s] = t
    <3>1. CASE client = "up"
      <4>1. sessions' = Open(sessions, s, t)
        BY <1>1, <3>1 DEF RecoverNext
      <4>2. QED BY <1>0, <4>1 DEF Open, Owner
    <3>2. CASE client # "up"
      <4>1. view' = TabSessionLost(b, t)
        BY <1>1, <3>2 DEF RecoverNext, Post
      <4>2. b \in View
        BY <1>0, FoldsKeepType
      <4> HIDE DEF b
      <4>3. QED BY <1>0, <4>1, <4>2, FoldEffects
    <3>3. QED BY <3>1, <3>2
  <2>6. \A u \in Tabs \ {t}, c \in Sessions : Answered(u, c) => Answered(u, c)'
    BY <1>1, <2>1, <2>2, <2>4, TabsAreNotNoTab DEF Answered
  <2>7. QED BY <2>5, <2>6
<1>2. CASE MintOk(s) /\ t = cur.tab
  <2>1. /\ sessions' = Open(sessions, s, t) /\ s \notin issued /\ UNCHANGED recovery
    BY <1>2 DEF MintOk
  <2>2. sessions'[s] = t /\ \A c \in Sessions : c # s => sessions'[c] = sessions[c]
    BY <1>0, <2>1 DEF Open, Owner
  <2>3. sessions[s] = NoTab
    BY <2>1 DEF IInv, Shape, IdsIssued
  <2>4. ASSUME NEW u \in Tabs \ {t}, NEW c \in Sessions, Answered(u, c) PROVE Answered(u, c)'
    BY <1>2, <2>1, <2>2, <2>3, <2>4, TabsAreNotNoTab DEF Answered, recovery
  <2>5. QED BY <2>2, <2>4
<1>3. CASE ConfineOk /\ s = cur.sid /\ t = cur.tab
  <2> DEFINE T     == {sessions[s]} \ {t, NoTab}
             w     == TabsSessionLost(view, T)
             b     == TabBound(w, t, s)
             old   == getByTabId(t)
             moved == Open(Without(sessions, old), s, t)
  <2>1. cur.op # "new" /\ UNCHANGED recovery
    BY <1>3 DEF ConfineOk, IInv, Shape, Requests, CurNamed
  <2>2. sessions' \in {moved, Close(moved, s)}
    BY <1>3 DEF ConfineOk
  <2>3. ~isDisposed => view' \in {b, TabSessionLost(b, t)}
    BY <1>3 DEF ConfineOk, Post
  <2>4. w \in View /\ \A u \in Tabs : u \in T => w[u].ui # "bound"
    BY <1>0, FanOutKeepsType, FanOutEffects
  <2> HIDE DEF w
  <2>5. b \in View
    BY <1>0, <2>4, FoldsKeepType
  <2>6. \A u \in Tabs : u # t => b[u] = w[u]
    BY <1>0, <2>4, FoldEffects
  <2> HIDE DEF b
  <2>7. /\ \A u \in Tabs : u # t => TabSessionLost(b, t)[u] = b[u]
        /\ TabSessionLost(b, t)[t].ui # "bound"
    BY <1>0, <2>5, FoldEffects
  <2>8. \A u \in Tabs : u # t /\ sessions[s] = u => view'[u].ui # "bound"
    BY <2>3, <2>4, <2>6, <2>7, TabsAreNotNoTab
  <2>9. \A c \in Sessions : c # s /\ sessions[c] # t => sessions'[c] = sessions[c]
    BY <1>0, <2>2 DEF Open, Close, Without, Owner, getByTabId
  <2>10. view'[t].ui = "bound" => sessions'[s] = t
    <3>1. CASE client = "up"
      <4>1. sessions' = moved
        BY <1>3, <3>1 DEF ConfineOk
      <4>2. QED BY <1>0, <4>1 DEF Open, Without
    <3>2. CASE client # "up"
      <4>1. view' = TabSessionLost(b, t)
        BY <1>3, <3>2 DEF ConfineOk, Post, w, b
      <4>2. QED BY <2>7, <4>1
    <3>3. QED BY <3>1, <3>2
  <2>11. ASSUME NEW u \in Tabs \ {t}, NEW c \in Sessions, view'[u].ui = "bound", Answered(u, c)
         PROVE  Answered(u, c)'
    BY <1>3, <2>1, <2>8, <2>9, <2>11 DEF Answered, recovery
  <2>12. QED BY <2>10, <2>11
<1>4. QED BY <1>1, <1>2, <1>3 DEF BindsTab

\* A tab that offers prompts names a session.
BoundHasId == ~isDisposed => \A t \in Tabs : view[t].ui = "bound" => view[t].sid \in Sessions

LEMMA LateMintKeeps ==
  ASSUME Shape, NEW t, LateMint(t) PROVE sessions' = sessions
<1>1. PICK s \in Sessions \ issued : sessions' = Close(Open(sessions, s, t), s)
  BY DEF LateMint
<1>2. sessions \in Owner /\ sessions[s] = NoTab
  BY <1>1 DEF Shape, TypeOK, IdsIssued
<1>3. QED BY <1>1, <1>2 DEF Open, Close, Owner

\* Disposed is for good.
LEMMA DisposedStays == IInv /\ [Next]_vars /\ isDisposed => isDisposed'
<1> SUFFICES ASSUME IInv, [Next]_vars, isDisposed PROVE isDisposed'
  OBVIOUS
<1>1. CASE \E t \in Tabs : CloseTab(t)
  BY <1>1 DEF CloseTab, conn, isDisposed
<1>2. ASSUME NEW s \in Sessions, NEW t, BindsTab(t, s) PROVE isDisposed'
  BY <1>2, BindEffects DEF conn, isDisposed
<1>3. CASE NoBinding /\ ~\E t \in Tabs : CloseTab(t)
  BY <1>3, TailOfStep
<1>4. QED BY <1>1, <1>2, <1>3, BindingOrNot

LEMMA BoundHasIdStep == IInv /\ BoundHasId /\ [Next]_vars => BoundHasId'
<1> SUFFICES ASSUME IInv, BoundHasId, [Next]_vars, ~isDisposed PROVE BoundHasId'
  BY DisposedStays DEF BoundHasId
<1>1. CASE NoBinding
  BY <1>1, OtherStepsBindNone DEF BoundStays, BoundHasId
<1>2. ASSUME NEW s \in Sessions, NEW t, BindsTab(t, s) PROVE BoundHasId'
  BY <1>2, BindEffects DEF BoundHasId
<1>3. QED BY <1>1, <1>2, BindingOrNot

LEMMA PinnedStep == IInv /\ Pinned /\ [Next]_vars => Pinned'
<1> SUFFICES ASSUME IInv, Pinned, [Next]_vars, ~isDisposed, ~isDisposed', cur'.at = "pin"
             PROVE  Pinned'
  BY DisposedStays DEF Pinned
<1>1. ASSUME NEW s \in Sessions, MintOk(s) PROVE Pinned'
  <2>1. cur \in Running /\ cur' = [cur EXCEPT !.at = "pin", !.sid = s] /\ cur.tab \in Tabs
    BY <1>1, AwaitingRuns DEF MintOk, IInv, Shape, Requests, CurNamed
  <2>2. cur'.sid = s /\ cur'.tab = cur.tab
    BY <2>1 DEF Running
  <2>3. sessions' = Open(sessions, s, cur.tab) /\ sessions \in Owner
    BY <1>1 DEF MintOk, IInv, Shape, TypeOK
  <2>4. sessions'[s] = cur.tab
    BY <2>1, <2>3 DEF Open, Owner
  <2>5. view'[cur.tab].ui = "bound" => view'[cur.tab].sid = s
    BY <1>1, <2>1, BindEffects DEF BindsTab
  <2>6. QED BY <2>2, <2>4, <2>5 DEF Pinned
<1>2. ASSUME cur' = cur, sessions' = sessions, \A t \in Tabs : BoundStays(t) PROVE Pinned'
  <2>1. cur.tab \in Tabs
    BY <1>2 DEF IInv, Shape, Requests, CurNamed
  <2>2. QED BY <1>2, <2>1 DEF Pinned, BoundStays
<1>3. CASE UNCHANGED vars
  BY <1>3 DEF vars, registry, ui, Pinned
<1>4. CASE UserRequest
  <2>1. cur' = cur /\ sessions' = sessions
    BY <1>4 DEF UserRequest, UserStart, UserReconnect, NewTab, RetryOpen, NewSession,
       LoadInto, CloseTab, registry
  <2>2. \A t \in Tabs : BoundStays(t)
    <3>1. CASE NoBinding
      BY <3>1, OtherStepsBindNone
    <3>2. CASE ~NoBinding
      BY <1>4, <2>1, <3>2, AwaitingRuns DEF NoBinding, ConfineOk, RecoverNext, MintOk, Finish,
         Idle, Running, IInv
    <3>3. QED BY <3>1, <3>2
  <2>3. QED BY <1>2, <2>1, <2>2
<1>5. CASE OffTail
  <2>1. ~dispose
    BY DEF dispose, isDisposed
  <2>2. cur' = cur /\ sessions' = sessions /\ view' = view
    BY <1>5, <2>1, LateMintKeeps DEF OffTail, sendPrompt, LateMint, TurnEnds, Crash, ui, IInv
  <2>3. QED BY <2>2 DEF Pinned
<1>6. CASE RespawnTimerFires
  BY <1>6 DEF RespawnTimerFires, registry, ui, Pinned
<1>7. CASE Begin
  <2>1. cur.at = "none"
    <3>1. cur.op = "none"
      BY <1>7 DEF Begin, BeginStart, BeginReconnect, BeginOpen, BeginNew, BeginLoad, IgnoreHead,
         NotConnected, closeTabInternal, AtHead
    <3>2. QED BY <3>1 DEF IInv, Shape, TypeOK, Running, Idle, Ops
  <2>2. cur' = cur \/ cur'.at \in {"resolve", "mint", "confine"}
    BY <1>7 DEF Begin, BeginStart, BeginReconnect, BeginOpen, BeginNew, BeginLoad, IgnoreHead,
       NotConnected, closeTabInternal, Run
  <2>3. QED BY <2>1, <2>2
<1>8. CASE Continue
  <2>1. CASE ResolveOk \/ ConnectOk \/ RecoverLoaded \/ RecoverFails
    <3>1. /\ cur \in Running /\ cur.at # "pin"
          /\ cur' \in {[cur EXCEPT !.at = "connect"], [cur EXCEPT !.at = "recover"],
                       [cur EXCEPT !.at = "mint", !.tab = Boot], [cur EXCEPT !.sid = NoSession]}
      BY <2>1, AwaitingRuns DEF ResolveOk, ConnectOk, RecoverLoaded, RecoverFails, IInv
    <3>2. QED BY <3>1 DEF Running
  <2>2. ASSUME NEW s \in Sessions, RecoverNext(s) \/ RecoverBudgetSpent(s) PROVE FALSE
    <3>1. cur \in Running /\ cur.at = "recover"
      BY <2>2, AwaitingRuns DEF RecoverNext, RecoverBudgetSpent, IInv
    <3>2. \/ cur' = cur
          \/ cur' = [cur EXCEPT !.sid = s, !.tab = rest[s], !.tried = @ + 1]
          \/ cur' = [cur EXCEPT !.tried = @ + 1]
      BY <2>2 DEF RecoverNext, RecoverBudgetSpent
    <3>3. QED BY <3>1, <3>2 DEF Running
  <2>3. CASE ConfineOk
    <3>1. cur \in Running /\ cur' \in {[cur EXCEPT !.at = "replay"], Idle}
      BY <2>3, AwaitingRuns DEF ConfineOk, Finish, IInv
    <3>2. QED BY <3>1 DEF Running, Idle
  <2>4. CASE ResolveFails \/ ConnectFails \/ RecoverDone \/ MintFails \/ MintDeadline \/ PinOk
             \/ PinGivesUp \/ ConfineDenied \/ ReplayEnds \/ ReplayDeadline
    BY <2>4 DEF ResolveFails, ConnectFails, StartFails, RecoverDone, MintFails, MintDeadline,
       PinOk, PinGivesUp, GiveUp, ConfineDenied, ReplayEnds, ReplayDeadline, Finish, Idle
  <2>5. QED BY <1>1, <1>8, <2>1, <2>2, <2>3, <2>4 DEF Continue
<1>9. QED BY <1>3, <1>4, <1>5, <1>6, <1>7, <1>8 DEF Next

\* The steps that take no controller and no promise away.
LEMMA AnsweredStays ==
  ASSUME NEW t \in Tabs, NEW s \in Sessions, Answered(t, s), sessions' = sessions,
         UNCHANGED recovery, cur' = cur \/ cur.op # "new"
  PROVE  Answered(t, s)'
BY DEF Answered, recovery
DropInv == KeptClosed /\ Tombstones /\ Away /\ Owed /\ BoundHasId /\ Pinned

\* The heart of the argument: while tab t stays bound, no step takes away the
\* last who answers for it without a word to its user.
LEMMA AnswerKept ==
  ASSUME IInv, DropInv, [Next]_vars, NoBinding, ~isDisposed', NEW t \in Tabs,
         NEW s \in Sessions, view[t].ui = "bound", view[t].sid = s,
         view'[t].ui = "bound", Answered(t, s)
  PROVE  Answered(t, s)' \/ view'[t].failed \/ t \in closedAway' \cup cleared'
<1> DEFINE Goal == Answered(t, s)' \/ view'[t].failed \/ t \in closedAway' \cup cleared'
<1> SUFFICES Goal
  OBVIOUS
<1>0. /\ sessions \in Owner /\ rest \in Owner /\ pendingRecovery \in Owner
      /\ view \in View /\ t # NoTab /\ s \in Sessions /\ ~isDisposed
      /\ cur \in Running \cup {Idle}
  BY DisposedStays, TabsAreNotNoTab DEF IInv, Shape, TypeOK
<1>1. ASSUME sessions' = sessions, UNCHANGED recovery, cur' = cur \/ cur.op # "new"
      PROVE  Goal
  BY <1>0, <1>1, AnsweredStays
<1>2. CASE UNCHANGED vars
  BY <1>1, <1>2 DEF vars, registry
<1>3. CASE UserRequest
  BY <1>1, <1>3 DEF UserRequest, UserStart, UserReconnect, NewTab, RetryOpen, NewSession,
     LoadInto, CloseTab, registry
<1>4. CASE OffTail
  <2>1. CASE Crash
    <3>1. UNCHANGED <<sessions, rest, cur>> /\ ~recoveryHeld
      BY <2>1 DEF Crash, DropInv, KeptClosed
    <3>2. Answered(t, s)'
      BY <3>1 DEF Answered
    <3>3. QED BY <1>0, <3>2
  <2>2. CASE dispose
    BY <2>2 DEF dispose, isDisposed
  <2>3. CASE ~Crash /\ ~dispose
    <3>1. sessions' = sessions /\ UNCHANGED recovery /\ cur' = cur
      BY <1>4, <2>3, LateMintKeeps DEF OffTail, sendPrompt, TurnEnds, LateMint, IInv
    <3>2. QED BY <1>1, <3>1
  <2>4. QED BY <2>1, <2>2, <2>3
<1>5. CASE RespawnTimerFires
  BY <1>1, <1>5 DEF RespawnTimerFires, registry
<1>6. CASE Begin
  <2>0. cur.op = "none" /\ rest = NoOwner /\ tail # <<>>
    <3>1. cur.op = "none" /\ tail # <<>>
      BY <1>6 DEF Begin, BeginStart, BeginReconnect, BeginOpen, BeginNew, BeginLoad, IgnoreHead,
         NotConnected, closeTabInternal, AtHead
    <3>2. cur.at # "recover"
      BY <1>0, <3>1 DEF Running, Idle, Ops
    <3>3. QED BY <3>1, <3>2 DEF IInv, Ownership
  \* The tab whose session is being closed is one its user closed elsewhere.
  <2>1. ASSUME s \in pendingClose \/ CloseWaits(s), UNCHANGED closedAway PROVE Goal
    <3>1. CloseWaits(s)
      BY <2>1 DEF DropInv, Tombstones
    <3>2. t \in closedAway
      BY <1>0, <3>1 DEF DropInv, Away
    <3>3. QED BY <2>1, <3>2
  <2>2. CASE BeginStart
    <3>1. UNCHANGED <<recovery, closedAway>>
      BY <2>2 DEF BeginStart
    <3>2. CASE recoveryHeld /\ pendingRecovery[s] = t
      <4>1. Answered(t, s)'
        BY <3>1, <3>2 DEF Answered, recovery
      <4>2. QED BY <1>0, <4>1
    <3>3. CASE sessions[s] = t /\ recoveryHeld
      BY <1>0, <2>1, <3>1, <3>2, <3>3 DEF DropInv, Owed, Held
    <3>4. CASE sessions[s] = t /\ ~recoveryHeld
      <4>1. CASE t = Boot
        <5>1. Occupied(Boot)
          BY <1>0, <3>4, <4>1 DEF Occupied, getByTabId, Registered, In
        <5>2. QED BY <2>2, <3>4, <4>1, <5>1 DEF BeginStart
      <4>2. CASE t # Boot
        <5>1. t \in {sessions[c] : c \in Registered} \ {Boot}
          BY <1>0, <3>4, <4>2 DEF Registered, In
        <5>2. view'[t].ui # "bound"
          BY <1>0, <2>2, <3>4, <5>1, FanOutEffects DEF BeginStart, restartView
        <5>3. QED BY <5>2
      <4>3. QED BY <4>1, <4>2
    <3>5. rest[s] # t
      BY <1>0, <2>0 DEF NoOwner
    <3>6. QED BY <2>0, <3>2, <3>3, <3>4, <3>5 DEF Answered
  <2>3. CASE BeginReconnect
    <3>1. /\ pendingRecovery' = Without(sessions, pendingClose) /\ recoveryHeld' = TRUE
          /\ UNCHANGED closedAway /\ ~recoveryHeld
      BY <2>3 DEF BeginReconnect, RecoverySnapshot, history, DropInv, KeptClosed, IInv, Live, Connection
    <3>2. sessions[s] = t
      BY <1>0, <2>0, <3>1 DEF Answered, NoOwner
    <3>3. CASE s \in pendingClose
      BY <2>1, <3>1, <3>3
    <3>4. CASE s \notin pendingClose
      <4>1. Answered(t, s)'
        BY <1>0, <3>1, <3>2, <3>4 DEF Answered, Without
      <4>2. QED BY <1>0, <4>1
    <3>5. QED BY <3>3, <3>4
  <2>4. CASE BeginNew
    <3>1. /\ sessions' = Without(sessions, getByTabId(Head(tail).tab))
          /\ cur'.op = "new" /\ cur'.tab = Head(tail).tab /\ UNCHANGED recovery
      BY <2>4 DEF BeginNew, Run, AtHead
    <3>2. CASE t = Head(tail).tab
      <4>1. Answered(t, s)'
        BY <3>1, <3>2 DEF Answered
      <4>2. QED BY <1>0, <4>1
    <3>3. CASE t # Head(tail).tab
      <4>1. sessions[s] = t => sessions'[s] = t
        BY <1>0, <3>1, <3>3 DEF Without, getByTabId
      <4>2. Answered(t, s)'
        BY <2>0, <3>1, <4>1 DEF Answered, recovery
      <4>3. QED BY <1>0, <4>2
    <3>4. QED BY <3>2, <3>3
  <2>5. CASE closeTabInternal
    <3>1. /\ sessions' = Close(sessions, Head(tail).sid) /\ UNCHANGED <<recovery, closedAway, cur>>
          /\ Head(tail).op = "close"
      BY <2>5 DEF closeTabInternal, AtHead, history
    <3>2. CASE Head(tail).sid = s
      <4>1. 1 \in DOMAIN tail /\ tail[1] = Head(tail)
        BY <2>0 DEF IInv, Shape, TypeOK
      <4>2. CloseWaits(s)
        BY <3>1, <3>2, <4>1 DEF CloseWaits
      <4>3. QED BY <2>1, <3>1, <4>2
    <3>3. CASE Head(tail).sid # s
      <4>1. sessions'[s] = sessions[s]
        BY <1>0, <3>1, <3>3 DEF Close, Owner
      <4>2. Answered(t, s)'
        BY <3>1, <4>1 DEF Answered, recovery
      <4>3. QED BY <1>0, <4>2
    <3>4. QED BY <3>2, <3>3
  <2>6. CASE BeginOpen \/ BeginLoad \/ IgnoreHead \/ NotConnected
    BY <1>1, <2>0, <2>6 DEF BeginOpen, BeginLoad, IgnoreHead, NotConnected, registry
  <2>7. QED BY <1>6, <2>2, <2>3, <2>4, <2>5, <2>6 DEF Begin
<1>7. CASE Continue
  <2>1. cur.at \in {"resolve", "connect", "recover", "confine", "replay"} => cur.op # "new"
    BY DEF IInv, Shape, Requests, CurNamed
  <2>2. CASE ConnectOk
    <3>1. /\ sessions = NoOwner /\ rest = NoOwner /\ cur.op # "new"
      BY <2>1, <2>2 DEF ConnectOk, IInv, Ownership
    <3>2. recoveryHeld /\ pendingRecovery[s] = t
      BY <1>0, <3>1 DEF Answered, NoOwner
    <3>3. In(pendingRecovery) # {}
      BY <1>0, <3>2 DEF In
    <3>4. rest' = pendingRecovery
      BY <2>2, <3>2, <3>3 DEF ConnectOk
    <3>5. Answered(t, s)'
      BY <3>2, <3>4 DEF Answered
    <3>6. QED BY <1>0, <3>5
  <2>3. ASSUME NEW c \in Sessions, RecoverBudgetSpent(c) PROVE Goal
    <3>1. /\ rest' = Close(rest, c) /\ UNCHANGED <<sessions, pendingRecovery, recoveryHeld, cur>>
          /\ rest[c] \in Tabs /\ view' = TabSessionLost(view, rest[c])
      BY <1>0, <2>3 DEF RecoverBudgetSpent, registry, Post, In, Owner
    <3>2. t # rest[c]
      BY <1>0, <3>1, FoldEffects
    <3>3. rest[s] = t => rest'[s] = t
      BY <1>0, <3>1, <3>2 DEF Close, Owner
    <3>4. Answered(t, s)'
      BY <3>1, <3>3 DEF Answered
    <3>5. QED BY <1>0, <3>4
  <2>4. CASE RecoverFails \/ ReplayDeadline
    <3>1. /\ sessions' = Close(sessions, cur.sid) /\ UNCHANGED recovery
          /\ view' = TabSessionLost(view, cur.tab)
          /\ cur.op # "new" /\ cur.at \in {"recover", "replay"} /\ cur.tab \in Tabs
          /\ cur.sid # NoSession
      BY <1>0, <2>1, <2>4, TabViewAssumption
         DEF RecoverFails, ReplayDeadline, Post, IInv, Shape, TypeOK, Requests, CurNamed
    <3>2. t # cur.tab
      BY <1>0, <3>1, FoldEffects
    <3>3. sessions[s] = t => s # cur.sid
      BY <1>0, <3>1, <3>2 DEF DropInv, Owed, CurOwns
    <3>4. sessions[s] = t => sessions'[s] = t
      BY <1>0, <3>1, <3>3 DEF Close, Owner
    <3>5. Answered(t, s)'
      BY <3>1, <3>4 DEF Answered, recovery
    <3>6. QED BY <1>0, <3>5
  <2>5. CASE MintFails \/ MintDeadline \/ PinGivesUp
    <3>1. GiveUp /\ cur.tab \in Tabs
      BY <2>5 DEF MintFails, MintDeadline, PinGivesUp, IInv, Shape, Requests, CurNamed
    <3>2. CASE cur.op = "new" /\ cur.tab = t
      <4>1. view' = TabOpenFailed(view, t)
        BY <1>0, <3>1, <3>2 DEF GiveUp, Post
      <4>2. QED BY <1>0, <4>1, FoldEffects
    <3>3. CASE ~(cur.op = "new" /\ cur.tab = t)
      <4>1. Answered(t, s)'
        BY <3>1, <3>3 DEF GiveUp, Answered, recovery, registry
      <4>2. QED BY <1>0, <4>1
    <3>4. QED BY <3>2, <3>3
  <2>6. CASE PinOk
    <3>1. UNCHANGED <<recovery, sessions>> /\ cur.at = "pin"
      BY <2>6 DEF PinOk, registry
    <3>2. CASE cur.tab = t
      <4>1. sessions[s] = t
        BY <1>0, <3>1, <3>2 DEF DropInv, Pinned
      <4>2. Answered(t, s)'
        BY <3>1, <4>1 DEF Answered
      <4>3. QED BY <1>0, <4>2
    <3>3. CASE cur.tab # t
      <4>1. Answered(t, s)'
        BY <3>1, <3>3 DEF Answered, recovery
      <4>2. QED BY <1>0, <4>1
    <3>4. QED BY <3>2, <3>3
  <2>7. CASE ResolveOk \/ ResolveFails \/ ConnectFails \/ RecoverLoaded \/ RecoverDone
             \/ ConfineDenied \/ ReplayEnds
    <3>1. cur.op # "new" /\ sessions' = sessions /\ UNCHANGED recovery
      BY <2>1, <2>7 DEF ResolveOk, ResolveFails, ConnectFails, StartFails, RecoverLoaded,
         RecoverDone, ConfineDenied, ReplayEnds, registry
    <3>2. QED BY <1>1, <3>1
  <2>8. QED BY <1>7, <2>2, <2>3, <2>4, <2>5, <2>6, <2>7 DEF Continue, NoBinding
<1>8. QED BY <1>2, <1>3, <1>4, <1>5, <1>6, <1>7 DEF Next

\* What a tab's history holds stays until the tab is bound anew.
LEMMA HistoryStays ==
  ASSUME IInv, [Next]_vars, NoBinding
  PROVE  closedAway \subseteq closedAway' /\ cleared \subseteq cleared'
<1>1. CASE \E t \in Tabs : CloseTab(t)
  BY <1>1 DEF CloseTab, history
<1>2. CASE ~\E t \in Tabs : CloseTab(t)
  <2>1. closedAway' = closedAway
    BY <1>2, TailOfStep
  <2>2. cleared \subseteq cleared'
    <3>1. CASE UNCHANGED vars
      BY <3>1 DEF vars, history
    <3>2. CASE UserRequest
      BY <1>2, <3>2 DEF UserRequest, UserStart, UserReconnect, NewTab, RetryOpen, NewSession,
         LoadInto, history
    <3>3. CASE OffTail
      BY <3>3 DEF OffTail, sendPrompt, LateMint, TurnEnds, Crash, dispose, history
    <3>4. CASE RespawnTimerFires
      BY <3>4 DEF RespawnTimerFires, history
    <3>5. CASE Begin
      BY <3>5 DEF Begin, BeginStart, BeginReconnect, BeginOpen, BeginNew, BeginLoad, IgnoreHead,
         NotConnected, closeTabInternal, history
    <3>6. CASE Continue
      BY <3>6 DEF Continue, NoBinding, ResolveOk, ResolveFails, ConnectOk, ConnectFails,
         StartFails, RecoverBudgetSpent, RecoverLoaded, RecoverFails, RecoverDone, MintFails,
         MintDeadline, PinOk, PinGivesUp, GiveUp, ConfineDenied, ReplayEnds, ReplayDeadline, history
    <3>7. QED BY <3>1, <3>2, <3>3, <3>4, <3>5, <3>6 DEF Next
  <2>3. QED BY <2>1, <2>2
<1>3. QED BY <1>1, <1>2

LEMMA NoSilentDropStep == IInv /\ DropInv /\ NoSilentDrop /\ [Next]_vars => NoSilentDrop'
<1> SUFFICES ASSUME IInv, DropInv, NoSilentDrop, [Next]_vars, ~isDisposed, ~isDisposed'
             PROVE  NoSilentDrop'
  BY DisposedStays DEF NoSilentDrop
<1>1. ASSUME NEW t \in Tabs, view'[t].ui = "bound", NEW s, view'[t].sid = s
      PROVE  Answered(t, s)' \/ view'[t].failed \/ t \in closedAway' \cup cleared'
  <2>1. CASE NoBinding
    <3>1. /\ view[t].ui = "bound" /\ view[t].sid = s
          /\ view[t].failed => view'[t].failed \/ (BeginNew /\ Head(tail).tab = t)
      BY <1>1, <2>1, OtherStepsBindNone DEF BoundStays
    <3>2. s \in Sessions
      BY <3>1 DEF DropInv, BoundHasId
    <3>3. Answered(t, s) \/ view[t].failed \/ t \in closedAway \cup cleared
      BY <3>1 DEF NoSilentDrop
    <3>4. CASE Answered(t, s)
      BY <1>1, <2>1, <3>1, <3>2, <3>4, AnswerKept
    <3>5. CASE view[t].failed
      <4>1. CASE BeginNew /\ Head(tail).tab = t
        BY <4>1 DEF BeginNew, Run, AtHead, Answered
      <4>2. QED BY <3>1, <3>5, <4>1
    <3>6. CASE t \in closedAway \cup cleared
      BY <2>1, <3>6, HistoryStays
    <3>7. QED BY <3>3, <3>4, <3>5, <3>6
  <2>2. ASSUME NEW c \in Sessions, NEW b, BindsTab(b, c)
        PROVE  Answered(t, s)' \/ view'[t].failed \/ t \in closedAway' \cup cleared'
    <3>1. /\ Rebound(b, c)
          /\ t = b => s = c
          /\ t # b => view'[t] = view[t]
      BY <1>1, <2>2, BindEffects
    <3>2. /\ view'[b].ui = "bound" => sessions'[c] = b
          /\ \A d \in Sessions : t # b /\ Answered(t, d) => Answered(t, d)'
      BY <1>1, <2>2, BindOwners DEF DropInv
    <3>3. CASE t = b
      BY <1>1, <3>1, <3>2, <3>3 DEF Answered
    <3>4. CASE t # b
      <4>1. view[t].ui = "bound" /\ view[t].sid = s /\ view'[t].failed = view[t].failed
        BY <1>1, <3>1, <3>4
      <4>2. s \in Sessions
        BY <4>1 DEF DropInv, BoundHasId
      <4>3. Answered(t, s) \/ view[t].failed \/ t \in closedAway \cup cleared
        BY <4>1 DEF NoSilentDrop
      <4>4. t \in closedAway \cup cleared => t \in closedAway' \cup cleared'
        BY <3>1, <3>4 DEF Rebound
      <4>5. QED BY <3>2, <3>4, <4>1, <4>2, <4>3, <4>4
    <3>5. QED BY <3>3, <3>4
  <2>3. QED BY <2>1, <2>2, BindingOrNot
<1>2. QED BY <1>1 DEF NoSilentDrop

LEMMA DropInvariance == Spec => [](IInv /\ ViewNames /\ DropInv /\ NoSilentDrop)
<1>1. Init => DropInv /\ NoSilentDrop
  <2> SUFFICES ASSUME Init PROVE DropInv /\ NoSilentDrop
    OBVIOUS
  <2>1. \A t \in Tabs : view[t].ui # "bound"
    BY DEF Init, InitialView
  <2>2. KeptClosed /\ Tombstones
    BY DEF Init, KeptClosed, Tombstones
  <2>3. Owed /\ Pinned
    BY DEF Init, Owed, Held, RestFree, CurOwns, Pinned, NoOwner, Idle
  <2>4. QED BY <2>1, <2>2, <2>3 DEF DropInv, Away, BoundHasId, NoSilentDrop
<1>2. IInv /\ ViewNames /\ DropInv /\ NoSilentDrop /\ [Next]_vars => (DropInv /\ NoSilentDrop)'
  BY KeptClosedStep, AwayStep, OwedStep, BoundHasIdStep, PinnedStep, NoSilentDropStep DEF DropInv
<1>3. QED BY <1>1, <1>2, ClosedInvariance, PTL DEF Spec

\* No tab is dropped in silence: a tab that offers its session for prompts is
\* answered for by a controller, a promised recovery or a New Session under way,
\* or its user was told, or closed that session through another tab.
THEOREM NobodyIsDroppedSilently == Spec => []NoSilentDrop
BY DropInvariance, PTL
=============================================================================
