---------------------------- MODULE ControlChannel ----------------------------
(***************************************************************************)
(* The control channel, host/control/ControlChannel.ts over                *)
(* host/transport/JsonRpcStdio.ts: one gateway child at a time, spawned on *)
(* start(), awaited until gateway.ready, respawned after a crash, and the  *)
(* requests that are in flight on it.                                      *)
(*                                                                         *)
(* A transport is a number that is free.  respawnAttempts, the length of a *)
(* backoff and the health it reports are left out.                         *)
(***************************************************************************)
EXTENDS Naturals, FiniteSets

CONSTANTS MaxChildren,  \* bound: children that have not exited yet
          Calls         \* control requests that may be in flight

ASSUME ChannelAssumption == MaxChildren \in Nat \ {0}

VARIABLES chState,    \* ControlChannel.state
          transport,  \* the published transport, 0 when there is none
          child,      \* per transport: no child, alive, or killed and not yet gone
          spawn,      \* pendingReady: who wants it, how far, on which transport
          retry,      \* respawnTimer is armed
          inFlight    \* JsonRpcStdio.pending: per call its transport, or 0

channelVars == <<chState, transport, child, spawn, retry, inFlight>>

Transports == 1 .. MaxChildren
NoSpawn == [by |-> "none", phase |-> "none", on |-> 0]

ChannelTypeOK ==
  /\ chState \in {"idle", "starting", "ready", "respawning", "disposed"}
  /\ transport \in 0 .. MaxChildren
  /\ child \in [Transports -> {"none", "alive", "killed"}]
  /\ spawn \in [by : {"none", "start", "respawn"},
                phase : {"none", "resolving", "awaiting"}, on : 0 .. MaxChildren]
  /\ retry \in BOOLEAN
  /\ inFlight \in [Calls -> 0 .. MaxChildren]

ChannelInit ==
  /\ chState = "idle" /\ transport = 0
  /\ child = [t \in Transports |-> "none"]
  /\ spawn = NoSpawn /\ retry = FALSE
  /\ inFlight = [c \in Calls |-> 0]

\* rejectAll of a transport.
Rejected(t) == [c \in Calls |-> IF inFlight[c] = t THEN 0 ELSE inFlight[c]]

\* Mutant: start() does not join the spawn that is under way.
StartTwice ==
  /\ retry' = FALSE
  /\ IF chState \in {"disposed", "ready"}
     THEN UNCHANGED <<chState, spawn>>
     ELSE /\ chState' = "starting"
          /\ spawn' = [by |-> "start", phase |-> "resolving", on |-> 0]
  /\ UNCHANGED <<transport, child, inFlight>>

\* start(): the retry is cleared first; an own spawn only when none is wanted.
Start ==
  /\ retry' = FALSE
  /\ IF chState \in {"disposed", "ready"} \/ spawn # NoSpawn
     THEN UNCHANGED <<chState, spawn>>
     ELSE /\ chState' = "starting"
          /\ spawn' = [by |-> "start", phase |-> "resolving", on |-> 0]
  /\ UNCHANGED <<transport, child, inFlight>>

\* The backoff is over: attemptRespawn.
AttemptRespawn ==
  /\ retry
  /\ retry' = FALSE
  /\ IF chState \in {"disposed", "ready"} \/ spawn # NoSpawn
     THEN UNCHANGED <<chState, spawn>>
     ELSE /\ chState' = "respawning"
          /\ spawn' = [by |-> "respawn", phase |-> "resolving", on |-> 0]
  /\ UNCHANGED <<transport, child, inFlight>>

\* The catch of start() and of attemptRespawn.
SpawnFailed ==
  /\ spawn' = NoSpawn
  /\ \/ chState = "disposed" /\ UNCHANGED <<chState, retry>>
     \/ /\ chState # "disposed" /\ spawn.by = "start"
        /\ chState' = "idle" /\ UNCHANGED retry
     \/ /\ chState # "disposed" /\ spawn.by = "respawn"
        /\ retry' = TRUE /\ UNCHANGED chState

\* resolveHermes answers: spawn the child, unless disposed in between.
Resolved ==
  /\ spawn.phase = "resolving" /\ chState # "disposed"
  /\ \E t \in Transports :
       /\ child[t] = "none"
       /\ child' = [child EXCEPT ![t] = "alive"]
       /\ spawn' = [spawn EXCEPT !.phase = "awaiting", !.on = t]
  /\ UNCHANGED <<chState, transport, retry, inFlight>>

\* resolveHermes rejects, or the channel was disposed in between.
ResolveFails ==
  /\ spawn.phase = "resolving"
  /\ SpawnFailed
  /\ UNCHANGED <<transport, child, inFlight>>

\* gateway.ready: publish the transport, unless disposed in between.
GatewayReady ==
  /\ spawn.phase = "awaiting" /\ child[spawn.on] = "alive" /\ chState # "disposed"
  /\ transport' = spawn.on
  /\ child' = [t \in Transports |-> IF t = transport THEN "killed" ELSE child[t]]
  /\ chState' = "ready" /\ spawn' = NoSpawn
  /\ inFlight' = Rejected(transport)
  /\ UNCHANGED retry

\* The ready timeout, or a gateway.ready that finds the channel disposed.
AwaitFails ==
  /\ spawn.phase = "awaiting"
  /\ child' = [child EXCEPT ![spawn.on] = IF @ = "alive" THEN "killed" ELSE @]
  /\ SpawnFailed
  /\ UNCHANGED <<transport, inFlight>>

\* handleCrash: the exit of the published transport.
HandleCrash ==
  /\ transport' = 0
  /\ IF chState = "disposed"
     THEN UNCHANGED <<chState, retry>>
     ELSE chState' = "respawning" /\ retry' = TRUE

\* terminate(): the child exits or errors; the listeners that are left hear it.
ChildExits(t) ==
  /\ child[t] # "none"
  /\ child' = [child EXCEPT ![t] = "none"]
  /\ inFlight' = Rejected(t)
  /\ IF t = transport THEN HandleCrash /\ UNCHANGED spawn
     ELSE IF t = spawn.on THEN SpawnFailed /\ UNCHANGED transport
     ELSE UNCHANGED <<chState, transport, spawn, retry>>

\* A line over the byte cap: the transport disposes itself, its child is killed.
OversizedLine(t) ==
  /\ child[t] = "alive"
  /\ child' = [child EXCEPT ![t] = "killed"]
  /\ inFlight' = Rejected(t)
  /\ UNCHANGED <<chState, transport, spawn, retry>>

\* dispatch(): refused without a transport that can answer.
Dispatch(c) ==
  /\ chState # "disposed" /\ inFlight[c] = 0
  /\ transport # 0 /\ child[transport] = "alive"
  /\ inFlight' = [inFlight EXCEPT ![c] = transport]
  /\ UNCHANGED <<chState, transport, child, spawn, retry>>

\* A response frame or the request's own timeout, whichever comes first; the
\* id is gone with it, so that a late response settles nothing.
CallSettles(c) ==
  /\ inFlight[c] # 0
  /\ inFlight' = [inFlight EXCEPT ![c] = 0]
  /\ UNCHANGED <<chState, transport, child, spawn, retry>>

\* dispose(): a spawn under way is left to find the channel disposed.
ChannelDispose ==
  /\ chState # "disposed"
  /\ chState' = "disposed" /\ retry' = FALSE
  /\ transport' = 0
  /\ child' = [t \in Transports |-> IF t = transport THEN "killed" ELSE child[t]]
  /\ inFlight' = Rejected(transport)
  /\ UNCHANGED spawn

ChannelNext ==
  \/ Start \/ AttemptRespawn \/ Resolved \/ ResolveFails \/ GatewayReady
  \/ AwaitFails \/ ChannelDispose
  \/ \E t \in Transports : ChildExits(t) \/ OversizedLine(t)
  \/ \E c \in Calls : Dispatch(c) \/ CallSettles(c)

-----------------------------------------------------------------------------
Alive == {t \in Transports : child[t] = "alive"}

\* There is at most one gateway child that nobody killed, it is the published
\* one or the one a spawn awaits, an outage always has a spawn or a retry, and
\* no request waits on a child that cannot answer any more: through start()
\* racing the respawn, a crash or dispose() in the middle of a handshake, and a
\* transport that tears itself down (ControlChannel.ts:99-136, 222-280, 404-427,
\* JsonRpcStdio.ts:213-252, 379-399).
OneControlChild ==
  /\ Cardinality(Alive) <= 1 /\ Alive \subseteq {transport, spawn.on}
  /\ chState = "respawning" => retry \/ spawn # NoSpawn
  /\ \A c \in Calls : inFlight[c] # 0 => inFlight[c] \in Alive
=============================================================================
