--------------------------- MODULE DashboardManager ---------------------------
(***************************************************************************)
(* host/dashboard/HermesDashboardManager.ts: the dashboard server that the *)
(* panels share.  ensure() adopts or spawns it and memoizes the attempt, a *)
(* resolved memo is probed again before it is handed out, and dispose()    *)
(* kills what was spawned.                                                 *)
(*                                                                         *)
(* An attempt of bringUp() is a number that is free; the child it spawns   *)
(* has the same number.                                                    *)
(***************************************************************************)
EXTENDS Naturals, FiniteSets

CONSTANTS MaxAttempts,  \* bound: attempts that run or whose child is not gone
          Panels        \* the callers of ensure()

ASSUME DashboardAssumption == MaxAttempts \in Nat \ {0}

VARIABLES shape,      \* the option adopt is 'shape'
          dashChild,  \* HermesDashboardManager.child, or 0
          ready,      \* the attempt that is memoized, or 0
          readyResolved,
          bringUp,    \* per attempt: where bringUp is
          server,     \* per attempt: the process it spawned
          probing,    \* per caller: the memo it probes, or 0
          dashGone    \* disposed

dashVars == <<shape, dashChild, ready, readyResolved, bringUp, server, probing, dashGone>>

Attempts == 1 .. MaxAttempts

DashboardTypeOK ==
  /\ shape \in BOOLEAN /\ readyResolved \in BOOLEAN /\ dashGone \in BOOLEAN
  /\ dashChild \in 0 .. MaxAttempts /\ ready \in 0 .. MaxAttempts
  /\ bringUp \in [Attempts -> {"none", "adopt", "spawn", "health", "token"}]
  /\ server \in [Attempts -> {"none", "alive", "killed", "dead"}]
  /\ probing \in [Panels -> 0 .. MaxAttempts]

DashboardInit ==
  /\ shape \in BOOLEAN
  /\ dashChild = 0 /\ ready = 0 /\ readyResolved = FALSE /\ dashGone = FALSE
  /\ bringUp = [a \in Attempts |-> "none"]
  /\ server = [a \in Attempts |-> "none"]
  /\ probing = [p \in Panels |-> 0]

\* kill() of a child: one that is dead already stays dead.
Killed(a, in) == [b \in Attempts |-> IF b = a /\ in[b] = "alive" THEN "killed" ELSE in[b]]

UnusedAttempts ==
  {a \in Attempts : /\ bringUp[a] = "none" /\ server[a] \in {"none", "dead"}
                    /\ a \notin {ready, dashChild} /\ \A p \in Panels : probing[p] # a}

\* ensure() of a caller that is not disposed, from the given memo and child.
EnsureFrom(p, memo, resolved, ch) ==
  LET dead == ch # 0 /\ server[ch] = "dead"
      kept == IF dead THEN 0 ELSE memo
  IN /\ dashChild' = IF dead THEN 0 ELSE ch
     /\ \/ /\ kept = 0
           /\ \E a \in UnusedAttempts :
                /\ ready' = a
                /\ bringUp' = [bringUp EXCEPT ![a] = IF shape THEN "adopt" ELSE "spawn"]
           /\ readyResolved' = FALSE
           /\ probing' = [probing EXCEPT ![p] = 0]
        \/ /\ kept # 0
           /\ ready' = kept /\ readyResolved' = resolved
           /\ probing' = [probing EXCEPT ![p] = IF resolved THEN kept ELSE 0]
           /\ UNCHANGED bringUp

Ensure(p) ==
  /\ ~ dashGone /\ probing[p] = 0
  /\ EnsureFrom(p, ready, readyResolved, dashChild)
  /\ UNCHANGED <<shape, server, dashGone>>

\* The memo answers: the caller gets its client.
ProbeOk(p) ==
  /\ probing[p] # 0
  /\ probing' = [probing EXCEPT ![p] = 0]
  /\ UNCHANGED <<shape, dashChild, ready, readyResolved, bringUp, server, dashGone>>

\* Mutant: a failed probe throws away whatever memo and child are there now.
ProbeFailsUnguarded(p) ==
  /\ probing[p] # 0 /\ ~ dashGone
  /\ server' = Killed(dashChild, server)
  /\ EnsureFrom(p, 0, FALSE, 0)
  /\ UNCHANGED <<shape, dashGone>>

\* It does not: the memo and its child go, unless another caller was faster,
\* and the caller starts over.
ProbeFails(p) ==
  /\ probing[p] # 0
  /\ IF dashGone
     THEN /\ probing' = [probing EXCEPT ![p] = 0]
          /\ UNCHANGED <<dashChild, ready, readyResolved, bringUp, server>>
     ELSE IF ready = probing[p]
     THEN server' = Killed(dashChild, server) /\ EnsureFrom(p, 0, FALSE, 0)
     ELSE UNCHANGED server /\ EnsureFrom(p, ready, readyResolved, dashChild)
  /\ UNCHANGED <<shape, dashGone>>

Succeeds(a) ==
  /\ bringUp' = [bringUp EXCEPT ![a] = "none"]
  /\ readyResolved' = (readyResolved \/ ready = a)
  /\ UNCHANGED ready

Rejects(a) ==
  /\ bringUp' = [bringUp EXCEPT ![a] = "none"]
  /\ ready' = IF ready = a THEN 0 ELSE ready
  /\ readyResolved' = (readyResolved /\ ready # a)

\* probeAdopt, only in 'shape' mode.
AdoptFinds(a) ==
  /\ bringUp[a] = "adopt"
  /\ Succeeds(a)
  /\ UNCHANGED <<shape, dashChild, server, probing, dashGone>>

AdoptFindsNone(a) ==
  /\ bringUp[a] = "adopt"
  /\ bringUp' = [bringUp EXCEPT ![a] = "spawn"]
  /\ UNCHANGED <<shape, dashChild, ready, readyResolved, server, probing, dashGone>>

\* deps.spawn resolves; dispose() did not see this child.
Spawned(a) ==
  /\ bringUp[a] = "spawn"
  /\ IF dashGone
     THEN /\ server' = [server EXCEPT ![a] = "killed"]
          /\ dashChild' = 0
          /\ Rejects(a)
     ELSE /\ server' = [server EXCEPT ![a] = "alive"]
          /\ dashChild' = a
          /\ bringUp' = [bringUp EXCEPT ![a] = "health"]
          /\ UNCHANGED <<ready, readyResolved>>
  /\ UNCHANGED <<shape, probing, dashGone>>

\* resolveHermes or the spawn itself throws.
SpawnThrows(a) ==
  /\ bringUp[a] = "spawn"
  /\ Rejects(a)
  /\ UNCHANGED <<shape, dashChild, server, probing, dashGone>>

\* waitHealthy: something answers on the port.
Healthy(a) ==
  /\ bringUp[a] = "health"
  /\ bringUp' = [bringUp EXCEPT ![a] = "token"]
  /\ UNCHANGED <<shape, dashChild, ready, readyResolved, server, probing, dashGone>>

\* The served token is ours, or the child is still alive.
Verified(a) ==
  /\ bringUp[a] = "token" /\ ~ dashGone
  /\ Succeeds(a)
  /\ UNCHANGED <<shape, dashChild, server, probing, dashGone>>

\* Mutant: a failing attempt clears the child whoever it belongs to.
AttemptFailsUnguarded(a) ==
  /\ bringUp[a] \in {"health", "token"}
  /\ server' = Killed(a, server)
  /\ dashChild' = 0
  /\ Rejects(a)
  /\ UNCHANGED <<shape, probing, dashGone>>

\* The probes run out, a foreign server answers, or dispose() came first.
AttemptFails(a) ==
  /\ bringUp[a] \in {"health", "token"}
  /\ server' = Killed(a, server)
  /\ dashChild' = IF dashChild = a THEN 0 ELSE dashChild
  /\ Rejects(a)
  /\ UNCHANGED <<shape, probing, dashGone>>

\* 'exit' or 'error' of the child.
ServerDies(a) ==
  /\ server[a] \in {"alive", "killed"}
  /\ server' = [server EXCEPT ![a] = "dead"]
  /\ UNCHANGED <<shape, dashChild, ready, readyResolved, bringUp, probing, dashGone>>

DashboardDispose ==
  /\ ~ dashGone
  /\ dashGone' = TRUE /\ ready' = 0 /\ readyResolved' = FALSE /\ dashChild' = 0
  /\ server' = Killed(dashChild, server)
  /\ UNCHANGED <<shape, bringUp, probing>>

DashboardNext ==
  \/ DashboardDispose
  \/ \E p \in Panels : Ensure(p) \/ ProbeOk(p) \/ ProbeFails(p)
  \/ \E a \in Attempts :
       \/ AdoptFinds(a) \/ AdoptFindsNone(a) \/ Spawned(a) \/ SpawnThrows(a)
       \/ Healthy(a) \/ Verified(a) \/ AttemptFails(a) \/ ServerDies(a)

-----------------------------------------------------------------------------
\* A spawned server that nobody killed is the child dispose() would kill, so
\* there is at most one and none outlives the manager; and a memo that callers
\* get without waiting belongs to that child or to no child at all: while
\* attempts overtake each other because a child died under one of them, probes
\* fail late, and dispose() comes during a spawn
\* (HermesDashboardManager.ts:174-233, 271-283, 336-347).
OneDashboardChild ==
  /\ \A a \in Attempts : server[a] = "alive" => a = dashChild /\ ~ dashGone
  /\ readyResolved => ready # 0 /\ dashChild \in {0, ready}
=============================================================================
