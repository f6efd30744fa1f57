---------------------------- MODULE Services_proofs ----------------------------
(***************************************************************************)
(* Theorems about the components of MCServices, for every instance.  Each  *)
(* component has an inductive invariant of its own: a step of the          *)
(* composition is a step of the component or leaves its variables alone.   *)
(***************************************************************************)
EXTENDS MCServices, TLAPS, FiniteSetTheorems

-------------------------------------------------------------------------------
\* The lock of a shadow repository.  As long as no lockfile has aged, no window
\* gets past the stat of a foreign file (NobodySteals), so the file of a window
\* that created it stays at lockPath until that window removes it (FileIsOwned),
\* and the tokens of the windows differ (OwnToken).

\* A token names its window, and whoever is in a call has one.
OwnToken ==
  \A p \in Procs :
    /\ token[p] # NoFile => token[p] \in {p} \X (1 .. Spare)
    /\ lockPc[p] \notin {"idle", "down"} => token[p] # NoFile

\* Nobody is past the stat of a stale file.
NobodySteals ==
  ~ everStale =>
    /\ aged = {}
    /\ \A p \in Procs : lockPc[p] \notin {"steal", "restat", "relink"}

\* From its exclusive create to its unlink, the file of a window is at lockPath.
FileIsOwned ==
  ~ everStale =>
    \A p \in Procs : lockPc[p] \in {"write", "held", "unlink"} => lockFile = token[p]

LockInv == LockTypeOK /\ OwnToken /\ NobodySteals /\ FileIsOwned

\* Inodes are files, and those of two windows differ.
LEMMA InodesAreFiles == /\ NoFile \notin Inodes
                        /\ \A p \in Procs : {p} \X (1 .. Spare) \subseteq Inodes
BY LockAssumption DEF Inodes

LEMMA InodesAreOwned ==
  ASSUME NEW p \in Procs, NEW q \in Procs,
         NEW t \in {p} \X (1 .. Spare), t \in {q} \X (1 .. Spare)
  PROVE  p = q
OBVIOUS

LEMMA LockStart == LockInit => LockInv
<1> SUFFICES ASSUME LockInit PROVE LockInv
  OBVIOUS
<1>1. LockTypeOK
  <2>1. 0 \in 0 .. MaxCrashes
    BY LockAssumption
  <2>2. QED
    BY <2>1 DEF LockInit, LockTypeOK, Pcs
<1>2. OwnToken /\ NobodySteals /\ FileIsOwned
  BY DEF LockInit, OwnToken, NobodySteals, FileIsOwned
<1>3. QED BY <1>1, <1>2 DEF LockInv

\* Every step keeps the types.
LEMMA LockTypeStep == LockInv /\ [LockNext]_lockVars => LockTypeOK'
<1> SUFFICES ASSUME LockTypeOK, OwnToken PROVE [LockNext]_lockVars => LockTypeOK'
  BY DEF LockInv
<1> USE DEF LockTypeOK, Pcs, At
<1>1. ASSUME Age PROVE LockTypeOK'
  BY <1>1 DEF Age
<1>2. ASSUME NEW p \in Procs, Acquire(p) PROVE LockTypeOK'
  BY <1>2, InodesAreFiles DEF Acquire
<1>3. ASSUME NEW p \in Procs, OpenCreates(p) PROVE LockTypeOK'
  BY <1>3 DEF OpenCreates
<1>4. ASSUME NEW p \in Procs, \/ OpenFindsFile(p) \/ StatGone(p) \/ StatStale(p)
                              \/ StatWaits(p) \/ StealLoses(p) \/ RestatLive(p)
                              \/ LockRestart(p)
      PROVE  LockTypeOK'
  BY <1>4 DEF OpenFindsFile, StatGone, StatStale, StatWaits, StealLoses, RestatLive,
     LockRestart
<1>5. ASSUME NEW p \in Procs, WriteToken(p) PROVE LockTypeOK'
  <2>1. token[p] \in Inodes
    BY <1>5 DEF WriteToken, OwnToken
  <2>2. QED
    BY <1>5, <2>1 DEF WriteToken
<1>6. ASSUME NEW p \in Procs, TokenWriteFails(p) \/ StatTimesOut(p) PROVE LockTypeOK'
  BY <1>6 DEF TokenWriteFails, StatTimesOut
<1>7. ASSUME NEW p \in Procs, StealWins(p) PROVE LockTypeOK'
  BY <1>7 DEF StealWins
<1>8. ASSUME NEW p \in Procs, RestatStale(p) PROVE LockTypeOK'
  BY <1>8 DEF RestatStale
<1>9. ASSUME NEW p \in Procs, Relink(p) PROVE LockTypeOK'
  BY <1>9 DEF Relink
<1>10. ASSUME NEW p \in Procs, HeartbeatFresh(p) \/ HeartbeatStops(p) PROVE LockTypeOK'
  BY <1>10 DEF HeartbeatFresh, HeartbeatStops
<1>11. ASSUME NEW p \in Procs, ReleaseOwned(p) \/ ReleaseLost(p) PROVE LockTypeOK'
  BY <1>11 DEF ReleaseOwned, ReleaseLost
<1>12. ASSUME NEW p \in Procs, Unlink(p) PROVE LockTypeOK'
  BY <1>12 DEF Unlink
<1>13. ASSUME NEW p \in Procs, LockCrash(p) PROVE LockTypeOK'
  BY <1>13, LockAssumption DEF LockCrash
<1>14. ASSUME UNCHANGED lockVars PROVE LockTypeOK'
  BY <1>14 DEF lockVars
<1>15. QED
  BY <1>1, <1>2, <1>3, <1>4, <1>5, <1>6, <1>7, <1>8, <1>9, <1>10, <1>11, <1>12,
     <1>13, <1>14 DEF LockNext, AcquireStep, ReleaseStep

\* A step touches the token of its own window only.
LEMMA TokenStep == LockInv /\ [LockNext]_lockVars => OwnToken'
<1> SUFFICES ASSUME LockTypeOK, OwnToken PROVE [LockNext]_lockVars => OwnToken'
  BY DEF LockInv
<1> USE DEF LockTypeOK, OwnToken, At
<1>1. ASSUME NEW p \in Procs, Acquire(p) PROVE OwnToken'
  <2>1. token'[p] \in {p} \X (1 .. Spare) /\ token'[p] # NoFile
    BY <1>1, InodesAreFiles DEF Acquire
  <2>2. QED
    BY <1>1, <2>1 DEF Acquire
<1>2. ASSUME NEW p \in Procs, TokenWriteFails(p) \/ StatTimesOut(p) \/ ReleaseLost(p)
                              \/ Unlink(p) \/ LockCrash(p)
      PROVE  OwnToken'
  BY <1>2 DEF TokenWriteFails, StatTimesOut, ReleaseLost, Unlink, LockCrash
<1>3. ASSUME NEW p \in Procs, \/ OpenCreates(p) \/ OpenFindsFile(p) \/ WriteToken(p)
                              \/ StatGone(p) \/ StatStale(p) \/ StatWaits(p)
      PROVE  OwnToken'
  BY <1>3 DEF OpenCreates, OpenFindsFile, WriteToken, StatGone, StatStale, StatWaits
<1>4. ASSUME NEW p \in Procs, \/ StealLoses(p) \/ StealWins(p) \/ RestatStale(p)
                              \/ RestatLive(p) \/ Relink(p) \/ ReleaseOwned(p)
                              \/ LockRestart(p)
      PROVE  OwnToken'
  BY <1>4 DEF StealLoses, StealWins, RestatStale, RestatLive, Relink, ReleaseOwned,
     LockRestart
<1>5. ASSUME NEW p \in Procs, HeartbeatFresh(p) \/ HeartbeatStops(p) PROVE OwnToken'
  BY <1>5 DEF HeartbeatFresh, HeartbeatStops
<1>6. ASSUME Age \/ UNCHANGED lockVars PROVE OwnToken'
  BY <1>6 DEF Age, lockVars
<1>7. QED
  BY <1>1, <1>2, <1>3, <1>4, <1>5, <1>6 DEF LockNext, AcquireStep, ReleaseStep

\* Only a stale file is broken.
LEMMA StealStep == LockInv /\ [LockNext]_lockVars => NobodySteals'
<1> SUFFICES ASSUME LockTypeOK, NobodySteals, [LockNext]_lockVars, ~ everStale'
             PROVE  /\ aged' = {}
                    /\ \A p \in Procs : lockPc'[p] \notin {"steal", "restat", "relink"}
  BY DEF LockInv, NobodySteals
<1> USE DEF LockTypeOK, At
<1>1. ~ Age
  BY DEF Age
<1>2. ~ everStale
  BY <1>1 DEF LockNext, lockVars, AcquireStep, ReleaseStep, Acquire, OpenCreates,
     OpenFindsFile, WriteToken, StatGone, StatStale, StatWaits, StealLoses, StealWins,
     RestatStale, RestatLive, Relink, ReleaseOwned, ReleaseLost, Unlink,
     TokenWriteFails, StatTimesOut, HeartbeatFresh, HeartbeatStops, LockCrash,
     LockRestart
<1>3. aged = {} /\ \A p \in Procs : lockPc[p] \notin {"steal", "restat", "relink"}
  BY <1>2 DEF NobodySteals
<1>4. ASSUME NEW p \in Procs,
             \/ StatStale(p) \/ StealLoses(p) \/ StealWins(p)
             \/ RestatStale(p) \/ RestatLive(p) \/ Relink(p)
      PROVE  FALSE
  BY <1>3, <1>4 DEF StatStale, StealLoses, StealWins, RestatStale, RestatLive, Relink
<1>5. ASSUME NEW p \in Procs,
             \/ Acquire(p) \/ OpenCreates(p) \/ OpenFindsFile(p) \/ WriteToken(p)
             \/ StatGone(p) \/ StatWaits(p) \/ ReleaseStep(p)
      PROVE  /\ aged' = {}
             /\ \A q \in Procs : lockPc'[q] \notin {"steal", "restat", "relink"}
  BY <1>3, <1>5 DEF Acquire, OpenCreates, OpenFindsFile, WriteToken, StatGone,
     StatWaits, ReleaseStep, ReleaseOwned, ReleaseLost, Unlink
<1>6. ASSUME NEW p \in Procs,
             \/ TokenWriteFails(p) \/ StatTimesOut(p) \/ HeartbeatFresh(p)
             \/ HeartbeatStops(p) \/ LockCrash(p) \/ LockRestart(p)
      PROVE  /\ aged' = {}
             /\ \A q \in Procs : lockPc'[q] \notin {"steal", "restat", "relink"}
  BY <1>3, <1>6 DEF TokenWriteFails, StatTimesOut, HeartbeatFresh, HeartbeatStops,
     LockCrash, LockRestart
<1>7. QED
  BY <1>1, <1>3, <1>4, <1>5, <1>6 DEF LockNext, AcquireStep, lockVars

\* Nobody else removes or replaces the file of a window before it has aged.
LEMMA FileStep == LockInv /\ [LockNext]_lockVars => FileIsOwned'
<1> SUFFICES ASSUME LockInv, [LockNext]_lockVars, ~ everStale',
                    NEW q \in Procs, lockPc'[q] \in {"write", "held", "unlink"}
             PROVE  lockFile' = token'[q]
  BY DEF FileIsOwned
<1> USE DEF LockTypeOK, At
<1>a. LockTypeOK
  BY DEF LockInv
<1>1. ~ Age
  BY DEF Age
<1>2. ~ everStale
  BY <1>1 DEF LockNext, lockVars, AcquireStep, ReleaseStep, Acquire, OpenCreates,
     OpenFindsFile, WriteToken, StatGone, StatStale, StatWaits, StealLoses, StealWins,
     RestatStale, RestatLive, Relink, ReleaseOwned, ReleaseLost, Unlink,
     TokenWriteFails, StatTimesOut, HeartbeatFresh, HeartbeatStops, LockCrash,
     LockRestart
<1>3. /\ \A p \in Procs : lockPc[p] \notin {"steal", "restat", "relink"}
      /\ \A p \in Procs : lockPc[p] \in {"write", "held", "unlink"} => lockFile = token[p]
  BY <1>2 DEF LockInv, NobodySteals, FileIsOwned
<1>4. ASSUME NEW p \in Procs, lockPc[p] \in {"write", "held", "unlink"},
             lockPc[q] \in {"write", "held", "unlink"}
      PROVE  p = q
  BY <1>3, <1>4, InodesAreOwned DEF LockInv, OwnToken
<1>5. ASSUME NEW p \in Procs, OpenCreates(p) PROVE lockFile' = token'[q]
  <2>1. lockPc[q] \notin {"write", "held", "unlink"}
    BY <1>3, <1>5 DEF OpenCreates, LockInv, OwnToken
  <2>2. QED
    BY <1>a, <1>5, <2>1 DEF OpenCreates
<1>6. ASSUME NEW p \in Procs, Unlink(p) PROVE lockFile' = token'[q]
  BY <1>a, <1>4, <1>6 DEF Unlink
<1>7. ASSUME NEW p \in Procs,
             \/ StealLoses(p) \/ StealWins(p) \/ RestatStale(p) \/ RestatLive(p)
             \/ Relink(p)
      PROVE  FALSE
  BY <1>3, <1>7 DEF StealLoses, StealWins, RestatStale, RestatLive, Relink
<1>8. ASSUME NEW p \in Procs,
             \/ Acquire(p) \/ OpenFindsFile(p) \/ WriteToken(p) \/ StatGone(p)
             \/ StatStale(p) \/ StatWaits(p) \/ ReleaseOwned(p) \/ ReleaseLost(p)
      PROVE  lockFile' = token'[q]
  BY <1>a, <1>3, <1>8 DEF Acquire, OpenFindsFile, WriteToken, StatGone, StatStale,
     StatWaits, ReleaseOwned, ReleaseLost
<1>9. ASSUME NEW p \in Procs,
             \/ TokenWriteFails(p) \/ StatTimesOut(p) \/ HeartbeatFresh(p)
             \/ HeartbeatStops(p) \/ LockCrash(p) \/ LockRestart(p)
      PROVE  lockFile' = token'[q]
  BY <1>a, <1>3, <1>9 DEF TokenWriteFails, StatTimesOut, HeartbeatFresh,
     HeartbeatStops, LockCrash, LockRestart
<1>10. ASSUME UNCHANGED lockVars PROVE lockFile' = token'[q]
  BY <1>3, <1>10 DEF lockVars
<1>11. QED
  BY <1>1, <1>5, <1>6, <1>7, <1>8, <1>9, <1>10 DEF LockNext, AcquireStep, ReleaseStep

\* The inductive invariant holds in every reachable state.
THEOREM LockInvariance == LockSpec => []LockInv
<1>1. LockInv /\ [LockNext]_lockVars => LockInv'
  BY LockTypeStep, TokenStep, StealStep, FileStep DEF LockInv
<1>2. QED BY LockStart, <1>1, PTL DEF LockSpec

\* The types of the lock's state, with any number of windows and crashes.
THEOREM LockTypeCorrect == LockSpec => []LockTypeOK
<1>1. LockInv => LockTypeOK
  BY DEF LockInv
<1>2. QED BY LockInvariance, <1>1, PTL

\* However many windows race, crash and restart: until a lockfile has gone
\* unrefreshed for staleMs, one window at most is in the locked section, and
\* its file is at lockPath.
THEOREM ExclusionUntilStale == LockSpec => []ExclusiveUntilStale
<1>1. LockInv => ExclusiveUntilStale
  <2> SUFFICES ASSUME LockInv, ~ everStale, NEW p \in Holders
               PROVE  lockFile = token[p] /\ Holders = {p}
    BY DEF ExclusiveUntilStale
  <2>1. \A q \in Holders : lockFile = token[q] /\ token[q] \in {q} \X (1 .. Spare)
    BY DEF LockInv, FileIsOwned, OwnToken, Holders
  <2>2. \A q \in Holders : q = p
    BY <2>1, InodesAreOwned DEF Holders
  <2>3. QED BY <2>1, <2>2
<1>2. QED BY LockInvariance, <1>1, PTL

-------------------------------------------------------------------------------
\* The control channel.

LEMMA ChannelSteps == Next => [ChannelNext]_channelVars
<1> SUFFICES ASSUME Next, ~ UNCHANGED channelVars PROVE ChannelNext
  OBVIOUS
<1> QED BY DEF Next, Only

\* A spawn that is wanted has a child from the moment it awaits the handshake.
SpawnShape ==
  \/ spawn = NoSpawn
  \/ /\ spawn.by \in {"start", "respawn"}
     /\ \/ spawn.phase = "resolving" /\ spawn.on = 0
        \/ spawn.phase = "awaiting" /\ spawn.on # 0 /\ child[spawn.on] # "none"

\* A transport is published exactly in the state "ready", and then no spawn is
\* under way: there is never a second handshake next to a working channel.
Published ==
  /\ transport # 0 <=> chState = "ready"
  /\ transport # 0 => spawn = NoSpawn /\ child[transport] # "none"

\* Only these two children can be alive, and only the published one is asked.
ChildrenOwned ==
  /\ \A t \in Transports : child[t] = "alive" => t \in {transport, spawn.on}
  /\ \A c \in Calls : inFlight[c] # 0 => inFlight[c] = transport /\ child[transport] = "alive"

RetryDue == chState = "respawning" => retry \/ spawn # NoSpawn

ChannelInv == ChannelTypeOK /\ SpawnShape /\ Published /\ ChildrenOwned /\ RetryDue

LEMMA ChannelStarts == ChannelInit => ChannelInv
<1> SUFFICES ASSUME ChannelInit PROVE ChannelInv
  OBVIOUS
<1> USE ChannelAssumption DEF ChannelInit, NoSpawn, Transports
<1>1. ChannelTypeOK
  <2>1. spawn \in [by : {"none", "start", "respawn"},
                  phase : {"none", "resolving", "awaiting"}, on : 0 .. MaxChildren]
    OBVIOUS
  <2>2. retry \in BOOLEAN
    OBVIOUS
  <2>3. /\ chState = "idle" /\ transport \in 0 .. MaxChildren
        /\ child \in [Transports -> {"none", "alive", "killed"}]
        /\ inFlight \in [Calls -> 0 .. MaxChildren]
    OBVIOUS
  <2> QED BY <2>1, <2>2, <2>3 DEF ChannelTypeOK
<1>2. SpawnShape /\ Published /\ RetryDue
  BY DEF SpawnShape, Published, RetryDue
<1>3. ChildrenOwned
  BY DEF ChildrenOwned
<1> QED BY <1>1, <1>2, <1>3 DEF ChannelInv

LEMMA ChannelStep == ChannelInv /\ [ChannelNext]_channelVars => ChannelInv'
<1> SUFFICES ASSUME ChannelInv, [ChannelNext]_channelVars PROVE ChannelInv'
  OBVIOUS
<1> USE ChannelAssumption DEF ChannelInv, ChannelTypeOK, SpawnShape, NoSpawn, Transports
<1>1. CASE Start
  <2> USE <1>1 DEF Start
  <2>1. ChannelTypeOK'
    <3>1. retry' \in BOOLEAN
      OBVIOUS
    <3>2. spawn' \in [by : {"none", "start", "respawn"},
                     phase : {"none", "resolving", "awaiting"}, on : 0 .. MaxChildren]
      OBVIOUS
    <3>3. chState' \in {"idle", "starting", "ready", "respawning", "disposed"}
      OBVIOUS
    <3>4. /\ transport' \in 0 .. MaxChildren
          /\ child' \in [Transports -> {"none", "alive", "killed"}]
          /\ inFlight' \in [Calls -> 0 .. MaxChildren]
      OBVIOUS
    <3> QED BY <3>1, <3>2, <3>3, <3>4 DEF ChannelTypeOK
  <2>2. SpawnShape'
    BY DEF Published
  <2>3. Published'
    BY DEF Published
  <2>4. ChildrenOwned'
    BY DEF ChildrenOwned, Published
  <2>5. RetryDue'
    BY DEF RetryDue, Published
  <2> QED BY <2>1, <2>2, <2>3, <2>4, <2>5
<1>2. CASE AttemptRespawn
  <2> USE <1>2 DEF AttemptRespawn
  <2>1. ChannelTypeOK'
    <3>1. retry' \in BOOLEAN
      OBVIOUS
    <3>2. spawn' \in [by : {"none", "start", "respawn"},
                     phase : {"none", "resolving", "awaiting"}, on : 0 .. MaxChildren]
      OBVIOUS
    <3>3. chState' \in {"idle", "starting", "ready", "respawning", "disposed"}
      OBVIOUS
    <3>4. /\ transport' \in 0 .. MaxChildren
          /\ child' \in [Transports -> {"none", "alive", "killed"}]
          /\ inFlight' \in [Calls -> 0 .. MaxChildren]
      OBVIOUS
    <3> QED BY <3>1, <3>2, <3>3, <3>4 DEF ChannelTypeOK
  <2>2. SpawnShape'
    BY DEF Published
  <2>3. Published'
    BY DEF Published
  <2>4. ChildrenOwned'
    BY DEF ChildrenOwned, Published
  <2>5. RetryDue'
    BY DEF RetryDue, Published
  <2> QED BY <2>1, <2>2, <2>3, <2>4, <2>5
<1>3. CASE Resolved
  <2>0. PICK t \in Transports :
          /\ spawn.phase = "resolving" /\ chState # "disposed" /\ child[t] = "none"
          /\ child' = [child EXCEPT ![t] = "alive"]
          /\ spawn' = [spawn EXCEPT !.phase = "awaiting", !.on = t]
          /\ chState' = chState /\ transport' = transport /\ retry' = retry
          /\ inFlight' = inFlight
    BY <1>3 DEF Resolved
  <2>1. spawn' = [by |-> spawn.by, phase |-> "awaiting", on |-> t]
    BY <2>0
  <2>2. ChannelTypeOK'
    BY <2>0, <2>1
  <2>3. SpawnShape' /\ spawn # NoSpawn
    BY <2>0, <2>1
  <2>4. Published'
    BY <2>0, <2>1, <2>3 DEF Published
  <2>5. ChildrenOwned'
    BY <2>0, <2>1 DEF ChildrenOwned, Published
  <2>6. RetryDue'
    <3>1. spawn' # NoSpawn
      BY <2>1
    <3> QED BY <3>1 DEF RetryDue
  <2> QED BY <2>2, <2>3, <2>4, <2>5, <2>6
<1>4. CASE ResolveFails
  <2> USE <1>4 DEF ResolveFails, SpawnFailed
  <2>1. ChannelTypeOK'
    OBVIOUS
  <2>2. SpawnShape'
    BY DEF Published
  <2>3. Published'
    BY DEF Published
  <2>4. ChildrenOwned'
    BY DEF ChildrenOwned, Published
  <2>5. RetryDue'
    BY DEF RetryDue, Published
  <2> QED BY <2>1, <2>2, <2>3, <2>4, <2>5
<1>5. CASE GatewayReady
  <2> USE <1>5 DEF GatewayReady, Rejected
  <2>1. ChannelTypeOK'
    OBVIOUS
  <2>2. SpawnShape'
    BY DEF Published
  <2>3. Published'
    BY DEF Published
  <2>4. ChildrenOwned'
    BY DEF ChildrenOwned, Published
  <2>5. RetryDue'
    BY DEF RetryDue, Published
  <2> QED BY <2>1, <2>2, <2>3, <2>4, <2>5
<1>6. CASE AwaitFails
  <2> USE <1>6 DEF AwaitFails, SpawnFailed
  <2>1. ChannelTypeOK'
    <3>1. retry' \in BOOLEAN
      OBVIOUS
    <3>2. spawn' \in [by : {"none", "start", "respawn"},
                     phase : {"none", "resolving", "awaiting"}, on : 0 .. MaxChildren]
      OBVIOUS
    <3>3. chState' \in {"idle", "starting", "ready", "respawning", "disposed"}
      OBVIOUS
    <3>4. /\ transport' \in 0 .. MaxChildren
          /\ child' \in [Transports -> {"none", "alive", "killed"}]
          /\ inFlight' \in [Calls -> 0 .. MaxChildren]
      OBVIOUS
    <3> QED BY <3>1, <3>2, <3>3, <3>4 DEF ChannelTypeOK
  <2>2. SpawnShape'
    BY DEF Published
  <2>3. Published'
    BY DEF Published
  <2>4. ChildrenOwned'
    BY DEF ChildrenOwned, Published
  <2>5. RetryDue'
    BY DEF RetryDue, Published
  <2> QED BY <2>1, <2>2, <2>3, <2>4, <2>5
<1>7. CASE ChannelDispose
  <2> USE <1>7 DEF ChannelDispose, Rejected
  <2>1. ChannelTypeOK'
    <3>1. retry' \in BOOLEAN
      OBVIOUS
    <3>2. spawn' \in [by : {"none", "start", "respawn"},
                     phase : {"none", "resolving", "awaiting"}, on : 0 .. MaxChildren]
      OBVIOUS
    <3>3. chState' \in {"idle", "starting", "ready", "respawning", "disposed"}
      OBVIOUS
    <3>4. /\ transport' \in 0 .. MaxChildren
          /\ child' \in [Transports -> {"none", "alive", "killed"}]
          /\ inFlight' \in [Calls -> 0 .. MaxChildren]
      OBVIOUS
    <3> QED BY <3>1, <3>2, <3>3, <3>4 DEF ChannelTypeOK
  <2>2. SpawnShape'
    BY DEF Published
  <2>3. Published'
    BY DEF Published
  <2>4. ChildrenOwned'
    BY DEF ChildrenOwned, Published
  <2>5. RetryDue'
    BY DEF RetryDue, Published
  <2> QED BY <2>1, <2>2, <2>3, <2>4, <2>5
<1>8. ASSUME NEW t \in Transports, ChildExits(t) PROVE ChannelInv'
  <2> USE <1>8 DEF ChildExits, HandleCrash, SpawnFailed, Rejected
  <2>1. ChannelTypeOK'
    <3>1. retry' \in BOOLEAN
      OBVIOUS
    <3>2. spawn' \in [by : {"none", "start", "respawn"},
                     phase : {"none", "resolving", "awaiting"}, on : 0 .. MaxChildren]
      OBVIOUS
    <3>3. chState' \in {"idle", "starting", "ready", "respawning", "disposed"}
      OBVIOUS
    <3>4. /\ transport' \in 0 .. MaxChildren
          /\ child' \in [Transports -> {"none", "alive", "killed"}]
          /\ inFlight' \in [Calls -> 0 .. MaxChildren]
      OBVIOUS
    <3> QED BY <3>1, <3>2, <3>3, <3>4 DEF ChannelTypeOK
  <2>2. SpawnShape'
    BY DEF Published
  <2>3. Published'
    BY DEF Published
  <2>4. ChildrenOwned'
    BY DEF ChildrenOwned, Published
  <2>5. RetryDue'
    BY DEF RetryDue, Published
  <2> QED BY <2>1, <2>2, <2>3, <2>4, <2>5
<1>9. ASSUME NEW t \in Transports, OversizedLine(t) PROVE ChannelInv'
  <2> USE <1>9 DEF OversizedLine, Rejected
  <2>1. ChannelTypeOK'
    OBVIOUS
  <2>2. SpawnShape'
    BY DEF Published
  <2>3. Published'
    BY DEF Published
  <2>4. ChildrenOwned'
    BY DEF ChildrenOwned, Published
  <2>5. RetryDue'
    BY DEF RetryDue, Published
  <2> QED BY <2>1, <2>2, <2>3, <2>4, <2>5
<1>10. ASSUME NEW c \in Calls, Dispatch(c) PROVE ChannelInv'
  <2> USE <1>10 DEF Dispatch
  <2>1. ChannelTypeOK'
    OBVIOUS
  <2>2. SpawnShape'
    BY DEF Published
  <2>3. Published'
    BY DEF Published
  <2>4. ChildrenOwned'
    BY DEF ChildrenOwned, Published
  <2>5. RetryDue'
    BY DEF RetryDue, Published
  <2> QED BY <2>1, <2>2, <2>3, <2>4, <2>5
<1>11. ASSUME NEW c \in Calls, CallSettles(c) PROVE ChannelInv'
  <2> USE <1>11 DEF CallSettles
  <2>1. ChannelTypeOK'
    OBVIOUS
  <2>2. SpawnShape'
    BY DEF Published
  <2>3. Published'
    BY DEF Published
  <2>4. ChildrenOwned'
    BY DEF ChildrenOwned, Published
  <2>5. RetryDue'
    BY DEF RetryDue, Published
  <2> QED BY <2>1, <2>2, <2>3, <2>4, <2>5
<1>12. CASE UNCHANGED channelVars
  BY <1>12 DEF channelVars, Published, ChildrenOwned, RetryDue
<1> QED
  BY <1>1, <1>2, <1>3, <1>4, <1>5, <1>6, <1>7, <1>8, <1>9, <1>10, <1>11, <1>12 DEF ChannelNext

LEMMA ChannelSound == ChannelInv => OneControlChild
<1> SUFFICES ASSUME ChannelInv PROVE OneControlChild
  OBVIOUS
<1> USE ChannelAssumption DEF ChannelInv, ChannelTypeOK, SpawnShape, Published, ChildrenOwned,
        RetryDue, NoSpawn, Transports
<1>1. Alive \subseteq {transport, spawn.on}
  BY DEF Alive
<1>2. Alive \subseteq {transport} \/ Alive \subseteq {spawn.on}
  BY <1>1 DEF Alive
<1>3. ASSUME NEW x, Alive \subseteq {x} PROVE Cardinality(Alive) <= 1
  <2>1. IsFiniteSet({x}) /\ Cardinality({x}) = 1
    BY FS_Singleton
  <2> QED BY <1>3, <2>1, FS_Subset, FS_CardinalityType
<1>4. Cardinality(Alive) <= 1
  BY <1>2, <1>3
<1>5. \A c \in Calls : inFlight[c] # 0 => inFlight[c] \in Alive
  BY DEF Alive
<1> QED BY <1>1, <1>4, <1>5 DEF OneControlChild

-------------------------------------------------------------------------------
\* The dashboard manager.

LEMMA DashboardSteps == Next => [DashboardNext]_dashVars
<1> SUFFICES ASSUME Next, ~ UNCHANGED dashVars PROVE DashboardNext
  OBVIOUS
<1> QED BY DEF Next, Only

ServingIsChild == \A a \in Attempts : server[a] = "alive" => a = dashChild

\* The child is that of the memoized attempt, which is past its spawn.
ChildIsMemo ==
  /\ dashChild # 0 => dashChild = ready /\ bringUp[dashChild] \notin {"adopt", "spawn"}
  /\ dashGone => ready = 0 /\ ~ readyResolved

\* An attempt that can still spawn is the memoized one: it is replaced only after
\* its child died or its probe failed, and it had a child or was over by then.
SpawnIsMemo == \A a \in Attempts : bringUp[a] \in {"adopt", "spawn"} => dashGone \/ a = ready

\* What callers get without waiting, and what they probe, is over.
SettledIsDone ==
  /\ readyResolved => ready # 0 /\ bringUp[ready] = "none"
  /\ \A p \in Panels : probing[p] # 0 => bringUp[probing[p]] = "none"

DashboardInv == DashboardTypeOK /\ ServingIsChild /\ ChildIsMemo /\ SpawnIsMemo /\ SettledIsDone

LEMMA DashboardStarts == DashboardInit => DashboardInv
<1> SUFFICES ASSUME DashboardInit PROVE DashboardInv
  OBVIOUS
<1> USE DashboardAssumption DEF DashboardInit, Attempts
<1>1. DashboardTypeOK
  <2>1. shape \in BOOLEAN
    OBVIOUS
  <2>2. readyResolved \in BOOLEAN /\ dashGone \in BOOLEAN
    OBVIOUS
  <2>3. /\ dashChild \in 0 .. MaxAttempts /\ ready \in 0 .. MaxAttempts
        /\ bringUp \in [Attempts -> {"none", "adopt", "spawn", "health", "token"}]
        /\ server \in [Attempts -> {"none", "alive", "killed", "dead"}]
        /\ probing \in [Panels -> 0 .. MaxAttempts]
    OBVIOUS
  <2> QED BY <2>1, <2>2, <2>3 DEF DashboardTypeOK
<1>2. ServingIsChild /\ ChildIsMemo /\ SpawnIsMemo /\ SettledIsDone
  BY DEF ServingIsChild, ChildIsMemo, SpawnIsMemo, SettledIsDone
<1> QED BY <1>1, <1>2 DEF DashboardInv

\* ensure(), which Ensure and ProbeFails share, from a memo and a child that are
\* those of now or were just thrown away with the child killed.
LEMMA EnsureKeeps ==
  ASSUME DashboardInv, NEW p \in Panels, NEW held, NEW resolved \in BOOLEAN, NEW ch,
         \/ held = ready /\ resolved = readyResolved /\ ch = dashChild /\ server' = server
         \/ /\ held = 0 /\ resolved = FALSE /\ ch = 0 /\ server' = Killed(dashChild, server)
            /\ ready = 0 \/ bringUp[ready] = "none",
         EnsureFrom(p, held, resolved, ch), ~ dashGone, UNCHANGED <<shape, dashGone>>
  PROVE  DashboardInv'
<1> USE DashboardAssumption DEF Attempts
<1> DEFINE dead == ch # 0 /\ server[ch] = "dead"
           kept == IF dead THEN 0 ELSE held
<1>0. DashboardTypeOK /\ ServingIsChild /\ ChildIsMemo /\ SpawnIsMemo /\ SettledIsDone
  BY DEF DashboardInv
<1>1. /\ server' \in [Attempts -> {"none", "alive", "killed", "dead"}]
      /\ dashChild' = IF dead THEN 0 ELSE ch
      /\ dashChild' \in 0 .. MaxAttempts
      /\ shape' = shape /\ dashGone' = FALSE /\ dashGone = FALSE
  BY <1>0 DEF EnsureFrom, Killed, DashboardTypeOK
<1>2. ServingIsChild'
  BY <1>0, <1>1 DEF ServingIsChild, Killed, DashboardTypeOK
<1>3. \A b \in Attempts : bringUp[b] \in {"adopt", "spawn"} => b = held /\ ~ dead
  BY <1>0, <1>1 DEF SpawnIsMemo, ChildIsMemo, DashboardTypeOK
<1>4. CASE kept = 0 /\ \E a \in UnusedAttempts :
             /\ ready' = a
             /\ bringUp' = [bringUp EXCEPT ![a] = IF shape THEN "adopt" ELSE "spawn"]
             /\ readyResolved' = FALSE
             /\ probing' = [probing EXCEPT ![p] = 0]
  <2>1. PICK a \in UnusedAttempts :
             /\ ready' = a
             /\ bringUp' = [bringUp EXCEPT ![a] = IF shape THEN "adopt" ELSE "spawn"]
             /\ readyResolved' = FALSE
             /\ probing' = [probing EXCEPT ![p] = 0]
    BY <1>4
  <2>2. /\ a \in Attempts /\ bringUp[a] = "none" /\ a # ready /\ a # dashChild
        /\ \A q \in Panels : probing[q] # a
    BY DEF UnusedAttempts
  <2>3. DashboardTypeOK'
    <3>1. bringUp' \in [Attempts -> {"none", "adopt", "spawn", "health", "token"}]
      BY <1>0, <2>1, <2>2 DEF DashboardTypeOK
    <3>2. /\ ready' \in 0 .. MaxAttempts /\ probing' \in [Panels -> 0 .. MaxAttempts]
      BY <1>0, <2>1, <2>2 DEF DashboardTypeOK
    <3>3. readyResolved' \in BOOLEAN /\ shape' \in BOOLEAN /\ dashGone' \in BOOLEAN
      BY <1>0, <1>1, <2>1 DEF DashboardTypeOK
    <3> QED BY <1>1, <3>1, <3>2, <3>3 DEF DashboardTypeOK
  <2>4. dashChild' = 0
    BY <1>0, <1>1, <1>4 DEF ChildIsMemo
  <2>5. ChildIsMemo'
    BY <1>1, <2>4 DEF ChildIsMemo
  <2>6. SpawnIsMemo'
    BY <1>0, <1>1, <1>3, <1>4, <2>1, <2>2 DEF SpawnIsMemo, DashboardTypeOK
  <2>7. SettledIsDone'
    BY <1>0, <2>1, <2>2 DEF SettledIsDone, DashboardTypeOK
  <2> QED BY <1>2, <2>3, <2>5, <2>6, <2>7 DEF DashboardInv
<1>5. CASE /\ kept # 0 /\ ready' = kept /\ readyResolved' = resolved
           /\ probing' = [probing EXCEPT ![p] = IF resolved THEN kept ELSE 0]
           /\ bringUp' = bringUp
  <2>1. held = ready /\ ~ dead /\ resolved = readyResolved /\ ch = dashChild /\ kept = ready
    BY <1>5
  <2>2. ready' = ready /\ dashChild' = dashChild /\ bringUp' = bringUp
    BY <1>1, <1>5, <2>1
  <2>3. DashboardTypeOK'
    BY <1>0, <1>1, <1>5, <2>1, <2>2 DEF DashboardTypeOK
  <2>4. ChildIsMemo'
    BY <1>0, <1>1, <2>2 DEF ChildIsMemo
  <2>5. SpawnIsMemo'
    BY <1>0, <1>1, <2>2 DEF SpawnIsMemo
  <2>6. SettledIsDone'
    BY <1>0, <1>5, <2>1, <2>2 DEF SettledIsDone, DashboardTypeOK
  <2> QED BY <1>2, <2>3, <2>4, <2>5, <2>6 DEF DashboardInv
<1> QED
  BY <1>4, <1>5 DEF EnsureFrom

LEMMA DashboardStep == DashboardInv /\ [DashboardNext]_dashVars => DashboardInv'
<1> SUFFICES ASSUME DashboardInv, [DashboardNext]_dashVars PROVE DashboardInv'
  OBVIOUS
<1> USE DashboardAssumption DEF Attempts, DashboardInv, DashboardTypeOK
<1>1. CASE DashboardDispose
  <2> USE <1>1 DEF DashboardDispose, Killed
  <2>1. DashboardTypeOK'
    <3>1. bringUp' \in [Attempts -> {"none", "adopt", "spawn", "health", "token"}]
      OBVIOUS
    <3>2. server' \in [Attempts -> {"none", "alive", "killed", "dead"}]
      OBVIOUS
    <3>3. /\ ready' \in 0 .. MaxAttempts /\ dashChild' \in 0 .. MaxAttempts
          /\ probing' \in [Panels -> 0 .. MaxAttempts]
      OBVIOUS
    <3>4. readyResolved' \in BOOLEAN
      OBVIOUS
    <3>5. shape' \in BOOLEAN /\ dashGone' \in BOOLEAN
      OBVIOUS
    <3> QED BY <3>1, <3>2, <3>3, <3>4, <3>5
  <2>2. ServingIsChild'
    BY DEF ServingIsChild, ChildIsMemo, SpawnIsMemo
  <2>3. ChildIsMemo'
    BY DEF ChildIsMemo, SpawnIsMemo, SettledIsDone
  <2>4. SpawnIsMemo'
    BY DEF SpawnIsMemo, ChildIsMemo
  <2>5. SettledIsDone'
    BY DEF SettledIsDone, ChildIsMemo
  <2> QED BY <2>1, <2>2, <2>3, <2>4, <2>5
<1>2. ASSUME NEW p \in Panels, ProbeOk(p) PROVE DashboardInv'
  <2> USE <1>2 DEF ProbeOk
  <2>1. DashboardTypeOK'
    OBVIOUS
  <2>2. ServingIsChild'
    BY DEF ServingIsChild, ChildIsMemo, SpawnIsMemo
  <2>3. ChildIsMemo'
    BY DEF ChildIsMemo, SpawnIsMemo, SettledIsDone
  <2>4. SpawnIsMemo'
    BY DEF SpawnIsMemo, ChildIsMemo
  <2>5. SettledIsDone'
    BY DEF SettledIsDone, ChildIsMemo
  <2> QED BY <2>1, <2>2, <2>3, <2>4, <2>5
<1>3. ASSUME NEW a \in Attempts, AdoptFinds(a) PROVE DashboardInv'
  <2> USE <1>3 DEF AdoptFinds, Succeeds
  <2>1. DashboardTypeOK'
    OBVIOUS
  <2>2. ServingIsChild'
    BY DEF ServingIsChild, ChildIsMemo, SpawnIsMemo
  <2>3. ChildIsMemo'
    BY DEF ChildIsMemo, SpawnIsMemo, SettledIsDone
  <2>4. SpawnIsMemo'
    BY DEF SpawnIsMemo, ChildIsMemo
  <2>5. SettledIsDone'
    BY DEF SettledIsDone, ChildIsMemo
  <2> QED BY <2>1, <2>2, <2>3, <2>4, <2>5
<1>4. ASSUME NEW a \in Attempts, AdoptFindsNone(a) PROVE DashboardInv'
  <2> USE <1>4 DEF AdoptFindsNone
  <2>1. DashboardTypeOK'
    OBVIOUS
  <2>2. ServingIsChild'
    BY DEF ServingIsChild, ChildIsMemo, SpawnIsMemo
  <2>3. ChildIsMemo'
    BY DEF ChildIsMemo, SpawnIsMemo, SettledIsDone
  <2>4. SpawnIsMemo'
    BY DEF SpawnIsMemo, ChildIsMemo
  <2>5. SettledIsDone'
    BY DEF SettledIsDone, ChildIsMemo
  <2> QED BY <2>1, <2>2, <2>3, <2>4, <2>5
<1>5. ASSUME NEW a \in Attempts, Spawned(a) PROVE DashboardInv'
  <2> USE <1>5 DEF Spawned, Rejects
  <2>1. DashboardTypeOK'
    <3>1. bringUp' \in [Attempts -> {"none", "adopt", "spawn", "health", "token"}]
      OBVIOUS
    <3>2. server' \in [Attempts -> {"none", "alive", "killed", "dead"}]
      OBVIOUS
    <3>3. /\ ready' \in 0 .. MaxAttempts /\ dashChild' \in 0 .. MaxAttempts
          /\ probing' \in [Panels -> 0 .. MaxAttempts]
      OBVIOUS
    <3>4. readyResolved' \in BOOLEAN
      OBVIOUS
    <3>5. shape' \in BOOLEAN /\ dashGone' \in BOOLEAN
      OBVIOUS
    <3> QED BY <3>1, <3>2, <3>3, <3>4, <3>5
  <2>2. ServingIsChild'
    BY DEF ServingIsChild, ChildIsMemo, SpawnIsMemo
  <2>3. ChildIsMemo'
    BY DEF ChildIsMemo, SpawnIsMemo, SettledIsDone
  <2>4. SpawnIsMemo'
    BY DEF SpawnIsMemo, ChildIsMemo
  <2>5. SettledIsDone'
    BY DEF SettledIsDone, ChildIsMemo
  <2> QED BY <2>1, <2>2, <2>3, <2>4, <2>5
<1>6. ASSUME NEW a \in Attempts, SpawnThrows(a) PROVE DashboardInv'
  <2> USE <1>6 DEF SpawnThrows, Rejects
  <2>1. DashboardTypeOK'
    OBVIOUS
  <2>2. ServingIsChild'
    BY DEF ServingIsChild, ChildIsMemo, SpawnIsMemo
  <2>3. ChildIsMemo'
    BY DEF ChildIsMemo, SpawnIsMemo, SettledIsDone
  <2>4. SpawnIsMemo'
    BY DEF SpawnIsMemo, ChildIsMemo
  <2>5. SettledIsDone'
    BY DEF SettledIsDone, ChildIsMemo
  <2> QED BY <2>1, <2>2, <2>3, <2>4, <2>5
<1>7. ASSUME NEW a \in Attempts, Healthy(a) PROVE DashboardInv'
  <2> USE <1>7 DEF Healthy
  <2>1. DashboardTypeOK'
    OBVIOUS
  <2>2. ServingIsChild'
    BY DEF ServingIsChild, ChildIsMemo, SpawnIsMemo
  <2>3. ChildIsMemo'
    BY DEF ChildIsMemo, SpawnIsMemo, SettledIsDone
  <2>4. SpawnIsMemo'
    BY DEF SpawnIsMemo, ChildIsMemo
  <2>5. SettledIsDone'
    BY DEF SettledIsDone, ChildIsMemo
  <2> QED BY <2>1, <2>2, <2>3, <2>4, <2>5
<1>8. ASSUME NEW a \in Attempts, Verified(a) PROVE DashboardInv'
  <2> USE <1>8 DEF Verified, Succeeds
  <2>1. DashboardTypeOK'
    OBVIOUS
  <2>2. ServingIsChild'
    BY DEF ServingIsChild, ChildIsMemo, SpawnIsMemo
  <2>3. ChildIsMemo'
    BY DEF ChildIsMemo, SpawnIsMemo, SettledIsDone
  <2>4. SpawnIsMemo'
    BY DEF SpawnIsMemo, ChildIsMemo
  <2>5. SettledIsDone'
    BY DEF SettledIsDone, ChildIsMemo
  <2> QED BY <2>1, <2>2, <2>3, <2>4, <2>5
<1>9. ASSUME NEW a \in Attempts, AttemptFails(a) PROVE DashboardInv'
  <2> USE <1>9 DEF AttemptFails, Killed, Rejects
  <2>1. DashboardTypeOK'
    OBVIOUS
  <2>2. ServingIsChild'
    BY DEF ServingIsChild, ChildIsMemo, SpawnIsMemo
  <2>3. ChildIsMemo'
    BY DEF ChildIsMemo, SpawnIsMemo, SettledIsDone
  <2>4. SpawnIsMemo'
    BY DEF SpawnIsMemo, ChildIsMemo
  <2>5. SettledIsDone'
    BY DEF SettledIsDone, ChildIsMemo
  <2> QED BY <2>1, <2>2, <2>3, <2>4, <2>5
<1>10. ASSUME NEW a \in Attempts, ServerDies(a) PROVE DashboardInv'
  <2> USE <1>10 DEF ServerDies
  <2>1. DashboardTypeOK'
    OBVIOUS
  <2>2. ServingIsChild'
    BY DEF ServingIsChild, ChildIsMemo, SpawnIsMemo
  <2>3. ChildIsMemo'
    BY DEF ChildIsMemo, SpawnIsMemo, SettledIsDone
  <2>4. SpawnIsMemo'
    BY DEF SpawnIsMemo, ChildIsMemo
  <2>5. SettledIsDone'
    BY DEF SettledIsDone, ChildIsMemo
  <2> QED BY <2>1, <2>2, <2>3, <2>4, <2>5
<1>11. ASSUME NEW p \in Panels, Ensure(p) PROVE DashboardInv'
  <2>1. /\ EnsureFrom(p, ready, readyResolved, dashChild)
        /\ server' = server /\ ~ dashGone /\ UNCHANGED <<shape, dashGone>>
    BY <1>11 DEF Ensure
  <2>2. readyResolved \in BOOLEAN
    OBVIOUS
  <2> QED BY <2>1, <2>2, EnsureKeeps
<1>12. ASSUME NEW p \in Panels, ProbeFails(p) PROVE DashboardInv'
  <2> USE <1>12 DEF ProbeFails
  <2>1. CASE dashGone
    BY <2>1 DEF ServingIsChild, ChildIsMemo, SpawnIsMemo, SettledIsDone
  <2>2. CASE ~ dashGone /\ ready = probing[p]
    <3>1. ready = 0 \/ bringUp[ready] = "none"
      BY <2>2 DEF SettledIsDone
    <3>2. server' = Killed(dashChild, server) /\ EnsureFrom(p, 0, FALSE, 0)
      BY <2>2
    <3>3. UNCHANGED <<shape, dashGone>>
      OBVIOUS
    <3> QED BY <2>2, <3>1, <3>2, <3>3, EnsureKeeps
  <2>3. CASE ~ dashGone /\ ready # probing[p]
    <3>1. server' = server /\ EnsureFrom(p, ready, readyResolved, dashChild)
      BY <2>3
    <3>2. UNCHANGED <<shape, dashGone>>
      OBVIOUS
    <3> QED BY <2>3, <3>1, <3>2, EnsureKeeps
  <2> QED BY <2>1, <2>2, <2>3
<1>13. CASE UNCHANGED dashVars
  BY <1>13 DEF dashVars, ServingIsChild, ChildIsMemo, SpawnIsMemo, SettledIsDone
<1> QED
  BY <1>1, <1>2, <1>3, <1>4, <1>5, <1>6, <1>7, <1>8, <1>9, <1>10, <1>11, <1>12, <1>13 DEF DashboardNext

LEMMA DashboardSound == DashboardInv => OneDashboardChild
<1> QED BY DashboardAssumption DEF DashboardInv, DashboardTypeOK, ServingIsChild, ChildIsMemo,
        SettledIsDone, OneDashboardChild, Attempts

-------------------------------------------------------------------------------
\* At most one child of the control channel and of the dashboard, whatever races:
\* a start and a respawn, a crash in a handshake, attempts that overtake each
\* other, a late probe, a dispose during a spawn.
THEOREM OneChildOnly == Spec => []AtMostOneChild
<1>1. Init => ChannelInv /\ DashboardInv
  BY ChannelStarts, DashboardStarts DEF Init
<1>2. ChannelInv /\ DashboardInv /\ [Next]_vars => (ChannelInv /\ DashboardInv)'
  <2>1. UNCHANGED vars => UNCHANGED channelVars /\ UNCHANGED dashVars
    BY DEF vars
  <2> QED
    BY <2>1, ChannelSteps, DashboardSteps, ChannelStep, DashboardStep
<1>3. ChannelInv /\ DashboardInv => AtMostOneChild
  BY ChannelSound, DashboardSound DEF AtMostOneChild
<1> QED BY <1>1, <1>2, <1>3, PTL DEF Spec

-------------------------------------------------------------------------------
\* The server of the language tools.

LEMMA LspHostSteps == Next => [LspHostNext]_lspHostVars
<1> SUFFICES ASSUME Next, ~ UNCHANGED lspHostVars PROVE LspHostNext
  OBVIOUS
<1> QED BY DEF Next, Only

\* The host binds once, so that nothing was advertised or given up when it does;
\* a dispose withdraws the advertisement.
HostOrder ==
  /\ ~ hostStarted => bound = "none"
  /\ ~ hostStarted \/ bound = "binding" => ~ permanentlyDown /\ ~ advertised
  /\ hostGone => ~ advertised

LspHostInv == LspHostTypeOK /\ HostOrder /\ ServerIsOurs

LEMMA LspHostStarts == LspHostInit => LspHostInv
<1> SUFFICES ASSUME LspHostInit PROVE LspHostInv
  OBVIOUS
<1>1. LspHostTypeOK
  BY DEF LspHostInit, LspHostTypeOK, Binds
<1>2. HostOrder /\ ServerIsOurs
  BY DEF LspHostInit, HostOrder, ServerIsOurs
<1> QED BY <1>1, <1>2 DEF LspHostInv

LEMMA LspHostStep == LspHostInv /\ [LspHostNext]_lspHostVars => LspHostInv'
<1> SUFFICES ASSUME LspHostInv, [LspHostNext]_lspHostVars PROVE LspHostInv'
  OBVIOUS
<1>0. LspHostTypeOK /\ HostOrder /\ ServerIsOurs
  BY DEF LspHostInv
<1>1. CASE StartHost
  BY <1>0, <1>1 DEF StartHost, LspHostInv, LspHostTypeOK, Binds, HostOrder, ServerIsOurs
<1>2. CASE Bound
  BY <1>0, <1>2 DEF Bound, LspHostInv, LspHostTypeOK, Binds, HostOrder, ServerIsOurs
<1>3. CASE BindFails
  BY <1>0, <1>3 DEF BindFails, LspHostInv, LspHostTypeOK, Binds, HostOrder, ServerIsOurs
<1>4. CASE ListenerError
  BY <1>0, <1>4 DEF ListenerError, LspHostInv, LspHostTypeOK, Binds, HostOrder, ServerIsOurs
<1>5. CASE ListenerClosed
  BY <1>0, <1>5 DEF ListenerClosed, LspHostInv, LspHostTypeOK, Binds, HostOrder, ServerIsOurs
<1>6. CASE Listens
  BY <1>0, <1>6 DEF Listens, LspHostInv, LspHostTypeOK, Binds, HostOrder, ServerIsOurs
<1>7. CASE DisposeHost
  BY <1>0, <1>7 DEF DisposeHost, LspHostInv, LspHostTypeOK, Binds, HostOrder, ServerIsOurs
<1>8. CASE UNCHANGED lspHostVars
  BY <1>0, <1>8 DEF lspHostVars, LspHostInv, LspHostTypeOK, Binds, HostOrder, ServerIsOurs
<1> QED BY <1>1, <1>2, <1>3, <1>4, <1>5, <1>6, <1>7, <1>8 DEF LspHostNext

-------------------------------------------------------------------------------
\* The calls of the language tools.

LEMMA LspToolsSteps == Next => [LspToolsNext]_lspToolsVars
<1> SUFFICES ASSUME Next, ~ UNCHANGED lspToolsVars PROVE LspToolsNext
  OBVIOUS
<1> QED BY DEF Next, Only

CallStates == {"idle", "resolve", "queued", "running", "sleep"}
CallRecords == [at : CallStates, retry : BOOLEAN, version : 0 .. MaxVersion, life : 0 .. MaxLives]
DocRecords == [text : DocTexts, version : 1 .. MaxVersion, life : 1 .. MaxLives]

Running == {c \in ToolCalls : toolCall[c].at = "running"}
Queued == {c \in ToolCalls : toolCall[c].at = "queued"}

\* No element twice.
Distinct(q) == \A i, k \in 1 .. Len(q) : q[i] = q[k] => i = k

\* What joining and leaving a queue without repetitions does to its elements.
LEMMA AppendDistinct ==
  ASSUME NEW S, NEW q \in Seq(S), NEW c \in S, Distinct(q), c \notin Range(q)
  PROVE  /\ Append(q, c) \in Seq(S) /\ Append(q, c) # <<>>
         /\ Distinct(Append(q, c)) /\ Range(Append(q, c)) = Range(q) \cup {c}
<1>1. PICK n \in Nat : n = Len(q) /\ DOMAIN q = 1 .. n
  OBVIOUS
<1>2. PICK r : r = Append(q, c)
  OBVIOUS
<1>3. r \in Seq(S) /\ Len(r) = n + 1 /\ DOMAIN r = 1 .. n + 1 /\ r # <<>>
  BY <1>1, <1>2
<1>4. r[n + 1] = c /\ \A i \in 1 .. n : r[i] = q[i]
  BY <1>1, <1>2
<1>5. \A i \in 1 .. n : q[i] # c
  BY <1>1 DEF Range
<1>6. \A i, k \in 1 .. n : q[i] = q[k] => i = k
  BY <1>1 DEF Distinct
<1>7. ASSUME NEW i \in 1 .. n + 1, NEW k \in 1 .. n + 1, r[i] = r[k] PROVE i = k
  <2>1. (i \in 1 .. n \/ i = n + 1) /\ (k \in 1 .. n \/ k = n + 1)
    BY <1>1
  <2> QED BY <1>4, <1>5, <1>6, <1>7, <2>1
<1>8. Distinct(r)
  BY <1>3, <1>7 DEF Distinct
<1>9. ASSUME NEW x PROVE x \in Range(r) <=> x \in Range(q) \cup {c}
  <2>1. \A i \in 1 .. n + 1 : i \in 1 .. n \/ i = n + 1
    BY <1>1
  <2>2. 1 .. n \subseteq 1 .. n + 1 /\ n + 1 \in 1 .. n + 1
    BY <1>1
  <2>3. (x \in Range(r) <=> \E i \in 1 .. n + 1 : r[i] = x) /\ (x \in Range(q) <=> \E i \in 1 .. n : q[i] = x)
    BY <1>1, <1>3 DEF Range
  <2> QED BY <1>4, <2>1, <2>2, <2>3
<1> QED BY <1>2, <1>3, <1>8, <1>9

LEMMA TailDistinct ==
  ASSUME NEW S, NEW q \in Seq(S), Distinct(q), q # <<>>
  PROVE  /\ Tail(q) \in Seq(S) /\ Head(q) \in Range(q) /\ Head(q) \in S
         /\ Distinct(Tail(q)) /\ Range(Tail(q)) = Range(q) \ {Head(q)}
<1>1. PICK n \in Nat : n = Len(q) /\ DOMAIN q = 1 .. n /\ n > 0
  OBVIOUS
<1>2. PICK r : r = Tail(q)
  OBVIOUS
<1>3. r \in Seq(S) /\ Len(r) = n - 1 /\ DOMAIN r = 1 .. n - 1
  BY <1>1, <1>2
<1>4. Head(q) = q[1] /\ \A i \in 1 .. n - 1 : r[i] = q[i + 1]
  BY <1>1, <1>2
<1>5. \A i, k \in 1 .. n : q[i] = q[k] => i = k
  BY <1>1 DEF Distinct
<1>6. ASSUME NEW i \in 1 .. n - 1, NEW k \in 1 .. n - 1, r[i] = r[k] PROVE i = k
  <2>1. i + 1 \in 1 .. n /\ k + 1 \in 1 .. n
    BY <1>1
  <2>2. i + 1 = k + 1
    BY <1>4, <1>5, <1>6, <2>1
  <2> QED BY <2>2
<1>7. Distinct(r)
  BY <1>3, <1>6 DEF Distinct
<1>8. 1 \in 1 .. n /\ Head(q) \in Range(q) /\ Head(q) \in S
  BY <1>1, <1>4 DEF Range
<1>9. ASSUME NEW x PROVE x \in Range(r) <=> x \in Range(q) \ {Head(q)}
  <2>1. (x \in Range(r) <=> \E i \in 1 .. n - 1 : r[i] = x) /\ (x \in Range(q) <=> \E i \in 1 .. n : q[i] = x)
    BY <1>1, <1>3 DEF Range
  <2>2. ASSUME NEW i \in 1 .. n - 1, r[i] = x PROVE x \in Range(q) \ {Head(q)}
    <3>1. i + 1 \in 1 .. n /\ i + 1 # 1
      BY <1>1
    <3> QED BY <1>4, <1>5, <1>8, <2>1, <2>2, <3>1
  <2>3. ASSUME NEW i \in 1 .. n, q[i] = x, x # Head(q) PROVE x \in Range(r)
    <3>1. i # 1
      BY <1>4, <2>3
    <3>2. i - 1 \in 1 .. n - 1 /\ (i - 1) + 1 = i
      BY <1>1, <3>1
    <3> QED BY <1>4, <2>1, <2>3, <3>2
  <2> QED BY <2>1, <2>2, <2>3
<1> QED BY <1>2, <1>3, <1>7, <1>8, <1>9

\* The slots and the queue; a call waits in it once.
PoolSound ==
  /\ IsFiniteSet(Running) /\ poolActive = Cardinality(Running) /\ poolActive \in 0 .. MaxInFlight
  /\ poolQueue \in Seq(ToolCalls) /\ Distinct(poolQueue)
  /\ poolQueue # <<>> => poolActive = MaxInFlight
  /\ Range(poolQueue) = Queued

\* What a call resolved, and what the cache holds, is not newer than the document,
\* and what is as new is its text.
NoneIsNewer ==
  /\ \A c \in ToolCalls : toolCall[c].at \in {"queued", "running", "sleep"} =>
       /\ toolCall[c].version \in 1 .. MaxVersion
       /\ toolCall[c].life \in 1 .. symbolDoc.life
       /\ toolCall[c].life = symbolDoc.life => toolCall[c].version <= symbolDoc.version
  /\ symbols # NoSymbols =>
       /\ symbols.life <= symbolDoc.life
       /\ symbols.life = symbolDoc.life =>
            /\ symbols.version <= symbolDoc.version
            /\ symbols.version = symbolDoc.version => symbols.text = symbolDoc.text

LspToolsInv == LspToolsTypeOK /\ PoolSound /\ NoneIsNewer

LEMMA LspToolsStarts == LspToolsInit => LspToolsInv
<1> SUFFICES ASSUME LspToolsInit PROVE LspToolsInv
  OBVIOUS
<1> USE LspToolsAssumption DEF LspToolsInit
<1>1. toolCall \in [ToolCalls -> CallRecords] /\ \A c \in ToolCalls : toolCall[c].at = "idle"
  BY DEF IdleCall, CallRecords, CallStates
<1>2. symbolDoc \in DocRecords /\ symbolDoc.life = 1
  BY DEF DocRecords
<1>3. firstEmpty \in BOOLEAN /\ nonEmptySeen \in BOOLEAN
  OBVIOUS
<1>4. LspToolsTypeOK
  BY <1>1, <1>2, <1>3 DEF LspToolsTypeOK, CallRecords, CallStates, DocRecords
<1>5. PoolSound
  <2>1. Running = {} /\ Queued = {} /\ Range(poolQueue) = {}
    BY <1>1 DEF Running, Queued, Range
  <2> QED BY <2>1, FS_EmptySet DEF PoolSound, Distinct
<1>6. NoneIsNewer
  BY <1>1 DEF NoneIsNewer
<1> QED BY <1>4, <1>5, <1>6 DEF LspToolsInv

\* run(): a call that is neither running nor waiting takes a slot or joins the queue.
LEMMA EnterKeepsPool ==
  ASSUME PoolSound, toolCall \in [ToolCalls -> CallRecords],
         NEW c \in ToolCalls, toolCall[c].at \notin {"running", "queued"},
         NEW calls \in [ToolCalls -> CallRecords],
         \A d \in ToolCalls : calls[d].at = toolCall[d].at,
         EnterPool(c, calls)
  PROVE  /\ PoolSound'
         /\ \E to \in {"running", "queued"} : toolCall' = [calls EXCEPT ![c].at = to]
<1> USE LspToolsAssumption DEF CallRecords, CallStates
<1>1. CASE poolActive < MaxInFlight
  <2>1. /\ poolActive' = poolActive + 1 /\ poolQueue' = poolQueue
        /\ toolCall' = [calls EXCEPT ![c].at = "running"]
    BY <1>1 DEF EnterPool
  <2>2. \A d \in ToolCalls : toolCall'[d].at = IF d = c THEN "running" ELSE toolCall[d].at
    BY <2>1
  <2>3. Running' = Running \cup {c} /\ c \notin Running /\ Queued' = Queued
    BY <2>2 DEF Running, Queued
  <2>4. IsFiniteSet(Running') /\ Cardinality(Running') = Cardinality(Running) + 1
    BY <2>3, FS_AddElement DEF PoolSound
  <2>5. poolActive' \in 0 .. MaxInFlight /\ poolQueue = <<>>
    BY <1>1, <2>1 DEF PoolSound
  <2>6. Range(poolQueue') = Queued'
    BY <2>1, <2>3 DEF PoolSound
  <2>7. PoolSound'
    BY <2>1, <2>4, <2>5, <2>6 DEF PoolSound
  <2> QED BY <2>1, <2>7
<1>2. CASE ~ poolActive < MaxInFlight
  <2>1. /\ poolActive' = poolActive /\ poolQueue' = Append(poolQueue, c)
        /\ toolCall' = [calls EXCEPT ![c].at = "queued"]
    BY <1>2 DEF EnterPool
  <2>2. \A d \in ToolCalls : toolCall'[d].at = IF d = c THEN "queued" ELSE toolCall[d].at
    BY <2>1
  <2>3. Running' = Running /\ Queued' = Queued \cup {c} /\ c \notin Queued
    BY <2>2 DEF Running, Queued
  <2>4. poolQueue \in Seq(ToolCalls) /\ Range(poolQueue) = Queued /\ Distinct(poolQueue)
    BY DEF PoolSound
  <2>5. /\ poolQueue' \in Seq(ToolCalls) /\ poolQueue' # <<>>
        /\ Distinct(poolQueue') /\ Range(poolQueue') = Queued'
    BY <2>1, <2>3, <2>4, AppendDistinct
  <2>6. poolActive' = MaxInFlight
    BY <1>2, <2>1 DEF PoolSound
  <2>7. PoolSound'
    BY <2>1, <2>3, <2>5, <2>6 DEF PoolSound
  <2> QED BY <2>1, <2>7
<1> QED BY <1>1, <1>2

\* The end of a run: the first call that waits takes over its slot.
LEMMA LeaveKeepsPool ==
  ASSUME PoolSound, toolCall \in [ToolCalls -> CallRecords],
         NEW c \in ToolCalls, toolCall[c].at = "running",
         NEW calls \in [ToolCalls -> CallRecords],
         \A d \in ToolCalls \ {c} : calls[d].at = toolCall[d].at,
         calls[c].at \in {"idle", "sleep"},
         LeavePool(calls)
  PROVE  /\ PoolSound'
         /\ \/ toolCall' = calls
            \/ \E d \in ToolCalls : /\ d # c /\ toolCall[d].at = "queued"
                                    /\ toolCall' = [calls EXCEPT ![d].at = "running"]
<1> USE LspToolsAssumption DEF CallRecords, CallStates
<1>0. /\ c \in Running /\ IsFiniteSet(Running) /\ poolActive = Cardinality(Running)
      /\ poolQueue \in Seq(ToolCalls) /\ Range(poolQueue) = Queued
      /\ Distinct(poolQueue)
  BY DEF PoolSound, Running
<1>1. IsFiniteSet(Running \ {c}) /\ Cardinality(Running \ {c}) = Cardinality(Running) - 1
  BY <1>0, FS_RemoveElement
<1>2. CASE poolQueue = <<>>
  <2>1. toolCall' = calls /\ poolActive' = poolActive - 1 /\ poolQueue' = poolQueue
    BY <1>2 DEF LeavePool
  <2>2. Running' = Running \ {c} /\ Queued' = Queued
    BY <2>1 DEF Running, Queued
  <2>3. poolActive' \in 0 .. MaxInFlight
    <3>1. Cardinality(Running \ {c}) \in Nat
      BY <1>1, FS_CardinalityType
    <3> QED BY <1>0, <1>1, <2>1, <3>1 DEF PoolSound
  <2>4. PoolSound'
    BY <1>0, <1>1, <1>2, <2>1, <2>2, <2>3 DEF PoolSound
  <2> QED BY <2>1, <2>4
<1>3. CASE poolQueue # <<>>
  <2> DEFINE d == Head(poolQueue)
  <2>1. /\ toolCall' = [calls EXCEPT ![d].at = "running"]
        /\ poolQueue' = Tail(poolQueue) /\ poolActive' = poolActive
    BY <1>3 DEF LeavePool
  <2>2. /\ poolQueue' \in Seq(ToolCalls) /\ d \in Range(poolQueue) /\ d \in ToolCalls
        /\ Distinct(poolQueue') /\ Range(poolQueue') = Range(poolQueue) \ {d}
    BY <1>0, <1>3, <2>1, TailDistinct
  <2>3. d \in Queued /\ toolCall[d].at = "queued" /\ d # c
    BY <1>0, <2>2 DEF Queued
  <2> HIDE DEF d
  <2>4. \A b \in ToolCalls : toolCall'[b].at = IF b = d THEN "running" ELSE calls[b].at
    BY <2>1, <2>3
  <2>5. Running' = (Running \ {c}) \cup {d} /\ d \notin Running
    BY <2>3, <2>4 DEF Running, Queued
  <2>6. Queued' = Queued \ {d}
    BY <2>3, <2>4 DEF Queued
  <2>7. IsFiniteSet(Running') /\ Cardinality(Running') = Cardinality(Running \ {c}) + 1
    BY <1>1, <2>5, FS_AddElement
  <2>8. Cardinality(Running') = Cardinality(Running)
    BY <1>0, <1>1, <2>7, FS_CardinalityType
  <2>9. PoolSound'
    BY <1>0, <1>3, <2>1, <2>2, <2>6, <2>7, <2>8 DEF PoolSound
  <2> QED BY <2>1, <2>2, <2>3, <2>9
<1> QED BY <1>2, <1>3

LEMMA LspToolsStep == LspToolsInv /\ [LspToolsNext]_lspToolsVars => LspToolsInv'
<1> SUFFICES ASSUME LspToolsInv, [LspToolsNext]_lspToolsVars PROVE LspToolsInv'
  OBVIOUS
<1> USE LspToolsAssumption
<1>0. /\ toolCall \in [ToolCalls -> CallRecords] /\ symbolDoc \in DocRecords
      /\ (symbols = NoSymbols \/ symbols \in DocRecords)
      /\ firstEmpty \in BOOLEAN /\ nonEmptySeen \in BOOLEAN /\ PoolSound /\ NoneIsNewer
  BY DEF LspToolsInv, LspToolsTypeOK, CallRecords, CallStates, DocRecords
<1>T. ASSUME toolCall' \in [ToolCalls -> CallRecords], symbolDoc' \in DocRecords,
             symbols' = NoSymbols \/ symbols' \in DocRecords,
             firstEmpty' \in BOOLEAN, nonEmptySeen' \in BOOLEAN, PoolSound', NoneIsNewer'
      PROVE  LspToolsInv'
  <2>1. LspToolsTypeOK'
    BY <1>T DEF LspToolsTypeOK, CallRecords, CallStates, DocRecords, PoolSound
  <2> QED BY <1>T, <2>1 DEF LspToolsInv

\* A step that leaves the document and the cache alone, and the calls that wait or
\* run with what they resolved.
<1>K. ASSUME toolCall' \in [ToolCalls -> CallRecords], UNCHANGED <<symbolDoc, symbols>>,
             \A d \in ToolCalls : toolCall'[d].at \in {"queued", "running", "sleep"} =>
               \/ /\ toolCall'[d].version = symbolDoc.version
                  /\ toolCall'[d].life = symbolDoc.life
               \/ /\ toolCall[d].at \in {"queued", "running", "sleep"}
                  /\ toolCall'[d].version = toolCall[d].version
                  /\ toolCall'[d].life = toolCall[d].life
      PROVE  NoneIsNewer'
  BY <1>0, <1>K DEF NoneIsNewer, DocRecords
<1>P. ASSUME UNCHANGED <<toolCall, poolActive, poolQueue>> PROVE PoolSound'
  BY <1>0, <1>P DEF PoolSound, Running, Queued
<1>1. CASE EditDocument
  <2>1. PICK new \in DocTexts :
          /\ symbolDoc.version < MaxVersion
          /\ symbolDoc' = [symbolDoc EXCEPT !.text = new, !.version = @ + 1]
    BY <1>1 DEF EditDocument
  <2>2. UNCHANGED <<toolCall, poolActive, poolQueue, symbols, firstEmpty, nonEmptySeen>>
    BY <1>1 DEF EditDocument
  <2>3. symbolDoc' \in DocRecords /\ symbolDoc'.version = symbolDoc.version + 1 /\ symbolDoc'.life = symbolDoc.life
    <3>1. symbolDoc' = [text |-> new, version |-> symbolDoc.version + 1, life |-> symbolDoc.life]
      BY <1>0, <2>1 DEF DocRecords
    <3> QED BY <1>0, <2>1, <3>1 DEF DocRecords
  <2>4. NoneIsNewer'
    <3>1. symbols # NoSymbols => symbols.version \in Nat /\ symbols.life \in Nat
      BY <1>0 DEF DocRecords
    <3>2. symbolDoc.version \in Nat /\ symbolDoc.life \in Nat
      BY <1>0 DEF DocRecords
    <3>3. \A c \in ToolCalls : toolCall[c].version \in Nat /\ toolCall[c].life \in Nat
      BY <1>0 DEF CallRecords
    <3> QED BY <1>0, <2>2, <2>3, <3>1, <3>2, <3>3 DEF NoneIsNewer
  <2> QED BY <1>0, <1>T, <1>P, <2>2, <2>3, <2>4
<1>2. CASE ReopenDocument
  <2>1. PICK new \in DocTexts :
          /\ symbolDoc.life < MaxLives
          /\ symbolDoc' = [text |-> new, version |-> 1, life |-> symbolDoc.life + 1]
    BY <1>2 DEF ReopenDocument
  <2>2. UNCHANGED <<toolCall, poolActive, poolQueue, symbols, firstEmpty, nonEmptySeen>>
    BY <1>2 DEF ReopenDocument
  <2>3. symbolDoc' \in DocRecords /\ symbolDoc'.life = symbolDoc.life + 1
    BY <1>0, <2>1 DEF DocRecords
  <2>4. NoneIsNewer'
    <3>1. symbols # NoSymbols => symbols.version \in Nat /\ symbols.life \in Nat
      BY <1>0 DEF DocRecords
    <3>2. symbolDoc.version \in Nat /\ symbolDoc.life \in Nat
      BY <1>0 DEF DocRecords
    <3>3. \A c \in ToolCalls : toolCall[c].version \in Nat /\ toolCall[c].life \in Nat
      BY <1>0 DEF CallRecords
    <3> QED BY <1>0, <2>2, <2>3, <3>1, <3>2, <3>3 DEF NoneIsNewer
  <2> QED BY <1>0, <1>T, <1>P, <2>2, <2>3, <2>4
<1>3. CASE EvictSymbols
  <2>1. /\ symbols' = NoSymbols
        /\ UNCHANGED <<toolCall, poolActive, poolQueue, symbolDoc, firstEmpty, nonEmptySeen>>
    BY <1>3 DEF EvictSymbols
  <2>2. NoneIsNewer'
    BY <1>0, <2>1 DEF NoneIsNewer
  <2> QED BY <1>0, <1>T, <1>P, <2>1, <2>2
<1>4. ASSUME NEW c \in ToolCalls, CallTool(c) \/ PathRefused(c) PROVE LspToolsInv'
  <2>1. PICK call \in CallRecords :
          /\ call.at \in {"idle", "resolve"} /\ toolCall[c].at \in {"idle", "resolve"}
          /\ toolCall' = [toolCall EXCEPT ![c] = call]
    <3>1. IdleCall \in CallRecords /\ IdleCall.at = "idle"
      BY DEF IdleCall, CallRecords, CallStates
    <3>2. [toolCall[c] EXCEPT !.at = "resolve"] \in CallRecords
      BY <1>0 DEF CallRecords, CallStates
    <3>3. CASE CallTool(c)
      <4>1. PICK call : call = [toolCall[c] EXCEPT !.at = "resolve"]
        OBVIOUS
      <4>2. toolCall' = [toolCall EXCEPT ![c] = call] /\ toolCall[c].at = "idle"
        BY <1>0, <3>3, <4>1 DEF CallTool
      <4>3. call \in CallRecords /\ call.at = "resolve"
        BY <1>0, <3>2, <4>1 DEF CallRecords
      <4> QED BY <4>2, <4>3
    <3>4. CASE PathRefused(c)
      BY <3>1, <3>4 DEF PathRefused
    <3> QED BY <1>4, <3>3, <3>4
  <2>2. UNCHANGED <<poolActive, poolQueue, symbolDoc, symbols, firstEmpty, nonEmptySeen>>
    BY <1>4 DEF CallTool, PathRefused
  <2>3. toolCall' \in [ToolCalls -> CallRecords] /\ toolCall'[c] = call
        /\ \A d \in ToolCalls \ {c} : toolCall'[d] = toolCall[d]
    BY <1>0, <2>1
  <2>4. Running' = Running /\ Queued' = Queued
    BY <2>1, <2>3 DEF Running, Queued
  <2>5. PoolSound'
    BY <1>0, <2>2, <2>4 DEF PoolSound
  <2>6. NoneIsNewer'
    BY <1>K, <2>1, <2>2, <2>3
  <2> QED BY <1>0, <1>T, <2>2, <2>3, <2>5, <2>6
<1>5. ASSUME NEW c \in ToolCalls, PathResolved(c) PROVE LspToolsInv'
  <2>1. UNCHANGED <<symbolDoc, symbols, firstEmpty, nonEmptySeen>> /\ toolCall[c].at = "resolve"
    BY <1>5 DEF PathResolved
  <2>2. CASE Cached
    <3>1. toolCall' = [toolCall EXCEPT ![c] = IdleCall] /\ UNCHANGED <<poolActive, poolQueue>>
      BY <1>5, <2>2 DEF PathResolved
    <3>2. PathRefused(c)
      BY <2>1, <3>1 DEF PathRefused
    <3> QED BY <1>4, <3>2
  <2>3. CASE ~ Cached
    <3>1. PICK calls : calls = [toolCall EXCEPT ![c].version = symbolDoc.version, ![c].life = symbolDoc.life]
      OBVIOUS
    <3>2. EnterPool(c, calls)
      BY <1>5, <2>3, <3>1 DEF PathResolved
    <3>3. /\ calls \in [ToolCalls -> CallRecords]
          /\ \A d \in ToolCalls : calls[d].at = toolCall[d].at
          /\ calls[c].version = symbolDoc.version /\ calls[c].life = symbolDoc.life
          /\ \A d \in ToolCalls \ {c} : calls[d] = toolCall[d]
      <4>1. calls = [toolCall EXCEPT ![c] = [at |-> toolCall[c].at, retry |-> toolCall[c].retry,
                                             version |-> symbolDoc.version, life |-> symbolDoc.life]]
        <5>1. PICK r : r = toolCall[c] /\ r \in CallRecords
          BY <1>0
        <5>2. [[r EXCEPT !.version = symbolDoc.version] EXCEPT !.life = symbolDoc.life]
                = [at |-> r.at, retry |-> r.retry, version |-> symbolDoc.version, life |-> symbolDoc.life]
          <6>1. [r EXCEPT !.version = symbolDoc.version]
                  = [at |-> r.at, retry |-> r.retry, version |-> symbolDoc.version, life |-> r.life]
            BY <5>1 DEF CallRecords
          <6>2. PICK q : q = [at |-> r.at, retry |-> r.retry, version |-> symbolDoc.version,
                              life |-> r.life]
            OBVIOUS
          <6>3. [q EXCEPT !.life = symbolDoc.life]
                  = [at |-> r.at, retry |-> r.retry, version |-> symbolDoc.version,
                     life |-> symbolDoc.life]
            BY <6>2
          <6> QED BY <6>1, <6>2, <6>3
        <5>3. calls = [toolCall EXCEPT ![c] =
                         [[r EXCEPT !.version = symbolDoc.version] EXCEPT !.life = symbolDoc.life]]
          BY <1>0, <3>1, <5>1
        <5> QED BY <5>1, <5>2, <5>3
      <4>2. symbolDoc.version \in 0 .. MaxVersion /\ symbolDoc.life \in 0 .. MaxLives
        BY <1>0 DEF DocRecords
      <4>3. [at |-> toolCall[c].at, retry |-> toolCall[c].retry,
             version |-> symbolDoc.version, life |-> symbolDoc.life] \in CallRecords
        BY <1>0, <4>2 DEF CallRecords
      <4> QED BY <1>0, <4>1, <4>3
    <3>4. PoolSound' /\ \E to \in {"running", "queued"} : toolCall' = [calls EXCEPT ![c].at = to]
      BY <1>0, <2>1, <3>2, <3>3, EnterKeepsPool
    <3>5. /\ toolCall' \in [ToolCalls -> CallRecords]
          /\ toolCall'[c].version = symbolDoc.version /\ toolCall'[c].life = symbolDoc.life
          /\ \A d \in ToolCalls \ {c} : toolCall'[d] = toolCall[d]
      BY <3>3, <3>4 DEF CallRecords, CallStates
    <3>6. NoneIsNewer'
      BY <1>K, <2>1, <3>5
    <3> QED BY <1>0, <1>T, <2>1, <3>4, <3>5, <3>6
  <2> QED BY <2>2, <2>3
<1>6. ASSUME NEW c \in ToolCalls, RetryCall(c) PROVE LspToolsInv'
  <2>1. /\ UNCHANGED <<symbolDoc, symbols, firstEmpty, nonEmptySeen>> /\ toolCall[c].at = "sleep"
        /\ EnterPool(c, toolCall)
    BY <1>6 DEF RetryCall
  <2>2. PoolSound' /\ \E to \in {"running", "queued"} : toolCall' = [toolCall EXCEPT ![c].at = to]
    BY <1>0, <2>1, EnterKeepsPool
  <2>3. /\ toolCall' \in [ToolCalls -> CallRecords]
        /\ toolCall'[c].version = toolCall[c].version /\ toolCall'[c].life = toolCall[c].life
        /\ \A d \in ToolCalls \ {c} : toolCall'[d] = toolCall[d]
    BY <1>0, <2>2 DEF CallRecords, CallStates
  <2>4. NoneIsNewer'
    BY <1>K, <2>1, <2>3
  <2> QED BY <1>0, <1>T, <2>1, <2>2, <2>3, <2>4

\* The three ends of a run.
<1>7. ASSUME NEW c \in ToolCalls, toolCall[c].at = "running",
             NEW call \in CallRecords, call.at \in {"idle", "sleep"},
             call.at = "sleep" => /\ call.version = toolCall[c].version
                                  /\ call.life = toolCall[c].life,
             LeavePool([toolCall EXCEPT ![c] = call])
      PROVE  /\ PoolSound' /\ toolCall' \in [ToolCalls -> CallRecords]
             /\ \A d \in ToolCalls : toolCall'[d].at \in {"queued", "running", "sleep"} =>
                  /\ toolCall[d].at \in {"queued", "running", "sleep"}
                  /\ toolCall'[d].version = toolCall[d].version
                  /\ toolCall'[d].life = toolCall[d].life
  <2>1. PICK calls : calls = [toolCall EXCEPT ![c] = call]
    OBVIOUS
  <2>2. /\ calls \in [ToolCalls -> CallRecords] /\ calls[c] = call
        /\ \A d \in ToolCalls \ {c} : calls[d] = toolCall[d]
    BY <1>0, <2>1
  <2>3. LeavePool(calls)
    BY <1>7, <2>1
  <2>4. /\ PoolSound'
        /\ \/ toolCall' = calls
           \/ \E d \in ToolCalls : /\ d # c /\ toolCall[d].at = "queued"
                                   /\ toolCall' = [calls EXCEPT ![d].at = "running"]
    <3>1. PoolSound /\ toolCall \in [ToolCalls -> CallRecords] /\ toolCall[c].at = "running"
      BY <1>0, <1>7
    <3>2. \A d \in ToolCalls \ {c} : calls[d].at = toolCall[d].at
      BY <2>2
    <3>3. calls[c].at \in {"idle", "sleep"} /\ calls \in [ToolCalls -> CallRecords]
      BY <1>7, <2>2
    <3> QED BY <2>3, <3>1, <3>2, <3>3, LeaveKeepsPool
  <2>5. CASE toolCall' = calls
    <3>1. toolCall' \in [ToolCalls -> CallRecords] /\ toolCall'[c] = call
          /\ \A d \in ToolCalls \ {c} : toolCall'[d] = toolCall[d]
      BY <2>2, <2>5
    <3>2. ASSUME NEW d \in ToolCalls, toolCall'[d].at \in {"queued", "running", "sleep"}
          PROVE  /\ toolCall[d].at \in {"queued", "running", "sleep"}
                 /\ toolCall'[d].version = toolCall[d].version
                 /\ toolCall'[d].life = toolCall[d].life
      <4>1. CASE d = c
        BY <1>7, <3>1, <3>2, <4>1
      <4>2. CASE d # c
        BY <3>1, <3>2, <4>2
      <4> QED BY <4>1, <4>2
    <3> QED BY <2>4, <3>1, <3>2
  <2>6. ASSUME NEW d \in ToolCalls, d # c, toolCall[d].at = "queued",
               toolCall' = [calls EXCEPT ![d].at = "running"]
        PROVE  /\ toolCall' \in [ToolCalls -> CallRecords]
               /\ \A b \in ToolCalls : toolCall'[b].at \in {"queued", "running", "sleep"} =>
                    /\ toolCall[b].at \in {"queued", "running", "sleep"}
                    /\ toolCall'[b].version = toolCall[b].version
                    /\ toolCall'[b].life = toolCall[b].life
    BY <1>7, <2>2, <2>6 DEF CallRecords, CallStates
  <2> QED BY <2>4, <2>5, <2>6
<1>8. IdleCall \in CallRecords /\ IdleCall.at = "idle"
  BY DEF IdleCall, CallRecords, CallStates
<1>9. ASSUME NEW c \in ToolCalls, CallFails(c) PROVE LspToolsInv'
  <2>1. /\ toolCall[c].at = "running" /\ LeavePool([toolCall EXCEPT ![c] = IdleCall])
        /\ UNCHANGED <<symbolDoc, symbols, firstEmpty, nonEmptySeen>>
    BY <1>9 DEF CallFails
  <2>2. NoneIsNewer'
    BY <1>7, <1>8, <1>K, <2>1
  <2> QED BY <1>0, <1>7, <1>8, <1>T, <2>1, <2>2
<1>10. ASSUME NEW c \in ToolCalls, NothingFound(c) PROVE LspToolsInv'
  <2>1. PICK call \in CallRecords :
          /\ call.at \in {"idle", "sleep"}
          /\ call.at = "sleep" => /\ call.version = toolCall[c].version
                                  /\ call.life = toolCall[c].life
          /\ LeavePool([toolCall EXCEPT ![c] = call])
    <3> DEFINE again == ~ toolCall[c].retry /\ ~ nonEmptySeen /\ ~ firstEmpty
    <3>1. LeavePool([toolCall EXCEPT ![c] = IF again THEN [@ EXCEPT !.at = "sleep", !.retry = TRUE]
                                            ELSE IdleCall])
      BY <1>10 DEF NothingFound
    <3>2. CASE again
      <4>1. PICK call : call = [toolCall[c] EXCEPT !.at = "sleep", !.retry = TRUE]
        OBVIOUS
      <4>2. /\ call \in CallRecords /\ call.at = "sleep"
            /\ call.version = toolCall[c].version /\ call.life = toolCall[c].life
        BY <1>0, <4>1 DEF CallRecords, CallStates
      <4>3. LeavePool([toolCall EXCEPT ![c] = call])
        BY <1>0, <3>1, <3>2, <4>1
      <4> QED BY <4>2, <4>3
    <3>3. CASE ~ again
      BY <1>0, <1>8, <3>1, <3>3
    <3> QED BY <3>2, <3>3
  <2>2. toolCall[c].at = "running" /\ UNCHANGED <<symbolDoc, symbols, nonEmptySeen>>
    BY <1>10 DEF NothingFound
  <2>3. firstEmpty' \in BOOLEAN
    BY <1>0, <1>10 DEF NothingFound
  <2>4. /\ PoolSound' /\ toolCall' \in [ToolCalls -> CallRecords]
        /\ \A d \in ToolCalls : toolCall'[d].at \in {"queued", "running", "sleep"} =>
             /\ toolCall[d].at \in {"queued", "running", "sleep"}
             /\ toolCall'[d].version = toolCall[d].version
             /\ toolCall'[d].life = toolCall[d].life
    BY <1>7, <2>1, <2>2
  <2>5. NoneIsNewer'
    BY <1>K, <2>2, <2>4
  <2> QED BY <1>0, <1>T, <2>2, <2>3, <2>4, <2>5
<1>11. ASSUME NEW c \in ToolCalls, SymbolsFound(c) PROVE LspToolsInv'
  <2>1. /\ toolCall[c].at = "running" /\ LeavePool([toolCall EXCEPT ![c] = IdleCall])
        /\ symbols' = Entry(c) /\ UNCHANGED <<symbolDoc, firstEmpty>>
    BY <1>11 DEF SymbolsFound
  <2>2. nonEmptySeen' \in BOOLEAN
    BY <1>11 DEF SymbolsFound
  <2>3. /\ PoolSound' /\ toolCall' \in [ToolCalls -> CallRecords]
        /\ \A d \in ToolCalls : toolCall'[d].at \in {"queued", "running", "sleep"} =>
             /\ toolCall[d].at \in {"queued", "running", "sleep"}
             /\ toolCall'[d].version = toolCall[d].version
             /\ toolCall'[d].life = toolCall[d].life
    BY <1>7, <1>8, <2>1
  <2>4. /\ toolCall[c].version \in 1 .. MaxVersion /\ toolCall[c].life \in 1 .. symbolDoc.life
        /\ toolCall[c].life = symbolDoc.life => toolCall[c].version <= symbolDoc.version
    BY <1>0, <2>1 DEF NoneIsNewer
  <2>5. /\ symbols'.text = symbolDoc.text /\ symbols'.version = toolCall[c].version
        /\ symbols'.life = toolCall[c].life
    BY <2>1 DEF Entry
  <2>6. symbols' \in DocRecords
    BY <1>0, <2>1, <2>4 DEF Entry, DocRecords
  <2>7. NoneIsNewer'
    <3>1. symbolDoc.life \in Nat /\ toolCall[c].life \in Nat
      BY <1>0, <2>4 DEF DocRecords
    <3> QED BY <1>0, <2>1, <2>3, <2>4, <2>5, <3>1 DEF NoneIsNewer
  <2> QED BY <1>0, <1>T, <2>1, <2>2, <2>3, <2>6, <2>7
<1>12. CASE UNCHANGED lspToolsVars
  <2>1. UNCHANGED <<toolCall, poolActive, poolQueue, symbolDoc, symbols, firstEmpty, nonEmptySeen>>
    BY <1>12 DEF lspToolsVars
  <2>2. NoneIsNewer'
    BY <1>0, <1>K, <2>1
  <2> QED BY <1>0, <1>P, <1>T, <2>1, <2>2
<1> QED
  BY <1>1, <1>2, <1>3, <1>4, <1>5, <1>6, <1>9, <1>10, <1>11, <1>12 DEF LspToolsNext

\* The host and the tools of the language server: advertised only while it is
\* there, no slot lost, and nothing stale served from the cache, but for a document
\* opened anew.
THEOREM ServerOfToolsIsHonest == Spec => []LspIsHonest
<1>1. Init => LspHostInv /\ LspToolsInv
  BY LspHostStarts, LspToolsStarts DEF Init
<1>2. LspHostInv /\ LspToolsInv /\ [Next]_vars => (LspHostInv /\ LspToolsInv)'
  <2>1. UNCHANGED vars => UNCHANGED lspHostVars /\ UNCHANGED lspToolsVars
    BY DEF vars
  <2> QED BY <2>1, LspHostSteps, LspToolsSteps, LspHostStep, LspToolsStep
<1>3. LspHostInv /\ LspToolsInv => LspIsHonest
  <2> SUFFICES ASSUME LspHostInv, LspToolsInv PROVE LspIsHonest
    OBVIOUS
  <2>1. ServerIsOurs
    BY DEF LspHostInv
  <2>2. PoolSound /\ NoneIsNewer
    BY DEF LspToolsInv
  <2>3. SymbolsAreCurrent
    BY <2>2 DEF SymbolsAreCurrent, PoolSound, NoneIsNewer, Running, Queued, Cached
  <2> QED BY <2>1, <2>3 DEF LspIsHonest
<1> QED BY <1>1, <1>2, <1>3, PTL DEF Spec

-------------------------------------------------------------------------------
\* The registry of the trackers.

LEMMA RegistrySteps == Next => [RegistryNext]_registryVars
<1> SUFFICES ASSUME Next, ~ UNCHANGED registryVars PROVE RegistryNext
  OBVIOUS
<1> QED BY DEF Next, Only

\* One tracker for each root, and none for a root whose current one failed.
OneTrackerPerRoot ==
  /\ \A t, u \in trackers : t[1] = u[1] => t = u
  /\ initFailed \cap Tracked = {}

\* What a pass has still to do for the folders it read: while it adds, the roots it
\* misses are in its list or failed; when it removes, the roots nobody asked for are.
PassOwes ==
  LET roots == Desired(pass.list)
  IN /\ pass.phase = "adding" => roots \subseteq Tracked \cup initFailed \cup pass.todo
     /\ pass.phase = "removing" =>
          /\ roots \subseteq Tracked \cup initFailed
          /\ Tracked \subseteq roots \cup pass.todo /\ pass.todo \cap roots = {}

\* The pass that no other one follows read the folders of now.
LastPass ==
  /\ reconciles \in Nat /\ pass.phase \in {"idle", "adding", "removing"}
  /\ reconciles = 0 /\ pass.phase # "idle" => pass.list = folders
  /\ reconciles = 0 /\ pass.phase = "idle" =>
       /\ Desired(folders) \subseteq Tracked \cup initFailed
       /\ Tracked \subseteq Desired(folders)

RegistryInv == OneTrackerPerRoot /\ (~ disposal.on => PassOwes /\ LastPass)

LEMMA RegistryStarts == RegistryInit => RegistryInv
<1> QED BY DEF RegistryInit, RegistryInv, OneTrackerPerRoot, PassOwes, LastPass, NoPass, Tracked

LEMMA RegistryStep == RegistryInv /\ [RegistryNext]_registryVars => RegistryInv'
<1> SUFFICES ASSUME RegistryInv, [RegistryNext]_registryVars PROVE RegistryInv'
  OBVIOUS
<1> USE DEF RegistryInv
<1>1. CASE ChangeFolders
  BY <1>1 DEF ChangeFolders, OneTrackerPerRoot, PassOwes, LastPass, Tracked
<1>2. CASE PassStart
  BY <1>2 DEF PassStart, OneTrackerPerRoot, PassOwes, LastPass, Tracked, NoPass
<1>3. CASE PassAdds
  BY <1>3 DEF PassAdds, OneTrackerPerRoot, PassOwes, LastPass, Tracked
<1>4. CASE PassSkips
  BY <1>4 DEF PassSkips, OneTrackerPerRoot, PassOwes, LastPass, Tracked
<1>5. CASE PassAdded
  BY <1>5 DEF PassAdded, OneTrackerPerRoot, PassOwes, LastPass, Tracked
<1>6. CASE PassRemoves
  BY <1>6 DEF PassRemoves, RemoveRoot, OneTrackerPerRoot, PassOwes, LastPass, Tracked
<1>7. CASE PassEnd
  BY <1>7 DEF PassEnd, OneTrackerPerRoot, PassOwes, LastPass, Tracked, NoPass
<1>8. CASE Deactivate
  BY <1>8 DEF Deactivate, OneTrackerPerRoot, Tracked
<1>9. CASE DisposalRemoves
  BY <1>9 DEF DisposalRemoves, RemoveRoot, OneTrackerPerRoot, Tracked
<1>10. ASSUME NEW t \in Instances, Flushed(t) PROVE RegistryInv'
  BY <1>10 DEF Flushed, OneTrackerPerRoot, PassOwes, LastPass, Tracked
<1>11. ASSUME NEW t \in Instances, InitSucceeds(t) PROVE RegistryInv'
  BY <1>11 DEF InitSucceeds, OneTrackerPerRoot, PassOwes, LastPass, Tracked
<1>12. ASSUME NEW t \in Instances, InitFails(t) PROVE RegistryInv'
  BY <1>12 DEF InitFails, OneTrackerPerRoot, PassOwes, LastPass, Tracked
<1>13. CASE UNCHANGED registryVars
  BY <1>13 DEF registryVars, OneTrackerPerRoot, PassOwes, LastPass, Tracked
<1> QED
  BY <1>1, <1>2, <1>3, <1>4, <1>5, <1>6, <1>7, <1>8, <1>9, <1>10, <1>11, <1>12, <1>13
  DEF RegistryNext

\* When the folders have settled, the trackers are those the folders ask for, but
\* for those whose own init failed.
THEOREM TrackersFollowFolders == Spec => []RegistryMatchesFolders
<1>1. Init => RegistryInv
  BY RegistryStarts DEF Init
<1>2. RegistryInv /\ [Next]_vars => RegistryInv'
  <2>1. UNCHANGED vars => UNCHANGED registryVars
    BY DEF vars
  <2> QED BY <2>1, RegistrySteps, RegistryStep
<1>3. RegistryInv => RegistryMatchesFolders
  BY DEF RegistryInv, OneTrackerPerRoot, LastPass, RegistryMatchesFolders
<1> QED BY <1>1, <1>2, <1>3, PTL DEF Spec

-------------------------------------------------------------------------------
\* The key of the completions.

LEMMA ApiKeySteps == Next => [ApiKeyNext]_keyVars
<1> SUFFICES ASSUME Next, ~ UNCHANGED keyVars PROVE ApiKeyNext
  OBVIOUS
<1> QED BY DEF Next, Only

\* The reads of the listener: one for each sequence number, none ahead of the newest.
ReadsAreNumbered ==
  /\ keyRefreshSeq \in Nat \ {0} /\ keyEvents \in Nat
  /\ \A r \in keyReads : r[1] \in 2 .. keyRefreshSeq
  /\ \A r, q \in keyReads : r[1] = q[1] => r = q

\* When no event is left, the newest read brings what is stored, has brought it, or
\* failed: the read of the activation as long as there is no other.
NewestBringsStored ==
  keyEvents = 0 =>
    /\ keyRefreshSeq = 1 =>
         /\ initKey.at \in {"clear", "arrive"} => initKey.key = storedKey
         /\ initKey.at = "done" /\ ~ keyLost => apiKey = storedKey
    /\ keyRefreshSeq # 1 =>
         \/ \E r \in keyReads : r[1] = keyRefreshSeq
         \/ keyLost \/ apiKey = storedKey
    /\ \A r \in keyReads : r[1] = keyRefreshSeq => r[2] \in {-1, storedKey}

\* The setting is cleared only for a key that the storage handed back, and it still
\* holds a key then; without a keyring, that it was handed back is noted.
ClearedWhenReadBack ==
  /\ initKey.at = "clear" => (keyring \/ inMemory # "unread") /\ (wanted => storedKey # 0)
  /\ initKey.at = "store" => initKey.key # 0
  /\ inMemory \in {"unread", "readBack", "wiped"}
  /\ clearing => ~ wanted
  /\ initKey.at \in {"get", "store", "clear", "arrive", "done"}

KeyInv == ReadsAreNumbered /\ NewestBringsStored /\ ClearedWhenReadBack /\ KeySurvives

LEMMA ApiKeyStarts == ApiKeyInit => KeyInv
<1> SUFFICES ASSUME ApiKeyInit PROVE KeyInv
  OBVIOUS
<1>1. ReadsAreNumbered /\ NewestBringsStored
  BY DEF ApiKeyInit, ReadsAreNumbered, NewestBringsStored
<1>2. ClearedWhenReadBack
  BY DEF ApiKeyInit, ClearedWhenReadBack
<1>3. wanted => setting # 0
  BY DEF ApiKeyInit
<1> QED BY <1>1, <1>2, <1>3 DEF KeyInv, KeySurvives

\* A key is stored, or deleted: there is an event to come.
LEMMA StoredKeepsReads ==
  ASSUME ReadsAreNumbered, NEW k, Stored(k)
  PROVE  ReadsAreNumbered' /\ NewestBringsStored'
<1> QED BY DEF Stored, ReadsAreNumbered, NewestBringsStored

LEMMA ApiKeyStep == KeyInv /\ [ApiKeyNext]_keyVars => KeyInv'
<1> SUFFICES ASSUME KeyInv, [ApiKeyNext]_keyVars PROVE KeyInv'
  OBVIOUS
<1>0. ReadsAreNumbered /\ NewestBringsStored /\ ClearedWhenReadBack /\ KeySurvives
  BY DEF KeyInv
<1>1. CASE InitGets
  <2>1. ReadsAreNumbered'
    BY <1>0, <1>1 DEF InitGets, ReadsAreNumbered
  <2>2. NewestBringsStored'
    BY <1>0, <1>1 DEF InitGets, NewestBringsStored
  <2>3. ClearedWhenReadBack' /\ KeySurvives'
    BY <1>0, <1>1 DEF InitGets, ReadBack, ClearedWhenReadBack, KeySurvives
  <2> QED BY <2>1, <2>2, <2>3 DEF KeyInv
<1>2. CASE InitStores
  <2>1. ReadsAreNumbered' /\ NewestBringsStored'
    BY <1>0, <1>2, StoredKeepsReads DEF InitStores
  <2>2. ClearedWhenReadBack' /\ KeySurvives'
    BY <1>0, <1>2 DEF InitStores, Stored, ClearedWhenReadBack, KeySurvives
  <2> QED BY <2>1, <2>2 DEF KeyInv
<1>3. CASE InitClears
  <2>1. ReadsAreNumbered'
    BY <1>0, <1>3 DEF InitClears, ReadsAreNumbered
  <2>2. NewestBringsStored'
    BY <1>0, <1>3 DEF InitClears, NewestBringsStored
  <2>3. ClearedWhenReadBack' /\ KeySurvives'
    BY <1>0, <1>3 DEF InitClears, ClearedWhenReadBack, KeySurvives
  <2> QED BY <2>1, <2>2, <2>3 DEF KeyInv
<1>4. CASE InitArrives
  <2>1. ReadsAreNumbered'
    BY <1>0, <1>4 DEF InitArrives, ReadsAreNumbered
  <2>2. NewestBringsStored'
    BY <1>0, <1>4 DEF InitArrives, NewestBringsStored, NewestRead
  <2>3. ClearedWhenReadBack' /\ KeySurvives'
    BY <1>0, <1>4 DEF InitArrives, ClearedWhenReadBack, KeySurvives
  <2> QED BY <2>1, <2>2, <2>3 DEF KeyInv
<1>5. CASE InitRejects
  <2>1. ReadsAreNumbered'
    BY <1>0, <1>5 DEF InitRejects, ReadsAreNumbered
  <2>2. NewestBringsStored'
    BY <1>0, <1>5 DEF InitRejects, NewestBringsStored, NewestRead
  <2>3. ClearedWhenReadBack' /\ KeySurvives'
    BY <1>0, <1>5 DEF InitRejects, ClearedWhenReadBack, KeySurvives
  <2> QED BY <2>1, <2>2, <2>3 DEF KeyInv
<1>6. CASE KeyChanged
  <2>1. ReadsAreNumbered'
    BY <1>0, <1>6 DEF KeyChanged, ReadsAreNumbered
  <2>2. NewestBringsStored'
    <3>1. <<keyRefreshSeq', -1>> \in keyReads' /\ keyRefreshSeq' # 1
      BY <1>0, <1>6 DEF KeyChanged, ReadsAreNumbered
    <3>2. ASSUME NEW r \in keyReads', r[1] = keyRefreshSeq' PROVE r[2] = -1
      BY <1>0, <1>6, <3>2 DEF KeyChanged, ReadsAreNumbered
    <3> QED BY <3>1, <3>2 DEF NewestBringsStored
  <2>3. ClearedWhenReadBack' /\ KeySurvives'
    BY <1>0, <1>6 DEF KeyChanged, ClearedWhenReadBack, KeySurvives
  <2> QED BY <2>1, <2>2, <2>3 DEF KeyInv
<1>7. CASE KeyServed
  <2>1. PICK r \in keyReads : r[2] = -1 /\ keyReads' = (keyReads \ {r}) \cup {<<r[1], storedKey>>}
    BY <1>7 DEF KeyServed
  <2>2. UNCHANGED <<storedKey, keyring, setting, apiKey, keyEvents, keyRefreshSeq, initKey,
                    clearing, keyLost, wanted, inMemory>>
    BY <1>7 DEF KeyServed
  <2>3. ReadsAreNumbered'
    BY <1>0, <2>1, <2>2 DEF ReadsAreNumbered
  <2>4. NewestBringsStored'
    <3>1. \A q \in keyReads : q = r \/ q \in keyReads'
      BY <2>1
    <3>2. <<r[1], storedKey>> \in keyReads'
      BY <2>1
    <3>3. (\E q \in keyReads : q[1] = keyRefreshSeq) => \E q \in keyReads' : q[1] = keyRefreshSeq
      BY <3>1, <3>2
    <3>4. \A q \in keyReads' : q \in keyReads \/ q[2] = storedKey
      BY <2>1
    <3> QED BY <1>0, <2>2, <3>3, <3>4 DEF NewestBringsStored
  <2>5. ClearedWhenReadBack' /\ KeySurvives'
    BY <1>0, <2>2 DEF ClearedWhenReadBack, KeySurvives
  <2> QED BY <2>3, <2>4, <2>5 DEF KeyInv
<1>8. CASE KeyArrives
  <2>1. PICK r \in keyReads : /\ r[2] # -1 /\ keyReads' = keyReads \ {r}
                              /\ apiKey' = IF r[1] = keyRefreshSeq THEN r[2] ELSE apiKey
    BY <1>8 DEF KeyArrives, NewestRead
  <2>2. UNCHANGED <<storedKey, keyring, setting, keyEvents, keyRefreshSeq, initKey,
                    clearing, keyLost, wanted, inMemory>>
    BY <1>8 DEF KeyArrives
  <2>3. ReadsAreNumbered'
    BY <1>0, <2>1, <2>2 DEF ReadsAreNumbered
  <2>4. NewestBringsStored'
    BY <1>0, <2>1, <2>2 DEF NewestBringsStored, ReadsAreNumbered
  <2>5. ClearedWhenReadBack' /\ KeySurvives'
    BY <1>0, <2>2 DEF ClearedWhenReadBack, KeySurvives
  <2> QED BY <2>3, <2>4, <2>5 DEF KeyInv
<1>9. CASE KeyReadFails
  <2>1. PICK r \in keyReads : /\ keyReads' = keyReads \ {r}
                              /\ keyLost' = (keyLost \/ r[1] = keyRefreshSeq)
    BY <1>9 DEF KeyReadFails, NewestRead
  <2>2. UNCHANGED <<storedKey, keyring, setting, apiKey, keyEvents, keyRefreshSeq, initKey,
                    clearing, wanted, inMemory>>
    BY <1>9 DEF KeyReadFails
  <2>3. ReadsAreNumbered'
    BY <1>0, <2>1, <2>2 DEF ReadsAreNumbered
  <2>4. NewestBringsStored'
    BY <1>0, <2>1, <2>2 DEF NewestBringsStored, ReadsAreNumbered
  <2>5. ClearedWhenReadBack' /\ KeySurvives'
    BY <1>0, <2>2 DEF ClearedWhenReadBack, KeySurvives
  <2> QED BY <2>3, <2>4, <2>5 DEF KeyInv
<1>10. CASE EnterKey
  <2>1. PICK k \in Keys : Stored(k)
    BY <1>10 DEF EnterKey
  <2>2. UNCHANGED <<keyring, setting, initKey, clearing, wanted, inMemory>>
    BY <1>10 DEF EnterKey
  <2>3. ReadsAreNumbered' /\ NewestBringsStored'
    BY <1>0, <2>1, StoredKeepsReads
  <2>4. storedKey' = k /\ k # 0
    BY <2>1, ApiKeyAssumption DEF Stored
  <2>5. ClearedWhenReadBack' /\ KeySurvives'
    BY <1>0, <2>1, <2>2, <2>4 DEF ClearedWhenReadBack, KeySurvives
  <2> QED BY <2>3, <2>5 DEF KeyInv
<1>11. CASE ClearKey
  <2>1. ReadsAreNumbered' /\ NewestBringsStored'
    BY <1>0, <1>11, StoredKeepsReads DEF ClearKey
  <2>2. ClearedWhenReadBack' /\ KeySurvives'
    BY <1>0, <1>11 DEF ClearKey, Stored, ClearedWhenReadBack, KeySurvives
  <2> QED BY <2>1, <2>2 DEF KeyInv
<1>12. CASE ClearSetting
  <2>1. ReadsAreNumbered'
    BY <1>0, <1>12 DEF ClearSetting, ReadsAreNumbered
  <2>2. NewestBringsStored'
    BY <1>0, <1>12 DEF ClearSetting, NewestBringsStored
  <2>3. ClearedWhenReadBack' /\ KeySurvives'
    BY <1>0, <1>12 DEF ClearSetting, ClearedWhenReadBack, KeySurvives
  <2> QED BY <2>1, <2>2, <2>3 DEF KeyInv
<1>13. CASE Restart
  <2>1. ReadsAreNumbered' /\ NewestBringsStored'
    BY <1>13 DEF Restart, Activated, ReadsAreNumbered, NewestBringsStored
  <2>2. ClearedWhenReadBack' /\ KeySurvives'
    BY <1>0, <1>13 DEF Restart, Activated, ClearedWhenReadBack, KeySurvives
  <2> QED BY <2>1, <2>2 DEF KeyInv
<1>14. CASE HostRestarts
  <2>1. ReadsAreNumbered' /\ NewestBringsStored'
    BY <1>14 DEF HostRestarts, Activated, ReadsAreNumbered, NewestBringsStored
  <2>2. ClearedWhenReadBack' /\ KeySurvives'
    BY <1>0, <1>14 DEF HostRestarts, Activated, ClearedWhenReadBack, KeySurvives
  <2> QED BY <2>1, <2>2 DEF KeyInv
<1>15. CASE UNCHANGED keyVars
  BY <1>0, <1>15 DEF keyVars, KeyInv, ReadsAreNumbered, NewestBringsStored, ClearedWhenReadBack,
     KeySurvives
<1> QED
  BY <1>1, <1>2, <1>3, <1>4, <1>5, <1>6, <1>7, <1>8, <1>9, <1>10, <1>11, <1>12, <1>13, <1>14,
     <1>15 DEF ApiKeyNext

\* The engine ends up with the key that is stored, whatever the order of reads,
\* events, entries and activations.  The migration of the setting loses no key to a
\* storage that survives the editor; to one in memory it can lose only a key that
\* an activation which did not copy it read back before the editor quit.
THEOREM KeyIsKept == Spec => []KeyKept
<1>1. Init => KeyInv
  BY ApiKeyStarts DEF Init
<1>2. KeyInv /\ [Next]_vars => KeyInv'
  <2>1. UNCHANGED vars => UNCHANGED keyVars
    BY DEF vars
  <2> QED BY <2>1, ApiKeySteps, ApiKeyStep
<1>3. KeyInv => KeyKept
  BY DEF KeyInv, NewestBringsStored, ReadsAreNumbered, KeyKept, KeyIsLatest
<1> QED BY <1>1, <1>2, <1>3, PTL DEF Spec

-------------------------------------------------------------------------------
\* The code index.  The manifest in the memory of a job backs its entries but for
\* the file whose batches are being exchanged (JobBacked, with the order of the
\* queued batches); and a file that no event covers is claimed as it is, or the job
\* is on the way to it (Fresh), as a deletion is followed by a later event where the
\* file is back (DeletesFollowed).

IxEvents == [kind : {"build", "change", "delete"}, on : SUBSET IxPaths]
Batches == IxPaths \X Versions \X (1 .. Parts)
IxJobs == [kind : {"build", "change", "delete", "failed"},
           phase : {"purge", "read", "embed", "upsert", "write"}, on : SUBSET IxPaths,
           manifest : [IxPaths -> Hashes], todo : SUBSET IxPaths, recs : Seq(Batches),
           swapped : SUBSET IxPaths]

IxTypes ==
  /\ content \in [IxPaths -> Contents]
  /\ rows \in [IxPaths -> SUBSET (Versions \X (1 .. Parts))]
  /\ claims \in [IxPaths -> Hashes]
  /\ timers \in Seq(IxEvents) /\ chain \in Seq(IxEvents)
  /\ job \in IxJobs \cup {NoJob}
  /\ torn \subseteq IxPaths
  /\ meta \in BOOLEAN /\ disposed \in BOOLEAN /\ trouble \in BOOLEAN

Busy == job # NoJob

\* Queued batches: those of a file are complete from the first on, in one piece.
Blocks(recs) ==
  /\ \A k \in DOMAIN recs : recs[k][3] < Parts =>
       /\ k + 1 \in DOMAIN recs
       /\ recs[k + 1] = <<recs[k][1], recs[k][2], recs[k][3] + 1>>
  /\ \A k, l \in DOMAIN recs : recs[k][1] = recs[l][1] => recs[l][3] - recs[k][3] = l - k
  /\ \A k \in DOMAIN recs : k > 1 /\ recs[k][3] > 1 => recs[k - 1][1] = recs[k][1]

Embeds(p) == \E k \in DOMAIN job.recs : job.recs[k][1] = p

\* Where a job may be: only a batch at the head is of a file whose old rows are gone.
JobShaped ==
  Busy =>
    /\ Blocks(job.recs)
    /\ job.phase \in {"purge", "write"} => job.recs = << >>
    /\ job.phase \in {"embed", "upsert"} => job.recs # << >>
    /\ job.phase \in {"purge", "read"} => job.swapped = {}
    /\ job.recs # << >> /\ job.recs[1][1] \notin job.swapped => job.recs[1][3] = 1
    /\ \A k \in DOMAIN job.recs : job.recs[k][1] \in job.swapped =>
                                    job.recs[k][1] = job.recs[1][1]
    /\ job.phase = "upsert" => job.recs[1][1] \in job.swapped
    /\ job.phase = "read" => \A p \in job.todo : ~ Embeds(p)
    /\ job.phase = "purge" /\ job.kind = "build" => job.todo \cap job.on = {}

\* The batches stored so far of the file at the head.
HeadStored ==
  Busy /\ ~ disposed /\ job.recs # << >> /\ job.recs[1][1] \in job.swapped =>
    rows[job.recs[1][1]] = {job.recs[1][2]} \X (1 .. job.recs[1][3] - 1)

JobBacked ==
  Busy /\ ~ disposed =>
    \A p \in IxPaths : job.manifest[p] # "none" /\ ~ (p \in job.swapped /\ Embeds(p))
                         => p \in torn \/ Backed(job.manifest[p], rows[p])

ClaimsBacked ==
  ~ Busy /\ ~ disposed =>
    \A p \in IxPaths : Claimed(p) => p \in torn \/ Backed(claims[p], rows[p])

ChangesAreSingle ==
  \A es \in {timers, chain} : \A i \in DOMAIN es :
    es[i].kind = "change" => \E p \in IxPaths : es[i].on = {p}

InTimers(p) == \E i \in DOMAIN timers : p \in timers[i].on
InChain(p) == \E i \in DOMAIN chain : p \in chain[i].on

DeletesFollowed ==
  ~ disposed =>
    \A p \in IxPaths : content[p] # "absent" =>
      /\ \A i \in DOMAIN timers : timers[i].kind = "delete" /\ p \in timers[i].on =>
           \E j \in DOMAIN timers : j > i /\ p \in timers[j].on
      /\ \A i \in DOMAIN chain : chain[i].kind = "delete" /\ p \in chain[i].on =>
           InTimers(p) \/ \E j \in DOMAIN chain : j > i /\ p \in chain[j].on

\* What the job makes of a file that no later event covers.
OnWay(p) ==
  IF job.phase = "purge" /\ p \in job.todo THEN Hashed(p) = "none"
  ELSE IF \/ job.phase = "purge" /\ job.kind = "build" /\ p \in job.on
          \/ job.phase = "read" /\ p \in job.todo
  THEN content[p] # "absent"
  ELSE IF Embeds(p)
  THEN \A k \in DOMAIN job.recs : job.recs[k][1] = p => job.recs[k][2] = content[p]
  ELSE job.manifest[p] = Hashed(p)

Fresh ==
  ~ disposed /\ ~ trouble =>
    \A p \in IxPaths : \/ InTimers(p) \/ InChain(p)
                       \/ IF Busy THEN OnWay(p) ELSE claims[p] = Hashed(p)

IxInv ==
  /\ IxTypes /\ JobShaped /\ HeadStored /\ JobBacked /\ ClaimsBacked
  /\ ChangesAreSingle /\ DeletesFollowed /\ Fresh

LEMMA IndexSteps == Next => [IxNext]_ixVars
<1> SUFFICES ASSUME Next, ~ UNCHANGED ixVars PROVE IxNext
  OBVIOUS
<1> QED BY DEF Next, Only

\* The present hash of a file, and the jobs.
LEMMA HashOf == ASSUME IxTypes, NEW p \in IxPaths
                PROVE  /\ Hashed(p) \in Hashes
                       /\ content[p] = "absent" => Hashed(p) = "none"
                       /\ Hashed(p) # "none" => content[p] # "absent" /\ Hashed(p) = content[p]
                       /\ content[p] \in Versions => Hashed(p) = content[p]
                       /\ content[p] = "blank" => Hashed(p) = "blank"
                       /\ content[p] = "big" => Hashed(p) = "none"
<1>1. content[p] \in Versions \cup {"absent", "big", "blank"}
  BY DEF IxTypes, Contents
<1>2. "absent" \notin Versions /\ "big" \notin Versions /\ "none" \notin Versions /\ "blank" \notin Versions
  BY IndexAssumption
<1>3. "none" \notin Contents
  BY <1>2 DEF Contents
<1> QED BY <1>1, <1>2, <1>3 DEF Hashed, Hashes, Contents

LEMMA JobsAreBusy == \A j \in IxJobs : j # NoJob
<1> TAKE j \in IxJobs
<1>1. j.phase # "none"
  BY DEF IxJobs
<1>2. NoJob.phase = "none"
  BY DEF NoJob
<1> QED BY <1>1, <1>2

\* The batches behind the head.
LEMMA BehindHead ==
  ASSUME NEW recs \in Seq(Batches), Blocks(recs), recs # << >>
  PROVE  /\ Tail(recs) \in Seq(Batches) /\ Blocks(Tail(recs))
         /\ Len(Tail(recs)) = Len(recs) - 1
         /\ \A k \in DOMAIN Tail(recs) : k + 1 \in DOMAIN recs /\ Tail(recs)[k] = recs[k + 1]
         /\ recs[1][3] < Parts => /\ Tail(recs) # << >>
                                  /\ Tail(recs)[1] = <<recs[1][1], recs[1][2], recs[1][3] + 1>>
         /\ recs[1][3] = Parts =>
              /\ \A k \in DOMAIN Tail(recs) : Tail(recs)[k][1] # recs[1][1]
              /\ Tail(recs) # << >> => Tail(recs)[1][3] = 1
<1>1. PICK tail \in Seq(Batches) :
        /\ tail = Tail(recs) /\ Len(tail) = Len(recs) - 1
        /\ \A k \in 1 .. Len(tail) : tail[k] = recs[k + 1]
  <2>1. /\ Tail(recs) \in Seq(Batches) /\ Len(Tail(recs)) = Len(recs) - 1
        /\ \A k \in 1 .. Len(Tail(recs)) : Tail(recs)[k] = recs[k + 1]
    OBVIOUS
  <2> QED BY <2>1
<1>2. DOMAIN tail = 1 .. Len(tail) /\ DOMAIN recs = 1 .. Len(recs) /\ Len(recs) \in Nat \ {0}
  OBVIOUS
<1>3. \A k \in 1 .. Len(tail) : k + 1 \in 1 .. Len(recs)
  BY <1>1, <1>2
<1>4. \A k \in DOMAIN recs : recs[k] \in Batches /\ recs[k][3] \in 1 .. Parts
  BY <1>2 DEF Batches
<1>5. ASSUME NEW k \in 1 .. Len(tail), tail[k][3] < Parts
      PROVE  k + 1 \in 1 .. Len(tail) /\ tail[k + 1] = <<tail[k][1], tail[k][2], tail[k][3] + 1>>
  <2>1. PICK m \in 1 .. Len(recs) : m = k + 1
    BY <1>3
  <2>2. tail[k] = recs[m] /\ m \in DOMAIN recs
    BY <1>1, <1>2, <2>1
  <2>3. m + 1 \in DOMAIN recs /\ recs[m + 1] = <<recs[m][1], recs[m][2], recs[m][3] + 1>>
    BY <1>5, <2>2 DEF Blocks
  <2>4. k + 1 \in 1 .. Len(tail)
    BY <1>1, <1>2, <2>1, <2>3
  <2>5. tail[k + 1] = recs[m + 1]
    BY <1>1, <2>1, <2>4
  <2> QED BY <2>2, <2>3, <2>4, <2>5
<1>6. ASSUME NEW k \in 1 .. Len(tail), NEW l \in 1 .. Len(tail), tail[k][1] = tail[l][1]
      PROVE  tail[l][3] - tail[k][3] = l - k
  <2>1. PICK m \in 1 .. Len(recs) : m = k + 1
    BY <1>3
  <2>2. PICK n \in 1 .. Len(recs) : n = l + 1
    BY <1>3
  <2>3. tail[k] = recs[m] /\ tail[l] = recs[n]
    BY <1>1, <2>1, <2>2
  <2>4. recs[n][3] - recs[m][3] = n - m
    BY <1>2, <1>6, <2>3 DEF Blocks
  <2>5. n - m = l - k
    BY <2>1, <2>2
  <2> QED BY <2>3, <2>4, <2>5
<1>7. ASSUME NEW k \in 1 .. Len(tail), k > 1, tail[k][3] > 1
      PROVE  tail[k - 1][1] = tail[k][1]
  <2>1. PICK m \in 1 .. Len(recs) : m = k + 1
    BY <1>3
  <2>2. tail[k] = recs[m] /\ m > 1 /\ m \in DOMAIN recs
    BY <1>1, <1>2, <1>7, <2>1
  <2>3. recs[m - 1][1] = recs[m][1]
    BY <1>7, <2>2 DEF Blocks
  <2>4. k - 1 \in 1 .. Len(tail) /\ (k - 1) + 1 = m - 1
    BY <1>7, <2>1
  <2>5. tail[k - 1] = recs[m - 1]
    BY <1>1, <2>4
  <2> QED BY <2>2, <2>3, <2>5
<1>8. Blocks(tail)
  BY <1>2, <1>5, <1>6, <1>7 DEF Blocks
<1>9. 1 \in DOMAIN recs
  BY <1>2
<1>10. recs[1][3] < Parts =>
         tail # << >> /\ tail[1] = <<recs[1][1], recs[1][2], recs[1][3] + 1>>
  <2>1. SUFFICES ASSUME recs[1][3] < Parts
                 PROVE  tail # << >> /\ tail[1] = <<recs[1][1], recs[1][2], recs[1][3] + 1>>
    OBVIOUS
  <2>2. 1 + 1 \in DOMAIN recs /\ recs[1 + 1] = <<recs[1][1], recs[1][2], recs[1][3] + 1>>
    BY <1>9, <2>1 DEF Blocks
  <2>3. Len(tail) >= 1 /\ 1 \in 1 .. Len(tail)
    BY <1>1, <1>2, <2>2
  <2>4. tail[1] = recs[1 + 1]
    BY <1>1, <2>3
  <2>5. tail # << >>
    BY <2>3
  <2> QED BY <2>2, <2>4, <2>5
<1>11. recs[1][3] = Parts => \A k \in 1 .. Len(tail) : tail[k][1] # recs[1][1]
  <2>1. SUFFICES ASSUME recs[1][3] = Parts, NEW k \in 1 .. Len(tail), tail[k][1] = recs[1][1]
                 PROVE  FALSE
    OBVIOUS
  <2>2. PICK m \in 1 .. Len(recs) : m = k + 1 /\ m \in DOMAIN recs /\ tail[k] = recs[m]
    BY <1>1, <1>2, <1>3
  <2>3. recs[m][3] - recs[1][3] = m - 1
    BY <1>9, <2>1, <2>2 DEF Blocks
  <2>4. recs[m][3] \in 1 .. Parts /\ Parts \in Nat
    BY <1>4, <2>2, IndexAssumption
  <2> QED BY <2>1, <2>2, <2>3, <2>4
<1>12. recs[1][3] = Parts /\ tail # << >> => tail[1][3] = 1
  <2>1. SUFFICES ASSUME recs[1][3] = Parts, tail # << >>, tail[1][3] # 1 PROVE FALSE
    OBVIOUS
  <2>2. 1 \in 1 .. Len(tail)
    BY <1>2, <2>1
  <2>3. 2 \in DOMAIN recs /\ tail[1] = recs[2]
    BY <1>1, <1>2, <1>3, <2>2
  <2>4. recs[2][3] > 1
    BY <1>4, <2>1, <2>3
  <2>5. recs[2 - 1][1] = recs[2][1]
    BY <2>3, <2>4 DEF Blocks
  <2> QED BY <1>11, <2>1, <2>2, <2>3, <2>5
<1> QED BY <1>1, <1>2, <1>3, <1>8, <1>10, <1>11, <1>12

LEMMA Concatenated ==
  ASSUME NEW S, NEW s \in Seq(S), NEW t \in Seq(S)
  PROVE  /\ s \o t \in Seq(S) /\ Len(s \o t) = Len(s) + Len(t)
         /\ \A k \in 1 .. Len(s) : (s \o t)[k] = s[k]
         /\ \A i \in 1 .. Len(t) : (s \o t)[i + Len(s)] = t[i]
OBVIOUS

\* The batches of one more file at the end.
PartsOf(p, v) == [i \in 1 .. Parts |-> <<p, v, i>>]
Lacks(recs, p) == \A k \in DOMAIN recs : recs[k][1] # p
Joins(recs, p, v, all) ==
  /\ all \in Seq(Batches) /\ Blocks(all) /\ all # << >>
  /\ \A k \in DOMAIN recs : k \in DOMAIN all /\ all[k] = recs[k]
  /\ \A k \in DOMAIN all : k \in DOMAIN recs \/ (all[k][1] = p /\ all[k][2] = v)
  /\ \E k \in DOMAIN all : all[k][1] = p
  /\ recs = << >> => all[1][3] = 1

LEMMA OneMoreFile ==
  ASSUME NEW recs \in Seq(Batches), Blocks(recs), NEW p \in IxPaths, NEW v \in Versions,
         Lacks(recs, p)
  PROVE  Joins(recs, p, v, recs \o PartsOf(p, v))
<1>1. PICK new : new = PartsOf(p, v)
  OBVIOUS
<1>2. Parts \in Nat /\ Parts >= 1 /\ Len(recs) \in Nat
  BY IndexAssumption
<1>3. new \in Seq(Batches) /\ Len(new) = Parts /\ \A i \in 1 .. Parts : new[i] = <<p, v, i>>
  <2>1. new = [i \in 1 .. Parts |-> <<p, v, i>>]
    BY <1>1 DEF PartsOf
  <2>2. new \in [1 .. Parts -> Batches]
    BY <2>1 DEF Batches
  <2> QED BY <1>2, <2>1, <2>2
<1>4. PICK l \in Nat : l = Len(recs)
  BY <1>2
<1>5. PICK all \in Seq(Batches) :
        /\ all = recs \o new /\ Len(all) = l + Parts
        /\ \A k \in 1 .. l : all[k] = recs[k]
        /\ \A i \in 1 .. Parts : all[i + l] = new[i]
  <2>1. /\ recs \o new \in Seq(Batches) /\ Len(recs \o new) = Len(recs) + Len(new)
        /\ \A k \in 1 .. Len(recs) : (recs \o new)[k] = recs[k]
        /\ \A i \in 1 .. Len(new) : (recs \o new)[i + Len(recs)] = new[i]
    <3>1. \A s \in Seq(Batches), t \in Seq(Batches) :
            /\ s \o t \in Seq(Batches) /\ Len(s \o t) = Len(s) + Len(t)
            /\ \A k \in 1 .. Len(s) : (s \o t)[k] = s[k]
            /\ \A i \in 1 .. Len(t) : (s \o t)[i + Len(s)] = t[i]
      BY Concatenated
    <3> QED BY <1>3, <3>1
  <2> QED BY <1>3, <1>4, <2>1
<1>6. DOMAIN all = 1 .. l + Parts /\ DOMAIN recs = 1 .. l
  BY <1>2, <1>4, <1>5
<1>7. ASSUME NEW k \in 1 .. l + Parts, k > l
      PROVE  all[k][1] = p /\ all[k][2] = v /\ all[k][3] = k - l
  <2>1. PICK i \in 1 .. Parts : i = k - l
    BY <1>2, <1>7
  <2>2. i + l = k
    BY <2>1
  <2>3. all[k] = <<p, v, i>>
    BY <1>3, <1>5, <2>1, <2>2
  <2> QED BY <2>1, <2>3
<1>8. \A k \in 1 .. l : all[k] = recs[k] /\ all[k][1] # p /\ recs[k] \in Batches
  BY <1>5, <1>6 DEF Lacks
<1>9. ASSUME NEW k \in 1 .. l + Parts, all[k][3] < Parts
      PROVE  k + 1 \in 1 .. l + Parts /\ all[k + 1] = <<all[k][1], all[k][2], all[k][3] + 1>>
  <2>1. CASE k <= l
    <3>1. k \in 1 .. l /\ recs[k][3] < Parts
      BY <1>8, <1>9, <2>1
    <3>2. k + 1 \in 1 .. l /\ recs[k + 1] = <<recs[k][1], recs[k][2], recs[k][3] + 1>>
      BY <1>6, <3>1 DEF Blocks
    <3>3. all[k] = recs[k] /\ all[k + 1] = recs[k + 1]
      BY <1>8, <3>1, <3>2
    <3>4. k + 1 \in 1 .. l + Parts
      BY <1>2, <3>2
    <3> QED BY <3>2, <3>3, <3>4
  <2>2. CASE k > l
    <3>1. k - l < Parts
      BY <1>7, <1>9, <2>2
    <3>2. k + 1 \in 1 .. l + Parts /\ k + 1 > l
      BY <1>2, <2>2, <3>1
    <3>3. PICK i \in 1 .. Parts : i = k + 1 - l
      BY <1>2, <2>2, <3>2
    <3>4. i + l = k + 1
      BY <3>3
    <3>5. all[k + 1] = <<p, v, i>>
      BY <1>3, <1>5, <3>3, <3>4
    <3>6. i = (k - l) + 1
      BY <3>3
    <3> QED BY <1>7, <2>2, <3>2, <3>5, <3>6
  <2> QED BY <2>1, <2>2
<1>10. ASSUME NEW k \in 1 .. l + Parts, NEW m \in 1 .. l + Parts, all[k][1] = all[m][1]
       PROVE  all[m][3] - all[k][3] = m - k
  <2>1. CASE k <= l /\ m <= l
    <3>1. k \in 1 .. l /\ m \in 1 .. l
      BY <2>1
    <3>2. recs[k][1] = recs[m][1]
      BY <1>8, <1>10, <3>1
    <3>3. recs[m][3] - recs[k][3] = m - k
      BY <1>6, <3>1, <3>2 DEF Blocks
    <3> QED BY <1>8, <3>1, <3>3
  <2>2. CASE k > l /\ m > l
    <3>1. all[k][3] = k - l /\ all[m][3] = m - l
      BY <1>7, <2>2
    <3> QED BY <3>1
  <2>3. CASE (k <= l /\ m > l) \/ (k > l /\ m <= l)
    BY <1>7, <1>8, <1>10, <2>3
  <2> QED BY <2>1, <2>2, <2>3
<1>11. ASSUME NEW k \in 1 .. l + Parts, k > 1, all[k][3] > 1
       PROVE  all[k - 1][1] = all[k][1]
  <2>1. CASE k <= l
    <3>1. k \in 1 .. l /\ k - 1 \in 1 .. l
      BY <1>11, <2>1
    <3>2. recs[k - 1][1] = recs[k][1]
      BY <1>6, <1>8, <1>11, <3>1 DEF Blocks
    <3> QED BY <1>8, <3>1, <3>2
  <2>2. CASE k > l
    <3>1. k - l > 1
      BY <1>7, <1>11, <2>2
    <3>2. PICK m \in 1 .. l + Parts : m = k - 1 /\ m > l
      BY <1>2, <1>11, <3>1
    <3>3. all[m][1] = p /\ all[k][1] = p
      BY <1>7, <2>2, <3>2
    <3> QED BY <3>2, <3>3
  <2> QED BY <2>1, <2>2
<1>12. Blocks(all)
  BY <1>6, <1>9, <1>10, <1>11 DEF Blocks
<1>13. all # << >> /\ l + 1 \in DOMAIN all /\ all[l + 1][1] = p
  <2>1. l + 1 \in 1 .. l + Parts /\ l + 1 > l
    BY <1>2
  <2>2. all[l + 1][1] = p /\ Len(all) # 0
    <3>1. all[l + 1][1] = p
      BY <1>7, <2>1
    <3>2. Len(all) >= 1
      BY <1>2, <1>5
    <3> QED BY <3>1, <3>2
  <2> QED BY <1>6, <2>1, <2>2
<1>14. recs = << >> => all[1][3] = 1
  <2>1. recs = << >> => l = 0
    BY <1>4
  <2>2. 1 \in 1 .. l + Parts
    BY <1>2
  <2> QED BY <1>7, <2>1, <2>2
<1>15. \A k \in DOMAIN recs : k \in DOMAIN all /\ all[k] = recs[k]
  BY <1>2, <1>6, <1>8
<1>16. \A k \in DOMAIN all : k \in DOMAIN recs \/ (all[k][1] = p /\ all[k][2] = v)
  BY <1>6, <1>7
<1> QED BY <1>1, <1>5, <1>12, <1>13, <1>14, <1>15, <1>16 DEF Joins

-------------------------------------------------------------------------------
\* The steps of a job.

LEMMA MovesOn ==
  ASSUME IxInv, NEW j \in IxJobs, Continue(j),
         rows' \in [IxPaths -> SUBSET (Versions \X (1 .. Parts))],
         trouble' \in BOOLEAN, trouble => trouble',
         JobShaped', HeadStored', JobBacked',
         ~ disposed /\ ~ trouble' =>
           \A p \in IxPaths : InTimers(p) \/ InChain(p) \/ OnWay(p)'
  PROVE  IxInv'
<1>1. IxTypes /\ ChangesAreSingle /\ DeletesFollowed
  BY DEF IxInv
<1>2. job' = j /\ UNCHANGED <<content, claims, meta, timers, chain, disposed, torn>>
  BY DEF Continue
<1>3. Busy'
  BY <1>2, JobsAreBusy DEF Busy
<1>4. IxTypes'
  BY <1>1, <1>2 DEF IxTypes
<1>5. ClaimsBacked'
  BY <1>3 DEF ClaimsBacked
<1>6. ChangesAreSingle' /\ DeletesFollowed'
  BY <1>1, <1>2 DEF ChangesAreSingle, DeletesFollowed, InTimers
<1>7. Fresh'
  BY <1>2, <1>3 DEF Fresh, InTimers, InChain
<1> QED BY <1>4, <1>5, <1>6, <1>7 DEF IxInv

\* What is known of the job that runs.
LEMMA JobOf ==
  ASSUME IxInv, job.phase # "none"
  PROVE  /\ job \in IxJobs /\ Busy
         /\ Blocks(job.recs)
         /\ job.phase \in {"purge", "write"} => job.recs = << >>
         /\ job.phase \in {"embed", "upsert"} => job.recs # << >>
         /\ job.phase \in {"purge", "read"} => job.swapped = {}
         /\ job.recs # << >> /\ job.recs[1][1] \notin job.swapped => job.recs[1][3] = 1
         /\ \A k \in DOMAIN job.recs : job.recs[k][1] \in job.swapped =>
                                         job.recs[k][1] = job.recs[1][1]
         /\ job.phase = "upsert" => job.recs[1][1] \in job.swapped
         /\ job.phase = "read" => \A p \in job.todo : ~ Embeds(p)
         /\ job.phase = "purge" /\ job.kind = "build" => job.todo \cap job.on = {}
         /\ ~ disposed => \A p \in IxPaths :
              job.manifest[p] # "none" /\ ~ (p \in job.swapped /\ Embeds(p))
                => p \in torn \/ Backed(job.manifest[p], rows[p])
         /\ ~ disposed /\ ~ trouble =>
              \A p \in IxPaths : InTimers(p) \/ InChain(p) \/ OnWay(p)
<1>1. Busy
  BY DEF Busy, NoJob
<1>2. IxTypes /\ JobShaped /\ JobBacked /\ Fresh
  BY DEF IxInv
<1>3. job \in IxJobs
  BY <1>1, <1>2 DEF IxTypes, Busy
<1>4. ~ disposed => \A p \in IxPaths :
         job.manifest[p] # "none" /\ ~ (p \in job.swapped /\ Embeds(p))
           => p \in torn \/ Backed(job.manifest[p], rows[p])
  BY <1>1, <1>2 DEF JobBacked
<1>5. ~ disposed /\ ~ trouble => \A p \in IxPaths : InTimers(p) \/ InChain(p) \/ OnWay(p)
  BY <1>1, <1>2 DEF Fresh
<1> QED BY <1>1, <1>2, <1>3, <1>4, <1>5 DEF JobShaped

LEMMA PurgeSound ==
  ASSUME IxInv, NEW p \in IxPaths, Purge(p)
  PROVE  IxInv'
<1>1. job.phase = "purge" /\ p \in job.todo /\ trouble' = trouble
  BY DEF Purge
<1>2. job \in IxJobs /\ job.recs = << >> /\ job.swapped = {}
  BY <1>1, JobOf
<1>3. PICK m : m = [job.manifest EXCEPT ![p] = "none"]
  OBVIOUS
<1>4. /\ m \in [IxPaths -> Hashes] /\ m[p] = "none"
      /\ \A q \in IxPaths : q # p => m[q] = job.manifest[q]
  BY <1>2, <1>3 DEF IxJobs, Hashes
<1>5. PICK new : new = [job EXCEPT !.todo = @ \ {p}, !.manifest = m]
  OBVIOUS
<1>6. /\ new \in IxJobs /\ new.phase = "purge" /\ new.kind = job.kind /\ new.on = job.on
      /\ new.todo = job.todo \ {p} /\ new.manifest = m /\ new.recs = << >> /\ new.swapped = {}
  BY <1>1, <1>2, <1>4, <1>5 DEF IxJobs
<1>7. Continue(new)
  BY <1>2, <1>3, <1>5 DEF Purge, IxJobs
<1>8. job' = new /\ UNCHANGED <<content, timers, chain, disposed, torn>>
  BY <1>7 DEF Continue
<1>9. rows' = IF disposed THEN rows ELSE [rows EXCEPT ![p] = {}]
  BY DEF Purge, Sink
<1>10. rows \in [IxPaths -> SUBSET (Versions \X (1 .. Parts))] /\ trouble \in BOOLEAN
  BY DEF IxInv, IxTypes
<1>11. rows' \in [IxPaths -> SUBSET (Versions \X (1 .. Parts))]
  BY <1>9, <1>10
<1>12. \A q \in IxPaths : ~ Embeds(q) /\ ~ Embeds(q)'
  BY <1>2, <1>6, <1>8 DEF Embeds
<1>13. JobShaped'
  <2>1. job.kind = "build" => job.todo \cap job.on = {}
    BY <1>1, JobOf
  <2>2. Blocks(<< >>)
    BY DEF Blocks
  <2> QED BY <1>6, <1>8, <1>12, <2>1, <2>2 DEF JobShaped
<1>14. HeadStored'
  BY <1>6, <1>8 DEF HeadStored
<1>15. JobBacked'
  <2>1. SUFFICES ASSUME ~ disposed, NEW q \in IxPaths, new.manifest[q] # "none"
                 PROVE  q \in torn \/ Backed(new.manifest[q], rows'[q])
    BY <1>8 DEF JobBacked
  <2>2. q # p /\ new.manifest[q] = job.manifest[q]
    BY <1>4, <1>6, <2>1
  <2>3. rows'[q] = rows[q]
    BY <1>9, <1>10, <2>2
  <2>4. q \in torn \/ Backed(job.manifest[q], rows[q])
    BY <1>1, <1>12, <2>1, <2>2, JobOf
  <2> QED BY <2>2, <2>3, <2>4
<1>16. ASSUME ~ disposed, ~ trouble', NEW q \in IxPaths
       PROVE  InTimers(q) \/ InChain(q) \/ OnWay(q)'
  <2>1. SUFFICES ASSUME OnWay(q) PROVE OnWay(q)'
    BY <1>1, <1>16, JobOf
  <2>2. Hashed(q)' = Hashed(q) /\ content'[q] = content[q]
    BY <1>8 DEF Hashed
  <2>3. CASE q = p
    <3>1. Hashed(p) = "none"
      BY <1>1, <2>1, <2>3 DEF OnWay
    <3>2. job.kind = "build" => p \notin job.on
      BY <1>1, JobOf
    <3> QED BY <1>4, <1>6, <1>8, <1>12, <2>2, <2>3, <3>1, <3>2 DEF OnWay
  <2>4. CASE q # p
    <3>1. new.manifest[q] = job.manifest[q] /\ (q \in new.todo <=> q \in job.todo)
      BY <1>4, <1>6, <2>4
    <3> QED BY <1>1, <1>6, <1>8, <1>12, <2>1, <2>2, <3>1 DEF OnWay
  <2> QED BY <2>3, <2>4
<1> QED BY <1>1, <1>6, <1>7, <1>10, <1>11, <1>13, <1>14, <1>15, <1>16, MovesOn

LEMMA PurgedSound ==
  ASSUME IxInv, Purged
  PROVE  IxInv'
<1>1. job.phase = "purge" /\ job.todo = {} /\ UNCHANGED <<rows, trouble>>
  BY DEF Purged
<1>2. job \in IxJobs /\ job.recs = << >> /\ job.swapped = {}
  BY <1>1, JobOf
<1>3. PICK new : new = IF job.kind = "build" THEN [job EXCEPT !.phase = "read", !.todo = job.on]
                       ELSE [job EXCEPT !.phase = "write"]
  OBVIOUS
<1>4. /\ new \in IxJobs /\ new.manifest = job.manifest /\ new.recs = << >> /\ new.swapped = {}
      /\ IF job.kind = "build" THEN new.phase = "read" /\ new.todo = job.on
         ELSE new.phase = "write"
  BY <1>1, <1>2, <1>3 DEF IxJobs
<1>5. Continue(new)
  BY <1>3 DEF Purged
<1>6. job' = new /\ UNCHANGED <<content, timers, chain, disposed, torn>>
  BY <1>5 DEF Continue
<1>7. \A q \in IxPaths : ~ Embeds(q) /\ ~ Embeds(q)'
  BY <1>2, <1>4, <1>6 DEF Embeds
<1>8. JobShaped'
  <2>2. Blocks(<< >>)
    BY DEF Blocks
  <2>3. new.todo \subseteq IxPaths /\ new.phase \in {"read", "write"}
    BY <1>4 DEF IxJobs
  <2> QED BY <1>4, <1>6, <1>7, <2>2, <2>3 DEF JobShaped
<1>9. HeadStored'
  BY <1>4, <1>6 DEF HeadStored
<1>10. JobBacked'
  <2>1. SUFFICES ASSUME ~ disposed, NEW q \in IxPaths, new.manifest[q] # "none"
                 PROVE  q \in torn \/ Backed(new.manifest[q], rows'[q])
    BY <1>6 DEF JobBacked
  <2>2. q \in torn \/ Backed(job.manifest[q], rows[q])
    BY <1>1, <1>4, <1>7, <2>1, JobOf
  <2> QED BY <1>1, <1>4, <2>2
<1>11. ASSUME ~ disposed, ~ trouble', NEW q \in IxPaths
       PROVE  InTimers(q) \/ InChain(q) \/ OnWay(q)'
  <2>1. SUFFICES ASSUME OnWay(q) PROVE OnWay(q)'
    BY <1>1, <1>11, JobOf
  <2>2. Hashed(q)' = Hashed(q) /\ content'[q] = content[q]
    BY <1>6 DEF Hashed
  <2> QED BY <1>1, <1>4, <1>6, <1>7, <2>1, <2>2 DEF OnWay
<1>12. rows' \in [IxPaths -> SUBSET (Versions \X (1 .. Parts))] /\ trouble' \in BOOLEAN
  BY <1>1 DEF IxInv, IxTypes
<1> QED BY <1>1, <1>4, <1>5, <1>8, <1>9, <1>10, <1>11, <1>12, MovesOn

\* A file was read: nothing of it is kept, or its batches are queued.
LEMMA FileLeaves ==
  ASSUME IxInv, job.phase = "read", NEW p \in job.todo, NEW m \in [IxPaths -> Hashes],
         NEW new \in IxJobs, Continue(new), new.phase = "read", new.todo = job.todo \ {p},
         new.recs = job.recs, new.swapped = {}, new.manifest = m, trouble' = trouble,
         \A q \in IxPaths : q # p => m[q] = job.manifest[q] /\ (disposed \/ rows'[q] = rows[q]),
         rows' \in [IxPaths -> SUBSET (Versions \X (1 .. Parts))],
         ~ disposed => \/ m[p] = job.manifest[p] /\ rows'[p] = rows[p]
                       \/ m[p] \notin Versions /\ rows'[p] = {},
         content[p] # "absent" => m[p] = Hashed(p)
  PROVE  IxInv'
<1>1. job \in IxJobs /\ job.swapped = {} /\ p \in IxPaths
  BY JobOf DEF IxJobs
<1>2. job' = new /\ UNCHANGED <<content, timers, chain, disposed, torn>>
  BY DEF Continue
<1>3. \A q \in IxPaths : Embeds(q)' <=> Embeds(q)
  BY <1>2 DEF Embeds
<1>4. JobShaped'
  <2>1. /\ Blocks(job.recs)
        /\ job.recs # << >> /\ job.recs[1][1] \notin job.swapped => job.recs[1][3] = 1
        /\ \A q \in job.todo : ~ Embeds(q)
    BY JobOf
  <2>2. \A q \in new.todo : ~ Embeds(q)'
    BY <2>1, <1>2 DEF Embeds
  <2> QED BY <1>1, <1>2, <2>1, <2>2 DEF JobShaped
<1>5. HeadStored'
  BY <1>2 DEF HeadStored
<1>6. JobBacked'
  <2>1. SUFFICES ASSUME ~ disposed, NEW q \in IxPaths, m[q] # "none"
                 PROVE  q \in torn \/ Backed(m[q], rows'[q])
    BY <1>2 DEF JobBacked
  <2>2. CASE m[q] = job.manifest[q] /\ rows'[q] = rows[q]
    <3>1. q \in torn \/ Backed(job.manifest[q], rows[q])
      BY <1>1, <2>1, <2>2, JobOf
    <3> QED BY <2>2, <3>1
  <2>3. CASE m[q] \notin Versions /\ rows'[q] = {}
    BY <2>3 DEF Backed
  <2> QED BY <2>1, <2>2, <2>3
<1>7. ASSUME ~ disposed, ~ trouble', NEW q \in IxPaths
      PROVE  InTimers(q) \/ InChain(q) \/ OnWay(q)'
  <2>1. SUFFICES ASSUME OnWay(q) PROVE OnWay(q)'
    BY <1>7, JobOf
  <2>2. Hashed(q)' = Hashed(q) /\ content'[q] = content[q]
    BY <1>2 DEF Hashed
  <2>3. CASE q = p
    <3>1. content[p] # "absent"
      BY <2>1, <2>3 DEF OnWay
    <3>2. ~ Embeds(p)
      BY JobOf
    <3> QED BY <1>2, <1>3, <2>2, <2>3, <3>1, <3>2 DEF OnWay
  <2>4. CASE q # p
    BY <1>2, <1>3, <2>1, <2>2, <2>4 DEF OnWay
  <2> QED BY <2>3, <2>4
<1>8. trouble' \in BOOLEAN
  BY DEF IxInv, IxTypes
<1> QED BY <1>4, <1>5, <1>6, <1>7, <1>8, MovesOn

LEMMA FileQueued ==
  ASSUME IxInv, job.phase = "read", NEW p \in job.todo, NEW v \in Versions, content[p] = v,
         NEW more, more = job.recs \o PartsOf(p, v),
         Continue([job EXCEPT !.todo = @ \ {p}, !.recs = more]), UNCHANGED <<rows, trouble>>
  PROVE  IxInv'
<1>1. /\ job \in IxJobs /\ job.swapped = {} /\ p \in IxPaths /\ Blocks(job.recs)
      /\ job.recs # << >> => job.recs[1][3] = 1
      /\ \A q \in job.todo : ~ Embeds(q)
  BY JobOf DEF IxJobs
<1>2. \A k \in DOMAIN job.recs : job.recs[k][1] # p
  BY <1>1 DEF Embeds
<1>3. job.recs \in Seq(Batches)
  BY <1>1 DEF IxJobs
<1>joins. Joins(job.recs, p, v, more)
  <2>1. Lacks(job.recs, p)
    BY <1>2 DEF Lacks
  <2>2. Joins(job.recs, p, v, job.recs \o PartsOf(p, v))
    BY <1>1, <1>3, <2>1, OneMoreFile
  <2> QED BY <2>2
<1>4. /\ more \in Seq(Batches) /\ Blocks(more) /\ more # << >>
      /\ \A k \in DOMAIN job.recs : k \in DOMAIN more /\ more[k] = job.recs[k]
      /\ \A k \in DOMAIN more : k \in DOMAIN job.recs \/ (more[k][1] = p /\ more[k][2] = v)
      /\ \E k \in DOMAIN more : more[k][1] = p
      /\ job.recs = << >> => more[1][3] = 1
  BY <1>joins DEF Joins
<1>5. PICK new : new = [job EXCEPT !.todo = @ \ {p}, !.recs = more]
  OBVIOUS
<1>6. /\ new \in IxJobs /\ new.phase = "read" /\ new.todo = job.todo \ {p} /\ new.recs = more
      /\ new.swapped = {} /\ new.manifest = job.manifest
  BY <1>1, <1>4, <1>5 DEF IxJobs
<1>7. Continue(new) /\ job' = new /\ UNCHANGED <<content, timers, chain, disposed, torn>>
  BY <1>5 DEF Continue
<1>8. more[1][3] = 1
  <2>1. CASE job.recs # << >>
    <3>1. 1 \in DOMAIN job.recs
      BY <1>3, <2>1
    <3> QED BY <1>1, <1>4, <2>1, <3>1
  <2> QED BY <1>4, <2>1
<1>9. \A q \in IxPaths : q # p => (Embeds(q)' <=> Embeds(q))
  <2> TAKE q \in IxPaths
  <2> HAVE q # p
  <2>1. job'.recs = more
    BY <1>6, <1>7
  <2>2. Embeds(q)' <=> \E k \in DOMAIN more : more[k][1] = q
    BY <2>1 DEF Embeds
  <2> QED BY <1>4, <2>2 DEF Embeds
<1>10. JobShaped'
  <2>1. \A q \in new.todo : ~ Embeds(q)'
    <3>1. new.todo \subseteq IxPaths
      BY <1>6 DEF IxJobs
    <3> QED BY <1>1, <1>6, <1>9, <3>1
  <2> QED BY <1>4, <1>6, <1>7, <1>8, <2>1 DEF JobShaped
<1>11. HeadStored'
  BY <1>6, <1>7 DEF HeadStored
<1>12. JobBacked'
  <2>1. SUFFICES ASSUME ~ disposed, NEW q \in IxPaths, job.manifest[q] # "none"
                 PROVE  q \in torn \/ Backed(job.manifest[q], rows[q])
    BY <1>6, <1>7 DEF JobBacked
  <2> QED BY <1>1, <2>1, JobOf
<1>13. ASSUME ~ disposed, ~ trouble', NEW q \in IxPaths
       PROVE  InTimers(q) \/ InChain(q) \/ OnWay(q)'
  <2>1. SUFFICES ASSUME OnWay(q) PROVE OnWay(q)'
    BY <1>13, JobOf
  <2>2. Hashed(q)' = Hashed(q) /\ content'[q] = content[q]
    BY <1>7 DEF Hashed
  <2>3. CASE q = p
    <3>1. \A k \in DOMAIN more : more[k][1] = p => more[k][2] = v
      BY <1>2, <1>4
    <3>2. Embeds(p)'
      BY <1>4, <1>6, <1>7 DEF Embeds
    <3> QED BY <1>6, <1>7, <2>2, <2>3, <3>1, <3>2 DEF OnWay
  <2>4. CASE q # p
    <3>1. \A k \in DOMAIN more : more[k][1] = q => k \in DOMAIN job.recs /\ more[k] = job.recs[k]
      BY <1>4, <2>4
    <3>2. (q \in new.todo <=> q \in job.todo) /\ (Embeds(q)' <=> Embeds(q))
      BY <1>6, <1>9, <2>4
    <3>3. /\ job'.phase = "read" /\ job'.todo = new.todo /\ job'.recs = more
          /\ job'.manifest = job.manifest
      BY <1>6, <1>7
    <3>4. CASE q \in job.todo
      BY <2>1, <2>2, <3>2, <3>3, <3>4 DEF OnWay
    <3>5. CASE q \notin job.todo /\ Embeds(q)
      <4>1. \A k \in DOMAIN job.recs : job.recs[k][1] = q => job.recs[k][2] = content[q]
        BY <2>1, <3>5 DEF OnWay
      <4>2. \A k \in DOMAIN more : more[k][1] = q => more[k][2] = content[q]
        BY <3>1, <4>1
      <4> QED BY <2>2, <3>2, <3>3, <3>5, <4>2 DEF OnWay
    <3>6. CASE q \notin job.todo /\ ~ Embeds(q)
      BY <2>1, <2>2, <3>2, <3>3, <3>6 DEF OnWay
    <3> QED BY <3>4, <3>5, <3>6
  <2> QED BY <2>3, <2>4
<1>14. rows' \in [IxPaths -> SUBSET (Versions \X (1 .. Parts))] /\ trouble' \in BOOLEAN
  BY DEF IxInv, IxTypes
<1> QED BY <1>6, <1>7, <1>10, <1>11, <1>12, <1>13, <1>14, MovesOn

LEMMA ReadFileSound ==
  ASSUME IxInv, NEW p \in IxPaths, ReadFile(p)
  PROVE  IxInv'
<1>1. job.phase = "read" /\ p \in job.todo /\ trouble' = trouble
  BY DEF ReadFile
<1>2. job \in IxJobs /\ job.swapped = {}
  BY <1>1, JobOf
<1>3. /\ rows \in [IxPaths -> SUBSET (Versions \X (1 .. Parts))]
      /\ job.manifest \in [IxPaths -> Hashes] /\ IxTypes
  BY <1>2 DEF IxInv, IxTypes, IxJobs
<1>4. CASE content[p] = "absent" /\ Continue([job EXCEPT !.todo = @ \ {p}]) /\ UNCHANGED rows
  <2>1. PICK new : new = [job EXCEPT !.todo = @ \ {p}]
    OBVIOUS
  <2>2. /\ new \in IxJobs /\ new.phase = "read" /\ new.todo = job.todo \ {p}
        /\ new.recs = job.recs /\ new.swapped = {} /\ new.manifest = job.manifest
    BY <1>1, <1>2, <2>1 DEF IxJobs
  <2> QED BY <1>1, <1>3, <1>4, <2>1, <2>2, FileLeaves
<1>5. CASE /\ content[p] \in {"big", "blank"}
           /\ Sink([rows EXCEPT ![p] = {}])
           /\ Continue([[job EXCEPT !.todo = @ \ {p}]
                          EXCEPT !.manifest[p] = IF content[p] = "big" THEN "none" ELSE "blank"])
  <2>1. PICK m : m = [job.manifest EXCEPT ![p] = Hashed(p)]
    OBVIOUS
  <2>2. /\ Hashed(p) = IF content[p] = "big" THEN "none" ELSE "blank"
        /\ Hashed(p) \in Hashes /\ Hashed(p) \notin Versions
    BY <1>3, <1>5, HashOf, IndexAssumption
  <2>3. /\ m \in [IxPaths -> Hashes] /\ m[p] = Hashed(p)
        /\ \A q \in IxPaths : q # p => m[q] = job.manifest[q]
    BY <1>3, <2>1, <2>2
  <2>4. PICK t : t = [job EXCEPT !.todo = @ \ {p}]
    OBVIOUS
  <2>5. t \in IxJobs /\ t.manifest = job.manifest
    BY <1>2, <2>4 DEF IxJobs
  <2>6. PICK new : new = [t EXCEPT !.manifest = m]
    OBVIOUS
  <2>7. /\ new \in IxJobs /\ new.phase = "read" /\ new.todo = job.todo \ {p}
        /\ new.recs = job.recs /\ new.swapped = {} /\ new.manifest = m
    BY <1>1, <1>2, <2>3, <2>4, <2>6 DEF IxJobs
  <2>8. Continue(new)
    <3>1. new = [t EXCEPT !.manifest[p] = Hashed(p)]
      BY <2>1, <2>5, <2>6
    <3> QED BY <1>5, <2>2, <2>4, <3>1
  <2>9. rows' = IF disposed THEN rows ELSE [rows EXCEPT ![p] = {}]
    BY <1>5 DEF Sink
  <2>10. /\ rows' \in [IxPaths -> SUBSET (Versions \X (1 .. Parts))]
         /\ \A q \in IxPaths : q # p => rows'[q] = rows[q]
         /\ ~ disposed => rows'[p] = {}
    BY <1>3, <2>9
  <2> QED BY <1>1, <2>2, <2>3, <2>7, <2>8, <2>10, FileLeaves
<1>6. CASE /\ content[p] \in Versions
           /\ Continue([[job EXCEPT !.todo = @ \ {p}]
                          EXCEPT !.recs = @ \o [i \in 1 .. Parts |-> <<p, content[p], i>>]])
           /\ UNCHANGED rows
  <2>1. PICK v \in Versions : v = content[p]
    BY <1>6
  <2>2. PICK more : more = job.recs \o PartsOf(p, v)
    OBVIOUS
  <2>3. [job EXCEPT !.todo = @ \ {p}, !.recs = more]
          = [[job EXCEPT !.todo = @ \ {p}]
               EXCEPT !.recs = @ \o [i \in 1 .. Parts |-> <<p, content[p], i>>]]
    BY <1>2, <2>1, <2>2 DEF IxJobs, PartsOf
  <2>4. Continue([job EXCEPT !.todo = @ \ {p}, !.recs = more])
    BY <1>6, <2>3
  <2> QED BY <1>1, <1>6, <2>1, <2>2, <2>4, FileQueued
<1> QED BY <1>4, <1>5, <1>6 DEF ReadFile

LEMMA ReadFailsSound ==
  ASSUME IxInv, ReadFails
  PROVE  IxInv'
<1>1. job.phase = "read" /\ trouble' = TRUE /\ rows' = rows
  BY DEF ReadFails
<1>2. job \in IxJobs /\ job.swapped = {}
  BY <1>1, JobOf
<1>3. PICK new : new = [job EXCEPT !.phase = "write", !.kind = "failed", !.recs = << >>]
  OBVIOUS
<1>4. /\ new \in IxJobs /\ new.phase = "write" /\ new.recs = << >> /\ new.swapped = {}
      /\ new.manifest = job.manifest
  <2>1. << >> \in Seq(Batches)
    OBVIOUS
  <2>2. new.phase = "write" /\ new.recs = << >> /\ new.swapped = {} /\ new.manifest = job.manifest
    BY <1>2, <1>3 DEF IxJobs
  <2>3. new \in IxJobs
    BY <1>2, <1>3, <2>1 DEF IxJobs
  <2> QED BY <2>2, <2>3
<1>5. Continue(new) /\ job' = new /\ UNCHANGED <<content, timers, chain, disposed, torn>>
  BY <1>3 DEF ReadFails, Continue
<1>6. Blocks(<< >>)
  BY DEF Blocks
<1>7. JobShaped'
  BY <1>4, <1>5, <1>6 DEF JobShaped
<1>8. HeadStored'
  BY <1>4, <1>5 DEF HeadStored
<1>9. JobBacked'
  <2>1. SUFFICES ASSUME ~ disposed, NEW q \in IxPaths, job.manifest[q] # "none"
                 PROVE  q \in torn \/ Backed(job.manifest[q], rows[q])
    BY <1>1, <1>4, <1>5 DEF JobBacked
  <2> QED BY <1>1, <1>2, <2>1, JobOf
<1>10. rows' \in [IxPaths -> SUBSET (Versions \X (1 .. Parts))] /\ trouble' \in BOOLEAN
  BY <1>1 DEF IxInv, IxTypes
<1> QED BY <1>1, <1>4, <1>5, <1>7, <1>8, <1>9, <1>10, MovesOn

LEMMA FilesReadSound ==
  ASSUME IxInv, FilesRead
  PROVE  IxInv'
<1>1. job.phase = "read" /\ job.todo = {} /\ trouble' = trouble /\ rows' = rows
  BY DEF FilesRead
<1>2. /\ job \in IxJobs /\ job.swapped = {} /\ Blocks(job.recs)
      /\ job.recs # << >> => job.recs[1][3] = 1
  BY <1>1, JobOf
<1>3. PICK new : new = [job EXCEPT !.phase = IF job.recs = << >> THEN "write" ELSE "embed"]
  OBVIOUS
<1>4. /\ new \in IxJobs /\ new.phase = (IF job.recs = << >> THEN "write" ELSE "embed")
      /\ new.recs = job.recs /\ new.swapped = {} /\ new.manifest = job.manifest
  BY <1>2, <1>3 DEF IxJobs
<1>5. Continue(new) /\ job' = new /\ UNCHANGED <<content, timers, chain, disposed, torn>>
  BY <1>3 DEF FilesRead, Continue
<1>6. JobShaped'
  BY <1>2, <1>4, <1>5 DEF JobShaped
<1>7. HeadStored'
  BY <1>4, <1>5 DEF HeadStored
<1>8. JobBacked'
  <2>1. SUFFICES ASSUME ~ disposed, NEW q \in IxPaths, job.manifest[q] # "none"
                 PROVE  q \in torn \/ Backed(job.manifest[q], rows[q])
    BY <1>1, <1>4, <1>5 DEF JobBacked
  <2> QED BY <1>1, <1>2, <2>1, JobOf
<1>9. ASSUME ~ disposed, ~ trouble', NEW q \in IxPaths
      PROVE  InTimers(q) \/ InChain(q) \/ OnWay(q)'
  <2>1. SUFFICES ASSUME OnWay(q) PROVE OnWay(q)'
    BY <1>1, <1>9, JobOf
  <2>2. Hashed(q)' = Hashed(q) /\ content'[q] = content[q]
    BY <1>5 DEF Hashed
  <2>3. Embeds(q)' <=> Embeds(q)
    BY <1>4, <1>5 DEF Embeds
  <2> QED BY <1>1, <1>4, <1>5, <2>1, <2>2, <2>3 DEF OnWay
<1>10. rows' \in [IxPaths -> SUBSET (Versions \X (1 .. Parts))] /\ trouble' \in BOOLEAN
  BY <1>1 DEF IxInv, IxTypes
<1> QED BY <1>1, <1>4, <1>5, <1>6, <1>7, <1>8, <1>9, <1>10, MovesOn

LEMMA SwapFailsSound ==
  ASSUME IxInv, SwapFails
  PROVE  IxInv'
<1>1. job.phase \in {"embed", "upsert"} /\ trouble' = TRUE /\ rows' = rows
  BY DEF SwapFails
<1>2. job \in IxJobs
  BY <1>1, JobOf
<1>3. PICK m : m = [p \in IxPaths |->
                      IF p \in job.swapped \cap {job.recs[i][1] : i \in DOMAIN job.recs}
                      THEN "none" ELSE job.manifest[p]]
  OBVIOUS
<1>4. \A q \in IxPaths : m[q] = IF q \in job.swapped /\ Embeds(q) THEN "none" ELSE job.manifest[q]
  BY <1>3 DEF Embeds
<1>5. m \in [IxPaths -> Hashes]
  BY <1>2, <1>3 DEF IxJobs, Hashes
<1>6. PICK new : new = [job EXCEPT !.phase = "write", !.recs = << >>, !.kind = "failed", !.manifest = m]
  OBVIOUS
<1>7. /\ new \in IxJobs /\ new.phase = "write" /\ new.recs = << >> /\ new.manifest = m
  <2>1. << >> \in Seq(Batches)
    OBVIOUS
  <2>2. new.phase = "write" /\ new.recs = << >> /\ new.manifest = m
    BY <1>2, <1>6 DEF IxJobs
  <2>3. new \in IxJobs
    BY <1>2, <1>5, <1>6, <2>1 DEF IxJobs
  <2> QED BY <2>2, <2>3
<1>8. Continue(new) /\ job' = new /\ UNCHANGED <<content, timers, chain, disposed, torn>>
  <2>1. Continue(new)
    BY <1>2, <1>3, <1>6 DEF SwapFails, IxJobs
  <2> QED BY <2>1 DEF Continue
<1>9. Blocks(<< >>)
  BY DEF Blocks
<1>10. JobShaped'
  BY <1>7, <1>8, <1>9 DEF JobShaped
<1>11. HeadStored'
  BY <1>7, <1>8 DEF HeadStored
<1>12. JobBacked'
  <2>1. SUFFICES ASSUME ~ disposed, NEW q \in IxPaths, m[q] # "none"
                 PROVE  q \in torn \/ Backed(m[q], rows[q])
    BY <1>1, <1>7, <1>8 DEF JobBacked
  <2>2. ~ (q \in job.swapped /\ Embeds(q)) /\ m[q] = job.manifest[q]
    BY <1>4, <2>1
  <2>3. q \in torn \/ Backed(job.manifest[q], rows[q])
    BY <1>1, <2>1, <2>2, JobOf
  <2> QED BY <2>2, <2>3
<1>13. rows' \in [IxPaths -> SUBSET (Versions \X (1 .. Parts))] /\ trouble' \in BOOLEAN
  BY <1>1 DEF IxInv, IxTypes
<1> QED BY <1>1, <1>7, <1>8, <1>10, <1>11, <1>12, <1>13, MovesOn

LEMMA EmbedSwapsSound ==
  ASSUME IxInv, EmbedSwaps
  PROVE  IxInv'
<1>1. job.phase = "embed" /\ ~ disposed /\ trouble' = trouble
  BY DEF EmbedSwaps
<1>2. /\ job \in IxJobs /\ job.recs # << >> /\ Blocks(job.recs) /\ Busy
      /\ job.recs[1][1] \notin job.swapped => job.recs[1][3] = 1
      /\ \A k \in DOMAIN job.recs : job.recs[k][1] \in job.swapped =>
                                      job.recs[k][1] = job.recs[1][1]
  BY <1>1, JobOf
<1>3. PICK b \in Batches : b = job.recs[1] /\ b = Head(job.recs)
  <2>1. job.recs \in Seq(Batches)
    BY <1>2 DEF IxJobs
  <2>2. job.recs[1] \in Batches /\ job.recs[1] = Head(job.recs)
    BY <1>2, <2>1
  <2> QED BY <2>2
<1>4. PICK f \in IxPaths : f = b[1]
  BY DEF Batches
<1>5. /\ f \notin job.swapped /\ rows' = [rows EXCEPT ![f] = {}]
      /\ Continue([job EXCEPT !.phase = "upsert", !.swapped = @ \cup {f}])
  BY <1>3, <1>4 DEF EmbedSwaps
<1>6. PICK new : new = [job EXCEPT !.phase = "upsert", !.swapped = @ \cup {f}]
  OBVIOUS
<1>7. /\ new \in IxJobs /\ new.phase = "upsert" /\ new.recs = job.recs
      /\ new.manifest = job.manifest /\ new.swapped = job.swapped \cup {f}
  BY <1>2, <1>6 DEF IxJobs
<1>8. Continue(new) /\ job' = new /\ UNCHANGED <<content, timers, chain, disposed, torn>>
  BY <1>5, <1>6 DEF Continue
<1>9. rows \in [IxPaths -> SUBSET (Versions \X (1 .. Parts))] /\ trouble \in BOOLEAN
  BY DEF IxInv, IxTypes
<1>10. /\ rows' \in [IxPaths -> SUBSET (Versions \X (1 .. Parts))] /\ rows'[f] = {}
       /\ \A q \in IxPaths : q # f => rows'[q] = rows[q]
  BY <1>5, <1>9
<1>11. \A q \in IxPaths : Embeds(q)' <=> Embeds(q)
  BY <1>7, <1>8 DEF Embeds
<1>12. Embeds(f) /\ job.recs[1][3] = 1 /\ job.recs[1][1] = f
  <2>1. 1 \in DOMAIN job.recs
    BY <1>2 DEF IxJobs
  <2> QED BY <1>2, <1>3, <1>4, <1>5, <2>1 DEF Embeds
<1>13. JobShaped'
  <2>1. \A k \in DOMAIN job.recs : job.recs[k][1] \in new.swapped => job.recs[k][1] = job.recs[1][1]
    BY <1>2, <1>7, <1>12
  <2>2. job.recs[1][1] \in new.swapped
    BY <1>7, <1>12
  <2> QED BY <1>2, <1>7, <1>8, <1>12, <2>1, <2>2 DEF JobShaped
<1>14. HeadStored'
  <2>1. rows'[f] = {job.recs[1][2]} \X (1 .. job.recs[1][3] - 1)
    BY <1>10, <1>12
  <2> QED BY <1>7, <1>8, <1>12, <2>1 DEF HeadStored
<1>15. JobBacked'
  <2>1. SUFFICES ASSUME NEW q \in IxPaths, job.manifest[q] # "none",
                        ~ (q \in new.swapped /\ Embeds(q))
                 PROVE  q \in torn \/ Backed(job.manifest[q], rows'[q])
    BY <1>7, <1>8, <1>11 DEF JobBacked
  <2>2. q # f /\ ~ (q \in job.swapped /\ Embeds(q))
    BY <1>7, <1>12, <2>1
  <2>3. q \in torn \/ Backed(job.manifest[q], rows[q])
    BY <1>1, <2>1, <2>2, JobOf
  <2> QED BY <1>10, <2>2, <2>3
<1>16. ASSUME ~ disposed, ~ trouble', NEW q \in IxPaths
       PROVE  InTimers(q) \/ InChain(q) \/ OnWay(q)'
  <2>1. SUFFICES ASSUME OnWay(q) PROVE OnWay(q)'
    BY <1>1, <1>16, JobOf
  <2>2. Hashed(q)' = Hashed(q) /\ content'[q] = content[q]
    BY <1>8 DEF Hashed
  <2> QED BY <1>1, <1>7, <1>8, <1>11, <2>1, <2>2 DEF OnWay
<1> QED BY <1>1, <1>7, <1>8, <1>9, <1>10, <1>13, <1>14, <1>15, <1>16, MovesOn

\* A batch was stored.
LEMMA BatchStored ==
  ASSUME IxInv, job.phase \in {"embed", "upsert"}, NEW b \in Batches, b = job.recs[1],
         b[1] \in job.swapped, Continue(Upserted(b)), trouble' = trouble,
         NEW stored, stored = [rows EXCEPT ![b[1]] = @ \cup {<<b[2], b[3]>>}],
         rows' = IF disposed THEN rows ELSE stored
  PROVE  IxInv'
<1>1. /\ job \in IxJobs /\ job.recs # << >> /\ Blocks(job.recs) /\ Busy
      /\ \A k \in DOMAIN job.recs : job.recs[k][1] \in job.swapped =>
                                      job.recs[k][1] = job.recs[1][1]
  BY JobOf
<1>2. PICK f \in IxPaths : f = b[1]
  BY DEF Batches
<1>3. PICK v \in Versions : v = b[2]
  BY DEF Batches
<1>4. PICK n \in 1 .. Parts : n = b[3]
  BY DEF Batches
<1>5. b = <<f, v, n>> /\ Parts \in Nat \ {0}
  BY <1>2, <1>3, <1>4, IndexAssumption DEF Batches
<1>6. PICK recs \in Seq(Batches) : recs = job.recs
  BY <1>1 DEF IxJobs
<1>7. Blocks(recs) /\ recs # << >> /\ recs[1] = b
  BY <1>1, <1>6
<1>8. PICK tail \in Seq(Batches) : tail = Tail(recs)
  BY <1>7, BehindHead
<1>9. /\ Blocks(tail) /\ Len(tail) = Len(recs) - 1
      /\ \A k \in DOMAIN tail : k + 1 \in DOMAIN recs /\ tail[k] = recs[k + 1]
      /\ n < Parts => tail # << >> /\ tail[1] = <<f, v, n + 1>>
      /\ n = Parts => /\ \A k \in DOMAIN tail : tail[k][1] # f
                      /\ tail # << >> => tail[1][3] = 1
  <2>1. Blocks(tail) /\ Len(tail) = Len(recs) - 1
    BY <1>7, <1>8, BehindHead
  <2>2. \A k \in DOMAIN tail : k + 1 \in DOMAIN recs /\ tail[k] = recs[k + 1]
    BY <1>7, <1>8, BehindHead
  <2>3. n < Parts => tail # << >> /\ tail[1] = <<recs[1][1], recs[1][2], recs[1][3] + 1>>
    BY <1>4, <1>7, <1>8, BehindHead
  <2>4. n = Parts => /\ \A k \in DOMAIN tail : tail[k][1] # recs[1][1]
                     /\ tail # << >> => tail[1][3] = 1
    BY <1>4, <1>7, <1>8, BehindHead
  <2>5. recs[1][1] = f /\ recs[1][2] = v /\ recs[1][3] = n
    BY <1>2, <1>3, <1>4, <1>7
  <2> QED BY <2>1, <2>2, <2>3, <2>4, <2>5
<1>10. PICK m : m = [job.manifest EXCEPT ![f] = IF n = Parts THEN v ELSE @]
  OBVIOUS
<1>11. /\ m \in [IxPaths -> Hashes] /\ m[f] = IF n = Parts THEN v ELSE job.manifest[f]
       /\ \A q \in IxPaths : q # f => m[q] = job.manifest[q]
  <2>1. job.manifest \in [IxPaths -> Hashes] /\ v \in Hashes
    BY <1>1 DEF IxJobs, Hashes
  <2> QED BY <1>10, <2>1
<1>12. PICK new : new = [job EXCEPT !.recs = tail,
                                   !.phase = IF Len(recs) = 1 THEN "write" ELSE "embed",
                                   !.manifest = m]
  OBVIOUS
<1>13. /\ new.recs = tail /\ new.manifest = m /\ new.swapped = job.swapped
       /\ new.phase = IF tail = << >> THEN "write" ELSE "embed"
  <2>1. Len(recs) = 1 <=> tail = << >>
    <3>1. tail = << >> <=> Len(tail) = 0
      OBVIOUS
    <3>2. Len(recs) \in Nat /\ Len(tail) = Len(recs) - 1
      BY <1>9
    <3> QED BY <3>1, <3>2
  <2> QED BY <1>1, <1>12, <2>1 DEF IxJobs
<1>14. new \in IxJobs
  BY <1>1, <1>11, <1>12 DEF IxJobs
<1>15. Continue(new) /\ job' = new /\ UNCHANGED <<content, timers, chain, disposed, torn>>
  <2>1. new = Upserted(b)
    BY <1>1, <1>2, <1>3, <1>4, <1>6, <1>8, <1>10, <1>12 DEF Upserted, IxJobs
  <2> QED BY <2>1 DEF Continue
<1>16. rows \in [IxPaths -> SUBSET (Versions \X (1 .. Parts))] /\ trouble \in BOOLEAN
  BY DEF IxInv, IxTypes
<1>17. /\ rows' \in [IxPaths -> SUBSET (Versions \X (1 .. Parts))]
       /\ ~ disposed => /\ rows'[f] = rows[f] \cup {<<v, n>>}
                        /\ \A q \in IxPaths : q # f => rows'[q] = rows[q]
  <2>1. stored = [rows EXCEPT ![f] = rows[f] \cup {<<v, n>>}]
    BY <1>2, <1>3, <1>4
  <2>2. <<v, n>> \in Versions \X (1 .. Parts)
    OBVIOUS
  <2>3. stored \in [IxPaths -> SUBSET (Versions \X (1 .. Parts))]
    <3>1. PICK r \in SUBSET (Versions \X (1 .. Parts)) : r = rows[f] \cup {<<v, n>>}
      BY <1>16, <2>2
    <3>2. stored = [rows EXCEPT ![f] = r]
      BY <2>1, <3>1
    <3> QED BY <1>16, <3>2
  <2>4. stored[f] = rows[f] \cup {<<v, n>>} /\ \A q \in IxPaths : q # f => stored[q] = rows[q]
    BY <1>16, <2>1
  <2> QED BY <1>16, <2>3, <2>4
<1>18. \A k \in DOMAIN tail : tail[k][1] \in job.swapped => tail[k][1] = f
  BY <1>1, <1>2, <1>6, <1>9
<1>19. f \in job.swapped
  BY <1>2
<1>20. n < Parts \/ n = Parts
  BY <1>5
<1>21. JobShaped'
  <2>1. tail # << >> /\ tail[1][1] \notin job.swapped => tail[1][3] = 1
    BY <1>9, <1>19, <1>20
  <2>2. \A k \in DOMAIN tail : tail[k][1] \in job.swapped => tail[k][1] = tail[1][1]
    BY <1>9, <1>18, <1>20
  <2> QED BY <1>9, <1>13, <1>15, <2>1, <2>2 DEF JobShaped
<1>22. ~ disposed => rows[f] = {v} \X (1 .. n - 1)
  <2>1. HeadStored
    BY DEF IxInv
  <2> QED BY <1>1, <1>2, <1>3, <1>4, <2>1 DEF HeadStored
<1>23. ~ disposed => rows'[f] = {v} \X (1 .. n)
  <2>1. {v} \X (1 .. n) = ({v} \X (1 .. n - 1)) \cup {<<v, n>>}
    <3>1. 1 .. n = (1 .. n - 1) \cup {n}
      BY <1>5
    <3> QED BY <3>1
  <2> QED BY <1>17, <1>22, <2>1
<1>24. HeadStored'
  <2>1. SUFFICES ASSUME ~ disposed, tail # << >>, tail[1][1] \in job.swapped
                 PROVE  rows'[tail[1][1]] = {tail[1][2]} \X (1 .. tail[1][3] - 1)
    BY <1>13, <1>15 DEF HeadStored
  <2>2. tail[1][1] = f
    <3>1. 1 \in DOMAIN tail
      BY <2>1
    <3> QED BY <1>18, <2>1, <3>1
  <2>3. n < Parts
    <3>1. 1 \in DOMAIN tail
      BY <2>1
    <3> QED BY <1>9, <1>20, <2>2, <3>1
  <2>4. tail[1][2] = v /\ tail[1][3] = n + 1 /\ (n + 1) - 1 = n
    BY <1>9, <2>3
  <2> QED BY <1>23, <2>1, <2>2, <2>4
<1>25. \A q \in IxPaths : Embeds(q)' <=> \E k \in DOMAIN tail : tail[k][1] = q
  BY <1>13, <1>15 DEF Embeds
<1>26. \A q \in IxPaths : Embeds(q) <=> \E k \in DOMAIN recs : recs[k][1] = q
  BY <1>6 DEF Embeds
<1>27. Embeds(f)' <=> n < Parts
  <2>1. n < Parts => Embeds(f)'
    <3>1. ASSUME n < Parts PROVE \E k \in DOMAIN tail : tail[k][1] = f
      <4>1. tail # << >> /\ tail[1][1] = f
        BY <1>9, <3>1
      <4>2. 1 \in DOMAIN tail
        BY <4>1
      <4> QED BY <4>1, <4>2
    <3> QED BY <1>25, <3>1
  <2>2. n = Parts => ~ Embeds(f)'
    BY <1>9, <1>25
  <2>3. ~ (n < Parts /\ n = Parts)
    BY <1>5
  <2> QED BY <1>20, <2>1, <2>2, <2>3
<1>28. ASSUME NEW q \in IxPaths, q # f PROVE Embeds(q)' <=> Embeds(q)
  <2>1. ASSUME NEW k \in DOMAIN tail, tail[k][1] = q PROVE \E l \in DOMAIN recs : recs[l][1] = q
    BY <1>9, <2>1
  <2>2. ASSUME NEW l \in DOMAIN recs, recs[l][1] = q PROVE \E k \in DOMAIN tail : tail[k][1] = q
    <3>1. l # 1
      BY <1>2, <1>7, <1>28, <2>2
    <3>2. PICK k \in DOMAIN tail : k + 1 = l
      <4>1. l \in 1 .. Len(recs) /\ DOMAIN tail = 1 .. Len(tail) /\ Len(recs) \in Nat
        BY <1>6
      <4>2. l - 1 \in 1 .. Len(tail) /\ (l - 1) + 1 = l
        BY <1>9, <3>1, <4>1
      <4> QED BY <4>1, <4>2
    <3> QED BY <1>9, <2>2, <3>2
  <2> QED BY <1>25, <1>26, <2>1, <2>2
<1>29. JobBacked'
  <2>1. SUFFICES ASSUME ~ disposed, NEW q \in IxPaths, m[q] # "none",
                        ~ (q \in job.swapped /\ Embeds(q)')
                 PROVE  q \in torn \/ Backed(m[q], rows'[q])
    BY <1>13, <1>15 DEF JobBacked
  <2>2. CASE q = f
    <3>1. n = Parts
      BY <1>19, <1>20, <1>27, <2>1, <2>2
    <3>2. m[q] = v /\ rows'[q] = {v} \X (1 .. Parts)
      BY <1>11, <1>23, <2>1, <2>2, <3>1
    <3> QED BY <3>2 DEF Backed
  <2>3. CASE q # f
    <3>1. m[q] = job.manifest[q] /\ rows'[q] = rows[q] /\ (Embeds(q)' <=> Embeds(q))
      BY <1>11, <1>17, <1>28, <2>1, <2>3
    <3>2. q \in torn \/ Backed(job.manifest[q], rows[q])
      BY <2>1, <3>1, JobOf
    <3> QED BY <3>1, <3>2
  <2> QED BY <2>2, <2>3
<1>30. ASSUME ~ disposed, ~ trouble', NEW q \in IxPaths
       PROVE  InTimers(q) \/ InChain(q) \/ OnWay(q)'
  <2>1. SUFFICES ASSUME OnWay(q) PROVE OnWay(q)'
    BY <1>30, JobOf
  <2>2. Hashed(q)' = Hashed(q) /\ content'[q] = content[q]
    BY <1>15 DEF Hashed
  <2>3. job'.phase \in {"write", "embed"} /\ job'.recs = tail /\ job'.manifest = m
    BY <1>13, <1>15
  <2>4. job.phase \in {"embed", "upsert"}
    OBVIOUS
  <2>5. CASE Embeds(q)
    <3>1. \A k \in DOMAIN recs : recs[k][1] = q => recs[k][2] = content[q]
      BY <1>6, <2>1, <2>4, <2>5 DEF OnWay
    <3>2. CASE Embeds(q)'
      <4>1. \A k \in DOMAIN tail : tail[k][1] = q => tail[k][2] = content[q]
        BY <1>9, <3>1
      <4> QED BY <2>2, <2>3, <3>2, <4>1 DEF OnWay
    <3>3. CASE ~ Embeds(q)'
      <4>1. q = f
        BY <1>28, <2>5, <3>3
      <4>2. n = Parts
        BY <1>20, <1>27, <3>3, <4>1
      <4>3. v = content[q]
        <5>1. 1 \in DOMAIN recs
          BY <1>7
        <5> QED BY <1>2, <1>3, <1>7, <3>1, <4>1, <5>1
      <4>4. Hashed(q) = v
        <5>1. IxTypes
          BY DEF IxInv
        <5> QED BY <4>3, <5>1, HashOf
      <4> QED BY <1>11, <2>2, <2>3, <3>3, <4>1, <4>2, <4>4 DEF OnWay
    <3> QED BY <3>2, <3>3
  <2>6. CASE ~ Embeds(q)
    <3>1. q # f
      <4>1. 1 \in DOMAIN recs /\ recs[1][1] = f
        BY <1>2, <1>7
      <4> QED BY <1>26, <2>6, <4>1
    <3>2. job.manifest[q] = Hashed(q)
      BY <2>1, <2>4, <2>6 DEF OnWay
    <3>3. m[q] = job.manifest[q] /\ ~ Embeds(q)'
      BY <1>11, <1>28, <2>6, <3>1
    <3> QED BY <2>2, <2>3, <3>2, <3>3 DEF OnWay
  <2> QED BY <2>5, <2>6
<1> QED BY <1>13, <1>14, <1>15, <1>16, <1>17, <1>21, <1>24, <1>29, <1>30, MovesOn

LEMMA EmbedStoresSound ==
  ASSUME IxInv, EmbedStores
  PROVE  IxInv'
<1>1. job.phase = "embed" /\ ~ disposed /\ trouble' = trouble
  BY DEF EmbedStores
<1>2. PICK b \in Batches : b = job.recs[1] /\ b = Head(job.recs)
  <2>1. job.recs \in Seq(Batches) /\ job.recs # << >>
    BY <1>1, JobOf DEF IxJobs
  <2>2. job.recs[1] \in Batches /\ job.recs[1] = Head(job.recs)
    BY <2>1
  <2> QED BY <2>2
<1>3. /\ b[1] \in job.swapped /\ Continue(Upserted(b))
      /\ rows' = [rows EXCEPT ![b[1]] = @ \cup {<<b[2], b[3]>>}]
  BY <1>2 DEF EmbedStores
<1> QED BY <1>1, <1>2, <1>3, BatchStored

LEMMA UpsertSound ==
  ASSUME IxInv, Upsert
  PROVE  IxInv'
<1>1. job.phase = "upsert" /\ trouble' = trouble
  BY DEF Upsert
<1>2. PICK b \in Batches : b = job.recs[1] /\ b = Head(job.recs)
  <2>1. job.recs \in Seq(Batches) /\ job.recs # << >>
    BY <1>1, JobOf DEF IxJobs
  <2>2. job.recs[1] \in Batches /\ job.recs[1] = Head(job.recs)
    BY <2>1
  <2> QED BY <2>2
<1>3. /\ Continue(Upserted(b))
      /\ rows' = IF disposed THEN rows ELSE [rows EXCEPT ![b[1]] = @ \cup {<<b[2], b[3]>>}]
  BY <1>2 DEF Upsert, Sink
<1>4. b[1] \in job.swapped
  BY <1>1, <1>2, JobOf
<1> QED BY <1>1, <1>2, <1>3, <1>4, BatchStored

\* A job that ends with nothing written, and one that wrote the manifest.
LEMMA UnwrittenSound ==
  ASSUME IxInv, Busy, EndUnwritten, rows' = rows, trouble' \in BOOLEAN, disposed \/ trouble'
  PROVE  IxInv'
<1>1. /\ job' = NoJob /\ UNCHANGED <<content, claims, meta, timers, chain, disposed>>
      /\ torn' = torn \cup {p \in IxPaths : Claimed(p) /\ ~ Backed(claims[p], rows'[p])}
  BY DEF EndUnwritten
<1>2. IxTypes /\ ChangesAreSingle /\ DeletesFollowed
  BY DEF IxInv
<1>3. IxTypes'
  BY <1>1, <1>2 DEF IxTypes
<1>4. ~ Busy'
  BY <1>1 DEF Busy
<1>5. JobShaped' /\ HeadStored' /\ JobBacked'
  BY <1>4 DEF JobShaped, HeadStored, JobBacked
<1>6. ClaimsBacked'
  <2>1. SUFFICES ASSUME NEW p \in IxPaths, Claimed(p)
                 PROVE  p \in torn' \/ Backed(claims[p], rows'[p])
    BY <1>1 DEF ClaimsBacked, Claimed
  <2> QED BY <1>1, <2>1
<1>7. ChangesAreSingle' /\ DeletesFollowed'
  BY <1>1, <1>2 DEF ChangesAreSingle, DeletesFollowed, InTimers
<1>8. Fresh'
  BY <1>1 DEF Fresh
<1> QED BY <1>3, <1>5, <1>6, <1>7, <1>8 DEF IxInv

LEMMA ManifestSound ==
  ASSUME IxInv, WriteManifest
  PROVE  IxInv'
<1>1. /\ job.phase = "write" /\ ~ disposed /\ claims' = job.manifest /\ job' = NoJob
      /\ torn' = {p \in torn : job.manifest[p] # "none" /\ ~ Backed(job.manifest[p], rows[p])}
      /\ meta' \in {TRUE, meta}
      /\ UNCHANGED <<content, rows, timers, chain, disposed, trouble>>
  BY DEF WriteManifest
<1>2. /\ job \in IxJobs /\ Busy /\ \A p \in IxPaths : ~ Embeds(p)
      /\ \A p \in IxPaths : job.manifest[p] # "none"
                              => p \in torn \/ Backed(job.manifest[p], rows[p])
  <2>1. /\ job \in IxJobs /\ Busy /\ job.recs = << >>
        /\ \A p \in IxPaths : job.manifest[p] # "none" /\ ~ (p \in job.swapped /\ Embeds(p))
                                => p \in torn \/ Backed(job.manifest[p], rows[p])
    BY <1>1, JobOf
  <2>2. \A p \in IxPaths : ~ Embeds(p)
    BY <2>1 DEF Embeds
  <2> QED BY <2>1, <2>2
<1>3. IxTypes /\ ChangesAreSingle /\ DeletesFollowed /\ Fresh
  BY DEF IxInv
<1>4. IxTypes'
  <2>1. job.manifest \in [IxPaths -> Hashes]
    BY <1>2 DEF IxJobs
  <2>2. torn' \subseteq IxPaths /\ meta' \in BOOLEAN
    BY <1>1, <1>3 DEF IxTypes
  <2> QED BY <1>1, <1>3, <2>1, <2>2 DEF IxTypes
<1>5. ~ Busy'
  BY <1>1 DEF Busy
<1>6. JobShaped' /\ HeadStored' /\ JobBacked'
  BY <1>5 DEF JobShaped, HeadStored, JobBacked
<1>7. ClaimsBacked'
  <2>1. SUFFICES ASSUME NEW p \in IxPaths, job.manifest[p] # "none"
                 PROVE  p \in torn' \/ Backed(job.manifest[p], rows[p])
    BY <1>1 DEF ClaimsBacked, Claimed
  <2> QED BY <1>1, <1>2, <2>1
<1>8. ChangesAreSingle' /\ DeletesFollowed'
  BY <1>1, <1>3 DEF ChangesAreSingle, DeletesFollowed, InTimers
<1>9. Fresh'
  <2>1. SUFFICES ASSUME ~ trouble, NEW p \in IxPaths
                 PROVE  InTimers(p) \/ InChain(p) \/ job.manifest[p] = Hashed(p)
    <3>1. \A p \in IxPaths : /\ InTimers(p)' <=> InTimers(p)
                             /\ InChain(p)' <=> InChain(p)
                             /\ Hashed(p)' = Hashed(p)
      BY <1>1 DEF InTimers, InChain, Hashed
    <3> QED BY <1>1, <1>5, <3>1 DEF Fresh
  <2>2. InTimers(p) \/ InChain(p) \/ OnWay(p)
    BY <1>1, <1>2, <1>3, <2>1 DEF Fresh
  <2> QED BY <1>1, <1>2, <2>2 DEF OnWay
<1> QED BY <1>4, <1>6, <1>7, <1>8, <1>9 DEF IxInv

-------------------------------------------------------------------------------
\* The events: what a new timer leaves of the others, and their way to a job.

LEMMA OneRemoved ==
  ASSUME NEW S, NEW s \in Seq(S), NEW n \in DOMAIN s
  PROVE  /\ RemoveAt(s, n) \in Seq(S) /\ Len(RemoveAt(s, n)) = Len(s) - 1
         /\ \A i \in 1 .. Len(s) - 1 : RemoveAt(s, n)[i] = s[IF i < n THEN i ELSE i + 1]
<1> DEFINE a == SubSeq(s, 1, n - 1)
           b == SubSeq(s, n + 1, Len(s))
<1>1. n \in 1 .. Len(s)
  OBVIOUS
<1>2. a \in Seq(S) /\ Len(a) = n - 1 /\ \A i \in 1 .. n - 1 : a[i] = s[i]
  BY <1>1
<1>3. b \in Seq(S) /\ Len(b) = Len(s) - n /\ \A i \in 1 .. Len(s) - n : b[i] = s[n + i]
  BY <1>1
<1>4. RemoveAt(s, n) = a \o b
  BY DEF RemoveAt
<1> HIDE DEF a, b
<1>5. a \o b \in Seq(S) /\ Len(a \o b) = Len(s) - 1
  BY <1>1, <1>2, <1>3
<1>6. ASSUME NEW i \in 1 .. Len(s) - 1
      PROVE  (a \o b)[i] = s[IF i < n THEN i ELSE i + 1]
  <2>1. CASE i < n
    <3>1. (a \o b)[i] = a[i] /\ i \in 1 .. n - 1
      BY <1>1, <1>2, <1>3, <2>1
    <3> QED BY <1>2, <2>1, <3>1
  <2>2. CASE ~ i < n
    <3>1. i - (n - 1) \in 1 .. Len(s) - n
      BY <1>1, <2>2
    <3>2. (a \o b)[i] = b[i - (n - 1)]
      <4>1. \A l \in 1 .. Len(b) : (a \o b)[l + Len(a)] = b[l]
        BY <1>2, <1>3
      <4>2. (i - (n - 1)) + Len(a) = i /\ i - (n - 1) \in 1 .. Len(b)
        BY <1>1, <1>2, <1>3, <3>1
      <4> QED BY <4>1, <4>2
    <3>3. (a \o b)[i] = s[n + (i - (n - 1))]
      BY <1>3, <3>1, <3>2
    <3>4. n + (i - (n - 1)) = i + 1
      BY <1>1
    <3> QED BY <2>2, <3>3, <3>4
  <2> QED BY <2>1, <2>2
<1> QED BY <1>4, <1>5, <1>6

\* r is s without the entry for on, in the same order.
Spares(r, s, on) ==
  /\ r \in Seq(IxEvents)
  /\ \A i \in DOMAIN s : s[i].on # on => \E k \in DOMAIN r : r[k] = s[i]
  /\ \A k \in DOMAIN r : \E i \in DOMAIN s :
       /\ r[k] = s[i]
       /\ \A j \in DOMAIN s : j > i /\ s[j].on # on => \E l \in DOMAIN r : l > k /\ r[l] = s[j]

LEMMA RemovedSpares ==
  ASSUME NEW s \in Seq(IxEvents), NEW on, NEW n \in DOMAIN s, s[n].on = on
  PROVE  Spares(RemoveAt(s, n), s, on)
<1>1. PICK r : r = RemoveAt(s, n)
  OBVIOUS
<1>2. /\ r \in Seq(IxEvents) /\ Len(r) = Len(s) - 1
      /\ \A i \in 1 .. Len(s) - 1 : r[i] = s[IF i < n THEN i ELSE i + 1]
  BY <1>1, OneRemoved
<1>3. PICK len \in Nat : len = Len(s)
  OBVIOUS
<1>4. n \in 1 .. len /\ DOMAIN s = 1 .. len /\ DOMAIN r = 1 .. len - 1
  BY <1>2, <1>3
<1>5. ASSUME NEW i \in 1 .. len, s[i].on # on
      PROVE  \E k \in 1 .. len - 1 : r[k] = s[i] /\ k = IF i < n THEN i ELSE i - 1
  <2>1. i # n
    BY <1>5
  <2>2. CASE i < n
    <3>1. i \in 1 .. len - 1 /\ r[i] = s[i]
      BY <1>2, <1>3, <1>4, <2>2
    <3> QED BY <2>2, <3>1
  <2>3. CASE i > n
    <3>1. PICK k \in 1 .. len - 1 : k = i - 1
      BY <1>4, <2>3
    <3>2. ~ k < n /\ k + 1 = i
      BY <1>4, <2>3, <3>1
    <3>3. r[k] = s[i]
      BY <1>2, <1>3, <3>2
    <3> QED BY <1>4, <2>3, <3>1, <3>3
  <2> QED BY <1>4, <2>1, <2>2, <2>3
<1>6. ASSUME NEW k \in DOMAIN r
      PROVE  \E i \in DOMAIN s :
               /\ r[k] = s[i]
               /\ \A j \in DOMAIN s : j > i /\ s[j].on # on => \E l \in DOMAIN r : l > k /\ r[l] = s[j]
  <2>1. PICK i \in DOMAIN s : i = IF k < n THEN k ELSE k + 1
    BY <1>4
  <2>2. r[k] = s[i]
    BY <1>2, <1>3, <1>4, <2>1
  <2>3. ASSUME NEW j \in DOMAIN s, j > i, s[j].on # on
        PROVE  \E l \in DOMAIN r : l > k /\ r[l] = s[j]
    <3>1. PICK l \in DOMAIN r : r[l] = s[j] /\ l = IF j < n THEN j ELSE j - 1
      BY <1>4, <1>5, <2>3
    <3>2. j # n
      BY <2>3
    <3>3. l > k
      BY <1>4, <2>1, <2>3, <3>1, <3>2
    <3> QED BY <3>1, <3>3
  <2> QED BY <2>2, <2>3
<1>7. \A i \in DOMAIN s : s[i].on # on => \E k \in DOMAIN r : r[k] = s[i]
  BY <1>4, <1>5
<1>8. \A k \in DOMAIN r : \E i \in DOMAIN s :
         /\ r[k] = s[i]
         /\ \A j \in DOMAIN s : j > i /\ s[j].on # on => \E l \in DOMAIN r : l > k /\ r[l] = s[j]
  BY <1>6
<1>9. Spares(r, s, on)
  BY <1>2, <1>7, <1>8 DEF Spares
<1> QED BY <1>1, <1>9

LEMMA Rescheduled ==
  ASSUME IxTypes, NEW kind, NEW on, Schedule(kind, on)
  PROVE  \E r \in Seq(IxEvents) : Spares(r, timers, on)
                                    /\ timers' = Append(r, [kind |-> kind, on |-> on])
<1>1. timers \in Seq(IxEvents)
  BY DEF IxTypes
<1>2. CASE TimersOf(on) = {}
  <2>1. Spares(timers, timers, on)
    <3>1. \A k \in DOMAIN timers : \E i \in DOMAIN timers :
            /\ timers[k] = timers[i]
            /\ \A j \in DOMAIN timers :
                 j > i /\ timers[j].on # on => \E l \in DOMAIN timers : l > k /\ timers[l] = timers[j]
      OBVIOUS
    <3> QED BY <1>1, <3>1 DEF Spares
  <2> QED BY <1>1, <1>2, <2>1 DEF Schedule
<1>3. CASE TimersOf(on) # {}
  <2>1. PICK n \in DOMAIN timers :
          timers[n].on = on /\ timers' = Append(RemoveAt(timers, n), [kind |-> kind, on |-> on])
    BY <1>3 DEF Schedule, TimersOf
  <2>2. Spares(RemoveAt(timers, n), timers, on)
    BY <1>1, <2>1, RemovedSpares
  <2> QED BY <2>1, <2>2 DEF Spares
<1> QED BY <1>2, <1>3

LEMMA Appended ==
  ASSUME NEW r \in Seq(IxEvents), NEW e \in IxEvents
  PROVE  /\ Append(r, e) \in Seq(IxEvents)
         /\ \A k \in DOMAIN r : k \in DOMAIN Append(r, e) /\ Append(r, e)[k] = r[k]
         /\ Len(r) + 1 \in DOMAIN Append(r, e) /\ Append(r, e)[Len(r) + 1] = e
         /\ \A k \in DOMAIN Append(r, e) : k \in DOMAIN r \/ k = Len(r) + 1
         /\ \A k \in DOMAIN r : k < Len(r) + 1
OBVIOUS

LEMMA Behind ==
  ASSUME NEW r \in Seq(IxEvents), r # << >>
  PROVE  /\ Tail(r) \in Seq(IxEvents) /\ Head(r) = r[1] /\ r[1] \in IxEvents
         /\ \A k \in DOMAIN Tail(r) : k + 1 \in DOMAIN r /\ Tail(r)[k] = r[k + 1]
         /\ \A k \in DOMAIN r : k # 1 => k - 1 \in DOMAIN Tail(r) /\ Tail(r)[k - 1] = r[k]
<1>1. Tail(r) \in Seq(IxEvents) /\ Len(Tail(r)) = Len(r) - 1 /\ Head(r) = r[1] /\ r[1] \in IxEvents
  OBVIOUS
<1>2. \A k \in 1 .. Len(r) - 1 : Tail(r)[k] = r[k + 1]
  OBVIOUS
<1> QED BY <1>1, <1>2

LEMMA JobUntouched ==
  ASSUME IxInv, UNCHANGED <<job, rows, claims, torn, disposed>>
  PROVE  JobShaped' /\ HeadStored' /\ JobBacked' /\ ClaimsBacked'
<1>1. JobShaped /\ HeadStored /\ JobBacked /\ ClaimsBacked
  BY DEF IxInv
<1>2. /\ job' = job /\ rows' = rows /\ claims' = claims /\ torn' = torn /\ disposed' = disposed
      /\ Busy' <=> Busy
      /\ \A p : Embeds(p)' <=> Embeds(p)
      /\ \A p : Claimed(p)' <=> Claimed(p)
  BY DEF Busy, Embeds, Claimed
<1>3. JobShaped'
  BY <1>1, <1>2 DEF JobShaped
<1>4. HeadStored'
  BY <1>1, <1>2 DEF HeadStored
<1>5. JobBacked'
  BY <1>1, <1>2 DEF JobBacked
<1>6. ClaimsBacked'
  BY <1>1, <1>2 DEF ClaimsBacked
<1> QED BY <1>3, <1>4, <1>5, <1>6

LEMMA EditSound ==
  ASSUME IxInv, NEW f \in IxPaths, EditFile(f)
  PROVE  IxInv'
<1>1. PICK c \in Contents :
        /\ content' = [content EXCEPT ![f] = c]
        /\ Schedule(IF c = "absent" THEN "delete" ELSE "change", {f})
  BY DEF EditFile
<1>2. UNCHANGED <<rows, claims, meta, chain, job, disposed, torn, trouble>>
  BY DEF EditFile
<1>3. IxTypes /\ ChangesAreSingle /\ DeletesFollowed /\ Fresh
  BY DEF IxInv
<1>4. PICK e \in IxEvents : e = [kind |-> IF c = "absent" THEN "delete" ELSE "change", on |-> {f}]
  <2>1. [kind |-> IF c = "absent" THEN "delete" ELSE "change", on |-> {f}] \in IxEvents
    BY DEF IxEvents
  <2> QED BY <2>1
<1>5. PICK r \in Seq(IxEvents) : Spares(r, timers, {f}) /\ timers' = Append(r, e)
  BY <1>1, <1>3, <1>4, Rescheduled
<1>6. e.kind = (IF c = "absent" THEN "delete" ELSE "change") /\ e.on = {f}
  BY <1>4
<1>7. /\ \A i \in DOMAIN timers : timers[i].on # {f} => \E k \in DOMAIN r : r[k] = timers[i]
      /\ \A k \in DOMAIN r : \E i \in DOMAIN timers :
           /\ r[k] = timers[i]
           /\ \A j \in DOMAIN timers : j > i /\ timers[j].on # {f}
                                         => \E l \in DOMAIN r : l > k /\ r[l] = timers[j]
  BY <1>5 DEF Spares
<1>8. PICK last : last = Len(r) + 1
  OBVIOUS
<1>9. /\ timers' \in Seq(IxEvents)
      /\ \A k \in DOMAIN r : k \in DOMAIN timers' /\ timers'[k] = r[k] /\ k < last
      /\ last \in DOMAIN timers' /\ timers'[last] = e
      /\ \A k \in DOMAIN timers' : k \in DOMAIN r \/ k = last
  <2>1. Append(r, e) \in Seq(IxEvents)
    BY Appended
  <2>2. \A k \in DOMAIN r : k \in DOMAIN Append(r, e) /\ Append(r, e)[k] = r[k]
    BY Appended
  <2>3. last \in DOMAIN Append(r, e) /\ Append(r, e)[last] = e
    BY <1>8, Appended
  <2>4. \A k \in DOMAIN Append(r, e) : k \in DOMAIN r \/ k = last
    BY <1>8, Appended
  <2>5. \A k \in DOMAIN r : k < last
    BY <1>8, Appended
  <2> QED BY <1>5, <2>1, <2>2, <2>3, <2>4, <2>5
<1>10. /\ content' \in [IxPaths -> Contents] /\ content'[f] = c
       /\ \A q \in IxPaths : q # f => content'[q] = content[q]
  BY <1>1, <1>3 DEF IxTypes
<1>11. IxTypes'
  BY <1>2, <1>3, <1>9, <1>10 DEF IxTypes
<1>12. InTimers(f)'
  BY <1>6, <1>9 DEF InTimers
<1>13. ASSUME NEW q \in IxPaths, InTimers(q) PROVE InTimers(q)'
  <2>1. CASE q = f
    BY <1>12, <2>1
  <2>2. CASE q # f
    <3>1. PICK i \in DOMAIN timers : q \in timers[i].on
      BY <1>13 DEF InTimers
    <3>2. timers[i].on # {f}
      BY <2>2, <3>1
    <3>3. PICK k \in DOMAIN r : r[k] = timers[i]
      BY <1>7, <3>2
    <3>4. k \in DOMAIN timers' /\ q \in timers'[k].on
      BY <1>9, <3>1, <3>3
    <3> QED BY <3>4 DEF InTimers
  <2> QED BY <2>1, <2>2
<1>14. ChangesAreSingle'
  <2>1. ASSUME NEW k \in DOMAIN timers', timers'[k].kind = "change"
        PROVE  \E p \in IxPaths : timers'[k].on = {p}
    <3>1. CASE k = last
      BY <1>6, <1>9, <3>1
    <3>2. CASE k \in DOMAIN r
      <4>1. PICK i \in DOMAIN timers : timers'[k] = timers[i]
        BY <1>7, <1>9, <3>2
      <4> QED BY <1>3, <2>1, <4>1 DEF ChangesAreSingle
    <3> QED BY <1>9, <3>1, <3>2
  <2> QED BY <1>2, <1>3, <2>1 DEF ChangesAreSingle
<1>15. DeletesFollowed'
  <2>1. SUFFICES ASSUME ~ disposed, NEW q \in IxPaths, content'[q] # "absent"
                 PROVE  /\ \A k \in DOMAIN timers' : timers'[k].kind = "delete" /\ q \in timers'[k].on =>
                             \E j \in DOMAIN timers' : j > k /\ q \in timers'[j].on
                        /\ \A i \in DOMAIN chain : chain[i].kind = "delete" /\ q \in chain[i].on =>
                             InTimers(q)' \/ \E j \in DOMAIN chain : j > i /\ q \in chain[j].on
    BY <1>2 DEF DeletesFollowed
  <2>2. ASSUME NEW k \in DOMAIN timers', timers'[k].kind = "delete", q \in timers'[k].on
        PROVE  \E j \in DOMAIN timers' : j > k /\ q \in timers'[j].on
    <3>1. k # last
      <4>1. CASE q = f
        BY <1>6, <1>9, <1>10, <2>1, <2>2, <4>1
      <4>2. CASE q # f
        BY <1>6, <1>9, <2>2, <4>2
      <4> QED BY <4>1, <4>2
    <3>2. k \in DOMAIN r
      BY <1>9, <3>1
    <3>3. CASE q = f
      BY <1>6, <1>9, <3>2, <3>3
    <3>4. CASE q # f
      <4>1. PICK i \in DOMAIN timers :
              /\ r[k] = timers[i]
              /\ \A j \in DOMAIN timers : j > i /\ timers[j].on # {f}
                                            => \E l \in DOMAIN r : l > k /\ r[l] = timers[j]
        BY <1>7, <3>2
      <4>2. timers[i].kind = "delete" /\ q \in timers[i].on
        BY <1>9, <2>2, <3>2, <4>1
      <4>3. PICK j \in DOMAIN timers : j > i /\ q \in timers[j].on
        BY <1>3, <1>10, <2>1, <3>4, <4>2 DEF DeletesFollowed
      <4>4. timers[j].on # {f}
        BY <3>4, <4>3
      <4>5. PICK l \in DOMAIN r : l > k /\ r[l] = timers[j]
        BY <4>1, <4>3, <4>4
      <4> QED BY <1>9, <4>3, <4>5
    <3> QED BY <3>3, <3>4
  <2>3. ASSUME NEW i \in DOMAIN chain, chain[i].kind = "delete", q \in chain[i].on
        PROVE  InTimers(q)' \/ \E j \in DOMAIN chain : j > i /\ q \in chain[j].on
    <3>1. CASE q = f
      BY <1>12, <3>1
    <3>2. CASE q # f
      BY <1>3, <1>10, <1>13, <2>1, <2>3, <3>2 DEF DeletesFollowed
    <3> QED BY <3>1, <3>2
  <2> QED BY <2>2, <2>3
<1>16. Fresh'
  <2>1. Busy' <=> Busy
    BY <1>2 DEF Busy
  <2>2. SUFFICES ASSUME ~ disposed, ~ trouble, NEW q \in IxPaths
                 PROVE  \/ InTimers(q)' \/ InChain(q)'
                        \/ IF Busy THEN OnWay(q)' ELSE claims[q] = Hashed(q)'
    BY <1>2, <2>1 DEF Fresh
  <2>3. CASE q = f
    BY <1>12, <2>3
  <2>4. CASE q # f
    <3>1. content'[q] = content[q] /\ Hashed(q)' = Hashed(q)
      BY <1>10, <2>4 DEF Hashed
    <3>2. (OnWay(q)' <=> OnWay(q)) /\ (InChain(q)' <=> InChain(q))
      BY <1>2, <3>1 DEF OnWay, Embeds, InChain
    <3> QED BY <1>3, <1>13, <2>2, <3>1, <3>2 DEF Fresh
  <2> QED BY <2>3, <2>4
<1> QED BY <1>2, <1>11, <1>14, <1>15, <1>16, JobUntouched DEF IxInv

LEMMA DeleteDirSound ==
  ASSUME IxInv, DeleteDir
  PROVE  IxInv'
<1>1. /\ content' = [p \in IxPaths |-> "absent"] /\ Schedule("delete", IxPaths)
      /\ UNCHANGED <<rows, claims, meta, chain, job, disposed, torn, trouble>>
  BY DEF DeleteDir
<1>2. IxTypes /\ ChangesAreSingle
  BY DEF IxInv
<1>3. PICK e \in IxEvents : e = [kind |-> "delete", on |-> IxPaths] /\ e.kind = "delete" /\ e.on = IxPaths
  <2>1. [kind |-> "delete", on |-> IxPaths] \in IxEvents
    BY DEF IxEvents
  <2> QED BY <2>1
<1>4. PICK r \in Seq(IxEvents) : Spares(r, timers, IxPaths) /\ timers' = Append(r, e)
  BY <1>1, <1>2, <1>3, Rescheduled
<1>5. \A k \in DOMAIN r : \E i \in DOMAIN timers : r[k] = timers[i]
  BY <1>4 DEF Spares
<1>6. /\ timers' \in Seq(IxEvents)
      /\ \A k \in DOMAIN r : timers'[k] = r[k]
      /\ Len(r) + 1 \in DOMAIN timers' /\ timers'[Len(r) + 1] = e
      /\ \A k \in DOMAIN timers' : k \in DOMAIN r \/ k = Len(r) + 1
  <2>1. Append(r, e) \in Seq(IxEvents) /\ \A k \in DOMAIN r : Append(r, e)[k] = r[k]
    BY Appended
  <2>2. Len(r) + 1 \in DOMAIN Append(r, e) /\ Append(r, e)[Len(r) + 1] = e
    BY Appended
  <2>3. \A k \in DOMAIN Append(r, e) : k \in DOMAIN r \/ k = Len(r) + 1
    BY Appended
  <2> QED BY <1>4, <2>1, <2>2, <2>3
<1>7. content' \in [IxPaths -> Contents] /\ \A q \in IxPaths : content'[q] = "absent"
  BY <1>1 DEF Contents
<1>8. IxTypes'
  BY <1>1, <1>2, <1>6, <1>7 DEF IxTypes
<1>9. \A q \in IxPaths : InTimers(q)'
  BY <1>3, <1>6 DEF InTimers
<1>10. ChangesAreSingle'
  <2>1. ASSUME NEW k \in DOMAIN timers', timers'[k].kind = "change"
        PROVE  \E p \in IxPaths : timers'[k].on = {p}
    <3>1. k \in DOMAIN r
      BY <1>3, <1>6, <2>1
    <3>2. PICK i \in DOMAIN timers : timers'[k] = timers[i]
      BY <1>5, <1>6, <3>1
    <3> QED BY <1>2, <2>1, <3>2 DEF ChangesAreSingle
  <2> QED BY <1>1, <1>2, <2>1 DEF ChangesAreSingle
<1>11. DeletesFollowed'
  BY <1>7 DEF DeletesFollowed
<1>12. Fresh'
  BY <1>9 DEF Fresh
<1> QED BY <1>1, <1>8, <1>10, <1>11, <1>12, JobUntouched DEF IxInv

LEMMA TimerSound ==
  ASSUME IxInv, TimerFires
  PROVE  IxInv'
<1>1. /\ timers # << >> /\ timers' = Tail(timers)
      /\ chain' = IF disposed THEN chain ELSE Append(chain, Head(timers))
      /\ UNCHANGED <<content, rows, claims, meta, job, disposed, torn, trouble>>
  BY DEF TimerFires
<1>2. IxTypes /\ ChangesAreSingle /\ DeletesFollowed /\ Fresh
  BY DEF IxInv
<1>3. timers \in Seq(IxEvents) /\ chain \in Seq(IxEvents)
  BY <1>2 DEF IxTypes
<1>4. PICK e \in IxEvents : e = timers[1] /\ e = Head(timers)
  BY <1>1, <1>3, Behind
<1>5. /\ timers' \in Seq(IxEvents)
      /\ \A k \in DOMAIN timers' : k + 1 \in DOMAIN timers /\ timers'[k] = timers[k + 1]
      /\ \A k \in DOMAIN timers : k # 1 => k - 1 \in DOMAIN timers' /\ timers'[k - 1] = timers[k]
  <2>1. Tail(timers) \in Seq(IxEvents)
    BY <1>1, <1>3, Behind
  <2>2. \A k \in DOMAIN Tail(timers) : k + 1 \in DOMAIN timers /\ Tail(timers)[k] = timers[k + 1]
    BY <1>1, <1>3, Behind
  <2>3. \A k \in DOMAIN timers : k # 1 => k - 1 \in DOMAIN Tail(timers) /\ Tail(timers)[k - 1] = timers[k]
    BY <1>1, <1>3, Behind
  <2> QED BY <1>1, <2>1, <2>2, <2>3
<1>6. PICK last : last = Len(chain) + 1
  OBVIOUS
<1>7. ~ disposed => /\ \A k \in DOMAIN chain : k \in DOMAIN chain' /\ chain'[k] = chain[k] /\ k < last
                    /\ last \in DOMAIN chain' /\ chain'[last] = e
                    /\ \A k \in DOMAIN chain' : k \in DOMAIN chain \/ k = last
  <2>1. \A k \in DOMAIN chain : k \in DOMAIN Append(chain, e) /\ Append(chain, e)[k] = chain[k]
    BY <1>3, Appended
  <2>2. last \in DOMAIN Append(chain, e) /\ Append(chain, e)[last] = e
    BY <1>3, <1>6, Appended
  <2>3. \A k \in DOMAIN Append(chain, e) : k \in DOMAIN chain \/ k = last
    BY <1>3, <1>6, Appended
  <2>4. \A k \in DOMAIN chain : k < last
    BY <1>3, <1>6, Appended
  <2> QED BY <1>1, <1>4, <2>1, <2>2, <2>3, <2>4
<1>8. chain' \in Seq(IxEvents)
  BY <1>1, <1>3, <1>4, Appended
<1>9. IxTypes'
  BY <1>1, <1>2, <1>5, <1>8 DEF IxTypes
<1>10. 1 \in DOMAIN timers
  BY <1>1, <1>3
<1>11. ChangesAreSingle'
  <2>1. ASSUME NEW k \in DOMAIN timers', timers'[k].kind = "change"
        PROVE  \E p \in IxPaths : timers'[k].on = {p}
    BY <1>2, <1>5, <2>1 DEF ChangesAreSingle
  <2>2. ASSUME NEW k \in DOMAIN chain', chain'[k].kind = "change"
        PROVE  \E p \in IxPaths : chain'[k].on = {p}
    <3>1. CASE disposed \/ k \in DOMAIN chain
      BY <1>1, <1>2, <1>7, <2>2, <3>1 DEF ChangesAreSingle
    <3>2. CASE ~ disposed /\ k = last
      BY <1>2, <1>4, <1>7, <1>10, <2>2, <3>2 DEF ChangesAreSingle
    <3> QED BY <1>7, <3>1, <3>2
  <2> QED BY <2>1, <2>2 DEF ChangesAreSingle
<1>12. ASSUME ~ disposed, NEW q \in IxPaths, InTimers(q) PROVE InTimers(q)' \/ InChain(q)'
  <2>1. PICK i \in DOMAIN timers : q \in timers[i].on
    BY <1>12 DEF InTimers
  <2>2. CASE i = 1
    BY <1>4, <1>7, <1>12, <2>1, <2>2 DEF InChain
  <2>3. CASE i # 1
    BY <1>5, <2>1, <2>3 DEF InTimers
  <2> QED BY <2>2, <2>3
<1>13. DeletesFollowed'
  <2>1. SUFFICES ASSUME ~ disposed, NEW q \in IxPaths, content[q] # "absent"
                 PROVE  /\ \A k \in DOMAIN timers' : timers'[k].kind = "delete" /\ q \in timers'[k].on =>
                             \E j \in DOMAIN timers' : j > k /\ q \in timers'[j].on
                        /\ \A i \in DOMAIN chain' : chain'[i].kind = "delete" /\ q \in chain'[i].on =>
                             InTimers(q)' \/ \E j \in DOMAIN chain' : j > i /\ q \in chain'[j].on
    BY <1>1 DEF DeletesFollowed
  <2>2. ASSUME NEW i \in DOMAIN timers, timers[i].kind = "delete", q \in timers[i].on
        PROVE  \E k \in DOMAIN timers' : k + 1 > i /\ q \in timers'[k].on
    <3>1. PICK j \in DOMAIN timers : j > i /\ q \in timers[j].on
      BY <1>2, <2>1, <2>2 DEF DeletesFollowed
    <3>2. i \in Nat /\ j \in Nat /\ i >= 1
      BY <1>3
    <3>3. j - 1 \in DOMAIN timers' /\ timers'[j - 1] = timers[j]
      BY <1>5, <3>1, <3>2
    <3>4. (j - 1) + 1 > i
      BY <3>1, <3>2
    <3> QED BY <3>1, <3>3, <3>4
  <2>3. ASSUME NEW k \in DOMAIN timers', timers'[k].kind = "delete", q \in timers'[k].on
        PROVE  \E j \in DOMAIN timers' : j > k /\ q \in timers'[j].on
    <3>1. PICK j \in DOMAIN timers' : j + 1 > k + 1 /\ q \in timers'[j].on
      BY <1>5, <2>2, <2>3
    <3>2. j > k
      BY <1>5, <3>1
    <3> QED BY <3>1, <3>2
  <2>4. ASSUME NEW i \in DOMAIN chain', chain'[i].kind = "delete", q \in chain'[i].on
        PROVE  InTimers(q)' \/ \E j \in DOMAIN chain' : j > i /\ q \in chain'[j].on
    <3>1. CASE i = last
      <4>1. timers[1].kind = "delete" /\ q \in timers[1].on
        BY <1>4, <1>7, <2>1, <2>4, <3>1
      <4> QED BY <1>10, <2>2, <4>1 DEF InTimers
    <3>2. CASE i \in DOMAIN chain
      <4>1. chain[i].kind = "delete" /\ q \in chain[i].on /\ i < last
        BY <1>7, <2>1, <2>4, <3>2
      <4>2. InTimers(q) \/ \E j \in DOMAIN chain : j > i /\ q \in chain[j].on
        BY <1>2, <2>1, <3>2, <4>1 DEF DeletesFollowed
      <4>3. CASE \E j \in DOMAIN chain : j > i /\ q \in chain[j].on
        BY <1>7, <2>1, <4>3
      <4>4. CASE InTimers(q)
        <5>1. PICK k \in DOMAIN timers : q \in timers[k].on
          BY <4>4 DEF InTimers
        <5>2. CASE k = 1
          BY <1>4, <1>7, <2>1, <4>1, <5>1, <5>2
        <5>3. CASE k # 1
          BY <1>5, <5>1, <5>3 DEF InTimers
        <5> QED BY <5>2, <5>3
      <4> QED BY <4>2, <4>3, <4>4
    <3> QED BY <1>7, <2>1, <3>1, <3>2
  <2> QED BY <2>3, <2>4
<1>14. Fresh'
  <2>1. Busy' <=> Busy
    BY <1>1 DEF Busy
  <2>2. SUFFICES ASSUME ~ disposed, ~ trouble, NEW q \in IxPaths
                 PROVE  \/ InTimers(q)' \/ InChain(q)'
                        \/ IF Busy THEN OnWay(q)' ELSE claims[q] = Hashed(q)'
    BY <1>1, <2>1 DEF Fresh
  <2>3. InChain(q) => InChain(q)'
    BY <1>7, <2>2 DEF InChain
  <2>4. Hashed(q)' = Hashed(q) /\ (OnWay(q)' <=> OnWay(q))
    BY <1>1 DEF Hashed, OnWay, Embeds
  <2> QED BY <1>2, <1>12, <2>2, <2>3, <2>4 DEF Fresh
<1> QED BY <1>1, <1>9, <1>11, <1>13, <1>14, JobUntouched DEF IxInv

\* The first manifest of a job is the one on disk, or empty after a failed read.
LEMMA JobStartsSound ==
  ASSUME IxInv, JobStarts
  PROVE  IxInv'
<1>1. /\ job = NoJob /\ chain # << >> /\ ~ disposed /\ chain' = Tail(chain)
      /\ UNCHANGED <<content, rows, claims, meta, timers, disposed, torn>>
  BY DEF JobStarts
<1>2. PICK m \in {claims, [p \in IxPaths |-> "none"]} :
        /\ trouble' = (trouble \/ m # claims)
        /\ job' = IF Head(chain).kind = "build" THEN BuildStart(m)
                  ELSE EventStart(Head(chain), m)
  BY DEF JobStarts
<1>3. IxTypes /\ ChangesAreSingle /\ DeletesFollowed /\ Fresh /\ ClaimsBacked
  BY DEF IxInv
<1>4. chain \in Seq(IxEvents) /\ trouble \in BOOLEAN
  BY <1>3 DEF IxTypes
<1>5. PICK e \in IxEvents : e = chain[1] /\ e = Head(chain)
  BY <1>1, <1>4, Behind
<1>6. /\ chain' \in Seq(IxEvents)
      /\ \A k \in DOMAIN chain' : k + 1 \in DOMAIN chain /\ chain'[k] = chain[k + 1]
      /\ \A k \in DOMAIN chain : k # 1 => k - 1 \in DOMAIN chain' /\ chain'[k - 1] = chain[k]
  <2>1. Tail(chain) \in Seq(IxEvents)
    BY <1>1, <1>4, Behind
  <2>2. \A k \in DOMAIN Tail(chain) : k + 1 \in DOMAIN chain /\ Tail(chain)[k] = chain[k + 1]
    BY <1>1, <1>4, Behind
  <2>3. \A k \in DOMAIN chain : k # 1 => k - 1 \in DOMAIN Tail(chain) /\ Tail(chain)[k - 1] = chain[k]
    BY <1>1, <1>4, Behind
  <2> QED BY <1>1, <2>1, <2>2, <2>3
<1>7. 1 \in DOMAIN chain
  BY <1>1, <1>4
<1>8. m \in [IxPaths -> Hashes] /\ trouble' \in BOOLEAN /\ (~ trouble' => ~ trouble /\ m = claims)
  <2>1. claims \in [IxPaths -> Hashes] /\ [p \in IxPaths |-> "none"] \in [IxPaths -> Hashes]
    BY <1>3 DEF IxTypes, Hashes
  <2>2. m \in [IxPaths -> Hashes]
    BY <1>2, <2>1
  <2> QED BY <1>2, <2>2
<1>9. e.kind \in {"build", "change", "delete"} /\ e.on \subseteq IxPaths
  BY DEF IxEvents
<1>10. PICK j : j = job'
  OBVIOUS
<1>11. ASSUME e.kind = "build"
       PROVE  /\ j.kind = "build" /\ j.phase = "purge" /\ j.manifest = m
              /\ j.on = {p \in IxPaths : Hashed(p) # "none" /\ (~ meta \/ Hashed(p) # m[p])}
              /\ j.todo = {p \in IxPaths : m[p] # "none" /\ Hashed(p) = "none"}
              /\ j.recs = << >> /\ j.swapped = {} /\ j \in IxJobs
  <2>1. j = BuildStart(m)
    BY <1>2, <1>5, <1>10, <1>11
  <2>2. << >> \in Seq(Batches)
    OBVIOUS
  <2> QED BY <1>8, <2>1, <2>2 DEF BuildStart, IxJobs
<1>12. ASSUME e.kind # "build"
       PROVE  /\ j.kind = e.kind /\ j.manifest = m /\ j.on = {} /\ j.todo = e.on
              /\ j.recs = << >> /\ j.swapped = {} /\ j \in IxJobs
              /\ \/ /\ e.kind = "delete" \/ \E p \in e.on : content[p] = "absent"
                    /\ j.phase = "purge"
                 \/ /\ ~ (e.kind = "delete" \/ \E p \in e.on : content[p] = "absent")
                    /\ j.phase = "read"
  <2>1. j = EventStart(e, m)
    BY <1>2, <1>5, <1>10, <1>12
  <2>2. << >> \in Seq(Batches)
    OBVIOUS
  <2>3. PICK ph \in {"purge", "read"} :
          ph = IF e.kind = "delete" \/ \E p \in e.on : content[p] = "absent" THEN "purge" ELSE "read"
    OBVIOUS
  <2>4. j = [kind |-> e.kind, phase |-> ph, on |-> {}, manifest |-> m, todo |-> e.on,
             recs |-> << >>, swapped |-> {}]
    BY <2>1, <2>3 DEF EventStart
  <2>5. j \in IxJobs
    BY <1>8, <1>9, <2>2, <2>4 DEF IxJobs
  <2>6. /\ j.kind = e.kind /\ j.manifest = m /\ j.on = {} /\ j.todo = e.on
        /\ j.recs = << >> /\ j.swapped = {} /\ j.phase = ph
    BY <2>4
  <2> QED BY <2>3, <2>5, <2>6
<1>13. /\ j \in IxJobs /\ j.recs = << >> /\ j.swapped = {} /\ j.manifest = m
       /\ j.phase \in {"purge", "read"}
       /\ j.phase = "purge" /\ j.kind = "build" => j.todo \cap j.on = {}
  <2>1. CASE e.kind = "build"
    BY <1>11, <2>1
  <2>2. CASE e.kind # "build"
    BY <1>12, <2>2
  <2> QED BY <2>1, <2>2
<1>14. Busy' /\ \A p \in IxPaths : ~ Embeds(p)'
  BY <1>10, <1>13, JobsAreBusy DEF Busy, Embeds
<1>15. IxTypes'
  BY <1>1, <1>3, <1>6, <1>8, <1>10, <1>13 DEF IxTypes
<1>16. JobShaped'
  <2>1. Blocks(<< >>)
    BY DEF Blocks
  <2>2. j.todo \subseteq IxPaths
    BY <1>13 DEF IxJobs
  <2> QED BY <1>10, <1>13, <1>14, <2>1, <2>2 DEF JobShaped
<1>17. HeadStored'
  BY <1>10, <1>13 DEF HeadStored
<1>18. JobBacked'
  <2>1. SUFFICES ASSUME NEW p \in IxPaths, m[p] # "none"
                 PROVE  p \in torn \/ Backed(m[p], rows[p])
    BY <1>1, <1>10, <1>13 DEF JobBacked
  <2>2. m = claims
    BY <1>2, <2>1
  <2> QED BY <1>1, <1>3, <2>1, <2>2 DEF ClaimsBacked, Busy, Claimed
<1>19. ClaimsBacked'
  BY <1>14 DEF ClaimsBacked
<1>20. ChangesAreSingle'
  <2>1. \A k \in DOMAIN chain' : chain'[k].kind = "change" => \E p \in IxPaths : chain'[k].on = {p}
    BY <1>3, <1>6 DEF ChangesAreSingle
  <2> QED BY <1>1, <1>3, <2>1 DEF ChangesAreSingle
<1>21. DeletesFollowed'
  <2>1. SUFFICES ASSUME NEW q \in IxPaths, content[q] # "absent",
                        NEW k \in DOMAIN chain', chain'[k].kind = "delete", q \in chain'[k].on
                 PROVE  InTimers(q) \/ \E l \in DOMAIN chain' : l > k /\ q \in chain'[l].on
    <3>1. \A q \in IxPaths : InTimers(q)' <=> InTimers(q)
      BY <1>1 DEF InTimers
    <3> QED BY <1>1, <1>3, <3>1 DEF DeletesFollowed
  <2>2. k + 1 \in DOMAIN chain /\ chain[k + 1].kind = "delete" /\ q \in chain[k + 1].on
    BY <1>6, <2>1
  <2>3. InTimers(q) \/ \E i \in DOMAIN chain : i > k + 1 /\ q \in chain[i].on
    BY <1>1, <1>3, <2>1, <2>2 DEF DeletesFollowed
  <2>4. ASSUME NEW i \in DOMAIN chain, i > k + 1, q \in chain[i].on
        PROVE  \E l \in DOMAIN chain' : l > k /\ q \in chain'[l].on
    <3>1. k \in Nat /\ k >= 1 /\ i \in Nat
      BY <1>4, <1>6
    <3>2. i # 1 /\ i - 1 > k
      BY <2>4, <3>1
    <3>3. i - 1 \in DOMAIN chain' /\ chain'[i - 1] = chain[i]
      BY <1>6, <3>2
    <3> QED BY <2>4, <3>2, <3>3
  <2> QED BY <2>3, <2>4
<1>22. Fresh'
  <2>1. SUFFICES ASSUME ~ trouble', NEW q \in IxPaths, ~ InTimers(q), ~ InChain(q)'
                 PROVE  OnWay(q)'
    <3>1. \A q \in IxPaths : InTimers(q)' <=> InTimers(q)
      BY <1>1 DEF InTimers
    <3> QED BY <1>14, <3>1 DEF Fresh
  <2>2. \A i \in DOMAIN chain : q \in chain[i].on => i = 1
    BY <1>6, <2>1 DEF InChain
  <2>3. q \notin e.on => m[q] = Hashed(q)
    <3>1. ASSUME q \notin e.on PROVE ~ InChain(q)
      BY <1>5, <2>2, <3>1 DEF InChain
    <3> QED BY <1>1, <1>3, <1>8, <2>1, <3>1 DEF Fresh, Busy
  <2>4. /\ Hashed(q)' = Hashed(q) /\ content'[q] = content[q]
        /\ job'.phase = j.phase /\ job'.kind = j.kind /\ job'.on = j.on /\ job'.todo = j.todo
        /\ job'.manifest = m /\ ~ Embeds(q)'
    BY <1>1, <1>10, <1>13, <1>14 DEF Hashed
  <2>5. content[q] = "absent" => Hashed(q) = "none"
    BY <1>3, HashOf
  <2>6. Hashed(q) # "none" => content[q] # "absent"
    BY <2>5
  <2>7. CASE e.kind = "build"
    <3>1. /\ q \in j.todo <=> m[q] # "none" /\ Hashed(q) = "none"
          /\ q \in j.on <=> Hashed(q) # "none" /\ (~ meta \/ Hashed(q) # m[q])
          /\ j.phase = "purge" /\ j.kind = "build"
      BY <1>11, <2>7
    <3>2. CASE q \in j.todo
      BY <2>4, <3>1, <3>2 DEF OnWay
    <3>3. CASE q \notin j.todo /\ q \in j.on
      BY <2>4, <2>6, <3>1, <3>3 DEF OnWay
    <3>4. CASE q \notin j.todo /\ q \notin j.on
      BY <2>4, <3>1, <3>4 DEF OnWay
    <3> QED BY <3>2, <3>3, <3>4
  <2>8. CASE e.kind # "build" /\ q \notin e.on
    BY <1>12, <2>3, <2>4, <2>8 DEF OnWay
  <2>9. CASE e.kind = "delete" /\ q \in e.on
    <3>1. content[q] = "absent"
      <4>1. SUFFICES ASSUME content[q] # "absent" PROVE FALSE
        OBVIOUS
      <4>2. InTimers(q) \/ \E i \in DOMAIN chain : i > 1 /\ q \in chain[i].on
        BY <1>1, <1>3, <1>5, <1>7, <2>9, <4>1 DEF DeletesFollowed
      <4> QED BY <2>1, <2>2, <4>2
    <3> QED BY <1>12, <2>4, <2>5, <2>9, <3>1 DEF OnWay
  <2>10. CASE e.kind = "change" /\ q \in e.on
    <3>1. e.on = {q}
      <4>1. PICK p \in IxPaths : e.on = {p}
        BY <1>3, <1>5, <1>7, <2>10 DEF ChangesAreSingle
      <4> QED BY <2>10, <4>1
    <3>2. CASE content[q] = "absent"
      <4>1. j.phase = "purge" /\ j.todo = e.on
        BY <1>12, <2>10, <3>2
      <4> QED BY <2>4, <2>5, <2>10, <3>2, <4>1 DEF OnWay
    <3>3. CASE content[q] # "absent"
      <4>1. j.phase = "read" /\ j.todo = e.on
        BY <1>12, <2>10, <3>1, <3>3
      <4> QED BY <2>4, <2>10, <3>3, <4>1 DEF OnWay
    <3> QED BY <3>2, <3>3
  <2> QED BY <1>9, <2>7, <2>8, <2>9, <2>10
<1> QED BY <1>15, <1>16, <1>17, <1>18, <1>19, <1>20, <1>21, <1>22 DEF IxInv

LEMMA JobSkippedSound ==
  ASSUME IxInv, JobSkipped
  PROVE  IxInv'
<1>1. /\ chain # << >> /\ disposed /\ chain' = Tail(chain)
      /\ UNCHANGED <<content, rows, claims, meta, timers, job, disposed, torn, trouble>>
  BY DEF JobSkipped
<1>2. IxTypes /\ ChangesAreSingle
  BY DEF IxInv
<1>3. chain \in Seq(IxEvents)
  BY <1>2 DEF IxTypes
<1>4. /\ chain' \in Seq(IxEvents)
      /\ \A k \in DOMAIN chain' : k + 1 \in DOMAIN chain /\ chain'[k] = chain[k + 1]
  BY <1>1, <1>3, Behind
<1>5. IxTypes'
  BY <1>1, <1>2, <1>4 DEF IxTypes
<1>6. ChangesAreSingle'
  <2>1. \A k \in DOMAIN chain' : chain'[k].kind = "change" => \E p \in IxPaths : chain'[k].on = {p}
    BY <1>2, <1>4 DEF ChangesAreSingle
  <2> QED BY <1>1, <1>2, <2>1 DEF ChangesAreSingle
<1>7. DeletesFollowed' /\ Fresh'
  BY <1>1 DEF DeletesFollowed, Fresh
<1> QED BY <1>1, <1>5, <1>6, <1>7, JobUntouched DEF IxInv

LEMMA DisposeSound ==
  ASSUME IxInv, DisposeIndexer
  PROVE  IxInv'
<1>1. /\ disposed' = TRUE /\ timers' = << >>
      /\ UNCHANGED <<content, rows, claims, meta, chain, job, torn, trouble>>
  BY DEF DisposeIndexer
<1>2. IxTypes /\ JobShaped /\ ChangesAreSingle
  BY DEF IxInv
<1>3. IxTypes'
  <2>1. << >> \in Seq(IxEvents)
    OBVIOUS
  <2> QED BY <1>1, <1>2, <2>1 DEF IxTypes
<1>4. JobShaped'
  BY <1>1, <1>2 DEF JobShaped, Busy, Embeds
<1>5. HeadStored' /\ JobBacked' /\ ClaimsBacked' /\ DeletesFollowed' /\ Fresh'
  BY <1>1 DEF HeadStored, JobBacked, ClaimsBacked, DeletesFollowed, Fresh
<1>6. ChangesAreSingle'
  BY <1>1, <1>2 DEF ChangesAreSingle
<1> QED BY <1>3, <1>4, <1>5, <1>6 DEF IxInv

LEMMA ReactivateSound ==
  ASSUME IxInv, Reactivate
  PROVE  IxInv'
<1>1. /\ meta' \in {meta, FALSE} /\ timers' = << >> /\ chain' = <<BuildJob>> /\ job' = NoJob
      /\ disposed' = FALSE /\ trouble' = FALSE /\ UNCHANGED <<rows, claims>>
      /\ torn' = torn \cup {p \in IxPaths : Claimed(p) /\ ~ Backed(claims[p], rows[p])}
  BY DEF Reactivate
<1>2. PICK p \in IxPaths, c \in Contents : content' = [content EXCEPT ![p] = c]
  BY DEF Reactivate
<1>3. IxTypes
  BY DEF IxInv
<1>4. content' \in [IxPaths -> Contents]
  BY <1>2, <1>3 DEF IxTypes
<1>5. BuildJob \in IxEvents /\ BuildJob.kind = "build" /\ BuildJob.on = IxPaths
  BY DEF BuildJob, IxEvents
<1>6. /\ chain' \in Seq(IxEvents) /\ << >> \in Seq(IxEvents) /\ 1 \in DOMAIN chain'
      /\ \A k \in DOMAIN chain' : chain'[k] = BuildJob
  BY <1>1, <1>5
<1>7. torn' \subseteq IxPaths /\ meta' \in BOOLEAN
  BY <1>1, <1>3 DEF IxTypes
<1>8. IxTypes'
  BY <1>1, <1>3, <1>4, <1>6, <1>7 DEF IxTypes
<1>9. ~ Busy'
  BY <1>1 DEF Busy
<1>10. JobShaped' /\ HeadStored' /\ JobBacked'
  BY <1>9 DEF JobShaped, HeadStored, JobBacked
<1>11. ClaimsBacked'
  <2>1. SUFFICES ASSUME NEW q \in IxPaths, Claimed(q)
                 PROVE  q \in torn' \/ Backed(claims[q], rows[q])
    BY <1>1 DEF ClaimsBacked, Claimed
  <2> QED BY <1>1, <2>1
<1>12. ChangesAreSingle'
  BY <1>1, <1>5, <1>6 DEF ChangesAreSingle
<1>13. DeletesFollowed'
  BY <1>1, <1>5, <1>6 DEF DeletesFollowed
<1>14. Fresh'
  BY <1>5, <1>6 DEF Fresh, InChain
<1> QED BY <1>8, <1>10, <1>11, <1>12, <1>13, <1>14 DEF IxInv

LEMMA IxStarts == IxInit => IxInv
<1> SUFFICES ASSUME IxInit PROVE IxInv
  OBVIOUS
<1>1. /\ content \in [IxPaths -> Versions \cup {"absent"}]
      /\ rows = [p \in IxPaths |-> {}] /\ claims = [p \in IxPaths |-> "none"]
      /\ meta = FALSE /\ timers = << >> /\ chain = <<BuildJob>> /\ job = NoJob
      /\ disposed = FALSE /\ torn = {} /\ trouble = FALSE
  BY DEF IxInit
<1>2. BuildJob \in IxEvents /\ BuildJob.kind = "build" /\ BuildJob.on = IxPaths
  BY DEF BuildJob, IxEvents
<1>3. /\ chain \in Seq(IxEvents) /\ << >> \in Seq(IxEvents) /\ 1 \in DOMAIN chain
      /\ \A k \in DOMAIN chain : chain[k] = BuildJob
  BY <1>1, <1>2
<1>4. IxTypes
  BY <1>1, <1>3 DEF IxTypes, Contents, Hashes
<1>5. ~ Busy
  BY <1>1 DEF Busy
<1>6. JobShaped /\ HeadStored /\ JobBacked
  BY <1>5 DEF JobShaped, HeadStored, JobBacked
<1>7. ClaimsBacked
  BY <1>1 DEF ClaimsBacked, Claimed
<1>8. ChangesAreSingle
  BY <1>1, <1>2, <1>3 DEF ChangesAreSingle
<1>9. DeletesFollowed
  BY <1>1, <1>2, <1>3 DEF DeletesFollowed
<1>10. Fresh
  BY <1>2, <1>3 DEF Fresh, InChain
<1> QED BY <1>4, <1>6, <1>7, <1>8, <1>9, <1>10 DEF IxInv

LEMMA IxStep == IxInv /\ [IxNext]_ixVars => IxInv'
<1> SUFFICES ASSUME IxInv, [IxNext]_ixVars PROVE IxInv'
  OBVIOUS
<1>1. CASE DeleteDir \/ TimerFires \/ JobStarts \/ JobSkipped \/ DisposeIndexer \/ Reactivate
  BY <1>1, DeleteDirSound, TimerSound, JobStartsSound, JobSkippedSound, DisposeSound, ReactivateSound
<1>2. CASE \E p \in IxPaths : EditFile(p) \/ Purge(p) \/ ReadFile(p)
  BY <1>2, EditSound, PurgeSound, ReadFileSound
<1>3. CASE Purged \/ ReadFails \/ FilesRead \/ WriteManifest
  BY <1>3, PurgedSound, ReadFailsSound, FilesReadSound, ManifestSound
<1>4. CASE EmbedSwaps \/ EmbedStores \/ Upsert \/ SwapFails
  BY <1>4, EmbedSwapsSound, EmbedStoresSound, UpsertSound, SwapFailsSound
<1>5. trouble \in BOOLEAN
  BY DEF IxInv, IxTypes
<1>6. CASE PurgeFails \/ ManifestWriteFails
  <2>1. job.phase # "none" /\ trouble' = TRUE /\ rows' = rows /\ EndUnwritten
    BY <1>6 DEF PurgeFails, ManifestWriteFails
  <2>2. Busy
    BY <2>1, JobOf
  <2> QED BY <2>1, <2>2, UnwrittenSound
<1>7. CASE EmbedBails
  <2>1. job.phase # "none" /\ disposed /\ trouble' = trouble /\ rows' = rows /\ EndUnwritten
    BY <1>7 DEF EmbedBails
  <2>2. Busy
    BY <2>1, JobOf
  <2> QED BY <1>5, <2>1, <2>2, UnwrittenSound
<1>8. CASE UNCHANGED ixVars
  <2>1. UNCHANGED <<content, rows, claims, meta, timers, chain, job, disposed, torn, trouble>>
    BY <1>8 DEF ixVars
  <2>2. IxTypes /\ ChangesAreSingle /\ DeletesFollowed /\ Fresh
    BY DEF IxInv
  <2>3. IxTypes' /\ ChangesAreSingle' /\ DeletesFollowed'
    BY <2>1, <2>2 DEF IxTypes, ChangesAreSingle, DeletesFollowed, InTimers
  <2>4. Fresh'
    BY <2>1, <2>2 DEF Fresh, InTimers, InChain, OnWay, Busy, Embeds, Hashed
  <2> QED BY <2>1, <2>3, <2>4, JobUntouched DEF IxInv
<1> QED BY <1>1, <1>2, <1>3, <1>4, <1>6, <1>7, <1>8 DEF IxNext

LEMMA IxFollows == IxInv => IndexFollowsFiles
<1> SUFFICES ASSUME IxInv, job = NoJob, ~ disposed
             PROVE  /\ \A p \in IxPaths : Claimed(p) => p \in torn \/ Backed(claims[p], rows[p])
                    /\ (timers = << >> /\ chain = << >> /\ ~ trouble)
                         => \A p \in IxPaths : claims[p] = Hashed(p)
  BY DEF IndexFollowsFiles, Quiet
<1>1. ~ Busy
  BY DEF Busy
<1>2. ClaimsBacked /\ Fresh
  BY DEF IxInv
<1>3. \A p \in IxPaths : Claimed(p) => p \in torn \/ Backed(claims[p], rows[p])
  BY <1>1, <1>2 DEF ClaimsBacked
<1>4. ASSUME timers = << >>, chain = << >>, ~ trouble, NEW p \in IxPaths
      PROVE  claims[p] = Hashed(p)
  <2>1. ~ InTimers(p) /\ ~ InChain(p)
    BY <1>4 DEF InTimers, InChain
  <2> QED BY <1>1, <1>2, <1>4, <2>1 DEF Fresh
<1> QED BY <1>3, <1>4

\* Between two jobs the manifest of the index claims a file only with all its rows,
\* but for files whose job could not write it, and when nothing failed and no event
\* is left it claims the present text of every file (rag/buildPipeline.ts,
\* watchPipeline.ts): for any files, texts, number of batches, edits and restarts.
THEOREM IndexIsFollowed == Spec => []IndexFollowsFiles
<1>1. Init => IxInv
  BY IxStarts DEF Init
<1>2. IxInv /\ [Next]_vars => IxInv'
  <2>1. UNCHANGED vars => UNCHANGED ixVars
    BY DEF vars
  <2> QED BY <2>1, IndexSteps, IxStep
<1> QED BY <1>1, <1>2, IxFollows, PTL DEF Spec

-------------------------------------------------------------------------------
\* The edit policy.  Its decision table is monotone, and consent is earned in every
\* behaviour of EditPolicy.

\* deny is stricter than ask, and ask than allow.
AsStrict(a, b) == \/ a = "deny"
                  \/ a = "ask" /\ b # "deny"
                  \/ a = "allow" /\ b = "allow"

\* The presets, the loosest first.
LooserPresets(preset) ==
  {"normal"} \cup (IF preset = "normal" THEN {} ELSE {"manual"})
    \cup (IF preset \in {"strict", "plan"} THEN {"strict"} ELSE {})
    \cup (IF preset = "plan" THEN {"plan"} ELSE {})

\* The table answers with one of its outcomes.
LEMMA OutcomeType ==
  ASSUME NEW preset, NEW paths, NEW floor, NEW protected, NEW command
  PROVE  /\ EditOutcome(preset, paths, floor, protected) \in Outcomes
         /\ CommandOutcome(preset, command) \in Outcomes
  BY DEF EditOutcome, CommandOutcome, Outcomes

\* To name another path beside the ones of an edit never loosens the answer:
\* a decoy does not help (evaluateEditPolicy, the rows of an edit).
THEOREM MorePathsAreStricter ==
  ASSUME NEW preset \in Presets, NEW floor, NEW protected \in BOOLEAN,
         NEW paths, NEW more, paths # {}, paths \subseteq more
  PROVE  AsStrict(EditOutcome(preset, more, floor, protected),
                  EditOutcome(preset, paths, floor, protected))
  BY DEF EditOutcome, Denied, SafeEdit, AsStrict, Presets

\* The presets are ordered: one that is stricter answers no request more loosely,
\* an edit with whatever mode, or a command.
THEOREM PresetsAreOrdered ==
  ASSUME NEW preset \in Presets, NEW looser \in LooserPresets(preset), NEW floor,
         NEW protected \in BOOLEAN, NEW paths, NEW command
  PROVE  /\ AsStrict(EditOutcome(preset, paths, floor, protected),
                     EditOutcome(looser, paths, floor, protected))
         /\ AsStrict(CommandOutcome(preset, command), CommandOutcome(looser, command))
  BY DEF EditOutcome, Denied, SafeEdit, CommandOutcome, AsStrict, Presets, LooserPresets

\* A custom mode only narrows: no edit is answered more loosely with a mode in
\* force than without one (violatesModeFloor, F-M).
THEOREM ModesOnlyNarrow ==
  ASSUME NEW preset \in Presets, NEW floor, NEW protected \in BOOLEAN, NEW paths
  PROVE  AsStrict(EditOutcome(preset, paths, floor, protected),
                  EditOutcome(preset, paths, NoFloor, protected))
<1>1. ASSUME NEW p PROVE ~ Violates(p, NoFloor)
  BY DEF Violates, NoFloor
<1>2. ~ NoFloor.positive
  BY DEF NoFloor
<1> QED BY <1>1, <1>2 DEF EditOutcome, Denied, SafeEdit, AsStrict, Presets

-------------------------------------------------------------------------------
\* What a request is answered with, in one formula without sets of outcomes.
LEMMA DecisionIsAllow ==
  ASSUME NEW preset, NEW q, NEW floor, NEW protected,
         Decision(preset, q, floor, protected) = "allow"
  PROVE  /\ q.paths # {} /\ q.command = "none"
         /\ EditOutcome(preset, q.paths, floor, protected) = "allow"
<1>1. CommandOutcome(preset, q.command) \in {"ask", "deny"}
  BY DEF CommandOutcome
<1>2. EditOutcome(preset, {}, floor, protected) \in {"ask", "deny"}
  BY DEF EditOutcome, SafeEdit
<1> DEFINE edit == EditOutcome(preset, q.paths, floor, protected)
           effects == Effects(preset, q, floor, protected)
<1>3. "ask" \notin effects /\ "deny" \notin effects
  BY DEF Decision, Strictest
<1>4. CASE q.paths = {} /\ q.command = "none"
  BY <1>2, <1>3, <1>4 DEF Effects
<1>5. CASE q.command # "none"
  <2>1. CommandOutcome(preset, q.command) \in effects
    BY <1>5 DEF Effects
  <2> QED BY <1>1, <1>3, <2>1
<1>6. CASE q.paths # {} /\ q.command = "none"
  <2>1. edit \in effects
    BY <1>6 DEF Effects
  <2>2. edit \in {"allow", "ask", "deny"}
    BY OutcomeType DEF Outcomes
  <2> QED BY <1>3, <1>6, <2>1, <2>2
<1> QED BY <1>4, <1>5, <1>6

\* An edit that is denied is denied whatever is asked beside it.
LEMMA DenialWins ==
  ASSUME NEW preset, NEW q, NEW floor, NEW protected, q.paths # {},
         Denied(preset, q.paths, floor, protected)
  PROVE  Decision(preset, q, floor, protected) = "deny"
<1>1. EditOutcome(preset, q.paths, floor, protected) = "deny"
  BY DEF EditOutcome
<1>2. "deny" \in Effects(preset, q, floor, protected)
  BY <1>1 DEF Effects
<1> QED BY <1>2 DEF Decision, Strictest

-------------------------------------------------------------------------------
\* The mode in force is the one the user picked, as it was written then.
ModeAsPicked ==
  /\ activeCustomMode = Snapshot(picked)
  /\ picked = {} \/ \E s \in Scopes : picked = {s}
  /\ configured = {} \/ \E s \in Scopes : configured = {s}

PolicyInv == EditPolicyTypeOK /\ ModeAsPicked

LEMMA SnapshotType ==
  ASSUME NEW found, found = {} \/ \E s \in Scopes : found = {s}
  PROVE  Snapshot(found) \in Floors
<1>1. CASE found = {}
  BY <1>1 DEF Snapshot, Floors, NoFloor
<1>2. ASSUME NEW s \in Scopes, found = {s} PROVE Snapshot(found) \in Floors
  <2>1. (CHOOSE x \in found : TRUE) = s
    BY <1>2
  <2>2. s \in Floors
    BY <1>2, EditPolicyAssumption DEF Floors
  <2>3. [s EXCEPT !.deny = @ \cup SettingsFiles] \in Floors
    BY <2>2, EditPolicyAssumption DEF Floors
  <2> QED BY <1>2, <2>1, <2>3 DEF Snapshot
<1> QED BY <1>1, <1>2

\* The snapshot denies what is out of the scope picked, and nothing else.
LEMMA SnapshotDeniesOutOfScope ==
  ASSUME PolicyInv, NEW path \in Paths
  PROVE  Violates(path, activeCustomMode) <=> path \notin InScope
<1>1. CASE picked = {}
  BY <1>1 DEF PolicyInv, ModeAsPicked, Snapshot, NoFloor, Violates, InScope
<1>2. ASSUME NEW s \in Scopes, picked = {s}
      PROVE  Violates(path, activeCustomMode) <=> path \notin InScope
  <2>1. (CHOOSE x \in picked : TRUE) = s
    BY <1>2
  <2>2. s \in [deny : SUBSET Paths, allowOnly : SUBSET Paths, positive : BOOLEAN]
    BY <1>2, EditPolicyAssumption
  <2>3. activeCustomMode = [s EXCEPT !.deny = @ \cup SettingsFiles]
    BY <1>2, <2>1 DEF PolicyInv, ModeAsPicked, Snapshot
  <2>4. /\ activeCustomMode.deny = s.deny \cup SettingsFiles
        /\ activeCustomMode.allowOnly = s.allowOnly
        /\ activeCustomMode.positive = s.positive
    BY <2>2, <2>3
  <2> QED BY <1>2, <2>4 DEF Violates, InScope
<1> QED BY <1>1, <1>2 DEF PolicyInv, ModeAsPicked

LEMMA PolicyInit == EditPolicyInit => PolicyInv
<1> SUFFICES ASSUME EditPolicyInit PROVE PolicyInv
  OBVIOUS
<1> USE DEF EditPolicyInit
<1>1. ModeAsPicked
  BY DEF ModeAsPicked, Snapshot
<1>2. NoFloor \in Floors /\ configured \subseteq Scopes /\ 0 \in 0 .. MaxTurns
  BY EditPolicyAssumption DEF Floors, NoFloor
<1>3. EditPolicyTypeOK
  BY <1>2 DEF EditPolicyTypeOK, Presets
<1> QED BY <1>1, <1>3 DEF PolicyInv

LEMMA PolicyStep == PolicyInv /\ [EditPolicyNext]_editPolicyVars => PolicyInv'
<1> SUFFICES ASSUME PolicyInv, [EditPolicyNext]_editPolicyVars PROVE PolicyInv'
  OBVIOUS
<1> USE EditPolicyAssumption
<1> USE DEF PolicyInv, EditPolicyTypeOK, ModeAsPicked, modeVars, turnVars
<1>1. ASSUME NEW preset \in Presets, PickPreset(preset) PROVE PolicyInv'
  BY <1>1 DEF PickPreset
<1>2. CASE PickMode
  <2>1. activeCustomMode' \in Floors
    BY <1>2, SnapshotType DEF PickMode
  <2> QED BY <1>2, <2>1 DEF PickMode
<1>3. CASE ClearMode
  BY <1>3 DEF ClearMode, Snapshot, Floors, NoFloor
<1>4. CASE SettingsChange
  BY <1>4 DEF SettingsChange
<1>5. CASE TurnBegins
  <2>1. policyTurn' \in 0 .. MaxTurns
    BY <1>5 DEF TurnBegins
  <2> QED BY <1>5, <2>1 DEF TurnBegins
<1>6. CASE TurnSnapshot
  BY <1>6 DEF TurnSnapshot
<1>7. CASE TurnGone
  BY <1>7 DEF TurnGone
<1>8. ASSUME NEW q \in Asked, q.turn = policyTurn, PermissionAsked(q.paths, q.command, q.edit)
      PROVE  PolicyInv'
  <2>1. request' = q
    BY <1>8 DEF PermissionAsked, Asked
  <2> QED BY <1>8, <2>1 DEF PermissionAsked
<1>9. CASE Decided
  <2>1. reply' \in {"allowed", "card", "refused"}
    <3> DEFINE decision == Decision(activePreset, request, activeCustomMode, turnProtected)
    <3>1. CASE Stale
      BY <1>9, <3>1 DEF Decided
    <3>2. CASE ~ Stale
      <4>1. reply' \in (IF decision = "deny" THEN {"refused"} ELSE {"card"})
                            \cup (IF decision = "allow" THEN {"allowed"} ELSE {})
        BY <1>9, <3>2 DEF Decided
      <4> QED BY <4>1
    <3> QED BY <3>1, <3>2
  <2> QED BY <1>9, <2>1 DEF Decided
<1>10. CASE InterceptionFails
  BY <1>10 DEF InterceptionFails
<1>11. CASE UNCHANGED editPolicyVars
  BY <1>11 DEF editPolicyVars
<1> QED BY <1>1, <1>2, <1>3, <1>4, <1>5, <1>6, <1>7, <1>8, <1>9, <1>10, <1>11 DEF EditPolicyNext

\* The variables of the policy keep their types, and the mode in force stays the
\* one picked (snapshot-on-activate, sessionScopeActions.ts:134-149).
THEOREM PolicyInvariant == EditPolicySpec => []PolicyInv
  BY PolicyInit, PolicyStep, PTL DEF EditPolicySpec

\* A step that answers a request answers it as ConsentIsEarned asks.
ConsentStep ==
  request # NoRequest /\ request' = NoRequest =>
    /\ reply' = "allowed" =>
         /\ activePreset = "normal" /\ request.paths # {} /\ request.command = "none"
         /\ request.paths \subseteq InScope \ (Outside \cup Secret \cup Guarded)
         /\ turnProtected /\ request.turn = policyTurn /\ ~ turnOver
    /\ reply' = "card" /\ request.paths # {} =>
         activePreset # "plan" /\ request.paths \subseteq InScope

LEMMA EarnedStep == PolicyInv /\ [EditPolicyNext]_editPolicyVars => ConsentStep
<1> SUFFICES ASSUME PolicyInv, [EditPolicyNext]_editPolicyVars,
                    request # NoRequest, request' = NoRequest
             PROVE  ConsentStep
  BY DEF ConsentStep
<1> DEFINE decision == Decision(activePreset, request, activeCustomMode, turnProtected)
<1>1. request.paths \subseteq Paths
  BY DEF PolicyInv, EditPolicyTypeOK, Asked
<1>2. Decided \/ InterceptionFails
  BY DEF EditPolicyNext, editPolicyVars, PickPreset, PickMode, ClearMode, SettingsChange,
         TurnBegins, TurnSnapshot, TurnGone, PermissionAsked
<1>3. CASE InterceptionFails
  BY <1>3 DEF InterceptionFails, ConsentStep
<1>4. CASE Decided /\ Stale
  BY <1>4 DEF Decided, ConsentStep
<1>5. CASE Decided /\ ~ Stale
  <2>1. reply' \in (IF decision = "deny" THEN {"refused"} ELSE {"card"})
                        \cup (IF decision = "allow" THEN {"allowed"} ELSE {})
    BY <1>5 DEF Decided
  <2>2. /\ reply' = "allowed" => decision = "allow"
        /\ reply' = "card" => decision # "deny"
    BY <2>1
  <2>3. ASSUME request.paths # {}, decision # "deny"
        PROVE  activePreset # "plan" /\ request.paths \subseteq InScope
    <3>1. ~ Denied(activePreset, request.paths, activeCustomMode, turnProtected)
      BY <2>3, DenialWins
    <3>2. \A p \in request.paths : ~ Violates(p, activeCustomMode)
      BY <3>1 DEF Denied
    <3> QED BY <1>1, <3>1, <3>2, SnapshotDeniesOutOfScope DEF Denied
  <2>4. ASSUME decision = "allow"
        PROVE  /\ activePreset = "normal" /\ request.paths # {} /\ request.command = "none"
               /\ request.paths \subseteq InScope \ (Outside \cup Secret \cup Guarded)
               /\ turnProtected
    <3>1. /\ request.paths # {} /\ request.command = "none"
          /\ EditOutcome(activePreset, request.paths, activeCustomMode, turnProtected) = "allow"
      BY <2>4, DecisionIsAllow
    <3>2. SafeEdit(activePreset, request.paths, turnProtected)
      BY <3>1 DEF EditOutcome
    <3>3. request.paths \subseteq InScope
      BY <2>3, <2>4, <3>1
    <3> QED BY <1>1, <3>1, <3>2, <3>3 DEF SafeEdit
  <2>5. request.turn = policyTurn /\ ~ turnOver
    BY <1>5 DEF Stale
  <2> QED BY <2>2, <2>3, <2>4, <2>5 DEF ConsentStep
<1> QED BY <1>2, <1>3, <1>4, <1>5

\* Consent is earned whatever the paths, the modes, the number of turns and the
\* order in which preset, mode, settings and turn change around the await of
\* handlePermission (SessionController.ts:1018-1077).
THEOREM Consent == EditPolicySpec => ConsentIsEarned
<1>1. PolicyInv /\ [EditPolicyNext]_editPolicyVars => [ConsentStep]_editPolicyVars
  BY EarnedStep
<1>2. EditPolicySpec => [][ConsentStep]_editPolicyVars
  BY <1>1, PolicyInvariant, PTL DEF EditPolicySpec
<1> QED BY <1>2 DEF ConsentIsEarned, ConsentStep
==============================================================================
