------------------------------ MODULE ShadowLock ------------------------------
(***************************************************************************)
(* The advisory lock of one shadow repository, host/checkpoints/           *)
(* shadowLock.ts: a lockfile that is created exclusively, kept fresh by a  *)
(* heartbeat while it is held, and broken by an atomic rename once its     *)
(* mtime is older than staleMs.                                            *)
(*                                                                         *)
(* A process is one VS Code window.  A lockfile is an inode: its token is  *)
(* the process that created it with a number that is free, so that numbers *)
(* can be reused once the file is gone.  Time is one bit per inode: "aged" *)
(* means that its mtime is older than staleMs.                             *)
(***************************************************************************)
EXTENDS Naturals, FiniteSets

CONSTANTS Procs,   \* the windows that open the workspace
          Spare,   \* bound: inodes a window may have on disk at once
          MaxCrashes, \* bound: crashes of one window
          NoFile,  \* "no such file"
          Watched  \* the inodes of which OrphanReclaimed speaks (all are alike)

ASSUME LockAssumption == /\ Spare \in Nat \ {0} /\ MaxCrashes \in Nat
                         /\ NoFile \notin Procs \X (1 .. Spare)
                         /\ Watched \subseteq Procs \X (1 .. Spare)

VARIABLES lockFile,  \* the inode at lockPath, or NoFile
          grabbed,   \* per process: the inode it renamed to its .stale- path
          token,     \* per process: the inode of its current acquire
          lockPc,    \* per process: where it is in acquireLock / release
          aged,      \* inodes whose mtime is older than staleMs
          beating,   \* inodes whose heartbeat timer still runs
          crashes,   \* per process: crashes so far
          everStale  \* history: some file at lockPath has aged

lockVars == <<lockFile, grabbed, token, lockPc, aged, beating, crashes, everStale>>

Inodes == Procs \X (1 .. Spare)
Pcs == {"idle", "open", "write", "stat", "steal", "restat", "relink", "held",
        "unlink", "down"}

LockTypeOK ==
  /\ lockFile \in Inodes \cup {NoFile}
  /\ grabbed \in [Procs -> Inodes \cup {NoFile}]
  /\ token \in [Procs -> Inodes \cup {NoFile}]
  /\ lockPc \in [Procs -> Pcs]
  /\ aged \subseteq Inodes /\ beating \subseteq Inodes
  /\ crashes \in [Procs -> 0 .. MaxCrashes] /\ everStale \in BOOLEAN

LockInit ==
  /\ lockFile = NoFile
  /\ grabbed = [p \in Procs |-> NoFile]
  /\ token = [p \in Procs |-> NoFile]
  /\ lockPc = [p \in Procs |-> "idle"]
  /\ aged = {} /\ beating = {}
  /\ crashes = [p \in Procs |-> 0]
  /\ everStale = FALSE

At(p, from, to) == lockPc[p] = from /\ lockPc' = [lockPc EXCEPT ![p] = to]

OnDisk == ({lockFile} \cup {grabbed[q] : q \in Procs}) \ {NoFile}
InUse == OnDisk \cup ({token[q] : q \in Procs} \ {NoFile})

\* acquireLock: a fresh token for this acquire.
Acquire(p) ==
  /\ At(p, "idle", "open")
  /\ \E t \in ({p} \X (1 .. Spare)) \ InUse : token' = [token EXCEPT ![p] = t]
  /\ UNCHANGED <<lockFile, grabbed, aged, beating, crashes, everStale>>

\* Mutant of OpenCreates: the open has no O_EXCL.
OpenWithoutExcl(p) ==
  /\ At(p, "open", "write")
  /\ lockFile' = token[p]
  /\ aged' = aged \ {token[p]}
  /\ UNCHANGED <<grabbed, token, beating, crashes, everStale>>

\* fs.open(lockPath, 'wx') succeeds: the file exists, its content is not there yet.
OpenCreates(p) ==
  /\ At(p, "open", "write")
  /\ lockFile = NoFile
  /\ lockFile' = token[p]
  /\ aged' = aged \ {token[p]}
  /\ UNCHANGED <<grabbed, token, beating, crashes, everStale>>

\* fs.open fails with EEXIST.
OpenFindsFile(p) ==
  /\ At(p, "open", "stat")
  /\ lockFile # NoFile
  /\ UNCHANGED <<lockFile, grabbed, token, aged, beating, crashes, everStale>>

\* The token is written and makeHandle starts the heartbeat.
WriteToken(p) ==
  /\ At(p, "write", "held")
  /\ beating' = beating \cup {token[p]}
  /\ UNCHANGED <<lockFile, grabbed, token, aged, crashes, everStale>>

\* The write fails (disk full): acquireLock throws and leaves its file behind.
TokenWriteFails(p) ==
  /\ At(p, "write", "idle")
  /\ token' = [token EXCEPT ![p] = NoFile]
  /\ UNCHANGED <<lockFile, grabbed, aged, beating, crashes, everStale>>

\* The file vanished between open and stat: try again.
StatGone(p) ==
  /\ At(p, "stat", "open")
  /\ lockFile = NoFile
  /\ UNCHANGED <<lockFile, grabbed, token, aged, beating, crashes, everStale>>

\* The file is stale: try to break it.
StatStale(p) ==
  /\ At(p, "stat", "steal")
  /\ lockFile \in aged
  /\ UNCHANGED <<lockFile, grabbed, token, aged, beating, crashes, everStale>>

\* The file is live and the deadline has not passed: poll.
StatWaits(p) ==
  /\ At(p, "stat", "open")
  /\ lockFile # NoFile /\ lockFile \notin aged
  /\ UNCHANGED <<lockFile, grabbed, token, aged, beating, crashes, everStale>>

\* The file is live and the deadline has passed: CheckpointLockTimeoutError.
StatTimesOut(p) ==
  /\ At(p, "stat", "idle")
  /\ lockFile # NoFile /\ lockFile \notin aged
  /\ token' = [token EXCEPT ![p] = NoFile]
  /\ UNCHANGED <<lockFile, grabbed, aged, beating, crashes, everStale>>

\* tryStealStaleLock: rename(lockPath, stolenPath) finds nothing.
StealLoses(p) ==
  /\ At(p, "steal", "open")
  /\ lockFile = NoFile
  /\ UNCHANGED <<lockFile, grabbed, token, aged, beating, crashes, everStale>>

\* The rename takes whatever inode is at lockPath now.
StealWins(p) ==
  /\ At(p, "steal", "restat")
  /\ lockFile # NoFile
  /\ grabbed' = [grabbed EXCEPT ![p] = lockFile]
  /\ lockFile' = NoFile
  /\ UNCHANGED <<token, aged, beating, crashes, everStale>>

\* Mutant of RestatStale: a stale file is put back like a live one.
RestatPutsBack(p) ==
  /\ At(p, "restat", "open")
  /\ grabbed[p] \in aged
  /\ lockFile' = IF lockFile = NoFile THEN grabbed[p] ELSE lockFile
  /\ grabbed' = [grabbed EXCEPT ![p] = NoFile]
  /\ UNCHANGED <<token, aged, beating, crashes, everStale>>

\* The grabbed file is really stale: discard it.
RestatStale(p) ==
  /\ At(p, "restat", "open")
  /\ grabbed[p] \in aged
  /\ aged' = aged \ {grabbed[p]}
  /\ grabbed' = [grabbed EXCEPT ![p] = NoFile]
  /\ UNCHANGED <<lockFile, token, beating, crashes, everStale>>

\* The grabbed file is live.
RestatLive(p) ==
  /\ At(p, "restat", "relink")
  /\ grabbed[p] \notin aged
  /\ UNCHANGED <<lockFile, grabbed, token, aged, beating, crashes, everStale>>

\* link(2) puts a live file back unless a newer one is there; the copy goes.
Relink(p) ==
  /\ At(p, "relink", "open")
  /\ lockFile' = IF lockFile = NoFile THEN grabbed[p] ELSE lockFile
  /\ grabbed' = [grabbed EXCEPT ![p] = NoFile]
  /\ UNCHANGED <<token, aged, beating, crashes, everStale>>

\* The heartbeat reads its own token and refreshes the mtime.
HeartbeatFresh(p) ==
  /\ lockPc[p] = "held" /\ token[p] \in beating
  /\ lockFile = token[p]
  /\ aged' = aged \ {token[p]}
  /\ UNCHANGED <<lockFile, grabbed, token, lockPc, beating, crashes, everStale>>

\* The heartbeat reads another token, or no file: it stops for good.
HeartbeatStops(p) ==
  /\ lockPc[p] = "held" /\ token[p] \in beating
  /\ lockFile # token[p]
  /\ beating' = beating \ {token[p]}
  /\ UNCHANGED <<lockFile, grabbed, token, lockPc, aged, crashes, everStale>>

\* release: the timer is cleared and the file is read; it is this holder's.
ReleaseOwned(p) ==
  /\ At(p, "held", "unlink")
  /\ lockFile = token[p]
  /\ beating' = beating \ {token[p]}
  /\ UNCHANGED <<lockFile, grabbed, token, aged, crashes, everStale>>

\* release: the file is another's or gone; it is left alone.
ReleaseLost(p) ==
  /\ At(p, "held", "idle")
  /\ lockFile # token[p]
  /\ beating' = beating \ {token[p]}
  /\ token' = [token EXCEPT ![p] = NoFile]
  /\ UNCHANGED <<lockFile, grabbed, aged, crashes, everStale>>

\* release: rm(lockPath, force) removes whatever is there by then.
Unlink(p) ==
  /\ At(p, "unlink", "idle")
  /\ lockFile' = NoFile
  /\ token' = [token EXCEPT ![p] = NoFile]
  /\ UNCHANGED <<grabbed, aged, beating, crashes, everStale>>

\* staleMs pass without a heartbeat.  A live window that is creating, writing
\* or unlinking its file is assumed to take less than staleMs for that call.
Age ==
  /\ lockFile # NoFile /\ lockFile \notin beating \cup aged
  /\ ~ \E p \in Procs : token[p] = lockFile /\ lockPc[p] \in {"write", "unlink"}
  /\ aged' = aged \cup {lockFile}
  /\ everStale' = TRUE
  /\ UNCHANGED <<lockFile, grabbed, token, lockPc, beating, crashes>>

\* The window's extension host dies; its files stay on disk.
LockCrash(p) ==
  /\ lockPc[p] \notin {"idle", "down"} /\ crashes[p] < MaxCrashes
  /\ crashes' = [crashes EXCEPT ![p] = @ + 1]
  /\ lockPc' = [lockPc EXCEPT ![p] = "down"]
  /\ token' = [token EXCEPT ![p] = NoFile]
  /\ grabbed' = [grabbed EXCEPT ![p] = NoFile]
  /\ beating' = beating \ {token[p]}
  /\ UNCHANGED <<lockFile, aged, everStale>>

LockRestart(p) ==
  /\ At(p, "down", "idle")
  /\ UNCHANGED <<lockFile, grabbed, token, aged, beating, crashes, everStale>>

AcquireStep(p) ==
  \/ Acquire(p)
  \/ OpenCreates(p) \/ OpenFindsFile(p) \/ WriteToken(p)
  \/ StatGone(p) \/ StatStale(p) \/ StatWaits(p)
  \/ StealLoses(p) \/ StealWins(p)
  \/ RestatStale(p) \/ RestatLive(p) \/ Relink(p)

ReleaseStep(p) == ReleaseOwned(p) \/ ReleaseLost(p) \/ Unlink(p)

LockNext ==
  \/ Age
  \/ \E p \in Procs :
       \/ AcquireStep(p) \/ ReleaseStep(p)
       \/ TokenWriteFails(p) \/ StatTimesOut(p)
       \/ HeartbeatFresh(p) \/ HeartbeatStops(p)
       \/ LockCrash(p) \/ LockRestart(p)

LockSpec == LockInit /\ [][LockNext]_lockVars

\* A window that is up keeps making checkpoints and its calls return; time
\* passes; a window that crashed is opened again.
LockFairness ==
  /\ WF_lockVars(Age)
  /\ \A p \in Procs : /\ WF_lockVars(AcquireStep(p) \/ ReleaseStep(p))
                       /\ WF_lockVars(LockRestart(p))

-----------------------------------------------------------------------------
Holders == {p \in Procs : lockPc[p] \in {"held", "unlink"}}

\* At most one window is inside the locked section (shadowLock.ts:11-18).
MutualExclusion == Cardinality(Holders) <= 1

\* While no lockfile has ever gone stale, the exclusive create and the
\* token-checked release alone keep the windows apart: the file of the holder
\* is at lockPath and there is no other holder.
ExclusiveUntilStale ==
  ~ everStale => \A p \in Holders : lockFile = token[p] /\ Holders = {p}

\* A lockfile that no live acquire owns, left by a crash or a failed write.
Orphan(t) == t \in OnDisk /\ \A p \in Procs : token[p] # t

\* Such a file does not block the checkpoints of the workspace for ever: it
\* ages, and the next acquire that meets it breaks it (shadowLock.ts:38-42).
OrphanReclaimed == \A t \in Watched : Orphan(t) ~> ~ Orphan(t)
=============================================================================
