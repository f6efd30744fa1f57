CONSTANTS
  MaxTab = 1
  Sessions = {s1, s2}
  NoSession = NoSession
  MaxTail = 1
  UserOps = {"start", "open", "new"}
  Procs = {w1, w2}
  Spare = 2
  MaxCrashes = 1
  NoFile = NoFile
  Watched <- MCWatched
SPECIFICATION OneSpec
PROPERTIES
  TailDrains
  OutageRetried
  OpenAnswered
  OrphanReclaimed
CHECK_DEADLOCK FALSE
