CONSTANTS
  Procs = {w1, w2}
  Spare = 2
  MaxCrashes = 0
  NoFile = NoFile
  Watched = {}
SPECIFICATION LockSpec
SYMMETRY LockSymmetry
INVARIANT MutualExclusion
CHECK_DEADLOCK FALSE
