CONSTANTS
  Windows = {w1, w2}
  Paths = {p1, p2}
  Contents = {absent, text}
  Absent = absent
  Big = big
  None = None
  MaxRows = 3
  MaxEdits = 2
  MaxOpens = 2
  MaxAsks = 2
  MaxFaults = 1
SPECIFICATION CkSpec
SYMMETRY CheckpointSymmetry
INVARIANTS
  CkTypeOK
  NothingLost
  SettledNotDirty
  RedoReachesTip
  BorrowedIsOwed
PROPERTIES
  RowsKept
  UncapturedKept
CHECK_DEADLOCK FALSE
