CONSTANTS
  MaxTab = 1
  Sessions = {s1, s2}
  NoSession = NoSession
  MaxTail = 1
  UserOps = {"start", "reconnect", "open", "new", "load", "close"}
SPECIFICATION Spec
SYMMETRY SessionSymmetry
INVARIANTS
  TypeOK
  OneSessionPerTab
  NoSilentDrop
  TurnsAreServed
  ClosedStaysClosed
CHECK_DEADLOCK FALSE
