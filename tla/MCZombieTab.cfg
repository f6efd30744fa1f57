CONSTANTS
  MaxTab = 1
  Sessions = {s1, s2}
  NoSession = NoSession
  MaxTail = 1
  UserOps = {"start", "open", "load", "close"}
SPECIFICATION Spec
INVARIANT NoZombieTab
CHECK_DEADLOCK FALSE
