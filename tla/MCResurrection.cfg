CONSTANTS
  MaxTab = 1
  Sessions = {s1, s2}
  NoSession = NoSession
  MaxTail = 1
  UserOps = {"start", "open", "close"}
SPECIFICATION Spec
INVARIANT NoResurrection
CHECK_DEADLOCK FALSE
