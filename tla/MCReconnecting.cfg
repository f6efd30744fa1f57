CONSTANTS
  MaxTab = 1
  Sessions = {s1, s2}
  NoSession = NoSession
  MaxTail = 1
  UserOps = {"start", "open"}
SPECIFICATION Spec
INVARIANT ReconnectingMeansRetrying
CHECK_DEADLOCK FALSE
