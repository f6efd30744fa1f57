CONSTANTS
  MaxTurn = 2
  Approvals = {a1}
SPECIFICATION Spec
INVARIANT AutoAllowIsCaptured
CHECK_DEADLOCK FALSE
