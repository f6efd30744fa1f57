CONSTANTS
  MaxTurn = 2
  Approvals = {a1, a2}
SPECIFICATION FairSpec
INVARIANTS
  TypeOK
  LeaseIffLive
  BracketsClose
  NoZombieCard
  PromptIsLive
  AutoAllowIsProtected
PROPERTIES
  NoAllowAfterStop
  ImplementsTurnService
  StopEndsTurn
  RequestsAreAnswered
CHECK_DEADLOCK FALSE
