CONSTANTS
  SEM_UP_VAL = 6
  LastArrival = 2
  LastFinish = 4
  MaxClk = 6
  MaxInterrupts = 2
  InterruptAt <- Anytime
  MaxKills = 1
SPECIFICATION Spec
INVARIANTS
  FreedOnce
  NothingLeft
PROPERTIES
  CreditsKept
  EndsByItself
  InterruptHeeded
CHECK_DEADLOCK FALSE
