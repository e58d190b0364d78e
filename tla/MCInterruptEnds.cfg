CONSTANTS
  SEM_UP_VAL = 6
  LastArrival = 2
  LastFinish = 4
  MaxClk = 6
  MaxInterrupts = 1
  InterruptAt <- WhileRunning
  MaxKills = 0
SPECIFICATION Spec
PROPERTY
  InterruptEnds
CHECK_DEADLOCK FALSE
