CONSTANTS
  N = 3
  Inputs <- MCInputs
  SEM_UP_VAL = 10
  MsgCap = 3
  MaxClk = 8
  Prompt = TRUE
SPECIFICATION ServerSpec
CHECK_DEADLOCK FALSE
INVARIANTS
  SentOnce
  AllDueSent
PROPERTIES
  TakenOnArrival
  AllTaken
