CONSTANTS
  N = 3
  Inputs <- FamilyFiles
  SEM_UP_VAL = 20
  MsgCap = 3
  MaxClk = 14
  Prompt = TRUE
  MemorySize = 2
  Spans <- MCSpans
  NULL = NULL
  LastLevel = 1
  quantum = 2
  Algorithms = {"SJF", "HPF", "RR", "MLFL"}
SPECIFICATION FamilySpec
INVARIANTS
  DoneWhenFinished
  OneComputes
PROPERTIES
  ChildrenEnd
