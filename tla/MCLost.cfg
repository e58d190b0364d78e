CONSTANTS
  N = 4
  Inputs <- TwoSizeFiles
  SEM_UP_VAL = 20
  MsgCap = 4
  MaxClk = 14
  Prompt = TRUE
  MemorySize = 2
  Spans <- MCSpans
  NULL = NULL
  LastLevel = 1
  quantum = 1
  Algorithms = {"RR", "SJF", "HPF"}
SPECIFICATION MainSafety
INVARIANT
  NoProcessLost
