CONSTANTS
  N = 2
  Inputs <- LongFiles
  SEM_UP_VAL = 40
  MsgCap = 2
  MaxClk = 30
  Prompt = TRUE
  MemorySize = 2
  Spans <- MCSpans
  NULL = NULL
  LastLevel = 1
  quantum = 1
  Algorithms = {"MLFL"}
SPECIFICATION MainSafety
INVARIANT
  BufferSound
