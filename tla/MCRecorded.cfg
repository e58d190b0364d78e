CONSTANTS
  N = 5
  Inputs <- RecordedFile
  SEM_UP_VAL = 100
  MsgCap = 5
  MaxClk = 70
  Prompt = TRUE
  MemorySize = 1024
  Spans <- MCSpans
  NULL = NULL
  LastLevel = 10
  quantum = 5
  Algorithms = {"SJF", "HPF", "RR", "MLFL"}
SPECIFICATION MainSafety
INVARIANTS
  RunsAsRecorded
