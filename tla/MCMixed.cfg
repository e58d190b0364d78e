CONSTANTS
  N = 3
  Inputs <- MixedFiles
  SEM_UP_VAL = 40
  MsgCap = 3
  MaxClk = 24
  Prompt = TRUE
  MemorySize = 2
  Spans <- MCSpans
  NULL = NULL
  LastLevel = 1
  quantum = 2
  Algorithms = {"SJF", "HPF", "RR", "MLFL"}
SPECIFICATION MainSafety
INVARIANTS
  MainTypeOK
  NoProcessLost
  AdmittedHoldMemory
  WorkConserving
  ExitComplete
  TicksAddUp
  TimesConsistent
  RightOneRuns
PROPERTIES
  StartTimeKept
  FollowsLifecycle
  ServesTicks
