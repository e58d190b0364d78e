CONSTANTS
  N = 6
  Inputs <- CrowdFiles
  SEM_UP_VAL = 40
  MsgCap = 6
  MaxClk = 30
  Prompt = TRUE
  MemorySize = 4
  Spans <- MCSpans
  NULL = NULL
  LastLevel = 1
  quantum = 2
  Algorithms = {"SJF", "HPF", "RR", "MLFL"}
SPECIFICATION TurnsSpec
INVARIANTS
  BoundedWait
  InversionBounded
PROPERTIES
  Termination
  QuantumKept
