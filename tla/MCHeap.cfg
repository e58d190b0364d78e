CONSTANTS
  N = 4
  Inputs <- HeapFiles
  SEM_UP_VAL = 40
  MsgCap = 4
  MaxClk = 26
  Prompt = TRUE
  MemorySize = 4
  Spans <- MCSpans
  NULL = NULL
  LastLevel = 1
  quantum = 1
  Chunks = 60
  Algorithms = {"SJF", "HPF", "RR", "MLFL"}
SPECIFICATION HeapSafety
INVARIANTS
  NodesAccounted
  ListsIntact
  ScanReadsIntact
  StaleNextRight
CHECK_DEADLOCK FALSE
