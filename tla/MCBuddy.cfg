CONSTANTS
  MemorySize = 8
  Spans <- MCSpans
  Procs = {p1, p2, p3, p4}
  NULL = NULL
SYMMETRY MCSymmetry
SPECIFICATION Spec
INVARIANTS
  TypeOK
  BlocksDisjoint
  BlockFits
  LeavesAreHeld
  RefusalJustified
  IndInv
  CodeAgrees
