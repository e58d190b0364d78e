CONSTANT MaxLines = 4
SPECIFICATION Spec
INVARIANTS
  CountExact
