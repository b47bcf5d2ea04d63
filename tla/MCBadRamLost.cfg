SPECIFICATION Spec
CONSTANTS
  W = 6
  MAXPATNS = 5
  Errors <- Block
INVARIANT
  FaultyCovered
