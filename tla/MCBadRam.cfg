SPECIFICATION Spec
CONSTANTS
  W = 6
  MAXPATNS = 3
  Errors <- Spread
INVARIANTS
  TypeOK
  KnownIsCovered
  CoveredUntilAstray
PROPERTIES
  LiveStepsKeepCover
  RelocationEnds
