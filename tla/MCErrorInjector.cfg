CONSTANTS
  Cells = {1, 2}
  Injections <- Errors
  RawVectors <- Vectors
  MaxErrors = 3
  MaxTime = 4

SPECIFICATION Spec

INVARIANT TypeOK
INVARIANT OnlyListedMetrics
PROPERTY EffectsOnlyInWindow
PROPERTY EffectsLast
CHECK_DEADLOCK FALSE
