CONSTANTS
  Cells = {1, 2}
  Injections <- Errors
  RawVectors <- Vectors
  MaxErrors = 3
  MaxTime = 4

SPECIFICATION Spec

INVARIANT EachErrorOnce
CHECK_DEADLOCK FALSE
