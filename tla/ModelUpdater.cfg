CONSTANTS
  RetrainingInterval = 2
  MaxRows = 5
  MaxModels = 5
  NoModel = NoModel
  Torn = Torn

SPECIFICATION Spec

INVARIANT TypeOK
INVARIANT WholeModelSurvives
PROPERTY RetrainingAttempted
PROPERTY ShutdownEnds
CHECK_DEADLOCK FALSE
