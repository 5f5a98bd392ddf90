CONSTANTS
  RetrainingInterval = 2
  MaxRows = 2
  MaxModels = 2
  NoModel = NoModel
  Torn = Torn

SPECIFICATION Spec

PROPERTY RetrainedModelServed
CHECK_DEADLOCK FALSE
