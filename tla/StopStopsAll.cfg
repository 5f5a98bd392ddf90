CONSTANTS
  MaxSpawns = 3
  MaxSignals = 0
  NoProcess = NoProcess

SPECIFICATION Spec

INVARIANT StopStopsAll
CHECK_DEADLOCK FALSE
