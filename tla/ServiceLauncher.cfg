CONSTANTS
  MaxSpawns = 6
  MaxSignals = 2
  NoProcess = NoProcess

SPECIFICATION Spec

INVARIANT TypeOK
INVARIANT NothingLost
INVARIANT RecordedStopped
PROPERTY CleanupEnds
CHECK_DEADLOCK FALSE
