CONSTANTS
  Situations <- Places
  Risks <- Verdicts
  NoTarget = NoTarget

SPECIFICATION Spec

INVARIANT TypeOK
INVARIANT SomeCellStays
INVARIANT AcceptorsKeepUsers
CHECK_DEADLOCK FALSE
