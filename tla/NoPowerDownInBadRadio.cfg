CONSTANTS
  Situations <- Places
  Risks <- Verdicts
  NoTarget = NoTarget

SPECIFICATION Spec

INVARIANT NoPowerDownInBadRadio
CHECK_DEADLOCK FALSE
