SPECIFICATION Spec
CONSTANTS
  Cells = {1, 2}
  MaxRnti = 2
  RequestTimeout = 1
  SetupTimeout = 2
  RejectedTimeout = 1
  JoiningTimeout = 2
  LeavingTimeout <- MCLeavingTimeout
  RaTicks = 3
  T310 = 6
  X2Delay = 1
  S1Delay = 1
INVARIANT AckFindsContext
