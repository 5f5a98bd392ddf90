CONSTANTS
  Cells = {1}
  KPIs <- TwoKPIs
  NoBaseline = NoBaseline
  cooldown_balance = 1
  cooldown_increase_power = 2
  cooldown_reduce_power = 2
  cooldown_handover = 3
  reversal_penalty_ms = 500
  load_hysteresis = 5
  delay_hysteresis = 5
  min_action_duration = 2
  history_depth = 1
  PredictedActions = {0, 3}
  LastCell = 1
  MaxOutstanding <- Ahead
  MaxRequests = 3
  MaxRecvs = 4

SPECIFICATION Spec

INVARIANT TypeOK
INVARIANT RepliesMatchRequests
INVARIANT NoHandoverAtCapacity
INVARIANT LogIsOrdered
PROPERTY FilterSpec
PROPERTY EveryVectorAnswered
CHECK_DEADLOCK FALSE
