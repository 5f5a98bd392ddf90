CONSTANTS
  Cells = {1}
  KPIs <- AllKPIs
  NoBaseline = NoBaseline
  cooldown_balance = 2
  cooldown_increase_power = 5
  cooldown_reduce_power = 5
  cooldown_handover = 9
  reversal_penalty_ms = 500
  load_hysteresis = 5
  delay_hysteresis = 5
  min_action_duration = 4
  history_depth = 4
  MaxTime = 10

SPECIFICATION ResponseSpec

INVARIANT TypeOK
INVARIANT HistoryAgrees
INVARIANT CooldownSpacing
INVARIANT MinimumHold
INVARIANT NoBarredReversal
INVARIANT ChurnBound
INVARIANT InsistenceWins
PROPERTY ImplementsPacer
CHECK_DEADLOCK FALSE
