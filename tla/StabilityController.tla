------------------------ MODULE StabilityController ------------------------
(***************************************************************************)
(* The anti-oscillation filter between the predictor and the network       *)
(* (ai_engine/stability_controller.py).  Every request that reaches it     *)
(* carries one proposed action and one KPI record per cell; the filter     *)
(* imposes the proposal or keeps the action imposed before.                *)
(*                                                                         *)
(* Time is the request counter of the server, so a request that fails      *)
(* before the filter lets time pass without a decision (Elapse).  Loads    *)
(* are percentages, delays milliseconds, SINRs decibels, and a unit of the *)
(* oscillation score is 0.05.                                              *)
(***************************************************************************)
EXTENDS Integers, Sequences

CONSTANTS
  Cells,                    (* cell ids                                    *)
  KPIs,                     (* KPI records a request may carry             *)
  NoBaseline,               (* kpi_baseline of a cell that has none yet    *)
  cooldown_balance, cooldown_increase_power,
  cooldown_reduce_power, cooldown_handover,
  reversal_penalty_ms, load_hysteresis, delay_hysteresis,
  min_action_duration, history_depth,
  MaxTime                   (* bound on the request counter                *)

BALANCE == 0
INCREASE_POWER == 1
REDUCE_POWER == 2
HANDOVER == 3
Action == {BALANCE, INCREASE_POWER, REDUCE_POWER, HANDOVER}

Never == -1
Time == 0..MaxTime
ActionRecord == [timestamp : Time, action : Action]
Reasons == {"accepted", "cooldown", "reversal", "hysteresis", "too_short",
            "new_cooldown"}
Decision == [proposed : Action, final : Action, reason : Reasons]

ASSUME ConfigAssumption ==
  /\ \A k \in KPIs : k.delay \in Int /\ k.load \in Int /\ k.sinr \in Int
  /\ NoBaseline \notin KPIs
  /\ cooldown_balance \in Nat
  /\ cooldown_increase_power \in Nat
  /\ cooldown_reduce_power \in Nat
  /\ cooldown_handover \in Nat
  /\ reversal_penalty_ms \in Nat \ {0}
  /\ load_hysteresis \in Int
  /\ delay_hysteresis \in Int
  /\ min_action_duration \in Nat
  /\ history_depth \in Nat \ {0}
  /\ MaxTime \in Nat

VARIABLES
  timestamp_sec,             (* time of the latest request                 *)
  action_history,            (* per cell, the last history_depth records   *)
  last_action_time,          (* per cell and action, time of its imposition*)
  current_action,            (* per cell, the imposed action               *)
  current_action_start_time, (* per cell, when it was (re)imposed          *)
  kpi_baseline,              (* per cell, reference point of hysteresis    *)
  oscillation_score,
  decision_info              (* per cell, the latest decision returned     *)

filterVars == <<action_history, last_action_time, current_action,
                current_action_start_time, kpi_baseline, oscillation_score,
                decision_info>>
vars == <<timestamp_sec, filterVars>>

TypeOK ==
  /\ timestamp_sec \in Time
  /\ action_history \in [Cells -> Seq(ActionRecord)]
  /\ \A c \in Cells : Len(action_history[c]) <= history_depth
  /\ last_action_time \in [Cells -> [Action -> Time \cup {Never}]]
  /\ current_action \in [Cells -> Action]
  /\ current_action_start_time \in [Cells -> Time \cup {Never}]
  /\ kpi_baseline \in [Cells -> KPIs \cup {NoBaseline}]
  /\ oscillation_score \in [Cells -> 0..20]
  /\ decision_info \in [Cells -> Decision]

-----------------------------------------------------------------------------
(* The constraints, in the order in which _check_constraints tries them.   *)

GetCooldown(a) ==
  CASE a = BALANCE -> cooldown_balance
    [] a = INCREASE_POWER -> cooldown_increase_power
    [] a = REDUCE_POWER -> cooldown_reduce_power
    [] OTHER -> cooldown_handover

\* An action never imposed on the cell counts as imposed 999 s ago.
Elapsed(c, a, t) ==
  IF last_action_time[c][a] = Never THEN 999 ELSE t - last_action_time[c][a]

\* Mutant: the cooldown looked up is that of the action in force.
CoolingOfCurrent(c, a, t) == Elapsed(c, a, t) < GetCooldown(current_action[c])

Cooling(c, a, t) == Elapsed(c, a, t) < GetCooldown(a)

Reversals == {<<INCREASE_POWER, REDUCE_POWER>>, <<REDUCE_POWER, INCREASE_POWER>>,
              <<HANDOVER, BALANCE>>}

\* Mutant: the pair (HANDOVER, BALANCE) is missing from the table.
IsPowerReversal(current, proposed) ==
  <<current, proposed>> \in Reversals \ {<<HANDOVER, BALANCE>>}

IsReversal(current, proposed) == <<current, proposed>> \in Reversals

\* Milliseconds of delay the proposal is estimated to save.
EstimateBenefit(a, kpi) ==
  IF a = INCREASE_POWER /\ kpi.sinr < 5 THEN (5 - kpi.sinr) * 10
  ELSE IF a = HANDOVER /\ kpi.load > 80 THEN kpi.load - 70
  ELSE 0

ReversalTooCostly(c, p, kpi) ==
  IsReversal(current_action[c], p) /\ EstimateBenefit(p, kpi) < reversal_penalty_ms

Improved(baseline, kpi) ==
  /\ kpi.load - baseline.load <= -load_hysteresis
  /\ kpi.delay - baseline.delay <= -delay_hysteresis

\* Mutant: every change, not only the one to BALANCE, must show an improvement.
PassesSymmetricHysteresis(c, p, kpi) ==
  \/ current_action[c] \in {p, BALANCE}
  \/ kpi_baseline[c] = NoBaseline
  \/ Improved(kpi_baseline[c], kpi)

\* The first change away from a non-BALANCE action only records the baseline.
PassesHysteresis(c, p, kpi) ==
  \/ current_action[c] \in {p, BALANCE}
  \/ kpi_baseline[c] = NoBaseline
  \/ p = BALANCE => Improved(kpi_baseline[c], kpi)

\* Mutant: the minimum duration protects HANDOVER only.
HandoverTooShort(c, t) ==
  /\ current_action[c] = HANDOVER
  /\ t - current_action_start_time[c] < min_action_duration

ActionTooShort(c, t) ==
  /\ current_action[c] # BALANCE
  /\ current_action_start_time[c] # Never
  /\ t - current_action_start_time[c] < min_action_duration

CheckConstraints(c, p, kpi, t) ==
  IF p = current_action[c]
  THEN IF Cooling(c, p, t) THEN "cooldown" ELSE "accepted"
  ELSE IF ReversalTooCostly(c, p, kpi) THEN "reversal"
  ELSE IF ~PassesHysteresis(c, p, kpi) THEN "hysteresis"
  ELSE IF ActionTooShort(c, t) THEN "too_short"
  ELSE IF Cooling(c, p, t) THEN "new_cooldown"
  ELSE "accepted"

\* The hysteresis check was reached, and took the KPIs as the cell's baseline.
TakesBaseline(c, p, kpi) ==
  /\ p # current_action[c]
  /\ ~ReversalTooCostly(c, p, kpi)
  /\ current_action[c] # BALANCE
  /\ kpi_baseline[c] = NoBaseline

\* Mutant: a full deque rejects the new record.
AppendUnlessFull(history, record) ==
  IF Len(history) < history_depth THEN Append(history, record) ELSE history

\* A deque of at most history_depth records drops its oldest one.
AppendRecord(history, record) ==
  Append(IF Len(history) < history_depth THEN history ELSE Tail(history), record)

\* Mutant: the score has no floor.
ScoreUnfloored(s, reason) ==
  CASE reason = "hysteresis" -> IF s + 2 > 20 THEN 20 ELSE s + 2
    [] reason = "accepted" -> s - 1
    [] OTHER -> s

Score(s, reason) ==
  CASE reason = "hysteresis" -> IF s + 2 > 20 THEN 20 ELSE s + 2
    [] reason = "accepted" -> IF s = 0 THEN 0 ELSE s - 1
    [] OTHER -> s

-----------------------------------------------------------------------------
Init ==
  /\ timestamp_sec = 0
  /\ action_history = [c \in Cells |-> <<>>]
  /\ last_action_time = [c \in Cells |-> [a \in Action |-> Never]]
  /\ current_action = [c \in Cells |-> BALANCE]
  /\ current_action_start_time = [c \in Cells |-> Never]
  /\ kpi_baseline = [c \in Cells |-> NoBaseline]
  /\ oscillation_score = [c \in Cells |-> 0]
  /\ decision_info =
       [c \in Cells |-> [proposed |-> BALANCE, final |-> BALANCE, reason |-> "accepted"]]

\* One call for all cells at time t: the loop over the cells, in which no cell
\* reads or writes what belongs to another.
ApplyStability(proposed_actions, current_kpi, t) ==
  LET reason == [c \in Cells |-> CheckConstraints(c, proposed_actions[c], current_kpi[c], t)]
      Accepted(c) == reason[c] = "accepted"
  IN
  /\ action_history' = [c \in Cells |->
       IF Accepted(c)
       THEN AppendRecord(action_history[c],
                         [timestamp |-> t, action |-> proposed_actions[c]])
       ELSE action_history[c]]
  /\ last_action_time' = [c \in Cells |->
       IF Accepted(c) THEN [last_action_time[c] EXCEPT ![proposed_actions[c]] = t]
       ELSE last_action_time[c]]
  /\ current_action' = [c \in Cells |->
       IF Accepted(c) THEN proposed_actions[c] ELSE current_action[c]]
  /\ current_action_start_time' = [c \in Cells |->
       IF Accepted(c) THEN t ELSE current_action_start_time[c]]
  /\ kpi_baseline' = [c \in Cells |->
       IF TakesBaseline(c, proposed_actions[c], current_kpi[c]) THEN current_kpi[c]
       ELSE kpi_baseline[c]]
  /\ oscillation_score' = [c \in Cells |-> Score(oscillation_score[c], reason[c])]
  /\ decision_info' = [c \in Cells |->
       [proposed |-> proposed_actions[c],
        final    |-> IF Accepted(c) THEN proposed_actions[c] ELSE current_action[c],
        reason   |-> reason[c]]]

Decide ==
  /\ timestamp_sec < MaxTime
  /\ timestamp_sec' = timestamp_sec + 1
  /\ \E proposed_actions \in [Cells -> Action], current_kpi \in [Cells -> KPIs] :
       ApplyStability(proposed_actions, current_kpi, timestamp_sec + 1)

\* A request that never reaches the controller still advances the counter.
Elapse ==
  /\ timestamp_sec < MaxTime
  /\ timestamp_sec' = timestamp_sec + 1
  /\ UNCHANGED filterVars

Next == Decide \/ Elapse

Spec == Init /\ [][Next]_vars

-----------------------------------------------------------------------------
(* Properties.                                                             *)

History(c) == action_history[c]

\* Two impositions of one action on one cell that the history still holds are
\* at least that action's cooldown apart, whatever happened in between.
CooldownSpacing ==
  \A c \in Cells : \A i, j \in 1..Len(History(c)) :
    i < j /\ History(c)[i].action = History(c)[j].action
      => History(c)[j].timestamp - History(c)[i].timestamp
           >= GetCooldown(History(c)[i].action)

\* An action other than BALANCE stays imposed for min_action_duration before a
\* different one replaces it.
MinimumHold ==
  \A c \in Cells : \A i \in 1..(Len(History(c)) - 1) :
    /\ History(c)[i].action # BALANCE
    /\ History(c)[i].action # History(c)[i + 1].action
    => History(c)[i + 1].timestamp - History(c)[i].timestamp >= min_action_duration

\* No KPI makes a drop from HANDOVER to BALANCE, or from INCREASE_POWER to
\* REDUCE_POWER, worth the reversal penalty: neither ever happens in one step.
BarredReversals == {<<HANDOVER, BALANCE>>, <<INCREASE_POWER, REDUCE_POWER>>}
NoBarredReversal ==
  \A c \in Cells : \A i \in 1..(Len(History(c)) - 1) :
    <<History(c)[i].action, History(c)[i + 1].action>> \notin BarredReversals

\* Under ChurnConfig, which StabilityConfig satisfies, no cell records four
\* impositions within min_action_duration, whatever is proposed and measured.
ChurnConfig ==
  /\ 2 * cooldown_balance >= min_action_duration
  /\ cooldown_increase_power >= min_action_duration
  /\ cooldown_reduce_power >= min_action_duration
  /\ cooldown_handover >= min_action_duration

ChurnBound ==
  \A c \in Cells : \A i \in 1..(Len(History(c)) - 3) :
    History(c)[i + 3].timestamp - History(c)[i].timestamp >= min_action_duration

\* The three records of one decision agree: the deque is in time order and ends
\* with the action in force and its start, and no record of an action is younger
\* than last_action_time says.  It is what makes the bounds above inductive.
HistoryAgrees ==
  \A c \in Cells :
    /\ History(c) = <<>> => current_action[c] = BALANCE
    /\ History(c) # <<>> =>
         /\ History(c)[Len(History(c))].action = current_action[c]
         /\ History(c)[Len(History(c))].timestamp = current_action_start_time[c]
    /\ \A i \in 1..Len(History(c)) :
         /\ History(c)[i].timestamp <= timestamp_sec
         /\ last_action_time[c][History(c)[i].action] # Never
         /\ History(c)[i].timestamp <= last_action_time[c][History(c)[i].action]
    /\ \A i, j \in 1..Len(History(c)) :
         i < j => History(c)[i].timestamp < History(c)[j].timestamp

\* The filter implements the pacing contract of ActionPacer.
Pacer == INSTANCE ActionPacer WITH
  Actions <- Action, Idle <- BALANCE, MinHold <- min_action_duration,
  Cooldown <- [a \in Action |-> GetCooldown(a)],
  Barred <- BarredReversals, Horizon <- MaxTime,
  now <- timestamp_sec, imposed <- current_action,
  imposed_at <- last_action_time, since <- current_action_start_time

\* Every run of the filter is a run of the pacing contract: cooldowns, minimum
\* hold and barred successions, and no other change of the imposed action.
ImplementsPacer == Pacer!Spec

=============================================================================
