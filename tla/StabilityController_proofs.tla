--------------------- MODULE StabilityController_proofs ---------------------
(***************************************************************************)
(* Proofs about StabilityController for every set of cells, every KPI and  *)
(* every configuration that satisfies ConfigAssumption; last, that a       *)
(* predictor that insists gets its way (StabilityResponse), for every      *)
(* configuration whose cooldowns an action never imposed can outlast.      *)
(***************************************************************************)
EXTENDS StabilityResponse, TLAPS

-----------------------------------------------------------------------------
(* Lemmas about the operators.                                             *)

\* A cooldown is a natural number.
LEMMA CooldownType == \A a \in Action : GetCooldown(a) \in Nat
  BY ConfigAssumption DEF GetCooldown, Action, BALANCE, INCREASE_POWER, REDUCE_POWER, HANDOVER

\* The deque stays within its depth, ends with the new record, and its other
\* records are the old ones in their order, perhaps without the first.
LEMMA AppendRecordShape ==
  ASSUME NEW R, NEW h \in Seq(R), Len(h) <= history_depth, NEW r \in R
  PROVE  /\ AppendRecord(h, r) \in Seq(R)
         /\ Len(AppendRecord(h, r)) \in 1..history_depth
         /\ AppendRecord(h, r)[Len(AppendRecord(h, r))] = r
         /\ \E k \in {0, 1} :
              /\ Len(AppendRecord(h, r)) = Len(h) + 1 - k
              /\ \A i \in 1..(Len(AppendRecord(h, r)) - 1) :
                   AppendRecord(h, r)[i] = h[i + k] /\ i + k \in 1..Len(h)
<1>1. CASE Len(h) < history_depth
  BY <1>1, ConfigAssumption DEF AppendRecord
<1>2. CASE Len(h) = history_depth
  <2>1. h # <<>> /\ Len(h) >= 1
    BY <1>2, ConfigAssumption
  <2>2. Tail(h) \in Seq(R) /\ Len(Tail(h)) = Len(h) - 1
    BY <2>1
  <2>3. \A i \in 1..(Len(h) - 1) : Tail(h)[i] = h[i + 1]
    BY <2>1
  <2>4. AppendRecord(h, r) = Append(Tail(h), r)
    BY <1>2, ConfigAssumption DEF AppendRecord
  <2>5. \A i \in 1..(Len(h) - 1) : Append(Tail(h), r)[i] = h[i + 1]
    BY <2>2, <2>3
  <2>6. /\ Append(Tail(h), r) \in Seq(R)
        /\ Len(Append(Tail(h), r)) = Len(h)
        /\ Append(Tail(h), r)[Len(h)] = r
    BY <2>2
  <2> QED
    BY <2>1, <2>4, <2>5, <2>6, <1>2, ConfigAssumption
<1> QED
  BY <1>1, <1>2, ConfigAssumption

\* Records carry a natural time and an action, in histories too.
LEMMA RecordType ==
  ASSUME NEW h \in Seq(ActionRecord)
  PROVE  \A i \in 1..Len(h) : h[i].timestamp \in Nat /\ h[i].action \in Action
<1>1. \A i \in 1..Len(h) : h[i] \in ActionRecord
  OBVIOUS
<1>2. \A x \in ActionRecord : x.timestamp \in Nat /\ x.action \in Action
  BY ConfigAssumption DEF ActionRecord, Time
<1> QED
  BY <1>1, <1>2

\* A decision is always one of the reasons, and a score stays in its range.
LEMMA ReasonType ==
  ASSUME NEW c, NEW p, NEW kpi, NEW t
  PROVE  CheckConstraints(c, p, kpi, t) \in Reasons
  BY DEF CheckConstraints, Reasons

LEMMA ScoreType ==
  ASSUME NEW s \in 0..20, NEW reason \in Reasons
  PROVE  Score(s, reason) \in 0..20
  BY DEF Score, Reasons

-----------------------------------------------------------------------------
(* Type correctness.                                                       *)

LEMMA InitTypeOK == Init => TypeOK
  BY ConfigAssumption, \A c \in Cells : <<>> \in Seq(ActionRecord)
  DEF Init, TypeOK, Time, Never, Action, Decision, Reasons, BALANCE, INCREASE_POWER,
      REDUCE_POWER, HANDOVER

\* One call of the filter at a time within the horizon keeps the types.
LEMMA ApplyStabilityTypeOK ==
  ASSUME TypeOK,
         NEW p \in [Cells -> Action], NEW kpi \in [Cells -> KPIs], NEW t \in Time,
         ApplyStability(p, kpi, t)
  PROVE  /\ action_history' \in [Cells -> Seq(ActionRecord)]
         /\ \A c \in Cells : Len(action_history'[c]) <= history_depth
         /\ last_action_time' \in [Cells -> [Action -> Time \cup {Never}]]
         /\ current_action' \in [Cells -> Action]
         /\ current_action_start_time' \in [Cells -> Time \cup {Never}]
         /\ kpi_baseline' \in [Cells -> KPIs \cup {NoBaseline}]
         /\ oscillation_score' \in [Cells -> 0..20]
         /\ decision_info' \in [Cells -> Decision]
<1> DEFINE R(c) == CheckConstraints(c, p[c], kpi[c], t)
           rec(c) == [timestamp |-> t, action |-> p[c]]
<1>1. \A c \in Cells : R(c) \in Reasons
  BY ReasonType
<1>2. \A c \in Cells : rec(c) \in ActionRecord
  BY DEF ActionRecord
<1>3. \A c \in Cells : /\ AppendRecord(action_history[c], rec(c)) \in Seq(ActionRecord)
                       /\ Len(AppendRecord(action_history[c], rec(c))) <= history_depth
  <2> SUFFICES ASSUME NEW c \in Cells
               PROVE  /\ AppendRecord(action_history[c], rec(c)) \in Seq(ActionRecord)
                      /\ Len(AppendRecord(action_history[c], rec(c))) <= history_depth
    OBVIOUS
  <2>1. action_history[c] \in Seq(ActionRecord) /\ Len(action_history[c]) <= history_depth
    BY DEF TypeOK
  <2>2. rec(c) \in ActionRecord
    BY <1>2
  <2>3. Len(AppendRecord(action_history[c], rec(c))) \in 1..history_depth
        /\ AppendRecord(action_history[c], rec(c)) \in Seq(ActionRecord)
    <3> HIDE DEF rec
    <3> QED
      BY ONLY <2>1, <2>2, AppendRecordShape, ZenonT(30)
  <2> QED
    BY <2>3, ConfigAssumption
<1>4. action_history' \in [Cells -> Seq(ActionRecord)]
      /\ \A c \in Cells : Len(action_history'[c]) <= history_depth
  <2> HIDE DEF rec
  <2>1. action_history' = [c \in Cells |->
          IF R(c) = "accepted" THEN AppendRecord(action_history[c], rec(c))
          ELSE action_history[c]]
    BY DEF ApplyStability, rec
  <2> HIDE DEF R
  <2> QED
    BY <1>3, <2>1 DEF TypeOK
<1>5. last_action_time' \in [Cells -> [Action -> Time \cup {Never}]]
  BY DEF ApplyStability, TypeOK
<1>6. current_action' \in [Cells -> Action]
  BY DEF ApplyStability, TypeOK
<1>7. current_action_start_time' \in [Cells -> Time \cup {Never}]
  BY DEF ApplyStability, TypeOK
<1>8. kpi_baseline' \in [Cells -> KPIs \cup {NoBaseline}]
  BY DEF ApplyStability, TypeOK
<1>9. oscillation_score' \in [Cells -> 0..20]
  <2>1. \A c \in Cells : Score(oscillation_score[c], R(c)) \in 0..20
    BY <1>1, ScoreType DEF TypeOK
  <2> QED
    BY <2>1 DEF ApplyStability
<1>10. decision_info' \in [Cells -> Decision]
  <2>1. decision_info' = [c \in Cells |->
          [proposed |-> p[c],
           final    |-> IF R(c) = "accepted" THEN p[c] ELSE current_action[c],
           reason   |-> R(c)]]
    BY DEF ApplyStability
  <2> HIDE DEF R
  <2> QED
    BY <1>1, <2>1 DEF TypeOK, Decision
<1> QED
  BY <1>4, <1>5, <1>6, <1>7, <1>8, <1>9, <1>10

LEMMA NextTypeOK == TypeOK /\ [Next]_vars => TypeOK'
<1> SUFFICES ASSUME TypeOK, [Next]_vars PROVE TypeOK'
  OBVIOUS
<1>1. CASE Decide
  <2>1. timestamp_sec + 1 \in Time
    BY <1>1, ConfigAssumption DEF Decide, TypeOK, Time
  <2>2. PICK p \in [Cells -> Action], kpi \in [Cells -> KPIs] :
          ApplyStability(p, kpi, timestamp_sec + 1)
    BY <1>1 DEF Decide
  <2> QED
    BY <1>1, <2>1, <2>2, ApplyStabilityTypeOK DEF Decide, TypeOK
<1>2. CASE Elapse
  BY <1>2, ConfigAssumption DEF Elapse, filterVars, TypeOK, Time
<1>3. CASE UNCHANGED vars
  BY <1>3 DEF vars, filterVars, TypeOK
<1> QED
  BY <1>1, <1>2, <1>3 DEF Next

\* Every variable keeps its type, and no history outgrows its deque.
THEOREM TypeCorrect == Spec => []TypeOK
  BY InitTypeOK, NextTypeOK, PTL DEF Spec

-----------------------------------------------------------------------------
(* The bounds on the history.                                              *)

Bounds == HistoryAgrees /\ CooldownSpacing /\ MinimumHold /\ NoBarredReversal
IInv == TypeOK /\ Bounds

\* The part of Bounds that speaks of one history only.
HistoryBounds(h) ==
  /\ \A i, j \in 1..Len(h) : i < j => h[i].timestamp < h[j].timestamp
  /\ \A i, j \in 1..Len(h) :
       i < j /\ h[i].action = h[j].action
         => h[j].timestamp - h[i].timestamp >= GetCooldown(h[i].action)
  /\ \A i \in 1..(Len(h) - 1) :
       /\ h[i].action # BALANCE
       /\ h[i].action # h[i + 1].action
       => h[i + 1].timestamp - h[i].timestamp >= min_action_duration
  /\ \A i \in 1..(Len(h) - 1) : <<h[i].action, h[i + 1].action>> \notin BarredReversals

\* The part of Bounds that speaks of one cell.
CellBounds(c) ==
  /\ History(c) = <<>> => current_action[c] = BALANCE
  /\ History(c) # <<>> =>
       /\ History(c)[Len(History(c))].action = current_action[c]
       /\ History(c)[Len(History(c))].timestamp = current_action_start_time[c]
  /\ \A i \in 1..Len(History(c)) :
       /\ History(c)[i].timestamp <= timestamp_sec
       /\ last_action_time[c][History(c)[i].action] # Never
       /\ History(c)[i].timestamp <= last_action_time[c][History(c)[i].action]
  /\ HistoryBounds(History(c))

LEMMA BoundsPerCell ==
  /\ Bounds <=> \A c \in Cells : CellBounds(c)
  /\ Bounds' <=> \A c \in Cells : CellBounds(c)'
<1>1. Bounds <=> \A c \in Cells : CellBounds(c)
  BY Zenon DEF Bounds, HistoryAgrees, CooldownSpacing, MinimumHold, NoBarredReversal, CellBounds,
     HistoryBounds
<1>2. Bounds' <=> \A c \in Cells : CellBounds(c)'
  BY Zenon DEF Bounds, HistoryAgrees, CooldownSpacing, MinimumHold, NoBarredReversal, CellBounds,
     HistoryBounds
<1> QED
  BY <1>1, <1>2

LEMMA InitBounds == Init => Bounds
<1> SUFFICES ASSUME Init, NEW c \in Cells PROVE CellBounds(c)
  BY BoundsPerCell
<1>1. History(c) = <<>> /\ current_action[c] = BALANCE
  BY DEF Init, History
<1> QED
  BY <1>1 DEF CellBounds, HistoryBounds

\* What acceptance implies: the proposal's cooldown and the minimum duration have
\* run out, and the succession is not a barred one.
LEMMA AcceptedConstraints ==
  ASSUME TypeOK, NEW c \in Cells, NEW p \in Action, NEW kpi \in KPIs, NEW t \in Time,
         CheckConstraints(c, p, kpi, t) = "accepted"
  PROVE  /\ ~Cooling(c, p, t)
         /\ p # current_action[c] => ~ActionTooShort(c, t)
         /\ <<current_action[c], p>> \notin BarredReversals
<1>1. ~Cooling(c, p, t) /\ (p # current_action[c] => ~ActionTooShort(c, t))
  BY DEF CheckConstraints
<1>2. p # current_action[c] => ~ReversalTooCostly(c, p, kpi)
  BY DEF CheckConstraints
<1>3. <<current_action[c], p>> \in BarredReversals
        => p # current_action[c] /\ ReversalTooCostly(c, p, kpi)
  BY ConfigAssumption DEF BarredReversals, ReversalTooCostly, IsReversal, Reversals,
     EstimateBenefit, BALANCE, INCREASE_POWER, REDUCE_POWER, HANDOVER
<1> QED
  BY <1>1, <1>2, <1>3

\* A cell that gets a new imposition keeps its bounds.
LEMMA AcceptKeepsBounds ==
  ASSUME TypeOK, NEW c \in Cells, CellBounds(c),
         NEW p \in Action, NEW t, t = timestamp_sec + 1, t \in Time,
         ~Cooling(c, p, t),
         p # current_action[c] => ~ActionTooShort(c, t),
         <<current_action[c], p>> \notin BarredReversals,
         timestamp_sec' = t,
         action_history'[c] =
           AppendRecord(action_history[c], [timestamp |-> t, action |-> p]),
         last_action_time'[c] = [last_action_time[c] EXCEPT ![p] = t],
         current_action'[c] = p,
         current_action_start_time'[c] = t
  PROVE  CellBounds(c)'
<1> DEFINE h == action_history[c]
           r == [timestamp |-> t, action |-> p]
           n == AppendRecord(h, r)
           last == last_action_time[c]
<1>1. h \in Seq(ActionRecord) /\ Len(h) <= history_depth /\ r \in ActionRecord
  BY DEF TypeOK, ActionRecord
<1>2. /\ n \in Seq(ActionRecord)
      /\ Len(n) \in 1..history_depth
      /\ n[Len(n)] = r
      /\ \E k \in {0, 1} :
           /\ Len(n) = Len(h) + 1 - k
           /\ \A i \in 1..(Len(n) - 1) : n[i] = h[i + k] /\ i + k \in 1..Len(h)
  <2> HIDE DEF h, r
  <2> QED
    BY ONLY <1>1, AppendRecordShape, ZenonT(30)
<1> HIDE DEF n
<1>3. PICK k \in {0, 1} :
        /\ Len(n) = Len(h) + 1 - k
        /\ \A i \in 1..(Len(n) - 1) : n[i] = h[i + k] /\ i + k \in 1..Len(h)
  BY <1>2
<1>4. /\ last \in [Action -> Time \cup {Never}]
      /\ \A a \in Action : last'[a] = IF a = p THEN t ELSE last[a]
      /\ timestamp_sec \in Nat /\ t \in Nat /\ Never \notin Nat /\ Never \in Int
      /\ Time \subseteq Nat
  BY DEF TypeOK, Time, Never
<1>5. \A i \in 1..Len(h) :
        /\ h[i].action \in Action /\ h[i].timestamp \in Nat
        /\ h[i].timestamp <= timestamp_sec
        /\ last[h[i].action] # Never
        /\ h[i].timestamp <= last[h[i].action]
  BY <1>1, RecordType DEF CellBounds, History
<1>6. \A i \in 1..Len(h) : h[i].action = p => t - h[i].timestamp >= GetCooldown(p)
  <2> SUFFICES ASSUME NEW i \in 1..Len(h), h[i].action = p
               PROVE  t - h[i].timestamp >= GetCooldown(p)
    OBVIOUS
  <2>1. last[p] # Never /\ h[i].timestamp <= last[p] /\ h[i].timestamp \in Nat
    BY <1>5
  <2>2. t - last[p] >= GetCooldown(p) /\ last[p] \in Nat
    <3>1. last[p] \in Nat
      BY <2>1, <1>4
    <3>2. Elapsed(c, p, t) = t - last[p]
      BY <2>1 DEF Elapsed
    <3> QED
      BY <3>1, <3>2, <1>4, CooldownType DEF Cooling
  <2> QED
    BY <2>1, <2>2, <1>4, CooldownType
<1>7. Len(h) >= 1 =>
        /\ h[Len(h)].action = current_action[c]
        /\ h[Len(h)].timestamp = current_action_start_time[c]
  BY <1>1 DEF CellBounds, History
<1>8. Len(h) >= 1 /\ h[Len(h)].action # BALANCE /\ h[Len(h)].action # p
        => t - h[Len(h)].timestamp >= min_action_duration
  <2> SUFFICES ASSUME Len(h) >= 1, h[Len(h)].action # BALANCE, h[Len(h)].action # p
               PROVE  t - h[Len(h)].timestamp >= min_action_duration
    OBVIOUS
  <2>1. /\ current_action[c] # BALANCE /\ current_action[c] # p
        /\ h[Len(h)].timestamp = current_action_start_time[c]
    BY <1>7
  <2>2. Len(h) \in 1..Len(h)
    BY <1>1
  <2>3. h[Len(h)].timestamp \in Nat
    BY <1>5, <2>2
  <2>4. ~ (t - current_action_start_time[c] < min_action_duration)
    BY <2>1, <2>3, <1>4 DEF ActionTooShort
  <2> QED
    BY <2>1, <2>3, <2>4, <1>4, ConfigAssumption
<1>14. HistoryBounds(h)
  BY DEF CellBounds, History
<1>9. n[Len(n)].action = p /\ n[Len(n)].timestamp = t
  BY <1>2
<1>10. /\ n # <<>>
       /\ \A i \in 1..Len(n) :
            /\ n[i].timestamp <= t
            /\ last'[n[i].action] # Never
            /\ n[i].timestamp <= last'[n[i].action]
  <2>1. n # <<>>
    BY <1>2
  <2>2. ASSUME NEW i \in 1..Len(n)
        PROVE  /\ n[i].timestamp <= t
               /\ last'[n[i].action] # Never
               /\ n[i].timestamp <= last'[n[i].action]
    <3>1. CASE i = Len(n)
      BY <3>1, <1>4, <1>9
    <3>2. CASE i # Len(n)
      <4>1. n[i] = h[i + k] /\ i + k \in 1..Len(h)
        BY <3>2, <1>2, <1>3
      <4> QED
        BY <4>1, <1>4, <1>5
    <3> QED
      BY <3>1, <3>2
  <2> QED
    BY <2>1, <2>2
<1>11. \A i, j \in 1..Len(n) : i < j =>
         /\ n[i].timestamp < n[j].timestamp
         /\ n[i].action = n[j].action
              => n[j].timestamp - n[i].timestamp >= GetCooldown(n[i].action)
  <2> SUFFICES ASSUME NEW i \in 1..Len(n), NEW j \in 1..Len(n), i < j
               PROVE  /\ n[i].timestamp < n[j].timestamp
                      /\ n[i].action = n[j].action
                           => n[j].timestamp - n[i].timestamp >= GetCooldown(n[i].action)
    OBVIOUS
  <2>1. n[i] = h[i + k] /\ i + k \in 1..Len(h)
    BY <1>2, <1>3
  <2>2. CASE j = Len(n)
    BY <2>1, <2>2, <1>4, <1>5, <1>6, <1>9
  <2>3. CASE j # Len(n)
    <3>1. j \in 1..(Len(n) - 1)
      BY <2>3, <1>2
    <3>2. n[j] = h[j + k] /\ j + k \in 1..Len(h)
      BY <3>1, <1>3
    <3>3. i + k < j + k
      BY <1>2
    <3>4. /\ h[i + k].timestamp < h[j + k].timestamp
          /\ h[i + k].action = h[j + k].action
               => h[j + k].timestamp - h[i + k].timestamp >= GetCooldown(h[i + k].action)
      <4> HIDE DEF h
      <4> QED
        BY ONLY <1>14, <2>1, <3>2, <3>3 DEF HistoryBounds
    <3> QED
      BY ONLY <2>1, <3>2, <3>4
  <2> QED
    BY <2>2, <2>3
<1>12. \A i \in 1..(Len(n) - 1) :
         /\ n[i].action # BALANCE /\ n[i].action # n[i + 1].action
              => n[i + 1].timestamp - n[i].timestamp >= min_action_duration
         /\ <<n[i].action, n[i + 1].action>> \notin BarredReversals
  <2> SUFFICES ASSUME NEW i \in 1..(Len(n) - 1)
               PROVE  /\ n[i].action # BALANCE /\ n[i].action # n[i + 1].action
                           => n[i + 1].timestamp - n[i].timestamp >= min_action_duration
                      /\ <<n[i].action, n[i + 1].action>> \notin BarredReversals
    OBVIOUS
  <2>1. n[i] = h[i + k] /\ i + k \in 1..Len(h)
    BY <1>2, <1>3
  <2>2. CASE i + 1 = Len(n)
    <3>1. i + k = Len(h)
      BY <2>2, <1>1, <1>2, <1>3
    <3>2. n[i + 1].action = p /\ n[i + 1].timestamp = t
      BY <2>2, <1>9
    <3> QED
      BY <2>1, <3>1, <3>2, <1>7, <1>8
  <2>3. CASE i + 1 # Len(n)
    <3>1. i + 1 \in 1..(Len(n) - 1)
      BY <2>3, <1>2
    <3>2. n[i + 1] = h[(i + 1) + k] /\ (i + 1) + k \in 1..Len(h)
      BY <3>1, <1>3
    <3>3. (i + 1) + k = (i + k) + 1 /\ i + k \in 1..(Len(h) - 1)
      BY <2>1, <3>2, <1>1
    <3> HIDE DEF h
    <3> QED
      BY ONLY <1>14, <2>1, <3>2, <3>3 DEF HistoryBounds
  <2> QED
    BY <2>2, <2>3
<1>13. History(c)' = n /\ last_action_time'[c] = last'
  BY DEF History, n
<1> HIDE DEF last
<1> QED
  BY <1>9, <1>10, <1>11, <1>12, <1>13 DEF CellBounds, HistoryBounds

\* A cell whose proposal is refused, or that no request reached, keeps its bounds.
LEMMA HoldKeepsBounds ==
  ASSUME TypeOK, NEW c \in Cells, CellBounds(c),
         timestamp_sec' \in Nat, timestamp_sec <= timestamp_sec',
         action_history'[c] = action_history[c],
         last_action_time'[c] = last_action_time[c],
         current_action'[c] = current_action[c],
         current_action_start_time'[c] = current_action_start_time[c]
  PROVE  CellBounds(c)'
<1>1. \A i \in 1..Len(History(c)) : History(c)[i].timestamp \in Nat /\ timestamp_sec \in Nat
  <2>1. History(c) \in Seq(ActionRecord)
    BY DEF TypeOK, History
  <2>2. timestamp_sec \in Nat
    BY ConfigAssumption DEF TypeOK, Time
  <2> HIDE DEF History
  <2> QED
    BY ONLY <2>1, <2>2, RecordType
<1>2. History(c)' = History(c)
  BY DEF History
<1>3. HistoryBounds(History(c))'
  BY <1>2, Zenon DEF CellBounds, HistoryBounds
<1>4. \A i \in 1..Len(History(c)) : History(c)[i].timestamp <= timestamp_sec'
  BY <1>1 DEF CellBounds
<1> HIDE DEF History, HistoryBounds
<1> QED
  BY <1>2, <1>3, <1>4 DEF CellBounds

LEMMA NextBounds == IInv /\ [Next]_vars => Bounds'
<1> SUFFICES ASSUME IInv, [Next]_vars, NEW c \in Cells PROVE CellBounds(c)'
  BY BoundsPerCell
<1> USE DEF IInv
<1>1. CellBounds(c) /\ timestamp_sec \in Nat
  BY BoundsPerCell DEF TypeOK, Time
<1>2. CASE Decide
  <2>1. PICK p \in [Cells -> Action], kpi \in [Cells -> KPIs] :
          ApplyStability(p, kpi, timestamp_sec + 1)
    BY <1>2 DEF Decide
  <2>2. timestamp_sec + 1 \in Time /\ timestamp_sec' = timestamp_sec + 1
    BY <1>1, <1>2, ConfigAssumption DEF Decide, Time
  <2>3. CASE CheckConstraints(c, p[c], kpi[c], timestamp_sec + 1) = "accepted"
    <3>1. /\ ~Cooling(c, p[c], timestamp_sec + 1)
          /\ p[c] # current_action[c] => ~ActionTooShort(c, timestamp_sec + 1)
          /\ <<current_action[c], p[c]>> \notin BarredReversals
      BY <2>2, <2>3, AcceptedConstraints
    <3>2. /\ action_history'[c] = AppendRecord(action_history[c],
                [timestamp |-> timestamp_sec + 1, action |-> p[c]])
          /\ last_action_time'[c] = [last_action_time[c] EXCEPT ![p[c]] = timestamp_sec + 1]
          /\ current_action'[c] = p[c]
          /\ current_action_start_time'[c] = timestamp_sec + 1
      BY <2>1, <2>3 DEF ApplyStability
    <3> QED
      BY <1>1, <2>2, <3>1, <3>2, AcceptKeepsBounds
  <2>4. CASE CheckConstraints(c, p[c], kpi[c], timestamp_sec + 1) # "accepted"
    <3>1. /\ action_history'[c] = action_history[c]
          /\ last_action_time'[c] = last_action_time[c]
          /\ current_action'[c] = current_action[c]
          /\ current_action_start_time'[c] = current_action_start_time[c]
      BY <2>1, <2>4 DEF ApplyStability
    <3> QED
      BY <1>1, <2>2, <3>1, HoldKeepsBounds
  <2> QED
    BY <2>3, <2>4
<1>3. CASE Elapse
  BY <1>1, <1>3, HoldKeepsBounds DEF Elapse, filterVars
<1>4. CASE UNCHANGED vars
  BY <1>1, <1>4, HoldKeepsBounds DEF vars, filterVars
<1> QED
  BY <1>2, <1>3, <1>4 DEF Next

\* The inductive invariant of the filter.
THEOREM Inductive == Spec => []IInv
<1>1. Init => IInv
  BY InitTypeOK, InitBounds DEF IInv
<1>2. IInv /\ [Next]_vars => IInv'
  BY NextTypeOK, NextBounds DEF IInv
<1> QED
  BY <1>1, <1>2, PTL DEF Spec

\* The deque, last_action_time and the action in force always agree.
THEOREM HistoryAlwaysAgrees == Spec => []HistoryAgrees
  BY Inductive, PTL DEF IInv, Bounds

\* No action is imposed twice on a cell within its cooldown.
THEOREM CooldownsRespected == Spec => []CooldownSpacing
  BY Inductive, PTL DEF IInv, Bounds

\* No action but BALANCE is replaced before min_action_duration.
THEOREM MinimumHoldRespected == Spec => []MinimumHold
  BY Inductive, PTL DEF IInv, Bounds

\* HANDOVER never gives way to BALANCE, nor INCREASE_POWER to REDUCE_POWER.
THEOREM ReversalsBarred == Spec => []NoBarredReversal
  BY Inductive, PTL DEF IInv, Bounds

-----------------------------------------------------------------------------
(* The churn bound follows from the others.                                *)

LEMMA ChurnFromBounds == ChurnConfig /\ IInv => ChurnBound
<1> SUFFICES ASSUME ChurnConfig, IInv, NEW c \in Cells,
                    NEW i \in 1..(Len(History(c)) - 3)
             PROVE  History(c)[i + 3].timestamp - History(c)[i].timestamp
                      >= min_action_duration
  BY DEF ChurnBound
<1> DEFINE h == History(c)
           gap(j) == h[j + 1].timestamp - h[j].timestamp
<1>1. h \in Seq(ActionRecord) /\ Len(h) \in Nat
  BY DEF IInv, TypeOK, History
<1>2. \A j \in 1..Len(h) : h[j].timestamp \in Nat /\ h[j].action \in Action
  BY <1>1, RecordType
<1>3. HistoryBounds(h)
  BY BoundsPerCell DEF IInv, CellBounds
<1>4. \A j \in 1..(Len(h) - 1) :
        /\ gap(j) \in Int /\ gap(j) > 0
        /\ h[j].action = h[j + 1].action => gap(j) >= GetCooldown(h[j].action)
        /\ h[j].action # BALANCE => gap(j) >= min_action_duration
  <2> SUFFICES ASSUME NEW j \in 1..(Len(h) - 1)
               PROVE  /\ gap(j) \in Int /\ gap(j) > 0
                      /\ h[j].action = h[j + 1].action => gap(j) >= GetCooldown(h[j].action)
                      /\ h[j].action # BALANCE => gap(j) >= min_action_duration
    OBVIOUS
  <2> HIDE DEF h
  <2>1. j \in 1..Len(h) /\ j + 1 \in 1..Len(h) /\ j < j + 1
    BY <1>1
  <2>2. gap(j) \in Int /\ gap(j) > 0
    BY <2>1, <1>2, <1>3 DEF HistoryBounds
  <2>3. h[j].action = h[j + 1].action => gap(j) >= GetCooldown(h[j].action)
    BY <2>1, <1>3 DEF HistoryBounds
  <2>4. h[j].action # BALANCE /\ h[j].action # h[j + 1].action => gap(j) >= min_action_duration
    BY <1>3 DEF HistoryBounds
  <2>5. h[j].action # BALANCE => GetCooldown(h[j].action) >= min_action_duration
    BY <2>1, <1>2 DEF ChurnConfig, GetCooldown, Action, BALANCE, INCREASE_POWER, REDUCE_POWER, HANDOVER
  <2> QED
    BY <2>2, <2>3, <2>4, <2>5, <2>1, <1>2, CooldownType, ConfigAssumption
<1>5. i \in 1..(Len(h) - 1) /\ i + 1 \in 1..(Len(h) - 1) /\ i + 2 \in 1..(Len(h) - 1)
  BY <1>1
<1>6. (i + 1) + 1 = i + 2 /\ (i + 2) + 1 = i + 3
  OBVIOUS
<1>7. GetCooldown(BALANCE) = cooldown_balance
  BY DEF GetCooldown, BALANCE, INCREASE_POWER, REDUCE_POWER
<1>8. gap(i) + gap(i + 1) + gap(i + 2) = h[i + 3].timestamp - h[i].timestamp
  <2> HIDE DEF h
  <2> DEFINE t0 == h[i].timestamp
             t1 == h[i + 1].timestamp
             t2 == h[i + 2].timestamp
             t3 == h[i + 3].timestamp
  <2>1. gap(i) = t1 - t0 /\ gap(i + 1) = t2 - t1 /\ gap(i + 2) = t3 - t2
    BY <1>6
  <2>2. t0 \in Nat /\ t1 \in Nat /\ t2 \in Nat /\ t3 \in Nat
    BY <1>1, <1>2, <1>5
  <2> HIDE DEF gap, t0, t1, t2, t3
  <2>3. gap(i) + gap(i + 1) + gap(i + 2) = t3 - t0
    BY ONLY <2>1, <2>2
  <2> QED
    BY <2>3 DEF t0, t3
<1>9. \/ gap(i) >= min_action_duration
      \/ gap(i + 1) >= min_action_duration
      \/ gap(i + 2) >= min_action_duration
      \/ gap(i) >= cooldown_balance /\ gap(i + 1) >= cooldown_balance
  <2>1. CASE h[i].action = BALANCE /\ h[i + 1].action = BALANCE /\ h[i + 2].action = BALANCE
    <3>1. gap(i) >= cooldown_balance
      BY <2>1, <1>4, <1>5, <1>7
    <3>2. gap(i + 1) >= cooldown_balance
      BY <2>1, <1>4, <1>5, <1>6, <1>7
    <3> QED
      BY <3>1, <3>2
  <2>2. CASE ~(h[i].action = BALANCE /\ h[i + 1].action = BALANCE /\ h[i + 2].action = BALANCE)
    <3> HIDE DEF gap, h
    <3> QED
      BY <2>2, <1>4, <1>5
  <2> QED
    BY <2>1, <2>2
<1>10. gap(i) \in Int /\ gap(i) > 0 /\ gap(i + 1) \in Int /\ gap(i + 1) > 0
       /\ gap(i + 2) \in Int /\ gap(i + 2) > 0
  BY <1>4, <1>5
<1> HIDE DEF gap
<1> QED
  BY <1>8, <1>9, <1>10, ConfigAssumption DEF ChurnConfig

\* Four impositions on a cell never fit into min_action_duration.
THEOREM ChurnBounded == ASSUME ChurnConfig PROVE Spec => []ChurnBound
<1>1. IInv => ChurnBound
  BY ChurnFromBounds
<1> QED
  BY <1>1, Inductive, PTL

-----------------------------------------------------------------------------
(* The filter implements ActionPacer.                                      *)

LEMMA InitRefines == Init => Pacer!Init
  BY DEF Init, Pacer!Init

\* An accepted proposal is an imposition the contract allows.
LEMMA AcceptedMayBeImposed ==
  ASSUME IInv, NEW c \in Cells, NEW p \in Action, NEW kpi \in KPIs,
         timestamp_sec + 1 \in Time,
         CheckConstraints(c, p, kpi, timestamp_sec + 1) = "accepted"
  PROVE  Pacer!MayImpose(c, p, timestamp_sec + 1)
<1> DEFINE t == timestamp_sec + 1
<1>0. TypeOK /\ CellBounds(c)
  BY BoundsPerCell DEF IInv
<1>1. /\ ~Cooling(c, p, t)
      /\ p # current_action[c] => ~ActionTooShort(c, t)
      /\ <<current_action[c], p>> \notin BarredReversals
  BY <1>0, AcceptedConstraints
<1>2. /\ last_action_time[c][p] \in Time \cup {Never}
      /\ current_action_start_time[c] \in Time \cup {Never}
      /\ t \in Nat /\ Time \subseteq Nat /\ GetCooldown(p) \in Nat
  BY <1>0, CooldownType, ConfigAssumption DEF TypeOK, Time
<1> HIDE DEF t
<1>3. last_action_time[c][p] # Never => t - last_action_time[c][p] >= GetCooldown(p)
  <2>1. last_action_time[c][p] # Never => last_action_time[c][p] \in Nat
    BY <1>2
  <2>2. last_action_time[c][p] # Never => Elapsed(c, p, t) = t - last_action_time[c][p]
    BY DEF Elapsed
  <2> QED
    BY <1>1, <1>2, <2>1, <2>2 DEF Cooling
<1>4. current_action[c] # BALANCE => current_action_start_time[c] # Never
  <2>1. History(c) \in Seq(ActionRecord)
    BY <1>0 DEF TypeOK, History
  <2>2. current_action[c] # BALANCE => Len(History(c)) \in 1..Len(History(c))
    BY <1>0, <2>1 DEF CellBounds
  <2> QED
    BY <1>0, <2>1, <2>2, RecordType DEF CellBounds, Never
<1>5. p # current_action[c] /\ current_action[c] # BALANCE
        => t - current_action_start_time[c] >= min_action_duration
  <2>1. current_action_start_time[c] # Never => current_action_start_time[c] \in Nat
    BY <1>2
  <2> QED
    BY <1>1, <1>2, <1>4, <2>1, ConfigAssumption DEF ActionTooShort
<1> QED
  BY <1>1, <1>3, <1>5 DEF Pacer!MayImpose, t

LEMMA NextRefines == IInv /\ [Next]_vars => [Pacer!Next]_(Pacer!pacerVars)
<1> SUFFICES ASSUME IInv, [Next]_vars PROVE [Pacer!Next]_(Pacer!pacerVars)
  OBVIOUS
<1>1. CASE Decide
  <2>1. PICK p \in [Cells -> Action], kpi \in [Cells -> KPIs] :
          ApplyStability(p, kpi, timestamp_sec + 1)
    BY <1>1 DEF Decide
  <2>2. timestamp_sec + 1 \in Time
    BY <1>1, ConfigAssumption DEF Decide, IInv, TypeOK, Time
  <2> DEFINE S == {c \in Cells :
                     CheckConstraints(c, p[c], kpi[c], timestamp_sec + 1) = "accepted"}
  <2>3. \A c \in S : Pacer!MayImpose(c, p[c], timestamp_sec + 1)
    BY <2>2, AcceptedMayBeImposed
  <2>4. Pacer!Impose(S, p)
    BY <2>1, <2>3 DEF ApplyStability, Pacer!Impose
  <2>5. S \in SUBSET Cells
    OBVIOUS
  <2> HIDE DEF S
  <2> QED
    BY <1>1, <2>4, <2>5 DEF Decide, Pacer!Next
<1>2. CASE Elapse
  <2>1. Pacer!Impose({}, [c \in Cells |-> BALANCE])
    BY <1>2 DEF Elapse, filterVars, Pacer!Impose, IInv, TypeOK
  <2>2. [c \in Cells |-> BALANCE] \in [Cells -> Action]
    BY DEF Action
  <2> QED
    BY <1>2, <2>1, <2>2 DEF Elapse, Pacer!Next
<1>3. CASE UNCHANGED vars
  BY <1>3 DEF vars, filterVars, Pacer!pacerVars
<1> QED
  BY <1>1, <1>2, <1>3 DEF Next

\* The filter keeps the pacing contract, for every configuration.
THEOREM FilterImplementsPacer == Spec => ImplementsPacer
  BY InitRefines, NextRefines, Inductive, PTL DEF Spec, ImplementsPacer, Pacer!Spec

-----------------------------------------------------------------------------
(* A predictor that insists.                                               *)

\* An action never imposed on a cell counts as imposed 999 s ago, so a longer
\* cooldown would bar it for good. StabilityConfig has 60 s at most.
CooldownsEnd == \A a \in Action : GetCooldown(a) <= 999

\* The types of the history variables: a cell has been called since its run of one
\* proposal began.
HistoryTypes ==
  /\ last_call \in Time \cup {Never}
  /\ last_call <= timestamp_sec
  /\ held_since \in [Cells -> Time \cup {Never}]
  /\ last_call # Never => \A c \in Cells : held_since[c] # Never

\* Nothing was imposed in the future.
PastOnly ==
  \A c \in Cells :
    /\ current_action_start_time[c] <= timestamp_sec
    /\ \A a \in Action : last_action_time[c][a] <= timestamp_sec

\* While a proposal is refused call after call, neither it nor anything else is
\* imposed: both timers started before the run of that proposal.
TimersPredate ==
  \A c \in Cells :
    Refused(c) =>
      /\ current_action_start_time[c] < held_since[c]
      /\ last_action_time[c][decision_info[c].proposed] < held_since[c]

\* The inductive invariant.
ResponseInv == TypeOK /\ HistoryTypes /\ PastOnly /\ TimersPredate /\ InsistenceWins

-----------------------------------------------------------------------------
\* Times are integers, and the one before all others is less than each.
LEMMA TimesOrdered ==
  /\ Time \subseteq Nat /\ Never \in Int /\ Never \notin Nat
  /\ \A t \in Time : Never < t
BY ConfigAssumption DEF Time, Never

\* The timers of a cell show times.
LEMMA TimersType ==
  ASSUME TypeOK, NEW c \in Cells
  PROVE  /\ current_action_start_time[c] \in Int
         /\ \A a \in Action : last_action_time[c][a] \in Int
<1>1. Time \cup {Never} \subseteq Int
  BY TimesOrdered
<1>2. /\ current_action_start_time[c] \in Time \cup {Never}
      /\ last_action_time[c] \in [Action -> Time \cup {Never}]
  BY DEF TypeOK
<1> QED
  BY <1>1, <1>2

\* The history variables only observe the filter.
LEMMA ResponseIsFilter == ResponseSpec => Spec
<1>1. ResponseInit => Init
  BY DEF ResponseInit
<1>2. [ResponseNext]_responseVars => [Next]_vars
  BY DEF ResponseNext, ObservedDecide, Decide, Next, responseVars
<1> QED
  BY <1>1, <1>2, PTL DEF ResponseSpec, Spec

\* What a call decides for one cell: it imposes the proposal, or leaves the action
\* in force and both of its timers alone.
LEMMA CellDecision ==
  ASSUME TypeOK, NEW c \in Cells, NEW p \in [Cells -> Action], NEW kpi \in [Cells -> KPIs],
         NEW t, ApplyStability(p, kpi, t)
  PROVE  /\ decision_info'[c].proposed = p[c]
         /\ \/ current_action'[c] = p[c]
            \/ /\ CheckConstraints(c, p[c], kpi[c], t) # "accepted"
               /\ current_action'[c] = current_action[c]
               /\ current_action_start_time'[c] = current_action_start_time[c]
               /\ last_action_time'[c] = last_action_time[c]
BY DEF ApplyStability

\* What refuses a proposal to change the action in force.
LEMMA RefusalReasons ==
  ASSUME NEW c, NEW p, NEW kpi, NEW t, p # current_action[c],
         CheckConstraints(c, p, kpi, t) # "accepted"
  PROVE  \/ ReversalTooCostly(c, p, kpi)
         \/ ~PassesHysteresis(c, p, kpi)
         \/ ActionTooShort(c, t)
         \/ Cooling(c, p, t)
BY DEF CheckConstraints

\* A timer that started before the run of a proposal has run out when the run has
\* lasted for the longest of them.
LEMMA TimersRunOut ==
  ASSUME CooldownsEnd, TypeOK, NEW c \in Cells, NEW p \in Action, NEW t \in Time,
         NEW since \in Time, t - since >= Patience(p),
         current_action_start_time[c] < since, last_action_time[c][p] < since
  PROVE  ~ActionTooShort(c, t) /\ ~Cooling(c, p, t)
<1>1. /\ GetCooldown(p) \in Nat /\ min_action_duration \in Nat
      /\ GetCooldown(p) <= Patience(p) /\ min_action_duration <= Patience(p)
      /\ Patience(p) \in Nat
  BY CooldownType, ConfigAssumption DEF Patience
<1>2. t \in Nat /\ since \in Nat
  BY TimesOrdered
<1>3. ~ActionTooShort(c, t)
  <2>1. t - current_action_start_time[c] > min_action_duration
    BY <1>1, <1>2, TimersType
  <2> QED
    BY <1>1, <1>2, <2>1, TimersType DEF ActionTooShort
<1>4. ~Cooling(c, p, t)
  <2>1. last_action_time[c][p] \in Time \cup {Never}
    BY DEF TypeOK
  <2>2. CASE last_action_time[c][p] = Never
    <3>1. Elapsed(c, p, t) = 999 /\ GetCooldown(p) <= 999
      BY <2>2 DEF Elapsed, CooldownsEnd
    <3> QED
      BY <1>1, <3>1 DEF Cooling
  <2>3. CASE last_action_time[c][p] # Never
    <3>1. Elapsed(c, p, t) = t - last_action_time[c][p] /\ last_action_time[c][p] \in Nat
      BY <2>1, <2>3, TimesOrdered DEF Elapsed
    <3> QED
      BY <1>1, <1>2, <3>1 DEF Cooling
  <2> QED
    BY <2>2, <2>3
<1> QED
  BY <1>3, <1>4

-----------------------------------------------------------------------------
\* Nothing has been called or imposed at first.
LEMMA ResponseInvInit == ResponseInit => ResponseInv
<1> SUFFICES ASSUME ResponseInit PROVE ResponseInv
  OBVIOUS
<1>1. TypeOK /\ Init
  BY InitTypeOK DEF ResponseInit
<1>2. timestamp_sec = 0 /\ last_call = Never
  BY <1>1 DEF ResponseInit, Init
<1>3. HistoryTypes
  BY <1>2 DEF ResponseInit, HistoryTypes, Never
<1>4. PastOnly
  <2>1. \A c \in Cells : /\ current_action_start_time[c] = Never
                         /\ \A a \in Action : last_action_time[c][a] = Never
    BY <1>1 DEF Init
  <2>2. Never <= 0
    BY DEF Never
  <2> QED
    BY <1>2, <2>1, <2>2 DEF PastOnly
<1>5. TimersPredate /\ InsistenceWins
  BY <1>2 DEF TimersPredate, InsistenceWins, Refused
<1> QED
  BY <1>1, <1>3, <1>4, <1>5 DEF ResponseInv

\* A request that does not reach the filter changes the clock only.
LEMMA ElapseKeepsInv ==
  ASSUME ResponseInv, TypeOK', UNCHANGED <<filterVars, historyVars>>,
         timestamp_sec' >= timestamp_sec
  PROVE  ResponseInv'
<1>1. timestamp_sec \in Nat /\ timestamp_sec' \in Nat
  BY TimesOrdered DEF ResponseInv, TypeOK
<1>2. HistoryTypes'
  BY <1>1, TimesOrdered DEF ResponseInv, HistoryTypes, historyVars
<1>3. PastOnly'
  <2>1. \A c \in Cells : /\ current_action_start_time[c] \in Int
                         /\ \A a \in Action : last_action_time[c][a] \in Int
    BY TimersType DEF ResponseInv
  <2> QED
    BY <1>1, <2>1 DEF ResponseInv, PastOnly, filterVars
<1>4. TimersPredate' /\ InsistenceWins'
  BY DEF ResponseInv, TimersPredate, InsistenceWins, Refused, Waited, Patience, GetCooldown,
         ReversalRefused, HysteresisRefused, ReversalTooCostly, filterVars, historyVars
<1> QED
  BY <1>2, <1>3, <1>4 DEF ResponseInv

\* A call keeps the invariant: a proposal still refused when both timers have run out is
\* refused by the reversal penalty or by the hysteresis, which look at this call's KPIs.
LEMMA DecideKeepsInv ==
  ASSUME CooldownsEnd, ResponseInv, TypeOK', ObservedDecide
  PROVE  ResponseInv'
<1> DEFINE t == timestamp_sec + 1
<1>1. PICK p \in [Cells -> Action], kpi \in [Cells -> KPIs] :
         ApplyStability(p, kpi, t) /\ last_kpi' = kpi
  BY DEF ObservedDecide
<1>2. /\ t \in Time /\ t \in Nat /\ timestamp_sec \in Nat /\ timestamp_sec' = t
      /\ last_call' = t /\ t > timestamp_sec
  BY TimesOrdered DEF ObservedDecide, ResponseInv, TypeOK
<1>3. \A c \in Cells : held_since'[c] =
         IF last_call # Never /\ decision_info'[c].proposed = decision_info[c].proposed
         THEN held_since[c] ELSE t
  BY DEF ObservedDecide
<1>4. \A c \in Cells : held_since'[c] \in Time
  BY <1>2, <1>3 DEF ResponseInv, HistoryTypes
<1>5. HistoryTypes'
  BY <1>2, <1>4, TimesOrdered DEF HistoryTypes, ObservedDecide
<1>6. PastOnly'
  <2> SUFFICES ASSUME NEW c \in Cells
               PROVE  /\ current_action_start_time'[c] <= t
                      /\ \A a \in Action : last_action_time'[c][a] <= t
    BY <1>2 DEF PastOnly
  <2>1. /\ current_action_start_time'[c] \in {current_action_start_time[c], t}
        /\ \A a \in Action : last_action_time'[c][a] \in {last_action_time[c][a], t}
    BY <1>1 DEF ApplyStability, ResponseInv, TypeOK
  <2>2. /\ current_action_start_time[c] <= timestamp_sec
        /\ current_action_start_time[c] \in Int
        /\ \A a \in Action : last_action_time[c][a] <= timestamp_sec
                             /\ last_action_time[c][a] \in Int
    BY TimersType DEF ResponseInv, PastOnly
  <2> QED
    BY <1>2, <2>1, <2>2
<1>7. ASSUME NEW c \in Cells, Refused(c)'
      PROVE  /\ decision_info'[c].proposed = p[c] /\ p[c] # current_action[c] /\ p[c] \in Action
             /\ CheckConstraints(c, p[c], kpi[c], t) # "accepted"
             /\ current_action'[c] = current_action[c]
             /\ current_action_start_time'[c] = current_action_start_time[c]
             /\ last_action_time'[c] = last_action_time[c]
             /\ current_action_start_time[c] < held_since'[c]
             /\ last_action_time[c][p[c]] < held_since'[c]
  <2>0. p[c] \in Action
    OBVIOUS
  <2>1. /\ decision_info'[c].proposed = p[c] /\ p[c] # current_action[c]
        /\ CheckConstraints(c, p[c], kpi[c], t) # "accepted"
        /\ current_action'[c] = current_action[c]
        /\ current_action_start_time'[c] = current_action_start_time[c]
        /\ last_action_time'[c] = last_action_time[c]
    BY <1>1, <1>7, CellDecision DEF Refused, ResponseInv
  <2>2. CASE last_call # Never /\ decision_info'[c].proposed = decision_info[c].proposed
    BY <1>3, <2>1, <2>2 DEF ResponseInv, TimersPredate, Refused
  <2>3. CASE ~(last_call # Never /\ decision_info'[c].proposed = decision_info[c].proposed)
    <3>1. /\ current_action_start_time[c] <= timestamp_sec
          /\ current_action_start_time[c] \in Int
          /\ last_action_time[c][p[c]] <= timestamp_sec /\ last_action_time[c][p[c]] \in Int
      BY <2>0, TimersType DEF ResponseInv, PastOnly
    <3> QED
      BY <1>2, <1>3, <2>1, <2>3, <3>1
  <2> QED
    BY <2>0, <2>1, <2>2, <2>3
<1>8. TimersPredate'
  BY <1>7 DEF TimersPredate
<1>9. InsistenceWins'
  <2> SUFFICES ASSUME NEW c \in Cells, Refused(c)',
                      (Waited(c) >= Patience(decision_info[c].proposed))'
               PROVE  (ReversalRefused(c) \/ HysteresisRefused(c))'
    BY DEF InsistenceWins
  <2>1. t - held_since'[c] >= Patience(p[c])
    BY <1>2, <1>7 DEF Waited, Patience, GetCooldown
  <2>2. ~ActionTooShort(c, t) /\ ~Cooling(c, p[c], t)
    BY <1>2, <1>4, <1>7, <2>1, TimersRunOut DEF ResponseInv
  <2>3. ReversalTooCostly(c, p[c], kpi[c]) \/ ~PassesHysteresis(c, p[c], kpi[c])
    BY <1>7, <2>2, RefusalReasons
  <2>4. CASE ReversalTooCostly(c, p[c], kpi[c])
    BY <1>1, <1>7, <2>4 DEF ReversalRefused, ReversalTooCostly
  <2>5. CASE ~PassesHysteresis(c, p[c], kpi[c])
    <3>1. /\ p[c] = BALANCE /\ kpi_baseline[c] # NoBaseline
          /\ ~Improved(kpi_baseline[c], kpi[c])
      BY <2>5 DEF PassesHysteresis
    <3>2. kpi_baseline'[c] = kpi_baseline[c]
      BY <1>1, <3>1 DEF ApplyStability, TakesBaseline
    <3> QED
      BY <1>1, <1>7, <3>1, <3>2 DEF HysteresisRefused
  <2> QED
    BY <2>3, <2>4, <2>5
<1> QED
  BY <1>5, <1>6, <1>8, <1>9 DEF ResponseInv

\* Bounded response: the filter refuses a proposal that the predictor repeats at every
\* call no longer than its cooldown and the minimum duration of the action in force
\* last, unless _check_constraints finds the reversal too costly, or no improvement,
\* in the KPIs of the latest call.
THEOREM InsistenceRewarded == ASSUME CooldownsEnd PROVE ResponseSpec => []InsistenceWins
<1>1. ResponseInv /\ [ResponseNext]_responseVars /\ TypeOK' => ResponseInv'
  <2> SUFFICES ASSUME ResponseInv, [ResponseNext]_responseVars, TypeOK' PROVE ResponseInv'
    OBVIOUS
  <2>1. timestamp_sec \in Nat
    BY TimesOrdered DEF ResponseInv, TypeOK
  <2>2. CASE ObservedDecide
    BY <2>2, DecideKeepsInv
  <2>3. CASE Elapse /\ UNCHANGED historyVars
    BY <2>1, <2>3, ElapseKeepsInv DEF Elapse
  <2>4. CASE UNCHANGED responseVars
    BY <2>1, <2>4, ElapseKeepsInv DEF responseVars, vars
  <2> QED
    BY <2>2, <2>3, <2>4 DEF ResponseNext
<1>2. ResponseInv => InsistenceWins
  BY DEF ResponseInv
<1> QED
  BY <1>1, <1>2, ResponseInvInit, ResponseIsFilter, TypeCorrect, PTL DEF ResponseSpec

=============================================================================
