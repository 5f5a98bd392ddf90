---------------------------- MODULE HandoverPolicy ----------------------------
(***************************************************************************)
(* How the predictor turns one vector into one action per cell             *)
(* (ai_engine/hybrid_predictor.py, predict) with the neighbours' loads in  *)
(* view (ai_engine/neighbor_manager.py).  What the trained model computes  *)
(* is an input: the network's anomaly score and failure probability, its   *)
(* action hint, and each cell's deviation.  Loads, losses, scores and      *)
(* probabilities are percentages, delays milliseconds, SINRs tenths of dB. *)
(***************************************************************************)
EXTENDS Integers, FiniteSets

CONSTANTS
  Situations,       (* records [load, delay, loss, sinr, ue_count, deviation] *)
  Risks,            (* records [anomaly, failure, hint] for the network       *)
  NoTarget

ASSUME InputAssumption ==
  /\ \A s \in Situations : /\ s.load \in Int /\ s.delay \in Int /\ s.loss \in Int
                           /\ s.sinr \in Int /\ s.ue_count \in Int /\ s.deviation \in Nat
  /\ \A r \in Risks : r.anomaly \in Nat /\ r.failure \in Nat /\ r.hint \in 0..3

BALANCE == 0
INCREASE_POWER == 1
REDUCE_POWER == 2
HANDOVER == 3

Cells == 1..6

\* The cells form a ring; of the proximities those of neighbours are used, and of a
\* pair one direction is in the table.
neighbors == << <<2, 6>>, <<1, 3>>, <<2, 4>>, <<3, 5>>, <<4, 6>>, <<5, 1>> >>
Neighbors(c) == {neighbors[c][1], neighbors[c][2]}
Close == {<<1, 2>>, <<1, 6>>, <<2, 3>>, <<3, 4>>, <<4, 5>>, <<5, 6>>}

VARIABLES
  kpis,             (* the situation of every cell                         *)
  risk,             (* what the model says of the network                  *)
  predicted,        (* whether predict has returned                        *)
  actions,          (* the action predicted for every cell                 *)
  targets           (* the handover target it reports with the action      *)

vars == <<kpis, risk, predicted, actions, targets>>

TypeOK ==
  /\ kpis \in [Cells -> Situations]
  /\ risk \in Risks
  /\ predicted \in BOOLEAN
  /\ actions \in [Cells -> BALANCE..HANDOVER]
  /\ \A c \in Cells : targets[c] \in Neighbors(c) \cup {NoTarget}

-----------------------------------------------------------------------------
(* The neighbour manager.  Averages are over two neighbours.               *)

SumNeighborLoad(k, c) == k[neighbors[c][1]].load + k[neighbors[c][2]].load

Least(a, b) == IF a <= b THEN a ELSE b
Greatest(a, b) == IF a >= b THEN a ELSE b

MinNeighborDelay(k, c) == Least(k[neighbors[c][1]].delay, k[neighbors[c][2]].delay)
MaxNeighborSinr(k, c) == Greatest(k[neighbors[c][1]].sinr, k[neighbors[c][2]].sinr)

\* handover_score in units of 1/10000.
HandoverScore(k, c, n) ==
  50 * (100 - k[n].load) + Least(3000, 12 * (k[n].sinr + 100))
    + 1000 - 10 * Least(100, k[n].delay) + (IF <<c, n>> \in Close THEN 900 ELSE 500)

\* Mutant: the best cell of the network, a neighbour or not.
BestCell(k, c) ==
  CHOOSE n \in Cells \ {c} :
    \A m \in Cells \ {c} : HandoverScore(k, c, n) >= HandoverScore(k, c, m)

\* The first of find_best_handover_targets: of two equals, the first in the table.
BestTarget(k, c) ==
  IF HandoverScore(k, c, neighbors[c][1]) >= HandoverScore(k, c, neighbors[c][2])
    THEN neighbors[c][1] ELSE neighbors[c][2]

WellBalanced(k) == \A c, d \in Cells : k[c].load - k[d].load < 15

\* recommend_load_rebalancing
RecommendsHandover(k, c) == ~WellBalanced(k) /\ k[c].load > 85
RecommendsAccept(k, c) == ~WellBalanced(k) /\ k[c].load < 30

-----------------------------------------------------------------------------
(* The predictor's policies.                                               *)

CellAnomaly(r, s) == (r.anomaly * (100 + s.deviation)) \div 100
CellFailure(r, s) == r.failure + s.deviation \div 10

DecideAction(anomaly, failure, hint) ==
  IF hint # BALANCE /\ failure > 55 THEN hint
  ELSE IF failure > 95 THEN HANDOVER
  ELSE IF anomaly > 150 THEN INCREASE_POWER
  ELSE IF failure > 85 /\ anomaly > 90 THEN REDUCE_POWER
  ELSE BALANCE

\* Overloaded, and the recommended target has room.
Rebalances(k, c) ==
  /\ RecommendsHandover(k, c)
  /\ k[c].load > 80 /\ k[BestTarget(k, c)].load < 72 /\ k[c].ue_count > 0

\* Mutant: an underutilized cell may hand its users over.
NeverStays(k, c, a) == FALSE

\* An underutilized cell takes users and does not hand its own over.
Stays(k, c, a) == RecommendsAccept(k, c) /\ k[c].load < 35 /\ a = HANDOVER

\* Overloaded among neighbours that are not, and about to do nothing for it.
Sheds(k, c, a) ==
  /\ 2 * k[c].load - SumNeighborLoad(k, c) > 36
  /\ k[c].load > 82
  /\ a \in {BALANCE, REDUCE_POWER}

\* _apply_load_balance_policy, with the target it reports.
ApplyLoadBalancePolicy(k, c, a) ==
  IF Rebalances(k, c) THEN [action |-> HANDOVER, target |-> BestTarget(k, c)]
  ELSE IF Stays(k, c, a) THEN [action |-> BALANCE, target |-> NoTarget]
  ELSE IF Sheds(k, c, a) THEN [action |-> HANDOVER, target |-> BestTarget(k, c)]
  ELSE [action |-> a, target |-> NoTarget]

SevereLocal(s, failure) ==
  \/ failure > 97
  \/ s.load > 92 /\ (s.delay > 120 \/ s.sinr < 25 \/ s.loss > 8)

\* Mutant: a neighbour as good as the cell itself will do.
ViableOnTies(k, c) ==
  /\ SumNeighborLoad(k, c) < 170
  /\ MaxNeighborSinr(k, c) >= k[c].sinr
  /\ MinNeighborDelay(k, c) <= k[c].delay

\* Better signal and less delay, if not at the same neighbour.
ViableNeighbor(k, c) ==
  /\ SumNeighborLoad(k, c) < 170
  /\ MaxNeighborSinr(k, c) > k[c].sinr
  /\ MinNeighborDelay(k, c) < k[c].delay

\* _apply_neighbor_safety_policy
ApplySafetyPolicy(k, c, a, anomaly, failure) ==
  LET s == k[c] IN
  IF a = HANDOVER /\ ~(SevereLocal(s, failure) /\ ViableNeighbor(k, c))
    THEN IF s.sinr < 50 \/ anomaly > 140 THEN INCREASE_POWER
         ELSE IF s.load > 85 \/ s.delay > 80 THEN REDUCE_POWER
         ELSE BALANCE
  ELSE IF a = REDUCE_POWER /\ (s.sinr < 40 \/ s.delay > 100) THEN INCREASE_POWER
  ELSE a

-----------------------------------------------------------------------------
Init ==
  /\ kpis \in [Cells -> Situations]
  /\ risk \in Risks
  /\ predicted = FALSE
  /\ actions = [c \in Cells |-> BALANCE]
  /\ targets = [c \in Cells |-> NoTarget]

Predict ==
  LET anomaly(c) == CellAnomaly(risk, kpis[c])
      failure(c) == CellFailure(risk, kpis[c])
      balanced == [c \in Cells |->
        ApplyLoadBalancePolicy(kpis, c, DecideAction(anomaly(c), failure(c), risk.hint))]
  IN
  /\ ~predicted
  /\ predicted' = TRUE
  /\ actions' = [c \in Cells |->
       ApplySafetyPolicy(kpis, c, balanced[c].action, anomaly(c), failure(c))]
  /\ targets' = [c \in Cells |-> balanced[c].target]
  /\ UNCHANGED <<kpis, risk>>

Next == Predict

Spec == Init /\ [][Next]_vars

-----------------------------------------------------------------------------
(* Properties.                                                             *)

\* However bad the network looks as a whole, the cells never all hand over at once:
\* there would be no cell left to take the users.
SomeCellStays == \E c \in Cells : actions[c] # HANDOVER

\* A cell the manager wants to take its neighbours' users is not told to hand its own
\* over, whatever the model hints and the safety policy makes of it.
AcceptorsKeepUsers ==
  \A c \in Cells : RecommendsAccept(kpis, c) => actions[c] # HANDOVER

\* "Avoid power down under clearly bad RF conditions."
NoPowerDownInBadRadio ==
  \A c \in Cells :
    actions[c] = REDUCE_POWER => kpis[c].sinr >= 40 /\ kpis[c].delay <= 100

=============================================================================
