------------------------ MODULE HandoverPolicy_proofs ------------------------
(***************************************************************************)
(* The predictor's policies, for every situation of the cells and every    *)
(* verdict of the model.                                                   *)
(***************************************************************************)
EXTENDS HandoverPolicy, TLAPS

\* Of six integers one is the greatest.
LEMMA GreatestOfRing ==
  ASSUME NEW f \in [Cells -> Int]
  PROVE  \E c \in Cells : \A d \in Cells : f[d] <= f[c]
<1> DEFINE Above(c, n) == \A d \in 1..n : f[d] <= f[c]
<1>0. \A c \in Cells : f[c] \in Int
  OBVIOUS
<1>1. \E c \in Cells : Above(c, 2)
  <2>1. CASE f[1] <= f[2]
    <3>1. Above(2, 2)
      BY <2>1, <1>0 DEF Cells
    <3> QED BY <3>1 DEF Cells
  <2>2. CASE f[2] <= f[1]
    <3>1. Above(1, 2)
      BY <2>2, <1>0 DEF Cells
    <3> QED BY <3>1 DEF Cells
  <2>3. f[1] <= f[2] \/ f[2] <= f[1]
    BY <1>0 DEF Cells
  <2> QED BY <2>1, <2>2, <2>3
<1>2. ASSUME NEW n \in 2..5, \E c \in Cells : Above(c, n)
      PROVE  \E c \in Cells : Above(c, n + 1)
  <2>1. PICK c \in Cells : Above(c, n)
    BY <1>2
  <2>2. n + 1 \in Cells /\ f[n + 1] \in Int /\ f[c] \in Int
    BY <1>0 DEF Cells
  <2>3. CASE f[n + 1] <= f[c]
    <3>1. Above(c, n + 1)
      <4> SUFFICES ASSUME NEW d \in 1..(n + 1) PROVE f[d] <= f[c]
        OBVIOUS
      <4>1. d \in 1..n \/ d = n + 1
        OBVIOUS
      <4> QED BY <4>1, <2>1, <2>3
    <3> QED BY <3>1
  <2>4. CASE f[c] <= f[n + 1]
    <3>1. Above(n + 1, n + 1)
      <4> SUFFICES ASSUME NEW d \in 1..(n + 1) PROVE f[d] <= f[n + 1]
        OBVIOUS
      <4>1. d \in 1..n \/ d = n + 1
        OBVIOUS
      <4>2. CASE d \in 1..n
        <5>1. f[d] \in Int /\ f[d] <= f[c]
          BY <4>2, <2>1, <1>0 DEF Cells
        <5> QED BY <5>1, <2>2, <2>4
      <4> QED BY <4>1, <4>2, <2>2
    <3> QED BY <3>1, <2>2
  <2> QED BY <2>2, <2>3, <2>4
<1> HIDE DEF Above
<1>3. \E c \in Cells : Above(c, 3)
  BY <1>1, <1>2
<1>4. \E c \in Cells : Above(c, 4)
  BY <1>3, <1>2
<1>5. \E c \in Cells : Above(c, 5)
  BY <1>4, <1>2
<1>6. \E c \in Cells : Above(c, 6)
  BY <1>5, <1>2
<1> QED BY <1>6 DEF Above, Cells

\* Both neighbours of a cell are cells.
LEMMA NeighborsAreCells ==
  ASSUME NEW c \in Cells
  PROVE  neighbors[c][1] \in Cells /\ neighbors[c][2] \in Cells
<1>1. c \in {1, 2, 3, 4, 5, 6}
  BY DEF Cells
<1> QED BY <1>1 DEF neighbors, Cells

\* The safety policy lets HANDOVER pass only where a neighbour has the better signal.
LEMMA SafeHandover ==
  ASSUME NEW k, NEW c, NEW a, NEW anomaly, NEW failure,
         ApplySafetyPolicy(k, c, a, anomaly, failure) = HANDOVER
  PROVE  a = HANDOVER /\ MaxNeighborSinr(k, c) > k[c].sinr
BY DEF ApplySafetyPolicy, ViableNeighbor, HANDOVER, BALANCE, INCREASE_POWER, REDUCE_POWER

\* An acceptor that is about to hand over is told to stay.
LEMMA AcceptorStays ==
  ASSUME NEW k \in [Cells -> Situations], NEW c \in Cells, NEW a, RecommendsAccept(k, c)
  PROVE  ApplyLoadBalancePolicy(k, c, a).action # HANDOVER
<1>1. k[c].load \in Int
  BY InputAssumption
<1>2. ~Rebalances(k, c) /\ k[c].load < 35 /\ ~(k[c].load > 82)
  BY <1>1 DEF RecommendsAccept, Rebalances, RecommendsHandover
<1>3. CASE a = HANDOVER
  BY <1>2, <1>3 DEF ApplyLoadBalancePolicy, Stays, HANDOVER, BALANCE
<1>4. CASE a # HANDOVER
  BY <1>2, <1>4 DEF ApplyLoadBalancePolicy, Stays, Sheds
<1> QED BY <1>3, <1>4

-----------------------------------------------------------------------------
\* The best target is a neighbour, and the policies answer with an action.
LEMMA PolicyType ==
  ASSUME NEW k, NEW c \in Cells, NEW a \in BALANCE..HANDOVER, NEW anomaly, NEW failure
  PROVE  LET b == ApplyLoadBalancePolicy(k, c, a)
         IN /\ b.target \in Neighbors(c) \cup {NoTarget}
            /\ ApplySafetyPolicy(k, c, b.action, anomaly, failure) \in BALANCE..HANDOVER
<1> DEFINE b == ApplyLoadBalancePolicy(k, c, a)
<1>1. BestTarget(k, c) \in Neighbors(c)
  BY DEF BestTarget, Neighbors
<1>2. b.action \in BALANCE..HANDOVER /\ b.target \in Neighbors(c) \cup {NoTarget}
  BY <1>1 DEF ApplyLoadBalancePolicy, BALANCE, HANDOVER
<1>3. \A x \in BALANCE..HANDOVER :
        ApplySafetyPolicy(k, c, x, anomaly, failure) \in BALANCE..HANDOVER
  BY DEF ApplySafetyPolicy, BALANCE, INCREASE_POWER, REDUCE_POWER, HANDOVER
<1> QED BY <1>2, <1>3

LEMMA DecideType ==
  ASSUME NEW anomaly, NEW failure, NEW hint \in 0..3
  PROVE  DecideAction(anomaly, failure, hint) \in BALANCE..HANDOVER
BY DEF DecideAction, BALANCE, INCREASE_POWER, REDUCE_POWER, HANDOVER

\* The inputs stay what they are, actions are actions and targets neighbours.
THEOREM TypeCorrect == Spec => []TypeOK
<1>1. Init => TypeOK
  <2> SUFFICES ASSUME Init PROVE TypeOK
    OBVIOUS
  <2>1. actions \in [Cells -> BALANCE..HANDOVER]
    BY DEF Init, BALANCE, HANDOVER
  <2>2. \A c \in Cells : targets[c] \in Neighbors(c) \cup {NoTarget}
    BY DEF Init
  <2> QED BY <2>1, <2>2 DEF Init, TypeOK
<1>2. TypeOK /\ [Next]_vars => TypeOK'
  <2> SUFFICES ASSUME TypeOK, [Next]_vars PROVE TypeOK'
    OBVIOUS
  <2>1. CASE Predict
    <3> DEFINE decided(c) == DecideAction(CellAnomaly(risk, kpis[c]), CellFailure(risk, kpis[c]),
                                          risk.hint)
               balanced(c) == ApplyLoadBalancePolicy(kpis, c, decided(c))
               safe(c) == ApplySafetyPolicy(kpis, c, balanced(c).action,
                            CellAnomaly(risk, kpis[c]), CellFailure(risk, kpis[c]))
    <3>1. /\ actions' = [c \in Cells |-> safe(c)]
          /\ targets' = [c \in Cells |-> balanced(c).target]
          /\ predicted' = TRUE /\ UNCHANGED <<kpis, risk>>
      BY <2>1 DEF Predict
    <3>2. \A c \in Cells : decided(c) \in BALANCE..HANDOVER
      BY DecideType, InputAssumption DEF TypeOK
    <3>3. \A c \in Cells : /\ balanced(c).target \in Neighbors(c) \cup {NoTarget}
                           /\ safe(c) \in BALANCE..HANDOVER
      BY <3>2, PolicyType
    <3> HIDE DEF decided, balanced, safe
    <3> QED BY <3>1, <3>3 DEF TypeOK
  <2>2. CASE UNCHANGED vars
    BY <2>2 DEF TypeOK, vars
  <2> QED BY <2>1, <2>2 DEF Next
<1> QED BY <1>1, <1>2, PTL DEF Spec

\* What holds for the actions of one call of predict: where HANDOVER is the answer, a
\* neighbour has the better signal, and the cell is no acceptor.
LEMMA PredictedHandover ==
  ASSUME TypeOK, Predict, NEW c \in Cells, actions'[c] = HANDOVER
  PROVE  MaxNeighborSinr(kpis, c) > kpis[c].sinr /\ ~RecommendsAccept(kpis, c)
<1> DEFINE decided == DecideAction(CellAnomaly(risk, kpis[c]), CellFailure(risk, kpis[c]), risk.hint)
           balanced == ApplyLoadBalancePolicy(kpis, c, decided)
<1>1. ApplySafetyPolicy(kpis, c, balanced.action, CellAnomaly(risk, kpis[c]),
                        CellFailure(risk, kpis[c])) = HANDOVER
  BY DEF Predict
<1>2. balanced.action = HANDOVER /\ MaxNeighborSinr(kpis, c) > kpis[c].sinr
  BY <1>1, SafeHandover
<1>3. ~RecommendsAccept(kpis, c)
  BY <1>2, AcceptorStays DEF TypeOK
<1> QED BY <1>2, <1>3

\* The cell with the strongest signal of the ring never hands over.
THEOREM NeverAllHandOver == Spec => []SomeCellStays
<1>1. Init => SomeCellStays
  BY DEF Init, SomeCellStays, BALANCE, HANDOVER, Cells
<1>2. TypeOK /\ SomeCellStays /\ [Next]_vars => SomeCellStays'
  <2> SUFFICES ASSUME TypeOK, SomeCellStays, [Next]_vars PROVE SomeCellStays'
    OBVIOUS
  <2>1. CASE Predict
    <3> DEFINE sinr == [c \in Cells |-> kpis[c].sinr]
    <3>1. sinr \in [Cells -> Int]
      BY InputAssumption DEF TypeOK
    <3>2. PICK c \in Cells : \A d \in Cells : sinr[d] <= sinr[c]
      BY <3>1, GreatestOfRing
    <3>3. ~(MaxNeighborSinr(kpis, c) > kpis[c].sinr)
      <4>1. /\ kpis[neighbors[c][1]].sinr <= kpis[c].sinr
            /\ kpis[neighbors[c][2]].sinr <= kpis[c].sinr
        BY <3>2, NeighborsAreCells
      <4>2. /\ kpis[neighbors[c][1]].sinr \in Int /\ kpis[neighbors[c][2]].sinr \in Int
            /\ kpis[c].sinr \in Int
        BY <3>1, NeighborsAreCells
      <4> QED BY <4>1, <4>2 DEF MaxNeighborSinr, Greatest
    <3>4. actions'[c] # HANDOVER
      BY <3>3, <2>1, PredictedHandover
    <3> QED BY <3>4 DEF SomeCellStays
  <2>2. CASE UNCHANGED vars
    BY <2>2 DEF SomeCellStays, vars
  <2> QED BY <2>1, <2>2 DEF Next
<1> QED BY <1>1, <1>2, TypeCorrect, PTL DEF Spec

\* A cell that is to take its neighbours' users never hands its own over.
THEOREM AcceptorsAlwaysKeepUsers == Spec => []AcceptorsKeepUsers
<1>1. Init => AcceptorsKeepUsers
  BY DEF Init, AcceptorsKeepUsers, BALANCE, HANDOVER
<1>2. TypeOK /\ AcceptorsKeepUsers /\ [Next]_vars => AcceptorsKeepUsers'
  <2> SUFFICES ASSUME TypeOK, AcceptorsKeepUsers, [Next]_vars PROVE AcceptorsKeepUsers'
    OBVIOUS
  <2>1. CASE Predict
    <3> SUFFICES ASSUME NEW c \in Cells, RecommendsAccept(kpis', c) PROVE actions'[c] # HANDOVER
      BY DEF AcceptorsKeepUsers
    <3>1. kpis' = kpis
      BY <2>1 DEF Predict
    <3> QED BY <3>1, <2>1, PredictedHandover
  <2>2. CASE UNCHANGED vars
    BY <2>2 DEF AcceptorsKeepUsers, vars, RecommendsAccept, WellBalanced
  <2> QED BY <2>1, <2>2 DEF Next
<1> QED BY <1>1, <1>2, TypeCorrect, PTL DEF Spec

=============================================================================
