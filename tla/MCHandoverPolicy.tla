-------------------------- MODULE MCHandoverPolicy --------------------------
(* Every combination of five situations on the ring, and of the model's     *)
(* verdicts on both sides of the thresholds.                                *)
EXTENDS HandoverPolicy

Situation(load, delay, loss, sinr, ues, dev) ==
  [load |-> load, delay |-> delay, loss |-> loss, sinr |-> sinr, ue_count |-> ues,
   deviation |-> dev]

Quiet   == Situation(20, 20, 0, 150, 10, 0)
Idle    == Situation(20, 70, 0, 55, 10, 0)
Slow    == Situation(60, 110, 1, 60, 30, 0)
Loaded  == Situation(90, 60, 2, 45, 60, 10)
Drowned == Situation(95, 130, 9, 20, 80, 40)

Places == {Quiet, Idle, Slow, Loaded, Drowned}

Verdicts == [anomaly : {80, 145}, failure : {50, 90, 98}, hint : {BALANCE, REDUCE_POWER, HANDOVER}]
=============================================================================
