------------------------ MODULE MCStabilityResponse ------------------------
(* One cell, and the KPI situations that tell the two hysteresis thresholds *)
(* and the reversal penalty apart.                                          *)
EXTENDS StabilityResponse

Calm     == [delay |-> 20, load |-> 40, sinr |-> 10]
Loaded   == [delay |-> 60, load |-> 90, sinr |-> 0]
Outage   == [delay |-> 60, load |-> 40, sinr |-> -45]

AllKPIs == {Calm, Loaded, Outage}
=============================================================================
