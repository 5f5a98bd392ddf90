-------------------------- MODULE MCErrorInjector --------------------------
(* Errors of every type, overlapping on one cell or on the other, one of    *)
(* them in the future when injected.                                        *)
EXTENDS ErrorInjector, TLC

Error(t, c, s, from, for) ==
  [error_type |-> t, cell_id |-> c, severity |-> s, start_time |-> from, duration |-> for]

Errors == {Error("congestion", 1, 25, 0, 3), Error("jamming", 1, 20, 2, 2),
           Error("interference", 1, 50, 1, 2), Error("ddos", 1, 10, 0, 2),
           Error("underutilization", 1, 80, 0, 4), Error("weather", 2, 70, 3, 2),
           Error("equipment_degradation", 2, 50, 1, 3),
           Error("handover_failure", 2, 60, 0, 4)}

Healthy == [throughput |-> 150, delay |-> 25, packet_loss |-> 1, ue_count |-> 30,
            rsrp |-> -90, sinr |-> 20, cell_load |-> 65]
Strained == [throughput |-> 5, delay |-> 90, packet_loss |-> 95, ue_count |-> 38,
             rsrp |-> -110, sinr |-> -15, cell_load |-> 100]

\* The vectors: the strained cell is the first or the second.
Vectors == {(1 :> Healthy) @@ (2 :> Strained), (1 :> Strained) @@ (2 :> Healthy)}
=============================================================================
