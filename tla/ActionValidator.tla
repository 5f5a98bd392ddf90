-------------------------- MODULE ActionValidator --------------------------
(***************************************************************************)
(* The last gate before an action leaves the server                        *)
(* (ai_engine/action_validator.py).  Loads, CPU shares are percentages,    *)
(* RSRP is in dBm, temperature in degrees, handover rate per second.       *)
(***************************************************************************)
EXTENDS Integers, FiniteSets

min_power_dbm == 20
max_power_dbm == 46
max_cell_load == 95
max_handover_rate == 2
max_safe_temp == 90 - 5
cpu_headroom == 15

\* The constraints that turn INCREASE_POWER (1) or HANDOVER (3) into BALANCE.
AtPowerLimit(kpi) == kpi.rsrp >= min_power_dbm \/ kpi.rsrp >= max_power_dbm
\* Mutant: a percentage is compared with a bound meant for a fraction.
AtCapacityFraction(kpi) == kpi.load > 100 * max_cell_load

AtCapacity(kpi) == kpi.load > max_cell_load
TooManyHandovers(net) == net.handover_rate >= max_handover_rate
TooHot(net) == net.temp > max_safe_temp
NoHeadroom(net) == 100 - net.cpu < cpu_headroom

Violates(action, kpi, net) ==
  \/ action = 1 /\ (AtPowerLimit(kpi) \/ TooHot(net) \/ NoHeadroom(net))
  \/ action = 3 /\ (AtCapacity(kpi) \/ TooManyHandovers(net) \/ NoHeadroom(net))

ValidateAction(action, kpi, net) == IF Violates(action, kpi, net) THEN 0 ELSE action

\* The network state the server hands over: three constants, whatever happens.
NetworkState == [handover_rate |-> 0, cpu |-> 50, temp |-> 60]

ValidateAll(actions, kpis) ==
  [c \in DOMAIN actions |-> ValidateAction(actions[c], kpis[c], NetworkState)]

=============================================================================
