-------------------------- MODULE ErrorDefinitions --------------------------
(***************************************************************************)
(* What one error does to the KPIs of a cell                               *)
(* (simulator/error_definitions.py).  Severity and load are percentages;   *)
(* the other KPIs keep their units, and fractions of a unit are dropped.   *)
(***************************************************************************)
EXTENDS Integers

Metrics == {"throughput", "delay", "packet_loss", "ue_count", "rsrp", "sinr", "cell_load"}

\* affected_metrics of the catalog; the vector of a cell has no handover count.
ERROR_CATALOG == [
  congestion            |-> {"ue_count", "throughput", "delay", "packet_loss", "cell_load"},
  underutilization      |-> {"ue_count", "cell_load", "throughput"},
  interference          |-> {"sinr", "rsrp", "packet_loss", "throughput"},
  equipment_degradation |-> {"throughput", "delay", "packet_loss", "rsrp"},
  jamming               |-> {"sinr", "packet_loss", "rsrp", "throughput", "delay"},
  ddos                  |-> {"packet_loss", "throughput", "delay", "cell_load"},
  weather               |-> {"rsrp", "sinr", "throughput", "packet_loss"},
  handover_failure      |-> {"packet_loss", "delay"}]

ErrorType == DOMAIN ERROR_CATALOG

Least(a, b) == IF a <= b THEN a ELSE b
Greatest(a, b) == IF a >= b THEN a ELSE b

\* v * (1 + p * s): growth (p > 0) or loss (p < 0) of p percent at full severity.
Scaled(v, p, s) == (v * (10000 + p * s)) \div 10000

\* v + n * s: n units more, or fewer, at full severity.
Shifted(v, n, s) == v + (n * s) \div 100

\* Mutant: packet loss is not capped.
UncappedLoss(v, n, s) == Shifted(v, n, s)

CappedLoss(v, n, s) == Least(100, Shifted(v, n, s))

\* Mutant: weather slows the traffic as well.
DelayUnderWeather(v, t, s) ==
  CASE t \in {"congestion", "weather"} -> Scaled(v, 300, s)
    [] t = "equipment_degradation" -> Scaled(v, 200, s)
    [] t = "jamming" -> Scaled(v, 500, s)
    [] t = "ddos" -> Scaled(v, 1000, s)
    [] t = "handover_failure" -> Scaled(v, 150, s)
    [] OTHER -> v

ImpactOnDelay(v, t, s) ==
  CASE t = "congestion" -> Scaled(v, 300, s)
    [] t = "equipment_degradation" -> Scaled(v, 200, s)
    [] t = "jamming" -> Scaled(v, 500, s)
    [] t = "ddos" -> Scaled(v, 1000, s)
    [] t = "handover_failure" -> Scaled(v, 150, s)
    [] OTHER -> v

ImpactOnThroughput(v, t, s) ==
  CASE t = "congestion" -> Scaled(v, -60, s)
    [] t = "interference" -> Scaled(v, -50, s)
    [] t = "equipment_degradation" -> Scaled(v, -70, s)
    [] t = "jamming" -> Scaled(v, -90, s)
    [] t = "ddos" -> Scaled(v, -95, s)
    [] t = "weather" -> Scaled(v, -30, s)
    [] OTHER -> v

ImpactOnLoss(v, t, s) ==
  CASE t = "congestion" -> CappedLoss(v, 30, s)
    [] t = "interference" -> CappedLoss(v, 25, s)
    [] t = "equipment_degradation" -> CappedLoss(v, 40, s)
    [] t = "jamming" -> CappedLoss(v, 80, s)
    [] t = "ddos" -> CappedLoss(v, 90, s)
    [] t = "weather" -> CappedLoss(v, 15, s)
    [] t = "handover_failure" -> CappedLoss(v, 20, s)
    [] OTHER -> v

ImpactOnUsers(v, t, s) ==
  CASE t = "congestion" -> Scaled(v, 400, s)
    [] t = "underutilization" -> Greatest(0, Scaled(v, -80, s))
    [] OTHER -> v

ImpactOnRsrp(v, t, s) ==
  CASE t = "interference" -> Shifted(v, -15, s)
    [] t = "jamming" -> Shifted(v, -20, s)
    [] t \in {"equipment_degradation", "weather"} -> Shifted(v, -10, s)
    [] OTHER -> v

ImpactOnSinr(v, t, s) ==
  CASE t = "interference" -> Greatest(-20, Shifted(v, -20, s))
    [] t = "jamming" -> Greatest(-30, Shifted(v, -30, s))
    [] t = "weather" -> Shifted(v, -8, s)
    [] OTHER -> v

ImpactOnLoad(v, t, s) ==
  CASE t = "congestion" -> Least(100, Shifted(v, 70, s))
    [] t = "ddos" -> Least(100, Shifted(v, 90, s))
    [] t = "underutilization" -> Greatest(0, Scaled(v, -80, s))
    [] OTHER -> v

\* One error applied to every KPI of the cell.
ApplyErrorImpact(k, t, s) ==
  [throughput  |-> ImpactOnThroughput(k.throughput, t, s),
   delay       |-> ImpactOnDelay(k.delay, t, s),
   packet_loss |-> ImpactOnLoss(k.packet_loss, t, s),
   ue_count    |-> ImpactOnUsers(k.ue_count, t, s),
   rsrp        |-> ImpactOnRsrp(k.rsrp, t, s),
   sinr        |-> ImpactOnSinr(k.sinr, t, s),
   cell_load   |-> ImpactOnLoad(k.cell_load, t, s)]

=============================================================================
