------------------------- MODULE StabilityResponse -------------------------
(***************************************************************************)
(* How long the filter can keep a predictor that insists waiting.  History *)
(* variables added to StabilityController remember since when each cell's  *)
(* proposal has been the same and what the latest KPIs were.               *)
(***************************************************************************)
EXTENDS StabilityController

VARIABLES
  last_call,    (* time of the latest call of apply_stability              *)
  held_since,   (* per cell, first call of the current run of one proposal *)
  last_kpi      (* per cell, KPIs of the latest call                       *)

historyVars == <<last_call, held_since, last_kpi>>
responseVars == <<vars, historyVars>>

ResponseInit ==
  /\ Init
  /\ last_call = Never
  /\ held_since = [c \in Cells |-> Never]
  /\ last_kpi = [c \in Cells |-> NoBaseline]

\* Decide with its KPIs observed.
ObservedDecide ==
  /\ timestamp_sec < MaxTime
  /\ timestamp_sec' = timestamp_sec + 1
  /\ \E proposed_actions \in [Cells -> Action], current_kpi \in [Cells -> KPIs] :
       /\ ApplyStability(proposed_actions, current_kpi, timestamp_sec + 1)
       /\ last_kpi' = current_kpi
  /\ last_call' = timestamp_sec + 1
  /\ held_since' = [c \in Cells |->
       IF last_call # Never /\ decision_info'[c].proposed = decision_info[c].proposed
       THEN held_since[c] ELSE timestamp_sec + 1]

ResponseNext == ObservedDecide \/ (Elapse /\ UNCHANGED historyVars)

ResponseSpec == ResponseInit /\ [][ResponseNext]_responseVars

-----------------------------------------------------------------------------
Waited(c) == last_call - held_since[c]
Refused(c) ==
  last_call # Never /\ decision_info[c].proposed # current_action[c]

\* The longest any timer can refuse proposal a.
Patience(a) ==
  IF GetCooldown(a) > min_action_duration THEN GetCooldown(a) ELSE min_action_duration

ReversalRefused(c) ==
  ReversalTooCostly(c, decision_info[c].proposed, last_kpi[c])

HysteresisRefused(c) ==
  /\ decision_info[c].proposed = BALANCE
  /\ kpi_baseline[c] # NoBaseline
  /\ ~Improved(kpi_baseline[c], last_kpi[c])

\* Bounded response: a proposal the predictor repeats at every call for as long
\* as the longest timer is imposed, unless the reversal penalty or the
\* hysteresis still refuses it at the latest call.
InsistenceWins ==
  \A c \in Cells :
    Refused(c) /\ Waited(c) >= Patience(decision_info[c].proposed)
      => ReversalRefused(c) \/ HysteresisRefused(c)

=============================================================================
