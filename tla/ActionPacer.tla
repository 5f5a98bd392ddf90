---------------------------- MODULE ActionPacer ----------------------------
(***************************************************************************)
(* What the stability filter promises, without KPIs, baselines or scores:  *)
(* each cell has one imposed action; an imposition respects the cooldown   *)
(* of its action, the minimum hold of the action it replaces and the       *)
(* barred successions; between impositions the action does not change.     *)
(***************************************************************************)
EXTENDS Integers

CONSTANTS
  Cells,
  Actions,
  Idle,         (* the action that may be left at any time                 *)
  Cooldown,     (* per action, time between two impositions on a cell      *)
  MinHold,      (* time an action other than Idle is kept                  *)
  Barred,       (* pairs of actions that never follow each other           *)
  Never,
  Horizon       (* bound on the clock                                      *)

VARIABLES now, imposed, imposed_at, since

pacerVars == <<now, imposed, imposed_at, since>>

MayImpose(c, a, t) ==
  /\ imposed_at[c][a] # Never => t - imposed_at[c][a] >= Cooldown[a]
  /\ (a # imposed[c] /\ imposed[c] # Idle) => t - since[c] >= MinHold
  /\ <<imposed[c], a>> \notin Barred

Init ==
  /\ now = 0
  /\ imposed = [c \in Cells |-> Idle]
  /\ imposed_at = [c \in Cells |-> [a \in Actions |-> Never]]
  /\ since = [c \in Cells |-> Never]

\* At one instant the cells in S get a new imposition, the others keep theirs.
Impose(S, action) ==
  /\ \A c \in S : MayImpose(c, action[c], now + 1)
  /\ imposed' = [c \in Cells |-> IF c \in S THEN action[c] ELSE imposed[c]]
  /\ imposed_at' = [c \in Cells |->
       IF c \in S THEN [imposed_at[c] EXCEPT ![action[c]] = now + 1] ELSE imposed_at[c]]
  /\ since' = [c \in Cells |-> IF c \in S THEN now + 1 ELSE since[c]]

Next ==
  /\ now < Horizon
  /\ now' = now + 1
  /\ \E S \in SUBSET Cells, action \in [Cells -> Actions] : Impose(S, action)

Spec == Init /\ [][Next]_pacerVars

=============================================================================
