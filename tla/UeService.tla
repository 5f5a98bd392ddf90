----------------------------- MODULE UeService -----------------------------
(***************************************************************************)
(* What the network promises a UE, whatever becomes of its handovers: one   *)
(* context at a time serves it; a handover takes the service from the       *)
(* source before the target has it, ends, and ends in the target or in      *)
(* nothing; and a context that has been given up never serves again.        *)
(***************************************************************************)
CONSTANTS
    Contexts,  \* everything that can serve the UE
    None       \* not in Contexts

VARIABLES
    serving,  \* the context that serves the UE, or None
    target,   \* the context the UE is on its way to, or None
    spent     \* contexts that have served or will never serve

vars == <<serving, target, spent>>

Init == serving = None /\ target = None /\ spent = {}

\* The UE connects.
Attach ==
    /\ serving = None /\ target = None
    /\ serving' \in Contexts \ spent
    /\ target' = None

\* The UE is commanded to a context that is still fresh.
Command ==
    /\ serving # None
    /\ target' \in Contexts \ spent
    /\ serving' = None

\* The UE has come to the target.
Complete ==
    /\ target # None
    /\ serving' = target
    /\ target' = None

\* The connection or the handover has failed.
Lose ==
    /\ serving # None \/ target # None
    /\ serving' = None
    /\ target' = None

\* Contexts are created and given up meanwhile.
Keep == UNCHANGED <<serving, target>>

Next ==
    /\ Attach \/ Command \/ Complete \/ Lose \/ Keep
    /\ spent \subseteq spent'
    /\ serving' # None => serving' \in spent'

\* A move ends one way or the other.
MoveEnds == target # None ~> target = None

\* Everything but that a move ends.
Safety == Init /\ [][Next]_vars

Spec == Safety /\ MoveEnds

=============================================================================
