----------------------------- MODULE MCAIServer -----------------------------
(* KPI situations of a cell: loaded below capacity, and over capacity (its  *)
(* last digits cut off read as the loaded one).                             *)
EXTENDS AIServer

Busy   == [delay |-> 60, load |-> 90, sinr |-> 0, rsrp |-> -90]
Full   == [delay |-> 60, load |-> 97, sinr |-> 0, rsrp |-> -90]

TwoKPIs == {Busy, Full}

\* A simulator whose vectors may be cut waits for each reply; one whose vectors
\* arrive whole may send two at once.
Ahead == [message |-> 2, stream |-> 1]
=============================================================================
