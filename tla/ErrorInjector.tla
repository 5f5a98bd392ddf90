--------------------------- MODULE ErrorInjector ---------------------------
(***************************************************************************)
(* The error injector of the server (simulator/error_injector.py): errors  *)
(* are injected for a window of time, and each KPI vector passes through   *)
(* apply_errors_to_kpi_vector at the time of its request.  The KPI impact  *)
(* of one error is that of ErrorDefinitions.                               *)
(***************************************************************************)
EXTENDS Integers, Sequences, SequencesExt, ErrorDefinitions

CONSTANTS
  Cells,
  Injections,       (* events [error_type, cell_id, severity, start_time, duration] *)
  RawVectors,       (* KPI vectors as measured: functions from cells to KPIs *)
  MaxErrors,        (* bound on the errors injected between two clearings  *)
  MaxTime           (* bound on the request counter                        *)

\* Loss and load are percentages; throughput and the number of users are counts.
LegalKPIs(k) ==
  /\ k.packet_loss \in 0..100 /\ k.cell_load \in 0..100
  /\ k.throughput >= 0 /\ k.ue_count >= 0

ASSUME InjectorAssumption ==
  /\ Injections \subseteq [error_type : ErrorType, cell_id : Cells, severity : 0..100,
                            start_time : Int, duration : Int]
  /\ \A vector \in RawVectors :
       /\ vector \in [Cells -> [Metrics -> Int]]
       /\ \A c \in Cells : LegalKPIs(vector[c])
  /\ MaxErrors \in Nat /\ MaxTime \in Nat

VARIABLES
  current_time,     (* the request counter, the injector's clock           *)
  active_errors,    (* sequence of events                                  *)
  error_history,    (* every event since the last clearing                 *)
  kpi_vector,       (* latest vector received, per cell                    *)
  modified_vector,  (* latest vector returned, per cell                    *)
  error_metadata    (* per cell, the errors reported with it               *)

vars == <<current_time, active_errors, error_history, kpi_vector,
          modified_vector, error_metadata>>

EndTime(e) == e.start_time + e.duration

\* Mutant: the end of the window belongs to it.
IsActiveToEnd(e, t) == e.start_time <= t /\ t <= EndTime(e)

IsActive(e, t) == e.start_time <= t /\ t < EndTime(e)

\* The events of the sequence that are in the set, in their order.
Keep(errors, events) ==
  LET kept[i \in 0..Len(errors)] ==
        IF i = 0 THEN <<>>
        ELSE IF errors[i] \in events THEN Append(kept[i - 1], errors[i]) ELSE kept[i - 1]
  IN kept[Len(errors)]

\* Mutant: the newest active error of a cell hides the older ones.
NewestOn(errors, c, t) ==
  LET on == Keep(errors, {e \in Injections : e.cell_id = c /\ IsActive(e, t)})
  IN IF on = <<>> THEN on ELSE <<on[Len(on)]>>

ActiveOn(errors, c, t) ==
  Keep(errors, {e \in Injections : e.cell_id = c /\ IsActive(e, t)})

ApplyOne(k, e) == ApplyErrorImpact(k, e.error_type, e.severity)

\* apply_error_effects: every active error of the cell, in the order injected.
ApplyErrorEffects(errors, k) == FoldLeft(ApplyOne, k, errors)

\* Called once for each active error of the cell.
ApplyToCell(errors, k) ==
  FoldLeft(LAMBDA acc, e : ApplyErrorEffects(errors, acc), k, errors)

-----------------------------------------------------------------------------
Init ==
  /\ current_time = 0
  /\ active_errors = <<>>
  /\ error_history = <<>>
  /\ kpi_vector \in RawVectors
  /\ modified_vector = kpi_vector
  /\ error_metadata = [c \in Cells |-> <<>>]

\* inject_error with a known type, a cell of the network and a severity in range;
\* with any other argument it changes nothing.
InjectError ==
  /\ Len(error_history) < MaxErrors
  /\ \E e \in Injections :
       /\ active_errors' = Append(active_errors, e)
       /\ error_history' = Append(error_history, e)
  /\ UNCHANGED <<current_time, kpi_vector, modified_vector, error_metadata>>

UpdateActiveErrors(errors, t) == Keep(errors, {e \in Injections : IsActive(e, t)})

\* One request: requests that fail earlier let time pass without one.
ApplyErrorsToKpiVector ==
  \E t \in (current_time + 1)..MaxTime, kpis \in RawVectors :
    LET active == UpdateActiveErrors(active_errors, t)
        errors == [c \in Cells |-> ActiveOn(active, c, t)] IN
    /\ current_time' = t
    /\ active_errors' = active
    /\ kpi_vector' = kpis
    /\ modified_vector' = [c \in Cells |-> ApplyToCell(errors[c], kpis[c])]
    /\ error_metadata' = errors
    /\ UNCHANGED error_history

ClearHistory ==
  /\ error_history # <<>>
  /\ active_errors' = <<>>
  /\ error_history' = <<>>
  /\ UNCHANGED <<current_time, kpi_vector, modified_vector, error_metadata>>

Next == InjectError \/ ApplyErrorsToKpiVector \/ ClearHistory

Spec == Init /\ [][Next]_vars

-----------------------------------------------------------------------------
(* Properties.                                                             *)

\* However many errors pile up on a cell, its KPIs stay legal.
TypeOK ==
  /\ current_time \in 0..MaxTime
  /\ active_errors \in Seq(Injections)
  /\ error_history \in Seq(Injections)
  /\ Len(active_errors) <= Len(error_history)
  /\ kpi_vector \in RawVectors
  /\ modified_vector \in [Cells -> [Metrics -> Int]]
  /\ \A c \in Cells : LegalKPIs(modified_vector[c])

\* "Which KPIs this error impacts": a KPI the vector returned differs in is listed
\* by the catalog for an error reported on that cell.
OnlyListedMetrics ==
  \A c \in Cells, m \in Metrics :
    modified_vector[c][m] # kpi_vector[c][m] =>
      \E i \in 1..Len(error_metadata[c]) :
        m \in ERROR_CATALOG[error_metadata[c][i].error_type]

Elements(s) == {s[i] : i \in 1..Len(s)}
\* The errors injected since the clearing whose window contains t.
Due(c, t) == {e \in Elements(error_history) :
                e.cell_id = c /\ e.start_time <= t /\ t < e.start_time + e.duration}

\* A vector is degraded, and reported as such, on account of an error only inside
\* the error's window and on its cell; a cell without one passes unchanged.
EffectsOnlyInWindow ==
  [][current_time' # current_time =>
       \A c \in Cells :
         /\ Elements(error_metadata'[c]) \subseteq Due(c, current_time')
         /\ Due(c, current_time') = {} => modified_vector'[c] = kpi_vector'[c]]_vars

\* An error that a vector was degraded by degrades every later vector until its
\* window ends or the history is cleared, whatever is injected meanwhile.
EffectsLast ==
  [][current_time' # current_time =>
       \A c \in Cells :
         Elements(error_metadata[c]) \cap Due(c, current_time')
           \subseteq Elements(error_metadata'[c])]_vars

\* "Apply each active error": once.
EachErrorOnce ==
  \A c \in Cells :
    modified_vector[c] = ApplyErrorEffects(error_metadata[c], kpi_vector[c])

=============================================================================
