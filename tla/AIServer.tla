------------------------------ MODULE AIServer ------------------------------
(***************************************************************************)
(* The server's request loop (ai_server.py) with the simulator at the      *)
(* other end of its TCP connection.  One connection is served at a time;   *)
(* the filter outlives it.  A request is a vector of KPIs, a               *)
(* reply a line of actions or ERROR.  The server takes whatever one recv   *)
(* returns for one request, so how TCP cuts the byte stream matters:       *)
(* delivery "message" is one recv per request, "stream" is what TCP may    *)
(* do.  The predictor is any function of its input (PredictedActions).     *)
(***************************************************************************)
EXTENDS Integers, Sequences, FiniteSets, ActionValidator

CONSTANTS
  Cells, KPIs, NoBaseline,
  cooldown_balance, cooldown_increase_power,
  cooldown_reduce_power, cooldown_handover,
  reversal_penalty_ms, load_hysteresis, delay_hysteresis,
  min_action_duration, history_depth,
  PredictedActions,   (* actions the predictor may propose                  *)
  LastCell,           (* the cell whose load ends the vector                *)
  MaxOutstanding,     (* per delivery, vectors sent ahead of the replies     *)
  MaxRequests,        (* bound on the vectors of a connection               *)
  MaxRecvs            (* bound on the recv calls of a run                   *)

ASSUME ServerAssumption ==
  /\ \A k \in KPIs : k.delay \in Int /\ k.load \in Int /\ k.sinr \in Int
  /\ NoBaseline \notin KPIs
  /\ cooldown_balance \in Nat /\ cooldown_increase_power \in Nat
  /\ cooldown_reduce_power \in Nat /\ cooldown_handover \in Nat
  /\ reversal_penalty_ms \in Nat \ {0}
  /\ load_hysteresis \in Int /\ delay_hysteresis \in Int
  /\ min_action_duration \in Nat /\ history_depth \in Nat \ {0}
  /\ PredictedActions \subseteq 0..3
  /\ LastCell \in Cells
  /\ MaxRequests \in Nat /\ MaxRecvs \in Nat

VARIABLES
  delivery,         (* "message" or "stream", for the whole run              *)
  connected,        (* the simulator holds the server's one connection      *)
  sent,             (* KPI vectors sent on the latest connection            *)
  stream,           (* pieces of them not yet received                      *)
  replies,          (* what the server has sent back on it                  *)
  model,            (* "fit", "misfit" (other features) or "untrained"      *)
  request_count, prediction_count,
  decision_log,     (* request ids in ai_decisions.log                      *)
  action_history, last_action_time, current_action,
  current_action_start_time, kpi_baseline, oscillation_score, decision_info

filterVars == <<action_history, last_action_time, current_action,
                current_action_start_time, kpi_baseline, oscillation_score,
                decision_info>>
clientVars == <<delivery, connected, sent>>
serverVars == <<model, request_count, prediction_count, decision_log, filterVars>>
vars == <<clientVars, stream, replies, serverVars>>

Filter == INSTANCE StabilityController WITH
  timestamp_sec <- request_count, MaxTime <- MaxRecvs

AllBalance == [c \in Cells |-> 0]
Actions == 0..3
Pieces == [req : 1..MaxRequests, part : {"whole", "front", "back"},
           cut : {"none", "in_list", "in_last_number", "before_newline"}]
Replies == [status : {"success", "untrained", "error", "garbled"},
            actions : [Cells -> Actions], req : 0..MaxRequests]

TypeOK ==
  /\ delivery \in {"message", "stream"}
  /\ connected \in BOOLEAN
  /\ sent \in Seq([Cells -> KPIs])
  /\ stream \in Seq(Pieces)
  /\ replies \in Seq(Replies)
  /\ model \in {"fit", "misfit", "untrained"}
  /\ request_count \in 0..MaxRecvs
  /\ prediction_count \in 0..request_count
  /\ decision_log \in Seq(1..MaxRecvs)
  /\ Filter!TypeOK

Init ==
  /\ delivery \in {"message", "stream"}
  /\ connected = TRUE
  /\ sent = <<>>
  /\ stream = <<>>
  /\ replies = <<>>
  /\ model \in {"fit", "misfit", "untrained"}
  /\ prediction_count = 0
  /\ decision_log = <<>>
  /\ Filter!Init

-----------------------------------------------------------------------------
(* The simulator.                                                          *)

Cuts(r) ==
  IF delivery = "message" THEN {<<[req |-> r, part |-> "whole", cut |-> "none"]>>}
  ELSE {<<[req |-> r, part |-> "front", cut |-> k], [req |-> r, part |-> "back", cut |-> k]>> :
          k \in {"in_list", "in_last_number", "before_newline"}}

SendVector ==
  /\ connected
  /\ Len(sent) < MaxRequests
  /\ Len(sent) - Len(replies) < MaxOutstanding[delivery]
  /\ \E kpis \in [Cells -> KPIs] : sent' = Append(sent, kpis)
  /\ \E pieces \in Cuts(Len(sent) + 1) :
       /\ request_count + Len(stream \o pieces) <= MaxRecvs
       /\ stream' = stream \o pieces
  /\ UNCHANGED <<delivery, connected, replies, serverVars>>

\* The simulator ends, and what it sent may still be read, or it dies.
Disconnect ==
  /\ connected
  /\ connected' = FALSE
  /\ stream' \in {stream, <<>>}
  /\ UNCHANGED <<delivery, sent, replies, serverVars>>

\* Mutant: the filter starts afresh with each connection.
AcceptAfresh ==
  /\ ~connected /\ stream = <<>>
  /\ connected' = TRUE
  /\ sent' = <<>>
  /\ replies' = <<>>
  /\ current_action' = AllBalance
  /\ UNCHANGED <<delivery, stream, model, request_count, prediction_count, decision_log,
                 action_history, last_action_time, current_action_start_time,
                 kpi_baseline, oscillation_score, decision_info>>

\* recv returned nothing: the loop of start accepts the next simulator, which
\* inherits the counters, the model and the filter.
Accept ==
  /\ ~connected /\ stream = <<>>
  /\ connected' = TRUE
  /\ sent' = <<>>
  /\ replies' = <<>>
  /\ UNCHANGED <<delivery, stream, serverVars>>

-----------------------------------------------------------------------------
(* What one recv means once stripped, split at commas and converted.       *)

NotAVector == {[kind |-> "short", req |-> 0], [kind |-> "garbled", req |-> 0]}

\* A newline left over from the previous vector is stripped.
Stripped(data) ==
  IF Head(data).part = "back" /\ Head(data).cut = "before_newline" THEN Tail(data) ELSE data

Readings(data) ==
  LET text == Stripped(data) IN
  IF text = <<>> THEN {[kind |-> "garbled", req |-> 0]}
  ELSE LET first == Head(text) IN
    CASE first.part = "whole" /\ Len(text) = 1 -> {[kind |-> "vector", req |-> first.req]}
      [] first.part = "front" /\ Len(text) = 2 -> {[kind |-> "vector", req |-> first.req]}
      [] first.part = "front" /\ Len(text) = 1 /\ first.cut = "before_newline" ->
           {[kind |-> "vector", req |-> first.req]}
      [] first.part = "front" /\ Len(text) = 1 /\ first.cut = "in_last_number" ->
           {[kind |-> "truncated", req |-> first.req]}
      [] OTHER -> NotAVector

\* A cut inside the last number lowers the load read for the last cell.
Truncations(kpis) ==
  {[kpis EXCEPT ![LastCell] = k] :
     k \in {x \in KPIs : /\ x.load < kpis[LastCell].load
                         /\ x = [kpis[LastCell] EXCEPT !.load = x.load]}}

KPIsRead(reading) ==
  IF reading.kind = "vector" THEN {sent[reading.req]}
  ELSE Truncations(sent[reading.req]) \cup {sent[reading.req]}

-----------------------------------------------------------------------------
(* process_kpi_data.                                                       *)

Reply(status, actions, req) ==
  replies' = Append(replies, [status |-> status, actions |-> actions, req |-> req])

\* Mutant: the counter is left to the successful path.
NoCount == UNCHANGED request_count

Count == request_count' = request_count + 1

\* An untrained model answers BALANCE before it looks at the vector.
AnswerUntrained(reading) ==
  /\ reading.kind # "garbled"
  /\ model = "untrained"
  /\ Count
  /\ Reply("untrained", AllBalance, reading.req)
  /\ UNCHANGED <<model, prediction_count, decision_log, filterVars>>

RejectSize(reading) ==
  /\ reading.kind = "short"
  /\ model # "untrained"
  /\ Count
  /\ Reply("error", AllBalance, 0)
  /\ UNCHANGED <<model, prediction_count, decision_log, filterVars>>

\* The model was trained on other features: reload it, whatever that yields.
Reload(reading) ==
  /\ reading.kind \in {"vector", "truncated"}
  /\ model = "misfit"
  /\ Count
  /\ model' \in {"fit", "misfit", "untrained"}
  /\ Reply("error", AllBalance, reading.req)
  /\ UNCHANGED <<prediction_count, decision_log, filterVars>>

\* Mutant: the exception escapes, and nothing is sent.
FailSilently(reading) ==
  /\ reading.kind \in {"vector", "truncated"}
  /\ model = "fit"
  /\ Count
  /\ UNCHANGED <<replies, model, prediction_count, decision_log, filterVars>>

\* Any other exception before the filter.
PredictionFails(reading) ==
  /\ reading.kind \in {"vector", "truncated"}
  /\ model = "fit"
  /\ Count
  /\ Reply("error", AllBalance, reading.req)
  /\ UNCHANGED <<model, prediction_count, decision_log, filterVars>>

\* Mutant: the log entry carries the prediction count instead of the request id.
PredictMislogged(reading) ==
  /\ reading.kind \in {"vector", "truncated"}
  /\ model = "fit"
  /\ Count
  /\ \E proposed \in [Cells -> PredictedActions], kpis \in KPIsRead(reading) :
       /\ Filter!ApplyStability(proposed, kpis, request_count + 1)
       /\ Reply("success", ValidateAll(current_action', kpis), reading.req)
  /\ prediction_count' = prediction_count + 1
  /\ decision_log' \in {decision_log, Append(decision_log, prediction_count + 1)}
  /\ UNCHANGED model

\* Predict, filter, validate, log (a failed write is only a warning), answer.
Predict(reading) ==
  /\ reading.kind \in {"vector", "truncated"}
  /\ model = "fit"
  /\ Count
  /\ \E proposed \in [Cells -> PredictedActions], kpis \in KPIsRead(reading) :
       /\ Filter!ApplyStability(proposed, kpis, request_count + 1)
       /\ Reply("success", ValidateAll(current_action', kpis), reading.req)
  /\ prediction_count' = prediction_count + 1
  /\ decision_log' \in {decision_log, Append(decision_log, request_count + 1)}
  /\ UNCHANGED model

\* The vector does not convert: the request is not even counted.
RefuseGarbled(reading) ==
  /\ reading.kind = "garbled"
  /\ Reply("garbled", AllBalance, 0)
  /\ UNCHANGED serverVars

Process(reading) ==
  \/ AnswerUntrained(reading)
  \/ RejectSize(reading)
  \/ Reload(reading)
  \/ PredictionFails(reading)
  \/ Predict(reading)
  \/ RefuseGarbled(reading)

\* One turn of handle_client: one recv, one reply.  A reply to a simulator that
\* is gone is lost, which no one notices.
HandleClient ==
  \E n \in 1..Len(stream) :
    /\ delivery = "message" => n = 1
    /\ stream' = SubSeq(stream, n + 1, Len(stream))
    /\ \E reading \in Readings(SubSeq(stream, 1, n)) : Process(reading)
    /\ UNCHANGED clientVars

Next == SendVector \/ Disconnect \/ Accept \/ HandleClient

Spec == Init /\ [][Next]_vars /\ WF_vars(HandleClient)

-----------------------------------------------------------------------------
(* Properties.                                                             *)

\* The loop of the server drives the filter as its own specification says: at
\* most once per tick of the request counter, and touching it nowhere else.
FilterSpec == Filter!Spec

\* As long as each vector arrives whole, the i-th reply is a line of actions for
\* the i-th vector, whatever fails and however often the simulator reconnects.
RepliesMatchRequests ==
  delivery = "message" =>
    \A i \in 1..Len(replies) : replies[i].status # "garbled" /\ replies[i].req = i

\* The gates hold for the loads the simulator measured: no cell above capacity is
\* told to take a handover, unless TCP has cut its load short.
NoHandoverAtCapacity ==
  delivery = "message" =>
    \A i \in 1..Len(replies) : \A c \in Cells :
      replies[i].actions[c] = 3 => sent[replies[i].req][c].load <= max_cell_load

\* The decision log holds one entry per successful prediction at most, in the
\* order of the requests, and none for a request that failed.
LogIsOrdered ==
  /\ \A i, j \in 1..Len(decision_log) : i < j => decision_log[i] < decision_log[j]
  /\ Len(decision_log) <= prediction_count
  /\ delivery = "message" =>
       LET earlier == request_count - Len(replies)   \* requests before this connection
       IN \A i \in 1..Len(decision_log) :
            decision_log[i] > earlier => replies[decision_log[i] - earlier].status = "success"

\* Every vector the simulator sends is answered, or the simulator has gone.
EveryVectorAnswered ==
  \A i \in 1..MaxRequests : Len(sent) >= i ~> (Len(replies) >= i \/ ~connected)

=============================================================================
