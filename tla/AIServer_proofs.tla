--------------------------- MODULE AIServer_proofs ---------------------------
(***************************************************************************)
(* The server, for every number of cells, vectors and recv calls, every    *)
(* predictor and every configuration of the filter: it drives the filter   *)
(* as the filter's own specification says, so that all that is proved of   *)
(* the filter holds in the server, and replies pair with vectors.          *)
(***************************************************************************)
EXTENDS AIServer, SequenceTheorems, TLAPS

\* The theorems about the filter. They do not speak of the history variables of
\* StabilityResponse, which anything may stand for here.
FilterProofs == INSTANCE StabilityController_proofs WITH
  timestamp_sec <- request_count, MaxTime <- MaxRecvs,
  last_call <- request_count, held_since <- current_action_start_time, last_kpi <- kpi_baseline

\* Every piece is of a vector that was sent, and the run ends before the recv
\* calls that are left outgrow their bound.
Received ==
  /\ request_count + Len(stream) <= MaxRecvs
  /\ Len(sent) <= MaxRequests
  /\ \A i \in 1..Len(stream) : stream[i].req \in 1..Len(sent)

\* Vectors that arrive whole wait in order behind those that have been answered.
Whole(r) == [req |-> r, part |-> "whole", cut |-> "none"]
Paired ==
  delivery = "message" =>
    /\ \A i \in 1..Len(stream) : stream[i] = Whole(Len(replies) + i)
    /\ Len(replies) + Len(stream) <= Len(sent)
    /\ connected => Len(replies) + Len(stream) = Len(sent)
    /\ Len(replies) <= request_count

\* The log holds requests of the past.
LogIsPast == \A i \in 1..Len(decision_log) : decision_log[i] <= request_count

IInv ==
  /\ TypeOK /\ Received /\ Paired /\ LogIsPast
  /\ RepliesMatchRequests /\ NoHandoverAtCapacity /\ LogIsOrdered

-----------------------------------------------------------------------------
(* The filter, as the server instantiates it.                              *)

\* What the filter's theorems assume of its configuration.
LEMMA FilterConfig == FilterProofs!ConfigAssumption
  BY ServerAssumption DEF FilterProofs!ConfigAssumption

\* Both instances of the filter are the same.
LEMMA SameFilter ==
  /\ Filter!Init => FilterProofs!Init
  /\ [Filter!Next]_(Filter!vars) => [FilterProofs!Next]_(FilterProofs!vars)
  /\ Filter!TypeOK <=> FilterProofs!TypeOK
  /\ Filter!TypeOK' <=> FilterProofs!TypeOK'
<1>1. Filter!Init => FilterProofs!Init
  BY DEF Filter!Init, FilterProofs!Init, Filter!Never, FilterProofs!Never,
     Filter!Action, FilterProofs!Action, Filter!BALANCE, FilterProofs!BALANCE,
     Filter!REDUCE_POWER, FilterProofs!REDUCE_POWER, Filter!HANDOVER, FilterProofs!HANDOVER,
     Filter!INCREASE_POWER, FilterProofs!INCREASE_POWER
<1>2. [Filter!Next]_(Filter!vars) => [FilterProofs!Next]_(FilterProofs!vars)
  BY DEF Filter!Next, FilterProofs!Next, Filter!Decide, FilterProofs!Decide,
     Filter!Elapse, FilterProofs!Elapse, Filter!ApplyStability, FilterProofs!ApplyStability,
     Filter!CheckConstraints, FilterProofs!CheckConstraints, Filter!Cooling,
     FilterProofs!Cooling, Filter!Elapsed, FilterProofs!Elapsed, Filter!GetCooldown,
     FilterProofs!GetCooldown, Filter!ReversalTooCostly, FilterProofs!ReversalTooCostly,
     Filter!IsReversal, FilterProofs!IsReversal, Filter!Reversals, FilterProofs!Reversals,
     Filter!EstimateBenefit, FilterProofs!EstimateBenefit, Filter!PassesHysteresis,
     FilterProofs!PassesHysteresis, Filter!Improved, FilterProofs!Improved,
     Filter!ActionTooShort, FilterProofs!ActionTooShort, Filter!TakesBaseline,
     FilterProofs!TakesBaseline, Filter!AppendRecord, FilterProofs!AppendRecord,
     Filter!Score, FilterProofs!Score, Filter!Action, FilterProofs!Action,
     Filter!BALANCE, FilterProofs!BALANCE, Filter!INCREASE_POWER, FilterProofs!INCREASE_POWER,
     Filter!REDUCE_POWER, FilterProofs!REDUCE_POWER, Filter!HANDOVER, FilterProofs!HANDOVER,
     Filter!Never, FilterProofs!Never, Filter!filterVars, FilterProofs!filterVars,
     Filter!vars, FilterProofs!vars
<1>3. /\ Filter!TypeOK <=> FilterProofs!TypeOK
      /\ Filter!TypeOK' <=> FilterProofs!TypeOK'
  BY DEF Filter!TypeOK, FilterProofs!TypeOK, Filter!Time, FilterProofs!Time,
     Filter!ActionRecord, FilterProofs!ActionRecord, Filter!Action, FilterProofs!Action,
     Filter!Never, FilterProofs!Never, Filter!Decision, FilterProofs!Decision,
     Filter!Reasons, FilterProofs!Reasons, Filter!BALANCE, FilterProofs!BALANCE,
     Filter!INCREASE_POWER, FilterProofs!INCREASE_POWER, Filter!REDUCE_POWER,
     FilterProofs!REDUCE_POWER, Filter!HANDOVER, FilterProofs!HANDOVER
<1> QED BY <1>1, <1>2, <1>3

\* Its types hold at first and are kept by its steps.
LEMMA FilterTypes ==
  /\ Filter!Init => Filter!TypeOK
  /\ Filter!TypeOK /\ [Filter!Next]_(Filter!vars) => Filter!TypeOK'
  BY FilterConfig, SameFilter, FilterProofs!InitTypeOK, FilterProofs!NextTypeOK

\* The actions of the filter are those of the protocol.
LEMMA FilterActions == Filter!Action = 0..3
  BY DEF Filter!Action, Filter!BALANCE, Filter!INCREASE_POWER, Filter!REDUCE_POWER,
     Filter!HANDOVER

-----------------------------------------------------------------------------
(* What is sent and what is read.                                          *)

\* The pieces of a vector are of that vector; an uncut one has one piece.
LEMMA CutPieces ==
  ASSUME NEW r \in 1..MaxRequests, NEW p \in Cuts(r)
  PROVE  /\ p \in Seq(Pieces)
         /\ \A i \in 1..Len(p) : p[i].req = r
         /\ delivery = "message" => p = <<Whole(r)>>
<1>1. CASE delivery = "message"
  <2>1. p = <<Whole(r)>> /\ Whole(r) \in Pieces
    BY <1>1 DEF Cuts, Whole, Pieces
  <2> QED BY <2>1 DEF Whole
<1>2. CASE delivery # "message"
  <2>1. PICK k \in {"in_list", "in_last_number", "before_newline"} :
          p = <<[req |-> r, part |-> "front", cut |-> k], [req |-> r, part |-> "back", cut |-> k]>>
    BY <1>2 DEF Cuts
  <2>2. /\ [req |-> r, part |-> "front", cut |-> k] \in Pieces
        /\ [req |-> r, part |-> "back", cut |-> k] \in Pieces
    BY DEF Pieces
  <2> QED BY <1>2, <2>1, <2>2
<1> QED BY <1>1, <1>2

\* A reading is of a vector that was sent, or of none; of vectors that arrive
\* whole, the next one is read.
LEMMA ReadingFacts ==
  ASSUME TypeOK, Received, Paired,
         NEW n \in 1..Len(stream), delivery = "message" => n = 1,
         NEW reading \in Readings(SubSeq(stream, 1, n))
  PROVE  /\ reading.kind \in {"vector", "truncated", "short", "garbled"}
         /\ reading.kind \in {"vector", "truncated"} => reading.req \in 1..Len(sent)
         /\ reading.kind \in {"short", "garbled"} => reading.req = 0
         /\ delivery = "message" => reading.kind = "vector" /\ reading.req = Len(replies) + 1
<1> DEFINE data == SubSeq(stream, 1, n)
           text == Stripped(data)
<1>1. /\ stream \in Seq(Pieces) /\ Len(stream) \in Nat /\ n \in Nat
      /\ \A i \in 1..Len(stream) : stream[i] \in Pieces
  BY LenProperties, ElementOfSeq DEF TypeOK
<1>2. /\ data \in Seq(Pieces)
      /\ Len(data) = n
      /\ \A i \in 1..n : data[i] = stream[i]
  <2>1. \A i \in 1..n : stream[i] \in Pieces
    BY <1>1
  <2> QED BY <1>1, <2>1, SubSeqProperties
<1>3. data # <<>> /\ Head(data) = stream[1]
  BY <1>1, <1>2
<1>4. text \in {data, Tail(data)}
  BY DEF Stripped
<1> HIDE DEF data
<1>5. text # <<>> => \E i \in 1..Len(stream) : Head(text) = stream[i]
  <2>1. CASE text = data
    BY <2>1, <1>1, <1>3
  <2>2. CASE text = Tail(data) /\ text # <<>>
    <3>1. /\ Tail(data) \in Seq(Pieces)
          /\ Len(Tail(data)) = n - 1
          /\ \A i \in 1..Len(Tail(data)) : Tail(data)[i] = data[i + 1]
      BY <1>2, <1>3, HeadTailProperties
    <3>2. Len(Tail(data)) \in Nat \ {0}
      BY <2>2, <3>1, EmptySeq
    <3>3. Head(Tail(data)) = Tail(data)[1] /\ 1 \in 1..Len(Tail(data)) /\ 2 \in 1..n
      BY <3>1, <3>2
    <3>4. Head(text) = stream[2] /\ 2 \in 1..Len(stream)
      BY <2>2, <3>1, <3>3, <1>1, <1>2
    <3> QED BY <3>4
  <2> QED BY <1>4, <2>1, <2>2
<1>6. text # <<>> => Head(text).req \in 1..Len(sent)
  BY <1>5 DEF Received
<1>7. /\ reading.kind \in {"vector", "truncated", "short", "garbled"}
      /\ reading.kind \in {"vector", "truncated"} => reading.req \in 1..Len(sent)
      /\ reading.kind \in {"short", "garbled"} => reading.req = 0
  <2>1. reading \in Readings(data)
    BY DEF data
  <2>2. CASE text = <<>>
    BY <2>1, <2>2 DEF Readings
  <2>3. CASE text # <<>>
    <3>1. \/ reading \in NotAVector
          \/ reading = [kind |-> "vector", req |-> Head(text).req]
          \/ reading = [kind |-> "truncated", req |-> Head(text).req]
      BY <2>1, <2>3 DEF Readings
    <3> HIDE DEF text
    <3>2. CASE reading \in NotAVector
      BY <3>2 DEF NotAVector
    <3>3. CASE reading = [kind |-> "vector", req |-> Head(text).req]
      BY <3>3, <1>6, <2>3
    <3>4. CASE reading = [kind |-> "truncated", req |-> Head(text).req]
      BY <3>4, <1>6, <2>3
    <3> QED BY <3>1, <3>2, <3>3, <3>4
  <2> QED BY <2>2, <2>3
<1>8. ASSUME delivery = "message"
      PROVE  reading.kind = "vector" /\ reading.req = Len(replies) + 1
  <2>1. n = 1 /\ stream[1] = Whole(Len(replies) + 1) /\ Len(data) = 1
    BY <1>8, <1>1, <1>2 DEF Paired
  <2>2. Head(data).part = "whole" /\ Head(data).req = Len(replies) + 1
    BY <2>1, <1>3 DEF Whole
  <2>3. text = data
    BY <2>2 DEF Stripped
  <2>4. reading \in Readings(data)
    BY DEF data
  <2>5. reading = [kind |-> "vector", req |-> Head(data).req]
    BY <2>1, <2>2, <2>3, <2>4, <1>3 DEF Readings
  <2> QED BY <2>2, <2>5
<1> QED BY <1>7, <1>8

\* What is read of a vector that was sent gives every cell a KPI record.
LEMMA KPIsReadType ==
  ASSUME TypeOK, NEW reading, reading.req \in 1..Len(sent), NEW kpis \in KPIsRead(reading)
  PROVE  kpis \in [Cells -> KPIs]
<1>1. sent[reading.req] \in [Cells -> KPIs]
  BY ElementOfSeq DEF TypeOK
<1>2. ASSUME NEW k \in [Cells -> KPIs] PROVE Truncations(k) \subseteq [Cells -> KPIs]
  BY DEF Truncations
<1> QED BY <1>1, <1>2 DEF KPIsRead

\* The gate keeps actions actions, and none of them a handover above capacity.
LEMMA Validated ==
  ASSUME NEW actions \in [Cells -> 0..3], NEW kpis \in [Cells -> KPIs]
  PROVE  /\ ValidateAll(actions, kpis) \in [Cells -> Actions]
         /\ \A c \in Cells :
              ValidateAll(actions, kpis)[c] = 3 => kpis[c].load <= max_cell_load
<1>1. \A c \in Cells : kpis[c].load \in Int
  BY ServerAssumption
<1>2. max_cell_load \in Int
  BY DEF max_cell_load
<1>3. ASSUME NEW c \in Cells
      PROVE  /\ ValidateAction(actions[c], kpis[c], NetworkState) \in 0..3
             /\ ValidateAction(actions[c], kpis[c], NetworkState) = 3
                  => kpis[c].load <= max_cell_load
  <2>1. actions[c] \in 0..3
    OBVIOUS
  <2> QED BY <2>1, <1>1, <1>2 DEF ValidateAction, Violates, AtCapacity
<1> QED BY <1>3 DEF ValidateAll, Actions

-----------------------------------------------------------------------------
(* One turn of handle_client.                                              *)

\* The prediction is one step of the filter; the other answers let time pass.
LEMMA ProcessFilter ==
  ASSUME TypeOK, request_count < MaxRecvs,
         NEW reading,
         reading.kind \in {"vector", "truncated"} => reading.req \in 1..Len(sent),
         Process(reading)
  PROVE  [Filter!Next]_(Filter!vars)
<1>1. CASE AnswerUntrained(reading) \/ RejectSize(reading) \/ Reload(reading)
             \/ PredictionFails(reading)
  <2>1. request_count' = request_count + 1 /\ UNCHANGED filterVars
    BY <1>1 DEF AnswerUntrained, RejectSize, Reload, PredictionFails, Count
  <2>2. Filter!Elapse
    BY <2>1 DEF Filter!Elapse, Filter!filterVars, filterVars
  <2> QED BY <2>2 DEF Filter!Next
<1>2. CASE Predict(reading)
  <2>1. PICK proposed \in [Cells -> PredictedActions], kpis \in KPIsRead(reading) :
          Filter!ApplyStability(proposed, kpis, request_count + 1)
    BY <1>2 DEF Predict
  <2>2. kpis \in [Cells -> KPIs]
    BY <1>2, KPIsReadType DEF Predict
  <2>3. proposed \in [Cells -> Filter!Action]
    BY ServerAssumption, FilterActions
  <2>4. request_count' = request_count + 1
    BY <1>2 DEF Predict, Count
  <2>5. Filter!Decide
    BY <2>1, <2>2, <2>3, <2>4 DEF Filter!Decide
  <2> QED BY <2>5 DEF Filter!Next
<1>3. CASE RefuseGarbled(reading)
  BY <1>3 DEF RefuseGarbled, serverVars, filterVars, Filter!vars, Filter!filterVars
<1> QED BY <1>1, <1>2, <1>3 DEF Process

\* One request, one reply: what it says, what is counted and what is logged.
LEMMA ProcessReplies ==
  ASSUME TypeOK, Filter!TypeOK', request_count < MaxRecvs,
         NEW reading,
         reading.kind \in {"vector", "truncated", "short", "garbled"},
         reading.kind \in {"vector", "truncated"} => reading.req \in 1..Len(sent),
         reading.kind \in {"short", "garbled"} => reading.req = 0,
         Len(sent) \in 0..MaxRequests,
         Process(reading)
  PROVE  \E r \in Replies :
           /\ replies' = Append(replies, r)
           /\ reading.kind = "vector" =>
                /\ r.req = reading.req /\ r.status # "garbled"
                /\ \A c \in Cells : r.actions[c] = 3 => sent[r.req][c].load <= max_cell_load
                /\ request_count' = request_count + 1
           /\ model' \in {"fit", "misfit", "untrained"}
           /\ request_count' \in {request_count, request_count + 1}
           /\ \/ decision_log' = decision_log /\ prediction_count' = prediction_count
              \/ /\ request_count' = request_count + 1
                 /\ prediction_count' = prediction_count + 1
                 /\ decision_log' \in {decision_log, Append(decision_log, request_count + 1)}
                 /\ r.status = "success"
<1> DEFINE R(status, actions, req) == [status |-> status, actions |-> actions, req |-> req]
<1>1. /\ AllBalance \in [Cells -> Actions]
      /\ \A c \in Cells : AllBalance[c] # 3
  BY DEF AllBalance, Actions
<1>2. reading.req \in 0..MaxRequests /\ 0 \in 0..MaxRequests
  BY ServerAssumption
<1>3. model \in {"fit", "misfit", "untrained"}
  BY DEF TypeOK
<1>4. ASSUME NEW st \in {"success", "untrained", "error", "garbled"},
             NEW a \in [Cells -> Actions], NEW q \in 0..MaxRequests
      PROVE  R(st, a, q) \in Replies
  BY DEF Replies
<1>5. CASE AnswerUntrained(reading)
  <2>1. R("untrained", AllBalance, reading.req) \in Replies
    BY <1>1, <1>2, <1>4
  <2> QED BY <1>1, <1>3, <1>5, <2>1 DEF AnswerUntrained, Reply, Count, filterVars
<1>6. CASE RejectSize(reading)
  <2>1. R("error", AllBalance, 0) \in Replies
    BY <1>1, <1>2, <1>4
  <2> QED BY <1>1, <1>3, <1>6, <2>1 DEF RejectSize, Reply, Count, filterVars
<1>7. CASE Reload(reading)
  <2>1. R("error", AllBalance, reading.req) \in Replies
    BY <1>1, <1>2, <1>4
  <2> QED BY <1>1, <1>3, <1>7, <2>1 DEF Reload, Reply, Count, filterVars
<1>8. CASE PredictionFails(reading)
  <2>1. R("error", AllBalance, reading.req) \in Replies
    BY <1>1, <1>2, <1>4
  <2> QED BY <1>1, <1>3, <1>8, <2>1 DEF PredictionFails, Reply, Count, filterVars
<1>9. CASE Predict(reading)
  <2>1. PICK kpis \in KPIsRead(reading) :
          Reply("success", ValidateAll(current_action', kpis), reading.req)
    BY <1>9 DEF Predict
  <2>2. kpis \in [Cells -> KPIs]
    BY <1>9, KPIsReadType DEF Predict
  <2>3. current_action' \in [Cells -> 0..3]
    BY FilterActions DEF Filter!TypeOK
  <2> DEFINE a == ValidateAll(current_action', kpis)
  <2>4. a \in [Cells -> Actions] /\ \A c \in Cells : a[c] = 3 => kpis[c].load <= max_cell_load
    BY <2>2, <2>3, Validated
  <2>5. reading.kind = "vector" => kpis = sent[reading.req]
    BY DEF KPIsRead
  <2>6. replies' = Append(replies, R("success", a, reading.req))
    BY <2>1 DEF Reply
  <2>7. /\ model' = model
        /\ request_count' = request_count + 1
        /\ prediction_count' = prediction_count + 1
        /\ decision_log' \in {decision_log, Append(decision_log, request_count + 1)}
    BY <1>9 DEF Predict, Count
  <2> HIDE DEF a
  <2>8. R("success", a, reading.req) \in Replies
    BY <1>2, <1>4, <2>4
  <2> QED BY <1>3, <2>4, <2>5, <2>6, <2>7, <2>8
<1>10. CASE RefuseGarbled(reading)
  <2>1. R("garbled", AllBalance, 0) \in Replies
    BY <1>1, <1>2, <1>4
  <2> QED BY <1>3, <1>10, <2>1 DEF RefuseGarbled, Reply, serverVars, filterVars
<1> QED BY <1>5, <1>6, <1>7, <1>8, <1>9, <1>10 DEF Process

\* What the rest of the stream holds.
LEMMA RestOfStream ==
  ASSUME TypeOK, NEW n \in 1..Len(stream), stream' = SubSeq(stream, n + 1, Len(stream))
  PROVE  /\ stream' \in Seq(Pieces)
         /\ Len(stream') = Len(stream) - n
         /\ \A i \in 1..Len(stream') : stream'[i] = stream[n + i] /\ n + i \in 1..Len(stream)
<1>1. stream \in Seq(Pieces) /\ Len(stream) \in Nat /\ n \in Nat
  BY LenProperties DEF TypeOK
<1>2. \A i \in (n + 1)..Len(stream) : stream[i] \in Pieces
  BY <1>1, ElementOfSeq
<1>3. /\ stream' \in Seq(Pieces)
      /\ Len(stream') = Len(stream) - n
      /\ \A i \in 1..(Len(stream) - (n + 1) + 1) : stream'[i] = stream[(n + 1) + i - 1]
  BY <1>1, <1>2, SubSeqProperties
<1>4. ASSUME NEW i \in 1..Len(stream')
      PROVE  stream'[i] = stream[n + i] /\ n + i \in 1..Len(stream)
  <2>1. i \in 1..(Len(stream) - (n + 1) + 1) /\ (n + 1) + i - 1 = n + i
    BY <1>1, <1>3
  <2> QED BY <2>1, <1>1, <1>3
<1> QED BY <1>3, <1>4

\* A turn of the loop.
LEMMA HandleClientKeeps == IInv /\ HandleClient => IInv' /\ [Filter!Next]_(Filter!vars)
<1> SUFFICES ASSUME IInv, HandleClient PROVE IInv' /\ [Filter!Next]_(Filter!vars)
  OBVIOUS
<1>1. /\ TypeOK /\ Received /\ Paired /\ LogIsPast
      /\ RepliesMatchRequests /\ NoHandoverAtCapacity /\ LogIsOrdered
  BY DEF IInv
<1>2. PICK n \in 1..Len(stream) :
        /\ delivery = "message" => n = 1
        /\ stream' = SubSeq(stream, n + 1, Len(stream))
        /\ \E reading \in Readings(SubSeq(stream, 1, n)) : Process(reading)
  BY DEF HandleClient
<1>3. PICK reading \in Readings(SubSeq(stream, 1, n)) : Process(reading)
  BY <1>2
<1>4. UNCHANGED <<delivery, connected, sent>>
  BY DEF HandleClient, clientVars
<1>5. /\ reading.kind \in {"vector", "truncated", "short", "garbled"}
      /\ reading.kind \in {"vector", "truncated"} => reading.req \in 1..Len(sent)
      /\ reading.kind \in {"short", "garbled"} => reading.req = 0
      /\ delivery = "message" => reading.kind = "vector" /\ reading.req = Len(replies) + 1
  BY <1>1, <1>2, ReadingFacts
<1>6. /\ Len(stream) \in Nat /\ Len(sent) \in Nat /\ Len(replies) \in Nat
      /\ Len(decision_log) \in Nat
      /\ request_count \in Nat /\ request_count < MaxRecvs /\ n \in Nat \ {0}
  <2>1. /\ Len(stream) \in Nat /\ Len(sent) \in Nat /\ Len(replies) \in Nat
        /\ Len(decision_log) \in Nat
    BY <1>1, LenProperties DEF TypeOK
  <2>2. request_count \in Nat
    BY <1>1 DEF TypeOK
  <2> QED BY <1>1, <2>1, <2>2, ServerAssumption DEF Received
<1>7. [Filter!Next]_(Filter!vars)
  BY <1>1, <1>3, <1>5, <1>6, ProcessFilter
<1>8. Filter!TypeOK'
  BY <1>1, <1>7, FilterTypes DEF TypeOK
<1>9. Len(sent) \in 0..MaxRequests
  BY <1>1, <1>6, ServerAssumption DEF Received
<1>10. PICK r \in Replies :
         /\ replies' = Append(replies, r)
         /\ reading.kind = "vector" =>
              /\ r.req = reading.req /\ r.status # "garbled"
              /\ \A c \in Cells : r.actions[c] = 3 => sent[r.req][c].load <= max_cell_load
              /\ request_count' = request_count + 1
         /\ model' \in {"fit", "misfit", "untrained"}
         /\ request_count' \in {request_count, request_count + 1}
         /\ \/ decision_log' = decision_log /\ prediction_count' = prediction_count
            \/ /\ request_count' = request_count + 1
               /\ prediction_count' = prediction_count + 1
               /\ decision_log' \in {decision_log, Append(decision_log, request_count + 1)}
               /\ r.status = "success"
  BY <1>1, <1>3, <1>5, <1>6, <1>8, <1>9, ProcessReplies
<1>11. /\ replies' \in Seq(Replies)
       /\ Len(replies') = Len(replies) + 1
       /\ \A i \in 1..Len(replies) : replies'[i] = replies[i]
       /\ replies'[Len(replies) + 1] = r
  <2>1. replies \in Seq(Replies)
    BY <1>1 DEF TypeOK
  <2> QED BY <1>10, <2>1, AppendProperties
<1>12. /\ stream' \in Seq(Pieces)
       /\ Len(stream') = Len(stream) - n
       /\ \A i \in 1..Len(stream') : stream'[i] = stream[n + i] /\ n + i \in 1..Len(stream)
  BY <1>1, <1>2, RestOfStream
<1>13. request_count + 1 \in 1..MaxRecvs
  BY <1>6, ServerAssumption
<1>14. \/ decision_log' = decision_log
       \/ /\ request_count' = request_count + 1
          /\ prediction_count' = prediction_count + 1
          /\ r.status = "success"
          /\ decision_log' \in Seq(1..MaxRecvs)
          /\ Len(decision_log') = Len(decision_log) + 1
          /\ \A i \in 1..Len(decision_log) : decision_log'[i] = decision_log[i]
          /\ decision_log'[Len(decision_log) + 1] = request_count + 1
  <2>1. decision_log \in Seq(1..MaxRecvs)
    BY <1>1 DEF TypeOK
  <2>2. CASE decision_log' = Append(decision_log, request_count + 1)
                /\ decision_log' # decision_log
    BY <1>10, <1>13, <2>1, <2>2, AppendProperties
  <2>3. CASE decision_log' = decision_log
    BY <2>3
  <2> QED BY <1>10, <2>2, <2>3
<1>15. \A i \in 1..Len(decision_log) : decision_log[i] \in Nat
  <2>1. decision_log \in Seq(1..MaxRecvs)
    BY <1>1 DEF TypeOK
  <2>2. \A i \in 1..Len(decision_log) : decision_log[i] \in 1..MaxRecvs
    BY <2>1, ElementOfSeq
  <2> QED BY <2>2
<1>16. TypeOK'
  <2>1. request_count' \in 0..MaxRecvs
    BY <1>6, <1>10, ServerAssumption
  <2>2. prediction_count' \in 0..request_count'
    <3>1. prediction_count \in Nat /\ prediction_count <= request_count
      BY <1>1, <1>6 DEF TypeOK
    <3> QED BY <3>1, <1>6, <1>10
  <2>3. decision_log' \in Seq(1..MaxRecvs)
    BY <1>1, <1>14 DEF TypeOK
  <2>4. sent' \in Seq([Cells -> KPIs]) /\ connected' \in BOOLEAN /\ delivery' \in {"message", "stream"}
    BY <1>1, <1>4 DEF TypeOK
  <2> QED BY <1>8, <1>10, <1>11, <1>12, <2>1, <2>2, <2>3, <2>4 DEF TypeOK
<1>17. Received'
  <2>1. request_count' + Len(stream') <= MaxRecvs
    BY <1>1, <1>6, <1>10, <1>12, ServerAssumption DEF Received
  <2>2. \A i \in 1..Len(stream') : stream'[i].req \in 1..Len(sent)
    BY <1>1, <1>12 DEF Received
  <2> QED BY <1>1, <1>4, <2>1, <2>2 DEF Received
<1>18. Paired'
  <2> SUFFICES ASSUME delivery = "message"
               PROVE  /\ \A i \in 1..Len(stream') : stream'[i] = Whole(Len(replies') + i)
                      /\ Len(replies') + Len(stream') <= Len(sent)
                      /\ connected => Len(replies') + Len(stream') = Len(sent)
                      /\ Len(replies') <= request_count'
    BY <1>4 DEF Paired
  <2>1. n = 1 /\ Len(stream') = Len(stream) - 1 /\ request_count' = request_count + 1
    BY <1>2, <1>5, <1>10, <1>12
  <2>2. ASSUME NEW i \in 1..Len(stream') PROVE stream'[i] = Whole(Len(replies') + i)
    <3>1. stream'[i] = stream[1 + i] /\ 1 + i \in 1..Len(stream)
      BY <1>12, <2>1
    <3>2. stream[1 + i] = Whole(Len(replies) + (1 + i))
      BY <1>1, <3>1 DEF Paired
    <3>3. Len(replies) + (1 + i) = Len(replies') + i
      BY <1>6, <1>11
    <3> QED BY <3>1, <3>2, <3>3
  <2>3. /\ Len(replies) + Len(stream) <= Len(sent)
        /\ connected => Len(replies) + Len(stream) = Len(sent)
        /\ Len(replies) <= request_count
    BY <1>1 DEF Paired
  <2>4. /\ Len(replies') + Len(stream') = Len(replies) + Len(stream)
        /\ Len(replies') = Len(replies) + 1
    BY <1>6, <1>11, <2>1
  <2>5. Len(replies') <= request_count'
    BY <1>6, <2>1, <2>3, <2>4
  <2> QED BY <2>2, <2>3, <2>4, <2>5
<1>19. LogIsPast'
  <2>1. request_count <= request_count' /\ request_count' \in Nat
    BY <1>6, <1>10
  <2>2. CASE decision_log' = decision_log
    BY <1>1, <1>6, <1>15, <2>1, <2>2 DEF LogIsPast
  <2>3. CASE decision_log' # decision_log
    <3> SUFFICES ASSUME NEW i \in 1..Len(decision_log') PROVE decision_log'[i] <= request_count'
      BY DEF LogIsPast
    <3>1. \/ i \in 1..Len(decision_log) /\ decision_log'[i] = decision_log[i]
          \/ decision_log'[i] = request_count + 1 /\ request_count' = request_count + 1
      BY <1>6, <1>14, <2>3
    <3>2. i \in 1..Len(decision_log) => decision_log[i] \in Nat /\ decision_log[i] <= request_count
      BY <1>1, <1>15 DEF LogIsPast
    <3> QED BY <1>6, <2>1, <3>1, <3>2
  <2> QED BY <2>2, <2>3
<1>20. RepliesMatchRequests'
  BY <1>1, <1>4, <1>5, <1>6, <1>10, <1>11 DEF RepliesMatchRequests
<1>21. NoHandoverAtCapacity'
  BY <1>1, <1>4, <1>5, <1>6, <1>10, <1>11 DEF NoHandoverAtCapacity
<1>22. LogIsOrdered'
  <2>1. \A i, j \in 1..Len(decision_log') : i < j => decision_log'[i] < decision_log'[j]
    <3>1. CASE decision_log' = decision_log
      BY <1>1, <3>1 DEF LogIsOrdered
    <3>2. CASE decision_log' # decision_log
      <4>1. /\ \A i, j \in 1..Len(decision_log) : i < j => decision_log[i] < decision_log[j]
            /\ \A i \in 1..Len(decision_log) : decision_log[i] < request_count + 1
        BY <1>1, <1>6, <1>15 DEF LogIsOrdered, LogIsPast
      <4> QED BY <1>6, <1>14, <3>2, <4>1
    <3> QED BY <3>1, <3>2
  <2>2. Len(decision_log') <= prediction_count'
    <3>1. prediction_count \in Nat /\ Len(decision_log) <= prediction_count
      BY <1>1, <1>6 DEF TypeOK, LogIsOrdered
    <3> QED BY <1>6, <1>10, <1>14, <3>1
  <2>3. ASSUME delivery = "message", NEW i \in 1..Len(decision_log'),
               decision_log'[i] > request_count' - Len(replies')
        PROVE  replies'[decision_log'[i] - (request_count' - Len(replies'))].status = "success"
    <3> DEFINE earlier == request_count - Len(replies)
    <3>1. request_count' - Len(replies') = earlier /\ earlier \in Nat
      <4>1. request_count' = request_count + 1 /\ Len(replies') = Len(replies) + 1
        BY <1>5, <1>10, <1>11, <2>3
      <4>2. Len(replies) <= request_count
        BY <1>1, <2>3 DEF Paired
      <4> QED BY <1>6, <4>1, <4>2
    <3>2. ASSUME NEW j \in 1..Len(decision_log), decision_log'[i] = decision_log[j]
          PROVE  replies'[decision_log'[i] - earlier].status = "success"
      <4>1. decision_log[j] > earlier /\ decision_log[j] <= request_count
        BY <1>1, <2>3, <3>1, <3>2 DEF LogIsPast
      <4>2. decision_log[j] - earlier \in 1..Len(replies)
        BY <1>6, <1>15, <4>1
      <4>3. replies[decision_log[j] - earlier].status = "success"
        BY <1>1, <2>3, <4>1 DEF LogIsOrdered
      <4> QED BY <1>11, <3>2, <4>2, <4>3
    <3>3. ASSUME decision_log' # decision_log, i = Len(decision_log) + 1
          PROVE  replies'[decision_log'[i] - earlier].status = "success"
      <4>1. decision_log'[i] - earlier = Len(replies) + 1 /\ r.status = "success"
        BY <1>6, <1>14, <3>3
      <4> QED BY <1>11, <4>1
    <3>4. \/ \E j \in 1..Len(decision_log) : decision_log'[i] = decision_log[j]
          \/ decision_log' # decision_log /\ i = Len(decision_log) + 1
      BY <1>6, <1>14
    <3> QED BY <3>1, <3>2, <3>3, <3>4
  <2> QED BY <1>4, <2>1, <2>2, <2>3 DEF LogIsOrdered
<1> QED BY <1>7, <1>16, <1>17, <1>18, <1>19, <1>20, <1>21, <1>22 DEF IInv

-----------------------------------------------------------------------------
(* The simulator, and the invariant as a whole.                            *)

\* The server starts with nothing sent and a filter at rest.
LEMMA InitIInv == Init => IInv
<1> SUFFICES ASSUME Init PROVE IInv
  OBVIOUS
<1>1. Filter!TypeOK /\ request_count = 0
  BY FilterTypes DEF Init, Filter!Init
<1>2. TypeOK
  BY <1>1, ServerAssumption DEF Init, TypeOK
<1>3. /\ sent = <<>> /\ stream = <<>> /\ replies = <<>> /\ decision_log = <<>>
      /\ prediction_count = 0
  BY DEF Init
<1>4. Received /\ Paired
  BY <1>1, <1>3, ServerAssumption DEF Received, Paired
<1>5. LogIsPast /\ RepliesMatchRequests /\ NoHandoverAtCapacity /\ LogIsOrdered
  BY <1>3 DEF LogIsPast, RepliesMatchRequests, NoHandoverAtCapacity, LogIsOrdered
<1> QED BY <1>2, <1>4, <1>5 DEF IInv

\* What the simulator's steps leave alone.
LEMMA ServerUnmoved ==
  ASSUME IInv, UNCHANGED serverVars
  PROVE  /\ LogIsPast' /\ Filter!TypeOK'
         /\ UNCHANGED <<model, request_count, prediction_count, decision_log>>
         /\ [Filter!Next]_(Filter!vars)
<1>1. /\ UNCHANGED <<model, request_count, prediction_count, decision_log>>
      /\ [Filter!Next]_(Filter!vars)
  BY DEF serverVars, filterVars, Filter!vars, Filter!filterVars
<1>2. Filter!TypeOK'
  BY <1>1, FilterTypes DEF IInv, TypeOK
<1>3. LogIsPast'
  BY <1>1 DEF IInv, LogIsPast
<1> QED BY <1>1, <1>2, <1>3

\* A vector is sent: its pieces queue up behind the others.
LEMMA SendVectorKeeps == IInv /\ SendVector => IInv'
<1> SUFFICES ASSUME IInv, SendVector PROVE IInv'
  OBVIOUS
<1>1. /\ TypeOK /\ Received /\ Paired
      /\ RepliesMatchRequests /\ NoHandoverAtCapacity /\ LogIsOrdered
  BY DEF IInv
<1>2. /\ UNCHANGED <<delivery, connected, replies, serverVars>>
      /\ connected
      /\ Len(sent) < MaxRequests
  BY DEF SendVector
<1>3. /\ LogIsPast' /\ Filter!TypeOK'
      /\ UNCHANGED <<model, request_count, prediction_count, decision_log>>
  BY <1>2, ServerUnmoved
<1>4. PICK kpis \in [Cells -> KPIs] : sent' = Append(sent, kpis)
  BY DEF SendVector
<1>5. PICK pieces \in Cuts(Len(sent) + 1) :
        /\ request_count + Len(stream \o pieces) <= MaxRecvs
        /\ stream' = stream \o pieces
  BY DEF SendVector
<1>6. /\ sent \in Seq([Cells -> KPIs]) /\ stream \in Seq(Pieces)
      /\ Len(sent) \in Nat /\ Len(stream) \in Nat /\ Len(replies) \in Nat
  BY <1>1, LenProperties DEF TypeOK
<1>7. /\ sent' \in Seq([Cells -> KPIs])
      /\ Len(sent') = Len(sent) + 1
      /\ \A i \in 1..Len(sent) : sent'[i] = sent[i]
  BY <1>4, <1>6, AppendProperties
<1>8. Len(sent) + 1 \in 1..MaxRequests
  BY <1>2, <1>6, ServerAssumption
<1>9. /\ pieces \in Seq(Pieces)
      /\ \A i \in 1..Len(pieces) : pieces[i].req = Len(sent) + 1
      /\ delivery = "message" => pieces = <<Whole(Len(sent) + 1)>>
  BY <1>5, <1>8, CutPieces
<1>10. Len(pieces) \in Nat
  BY <1>9, LenProperties
<1>11. /\ stream' \in Seq(Pieces)
       /\ Len(stream') = Len(stream) + Len(pieces)
       /\ \A i \in 1..(Len(stream) + Len(pieces)) :
            stream'[i] = IF i <= Len(stream) THEN stream[i] ELSE pieces[i - Len(stream)]
  BY <1>5, <1>6, <1>9, ConcatProperties
<1>12. \A i \in 1..Len(stream') :
         \/ i \in 1..Len(stream) /\ stream'[i] = stream[i]
         \/ i - Len(stream) \in 1..Len(pieces) /\ stream'[i] = pieces[i - Len(stream)]
  BY <1>6, <1>10, <1>11
<1>13. TypeOK'
  BY <1>1, <1>2, <1>3, <1>7, <1>11 DEF TypeOK
<1>14. Received'
  <2>1. request_count' + Len(stream') <= MaxRecvs
    BY <1>3, <1>5
  <2>2. Len(sent') <= MaxRequests
    BY <1>7, <1>8
  <2>3. ASSUME NEW i \in 1..Len(stream') PROVE stream'[i].req \in 1..Len(sent')
    <3>1. \A j \in 1..Len(stream) : stream[j].req \in 1..Len(sent)
      BY <1>1 DEF Received
    <3>2. 1..Len(sent) \subseteq 1..Len(sent') /\ Len(sent) + 1 \in 1..Len(sent')
      BY <1>6, <1>7
    <3> QED BY <1>9, <1>12, <3>1, <3>2
  <2> QED BY <2>1, <2>2, <2>3 DEF Received
<1>15. Paired'
  <2> SUFFICES ASSUME delivery = "message"
               PROVE  /\ \A i \in 1..Len(stream') : stream'[i] = Whole(Len(replies) + i)
                      /\ Len(replies) + Len(stream') = Len(sent')
                      /\ Len(replies) <= request_count
    BY <1>2, <1>3, <1>6, <1>7 DEF Paired
  <2>1. /\ \A i \in 1..Len(stream) : stream[i] = Whole(Len(replies) + i)
        /\ Len(replies) + Len(stream) = Len(sent)
        /\ Len(replies) <= request_count
    BY <1>1, <1>2 DEF Paired
  <2>2. pieces = <<Whole(Len(sent) + 1)>>
    BY <1>9
  <2>3. Len(pieces) = 1
    BY <2>2
  <2>4. Len(replies) + Len(stream') = Len(sent')
    <3>1. Len(stream') = Len(stream) + 1 /\ Len(sent') = Len(sent) + 1
      BY <1>7, <1>11, <2>3
    <3> QED BY <1>6, <2>1, <3>1
  <2>5. ASSUME NEW i \in 1..Len(stream') PROVE stream'[i] = Whole(Len(replies) + i)
    <3>1. CASE i - Len(stream) \in 1..Len(pieces) /\ stream'[i] = pieces[i - Len(stream)]
      <4>1. i - Len(stream) = 1 /\ Len(replies) + i = Len(sent) + 1
        <5>1. Len(replies) + Len(stream) = Len(sent) /\ i \in Nat
          BY <1>6, <2>1
        <5>2. i - Len(stream) = 1
          BY <1>6, <2>3, <3>1, <5>1
        <5> QED BY <1>6, <5>1, <5>2
      <4>2. stream'[i] = pieces[1]
        BY <3>1, <4>1
      <4> QED BY <2>2, <4>1, <4>2
    <3> QED BY <1>12, <2>1, <3>1
  <2> QED BY <2>1, <2>4, <2>5
<1>16. RepliesMatchRequests' /\ LogIsOrdered'
  BY <1>1, <1>2, <1>3 DEF RepliesMatchRequests, LogIsOrdered
<1>17. NoHandoverAtCapacity'
  <2> SUFFICES ASSUME delivery = "message", NEW i \in 1..Len(replies), NEW c \in Cells,
                      replies[i].actions[c] = 3
               PROVE  sent'[replies[i].req][c].load <= max_cell_load
    BY <1>2 DEF NoHandoverAtCapacity
  <2>1. sent[replies[i].req][c].load <= max_cell_load /\ replies[i].req = i
    BY <1>1 DEF NoHandoverAtCapacity, RepliesMatchRequests
  <2>2. i \in 1..Len(sent)
    BY <1>1, <1>6 DEF Paired
  <2> QED BY <1>7, <2>1, <2>2
<1> QED BY <1>3, <1>13, <1>14, <1>15, <1>16, <1>17 DEF IInv

\* The simulator goes, and what it sent may go with it.
LEMMA DisconnectKeeps == IInv /\ Disconnect => IInv'
<1> SUFFICES ASSUME IInv, Disconnect PROVE IInv'
  OBVIOUS
<1>1. /\ TypeOK /\ Received /\ Paired
      /\ RepliesMatchRequests /\ NoHandoverAtCapacity /\ LogIsOrdered
  BY DEF IInv
<1>2. UNCHANGED <<delivery, sent, replies, serverVars>> /\ connected' = FALSE
  BY DEF Disconnect
<1>3. /\ LogIsPast' /\ Filter!TypeOK'
      /\ UNCHANGED <<model, request_count, prediction_count, decision_log>>
  BY <1>2, ServerUnmoved
<1>4. stream' = stream \/ (stream' = <<>> /\ Len(stream') = 0)
  BY DEF Disconnect
<1>5. Len(stream) \in Nat /\ Len(sent) \in Nat /\ Len(replies) \in Nat /\ request_count \in Nat
  BY <1>1, LenProperties DEF TypeOK
<1>6. TypeOK'
  <2>1. stream' \in Seq(Pieces)
    <3>1. stream \in Seq(Pieces) /\ <<>> \in Seq(Pieces)
      BY <1>1, EmptySeq DEF TypeOK
    <3> QED BY <1>4, <3>1
  <2> QED BY <1>1, <1>2, <1>3, <2>1 DEF TypeOK
<1>7. Received' /\ Paired'
  BY <1>1, <1>2, <1>3, <1>4, <1>5, ServerAssumption DEF Received, Paired
<1>8. RepliesMatchRequests' /\ NoHandoverAtCapacity' /\ LogIsOrdered'
  BY <1>1, <1>2, <1>3 DEF RepliesMatchRequests, NoHandoverAtCapacity, LogIsOrdered
<1> QED BY <1>3, <1>6, <1>7, <1>8 DEF IInv

\* The next simulator finds the log and the filter of the ones before it.
LEMMA AcceptKeeps == IInv /\ Accept => IInv'
<1> SUFFICES ASSUME IInv, Accept PROVE IInv'
  OBVIOUS
<1>1. TypeOK /\ Received /\ LogIsPast /\ LogIsOrdered
  BY DEF IInv
<1>2. /\ UNCHANGED <<delivery, stream, serverVars>> /\ connected' = TRUE
      /\ stream = <<>> /\ sent' = <<>> /\ replies' = <<>>
  BY DEF Accept
<1>3. /\ LogIsPast' /\ Filter!TypeOK'
      /\ UNCHANGED <<model, request_count, prediction_count, decision_log>>
  BY <1>2, ServerUnmoved
<1>4. request_count \in Nat /\ Len(stream) = 0 /\ Len(sent') = 0 /\ Len(replies') = 0
  BY <1>1, <1>2 DEF TypeOK
<1>5. TypeOK'
  BY <1>1, <1>2, <1>3 DEF TypeOK
<1>6. Received' /\ Paired'
  BY <1>1, <1>2, <1>3, <1>4, ServerAssumption DEF Received, Paired
<1>7. RepliesMatchRequests' /\ NoHandoverAtCapacity'
  BY <1>4 DEF RepliesMatchRequests, NoHandoverAtCapacity
<1>8. LogIsOrdered'
  <2>1. \A i \in 1..Len(decision_log) : ~(decision_log[i] > request_count)
    <3>1. decision_log \in Seq(1..MaxRecvs)
      BY <1>1 DEF TypeOK
    <3>2. \A i \in 1..Len(decision_log) : decision_log[i] \in 1..MaxRecvs
      BY <3>1, ElementOfSeq
    <3> QED BY <1>1, <1>4, <3>2 DEF LogIsPast
  <2>2. request_count' - Len(replies') = request_count
    BY <1>3, <1>4
  <2> QED BY <1>1, <1>3, <2>1, <2>2 DEF LogIsOrdered
<1> QED BY <1>3, <1>5, <1>6, <1>7, <1>8 DEF IInv

\* Every step keeps the invariant and is a step of the filter, or leaves it alone.
LEMMA StepIInv == IInv /\ [Next]_vars => IInv' /\ [Filter!Next]_(Filter!vars)
<1> SUFFICES ASSUME IInv, [Next]_vars PROVE IInv' /\ [Filter!Next]_(Filter!vars)
  OBVIOUS
<1>1. CASE SendVector
  BY <1>1, SendVectorKeeps, ServerUnmoved DEF SendVector
<1>2. CASE Disconnect
  BY <1>2, DisconnectKeeps, ServerUnmoved DEF Disconnect
<1>3. CASE Accept
  BY <1>3, AcceptKeeps, ServerUnmoved DEF Accept
<1>4. CASE HandleClient
  BY <1>4, HandleClientKeeps
<1>5. CASE UNCHANGED vars
  <2>1. UNCHANGED serverVars
    BY <1>5 DEF vars
  <2>2. UNCHANGED <<delivery, connected, sent, stream, replies>>
    BY <1>5 DEF vars, clientVars
  <2>3. /\ LogIsPast' /\ Filter!TypeOK'
        /\ UNCHANGED <<model, request_count, prediction_count, decision_log>>
        /\ [Filter!Next]_(Filter!vars)
    BY <2>1, ServerUnmoved
  <2>4. TypeOK' /\ Received' /\ Paired'
    BY <2>2, <2>3 DEF IInv, TypeOK, Received, Paired
  <2>5. RepliesMatchRequests' /\ NoHandoverAtCapacity' /\ LogIsOrdered'
    BY <2>2, <2>3 DEF IInv, RepliesMatchRequests, NoHandoverAtCapacity, LogIsOrdered
  <2> QED BY <2>3, <2>4, <2>5 DEF IInv
<1> QED BY <1>1, <1>2, <1>3, <1>4, <1>5 DEF Next

-----------------------------------------------------------------------------

\* The invariant holds in every reachable state.
LEMMA Inductive == Spec => []IInv
<1>1. IInv /\ [Next]_vars => IInv'
  BY StepIInv
<1> QED BY InitIInv, <1>1, PTL DEF Spec

\* Types hold, those of the filter included.
THEOREM TypeCorrect == Spec => []TypeOK
<1>1. IInv => TypeOK
  BY DEF IInv
<1> QED BY Inductive, <1>1, PTL

\* As long as vectors arrive whole, the i-th reply answers the i-th vector, whatever
\* request fails and however often the simulator reconnects.
THEOREM RepliesAlwaysMatch == Spec => []RepliesMatchRequests
<1>1. IInv => RepliesMatchRequests
  BY DEF IInv
<1> QED BY Inductive, <1>1, PTL

\* No cell above its capacity is sent a handover, whatever the predictor proposes and
\* whatever action the filter keeps in force.
THEOREM NeverHandoverAtCapacity == Spec => []NoHandoverAtCapacity
<1>1. IInv => NoHandoverAtCapacity
  BY DEF IInv
<1> QED BY Inductive, <1>1, PTL

\* The log holds successful requests only, each once and in order.
THEOREM LogAlwaysOrdered == Spec => []LogIsOrdered
<1>1. IInv => LogIsOrdered
  BY DEF IInv
<1> QED BY Inductive, <1>1, PTL

\* The server drives the filter as the filter's specification says.
THEOREM DrivesTheFilter == Spec => FilterSpec
<1>1. Init => Filter!Init
  BY DEF Init
<1>2. IInv /\ [Next]_vars => [Filter!Next]_(Filter!vars)
  BY StepIInv
<1> QED BY Inductive, <1>1, <1>2, PTL DEF Spec, FilterSpec, Filter!Spec

\* What holds of the filter alone therefore holds in the server: no cell has an action
\* imposed twice within its cooldown, through failing requests and new connections.
THEOREM CooldownsRespectedInServer == Spec => []Filter!CooldownSpacing
<1>1. FilterSpec => FilterProofs!Spec
  BY SameFilter, PTL DEF FilterSpec, Filter!Spec, FilterProofs!Spec
<1>2. FilterProofs!Spec => []FilterProofs!CooldownSpacing
  BY FilterConfig, FilterProofs!CooldownsRespected
<1>3. FilterProofs!CooldownSpacing => Filter!CooldownSpacing
  BY DEF FilterProofs!CooldownSpacing, Filter!CooldownSpacing, FilterProofs!History,
     Filter!History, FilterProofs!GetCooldown, Filter!GetCooldown, FilterProofs!BALANCE,
     Filter!BALANCE, FilterProofs!INCREASE_POWER, Filter!INCREASE_POWER,
     FilterProofs!REDUCE_POWER, Filter!REDUCE_POWER
<1> QED BY DrivesTheFilter, <1>1, <1>2, <1>3, PTL

=============================================================================
