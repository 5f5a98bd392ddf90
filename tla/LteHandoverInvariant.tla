------------------------ MODULE LteHandoverInvariant ------------------------
(***************************************************************************)
(* The inductive invariant of LteHandover: the types of its state, what    *)
(* the X2 messages on their way and the contexts of both eNBs know of      *)
(* each other, and what the UE and the eNBs tell each other over the air;  *)
(* and the theorems that follow from it for every set of cells, every      *)
(* bound on the RNTIs and every timeout and delay that satisfies           *)
(* LteHandoverAssumption.                                                  *)
(***************************************************************************)
EXTENDS LteHandover, SequenceTheorems, TLAPS

(***************************************************************************)
(* The types. Every action keeps them, with a timer running only in the    *)
(* state it is for, given for two actions what the next parts prove.       *)
(***************************************************************************)

\* Where the message at place j was before message i was taken out.
Place(i, j) == IF j < i THEN j ELSE j + 1

\* The messages that are left when message i is taken out.
LEMMA OthersShape ==
  ASSUME NEW S, x2 \in Seq(S), NEW i \in 1..Len(x2)
  PROVE  /\ Others(i) \in Seq(S)
         /\ Len(Others(i)) = Len(x2) - 1
         /\ \A j \in 1..Len(Others(i)) : Others(i)[j] = x2[Place(i, j)]
<1> DEFINE front == SubSeq(x2, 1, i - 1)
           back == SubSeq(x2, i + 1, Len(x2))
<1>1. \A j \in 1..Len(x2) : x2[j] \in S
  OBVIOUS
<1>2. /\ front \in Seq(S) /\ Len(front) = i - 1
      /\ \A j \in 1..(i - 1) : front[j] = x2[j]
  <2>1. \A j \in 1..(i - 1) : x2[j] \in S
    BY <1>1
  <2> QED
    BY <2>1, SubSeqProperties
<1>3. /\ back \in Seq(S) /\ Len(back) = Len(x2) - i
      /\ \A j \in 1..(Len(x2) - i) : back[j] = x2[i + j]
  <2>1. \A j \in (i + 1)..Len(x2) : x2[j] \in S
    BY <1>1
  <2> QED
    BY <2>1, SubSeqProperties
<1> HIDE DEF front, back
<1>4. /\ front \o back \in Seq(S)
      /\ Len(front \o back) = Len(x2) - 1
      /\ \A j \in 1..(Len(x2) - 1) :
            (front \o back)[j] = IF j <= i - 1 THEN front[j] ELSE back[j - (i - 1)]
  BY <1>2, <1>3, ConcatProperties
<1>5. ASSUME NEW j \in 1..(Len(x2) - 1)
      PROVE  (front \o back)[j] = x2[Place(i, j)]
  <2>1. CASE j < i
    BY <2>1, <1>2, <1>4 DEF Place
  <2>2. CASE ~(j < i)
    <3>1. j - (i - 1) \in 1..(Len(x2) - i) /\ i + (j - (i - 1)) = j + 1
      BY <2>2
    <3> QED
      BY <2>2, <3>1, <1>3, <1>4 DEF Place
  <2> QED
    BY <2>1, <2>2
<1>6. Others(i) = front \o back
  BY DEF Others, front, back
<1> QED
  BY <1>4, <1>5, <1>6

\* Every timer is started with a number of ticks.
LEMMA DurationType ==
  ASSUME NEW c \in Cells, NEW timer \in Timers
  PROVE  Duration(c, timer) \in Nat
BY LteHandoverAssumption DEF LteHandoverAssumption, Duration, Timers

(***************************************************************************)
(* Types. A context carries a timer only in the state the timer is for, a   *)
(* UE that is not looking for a cell is in one, and the messages that move  *)
(* a UE name a cell.                                                        *)
(***************************************************************************)
TimedContexts ==
    {k \in Contexts : \A t \in Timers : k.timers[t] # Off => k.state = Awaits(t)}

\* The RRC of a UE that is in a cell unless it looks for one.
UesInCells == {u \in UeRrcs : u.state # "IDLE_CELL_SEARCH" => u.cell \in Cells}

\* RRC messages: a handover command names the target.
RrcKnown == {m \in RrcMessages : m.type = "HandoverCommand" => m.cell \in Cells}

\* X2 messages: a request and its acknowledgement name the target.
X2Known ==
    {m \in X2Messages :
        m.type \in {"HandoverRequest", "HandoverRequestAck"} => m.target \in Cells}

\* The strengthening of TypeOK and TimersMatchStates.
TypeInv ==
    /\ ctx \in [Cells -> [Rntis -> TimedContexts]]
    /\ lastRnti \in [Cells -> RntiOrNone]
    /\ imsiRnti \in [Cells -> RntiOrNone]
    /\ mmeCell \in CellOrNone
    /\ ue \in UesInCells
    /\ rrc \in Seq(RrcKnown)
    /\ x2 \in Seq(X2Known)
    /\ s1 \in Seq(S1Messages)
    /\ stopped \in Handlers \cup {"none"}

\* What the assumption on the constants says about the types.
LEMMA Constants ==
  /\ 0 \in RntiOrNone /\ Rntis \subseteq RntiOrNone
  /\ NoCell \in CellOrNone /\ Cells \subseteq CellOrNone
  /\ RaTicks \in Nat /\ T310 \in Nat /\ X2Delay \in Nat /\ S1Delay \in Nat
BY LteHandoverAssumption
   DEF LteHandoverAssumption, RntiOrNone, Rntis, CellOrNone

\* A removed context runs no timer.
LEMMA AbsentType == Absent \in TimedContexts
BY LteHandoverAssumption
   DEF LteHandoverAssumption, Absent, TimedContexts, Contexts, ContextStates, Off,
       CellOrNone, RntiOrNone, NoCell

\* A context that waits in a state with the timer of that state alone.
LEMMA StartType ==
  ASSUME NEW c \in Cells, NEW timer \in Timers, NEW k \in TimedContexts,
         \A t \in Timers : k.timers[t] = Off,
         NEW peer \in CellOrNone, NEW peerRnti \in RntiOrNone
  PROVE  Start(c, timer, [k EXCEPT !.state = Awaits(timer), !.peer = peer,
                                   !.peerRnti = peerRnti]) \in TimedContexts
BY DurationType DEF Start, TimedContexts, Contexts, Awaits, ContextStates, Timers

\* A new context waits for what its timer is for.
LEMMA NewContextType ==
  ASSUME NEW c \in Cells, NEW timer \in Timers,
         NEW p \in CellOrNone, NEW r \in RntiOrNone
  PROVE  NewContext(c, Awaits(timer), p, r, timer) \in TimedContexts
<1>1. \A t \in Timers : Absent.timers[t] = Off
  BY DEF Absent
<1>2. Start(c, timer, [Absent EXCEPT !.state = Awaits(timer), !.peer = p, !.peerRnti = r])
        \in TimedContexts
  BY <1>1, AbsentType, StartType
<1> QED
  BY <1>2 DEF NewContext

\* Every context out of the five awaited states runs no timer.
Untimed == ContextStates \ {Awaits(t) : t \in Timers}

\* Without a timer a context moves between the untimed states as it likes.
LEMMA UntimedType ==
  ASSUME NEW k \in TimedContexts, k.state \in Untimed, NEW state \in Untimed,
         NEW p \in CellOrNone, NEW r \in RntiOrNone
  PROVE  /\ \A t \in Timers : k.timers[t] = Off
         /\ [k EXCEPT !.state = state] \in TimedContexts
         /\ [k EXCEPT !.state = state, !.peer = p, !.peerRnti = r] \in TimedContexts
BY DEF TimedContexts, Contexts, Untimed

\* A new context gets an RNTI of the cell.
LEMMA AddUeType ==
  ASSUME TypeInv, NEW c \in Cells, ~Full(c), NEW k \in TimedContexts, AddUe(c, k)
  PROVE  /\ ctx' \in [Cells -> [Rntis -> TimedContexts]]
         /\ lastRnti' \in [Cells -> RntiOrNone]
         /\ NewRnti(c) \in Rntis
<1>1. lastRnti[c] \in 0..MaxRnti /\ lastRnti[c] # MaxRnti
  BY DEF TypeInv, Full, RntiOrNone
<1>2. NewRnti(c) \in Rntis /\ NewRnti(c) \in RntiOrNone
  BY <1>1, LteHandoverAssumption DEF LteHandoverAssumption, NewRnti, Rntis, RntiOrNone
<1>3. lastRnti' \in [Cells -> RntiOrNone]
  BY <1>2 DEF TypeInv, AddUe
<1>4. ctx' \in [Cells -> [Rntis -> TimedContexts]]
  BY DEF TypeInv, AddUe
<1> QED
  BY <1>2, <1>3, <1>4

\* A context is replaced by one of the same type.
LEMMA SetContextType ==
  ASSUME TypeInv, NEW c, NEW r, NEW k \in TimedContexts, SetContext(c, r, k)
  PROVE  /\ ctx' \in [Cells -> [Rntis -> TimedContexts]]
         /\ lastRnti' \in [Cells -> RntiOrNone]
BY DEF TypeInv, SetContext

\* What X2 builds is an X2 message.
LEMMA X2Type ==
  ASSUME NEW type \in ToTarget \cup ToSource, NEW s \in CellOrNone,
         NEW r \in RntiOrNone, NEW t \in CellOrNone, NEW n \in RntiOrNone,
         type \in {"HandoverRequest", "HandoverRequestAck"} => t \in Cells
  PROVE  X2(type, s, r, t, n) \in X2Known
BY LteHandoverAssumption DEF LteHandoverAssumption, X2, X2Known, X2Messages

\* What Rrc builds is an RRC message.
LEMMA RrcType ==
  ASSUME NEW type \in ToUe \cup ToEnb, NEW c \in CellOrNone, NEW r \in RntiOrNone,
         type = "HandoverCommand" => c \in Cells
  PROVE  Rrc(type, c, r) \in RrcKnown
BY DEF Rrc, RrcKnown, RrcMessages

\* Taking a message out leaves messages.
LEMMA OthersType ==
  ASSUME TypeInv, NEW i \in 1..Len(x2)
  PROVE  Others(i) \in Seq(X2Known) /\ x2[i] \in X2Known
BY OthersShape DEF TypeInv

\* The message received and those after it.
LEMMA HeadType ==
  ASSUME TypeInv, NEW type, Received(type)
  PROVE  /\ Head(rrc) \in RrcKnown /\ Head(rrc).type = type
         /\ Tail(rrc) \in Seq(RrcKnown)
BY HeadTailProperties DEF TypeInv, Received

\* A failed assertion leaves the types alone.
LEMMA StopType ==
  ASSUME TypeInv, NEW handler \in Handlers, Stop(handler)
  PROVE  TypeInv'
BY DEF TypeInv, Stop, network, core

\* A context that is present has the type of a context.
LEMMA PresentType ==
  ASSUME TypeInv, NEW c, NEW r, Present(c, r)
  PROVE  /\ c \in Cells /\ r \in Rntis /\ c \in CellOrNone /\ r \in RntiOrNone
         /\ ctx[c][r] \in TimedContexts
         /\ ctx[c][r].peer \in CellOrNone /\ ctx[c][r].peerRnti \in RntiOrNone
<1>1. c \in Cells /\ r \in Rntis
  BY DEF Present
<1>2. ctx[c][r] \in TimedContexts
  BY <1>1 DEF TypeInv
<1> QED
  BY <1>1, <1>2, Constants DEF TimedContexts, Contexts

\* The end of a wait stops the one timer that was running.
LEMMA WaitEnds ==
  ASSUME NEW timer \in Timers, NEW k \in TimedContexts, k.state = Awaits(timer),
         NEW state \in ContextStates
  PROVE  /\ Cancel(timer, [k EXCEPT !.state = state]) \in TimedContexts
         /\ Cancel(timer, [k EXCEPT !.state = state]).state = state
         /\ \A t \in Timers : Cancel(timer, [k EXCEPT !.state = state]).timers[t] = Off
<1>1. k \in Contexts /\ \A t \in Timers : t # timer => k.timers[t] = Off
  BY DEF TimedContexts, Timers, Awaits
<1> DEFINE m == [k EXCEPT !.state = state]
<1>2. m \in Contexts /\ m.state = state /\ m.timers = k.timers
  BY <1>1 DEF Contexts
<1> HIDE DEF m
<1>3. /\ Cancel(timer, m) \in Contexts /\ Cancel(timer, m).state = state
      /\ \A t \in Timers : Cancel(timer, m).timers[t] = Off
  BY <1>1, <1>2 DEF Cancel, Contexts, Off
<1> QED
  BY <1>3 DEF m, TimedContexts

\* The context whose Request is answered starts the timer of its answer.
LEMMA AnswerType ==
  ASSUME TypeInv, NEW c, NEW r, Present(c, r),
         ctx[c][r].state = "INITIAL_RANDOM_ACCESS",
         NEW timer \in {"setup", "rejected"}, Answer(c, r, Awaits(timer), timer)
  PROVE  /\ ctx' \in [Cells -> [Rntis -> TimedContexts]]
         /\ lastRnti' \in [Cells -> RntiOrNone]
<1> DEFINE k == Cancel("request", [ctx[c][r] EXCEPT !.state = Awaits(timer)])
<1>1. /\ ctx[c][r] \in TimedContexts /\ ctx[c][r].state = Awaits("request")
      /\ "request" \in Timers /\ timer \in Timers /\ Awaits(timer) \in ContextStates
  BY PresentType DEF Awaits, Timers, ContextStates
<1>2. /\ k \in Contexts /\ k.state = Awaits(timer)
      /\ \A t \in Timers : k.timers[t] = Off
  BY <1>1, WaitEnds DEF TimedContexts
<1> HIDE DEF k
<1>3. Duration(c, timer) \in Nat
  BY <1>1, PresentType, DurationType
<1>4. Start(c, timer, k) \in TimedContexts
  BY <1>1, <1>2, <1>3 DEF Start, TimedContexts, Contexts
<1>5. SetContext(c, r, Start(c, timer, k))
  BY DEF Answer, k
<1> QED
  BY <1>4, <1>5, SetContextType

\* SelectCell keeps the types.
LEMMA SelectCellType ==
  ASSUME TypeInv, NEW c \in Cells, SelectCell(c)
  PROVE  TypeInv'
BY DEF TypeInv, SelectCell, network, core, UesInCells, UeRrcs, UeStates, CellOrNone

\* StartConnection keeps the types.
LEMMA StartConnectionType ==
  ASSUME TypeInv, StartConnection
  PROVE  TypeInv'
BY LteHandoverAssumption
   DEF LteHandoverAssumption, TypeInv, StartConnection, network, core, UesInCells,
       UeRrcs, UeStates

\* ReceivePreamble keeps the types.
LEMMA ReceivePreambleType ==
  ASSUME TypeInv, ReceivePreamble
  PROVE  TypeInv'
<1>1. ue.cell \in Cells
  BY DEF TypeInv, ReceivePreamble, AccessesRandomly, UesInCells
<1>2. CASE ue' = [ue EXCEPT !.rar = ue.rnti] /\ UNCHANGED network
  BY <1>2 DEF TypeInv, ReceivePreamble, network, core, UesInCells, UeRrcs
<1>3. CASE /\ ~Full(ue.cell)
           /\ ue' = [ue EXCEPT !.rar = NewRnti(ue.cell)]
           /\ AddUe(ue.cell, NewContext(ue.cell, "INITIAL_RANDOM_ACCESS", NoCell, 0, "request"))
  <2>1. NewContext(ue.cell, "INITIAL_RANDOM_ACCESS", NoCell, 0, "request") \in TimedContexts
    BY <1>1, NewContextType, LteHandoverAssumption
       DEF LteHandoverAssumption, Awaits, Timers, CellOrNone, RntiOrNone
  <2>2. /\ ctx' \in [Cells -> [Rntis -> TimedContexts]]
        /\ lastRnti' \in [Cells -> RntiOrNone]
        /\ NewRnti(ue.cell) \in RntiOrNone
    BY <1>1, <1>3, <2>1, AddUeType DEF Rntis, RntiOrNone
  <2> QED
    BY <1>3, <2>2 DEF TypeInv, ReceivePreamble, core, UesInCells, UeRrcs
<1> QED
  BY <1>2, <1>3 DEF ReceivePreamble

\* RecvRaResponse keeps the types.
LEMMA RecvRaResponseType ==
  ASSUME TypeInv, RecvRaResponse
  PROVE  TypeInv'
<1>1. /\ ue \in UesInCells /\ ue.cell \in CellOrNone /\ ue.rar \in RntiOrNone
  BY DEF TypeInv, UesInCells, UeRrcs
<1>2. CASE /\ ue.state = "IDLE_RANDOM_ACCESS"
           /\ ue' = [ue EXCEPT !.state = "IDLE_CONNECTING", !.rnti = ue.rar, !.ra = 0, !.rar = 0]
           /\ rrc' = Append(rrc, Rrc("Request", ue.cell, ue.rar))
  <2>1. ue' \in UesInCells
    BY <1>1, <1>2, Constants DEF UesInCells, UeRrcs, UeStates
  <2>2. Rrc("Request", ue.cell, ue.rar) \in RrcKnown
    BY <1>1, RrcType DEF ToEnb, ToUe
  <2> QED
    BY <1>2, <2>1, <2>2 DEF TypeInv, RecvRaResponse, network, core
<1>3. CASE /\ ue.state = "CONNECTED_HANDOVER"
           /\ ue' = [ue EXCEPT !.state = "CONNECTED_NORMALLY", !.rnti = ue.rar, !.ra = 0, !.rar = 0]
           /\ rrc' = Append(rrc, Rrc("ReconfigurationCompleted", ue.cell, ue.rar))
  <2>1. ue' \in UesInCells
    BY <1>1, <1>3, Constants DEF UesInCells, UeRrcs, UeStates
  <2>2. Rrc("ReconfigurationCompleted", ue.cell, ue.rar) \in RrcKnown
    BY <1>1, RrcType DEF ToEnb, ToUe
  <2> QED
    BY <1>3, <2>1, <2>2 DEF TypeInv, RecvRaResponse, network, core
<1> QED
  BY <1>2, <1>3 DEF RecvRaResponse

\* A UE that leaves its connection is looking for a cell.
LEMMA LeaveType ==
  ASSUME TypeInv, LeaveConnectedMode
  PROVE  ue' \in UesInCells
BY LteHandoverAssumption
   DEF LteHandoverAssumption, LeaveConnectedMode, UesInCells, UeRrcs, UeStates,
       CellOrNone, RntiOrNone

\* The UE reports the loss of the connection it has.
LEMMA DropConnectionType ==
  ASSUME TypeInv, DropConnection
  PROVE  ue' \in UesInCells /\ rrc' \in Seq(RrcKnown)
<1>1. Rrc("ContextRemove", ue.cell, ue.rnti) \in RrcKnown
  BY RrcType DEF TypeInv, UesInCells, UeRrcs, ToEnb, ToUe
<1> QED
  BY <1>1, LeaveType DEF TypeInv, DropConnection

\* RandomAccessFailed keeps the types.
LEMMA RandomAccessFailedType ==
  ASSUME TypeInv, RandomAccessFailed
  PROVE  TypeInv'
<1>1. CASE /\ ue.state = "IDLE_RANDOM_ACCESS"
           /\ ue' = [ue EXCEPT !.ra = RaTicks, !.rar = 0]
           /\ UNCHANGED rrc
  BY <1>1, Constants
     DEF TypeInv, RandomAccessFailed, network, core, UesInCells, UeRrcs
<1>2. CASE DropConnection
  BY <1>2, DropConnectionType DEF TypeInv, RandomAccessFailed, network, core
<1> QED
  BY <1>1, <1>2 DEF RandomAccessFailed

\* RadioLinkFailure keeps the types.
LEMMA RadioLinkFailureType ==
  ASSUME TypeInv, RadioLinkFailureDetected
  PROVE  TypeInv'
BY DropConnectionType DEF TypeInv, RadioLinkFailureDetected, network, core

\* What the eNB application and the MME note.
LEMMA AskMmeType ==
  ASSUME TypeInv, NEW c \in CellOrNone, NEW r \in RntiOrNone,
         NEW answer \in {"InitialContextSetup", "PathSwitch"}, AskMme(c, r, answer)
  PROVE  /\ imsiRnti' \in [Cells -> RntiOrNone]
         /\ mmeCell' \in CellOrNone
         /\ s1' \in Seq(S1Messages)
<1>1. [type |-> answer, wait |-> S1Delay] \in S1Messages
  BY Constants DEF S1Messages
<1>2. s1' \in Seq(S1Messages)
  BY <1>1 DEF TypeInv, AskMme
<1>3. imsiRnti' \in [Cells -> RntiOrNone]
  BY DEF TypeInv, AskMme
<1> QED
  BY <1>2, <1>3 DEF AskMme

\* A context that moves between states without a timer.
LEMMA SwitchType ==
  ASSUME TypeInv, NEW c, NEW r, Present(c, r), ctx[c][r].state \in Untimed,
         NEW state \in Untimed, SwitchToState(c, r, state)
  PROVE  /\ ctx' \in [Cells -> [Rntis -> TimedContexts]]
         /\ lastRnti' \in [Cells -> RntiOrNone]
BY PresentType, UntimedType, Constants, SetContextType DEF SwitchToState

\* A context is removed.
LEMMA RemoveUeType ==
  ASSUME TypeInv, NEW c, NEW r, RemoveUe(c, r)
  PROVE  /\ ctx' \in [Cells -> [Rntis -> TimedContexts]]
         /\ lastRnti' \in [Cells -> RntiOrNone]
BY AbsentType, SetContextType DEF RemoveUe

\* InitialContextSetupRequest keeps the types.
LEMMA InitialContextSetupRequestType ==
  ASSUME TypeInv, InitialContextSetupRequest
  PROVE  TypeInv'
<1> DEFINE r == imsiRnti[mmeCell]
<1>1. CASE Stop("InitialContextSetupRequest")
  BY <1>1, StopType DEF Handlers
<1>2. CASE /\ Present(mmeCell, r) /\ ctx[mmeCell][r].state = "ATTACH_REQUEST"
           /\ SwitchToState(mmeCell, r, "CONNECTION_RECONFIGURATION")
           /\ rrc' = Append(rrc, Rrc("Reconfiguration", mmeCell, r))
           /\ TakeAnswer
           /\ UNCHANGED <<ue, x2, stopped>>
  <2>1. "ATTACH_REQUEST" \in Untimed /\ "CONNECTION_RECONFIGURATION" \in Untimed
    BY DEF Untimed, ContextStates, Awaits, Timers
  <2>2. /\ ctx' \in [Cells -> [Rntis -> TimedContexts]]
        /\ lastRnti' \in [Cells -> RntiOrNone]
    BY <1>2, <2>1, SwitchType
  <2>3. Rrc("Reconfiguration", mmeCell, r) \in RrcKnown
    BY <1>2, PresentType, RrcType DEF ToUe
  <2> QED
    BY <1>2, <2>2, <2>3 DEF TypeInv, TakeAnswer, InitialContextSetupRequest, Answered
<1> QED
  BY <1>1, <1>2 DEF InitialContextSetupRequest

\* PathSwitchRequestAcknowledge keeps the types.
LEMMA PathSwitchRequestAcknowledgeType ==
  ASSUME TypeInv, PathSwitchRequestAcknowledge
  PROVE  TypeInv'
<1> DEFINE r == imsiRnti[mmeCell]
           m == X2("ContextRelease", ctx[mmeCell][r].peer, ctx[mmeCell][r].peerRnti, mmeCell, r)
<1>1. CASE Stop("PathSwitchRequestAcknowledge")
  BY <1>1, StopType DEF Handlers
<1>2. CASE /\ Present(mmeCell, r) /\ ctx[mmeCell][r].state = "HANDOVER_PATH_SWITCH"
           /\ SwitchToState(mmeCell, r, "CONNECTION_RECONFIGURATION")
           /\ rrc' = Append(rrc, Rrc("Reconfiguration", mmeCell, r))
           /\ x2' = Append(x2, m)
           /\ TakeAnswer
           /\ UNCHANGED <<ue, stopped>>
  <2>1. "HANDOVER_PATH_SWITCH" \in Untimed /\ "CONNECTION_RECONFIGURATION" \in Untimed
    BY DEF Untimed, ContextStates, Awaits, Timers
  <2>2. /\ ctx' \in [Cells -> [Rntis -> TimedContexts]]
        /\ lastRnti' \in [Cells -> RntiOrNone]
    BY <1>2, <2>1, SwitchType
  <2>3. Rrc("Reconfiguration", mmeCell, r) \in RrcKnown
    BY <1>2, PresentType, RrcType DEF ToUe
  <2>4. m \in X2Known
    BY <1>2, PresentType, X2Type DEF ToSource
  <2> QED
    BY <1>2, <2>2, <2>3, <2>4
       DEF TypeInv, TakeAnswer, PathSwitchRequestAcknowledge, Answered
<1> QED
  BY <1>1, <1>2 DEF PathSwitchRequestAcknowledge

\* RecvRrcConnectionRequest keeps the types.
LEMMA RecvRrcConnectionRequestType ==
  ASSUME TypeInv, RecvRrcConnectionRequest
  PROVE  TypeInv'
<1> DEFINE c == Head(rrc).cell
           r == Head(rrc).rnti
<1>1. CASE Stop("RecvRrcConnectionRequest")
  BY <1>1, StopType DEF Handlers
<1>2. ASSUME Present(c, r), ctx[c][r].state = "INITIAL_RANDOM_ACCESS",
             NEW timer \in {"setup", "rejected"}, NEW type \in {"Setup", "Reject"},
             Answer(c, r, Awaits(timer), timer),
             rrc' = Append(Tail(rrc), Rrc(type, c, r)),
             UNCHANGED <<core, ue, x2, stopped>>
      PROVE  TypeInv'
  <2>1. /\ ctx' \in [Cells -> [Rntis -> TimedContexts]]
        /\ lastRnti' \in [Cells -> RntiOrNone]
    BY <1>2, AnswerType
  <2>2. Rrc(type, c, r) \in RrcKnown
    BY <1>2, PresentType, RrcType DEF ToUe
  <2>3. Tail(rrc) \in Seq(RrcKnown)
    BY HeadType DEF RecvRrcConnectionRequest
  <2> QED
    BY <1>2, <2>1, <2>2, <2>3 DEF TypeInv, core
<1> QED
  BY <1>1, <1>2 DEF RecvRrcConnectionRequest, Awaits

\* RecvRrcConnectionSetup keeps the types.
LEMMA RecvRrcConnectionSetupType ==
  ASSUME TypeInv, RecvRrcConnectionSetup
  PROVE  TypeInv'
<1>1. CASE Stop("RecvRrcConnectionSetup")
  BY <1>1, StopType DEF Handlers
<1>2. CASE /\ ue.state = "IDLE_CONNECTING"
           /\ ue' = [ue EXCEPT !.state = "CONNECTED_NORMALLY", !.leave = FALSE, !.rlf = T310]
           /\ rrc' = Append(Tail(rrc), Rrc("SetupCompleted", ue.cell, ue.rnti))
           /\ UNCHANGED <<network, core, x2, stopped>>
  <2>1. ue' \in UesInCells
    BY <1>2, Constants DEF TypeInv, UesInCells, UeRrcs, UeStates
  <2>2. Rrc("SetupCompleted", ue.cell, ue.rnti) \in RrcKnown
    BY RrcType DEF TypeInv, UesInCells, UeRrcs, ToUe, ToEnb
  <2>3. Tail(rrc) \in Seq(RrcKnown)
    BY HeadType DEF RecvRrcConnectionSetup
  <2> QED
    BY <1>2, <2>1, <2>2, <2>3 DEF TypeInv, network, core
<1> QED
  BY <1>1, <1>2 DEF RecvRrcConnectionSetup

\* Reject answers the Request of a UE that connects.
LEMMA RecvRrcConnectionRejectType ==
  ASSUME TypeInv, RecvRrcConnectionReject, ue.state = "IDLE_CONNECTING"
  PROVE  TypeInv'
BY HeadType, Constants
   DEF TypeInv, RecvRrcConnectionReject, network, core, UesInCells, UeRrcs, UeStates

\* RecvRrcConnectionSetupCompleted keeps the types.
LEMMA RecvRrcConnectionSetupCompletedType ==
  ASSUME TypeInv, RecvRrcConnectionSetupCompleted
  PROVE  TypeInv'
<1> DEFINE c == Head(rrc).cell
           r == Head(rrc).rnti
           k == Cancel("setup", [ctx[c][r] EXCEPT !.state = "ATTACH_REQUEST"])
<1>1. CASE Stop("RecvRrcConnectionSetupCompleted")
  BY <1>1, StopType DEF Handlers
<1>2. CASE /\ Present(c, r) /\ ctx[c][r].state = "CONNECTION_SETUP"
           /\ SetContext(c, r, k)
           /\ AskMme(c, r, "InitialContextSetup")
           /\ rrc' = Tail(rrc)
           /\ UNCHANGED <<ue, x2, stopped>>
  <2>1. /\ ctx[c][r] \in TimedContexts /\ ctx[c][r].state = Awaits("setup")
        /\ "setup" \in Timers /\ "ATTACH_REQUEST" \in ContextStates
    BY <1>2, PresentType DEF Awaits, Timers, ContextStates
  <2>2. k \in TimedContexts
    BY <2>1, WaitEnds
  <2>3. /\ ctx' \in [Cells -> [Rntis -> TimedContexts]]
        /\ lastRnti' \in [Cells -> RntiOrNone]
    BY <1>2, <2>2, SetContextType
  <2>4. /\ imsiRnti' \in [Cells -> RntiOrNone]
        /\ mmeCell' \in CellOrNone
        /\ s1' \in Seq(S1Messages)
    BY <1>2, PresentType, AskMmeType
  <2>5. Tail(rrc) \in Seq(RrcKnown)
    BY HeadType DEF RecvRrcConnectionSetupCompleted
  <2> QED
    BY <1>2, <2>3, <2>4, <2>5 DEF TypeInv
<1> QED
  BY <1>1, <1>2 DEF RecvRrcConnectionSetupCompleted

\* RecvRrcConnectionReconfigurationCompleted keeps the types.
LEMMA RecvRrcConnectionReconfigurationCompletedType ==
  ASSUME TypeInv, RecvRrcConnectionReconfigurationCompleted
  PROVE  TypeInv'
<1> DEFINE c == Head(rrc).cell
           r == Head(rrc).rnti
           state == IF Present(c, r) THEN ctx[c][r].state ELSE "ABSENT"
           k == Cancel("joining", [ctx[c][r] EXCEPT !.state = "HANDOVER_PATH_SWITCH"])
<1>0. Tail(rrc) \in Seq(RrcKnown)
  BY HeadType DEF RecvRrcConnectionReconfigurationCompleted
<1>1. CASE Stop("RecvRrcConnectionReconfigurationCompleted")
  BY <1>1, StopType DEF Handlers
<1>2. CASE /\ state = "CONNECTION_RECONFIGURATION"
           /\ SwitchToState(c, r, "CONNECTED_NORMALLY")
           /\ rrc' = Tail(rrc)
           /\ UNCHANGED <<core, ue, x2, stopped>>
  <2>1. Present(c, r) /\ ctx[c][r].state = "CONNECTION_RECONFIGURATION"
    BY <1>2
  <2>2. "CONNECTION_RECONFIGURATION" \in Untimed /\ "CONNECTED_NORMALLY" \in Untimed
    BY DEF Untimed, ContextStates, Awaits, Timers
  <2>3. /\ ctx' \in [Cells -> [Rntis -> TimedContexts]]
        /\ lastRnti' \in [Cells -> RntiOrNone]
    BY <1>2, <2>1, <2>2, SwitchType
  <2> QED
    BY <1>0, <1>2, <2>3 DEF TypeInv, core
<1>3. CASE /\ state = "HANDOVER_JOINING"
           /\ SetContext(c, r, k)
           /\ AskMme(c, r, "PathSwitch")
           /\ rrc' = Tail(rrc)
           /\ UNCHANGED <<ue, x2, stopped>>
  <2>1. Present(c, r) /\ ctx[c][r].state = "HANDOVER_JOINING"
    BY <1>3
  <2>2. /\ ctx[c][r] \in TimedContexts /\ ctx[c][r].state = Awaits("joining")
        /\ "joining" \in Timers /\ "HANDOVER_PATH_SWITCH" \in ContextStates
    BY <2>1, PresentType DEF Awaits, Timers, ContextStates
  <2>3. k \in TimedContexts
    BY <2>2, WaitEnds
  <2>4. /\ ctx' \in [Cells -> [Rntis -> TimedContexts]]
        /\ lastRnti' \in [Cells -> RntiOrNone]
    BY <1>3, <2>3, SetContextType
  <2>5. /\ imsiRnti' \in [Cells -> RntiOrNone]
        /\ mmeCell' \in CellOrNone
        /\ s1' \in Seq(S1Messages)
    BY <1>3, <2>1, PresentType, AskMmeType
  <2> QED
    BY <1>0, <1>3, <2>4, <2>5 DEF TypeInv
<1>4. CASE rrc' = Tail(rrc) /\ UNCHANGED <<network, core, ue, x2, stopped>>
  BY <1>0, <1>4 DEF TypeInv, network, core
<1> QED
  BY <1>1, <1>2, <1>3, <1>4 DEF RecvRrcConnectionReconfigurationCompleted

\* RecvRrcConnectionReconfiguration keeps the types.
LEMMA RecvRrcConnectionReconfigurationType ==
  ASSUME TypeInv, RecvRrcConnectionReconfiguration
  PROVE  TypeInv'
<1>1. CASE Stop("RecvRrcConnectionReconfiguration")
  BY <1>1, StopType DEF Handlers
<1>2. CASE /\ rrc' = Append(Tail(rrc), Rrc("ReconfigurationCompleted", ue.cell, ue.rnti))
           /\ UNCHANGED <<network, core, ue, x2, stopped>>
  <2>1. Rrc("ReconfigurationCompleted", ue.cell, ue.rnti) \in RrcKnown
    BY RrcType DEF TypeInv, UesInCells, UeRrcs, ToUe, ToEnb
  <2>2. Tail(rrc) \in Seq(RrcKnown)
    BY HeadType DEF RecvRrcConnectionReconfiguration
  <2> QED
    BY <1>2, <2>1, <2>2 DEF TypeInv, network, core
<1> QED
  BY <1>1, <1>2 DEF RecvRrcConnectionReconfiguration

\* RecvHandoverCommand keeps the types.
LEMMA RecvHandoverCommandType ==
  ASSUME TypeInv, RecvHandoverCommand
  PROVE  TypeInv'
<1>1. CASE Stop("RecvRrcConnectionReconfiguration")
  BY <1>1, StopType DEF Handlers
<1>2. CASE /\ ue' = [ue EXCEPT !.state = "CONNECTED_HANDOVER", !.cell = Head(rrc).cell,
                               !.rnti = Head(rrc).rnti, !.ra = RaTicks, !.rar = 0,
                               !.rlf = T310]
           /\ rrc' = Tail(rrc)
           /\ UNCHANGED <<network, core, x2, stopped>>
  <2>1. /\ Head(rrc).cell \in Cells /\ Head(rrc).cell \in CellOrNone
        /\ Head(rrc).rnti \in RntiOrNone
        /\ Tail(rrc) \in Seq(RrcKnown)
    BY HeadType DEF RecvHandoverCommand, RrcKnown, RrcMessages
  <2>2. ue' \in UesInCells
    BY <1>2, <2>1, Constants DEF TypeInv, UesInCells, UeRrcs, UeStates
  <2> QED
    BY <1>2, <2>1, <2>2 DEF TypeInv, network, core
<1> QED
  BY <1>1, <1>2 DEF RecvHandoverCommand

\* RecvRrcConnectionRelease keeps the types.
LEMMA RecvRrcConnectionReleaseType ==
  ASSUME TypeInv, RecvRrcConnectionRelease
  PROVE  TypeInv'
<1>0. Tail(rrc) \in Seq(RrcKnown)
  BY HeadType DEF RecvRrcConnectionRelease
<1>1. CASE rrc' = Tail(rrc) /\ UNCHANGED ue
  BY <1>0, <1>1 DEF TypeInv, RecvRrcConnectionRelease, network, core
<1>2. CASE /\ rrc' = Append(Tail(rrc), Rrc("ContextRemove", ue.cell, ue.rnti))
           /\ LeaveConnectedMode
  <2>1. Rrc("ContextRemove", ue.cell, ue.rnti) \in RrcKnown
    BY RrcType DEF TypeInv, UesInCells, UeRrcs, ToUe, ToEnb
  <2> QED
    BY <1>0, <1>2, <2>1, LeaveType DEF TypeInv, RecvRrcConnectionRelease, network, core
<1> QED
  BY <1>1, <1>2 DEF RecvRrcConnectionRelease

\* The failure of a context present is an X2 message.
LEMMA PreparationFailureType ==
  ASSUME TypeInv, NEW c, NEW r, Present(c, r)
  PROVE  PreparationFailure(c, r) \in X2Known
BY PresentType, X2Type, Constants DEF PreparationFailure, ToSource

\* RecvIdealUeContextRemoveRequest keeps the types.
LEMMA RecvIdealUeContextRemoveRequestType ==
  ASSUME TypeInv, RecvIdealUeContextRemoveRequest
  PROVE  TypeInv'
<1> DEFINE c == Head(rrc).cell
           r == Head(rrc).rnti
<1>0. Tail(rrc) \in Seq(RrcKnown)
  BY HeadType DEF RecvIdealUeContextRemoveRequest
<1>1. CASE Present(c, r)
  <2>1. x2' = Append(x2, PreparationFailure(c, r)) \/ x2' = x2
    BY <1>1 DEF RecvIdealUeContextRemoveRequest
  <2>2. PreparationFailure(c, r) \in X2Known
    BY <1>1, PreparationFailureType
  <2>3. RemoveUe(c, r)
    BY <1>1 DEF RecvIdealUeContextRemoveRequest
  <2>4. x2 \in Seq(X2Known)
    BY DEF TypeInv
  <2> HIDE DEF c, r
  <2>5. x2' \in Seq(X2Known)
    BY <2>1, <2>2, <2>4, AppendProperties
  <2> QED
    BY <1>0, <2>3, <2>5, RemoveUeType DEF TypeInv, RecvIdealUeContextRemoveRequest, core
<1>2. CASE ~Present(c, r)
  BY <1>0, <1>2 DEF TypeInv, RecvIdealUeContextRemoveRequest, network, core
<1> QED
  BY <1>1, <1>2

\* TriggerHandover keeps the types.
LEMMA TriggerHandoverType ==
  ASSUME TypeInv, NEW c \in Cells, NEW r \in Rntis, NEW target \in Cells,
         TriggerHandover(c, r, target)
  PROVE  TypeInv'
<1> DEFINE k == [ctx[c][r] EXCEPT !.state = "HANDOVER_PREPARATION",
                                  !.peer = target, !.peerRnti = 0]
<1>1. "CONNECTED_NORMALLY" \in Untimed /\ "HANDOVER_PREPARATION" \in Untimed
  BY DEF Untimed, ContextStates, Awaits, Timers
<1>2. ctx[c][r] \in TimedContexts /\ ctx[c][r].state = "CONNECTED_NORMALLY"
  BY DEF TypeInv, TriggerHandover
<1>3. k \in TimedContexts
  BY <1>1, <1>2, UntimedType, Constants
<1>4. /\ SetContext(c, r, k)
      /\ x2' = Append(x2, X2("HandoverRequest", c, r, target, 0))
      /\ UNCHANGED <<core, ue, rrc, stopped>>
  BY DEF TriggerHandover, PrepareHandover
<1>5. X2("HandoverRequest", c, r, target, 0) \in X2Known
  BY X2Type, Constants DEF ToTarget
<1> QED
  BY <1>3, <1>4, <1>5, SetContextType DEF TypeInv, core

\* RecvHandoverRequest keeps the types.
LEMMA RecvHandoverRequestType ==
  ASSUME TypeInv, NEW i \in 1..Len(x2), RecvHandoverRequest(i)
  PROVE  TypeInv'
<1> DEFINE t == x2[i].target
           k == NewContext(t, "HANDOVER_JOINING", x2[i].source, x2[i].oldRnti, "joining")
           ack == X2("HandoverRequestAck", x2[i].source, x2[i].oldRnti, t, NewRnti(t))
           refusal == X2("PreparationFailure", x2[i].source, x2[i].oldRnti, t, 0)
<1>1. /\ Others(i) \in Seq(X2Known)
      /\ t \in Cells /\ t \in CellOrNone
      /\ x2[i].source \in CellOrNone /\ x2[i].oldRnti \in RntiOrNone
  BY OthersType, Constants DEF RecvHandoverRequest, Due, X2Known, X2Messages
<1>2. refusal \in X2Known
  BY <1>1, X2Type, Constants DEF ToSource
<1>3. CASE Refuse(i) /\ UNCHANGED network
  BY <1>1, <1>2, <1>3 DEF TypeInv, RecvHandoverRequest, Refuse, network, core
<1>4. CASE ~Full(t) /\ Refuse(i) /\ AddUe(t, Absent)
  <2>1. x2' \in Seq(X2Known)
    BY <1>1, <1>2, <1>4 DEF Refuse
  <2> QED
    BY <1>1, <1>4, <2>1, AbsentType, AddUeType DEF TypeInv, RecvHandoverRequest, core
<1>5. CASE /\ ~Full(t)
           /\ x2' = Append(Others(i), ack)
           /\ AddUe(t, k)
  <2>1. k \in TimedContexts
    BY <1>1, NewContextType DEF Awaits, Timers
  <2>2. /\ ctx' \in [Cells -> [Rntis -> TimedContexts]]
        /\ lastRnti' \in [Cells -> RntiOrNone]
        /\ NewRnti(t) \in RntiOrNone
    BY <1>1, <1>5, <2>1, AddUeType, Constants
  <2>3. ack \in X2Known
    BY <1>1, <2>2, X2Type DEF ToSource
  <2>4. x2' \in Seq(X2Known)
    BY <1>1, <1>5, <2>3
  <2> QED
    BY <2>2, <2>4 DEF TypeInv, RecvHandoverRequest, core
<1> QED
  BY <1>3, <1>4, <1>5 DEF RecvHandoverRequest

\* The acknowledged context is in a state without a timer: see Bookkeeping.
LEMMA RecvHandoverRequestAckType ==
  ASSUME TypeInv, NEW i \in 1..Len(x2), RecvHandoverRequestAck(i),
         Present(x2[i].source, x2[i].oldRnti) =>
            ctx[x2[i].source][x2[i].oldRnti].state \in Untimed
  PROVE  TypeInv'
<1> DEFINE c == x2[i].source
           r == x2[i].oldRnti
           k == [ctx[c][r] EXCEPT !.state = "HANDOVER_LEAVING",
                                  !.peer = x2[i].target, !.peerRnti = x2[i].newRnti]
<1>1. CASE Stop("RecvHandoverRequestAck")
  BY <1>1, StopType DEF Handlers
<1>2. CASE /\ Present(c, r)
           /\ SetContext(c, r, Start(c, "leaving", k))
           /\ rrc' = Append(rrc, Rrc("HandoverCommand", x2[i].target, x2[i].newRnti))
           /\ x2' = Others(i)
           /\ UNCHANGED <<core, ue, stopped>>
  <2>1. /\ Others(i) \in Seq(X2Known)
        /\ x2[i].target \in Cells /\ x2[i].target \in CellOrNone
        /\ x2[i].newRnti \in RntiOrNone
    BY OthersType, Constants DEF RecvHandoverRequestAck, Due, X2Known, X2Messages
  <2>2. ctx[c][r] \in TimedContexts /\ \A t \in Timers : ctx[c][r].timers[t] = Off
    <3>1. ctx[c][r] \in TimedContexts /\ ctx[c][r].state \in Untimed
      BY <1>2, PresentType
    <3> QED
      BY ONLY <3>1 DEF TimedContexts, Untimed
  <2>3. Start(c, "leaving", k) \in TimedContexts
    <3>1. c \in Cells /\ "leaving" \in Timers /\ Awaits("leaving") = "HANDOVER_LEAVING"
      BY <1>2, PresentType DEF Awaits, Timers
    <3> QED
      BY <2>1, <2>2, <3>1, StartType
  <2>4. Rrc("HandoverCommand", x2[i].target, x2[i].newRnti) \in RrcKnown
    BY <2>1, RrcType DEF ToUe
  <2> QED
    BY <1>2, <2>1, <2>3, <2>4, SetContextType DEF TypeInv, core
<1> QED
  BY <1>1, <1>2 DEF RecvHandoverRequestAck

\* A context is removed and the UE told.
LEMMA ReleaseConnectionType ==
  ASSUME TypeInv, NEW c, NEW r, Present(c, r), ReleaseConnection(c, r)
  PROVE  /\ ctx' \in [Cells -> [Rntis -> TimedContexts]]
         /\ lastRnti' \in [Cells -> RntiOrNone]
         /\ rrc' \in Seq(RrcKnown)
<1>1. Rrc("Release", c, r) \in RrcKnown
  BY PresentType, RrcType DEF ToUe
<1>2. rrc' \in Seq(RrcKnown)
  BY <1>1 DEF TypeInv, ReleaseConnection
<1> QED
  BY <1>2, RemoveUeType DEF ReleaseConnection

\* RecvHandoverPreparationFailure keeps the types.
LEMMA RecvHandoverPreparationFailureType ==
  ASSUME TypeInv, NEW i \in 1..Len(x2), RecvHandoverPreparationFailure(i)
  PROVE  TypeInv'
<1> DEFINE c == x2[i].source
           r == x2[i].oldRnti
           InState(state) == /\ Present(c, r)
                             /\ ctx[c][r].state = state
                             /\ ctx[c][r].peer = x2[i].target
<1>0. Others(i) \in Seq(X2Known)
  BY OthersType
<1>1. CASE Stop("RecvHandoverPreparationFailure")
  BY <1>1, StopType DEF Handlers
<1>2. CASE /\ InState("HANDOVER_PREPARATION")
           /\ SwitchToState(c, r, "CONNECTED_NORMALLY")
           /\ x2' = Others(i)
           /\ UNCHANGED <<core, ue, rrc, stopped>>
  <2>1. "CONNECTED_NORMALLY" \in Untimed /\ "HANDOVER_PREPARATION" \in Untimed
    BY DEF Untimed, ContextStates, Awaits, Timers
  <2>2. /\ ctx' \in [Cells -> [Rntis -> TimedContexts]]
        /\ lastRnti' \in [Cells -> RntiOrNone]
    BY <1>2, <2>1, SwitchType
  <2> QED
    BY <1>0, <1>2, <2>2 DEF TypeInv, core
<1>3. CASE /\ InState("HANDOVER_LEAVING")
           /\ ReleaseConnection(c, r)
           /\ x2' = Others(i)
           /\ UNCHANGED <<core, ue, stopped>>
  <2>1. Present(c, r)
    BY <1>3
  <2> QED
    BY <1>0, <1>3, <2>1, ReleaseConnectionType DEF TypeInv, core
<1>4. CASE x2' = Others(i) /\ UNCHANGED <<network, core, ue, rrc, stopped>>
  BY <1>0, <1>4 DEF TypeInv, network, core
<1> QED
  BY <1>1, <1>2, <1>3, <1>4 DEF RecvHandoverPreparationFailure

\* RecvUeContextRelease keeps the types.
LEMMA RecvUeContextReleaseType ==
  ASSUME TypeInv, NEW i \in 1..Len(x2), RecvUeContextRelease(i)
  PROVE  TypeInv'
<1>1. CASE Stop("RecvUeContextRelease")
  BY <1>1, StopType DEF Handlers
<1>2. CASE /\ RemoveUe(x2[i].source, x2[i].oldRnti) \/ UNCHANGED network
           /\ x2' = Others(i)
           /\ UNCHANGED <<core, ue, rrc, stopped>>
  BY <1>2, OthersType, RemoveUeType DEF TypeInv, network, core
<1> QED
  BY <1>1, <1>2 DEF RecvUeContextRelease

\* Without its timer a context still has its type.
LEMMA CancelType ==
  ASSUME NEW k \in TimedContexts, NEW timer \in Timers
  PROVE  Cancel(timer, k) \in TimedContexts
BY DEF Cancel, TimedContexts, Contexts, Off

\* RecvHandoverCancel keeps the types.
LEMMA RecvHandoverCancelType ==
  ASSUME TypeInv, NEW i \in 1..Len(x2), RecvHandoverCancel(i)
  PROVE  TypeInv'
<1> DEFINE t == x2[i].target
           n == x2[i].newRnti
<1>0. Others(i) \in Seq(X2Known)
  BY OthersType
<1>1. CASE Stop("RecvHandoverCancel")
  BY <1>1, StopType DEF Handlers
<1>2. CASE /\ Present(t, n)
           /\ ctx[t][n].state = "HANDOVER_JOINING"
           /\ SetContext(t, n, Cancel("joining", ctx[t][n]))
           /\ x2' = Others(i)
           /\ UNCHANGED <<core, ue, rrc, stopped>>
  <2>1. Cancel("joining", ctx[t][n]) \in TimedContexts
    BY <1>2, PresentType, CancelType DEF Timers
  <2>2. /\ ctx' \in [Cells -> [Rntis -> TimedContexts]]
        /\ lastRnti' \in [Cells -> RntiOrNone]
    BY <1>2, <2>1, SetContextType
  <2> QED
    BY <1>0, <1>2, <2>2 DEF TypeInv, core
<1>3. CASE x2' = Others(i) /\ UNCHANGED <<network, core, ue, rrc, stopped>>
  BY <1>0, <1>3 DEF TypeInv, network, core
<1> QED
  BY <1>1, <1>2, <1>3 DEF RecvHandoverCancel

\* ForwardData keeps the types.
LEMMA ForwardDataType ==
  ASSUME TypeInv, NEW c \in Cells, NEW r \in Rntis, ForwardData(c, r)
  PROVE  TypeInv'
<1>1. Present(c, r)
  BY DEF ForwardData, Present
<1>2. X2("UeData", c, r, ctx[c][r].peer, ctx[c][r].peerRnti) \in X2Known
  BY <1>1, PresentType, X2Type DEF ToTarget
<1> QED
  BY <1>2 DEF TypeInv, ForwardData, network, core

\* RecvUeData keeps the types.
LEMMA RecvUeDataType ==
  ASSUME TypeInv, NEW i \in 1..Len(x2), RecvUeData(i)
  PROVE  TypeInv'
<1>1. CASE Stop("RecvUeData")
  BY <1>1, StopType DEF Handlers
<1>2. CASE x2' = Others(i) /\ UNCHANGED <<network, core, ue, rrc, stopped>>
  BY <1>2, OthersType DEF TypeInv, network, core
<1> QED
  BY <1>1, <1>2 DEF RecvUeData

\* ConnectionTimeout keeps the types.
LEMMA ConnectionTimeoutType ==
  ASSUME TypeInv, NEW c \in Cells, NEW r \in Rntis, NEW timer,
         ConnectionTimeout(c, r, timer)
  PROVE  TypeInv'
<1>1. CASE Stop("ConnectionTimeout")
  BY <1>1, StopType DEF Handlers
<1>2. CASE RemoveUe(c, r) /\ UNCHANGED <<core, ue, rrc, x2, stopped>>
  BY <1>2, RemoveUeType DEF TypeInv, core
<1> QED
  BY <1>1, <1>2 DEF ConnectionTimeout

\* HandoverJoiningTimeout keeps the types.
LEMMA HandoverJoiningTimeoutType ==
  ASSUME TypeInv, NEW c \in Cells, NEW r \in Rntis, HandoverJoiningTimeout(c, r)
  PROVE  TypeInv'
<1>1. CASE Stop("HandoverJoiningTimeout")
  BY <1>1, StopType DEF Handlers
<1>2. CASE /\ ctx[c][r].state = "HANDOVER_JOINING"
           /\ x2' = Append(x2, PreparationFailure(c, r))
           /\ RemoveUe(c, r)
           /\ UNCHANGED <<core, ue, rrc, stopped>>
  <2>1. Present(c, r)
    BY <1>2 DEF Present
  <2>2. PreparationFailure(c, r) \in X2Known
    BY <2>1, PreparationFailureType
  <2> QED
    BY <1>2, <2>2, RemoveUeType DEF TypeInv, core
<1> QED
  BY <1>1, <1>2 DEF HandoverJoiningTimeout, Awaits

\* HandoverLeavingTimeout keeps the types.
LEMMA HandoverLeavingTimeoutType ==
  ASSUME TypeInv, NEW c \in Cells, NEW r \in Rntis, HandoverLeavingTimeout(c, r)
  PROVE  TypeInv'
<1>1. CASE Stop("HandoverLeavingTimeout")
  BY <1>1, StopType DEF Handlers
<1>2. CASE /\ ctx[c][r].state = "HANDOVER_LEAVING"
           /\ x2' = Append(x2, HandoverCancel(c, r))
           /\ ReleaseConnection(c, r)
           /\ UNCHANGED <<core, ue, stopped>>
  <2>1. Present(c, r)
    BY <1>2 DEF Present
  <2>2. HandoverCancel(c, r) \in X2Known
    BY <2>1, PresentType, X2Type DEF HandoverCancel, ToTarget
  <2> QED
    BY <1>2, <2>1, <2>2, ReleaseConnectionType DEF TypeInv, core
<1> QED
  BY <1>1, <1>2 DEF HandoverLeavingTimeout, Awaits

\* Tick keeps the types.
LEMMA TickType ==
  ASSUME TypeInv, Tick
  PROVE  TypeInv'
<1>1. \A n \in Nat : Minus1(n) \in Nat /\ (Minus1(n) = Off => n = Off)
  BY DEF Minus1, Off
<1>2. Minus1(Off) = Off
  BY DEF Minus1, Off
<1>3. ASSUME NEW k \in TimedContexts
      PROVE  [k EXCEPT !.timers = [t \in Timers |-> Minus1(k.timers[t])]] \in TimedContexts
  BY <1>1, <1>2 DEF TimedContexts, Contexts
<1>4. ctx' \in [Cells -> [Rntis -> TimedContexts]]
  BY <1>3 DEF TypeInv, Tick
<1>5. ue' \in UesInCells
  BY <1>1, Constants DEF TypeInv, Tick, UesInCells, UeRrcs
<1>6. ASSUME NEW m \in X2Known
      PROVE  [m EXCEPT !.wait = Minus1(m.wait)] \in X2Known
  BY <1>1 DEF X2Known, X2Messages
<1>7. x2' \in Seq(X2Known)
  BY <1>6 DEF TypeInv, Tick
<1>8. ASSUME NEW m \in S1Messages
      PROVE  [m EXCEPT !.wait = Minus1(m.wait)] \in S1Messages
  BY <1>1 DEF S1Messages
<1>9. s1' \in Seq(S1Messages)
  BY <1>8 DEF TypeInv, Tick
<1> QED
  BY <1>4, <1>5, <1>7, <1>9 DEF TypeInv, Tick

-----------------------------------------------------------------------------

(***************************************************************************)
(* What the X2 messages on their way and the contexts of both eNBs know of *)
(* each other: every message of a handover finds its source, the answers of*)
(* a target arrive in order, and a target joins from one source only.      *)
(***************************************************************************)

\* The messages that arrange a handover.
Arrangements == {"HandoverRequest", "HandoverRequestAck", "PreparationFailure"}

\* The source of a handover is known by its cell and RNTI.
Concerns(m, c, r) == m.type \in Arrangements /\ m.source = c /\ m.oldRnti = r

\* A context that joins from RNTI r of cell c.
JoinsFrom(k, c, r) == k.state = "HANDOVER_JOINING" /\ k.peer = c /\ k.peerRnti = r

\* The states the source of a handover may be in while a message of the type is on
\* its way.
SourceStates(type) ==
    IF type \in {"HandoverRequest", "HandoverRequestAck"}
    THEN {"ABSENT", "HANDOVER_PREPARATION"}
    ELSE {"ABSENT", "HANDOVER_PREPARATION", "HANDOVER_LEAVING"}

\* The source of a handover: a context there is or was, in one of the states.
IsSource(c, r, states) ==
    /\ c \in Cells /\ r \in Rntis /\ r <= lastRnti[c]
    /\ ctx[c][r].state \in states

\* Every message of a handover has a source.
MessagesKnown ==
    \A i \in 1..Len(x2) :
        x2[i].type \in Arrangements =>
            IsSource(x2[i].source, x2[i].oldRnti, SourceStates(x2[i].type))

\* Of one handover nothing is on its way but an acknowledgement that the failure of
\* the same target follows.
MessagesInOrder ==
    \A i, j \in 1..Len(x2) :
        /\ i < j
        /\ x2[i].type \in Arrangements
        /\ Concerns(x2[j], x2[i].source, x2[i].oldRnti)
        => x2[i].type = "HandoverRequestAck" /\ x2[j].type = "PreparationFailure"

\* Every joining context has a source.
JoiningKnown ==
    \A c \in Cells, r \in Rntis :
        ctx[c][r].state = "HANDOVER_JOINING" =>
            IsSource(ctx[c][r].peer, ctx[c][r].peerRnti, SourceStates("PreparationFailure"))

\* While a context joins, only the acknowledgement is on its way to its source.
JoiningAlone ==
    \A c \in Cells, r \in Rntis, i \in 1..Len(x2) :
        /\ x2[i].type \in Arrangements
        /\ JoinsFrom(ctx[c][r], x2[i].source, x2[i].oldRnti)
        => x2[i].type = "HandoverRequestAck"

\* No two contexts join from the same source.
JoiningOnce ==
    \A c, d \in Cells, r, q \in Rntis :
        /\ ctx[c][r].state = "HANDOVER_JOINING"
        /\ JoinsFrom(ctx[d][q], ctx[c][r].peer, ctx[c][r].peerRnti)
        => c = d /\ r = q

\* Contexts have RNTIs that were handed out.
ContextsNumbered ==
    \A c \in Cells, r \in Rntis : ctx[c][r].state # "ABSENT" => r <= lastRnti[c]

\* What the X2 messages say of the contexts, and the contexts of them.
Bookkeeping ==
    /\ ContextsNumbered
    /\ MessagesKnown /\ MessagesInOrder
    /\ JoiningKnown /\ JoiningAlone /\ JoiningOnce

\* The same, after a step.
IsSourceNext(c, r, states) ==
    /\ c \in Cells /\ r \in Rntis /\ r <= lastRnti'[c]
    /\ ctx'[c][r].state \in states

\* A context goes on as the source it is, or is removed.
QuietContext(old, new) ==
    /\ old.state = "ABSENT" => new.state = "ABSENT"
    /\ old.state = "HANDOVER_PREPARATION" => new.state \in {"ABSENT", "HANDOVER_PREPARATION"}
    /\ old.state = "HANDOVER_LEAVING" => new.state \in {"ABSENT", "HANDOVER_LEAVING"}

\* A context does not start to join.
NoNewJoining(old, new) ==
    new.state = "HANDOVER_JOINING" =>
        old.state = "HANDOVER_JOINING" /\ new.peer = old.peer /\ new.peerRnti = old.peerRnti

\* RNTIs are handed out in order.
RntisGrow == \A c \in Cells : lastRnti[c] \in Nat /\ lastRnti'[c] \in Nat /\ lastRnti[c] <= lastRnti'[c]

\* A step that leaves sources to be sources.
SourcesKept ==
    /\ RntisGrow
    /\ \A c \in Cells, r \in Rntis : r <= lastRnti[c] => QuietContext(ctx[c][r], ctx'[c][r])

\* A step in which no context starts to join.
NoJoining == \A c \in Cells, r \in Rntis : NoNewJoining(ctx[c][r], ctx'[c][r])

\* A step that does nothing to a handover, as far as its messages tell.
Quiet == SourcesKept /\ NoJoining /\ ContextsNumbered'

\* Messages that say the same of a handover.
SameMessage(m, n) == m.type = n.type /\ m.source = n.source /\ m.oldRnti = n.oldRnti

\* Messages that differ at most in how long they still take.
SameButTime(m, n) == SameMessage(m, n) /\ m.target = n.target /\ m.newRnti = n.newRnti

\* Up to n, the messages after a step are messages from before, in their order:
\* the one at place i was at place f[i].
TakenFrom(f, n) ==
    /\ \A i \in 1..n : x2'[i].type \in Arrangements =>
          f[i] \in 1..Len(x2) /\ SameMessage(x2'[i], x2[f[i]])
    /\ \A i, j \in 1..n : i < j => f[i] < f[j]

\* The same of messages of every kind, and of all they say.
Carried(f, n) ==
    /\ \A i \in 1..n : f[i] \in 1..Len(x2) /\ SameButTime(x2'[i], x2[f[i]])
    /\ \A i, j \in 1..n : i < j => f[i] < f[j]

\* What is carried over is taken from what there was.
LEMMA CarriedTaken ==
  ASSUME NEW f, NEW n, Carried(f, n)
  PROVE  TakenFrom(f, n)
BY DEF Carried, TakenFrom, SameButTime

\* Sources stay sources.
LEMMA SourceKept ==
  ASSUME SourcesKept, MaxRnti \in Nat, NEW c, NEW r, NEW type,
         IsSource(c, r, SourceStates(type))
  PROVE  IsSourceNext(c, r, SourceStates(type))
BY DEF IsSource, IsSourceNext, SourceStates, SourcesKept, QuietContext, RntisGrow, Rntis

\* Taking messages away disturbs neither their order nor the joining contexts.
LEMMA OrderKept ==
  ASSUME Bookkeeping, NoJoining, NEW f, TakenFrom(f, Len(x2'))
  PROVE  MessagesInOrder' /\ JoiningAlone' /\ JoiningOnce'
<1>1. MessagesInOrder'
  <2> SUFFICES ASSUME NEW i \in 1..Len(x2'), NEW j \in 1..Len(x2'), i < j,
                      x2'[i].type \in Arrangements,
                      Concerns(x2'[j], x2'[i].source, x2'[i].oldRnti)
               PROVE  /\ x2'[i].type = "HandoverRequestAck"
                      /\ x2'[j].type = "PreparationFailure"
    BY DEF MessagesInOrder
  <2>1. /\ f[i] \in 1..Len(x2) /\ SameMessage(x2'[i], x2[f[i]])
        /\ f[j] \in 1..Len(x2) /\ SameMessage(x2'[j], x2[f[j]])
        /\ f[i] < f[j]
    BY DEF Concerns, TakenFrom
  <2>2. /\ x2[f[i]].type \in Arrangements
        /\ Concerns(x2[f[j]], x2[f[i]].source, x2[f[i]].oldRnti)
    BY <2>1 DEF SameMessage, Concerns
  <2> QED
    BY <2>1, <2>2 DEF Bookkeeping, MessagesInOrder, SameMessage
<1>2. JoiningAlone'
  BY DEF Bookkeeping, JoiningAlone, NoJoining, NoNewJoining, JoinsFrom, SameMessage, TakenFrom
<1>3. JoiningOnce'
  BY DEF Bookkeeping, JoiningOnce, NoJoining, NoNewJoining, JoinsFrom
<1> QED
  BY <1>1, <1>2, <1>3

\* Nor does it disturb the rest, when the step is quiet.
LEMMA BookkeepingKept ==
  ASSUME Bookkeeping, Quiet, MaxRnti \in Nat, NEW f, TakenFrom(f, Len(x2'))
  PROVE  Bookkeeping'
<1>1. MessagesKnown'
  BY SourceKept DEF Bookkeeping, MessagesKnown, SameMessage, Quiet, TakenFrom, IsSource, IsSourceNext
<1>2. JoiningKnown'
  BY SourceKept DEF Bookkeeping, JoiningKnown, Quiet, NoJoining, NoNewJoining, IsSource, IsSourceNext
<1> QED
  BY <1>1, <1>2, OrderKept DEF Bookkeeping, Quiet

\* Message n is new, and so are perhaps contexts that join from its source.
LEMMA BookkeepingAdded ==
  ASSUME Bookkeeping, SourcesKept, ContextsNumbered', MaxRnti \in Nat, NEW f,
         Len(x2') \in Nat \ {0}, NEW m, m = x2'[Len(x2')],
         TakenFrom(f, Len(x2') - 1),
         m.type \in Arrangements,
         IsSourceNext(m.source, m.oldRnti, SourceStates(m.type)),
         \A i \in 1..(Len(x2') - 1) :
            Concerns(x2'[i], m.source, m.oldRnti) =>
                x2'[i].type = "HandoverRequestAck" /\ m.type = "PreparationFailure",
         \A c \in Cells, r \in Rntis :
            \/ NoNewJoining(ctx[c][r], ctx'[c][r])
            \/ JoinsFrom(ctx'[c][r], m.source, m.oldRnti),
         \A c \in Cells, r \in Rntis :
            JoinsFrom(ctx'[c][r], m.source, m.oldRnti) => m.type = "HandoverRequestAck",
         \A c, d \in Cells, r, q \in Rntis :
            JoinsFrom(ctx'[c][r], m.source, m.oldRnti)
              /\ JoinsFrom(ctx'[d][q], m.source, m.oldRnti) => c = d /\ r = q
  PROVE  Bookkeeping'
<1> DEFINE n == Len(x2')
<1>0. \A i \in 1..n : i \in 1..(n - 1) \/ i = n
  OBVIOUS
<1>1. MessagesKnown'
  <2> SUFFICES ASSUME NEW i \in 1..n, x2'[i].type \in Arrangements
               PROVE  IsSourceNext(x2'[i].source, x2'[i].oldRnti, SourceStates(x2'[i].type))
    BY DEF MessagesKnown, IsSource, IsSourceNext
  <2>1. CASE i \in 1..(n - 1)
    <3>1. f[i] \in 1..Len(x2) /\ SameMessage(x2'[i], x2[f[i]])
      BY <2>1 DEF TakenFrom
    <3>2. IsSource(x2[f[i]].source, x2[f[i]].oldRnti, SourceStates(x2[f[i]].type))
      BY <3>1 DEF Bookkeeping, MessagesKnown, SameMessage
    <3> QED
      BY <3>1, <3>2, SourceKept DEF SameMessage
  <2> QED
    BY <1>0, <2>1
<1>2. JoiningKnown'
  <2> SUFFICES ASSUME NEW c \in Cells, NEW r \in Rntis,
                      ctx'[c][r].state = "HANDOVER_JOINING"
               PROVE  IsSourceNext(ctx'[c][r].peer, ctx'[c][r].peerRnti,
                                   SourceStates("PreparationFailure"))
    BY DEF JoiningKnown, IsSource, IsSourceNext
  <2>1. CASE NoNewJoining(ctx[c][r], ctx'[c][r])
    BY <2>1, SourceKept DEF Bookkeeping, JoiningKnown, NoNewJoining
  <2>2. CASE JoinsFrom(ctx'[c][r], m.source, m.oldRnti)
    BY <2>2 DEF JoinsFrom, IsSourceNext, SourceStates
  <2> QED
    BY <2>1, <2>2
<1>3. MessagesInOrder'
  <2> SUFFICES ASSUME NEW i \in 1..n, NEW j \in 1..n, i < j,
                      x2'[i].type \in Arrangements,
                      Concerns(x2'[j], x2'[i].source, x2'[i].oldRnti)
               PROVE  /\ x2'[i].type = "HandoverRequestAck"
                      /\ x2'[j].type = "PreparationFailure"
    BY DEF MessagesInOrder
  <2>1. i \in 1..(n - 1)
    OBVIOUS
  <2>2. CASE j \in 1..(n - 1)
    <3>1. /\ f[i] \in 1..Len(x2) /\ SameMessage(x2'[i], x2[f[i]])
          /\ f[j] \in 1..Len(x2) /\ SameMessage(x2'[j], x2[f[j]])
          /\ f[i] < f[j]
      BY <2>1, <2>2 DEF Concerns, TakenFrom
    <3>2. /\ x2[f[i]].type \in Arrangements
          /\ Concerns(x2[f[j]], x2[f[i]].source, x2[f[i]].oldRnti)
      BY <3>1 DEF SameMessage, Concerns
    <3> QED
      BY <3>1, <3>2 DEF Bookkeeping, MessagesInOrder, SameMessage
  <2>3. CASE j = n
    <3>1. Concerns(x2'[i], m.source, m.oldRnti)
      BY <2>3 DEF Concerns
    <3> QED
      BY <2>1, <2>3, <3>1
  <2> QED
    BY <1>0, <2>2, <2>3
<1>4. JoiningAlone'
  <2> SUFFICES ASSUME NEW c \in Cells, NEW r \in Rntis, NEW i \in 1..n,
                      x2'[i].type \in Arrangements,
                      JoinsFrom(ctx'[c][r], x2'[i].source, x2'[i].oldRnti)
               PROVE  x2'[i].type = "HandoverRequestAck"
    BY DEF JoiningAlone, JoinsFrom
  <2>1. CASE JoinsFrom(ctx'[c][r], m.source, m.oldRnti)
    <3>1. Concerns(x2'[i], m.source, m.oldRnti)
      BY <2>1 DEF JoinsFrom, Concerns
    <3> QED
      BY <1>0, <2>1, <3>1
  <2>2. CASE NoNewJoining(ctx[c][r], ctx'[c][r]) /\ i \in 1..(n - 1)
    BY <2>2 DEF Bookkeeping, JoiningAlone, NoNewJoining, JoinsFrom, SameMessage, TakenFrom
  <2> QED
    BY <1>0, <2>1, <2>2
<1>5. JoiningOnce'
  <2> SUFFICES ASSUME NEW c \in Cells, NEW d \in Cells, NEW r \in Rntis, NEW q \in Rntis,
                      ctx'[c][r].state = "HANDOVER_JOINING",
                      JoinsFrom(ctx'[d][q], ctx'[c][r].peer, ctx'[c][r].peerRnti)
               PROVE  c = d /\ r = q
    BY DEF JoiningOnce, JoinsFrom
  <2>1. CASE \/ JoinsFrom(ctx'[c][r], m.source, m.oldRnti)
             \/ JoinsFrom(ctx'[d][q], m.source, m.oldRnti)
    BY <2>1 DEF JoinsFrom
  <2>2. CASE /\ NoNewJoining(ctx[c][r], ctx'[c][r])
             /\ NoNewJoining(ctx[d][q], ctx'[d][q])
    BY <2>2 DEF Bookkeeping, JoiningOnce, NoNewJoining, JoinsFrom
  <2> QED
    BY <2>1, <2>2
<1> QED
  BY <1>1, <1>2, <1>3, <1>4, <1>5 DEF Bookkeeping

\* Lengths and RNTIs are numbers.
LEMMA Numbers ==
  ASSUME TypeInv
  PROVE  Len(x2) \in Nat /\ MaxRnti \in Nat /\ \A c \in Cells : lastRnti[c] \in Nat
BY LteHandoverAssumption DEF LteHandoverAssumption, TypeInv, RntiOrNone

\* No message comes or goes.
LEMMA SameShape ==
  ASSUME TypeInv, UNCHANGED x2
  PROVE  /\ Carried([i \in Nat |-> i], Len(x2'))
         /\ TakenFrom([i \in Nat |-> i], Len(x2'))
<1>1. Carried([i \in Nat |-> i], Len(x2'))
  BY Numbers DEF Carried, SameButTime, SameMessage
<1> QED
  BY <1>1, CarriedTaken

\* One message comes.
LEMMA AppendShape ==
  ASSUME TypeInv, NEW m \in X2Known, x2' = Append(x2, m)
  PROVE  /\ Len(x2') = Len(x2) + 1
         /\ x2'[Len(x2')] = m
         /\ \A i \in 1..(Len(x2') - 1) : x2'[i] = x2[i]
         /\ Carried([i \in Nat |-> i], Len(x2') - 1)
         /\ TakenFrom([i \in Nat |-> i], Len(x2') - 1)
<1>1. Len(x2) \in Nat
  BY Numbers
<1>2. /\ Len(x2') = Len(x2) + 1
      /\ \A i \in 1..Len(x2) : x2'[i] = x2[i]
      /\ x2'[Len(x2) + 1] = m
  BY AppendProperties DEF TypeInv
<1>3. Carried([i \in Nat |-> i], Len(x2') - 1)
  BY <1>1, <1>2 DEF Carried, SameButTime, SameMessage
<1> QED
  BY <1>1, <1>2, <1>3, CarriedTaken

\* One message goes.
LEMMA OthersTaken ==
  ASSUME TypeInv, NEW i \in 1..Len(x2),
         \A j \in 1..(Len(x2) - 1) : x2'[j] = Others(i)[j]
  PROVE  /\ Carried([j \in Nat |-> Place(i, j)], Len(x2) - 1)
         /\ TakenFrom([j \in Nat |-> Place(i, j)], Len(x2) - 1)
<1> DEFINE f == [j \in Nat |-> Place(i, j)]
<1>1. \A j \in Nat : f[j] = Place(i, j)
  OBVIOUS
<1> HIDE DEF f
<1>2. Len(x2) \in Nat
  BY Numbers
<1>3. ASSUME NEW j \in 1..(Len(x2) - 1)
      PROVE  j \in Nat /\ f[j] = Place(i, j) /\ f[j] \in 1..Len(x2) /\ x2'[j] = x2[f[j]]
  <2>1. j \in Nat /\ Place(i, j) \in 1..Len(x2)
    BY <1>2 DEF Place
  <2> QED
    <3>1. /\ Len(Others(i)) = Len(x2) - 1
          /\ \A k \in 1..Len(Others(i)) : Others(i)[k] = x2[Place(i, k)]
      BY OthersShape DEF TypeInv
    <3> QED
      BY <1>1, <2>1, <3>1
<1>4. \A j \in 1..(Len(x2) - 1) : f[j] \in 1..Len(x2) /\ SameButTime(x2'[j], x2[f[j]])
  BY <1>3 DEF SameButTime, SameMessage
<1>5. \A j, k \in 1..(Len(x2) - 1) : j < k => f[j] < f[k]
  <2> SUFFICES ASSUME NEW j \in 1..(Len(x2) - 1), NEW k \in 1..(Len(x2) - 1), j < k
               PROVE  f[j] < f[k]
    OBVIOUS
  <2>1. j \in Nat /\ k \in Nat /\ f[j] = Place(i, j) /\ f[k] = Place(i, k)
    BY <1>3
  <2>2. Place(i, j) < Place(i, k)
    BY <1>2, <2>1 DEF Place
  <2> QED
    BY <2>1, <2>2
<1>6. Carried(f, Len(x2) - 1)
  BY <1>4, <1>5 DEF Carried
<1> QED
  BY <1>6, CarriedTaken DEF f

\* A quiet step without messages.
LEMMA BookkeepingSame ==
  ASSUME TypeInv, Bookkeeping, Quiet, UNCHANGED x2
  PROVE  Bookkeeping'
BY Numbers, SameShape, BookkeepingKept

\* A message of another kind is sent.
LEMMA BookkeepingAppend ==
  ASSUME TypeInv, Bookkeeping, Quiet,
         NEW m \in X2Known, m.type \notin Arrangements, x2' = Append(x2, m)
  PROVE  Bookkeeping'
<1> DEFINE f == [i \in Nat |-> i]
<1>1. \A i \in Nat : f[i] = i
  OBVIOUS
<1>2. /\ Len(x2') = Len(x2) + 1
      /\ x2'[Len(x2')].type \notin Arrangements
      /\ TakenFrom(f, Len(x2') - 1)
  BY AppendShape
<1> HIDE DEF f
<1>3. TakenFrom(f, Len(x2'))
  BY <1>1, <1>2, Numbers DEF TakenFrom
<1> QED
  BY <1>3, Numbers, BookkeepingKept

\* A message is received.
LEMMA BookkeepingOthers ==
  ASSUME TypeInv, Bookkeeping, Quiet, NEW i \in 1..Len(x2), x2' = Others(i)
  PROVE  Bookkeeping'
<1>1. Len(x2') = Len(x2) - 1
  BY OthersShape DEF TypeInv
<1>2. TakenFrom([j \in Nat |-> Place(i, j)], Len(x2'))
  BY <1>1, OthersTaken
<1> QED
  BY <1>2, Numbers, BookkeepingKept

-----------------------------------------------------------------------------
\* A step that touches no context is quiet.
LEMMA NetworkQuiet ==
  ASSUME TypeInv, Bookkeeping, UNCHANGED network
  PROVE  Quiet
BY Numbers
   DEF network, Quiet, SourcesKept, RntisGrow, QuietContext, NoJoining, NoNewJoining,
       Bookkeeping, ContextsNumbered

\* One context is replaced.
LEMMA SetShape ==
  ASSUME TypeInv, NEW c, NEW r, NEW k, SetContext(c, r, k)
  PROVE  /\ \A d \in Cells, q \in Rntis :
              ctx'[d][q] = IF d = c /\ q = r THEN k ELSE ctx[d][q]
         /\ lastRnti' = lastRnti
BY DEF TypeInv, SetContext

\* One context goes on.
LEMMA SetQuiet ==
  ASSUME TypeInv, Bookkeeping, NEW c, NEW r, NEW k, SetContext(c, r, k), Present(c, r),
         QuietContext(ctx[c][r], k), NoNewJoining(ctx[c][r], k)
  PROVE  Quiet
<1>1. /\ \A d \in Cells, q \in Rntis :
              ctx'[d][q] = IF d = c /\ q = r THEN k ELSE ctx[d][q]
      /\ lastRnti' = lastRnti
  BY SetShape
<1>2. SourcesKept
  BY <1>1, Numbers DEF SourcesKept, RntisGrow, QuietContext
<1>3. NoJoining
  BY <1>1 DEF NoJoining, NoNewJoining
<1>4. ContextsNumbered'
  BY <1>1 DEF Bookkeeping, ContextsNumbered, Present
<1> QED
  BY <1>2, <1>3, <1>4 DEF Quiet

\* One context is removed.
LEMMA RemoveQuiet ==
  ASSUME TypeInv, Bookkeeping, NEW c, NEW r, RemoveUe(c, r)
  PROVE  Quiet
<1>0. Absent.state = "ABSENT"
  BY DEF Absent
<1>1. /\ \A d \in Cells, q \in Rntis :
              ctx'[d][q] = IF d = c /\ q = r THEN Absent ELSE ctx[d][q]
      /\ lastRnti' = lastRnti
  BY SetShape DEF RemoveUe
<1>2. SourcesKept
  BY <1>0, <1>1, Numbers DEF SourcesKept, RntisGrow, QuietContext
<1>3. NoJoining
  BY <1>0, <1>1 DEF NoJoining, NoNewJoining
<1>4. ContextsNumbered'
  BY <1>0, <1>1 DEF Bookkeeping, ContextsNumbered
<1> QED
  BY <1>2, <1>3, <1>4 DEF Quiet

\* One context is added, where there was none.
LEMMA AddShape ==
  ASSUME TypeInv, Bookkeeping, NEW c \in Cells, ~Full(c), NEW k, AddUe(c, k)
  PROVE  /\ NewRnti(c) \in Rntis /\ ctx[c][NewRnti(c)].state = "ABSENT"
         /\ \A d \in Cells, q \in Rntis :
              ctx'[d][q] = IF d = c /\ q = NewRnti(c) THEN k ELSE ctx[d][q]
         /\ SourcesKept
         /\ ContextsNumbered'
<1>1. lastRnti[c] \in 0..MaxRnti /\ lastRnti[c] # MaxRnti /\ MaxRnti \in Nat
  BY Numbers DEF TypeInv, Full, RntiOrNone
<1>2. NewRnti(c) \in Rntis /\ NewRnti(c) > lastRnti[c] /\ NewRnti(c) \in Nat
  BY <1>1 DEF NewRnti, Rntis
<1>3. /\ \A d \in Cells, q \in Rntis :
           ctx'[d][q] = IF d = c /\ q = NewRnti(c) THEN k ELSE ctx[d][q]
      /\ \A d \in Cells : lastRnti'[d] = IF d = c THEN NewRnti(c) ELSE lastRnti[d]
  BY DEF TypeInv, AddUe
<1>4. ctx[c][NewRnti(c)].state = "ABSENT"
  BY <1>1, <1>2 DEF Bookkeeping, ContextsNumbered
<1>5. RntisGrow
  BY <1>1, <1>2, <1>3, Numbers DEF RntisGrow
<1>6. SourcesKept
  BY <1>1, <1>2, <1>3, <1>5 DEF SourcesKept, QuietContext, Rntis
<1>7. ContextsNumbered'
  BY <1>1, <1>2, <1>3, Numbers DEF Bookkeeping, ContextsNumbered, Rntis
<1> QED
  BY <1>2, <1>3, <1>4, <1>6, <1>7

\* One context is added that does not join.
LEMMA AddQuiet ==
  ASSUME TypeInv, Bookkeeping, NEW c \in Cells, ~Full(c), NEW k, AddUe(c, k),
         k.state # "HANDOVER_JOINING"
  PROVE  Quiet
BY AddShape DEF Quiet, NoJoining, NoNewJoining

\* Steps that leave the contexts and the X2 messages alone.
LEMMA BookkeepingUntouched ==
  ASSUME TypeInv, Bookkeeping, UNCHANGED <<network, x2>>
  PROVE  Bookkeeping'
BY NetworkQuiet, BookkeepingSame

\* A failed assertion changes no message and no context.
LEMMA BookkeepingStop ==
  ASSUME TypeInv, Bookkeeping, NEW handler, Stop(handler)
  PROVE  Bookkeeping'
BY BookkeepingUntouched DEF Stop

\* ReceivePreamble keeps the books.
LEMMA ReceivePreambleBooks ==
  ASSUME TypeInv, Bookkeeping, ReceivePreamble
  PROVE  Bookkeeping'
<1> DEFINE k == NewContext(ue.cell, "INITIAL_RANDOM_ACCESS", NoCell, 0, "request")
<1>1. ue.cell \in Cells
  BY DEF TypeInv, ReceivePreamble, AccessesRandomly, UesInCells
<1>2. UNCHANGED x2
  BY DEF ReceivePreamble
<1>3. UNCHANGED network \/ (~Full(ue.cell) /\ AddUe(ue.cell, k))
  BY DEF ReceivePreamble
<1>4. k.state = "INITIAL_RANDOM_ACCESS"
  BY DEF NewContext, Start, Absent
<1> HIDE DEF k
<1>5. Quiet
  BY <1>1, <1>3, <1>4, AddQuiet, NetworkQuiet
<1> QED
  BY <1>2, <1>5, BookkeepingSame

\* A context moves on, to a state no handover is prepared, joined or left in.
LEMMA BookkeepingMove ==
  ASSUME TypeInv, Bookkeeping, NEW c, NEW r, Present(c, r), NEW k,
         ctx[c][r].state \notin {"HANDOVER_PREPARATION", "HANDOVER_LEAVING"},
         k.state # "HANDOVER_JOINING", SetContext(c, r, k)
  PROVE  Quiet
BY SetQuiet DEF QuietContext, NoNewJoining, Present

\* InitialContextSetupRequest keeps the books.
LEMMA InitialContextSetupRequestBooks ==
  ASSUME TypeInv, Bookkeeping, InitialContextSetupRequest
  PROVE  Bookkeeping'
<1> DEFINE r == imsiRnti[mmeCell]
           k == [ctx[mmeCell][r] EXCEPT !.state = "CONNECTION_RECONFIGURATION"]
<1>1. CASE Stop("InitialContextSetupRequest")
  BY <1>1, BookkeepingStop
<1>2. CASE /\ Present(mmeCell, r) /\ ctx[mmeCell][r].state = "ATTACH_REQUEST"
           /\ SetContext(mmeCell, r, k)
           /\ UNCHANGED x2
  <2>1. k.state = "CONNECTION_RECONFIGURATION"
    BY <1>2, PresentType DEF TimedContexts, Contexts
  <2>2. Quiet
    BY <1>2, <2>1, BookkeepingMove
  <2> QED
    BY <1>2, <2>2, BookkeepingSame
<1> QED
  BY <1>1, <1>2 DEF InitialContextSetupRequest, SwitchToState

\* PathSwitchRequestAcknowledge keeps the books.
LEMMA PathSwitchRequestAcknowledgeBooks ==
  ASSUME TypeInv, Bookkeeping, PathSwitchRequestAcknowledge
  PROVE  Bookkeeping'
<1> DEFINE r == imsiRnti[mmeCell]
           m == X2("ContextRelease", ctx[mmeCell][r].peer, ctx[mmeCell][r].peerRnti, mmeCell, r)
           k == [ctx[mmeCell][r] EXCEPT !.state = "CONNECTION_RECONFIGURATION"]
<1>1. CASE Stop("PathSwitchRequestAcknowledge")
  BY <1>1, BookkeepingStop
<1>2. CASE /\ Present(mmeCell, r) /\ ctx[mmeCell][r].state = "HANDOVER_PATH_SWITCH"
           /\ SetContext(mmeCell, r, k)
           /\ x2' = Append(x2, m)
  <2>1. k.state = "CONNECTION_RECONFIGURATION"
    BY <1>2, PresentType DEF TimedContexts, Contexts
  <2>2. Quiet
    BY <1>2, <2>1, BookkeepingMove
  <2>3. m \in X2Known
    BY <1>2, PresentType, X2Type DEF ToSource
  <2>4. m.type \notin Arrangements
    BY DEF X2, Arrangements
  <2> QED
    BY <1>2, <2>2, <2>3, <2>4, BookkeepingAppend
<1> QED
  BY <1>1, <1>2 DEF PathSwitchRequestAcknowledge, SwitchToState

\* RecvRrcConnectionRequest keeps the books.
LEMMA RecvRrcConnectionRequestBooks ==
  ASSUME TypeInv, Bookkeeping, RecvRrcConnectionRequest
  PROVE  Bookkeeping'
<1> DEFINE c == Head(rrc).cell
           r == Head(rrc).rnti
<1>1. CASE Stop("RecvRrcConnectionRequest")
  BY <1>1, BookkeepingStop
<1>2. ASSUME Present(c, r), ctx[c][r].state = "INITIAL_RANDOM_ACCESS", UNCHANGED x2,
             NEW state \in {"CONNECTION_SETUP", "CONNECTION_REJECTED"}, NEW timer,
             Answer(c, r, state, timer)
      PROVE  Bookkeeping'
  <2> DEFINE k == Start(c, timer, Cancel("request", [ctx[c][r] EXCEPT !.state = state]))
  <2>1. SetContext(c, r, k)
    BY <1>2 DEF Answer
  <2>2. k.state = state
    BY <1>2, PresentType DEF TimedContexts, Contexts, Start, Cancel
  <2>3. Quiet
    BY <1>2, <2>1, <2>2, BookkeepingMove
  <2> QED
    BY <1>2, <2>3, BookkeepingSame
<1> QED
  BY <1>1, <1>2 DEF RecvRrcConnectionRequest

\* RecvRrcConnectionSetupCompleted keeps the books.
LEMMA RecvRrcConnectionSetupCompletedBooks ==
  ASSUME TypeInv, Bookkeeping, RecvRrcConnectionSetupCompleted
  PROVE  Bookkeeping'
<1> DEFINE c == Head(rrc).cell
           r == Head(rrc).rnti
           k == Cancel("setup", [ctx[c][r] EXCEPT !.state = "ATTACH_REQUEST"])
<1>1. CASE Stop("RecvRrcConnectionSetupCompleted")
  BY <1>1, BookkeepingStop
<1>2. CASE /\ Present(c, r) /\ ctx[c][r].state = "CONNECTION_SETUP"
           /\ SetContext(c, r, k)
           /\ UNCHANGED x2
  <2>1. k.state = "ATTACH_REQUEST"
    BY <1>2, PresentType DEF TimedContexts, Contexts, Cancel
  <2>2. Quiet
    BY <1>2, <2>1, BookkeepingMove
  <2> QED
    BY <1>2, <2>2, BookkeepingSame
<1> QED
  BY <1>1, <1>2 DEF RecvRrcConnectionSetupCompleted

\* RecvRrcConnectionReconfigurationCompleted keeps the books.
LEMMA RecvRrcConnectionReconfigurationCompletedBooks ==
  ASSUME TypeInv, Bookkeeping, RecvRrcConnectionReconfigurationCompleted
  PROVE  Bookkeeping'
<1> DEFINE c == Head(rrc).cell
           r == Head(rrc).rnti
           state == IF Present(c, r) THEN ctx[c][r].state ELSE "ABSENT"
<1>1. CASE Stop("RecvRrcConnectionReconfigurationCompleted")
  BY <1>1, BookkeepingStop
<1>2. ASSUME state \in {"CONNECTION_RECONFIGURATION", "HANDOVER_JOINING"},
             NEW k, k.state \in {"CONNECTED_NORMALLY", "HANDOVER_PATH_SWITCH"},
             SetContext(c, r, k), UNCHANGED x2
      PROVE  Bookkeeping'
  <2>1. Present(c, r) /\ ctx[c][r].state \in {"CONNECTION_RECONFIGURATION", "HANDOVER_JOINING"}
    BY <1>2
  <2>2. Quiet
    BY <1>2, <2>1, BookkeepingMove
  <2> QED
    BY <1>2, <2>2, BookkeepingSame
<1>3. CASE /\ state = "CONNECTION_RECONFIGURATION"
           /\ SwitchToState(c, r, "CONNECTED_NORMALLY")
           /\ UNCHANGED x2
  <2> DEFINE k == [ctx[c][r] EXCEPT !.state = "CONNECTED_NORMALLY"]
  <2>1. Present(c, r)
    BY <1>3
  <2>2. k.state = "CONNECTED_NORMALLY"
    BY <2>1, PresentType DEF TimedContexts, Contexts
  <2>3. SetContext(c, r, k) /\ state = "CONNECTION_RECONFIGURATION" /\ UNCHANGED x2
    BY <1>3 DEF SwitchToState
  <2> HIDE DEF state, k
  <2> QED
    BY <1>2, <2>2, <2>3
<1>4. CASE /\ state = "HANDOVER_JOINING"
           /\ SetContext(c, r, Cancel("joining",
                                      [ctx[c][r] EXCEPT !.state = "HANDOVER_PATH_SWITCH"]))
           /\ UNCHANGED x2
  <2>1. Present(c, r)
    BY <1>4
  <2>2. Cancel("joining", [ctx[c][r] EXCEPT !.state = "HANDOVER_PATH_SWITCH"]).state
          = "HANDOVER_PATH_SWITCH"
    BY <2>1, PresentType DEF TimedContexts, Contexts, Cancel
  <2>3. state = "HANDOVER_JOINING"
    BY <1>4
  <2> HIDE DEF state
  <2> QED
    BY <1>2, <1>4, <2>2, <2>3
<1>5. CASE UNCHANGED <<network, x2>>
  BY <1>5, BookkeepingUntouched
<1> QED
  BY <1>1, <1>3, <1>4, <1>5 DEF RecvRrcConnectionReconfigurationCompleted

\* Another message of a handover is sent, by a step that touches no context of
\* its source but that of the message.
LEMMA BookkeepingSent ==
  ASSUME TypeInv, Bookkeeping, Quiet, NEW m \in X2Known, x2' = Append(x2, m),
         m.type \in Arrangements,
         IsSourceNext(m.source, m.oldRnti, SourceStates(m.type)),
         \A i \in 1..Len(x2) :
            Concerns(x2[i], m.source, m.oldRnti) =>
                x2[i].type = "HandoverRequestAck" /\ m.type = "PreparationFailure",
         \A c \in Cells, r \in Rntis : ~JoinsFrom(ctx'[c][r], m.source, m.oldRnti)
  PROVE  Bookkeeping'
<1> DEFINE f == [i \in Nat |-> i]
<1>1. Len(x2) \in Nat /\ MaxRnti \in Nat
  BY Numbers
<1>2. /\ Len(x2') = Len(x2) + 1
      /\ x2'[Len(x2')] = m
      /\ \A i \in 1..(Len(x2') - 1) : x2'[i] = x2[i]
      /\ TakenFrom(f, Len(x2') - 1)
  BY AppendShape
<1> HIDE DEF f
<1>3. Len(x2') \in Nat \ {0} /\ Len(x2') - 1 = Len(x2)
  BY <1>1, <1>2
<1>4. \A i \in 1..(Len(x2') - 1) :
          Concerns(x2'[i], m.source, m.oldRnti) =>
              x2'[i].type = "HandoverRequestAck" /\ m.type = "PreparationFailure"
  BY <1>2, <1>3
<1>5. SourcesKept /\ ContextsNumbered' /\ NoJoining
  BY DEF Quiet
<1> QED
  BY <1>1, <1>2, <1>3, <1>4, <1>5, BookkeepingAdded DEF NoJoining

\* TriggerHandover keeps the books.
LEMMA TriggerHandoverBooks ==
  ASSUME TypeInv, Bookkeeping, NEW c \in Cells, NEW r \in Rntis, NEW target \in Cells,
         TriggerHandover(c, r, target)
  PROVE  Bookkeeping'
<1> DEFINE k == [ctx[c][r] EXCEPT !.state = "HANDOVER_PREPARATION",
                                  !.peer = target, !.peerRnti = 0]
           m == X2("HandoverRequest", c, r, target, 0)
<1>1. /\ ctx[c][r].state = "CONNECTED_NORMALLY" /\ Present(c, r)
      /\ SetContext(c, r, k) /\ x2' = Append(x2, m)
  BY DEF TriggerHandover, PrepareHandover, Present
<1>2. k.state = "HANDOVER_PREPARATION"
  BY <1>1, PresentType DEF TimedContexts, Contexts
<1>3. m \in X2Known
  BY X2Type, Constants DEF ToTarget
<1>4. m.type = "HandoverRequest" /\ m.source = c /\ m.oldRnti = r
  BY DEF X2
<1> HIDE DEF k, m
<1>5. Quiet
  BY <1>1, <1>2, BookkeepingMove
<1>6. IsSourceNext(c, r, SourceStates("HandoverRequest"))
  <2>1. ctx'[c][r] = k /\ lastRnti' = lastRnti
    BY <1>1, SetShape
  <2>2. r <= lastRnti[c]
    BY <1>1 DEF Bookkeeping, ContextsNumbered
  <2> QED
    BY <1>2, <2>1, <2>2 DEF IsSourceNext, SourceStates
<1>7. \A i \in 1..Len(x2) : ~Concerns(x2[i], c, r)
  BY <1>1 DEF Bookkeeping, MessagesKnown, Concerns, IsSource, SourceStates
<1>8. \A d \in Cells, q \in Rntis : ~JoinsFrom(ctx[d][q], c, r)
  BY <1>1 DEF Bookkeeping, JoiningKnown, JoinsFrom, IsSource, SourceStates
<1>9. \A d \in Cells, q \in Rntis : ~JoinsFrom(ctx'[d][q], c, r)
  BY <1>5, <1>8 DEF Quiet, NoJoining, NoNewJoining, JoinsFrom
<1> QED
  BY <1>1, <1>3, <1>4, <1>5, <1>6, <1>7, <1>9, BookkeepingSent DEF Arrangements

\* A joining context is removed and its source is told.
LEMMA JoiningGivenUp ==
  ASSUME TypeInv, Bookkeeping, NEW c \in Cells, NEW r \in Rntis,
         ctx[c][r].state = "HANDOVER_JOINING",
         x2' = Append(x2, PreparationFailure(c, r)), RemoveUe(c, r)
  PROVE  Bookkeeping'
<1> DEFINE m == PreparationFailure(c, r)
           s == ctx[c][r].peer
           o == ctx[c][r].peerRnti
<1>1. m \in X2Known
  BY PreparationFailureType DEF Present
<1>2. m.type = "PreparationFailure" /\ m.source = s /\ m.oldRnti = o
  BY DEF PreparationFailure, X2
<1>3. Quiet
  BY RemoveQuiet
<1>4. IsSource(s, o, SourceStates("PreparationFailure"))
  BY DEF Bookkeeping, JoiningKnown
<1>5. IsSourceNext(s, o, SourceStates("PreparationFailure"))
  BY <1>3, <1>4, Numbers, SourceKept DEF Quiet
<1>6. \A i \in 1..Len(x2) : Concerns(x2[i], s, o) => x2[i].type = "HandoverRequestAck"
  BY DEF Bookkeeping, JoiningAlone, JoinsFrom, Concerns
<1>7. \A d \in Cells, q \in Rntis : JoinsFrom(ctx[d][q], s, o) => d = c /\ q = r
  BY DEF Bookkeeping, JoiningOnce, JoinsFrom
<1>8. ctx'[c][r].state = "ABSENT"
  BY SetShape DEF RemoveUe, Absent
<1>9. \A d \in Cells, q \in Rntis : ~JoinsFrom(ctx'[d][q], s, o)
  BY <1>3, <1>7, <1>8 DEF Quiet, NoJoining, NoNewJoining, JoinsFrom
<1> HIDE DEF m, s, o
<1>10. x2' = Append(x2, m)
  BY DEF m
<1> QED
  BY <1>1, <1>2, <1>3, <1>5, <1>6, <1>9, <1>10, BookkeepingSent DEF Arrangements

\* HandoverJoiningTimeout keeps the books.
LEMMA HandoverJoiningTimeoutBooks ==
  ASSUME TypeInv, Bookkeeping, NEW c \in Cells, NEW r \in Rntis,
         HandoverJoiningTimeout(c, r)
  PROVE  Bookkeeping'
<1>1. CASE Stop("HandoverJoiningTimeout")
  BY <1>1, BookkeepingStop
<1>2. CASE ~Stop("HandoverJoiningTimeout")
  BY <1>2, JoiningGivenUp DEF HandoverJoiningTimeout, Awaits
<1> QED
  BY <1>1, <1>2

\* RecvIdealUeContextRemoveRequest keeps the books.
LEMMA RecvIdealUeContextRemoveRequestBooks ==
  ASSUME TypeInv, Bookkeeping, RecvIdealUeContextRemoveRequest
  PROVE  Bookkeeping'
<1> DEFINE c == Head(rrc).cell
           r == Head(rrc).rnti
<1>1. CASE ~Present(c, r)
  BY <1>1, BookkeepingUntouched DEF RecvIdealUeContextRemoveRequest
<1>2. CASE Present(c, r) /\ ctx[c][r].state = "HANDOVER_JOINING"
  BY <1>2, JoiningGivenUp DEF RecvIdealUeContextRemoveRequest, Present
<1>3. CASE Present(c, r) /\ ctx[c][r].state # "HANDOVER_JOINING"
  BY <1>3, RemoveQuiet, BookkeepingSame DEF RecvIdealUeContextRemoveRequest
<1> QED
  BY <1>1, <1>2, <1>3

-----------------------------------------------------------------------------
\* One message goes and one comes.
LEMMA AnswerShape ==
  ASSUME TypeInv, NEW i \in 1..Len(x2), NEW m \in X2Known, x2' = Append(Others(i), m)
  PROVE  /\ Len(x2') = Len(x2) /\ x2'[Len(x2')] = m
         /\ \A j \in 1..(Len(x2) - 1) :
              Place(i, j) \in 1..Len(x2) \ {i} /\ x2'[j] = x2[Place(i, j)]
         /\ Carried([j \in Nat |-> Place(i, j)], Len(x2') - 1)
         /\ TakenFrom([j \in Nat |-> Place(i, j)], Len(x2') - 1)
<1>1. Len(x2) \in Nat
  BY Numbers
<1>2. /\ Others(i) \in Seq(X2Known) /\ Len(Others(i)) = Len(x2) - 1
      /\ \A j \in 1..Len(Others(i)) : Others(i)[j] = x2[Place(i, j)]
  BY OthersShape DEF TypeInv
<1> DEFINE q == Others(i)
<1> HIDE DEF q
<1>3. q \in Seq(X2Known) /\ x2' = Append(q, m) /\ Len(q) = Len(x2) - 1
  BY <1>2 DEF q
<1>4. /\ Len(x2') = Len(x2)
      /\ \A j \in 1..(Len(x2) - 1) : x2'[j] = q[j]
      /\ x2'[Len(x2)] = m
  BY <1>1, <1>3, AppendProperties
<1>5. \A j \in 1..(Len(x2) - 1) : x2'[j] = Others(i)[j]
  BY <1>4 DEF q
<1>6. \A j \in 1..(Len(x2) - 1) : Place(i, j) \in 1..Len(x2) \ {i}
  BY <1>1 DEF Place
<1> QED
  BY <1>2, <1>4, <1>5, <1>6, OthersTaken

\* While a request is on its way nothing else of its handover is.
LEMMA RequestAlone ==
  ASSUME TypeInv, Bookkeeping, NEW i \in 1..Len(x2), x2[i].type = "HandoverRequest"
  PROVE  /\ \A j \in 1..Len(x2) : j # i => ~Concerns(x2[j], x2[i].source, x2[i].oldRnti)
         /\ \A c \in Cells, r \in Rntis : ~JoinsFrom(ctx[c][r], x2[i].source, x2[i].oldRnti)
         /\ IsSource(x2[i].source, x2[i].oldRnti, SourceStates("HandoverRequest"))
<1>1. ASSUME NEW j \in 1..Len(x2), j # i, Concerns(x2[j], x2[i].source, x2[i].oldRnti)
      PROVE  FALSE
  <2>1. x2[j].type \in Arrangements /\ x2[j].source = x2[i].source /\ x2[j].oldRnti = x2[i].oldRnti
    BY <1>1 DEF Concerns
  <2>2. Concerns(x2[i], x2[j].source, x2[j].oldRnti) /\ x2[i].type \in Arrangements
    BY <2>1 DEF Concerns, Arrangements
  <2>3. i < j \/ j < i
    BY <1>1, Numbers
  <2> QED
    BY <1>1, <2>1, <2>2, <2>3 DEF Bookkeeping, MessagesInOrder
<1>2. ASSUME NEW c \in Cells, NEW r \in Rntis,
             JoinsFrom(ctx[c][r], x2[i].source, x2[i].oldRnti)
      PROVE  FALSE
  BY <1>2 DEF Bookkeeping, JoiningAlone, Arrangements
<1>3. IsSource(x2[i].source, x2[i].oldRnti, SourceStates("HandoverRequest"))
  BY DEF Bookkeeping, MessagesKnown, Arrangements
<1> QED
  BY <1>1, <1>2, <1>3

\* The request is answered: refused, or taken by one new context.
LEMMA BookkeepingAnswered ==
  ASSUME TypeInv, Bookkeeping, SourcesKept, ContextsNumbered',
         NEW i \in 1..Len(x2), x2[i].type = "HandoverRequest",
         NEW m \in X2Known, x2' = Append(Others(i), m),
         m.type \in {"HandoverRequestAck", "PreparationFailure"},
         m.source = x2[i].source, m.oldRnti = x2[i].oldRnti,
         \A c \in Cells, r \in Rntis :
            \/ NoNewJoining(ctx[c][r], ctx'[c][r])
            \/ JoinsFrom(ctx'[c][r], m.source, m.oldRnti),
         \A c \in Cells, r \in Rntis :
            JoinsFrom(ctx'[c][r], m.source, m.oldRnti) => m.type = "HandoverRequestAck",
         \A c, d \in Cells, r, q \in Rntis :
            JoinsFrom(ctx'[c][r], m.source, m.oldRnti)
              /\ JoinsFrom(ctx'[d][q], m.source, m.oldRnti) => c = d /\ r = q
  PROVE  Bookkeeping'
<1> DEFINE f == [j \in Nat |-> Place(i, j)]
<1>1. Len(x2) \in Nat \ {0} /\ MaxRnti \in Nat
  BY Numbers
<1>2. /\ Len(x2') = Len(x2) /\ x2'[Len(x2')] = m
      /\ \A j \in 1..(Len(x2) - 1) :
              Place(i, j) \in 1..Len(x2) \ {i} /\ x2'[j] = x2[Place(i, j)]
      /\ TakenFrom(f, Len(x2') - 1)
  BY AnswerShape
<1> HIDE DEF f
<1>3. \A j \in 1..(Len(x2') - 1) : ~Concerns(x2'[j], m.source, m.oldRnti)
  BY <1>2, RequestAlone
<1>4. m.type \in Arrangements
  BY DEF Arrangements
<1>5. IsSourceNext(m.source, m.oldRnti, SourceStates(m.type))
  <2>1. IsSourceNext(m.source, m.oldRnti, SourceStates("HandoverRequest"))
    BY <1>1, RequestAlone, SourceKept
  <2> QED
    BY <2>1 DEF IsSourceNext, SourceStates
<1> QED
  BY <1>1, <1>2, <1>3, <1>4, <1>5, BookkeepingAdded

\* RecvHandoverRequest keeps the books.
LEMMA RecvHandoverRequestBooks ==
  ASSUME TypeInv, Bookkeeping, NEW i \in 1..Len(x2), RecvHandoverRequest(i)
  PROVE  Bookkeeping'
<1> DEFINE t == x2[i].target
           s == x2[i].source
           o == x2[i].oldRnti
           k == NewContext(t, "HANDOVER_JOINING", s, o, "joining")
           ack == X2("HandoverRequestAck", s, o, t, NewRnti(t))
           refusal == X2("PreparationFailure", s, o, t, 0)
<1>1. /\ x2[i].type = "HandoverRequest" /\ t \in Cells /\ t \in CellOrNone
      /\ s \in CellOrNone /\ o \in RntiOrNone
  BY OthersType, Constants DEF RecvHandoverRequest, Due, X2Known, X2Messages
<1>2. /\ refusal \in X2Known /\ refusal.type = "PreparationFailure"
      /\ refusal.source = s /\ refusal.oldRnti = o
  BY <1>1, X2Type, Constants DEF ToSource, X2
<1>3. ASSUME Quiet, x2' = Append(Others(i), refusal)
      PROVE  Bookkeeping'
  <2>1. \A c \in Cells, r \in Rntis : ~JoinsFrom(ctx'[c][r], s, o)
    BY <1>1, <1>3, RequestAlone DEF Quiet, NoJoining, NoNewJoining, JoinsFrom
  <2>2. SourcesKept /\ ContextsNumbered' /\ NoJoining
    BY <1>3 DEF Quiet
  <2> HIDE DEF refusal, s, o
  <2> QED
    BY <1>1, <1>2, <1>3, <2>1, <2>2, BookkeepingAnswered DEF NoJoining, s, o
<1>4. CASE Refuse(i) /\ UNCHANGED network
  BY <1>3, <1>4, NetworkQuiet DEF Refuse
<1>5. CASE ~Full(t) /\ Refuse(i) /\ AddUe(t, Absent)
  <2>1. Absent.state # "HANDOVER_JOINING"
    BY DEF Absent
  <2>2. Quiet
    BY <1>1, <1>5, <2>1, AddQuiet
  <2> QED
    BY <1>3, <1>5, <2>2 DEF Refuse
<1>6. CASE ~Full(t) /\ x2' = Append(Others(i), ack) /\ AddUe(t, k)
  <2>1. k.state = "HANDOVER_JOINING" /\ k.peer = s /\ k.peerRnti = o
    BY DEF NewContext, Start, Absent
  <2>2. NewRnti(t) \in Rntis
    BY <1>1, <1>6, AddShape
  <2>3. /\ ack \in X2Known /\ ack.type = "HandoverRequestAck"
        /\ ack.source = s /\ ack.oldRnti = o
    BY <1>1, <2>2, X2Type, Constants DEF ToSource, X2
  <2> HIDE DEF k, ack
  <2>4. /\ SourcesKept /\ ContextsNumbered'
        /\ \A d \in Cells, q \in Rntis :
              ctx'[d][q] = IF d = t /\ q = NewRnti(t) THEN k ELSE ctx[d][q]
    BY <1>1, <1>6, AddShape
  <2>5. \A c \in Cells, r \in Rntis :
           /\ \/ NoNewJoining(ctx[c][r], ctx'[c][r])
              \/ JoinsFrom(ctx'[c][r], s, o)
           /\ JoinsFrom(ctx'[c][r], s, o) => c = t /\ r = NewRnti(t)
    BY <1>1, <2>1, <2>4, RequestAlone DEF NoNewJoining, JoinsFrom
  <2> QED
    BY <1>1, <1>6, <2>3, <2>4, <2>5, BookkeepingAnswered
<1> QED
  BY <1>4, <1>5, <1>6 DEF RecvHandoverRequest

\* The acknowledgement of a handover: its source is preparing it or gone, and
\* all that may still be on its way is the failure of its target.
LEMMA RecvHandoverRequestAckBooks ==
  ASSUME TypeInv, Bookkeeping, NEW i \in 1..Len(x2), RecvHandoverRequestAck(i)
  PROVE  Bookkeeping'
<1> DEFINE c == x2[i].source
           r == x2[i].oldRnti
           k == Start(c, "leaving", [ctx[c][r] EXCEPT !.state = "HANDOVER_LEAVING",
                                     !.peer = x2[i].target, !.peerRnti = x2[i].newRnti])
<1>1. CASE Stop("RecvHandoverRequestAck")
  BY <1>1, BookkeepingStop
<1>2. CASE /\ Present(c, r)
           /\ SetContext(c, r, k)
           /\ x2' = Others(i)
  <2>1. x2[i].type = "HandoverRequestAck" /\ c \in Cells /\ r \in Rntis
    BY <1>2 DEF RecvHandoverRequestAck, Due, Present
  <2>2. k.state = "HANDOVER_LEAVING"
    BY <1>2, PresentType DEF Start, TimedContexts, Contexts
  <2> HIDE DEF k
  <2>3. /\ \A d \in Cells, q \in Rntis :
                ctx'[d][q] = IF d = c /\ q = r THEN k ELSE ctx[d][q]
        /\ lastRnti' = lastRnti
    BY <1>2, SetShape
  <2>4. NoJoining /\ ContextsNumbered'
    BY <1>2, <2>2, <2>3
       DEF NoJoining, NoNewJoining, Bookkeeping, ContextsNumbered, Present
  <2>5. /\ Len(x2') = Len(x2) - 1
        /\ \A j \in 1..Len(x2') : x2'[j] = x2[Place(i, j)]
        /\ \A j \in 1..Len(x2') : Place(i, j) \in 1..Len(x2) \ {i}
    <3>1. /\ Len(Others(i)) = Len(x2) - 1
          /\ \A j \in 1..Len(Others(i)) : Others(i)[j] = x2[Place(i, j)]
      BY OthersShape DEF TypeInv
    <3>2. \A j \in 1..(Len(x2) - 1) : Place(i, j) \in 1..Len(x2) \ {i}
      BY Numbers DEF Place
    <3> QED
      BY <1>2, <3>1, <3>2
  <2>6. MessagesInOrder' /\ JoiningAlone' /\ JoiningOnce'
    <3>1. TakenFrom([j \in Nat |-> Place(i, j)], Len(x2'))
      BY <1>2, <2>5, OthersTaken
    <3> QED
      BY <2>4, <3>1, OrderKept
  <2>7. ASSUME NEW j \in 1..Len(x2), j # i, Concerns(x2[j], c, r)
        PROVE  x2[j].type = "PreparationFailure"
    <3>1. /\ x2[j].type \in Arrangements /\ x2[i].type \in Arrangements
          /\ Concerns(x2[i], x2[j].source, x2[j].oldRnti)
      BY <2>1, <2>7 DEF Concerns, Arrangements
    <3>2. i < j \/ j < i
      BY <2>7, Numbers
    <3> QED
      BY <2>1, <2>7, <3>1, <3>2 DEF Bookkeeping, MessagesInOrder
  <2>8. MessagesKnown'
    <3> SUFFICES ASSUME NEW j \in 1..Len(x2'), x2'[j].type \in Arrangements
                 PROVE  IsSourceNext(x2'[j].source, x2'[j].oldRnti, SourceStates(x2'[j].type))
      BY DEF MessagesKnown, IsSource, IsSourceNext
    <3> DEFINE p == Place(i, j)
    <3>1. p \in 1..Len(x2) \ {i} /\ x2'[j] = x2[p]
      BY <2>5
    <3> HIDE DEF p
    <3>2. IsSource(x2[p].source, x2[p].oldRnti, SourceStates(x2[p].type))
      BY <3>1 DEF Bookkeeping, MessagesKnown
    <3>3. CASE Concerns(x2[p], c, r)
      <4>1. x2[p].type = "PreparationFailure" /\ x2[p].source = c /\ x2[p].oldRnti = r
        BY <2>7, <3>1, <3>3 DEF Concerns
      <4>2. "HANDOVER_LEAVING" \in SourceStates(x2[p].type)
        BY <4>1 DEF SourceStates
      <4> QED
        BY <2>2, <2>3, <3>1, <3>2, <4>1, <4>2 DEF IsSource, IsSourceNext
    <3>4. CASE ~Concerns(x2[p], c, r)
      BY <2>3, <3>1, <3>2, <3>4 DEF Concerns, IsSource, IsSourceNext
    <3> QED
      BY <3>3, <3>4
  <2>9. JoiningKnown'
    <3> SUFFICES ASSUME NEW d \in Cells, NEW q \in Rntis,
                        ctx'[d][q].state = "HANDOVER_JOINING"
                 PROVE  IsSourceNext(ctx'[d][q].peer, ctx'[d][q].peerRnti,
                                     SourceStates("PreparationFailure"))
      BY DEF JoiningKnown, IsSource, IsSourceNext
    <3>1. ctx'[d][q] = ctx[d][q]
      BY <2>2, <2>3
    <3>2. IsSource(ctx[d][q].peer, ctx[d][q].peerRnti, SourceStates("PreparationFailure"))
      BY <3>1 DEF Bookkeeping, JoiningKnown
    <3>3. "HANDOVER_LEAVING" \in SourceStates("PreparationFailure")
      BY DEF SourceStates
    <3> QED
      BY <2>2, <2>3, <3>1, <3>2, <3>3 DEF IsSource, IsSourceNext
  <2> QED
    BY <2>4, <2>6, <2>8, <2>9 DEF Bookkeeping
<1> QED
  BY <1>1, <1>2 DEF RecvHandoverRequestAck

\* A failure that is due is the last of its handover to be on its way.
LEMMA RecvHandoverPreparationFailureBooks ==
  ASSUME TypeInv, Bookkeeping, NEW i \in 1..Len(x2), RecvHandoverPreparationFailure(i)
  PROVE  Bookkeeping'
<1> DEFINE c == x2[i].source
           r == x2[i].oldRnti
           k == [ctx[c][r] EXCEPT !.state = "CONNECTED_NORMALLY"]
<1>1. CASE Stop("RecvHandoverPreparationFailure")
  BY <1>1, BookkeepingStop
<1>2. CASE /\ Present(c, r)
           /\ SetContext(c, r, k)
           /\ x2' = Others(i)
  <2>1. /\ x2[i].type = "PreparationFailure" /\ c \in Cells /\ r \in Rntis
        /\ \A j \in 1..(i - 1) : Receiver(x2[j]) # Receiver(x2[i])
    BY <1>2 DEF RecvHandoverPreparationFailure, Due, Present
  <2>2. k.state = "CONNECTED_NORMALLY"
    BY <1>2, PresentType DEF TimedContexts, Contexts
  <2> HIDE DEF k
  <2>3. /\ \A d \in Cells, q \in Rntis :
                ctx'[d][q] = IF d = c /\ q = r THEN k ELSE ctx[d][q]
        /\ lastRnti' = lastRnti
    BY <1>2, SetShape
  <2>4. NoJoining /\ ContextsNumbered'
    BY <1>2, <2>2, <2>3
       DEF NoJoining, NoNewJoining, Bookkeeping, ContextsNumbered, Present
  <2>5. /\ Len(x2') = Len(x2) - 1
        /\ \A j \in 1..Len(x2') : x2'[j] = x2[Place(i, j)]
        /\ \A j \in 1..Len(x2') : Place(i, j) \in 1..Len(x2) \ {i}
    <3>1. /\ Len(Others(i)) = Len(x2) - 1
          /\ \A j \in 1..Len(Others(i)) : Others(i)[j] = x2[Place(i, j)]
      BY OthersShape DEF TypeInv
    <3>2. \A j \in 1..(Len(x2) - 1) : Place(i, j) \in 1..Len(x2) \ {i}
      BY Numbers DEF Place
    <3> QED
      BY <1>2, <3>1, <3>2
  <2>6. MessagesInOrder' /\ JoiningAlone' /\ JoiningOnce'
    <3>1. TakenFrom([j \in Nat |-> Place(i, j)], Len(x2'))
      BY <1>2, <2>5, OthersTaken
    <3> QED
      BY <2>4, <3>1, OrderKept
  <2>7. ASSUME NEW j \in 1..Len(x2), j # i, Concerns(x2[j], c, r)
        PROVE  FALSE
    <3>1. /\ x2[j].type \in Arrangements /\ x2[i].type \in Arrangements
          /\ Concerns(x2[i], x2[j].source, x2[j].oldRnti)
      BY <2>1, <2>7 DEF Concerns, Arrangements
    <3>2. i < j \/ (j < i /\ j \in 1..(i - 1))
      BY <2>7, Numbers
    <3>3. j < i /\ j \in 1..(i - 1) /\ x2[j].type = "HandoverRequestAck"
      BY <2>1, <2>7, <3>1, <3>2 DEF Bookkeeping, MessagesInOrder
    <3>4. Receiver(x2[j]) = c /\ Receiver(x2[i]) = c
      BY <2>1, <2>7, <3>3 DEF Receiver, ToTarget, Concerns
    <3> QED
      BY <2>1, <3>3, <3>4
  <2>8. MessagesKnown'
    <3> SUFFICES ASSUME NEW j \in 1..Len(x2'), x2'[j].type \in Arrangements
                 PROVE  IsSourceNext(x2'[j].source, x2'[j].oldRnti, SourceStates(x2'[j].type))
      BY DEF MessagesKnown, IsSource, IsSourceNext
    <3> DEFINE p == Place(i, j)
    <3>1. p \in 1..Len(x2) \ {i} /\ x2'[j] = x2[p]
      BY <2>5
    <3> HIDE DEF p
    <3>2. IsSource(x2[p].source, x2[p].oldRnti, SourceStates(x2[p].type))
      BY <3>1 DEF Bookkeeping, MessagesKnown
    <3>3. ~Concerns(x2[p], c, r)
      BY <2>7, <3>1
    <3> QED
      BY <2>3, <3>1, <3>2, <3>3 DEF Concerns, IsSource, IsSourceNext
  <2>9. JoiningKnown'
    <3>1. \A d \in Cells, q \in Rntis : ~JoinsFrom(ctx[d][q], c, r)
      BY <2>1 DEF Bookkeeping, JoiningAlone, Arrangements
    <3> QED
      BY <2>2, <2>3, <3>1 DEF Bookkeeping, JoiningKnown, IsSource, JoinsFrom
  <2> QED
    BY <2>4, <2>6, <2>8, <2>9 DEF Bookkeeping
<1>3. CASE /\ RemoveUe(c, r) \/ UNCHANGED network
           /\ x2' = Others(i)
  BY <1>3, RemoveQuiet, NetworkQuiet, BookkeepingOthers
<1> QED
  BY <1>1, <1>2, <1>3
     DEF RecvHandoverPreparationFailure, SwitchToState, ReleaseConnection

\* RecvUeContextRelease keeps the books.
LEMMA RecvUeContextReleaseBooks ==
  ASSUME TypeInv, Bookkeeping, NEW i \in 1..Len(x2), RecvUeContextRelease(i)
  PROVE  Bookkeeping'
<1>1. CASE Stop("RecvUeContextRelease")
  BY <1>1, BookkeepingStop
<1>2. CASE /\ RemoveUe(x2[i].source, x2[i].oldRnti) \/ UNCHANGED network
           /\ x2' = Others(i)
  BY <1>2, RemoveQuiet, NetworkQuiet, BookkeepingOthers
<1> QED
  BY <1>1, <1>2 DEF RecvUeContextRelease

\* RecvHandoverCancel keeps the books.
LEMMA RecvHandoverCancelBooks ==
  ASSUME TypeInv, Bookkeeping, NEW i \in 1..Len(x2), RecvHandoverCancel(i)
  PROVE  Bookkeeping'
<1> DEFINE t == x2[i].target
           n == x2[i].newRnti
           k == Cancel("joining", ctx[t][n])
<1>1. CASE Stop("RecvHandoverCancel")
  BY <1>1, BookkeepingStop
<1>2. CASE /\ Present(t, n) /\ ctx[t][n].state = "HANDOVER_JOINING"
           /\ SetContext(t, n, k)
           /\ x2' = Others(i)
  <2>1. /\ k.state = "HANDOVER_JOINING"
        /\ k.peer = ctx[t][n].peer /\ k.peerRnti = ctx[t][n].peerRnti
    BY <1>2, PresentType DEF TimedContexts, Contexts, Cancel
  <2>2. QuietContext(ctx[t][n], k) /\ NoNewJoining(ctx[t][n], k)
    BY <1>2, <2>1 DEF QuietContext, NoNewJoining
  <2>3. Quiet
    BY <1>2, <2>2, SetQuiet
  <2> QED
    BY <1>2, <2>3, BookkeepingOthers
<1>3. CASE UNCHANGED network /\ x2' = Others(i)
  BY <1>3, NetworkQuiet, BookkeepingOthers
<1> QED
  BY <1>1, <1>2, <1>3 DEF RecvHandoverCancel

\* ForwardData keeps the books.
LEMMA ForwardDataBooks ==
  ASSUME TypeInv, Bookkeeping, NEW c \in Cells, NEW r \in Rntis, ForwardData(c, r)
  PROVE  Bookkeeping'
<1> DEFINE m == X2("UeData", c, r, ctx[c][r].peer, ctx[c][r].peerRnti)
<1>1. Present(c, r)
  BY DEF ForwardData, Present
<1>2. m \in X2Known
  BY <1>1, PresentType, X2Type DEF ToTarget
<1>3. m.type \notin Arrangements
  BY DEF X2, Arrangements
<1>4. x2' = Append(x2, m) /\ UNCHANGED network
  BY DEF ForwardData
<1> HIDE DEF m
<1> QED
  BY <1>2, <1>3, <1>4, NetworkQuiet, BookkeepingAppend

\* RecvUeData keeps the books.
LEMMA RecvUeDataBooks ==
  ASSUME TypeInv, Bookkeeping, NEW i \in 1..Len(x2), RecvUeData(i)
  PROVE  Bookkeeping'
<1>1. CASE Stop("RecvUeData")
  BY <1>1, BookkeepingStop
<1>2. CASE UNCHANGED network /\ x2' = Others(i)
  BY <1>2, NetworkQuiet, BookkeepingOthers
<1> QED
  BY <1>1, <1>2 DEF RecvUeData

\* ConnectionTimeout keeps the books.
LEMMA ConnectionTimeoutBooks ==
  ASSUME TypeInv, Bookkeeping, NEW c \in Cells, NEW r \in Rntis, NEW timer,
         ConnectionTimeout(c, r, timer)
  PROVE  Bookkeeping'
<1>1. CASE Stop("ConnectionTimeout")
  BY <1>1, BookkeepingStop
<1>2. CASE RemoveUe(c, r) /\ UNCHANGED x2
  BY <1>2, RemoveQuiet, BookkeepingSame
<1> QED
  BY <1>1, <1>2 DEF ConnectionTimeout

\* HandoverLeavingTimeout keeps the books.
LEMMA HandoverLeavingTimeoutBooks ==
  ASSUME TypeInv, Bookkeeping, NEW c \in Cells, NEW r \in Rntis,
         HandoverLeavingTimeout(c, r)
  PROVE  Bookkeeping'
<1> DEFINE m == HandoverCancel(c, r)
<1>1. CASE Stop("HandoverLeavingTimeout")
  BY <1>1, BookkeepingStop
<1>2. CASE /\ ctx[c][r].state = "HANDOVER_LEAVING"
           /\ x2' = Append(x2, m)
           /\ RemoveUe(c, r)
  <2>1. Present(c, r)
    BY <1>2 DEF Present
  <2>2. m \in X2Known
    BY <2>1, PresentType, X2Type DEF HandoverCancel, ToTarget
  <2>3. m.type \notin Arrangements
    BY DEF HandoverCancel, X2, Arrangements
  <2> HIDE DEF m
  <2> QED
    BY <1>2, <2>2, <2>3, RemoveQuiet, BookkeepingAppend
<1> QED
  BY <1>1, <1>2 DEF HandoverLeavingTimeout, Awaits, ReleaseConnection

\* The messages come nearer, and are the same.
LEMMA TickShape ==
  ASSUME TypeInv, Tick
  PROVE  /\ Len(x2') = Len(x2)
         /\ \A i \in 1..Len(x2) : SameButTime(x2'[i], x2[i]) /\ x2'[i].wait = Minus1(x2[i].wait)
         /\ Carried([i \in Nat |-> i], Len(x2'))
<1>1. Len(x2) \in Nat
  BY Numbers
<1>2. x2' = [i \in 1..Len(x2) |-> [x2[i] EXCEPT !.wait = Minus1(x2[i].wait)]]
  BY DEF Tick
<1>3. x2' \in Seq(X2Known)
  BY TickType DEF TypeInv
<1>4. \A i \in 1..Len(x2) : x2[i] \in X2Messages
  BY DEF TypeInv, X2Known
<1>5. DOMAIN x2' = 1..Len(x2)
  BY <1>2
<1>6. Len(x2') = Len(x2)
  BY <1>1, <1>3, <1>5, LenProperties
<1>7. ASSUME NEW i \in 1..Len(x2)
      PROVE  SameButTime(x2'[i], x2[i]) /\ x2'[i].wait = Minus1(x2[i].wait)
  BY <1>2, <1>4 DEF SameButTime, SameMessage, X2Messages
<1>8. Carried([i \in Nat |-> i], Len(x2'))
  BY <1>1, <1>6, <1>7 DEF Carried
<1> QED
  BY <1>6, <1>7, <1>8

\* Tick keeps the books.
LEMMA TickBooks ==
  ASSUME TypeInv, Bookkeeping, Tick
  PROVE  Bookkeeping'
<1> DEFINE f == [i \in Nat |-> i]
<1>1. Len(x2) \in Nat /\ MaxRnti \in Nat
  BY Numbers
<1>2. ASSUME NEW c \in Cells, NEW r \in Rntis
      PROVE  /\ ctx'[c][r].state = ctx[c][r].state
             /\ ctx'[c][r].peer = ctx[c][r].peer
             /\ ctx'[c][r].peerRnti = ctx[c][r].peerRnti
  <2>1. ctx[c][r] \in Contexts
    BY DEF TypeInv, TimedContexts
  <2>2. ctx'[c][r] = [ctx[c][r] EXCEPT !.timers = [t \in Timers |-> Minus1(ctx[c][r].timers[t])]]
    BY DEF Tick
  <2> QED
    BY <2>1, <2>2 DEF Contexts
<1>3. Quiet
  <2>1. lastRnti' = lastRnti
    BY DEF Tick
  <2>2. SourcesKept
    BY <1>2, <2>1, Numbers DEF SourcesKept, RntisGrow, QuietContext
  <2>3. NoJoining
    BY <1>2 DEF NoJoining, NoNewJoining
  <2>4. ContextsNumbered'
    BY <1>2, <2>1 DEF Bookkeeping, ContextsNumbered
  <2> QED
    BY <2>2, <2>3, <2>4 DEF Quiet
<1>4. TakenFrom(f, Len(x2'))
  BY TickShape, CarriedTaken
<1> QED
  BY <1>1, <1>3, <1>4, BookkeepingKept

\* There is nothing to keep books of at first.
LEMMA BookkeepingInit == ASSUME Init PROVE Bookkeeping
<1>1. Len(x2) = 0
  BY DEF Init
<1>2. \A c \in Cells, r \in Rntis : ctx[c][r].state = "ABSENT"
  BY DEF Init, Absent
<1> QED
  BY <1>1, <1>2
     DEF Bookkeeping, ContextsNumbered, MessagesKnown, MessagesInOrder, JoiningKnown,
         JoiningAlone, JoiningOnce

\* Every step keeps the books.
LEMMA BookkeepingNext ==
  ASSUME TypeInv, Bookkeeping, [Next]_vars
  PROVE  Bookkeeping'
<1>1. CASE UeStep
  BY <1>1, BookkeepingUntouched, ReceivePreambleBooks
     DEF UeStep, SelectCell, StartConnection, RecvRaResponse, RadioLinkFailureDetected
<1>2. CASE RrcStep
  <2>1. CASE RecvRrcConnectionSetup
    BY <2>1, BookkeepingUntouched, BookkeepingStop DEF RecvRrcConnectionSetup
  <2>2. CASE RecvRrcConnectionReject \/ RecvRrcConnectionRelease
    BY <2>2, BookkeepingUntouched DEF RecvRrcConnectionReject, RecvRrcConnectionRelease
  <2>3. CASE RecvRrcConnectionReconfiguration
    BY <2>3, BookkeepingUntouched, BookkeepingStop DEF RecvRrcConnectionReconfiguration
  <2>4. CASE RecvHandoverCommand
    BY <2>4, BookkeepingUntouched, BookkeepingStop DEF RecvHandoverCommand
  <2> QED
    BY <1>2, <2>1, <2>2, <2>3, <2>4, RecvRrcConnectionRequestBooks,
       RecvRrcConnectionSetupCompletedBooks, RecvRrcConnectionReconfigurationCompletedBooks,
       RecvIdealUeContextRemoveRequestBooks
       DEF RrcStep
<1>3. CASE X2Step
  BY <1>3, RecvHandoverRequestBooks, RecvHandoverRequestAckBooks,
     RecvHandoverPreparationFailureBooks, RecvUeContextReleaseBooks,
     RecvHandoverCancelBooks, RecvUeDataBooks
     DEF X2Step
<1>4. CASE S1Step
  BY <1>4, InitialContextSetupRequestBooks, PathSwitchRequestAcknowledgeBooks DEF S1Step
<1>5. CASE TimeoutStep
  BY <1>5, ConnectionTimeoutBooks, HandoverJoiningTimeoutBooks, HandoverLeavingTimeoutBooks
     DEF TimeoutStep
<1>6. CASE SourceStep
  BY <1>6, ForwardDataBooks, TriggerHandoverBooks DEF SourceStep
<1>7. CASE RandomAccessFailed
  BY <1>7, BookkeepingUntouched DEF RandomAccessFailed
<1>8. CASE Stopped \/ UNCHANGED vars
  BY <1>8, BookkeepingUntouched DEF Stopped, vars, network
<1> QED
  BY <1>1, <1>2, <1>3, <1>4, <1>5, <1>6, <1>7, <1>8, TickBooks DEF Next, Scheduled

-----------------------------------------------------------------------------

(***************************************************************************)
(* What the UE and the eNBs tell each other over the air, and the theorems.*)
(***************************************************************************)

\* The UE is in cell c under RNTI r.
UeAt(c, r) == ue.cell = c /\ ue.rnti = r

\* No context serves.
NobodyServed == \A c \in Cells, r \in Rntis : ~Serves(c, r)

\* What an RRC message under way says of the UE it came from or is for.
Agrees(m, u) ==
    /\ m.type \in {"SetupCompleted", "ReconfigurationCompleted"} =>
          u.state = "CONNECTED_NORMALLY" /\ u.cell = m.cell /\ u.rnti = m.rnti
    /\ m.type = "ContextRemove" => u.state = "IDLE_CELL_SEARCH"
    /\ m.type \in {"Request", "Setup", "Reject"} => u.state = "IDLE_CONNECTING"

\* The UE is served where it is connected, or where it is about to be removed from.
ServedWhereItIs ==
    \A c \in Cells, r \in Rntis :
        Serves(c, r) =>
            \/ ue.state = "CONNECTED_NORMALLY" /\ UeAt(c, r)
            \/ /\ Received("ContextRemove")
               /\ Head(rrc).cell = c /\ Head(rrc).rnti = r

\* What the UE and the eNBs tell each other is true.
Exchange ==
    /\ Len(rrc) <= 1
    /\ rrc # <<>> => Agrees(Head(rrc), ue)
    /\ Received("HandoverCommand") => NobodyServed
    /\ ServedWhereItIs

\* No context starts to serve.
ServesNoMore == \A c \in Cells, r \in Rntis : Serves(c, r)' => Serves(c, r)

\* The UE stays in its state and place.
SameUe == ue'.state = ue.state /\ ue'.cell = ue.cell /\ ue'.rnti = ue.rnti

\* A sequence of one message.
LEMMA SingleMessage ==
  ASSUME NEW S, NEW q \in Seq(S), Len(q) = 0, NEW m \in S
  PROVE  Len(Append(q, m)) = 1 /\ Append(q, m) # <<>> /\ Head(Append(q, m)) = m
<1> DEFINE p == Append(q, m)
<1>1. p \in Seq(S) /\ Len(p) = 1 /\ p[1] = m
  BY AppendProperties
<1> HIDE DEF p
<1>2. p # <<>>
  <2>1. ASSUME p = <<>> PROVE FALSE
    <3>1. Len(<<>>) = 0
      BY EmptySeq
    <3> QED
      BY <1>1, <2>1, <3>1
  <2> QED
    BY <2>1
<1>3. Head(p) = m
  BY <1>1, <1>2
<1> QED
  BY <1>1, <1>2, <1>3 DEF p

\* What is left of at most one message.
LEMMA NothingLeft ==
  ASSUME NEW S, NEW q \in Seq(S), Len(q) <= 1, q # <<>>
  PROVE  Tail(q) \in Seq(S) /\ Tail(q) = <<>> /\ Len(Tail(q)) = 0
<1>1. Len(q) \in Nat \ {0}
  OBVIOUS
<1>2. Len(q) = 1
  BY <1>1
<1>3. Tail(q) \in Seq(S) /\ Len(Tail(q)) = 0
  BY <1>2, HeadTailProperties
<1>4. Tail(q) = <<>>
  BY <1>3, EmptySeq
<1> QED
  BY <1>3, <1>4

\* A message is sent when none is on its way, or in answer to the only one.
LEMMA RrcSent ==
  ASSUME TypeInv, Exchange, NEW m \in RrcKnown,
         \/ rrc = <<>> /\ rrc' = Append(rrc, m)
         \/ rrc # <<>> /\ rrc' = Append(Tail(rrc), m)
  PROVE  Len(rrc') = 1 /\ rrc' # <<>> /\ Head(rrc') = m
<1>1. rrc \in Seq(RrcKnown) /\ Len(rrc) <= 1
  BY DEF TypeInv, Exchange
<1>2. CASE rrc = <<>>
  BY <1>1, <1>2, SingleMessage
<1>3. CASE rrc # <<>>
  BY <1>1, <1>3, NothingLeft, SingleMessage
<1> QED
  BY <1>2, <1>3

\* The message under way is received.
LEMMA RrcTaken ==
  ASSUME TypeInv, Exchange, rrc # <<>>
  PROVE  Tail(rrc) = <<>> /\ Len(Tail(rrc)) = 0
BY NothingLeft DEF TypeInv, Exchange

\* Nothing of what the UE and the eNBs tell each other changes.
LEMMA ExchangeQuiet ==
  ASSUME Exchange, SameUe, ServesNoMore, UNCHANGED rrc
  PROVE  Exchange'
BY DEF Exchange, Agrees, ServedWhereItIs, SameUe, ServesNoMore, UeAt, Received, NobodyServed

\* Nothing is under way and nobody is served.
LEMMA ExchangeEmpty ==
  ASSUME TypeInv, Exchange, NobodyServed', rrc' = <<>>
  PROVE  Exchange'
BY EmptySeq DEF Exchange, ServedWhereItIs, NobodyServed, Received

\* One message is under way and true.
LEMMA ExchangeSent ==
  ASSUME TypeInv, Exchange, NEW m \in RrcKnown,
         \/ rrc = <<>> /\ rrc' = Append(rrc, m)
         \/ rrc # <<>> /\ rrc' = Append(Tail(rrc), m),
         Agrees(m, ue'),
         m.type = "HandoverCommand" => \A c \in Cells, r \in Rntis : ~Serves(c, r)',
         \A c \in Cells, r \in Rntis : Serves(c, r)' =>
            \/ ue'.state = "CONNECTED_NORMALLY" /\ ue'.cell = c /\ ue'.rnti = r
            \/ m.type = "ContextRemove" /\ m.cell = c /\ m.rnti = r
  PROVE  Exchange'
<1>1. Len(rrc') = 1 /\ rrc' # <<>> /\ Head(rrc') = m
  BY RrcSent
<1>2. /\ (rrc # <<>> => Agrees(Head(rrc), ue))'
      /\ (Received("HandoverCommand") => NobodyServed)'
  BY <1>1 DEF Received, NobodyServed
<1>3. ServedWhereItIs'
  BY <1>1 DEF ServedWhereItIs, UeAt, Received
<1> QED
  BY <1>1, <1>2, <1>3 DEF Exchange

\* The message under way is received and not answered.
LEMMA ExchangeTaken ==
  ASSUME TypeInv, Exchange, rrc # <<>>, rrc' = Tail(rrc),
         \A c \in Cells, r \in Rntis : Serves(c, r)' =>
            ue'.state = "CONNECTED_NORMALLY" /\ ue'.cell = c /\ ue'.rnti = r
  PROVE  Exchange'
BY RrcTaken DEF Exchange, ServedWhereItIs, UeAt, Received

\* Who serves the UE while it is connected, and while it is not.
LEMMA ServedHere ==
  ASSUME Exchange, ~Received("ContextRemove"), NEW c \in Cells, NEW r \in Rntis, Serves(c, r)
  PROVE  ue.state = "CONNECTED_NORMALLY" /\ ue.cell = c /\ ue.rnti = r
BY DEF Exchange, ServedWhereItIs, UeAt

\* A UE that is not connected is not served.
LEMMA NotServed ==
  ASSUME Exchange, ~Received("ContextRemove"), ue.state # "CONNECTED_NORMALLY"
  PROVE  NobodyServed
BY ServedHere DEF NobodyServed

\* Without a change of contexts nothing starts to serve.
LEMMA NetworkServes ==
  ASSUME UNCHANGED network
  PROVE  ServesNoMore
BY DEF network, ServesNoMore, Serves

\* A context that is replaced does not start to serve.
LEMMA SetServes ==
  ASSUME TypeInv, NEW c, NEW r, NEW k, SetContext(c, r, k),
         k.state \in ServingStates => ctx[c][r].state \in ServingStates
  PROVE  ServesNoMore
BY SetShape DEF ServesNoMore, Serves

\* A removed context does not serve.
LEMMA RemoveServes ==
  ASSUME TypeInv, NEW c, NEW r, RemoveUe(c, r)
  PROVE  ServesNoMore
BY SetServes DEF RemoveUe, Absent, ServingStates

\* A context that is added does not serve yet.
LEMMA AddServes ==
  ASSUME TypeInv, Bookkeeping, NEW c \in Cells, ~Full(c), NEW k, AddUe(c, k),
         k.state \notin ServingStates
  PROVE  ServesNoMore
BY AddShape DEF ServesNoMore, Serves

\* A failed assertion changes nothing of what they tell each other.
LEMMA ExchangeStop ==
  ASSUME Exchange, NEW handler, Stop(handler)
  PROVE  Exchange'
BY NetworkServes, ExchangeQuiet DEF Stop, SameUe

\* No RRC message is under way when an instant is idle.
LEMMA Idle == ASSUME Running PROVE rrc = <<>> /\ \A type : ~Received(type)
BY DEF Running, Received

\* UeStep keeps the exchange true.
LEMMA UeStepTalks ==
  ASSUME TypeInv, Bookkeeping, Exchange, UeStep
  PROVE  Exchange'
<1>0. rrc = <<>> /\ ~Received("ContextRemove")
  BY Idle DEF UeStep, SelectCell, StartConnection, ReceivePreamble, RecvRaResponse,
              RadioLinkFailureDetected
<1>1. ASSUME NEW c \in Cells, SelectCell(c)
      PROVE  Exchange'
  BY <1>0, <1>1, NotServed, NetworkServes, ExchangeEmpty
     DEF SelectCell, NobodyServed, ServesNoMore
<1>2. CASE StartConnection
  BY <1>0, <1>2, NotServed, NetworkServes, ExchangeEmpty
     DEF StartConnection, NobodyServed, ServesNoMore
<1>3. CASE ReceivePreamble
  <2> DEFINE k == NewContext(ue.cell, "INITIAL_RANDOM_ACCESS", NoCell, 0, "request")
  <2>1. ue.cell \in Cells /\ ue.state # "CONNECTED_NORMALLY" /\ UNCHANGED rrc
    BY <1>3 DEF TypeInv, ReceivePreamble, AccessesRandomly, UesInCells
  <2>2. k.state \notin ServingStates
    BY DEF NewContext, Start, Absent, ServingStates
  <2>3. UNCHANGED network \/ (~Full(ue.cell) /\ AddUe(ue.cell, k))
    BY <1>3 DEF ReceivePreamble
  <2> HIDE DEF k
  <2>4. ServesNoMore
    BY <2>1, <2>2, <2>3, NetworkServes, AddServes
  <2> QED
    BY <1>0, <2>1, <2>4, NotServed, ExchangeEmpty DEF NobodyServed, ServesNoMore
<1>4. CASE RecvRaResponse
  <2>1. ue.state # "CONNECTED_NORMALLY" /\ UNCHANGED network
    BY <1>4 DEF RecvRaResponse
  <2>2. \A c \in Cells, r \in Rntis : ~Serves(c, r)'
    BY <1>0, <2>1, NotServed, NetworkServes DEF ServesNoMore, NobodyServed
  <2>3. ue \in UeRrcs /\ ue.cell \in CellOrNone /\ ue.rar \in RntiOrNone
    BY DEF TypeInv, UesInCells, UeRrcs
  <2>4. CASE ue.state = "IDLE_RANDOM_ACCESS"
    <3> DEFINE m == Rrc("Request", ue.cell, ue.rar)
    <3>1. m \in RrcKnown /\ m.type = "Request"
      BY <2>3, RrcType DEF ToUe, ToEnb, Rrc
    <3>2. ue'.state = "IDLE_CONNECTING" /\ rrc' = Append(rrc, m)
      BY <1>4, <2>3, <2>4 DEF RecvRaResponse, UeRrcs
    <3> HIDE DEF m
    <3>3. Agrees(m, ue')
      BY <3>1, <3>2 DEF Agrees
    <3> QED
      BY <1>0, <2>2, <3>1, <3>2, <3>3, ExchangeSent
  <2>5. CASE ue.state = "CONNECTED_HANDOVER"
    <3> DEFINE m == Rrc("ReconfigurationCompleted", ue.cell, ue.rar)
    <3>1. /\ m \in RrcKnown /\ m.type = "ReconfigurationCompleted"
          /\ m.cell = ue.cell /\ m.rnti = ue.rar
      BY <2>3, RrcType DEF ToUe, ToEnb, Rrc
    <3>2. /\ ue'.state = "CONNECTED_NORMALLY" /\ ue'.cell = ue.cell /\ ue'.rnti = ue.rar
          /\ rrc' = Append(rrc, m)
      BY <1>4, <2>3, <2>5 DEF RecvRaResponse, UeRrcs
    <3> HIDE DEF m
    <3>3. Agrees(m, ue')
      BY <3>1, <3>2 DEF Agrees, UeAt
    <3> QED
      BY <1>0, <2>2, <3>1, <3>2, <3>3, ExchangeSent
  <2> QED
    BY <1>4, <2>4, <2>5 DEF RecvRaResponse
<1>5. CASE RadioLinkFailureDetected
  <2> DEFINE m == Rrc("ContextRemove", ue.cell, ue.rnti)
  <2>1. /\ m \in RrcKnown /\ m.type = "ContextRemove"
        /\ m.cell = ue.cell /\ m.rnti = ue.rnti
    BY RrcType DEF TypeInv, UesInCells, UeRrcs, ToUe, ToEnb, Rrc
  <2>2. ue'.state = "IDLE_CELL_SEARCH" /\ rrc' = Append(rrc, m) /\ UNCHANGED network
    BY <1>5 DEF RadioLinkFailureDetected, DropConnection, LeaveConnectedMode
  <2> HIDE DEF m
  <2>3. Agrees(m, ue')
    BY <2>1, <2>2 DEF Agrees
  <2>4. \A c \in Cells, r \in Rntis : Serves(c, r)' => m.cell = c /\ m.rnti = r
    BY <1>0, <2>1, <2>2, ServedHere, NetworkServes DEF ServesNoMore
  <2> QED
    BY <1>0, <2>1, <2>2, <2>3, <2>4, ExchangeSent
<1> QED
  BY <1>1, <1>2, <1>3, <1>4, <1>5 DEF UeStep

\* RandomAccessFailed keeps the exchange true.
LEMMA RandomAccessFailedTalks ==
  ASSUME TypeInv, Exchange, RandomAccessFailed
  PROVE  Exchange'
<1>0. rrc = <<>> /\ ~Received("ContextRemove") /\ UNCHANGED network
  BY Idle DEF RandomAccessFailed
<1>1. CASE ue.state = "IDLE_RANDOM_ACCESS"
  <2>1. SameUe /\ UNCHANGED rrc
    BY <1>1 DEF RandomAccessFailed, SameUe, TypeInv, UesInCells, UeRrcs
  <2> QED
    BY <1>0, <2>1, NetworkServes, ExchangeQuiet
<1>2. CASE ue.state = "CONNECTED_HANDOVER"
  <2> DEFINE m == Rrc("ContextRemove", ue.cell, ue.rnti)
  <2>1. m \in RrcKnown /\ m.type = "ContextRemove"
    BY RrcType DEF TypeInv, UesInCells, UeRrcs, ToUe, ToEnb, Rrc
  <2>2. ue'.state = "IDLE_CELL_SEARCH" /\ rrc' = Append(rrc, m)
    BY <1>2 DEF RandomAccessFailed, DropConnection, LeaveConnectedMode
  <2> HIDE DEF m
  <2>3. Agrees(m, ue')
    BY <2>1, <2>2 DEF Agrees
  <2>4. \A c \in Cells, r \in Rntis : ~Serves(c, r)'
    BY <1>0, <1>2, NotServed, NetworkServes DEF ServesNoMore, NobodyServed
  <2> QED
    BY <1>0, <2>1, <2>2, <2>3, <2>4, ExchangeSent
<1> QED
  BY <1>1, <1>2 DEF RandomAccessFailed, AccessesRandomly

\* A serving context passes its UE on to another serving state.
LEMMA SwitchServes ==
  ASSUME TypeInv, NEW c, NEW r, Present(c, r), ctx[c][r].state \in ServingStates,
         NEW state, SwitchToState(c, r, state)
  PROVE  ServesNoMore
BY SetServes DEF SwitchToState

\* A message to the UE that tells it nothing about its serving cell.
LEMMA ExchangeTold ==
  ASSUME TypeInv, Exchange, rrc = <<>>, NEW m \in RrcKnown,
         m.type \in {"Reconfiguration", "Release"}, rrc' = Append(rrc, m),
         ServesNoMore, UNCHANGED ue
  PROVE  Exchange'
<1>1. Agrees(m, ue')
  BY DEF Agrees
<1>2. \A c \in Cells, r \in Rntis : Serves(c, r)' =>
         ue'.state = "CONNECTED_NORMALLY" /\ ue'.cell = c /\ ue'.rnti = r
  BY ServedHere DEF ServesNoMore, Received
<1> QED
  BY <1>1, <1>2, ExchangeSent

\* S1Step keeps the exchange true.
LEMMA S1StepTalks ==
  ASSUME TypeInv, Exchange, S1Step
  PROVE  Exchange'
<1> DEFINE r == imsiRnti[mmeCell]
           m == Rrc("Reconfiguration", mmeCell, r)
<1>1. rrc = <<>>
  BY Idle DEF S1Step, InitialContextSetupRequest, PathSwitchRequestAcknowledge, Answered
<1>2. CASE \/ Stop("InitialContextSetupRequest")
           \/ Stop("PathSwitchRequestAcknowledge")
  BY <1>2, ExchangeStop
<1>3. CASE /\ Present(mmeCell, r)
           /\ ctx[mmeCell][r].state \in {"ATTACH_REQUEST", "HANDOVER_PATH_SWITCH"}
           /\ SwitchToState(mmeCell, r, "CONNECTION_RECONFIGURATION")
           /\ rrc' = Append(rrc, m)
           /\ UNCHANGED ue
  <2>1. m \in RrcKnown /\ m.type = "Reconfiguration"
    BY <1>3, PresentType, RrcType DEF ToUe, Rrc
  <2>2. ServesNoMore
    BY <1>3, SwitchServes DEF ServingStates
  <2> HIDE DEF m
  <2> QED
    BY <1>1, <1>3, <2>1, <2>2, ExchangeTold
<1> QED
  BY <1>2, <1>3 DEF S1Step, InitialContextSetupRequest, PathSwitchRequestAcknowledge

\* RecvRrcConnectionRequest keeps the exchange true.
LEMMA RecvRrcConnectionRequestTalks ==
  ASSUME TypeInv, Exchange, RecvRrcConnectionRequest
  PROVE  Exchange'
<1> DEFINE c == Head(rrc).cell
           r == Head(rrc).rnti
<1>1. rrc # <<>> /\ Head(rrc).type = "Request" /\ ~Received("ContextRemove")
  BY DEF RecvRrcConnectionRequest, Received
<1>2. ue.state = "IDLE_CONNECTING"
  BY <1>1 DEF Exchange, Agrees
<1>3. NobodyServed
  BY <1>1, <1>2, NotServed
<1>4. CASE Stop("RecvRrcConnectionRequest")
  BY <1>4, ExchangeStop
<1>5. ASSUME Present(c, r), NEW type \in {"Setup", "Reject"},
             NEW state \in {"CONNECTION_SETUP", "CONNECTION_REJECTED"}, NEW timer,
             Answer(c, r, state, timer), UNCHANGED ue,
             rrc' = Append(Tail(rrc), Rrc(type, c, r))
      PROVE  Exchange'
  <2> DEFINE m == Rrc(type, c, r)
             k == Start(c, timer, Cancel("request", [ctx[c][r] EXCEPT !.state = state]))
  <2>1. m \in RrcKnown /\ m.type = type
    BY <1>5, PresentType, RrcType DEF ToUe, Rrc
  <2>2. SetContext(c, r, k)
    BY <1>5 DEF Answer
  <2>3. k.state \notin ServingStates
    BY <1>5, PresentType DEF TimedContexts, Contexts, Start, Cancel, ServingStates
  <2>4. rrc' = Append(Tail(rrc), m)
    BY <1>5
  <2> HIDE DEF m, k
  <2>5. ServesNoMore
    BY <2>2, <2>3, SetServes
  <2>6. Agrees(m, ue')
    BY <1>2, <1>5, <2>1 DEF Agrees
  <2> QED
    BY <1>1, <1>3, <2>1, <2>4, <2>5, <2>6, ExchangeSent DEF ServesNoMore, NobodyServed
<1> QED
  BY <1>4, <1>5 DEF RecvRrcConnectionRequest

\* RecvRrcConnectionSetup keeps the exchange true.
LEMMA RecvRrcConnectionSetupTalks ==
  ASSUME TypeInv, Exchange, RecvRrcConnectionSetup
  PROVE  Exchange'
<1>1. rrc # <<>> /\ Head(rrc).type = "Setup" /\ ~Received("ContextRemove")
  BY DEF RecvRrcConnectionSetup, Received
<1>2. ue.state = "IDLE_CONNECTING"
  BY <1>1 DEF Exchange, Agrees
<1>3. NobodyServed
  BY <1>1, <1>2, NotServed
<1> DEFINE m == Rrc("SetupCompleted", ue.cell, ue.rnti)
<1>4. /\ m \in RrcKnown /\ m.type = "SetupCompleted"
      /\ m.cell = ue.cell /\ m.rnti = ue.rnti
  BY RrcType DEF TypeInv, UesInCells, UeRrcs, ToUe, ToEnb, Rrc
<1>5. /\ rrc' = Append(Tail(rrc), m) /\ UNCHANGED network
      /\ ue' = [ue EXCEPT !.state = "CONNECTED_NORMALLY", !.leave = FALSE, !.rlf = T310]
  BY <1>2 DEF RecvRrcConnectionSetup
<1>6. ue'.state = "CONNECTED_NORMALLY" /\ ue'.cell = ue.cell /\ ue'.rnti = ue.rnti
  BY <1>5 DEF TypeInv, UesInCells, UeRrcs
<1> HIDE DEF m
<1>7. Agrees(m, ue')
  BY <1>4, <1>6 DEF Agrees
<1> QED
  BY <1>1, <1>3, <1>4, <1>5, <1>7, NetworkServes, ExchangeSent DEF ServesNoMore, NobodyServed

\* RecvRrcConnectionReject keeps the exchange true.
LEMMA RecvRrcConnectionRejectTalks ==
  ASSUME TypeInv, Exchange, RecvRrcConnectionReject
  PROVE  Exchange' /\ ue.state = "IDLE_CONNECTING"
<1>1. rrc # <<>> /\ Head(rrc).type = "Reject" /\ ~Received("ContextRemove")
  BY DEF RecvRrcConnectionReject, Received
<1>2. ue.state = "IDLE_CONNECTING"
  BY <1>1 DEF Exchange, Agrees
<1>3. NobodyServed
  BY <1>1, <1>2, NotServed
<1> QED
  BY <1>1, <1>2, <1>3, NetworkServes, ExchangeTaken
     DEF RecvRrcConnectionReject, ServesNoMore, NobodyServed

\* A message that completes something comes from where the UE is connected.
LEMMA CompletedHere ==
  ASSUME Exchange, NEW type \in {"SetupCompleted", "ReconfigurationCompleted"}, Received(type)
  PROVE  /\ rrc # <<>> /\ ~Received("ContextRemove")
         /\ ue.state = "CONNECTED_NORMALLY"
         /\ ue.cell = Head(rrc).cell /\ ue.rnti = Head(rrc).rnti
BY DEF Exchange, Agrees, Received

\* The context the message is for serves where the UE is connected.
LEMMA CompletedTalks ==
  ASSUME TypeInv, Exchange,
         NEW type \in {"SetupCompleted", "ReconfigurationCompleted"}, Received(type),
         rrc' = Tail(rrc), UNCHANGED ue, NEW k,
         SetContext(Head(rrc).cell, Head(rrc).rnti, k) \/ UNCHANGED network
  PROVE  Exchange'
<1> DEFINE c == Head(rrc).cell
           r == Head(rrc).rnti
<1>1. \A d \in Cells, q \in Rntis : Serves(d, q)' => (d = c /\ q = r) \/ Serves(d, q)
  <2>1. CASE SetContext(c, r, k)
    BY <2>1, SetShape DEF Serves
  <2>2. CASE UNCHANGED network
    BY <2>2, NetworkServes DEF ServesNoMore
  <2> QED
    BY <2>1, <2>2
<1> HIDE DEF c, r
<1>2. ue.state = "CONNECTED_NORMALLY" /\ ue.cell = c /\ ue.rnti = r
  BY CompletedHere DEF c, r
<1>3. \A d \in Cells, q \in Rntis : Serves(d, q)' =>
         ue'.state = "CONNECTED_NORMALLY" /\ ue'.cell = d /\ ue'.rnti = q
  BY <1>1, <1>2, CompletedHere, ServedHere
<1> QED
  BY <1>3, CompletedHere, ExchangeTaken

\* RecvRrcConnectionSetupCompleted keeps the exchange true.
LEMMA RecvRrcConnectionSetupCompletedTalks ==
  ASSUME TypeInv, Exchange, RecvRrcConnectionSetupCompleted
  PROVE  Exchange'
BY ExchangeStop, CompletedTalks DEF RecvRrcConnectionSetupCompleted

\* RecvRrcConnectionReconfigurationCompleted keeps the exchange true.
LEMMA RecvRrcConnectionReconfigurationCompletedTalks ==
  ASSUME TypeInv, Exchange, RecvRrcConnectionReconfigurationCompleted
  PROVE  Exchange'
BY ExchangeStop, CompletedTalks
   DEF RecvRrcConnectionReconfigurationCompleted, SwitchToState

\* RecvRrcConnectionReconfiguration keeps the exchange true.
LEMMA RecvRrcConnectionReconfigurationTalks ==
  ASSUME TypeInv, Exchange, RecvRrcConnectionReconfiguration
  PROVE  Exchange'
<1>1. rrc # <<>> /\ ~Received("ContextRemove")
  BY DEF RecvRrcConnectionReconfiguration, Received
<1>2. CASE Stop("RecvRrcConnectionReconfiguration")
  BY <1>2, ExchangeStop
<1>3. CASE /\ ue.state = "CONNECTED_NORMALLY"
           /\ rrc' = Append(Tail(rrc), Rrc("ReconfigurationCompleted", ue.cell, ue.rnti))
           /\ UNCHANGED <<network, ue>>
  <2> DEFINE m == Rrc("ReconfigurationCompleted", ue.cell, ue.rnti)
  <2>1. /\ m \in RrcKnown /\ m.type = "ReconfigurationCompleted"
        /\ m.cell = ue.cell /\ m.rnti = ue.rnti
    BY RrcType DEF TypeInv, UesInCells, UeRrcs, ToUe, ToEnb, Rrc
  <2>2. rrc' = Append(Tail(rrc), m)
    BY <1>3
  <2> HIDE DEF m
  <2>3. Agrees(m, ue')
    BY <1>3, <2>1 DEF Agrees
  <2>4. \A c \in Cells, r \in Rntis : Serves(c, r)' =>
           ue'.state = "CONNECTED_NORMALLY" /\ ue'.cell = c /\ ue'.rnti = r
    BY <1>1, <1>3, ServedHere, NetworkServes DEF ServesNoMore
  <2> QED
    BY <1>1, <2>1, <2>2, <2>3, <2>4, ExchangeSent
<1> QED
  BY <1>2, <1>3 DEF RecvRrcConnectionReconfiguration

\* RecvHandoverCommand keeps the exchange true.
LEMMA RecvHandoverCommandTalks ==
  ASSUME TypeInv, Exchange, RecvHandoverCommand
  PROVE  Exchange'
<1>1. rrc # <<>> /\ NobodyServed
  BY DEF Exchange, RecvHandoverCommand, Received
<1>2. CASE Stop("RecvRrcConnectionReconfiguration")
  BY <1>2, ExchangeStop
<1>3. CASE rrc' = Tail(rrc) /\ UNCHANGED network
  BY <1>1, <1>3, NetworkServes, ExchangeTaken DEF ServesNoMore, NobodyServed
<1> QED
  BY <1>2, <1>3 DEF RecvHandoverCommand

\* RecvRrcConnectionRelease keeps the exchange true.
LEMMA RecvRrcConnectionReleaseTalks ==
  ASSUME TypeInv, Exchange, RecvRrcConnectionRelease
  PROVE  Exchange'
<1>1. rrc # <<>> /\ ~Received("ContextRemove") /\ UNCHANGED network
  BY DEF RecvRrcConnectionRelease, Received
<1>2. CASE rrc' = Tail(rrc) /\ UNCHANGED ue
  BY <1>1, <1>2, ServedHere, NetworkServes, ExchangeTaken DEF ServesNoMore
<1>3. CASE /\ rrc' = Append(Tail(rrc), Rrc("ContextRemove", ue.cell, ue.rnti))
           /\ LeaveConnectedMode
  <2> DEFINE m == Rrc("ContextRemove", ue.cell, ue.rnti)
  <2>1. /\ m \in RrcKnown /\ m.type = "ContextRemove"
        /\ m.cell = ue.cell /\ m.rnti = ue.rnti
    BY RrcType DEF TypeInv, UesInCells, UeRrcs, ToUe, ToEnb, Rrc
  <2>2. rrc' = Append(Tail(rrc), m) /\ ue'.state = "IDLE_CELL_SEARCH"
    BY <1>3 DEF LeaveConnectedMode
  <2> HIDE DEF m
  <2>3. Agrees(m, ue')
    BY <2>1, <2>2 DEF Agrees
  <2>4. \A c \in Cells, r \in Rntis : Serves(c, r)' => m.cell = c /\ m.rnti = r
    BY <1>1, <2>1, ServedHere, NetworkServes DEF ServesNoMore
  <2> QED
    BY <1>1, <2>1, <2>2, <2>3, <2>4, ExchangeSent
<1> QED
  BY <1>2, <1>3 DEF RecvRrcConnectionRelease

\* The context the UE had is removed, the only one that could still serve it.
LEMMA RecvIdealUeContextRemoveRequestTalks ==
  ASSUME TypeInv, Exchange, RecvIdealUeContextRemoveRequest
  PROVE  Exchange'
<1> DEFINE c == Head(rrc).cell
           r == Head(rrc).rnti
<1>1. /\ rrc # <<>> /\ rrc' = Tail(rrc) /\ Head(rrc).type = "ContextRemove"
      /\ ue.state = "IDLE_CELL_SEARCH"
  BY DEF Exchange, Agrees, RecvIdealUeContextRemoveRequest, Received
<1>2. \A d \in Cells, q \in Rntis : Serves(d, q) => d = c /\ q = r /\ Present(c, r)
  BY <1>1 DEF Exchange, ServedWhereItIs, Serves, ServingStates, Present
<1>3. CASE Present(c, r)
  <2>1. RemoveUe(c, r)
    BY <1>3 DEF RecvIdealUeContextRemoveRequest
  <2>2. \A d \in Cells, q \in Rntis :
            ctx'[d][q] = IF d = c /\ q = r THEN Absent ELSE ctx[d][q]
    BY <2>1, SetShape DEF RemoveUe
  <2> HIDE DEF c, r
  <2>3. \A d \in Cells, q \in Rntis : ~Serves(d, q)'
    BY <1>2, <2>2 DEF Serves, Absent, ServingStates
  <2> QED
    BY <1>1, <2>3, ExchangeTaken
<1>4. CASE ~Present(c, r)
  <2>1. UNCHANGED network
    BY <1>4 DEF RecvIdealUeContextRemoveRequest
  <2>2. \A d \in Cells, q \in Rntis : ~Serves(d, q)'
    BY <1>2, <1>4, <2>1, NetworkServes DEF ServesNoMore
  <2> QED
    BY <1>1, <2>2, ExchangeTaken
<1> QED
  BY <1>3, <1>4

\* RrcStep keeps the exchange true.
LEMMA RrcStepTalks ==
  ASSUME TypeInv, Exchange, RrcStep
  PROVE  Exchange'
BY RecvRrcConnectionRequestTalks, RecvRrcConnectionSetupTalks, RecvRrcConnectionRejectTalks,
   RecvRrcConnectionSetupCompletedTalks, RecvRrcConnectionReconfigurationTalks,
   RecvRrcConnectionReconfigurationCompletedTalks, RecvHandoverCommandTalks,
   RecvRrcConnectionReleaseTalks, RecvIdealUeContextRemoveRequestTalks
   DEF RrcStep

\* Steps of the eNBs between themselves.
LEMMA ExchangeElsewhere ==
  ASSUME Exchange, ServesNoMore, UNCHANGED <<rrc, ue>>
  PROVE  Exchange'
BY ExchangeQuiet DEF SameUe

\* A release removes a context and tells the UE.
LEMMA ReleaseTalks ==
  ASSUME TypeInv, Exchange, rrc = <<>>, UNCHANGED ue,
         NEW c, NEW r, Present(c, r), ReleaseConnection(c, r)
  PROVE  Exchange'
<1> DEFINE m == Rrc("Release", c, r)
<1>1. m \in RrcKnown /\ m.type = "Release"
  BY PresentType, RrcType DEF ToUe, Rrc
<1>2. rrc' = Append(rrc, m) /\ ServesNoMore
  BY RemoveServes DEF ReleaseConnection
<1> HIDE DEF m
<1> QED
  BY <1>1, <1>2, ExchangeTold

\* RecvHandoverRequest keeps the exchange true.
LEMMA RecvHandoverRequestTalks ==
  ASSUME TypeInv, Bookkeeping, Exchange, NEW i \in 1..Len(x2), RecvHandoverRequest(i)
  PROVE  Exchange'
<1> DEFINE t == x2[i].target
           k == NewContext(t, "HANDOVER_JOINING", x2[i].source, x2[i].oldRnti, "joining")
<1>1. t \in Cells /\ UNCHANGED <<rrc, ue>>
  BY OthersType DEF RecvHandoverRequest, Due, X2Known
<1>2. k.state \notin ServingStates /\ Absent.state \notin ServingStates
  BY DEF NewContext, Start, Absent, ServingStates
<1>3. \/ UNCHANGED network
      \/ ~Full(t) /\ AddUe(t, Absent)
      \/ ~Full(t) /\ AddUe(t, k)
  BY DEF RecvHandoverRequest
<1> HIDE DEF t, k
<1>4. ServesNoMore
  BY <1>1, <1>2, <1>3, NetworkServes, AddServes
<1> QED
  BY <1>1, <1>4, ExchangeElsewhere

\* The acknowledged context is the one that serves the UE, and it lets go of it.
LEMMA RecvHandoverRequestAckTalks ==
  ASSUME TypeInv, Bookkeeping, Exchange, NEW i \in 1..Len(x2), RecvHandoverRequestAck(i)
  PROVE  Exchange'
<1> DEFINE c == x2[i].source
           r == x2[i].oldRnti
           k == Start(c, "leaving", [ctx[c][r] EXCEPT !.state = "HANDOVER_LEAVING",
                                     !.peer = x2[i].target, !.peerRnti = x2[i].newRnti])
           m == Rrc("HandoverCommand", x2[i].target, x2[i].newRnti)
<1>1. CASE Stop("RecvHandoverRequestAck")
  BY <1>1, ExchangeStop
<1>2. CASE /\ Present(c, r)
           /\ SetContext(c, r, k)
           /\ rrc' = Append(rrc, m)
           /\ UNCHANGED ue
  <2>1. rrc = <<>> /\ ~Received("ContextRemove") /\ x2[i].type = "HandoverRequestAck"
    BY Idle DEF RecvHandoverRequestAck, Due
  <2>2. c \in Cells /\ r \in Rntis /\ Serves(c, r)
    <3>1. ctx[c][r].state = "HANDOVER_PREPARATION"
      BY <1>2, <2>1 DEF Bookkeeping, MessagesKnown, Arrangements, IsSource, SourceStates, Present
    <3> QED
      BY <1>2, <3>1 DEF Present, Serves, ServingStates
  <2>3. \A d \in Cells, q \in Rntis : Serves(d, q) => d = c /\ q = r
    BY <2>1, <2>2, ServedHere
  <2>4. k.state \notin ServingStates
    BY <1>2, PresentType DEF Start, TimedContexts, Contexts, ServingStates
  <2>5. m \in RrcKnown /\ m.type = "HandoverCommand"
    BY <2>1, OthersType, Constants, RrcType DEF X2Known, X2Messages, ToUe, Rrc
  <2> HIDE DEF k, m
  <2>6. \A d \in Cells, q \in Rntis : ~Serves(d, q)'
    BY <1>2, <2>3, <2>4, SetShape DEF Serves
  <2>7. Agrees(m, ue')
    BY <2>5 DEF Agrees
  <2> QED
    BY <1>2, <2>1, <2>5, <2>6, <2>7, ExchangeSent
<1> QED
  BY <1>1, <1>2 DEF RecvHandoverRequestAck

\* RecvHandoverPreparationFailure keeps the exchange true.
LEMMA RecvHandoverPreparationFailureTalks ==
  ASSUME TypeInv, Exchange, NEW i \in 1..Len(x2), RecvHandoverPreparationFailure(i)
  PROVE  Exchange'
<1> DEFINE c == x2[i].source
           r == x2[i].oldRnti
<1>1. rrc = <<>>
  BY Idle DEF RecvHandoverPreparationFailure
<1>2. CASE Stop("RecvHandoverPreparationFailure")
  BY <1>2, ExchangeStop
<1>3. CASE /\ Present(c, r) /\ ctx[c][r].state = "HANDOVER_PREPARATION"
           /\ SwitchToState(c, r, "CONNECTED_NORMALLY")
           /\ UNCHANGED <<ue, rrc>>
  <2>1. ServesNoMore
    BY <1>3, SwitchServes DEF ServingStates
  <2> QED
    BY <1>3, <2>1, ExchangeElsewhere
<1>4. CASE Present(c, r) /\ ReleaseConnection(c, r) /\ UNCHANGED ue
  BY <1>1, <1>4, ReleaseTalks
<1>5. CASE UNCHANGED <<network, ue, rrc>>
  BY <1>5, NetworkServes, ExchangeElsewhere
<1> QED
  BY <1>2, <1>3, <1>4, <1>5 DEF RecvHandoverPreparationFailure

\* X2Step keeps the exchange true.
LEMMA X2StepTalks ==
  ASSUME TypeInv, Bookkeeping, Exchange, X2Step
  PROVE  Exchange'
<1> SUFFICES ASSUME NEW i \in 1..Len(x2),
                    \/ RecvHandoverRequest(i)
                    \/ RecvHandoverRequestAck(i)
                    \/ RecvHandoverPreparationFailure(i)
                    \/ RecvUeContextRelease(i)
                    \/ RecvHandoverCancel(i)
                    \/ RecvUeData(i)
             PROVE  Exchange'
  BY DEF X2Step
<1>1. CASE RecvUeContextRelease(i)
  <2>1. CASE Stop("RecvUeContextRelease")
    BY <2>1, ExchangeStop
  <2>2. CASE /\ RemoveUe(x2[i].source, x2[i].oldRnti) \/ UNCHANGED network
             /\ UNCHANGED <<ue, rrc>>
    BY <2>2, RemoveServes, NetworkServes, ExchangeElsewhere
  <2> QED
    BY <1>1, <2>1, <2>2 DEF RecvUeContextRelease
<1>2. CASE RecvHandoverCancel(i)
  <2> DEFINE t == x2[i].target
             n == x2[i].newRnti
  <2>1. CASE Stop("RecvHandoverCancel")
    BY <2>1, ExchangeStop
  <2>2. CASE /\ Present(t, n) /\ ctx[t][n].state = "HANDOVER_JOINING"
             /\ SetContext(t, n, Cancel("joining", ctx[t][n]))
             /\ UNCHANGED <<ue, rrc>>
    <3>1. Cancel("joining", ctx[t][n]).state = "HANDOVER_JOINING"
      BY <2>2, PresentType DEF Cancel, TimedContexts, Contexts
    <3>2. ServesNoMore
      BY <2>2, <3>1, SetServes DEF ServingStates
    <3> QED
      BY <2>2, <3>2, ExchangeElsewhere
  <2>3. CASE UNCHANGED <<network, ue, rrc>>
    BY <2>3, NetworkServes, ExchangeElsewhere
  <2> QED
    BY <1>2, <2>1, <2>2, <2>3 DEF RecvHandoverCancel
<1>3. CASE RecvUeData(i)
  BY <1>3, ExchangeStop, NetworkServes, ExchangeElsewhere DEF RecvUeData
<1> QED
  BY <1>1, <1>2, <1>3, RecvHandoverRequestTalks, RecvHandoverRequestAckTalks,
     RecvHandoverPreparationFailureTalks

\* TimeoutStep keeps the exchange true.
LEMMA TimeoutStepTalks ==
  ASSUME TypeInv, Exchange, TimeoutStep
  PROVE  Exchange'
<1> SUFFICES ASSUME NEW c \in Cells, NEW r \in Rntis,
                    \/ \E timer \in {"request", "setup", "rejected"} :
                          ConnectionTimeout(c, r, timer)
                    \/ HandoverJoiningTimeout(c, r)
                    \/ HandoverLeavingTimeout(c, r)
             PROVE  Exchange'
  BY DEF TimeoutStep
<1>1. ASSUME NEW timer, ConnectionTimeout(c, r, timer)
      PROVE  Exchange'
  BY <1>1, ExchangeStop, RemoveServes, ExchangeElsewhere DEF ConnectionTimeout
<1>2. CASE HandoverJoiningTimeout(c, r)
  BY <1>2, ExchangeStop, RemoveServes, ExchangeElsewhere DEF HandoverJoiningTimeout
<1>3. CASE HandoverLeavingTimeout(c, r)
  <2>1. CASE Stop("HandoverLeavingTimeout")
    BY <2>1, ExchangeStop
  <2>2. CASE /\ ctx[c][r].state = "HANDOVER_LEAVING"
             /\ ReleaseConnection(c, r) /\ UNCHANGED ue
    <3>1. Present(c, r) /\ rrc = <<>>
      BY <1>3, <2>2, Idle DEF Present, HandoverLeavingTimeout
    <3> QED
      BY <2>2, <3>1, ReleaseTalks
  <2> QED
    BY <1>3, <2>1, <2>2 DEF HandoverLeavingTimeout, Awaits
<1> QED
  BY <1>1, <1>2, <1>3

\* SourceStep keeps the exchange true.
LEMMA SourceStepTalks ==
  ASSUME TypeInv, Exchange, SourceStep
  PROVE  Exchange'
<1> SUFFICES ASSUME NEW c \in Cells, NEW r \in Rntis,
                    \/ ForwardData(c, r)
                    \/ \E target \in Cells : TriggerHandover(c, r, target)
             PROVE  Exchange'
  BY DEF SourceStep
<1>1. CASE ForwardData(c, r)
  BY <1>1, NetworkServes, ExchangeElsewhere DEF ForwardData
<1>2. ASSUME NEW target \in Cells, TriggerHandover(c, r, target)
      PROVE  Exchange'
  <2> DEFINE k == [ctx[c][r] EXCEPT !.state = "HANDOVER_PREPARATION",
                                    !.peer = target, !.peerRnti = 0]
  <2>1. /\ SetContext(c, r, k) /\ ctx[c][r].state \in ServingStates
        /\ UNCHANGED <<rrc, ue>>
    BY <1>2 DEF TriggerHandover, PrepareHandover, ServingStates
  <2> HIDE DEF k
  <2>2. ServesNoMore
    BY <2>1, SetServes
  <2> QED
    BY <2>1, <2>2, ExchangeElsewhere
<1> QED
  BY <1>1, <1>2

\* Tick keeps the exchange true.
LEMMA TickTalks ==
  ASSUME TypeInv, Exchange, Tick
  PROVE  Exchange'
<1>1. \A c \in Cells, r \in Rntis : ctx'[c][r].state = ctx[c][r].state
  <2> SUFFICES ASSUME NEW c \in Cells, NEW r \in Rntis
               PROVE  ctx'[c][r].state = ctx[c][r].state
    OBVIOUS
  <2>1. ctx[c][r] \in Contexts
    BY DEF TypeInv, TimedContexts
  <2> QED
    BY <2>1 DEF Tick, Contexts
<1>2. ServesNoMore
  BY <1>1 DEF ServesNoMore, Serves
<1>3. SameUe /\ UNCHANGED rrc
  BY DEF Tick, SameUe, TypeInv, UesInCells, UeRrcs
<1> QED
  BY <1>2, <1>3, ExchangeQuiet

\* Every step keeps the exchange true.
LEMMA ExchangeNext ==
  ASSUME TypeInv, Bookkeeping, Exchange, [Next]_vars
  PROVE  Exchange'
<1>1. CASE Stopped \/ UNCHANGED vars
  BY <1>1, NetworkServes, ExchangeElsewhere DEF Stopped, vars, network
<1> QED
  BY <1>1, UeStepTalks, SourceStepTalks, RrcStepTalks, X2StepTalks, S1StepTalks,
     TimeoutStepTalks, RandomAccessFailedTalks, TickTalks
     DEF Next, Scheduled

-----------------------------------------------------------------------------
\* An acknowledged context runs no timer.
LEMMA AckUntimed ==
  ASSUME TypeInv, Bookkeeping, NEW i \in 1..Len(x2), x2[i].type = "HandoverRequestAck",
         Present(x2[i].source, x2[i].oldRnti)
  PROVE  ctx[x2[i].source][x2[i].oldRnti].state \in Untimed
<1>1. ctx[x2[i].source][x2[i].oldRnti].state = "HANDOVER_PREPARATION"
  BY DEF Bookkeeping, MessagesKnown, Arrangements, IsSource, SourceStates, Present
<1> QED
  BY <1>1 DEF Untimed, ContextStates, Awaits, Timers

\* Every step keeps the types.
LEMMA TypeNext ==
  ASSUME TypeInv, Bookkeeping, Exchange, [Next]_vars
  PROVE  TypeInv'
<1>1. CASE Stopped \/ UNCHANGED vars
  BY <1>1 DEF Stopped, vars, TypeInv
<1>2. CASE UeStep
  BY <1>2, SelectCellType, StartConnectionType, ReceivePreambleType, RecvRaResponseType,
     RadioLinkFailureType
     DEF UeStep
<1>3. CASE RrcStep
  BY <1>3, RecvRrcConnectionRequestType, RecvRrcConnectionSetupType,
     RecvRrcConnectionRejectType, RecvRrcConnectionRejectTalks,
     RecvRrcConnectionSetupCompletedType, RecvRrcConnectionReconfigurationType,
     RecvRrcConnectionReconfigurationCompletedType, RecvHandoverCommandType,
     RecvRrcConnectionReleaseType, RecvIdealUeContextRemoveRequestType
     DEF RrcStep
<1>4. CASE X2Step
  <2>1. ASSUME NEW i \in 1..Len(x2), RecvHandoverRequestAck(i)
        PROVE  TypeInv'
    BY <2>1, AckUntimed, RecvHandoverRequestAckType DEF RecvHandoverRequestAck, Due
  <2> QED
    BY <1>4, <2>1, RecvHandoverRequestType, RecvHandoverPreparationFailureType,
       RecvUeContextReleaseType, RecvHandoverCancelType, RecvUeDataType
       DEF X2Step
<1>5. CASE S1Step
  BY <1>5, InitialContextSetupRequestType, PathSwitchRequestAcknowledgeType DEF S1Step
<1>6. CASE TimeoutStep
  BY <1>6, ConnectionTimeoutType, HandoverJoiningTimeoutType, HandoverLeavingTimeoutType
     DEF TimeoutStep
<1>7. CASE SourceStep
  BY <1>7, ForwardDataType, TriggerHandoverType DEF SourceStep
<1> QED
  BY <1>1, <1>2, <1>3, <1>4, <1>5, <1>6, <1>7, RandomAccessFailedType, TickType
     DEF Next, Scheduled

\* The types hold at first.
LEMMA TypeInit == ASSUME Init PROVE TypeInv
<1>1. ctx \in [Cells -> [Rntis -> TimedContexts]]
  BY AbsentType DEF Init
<1>2. ue \in UesInCells
  BY Constants DEF Init, UesInCells, UeRrcs, UeStates
<1>3. rrc \in Seq(RrcKnown) /\ x2 \in Seq(X2Known) /\ s1 \in Seq(S1Messages)
  BY EmptySeq DEF Init
<1> QED
  BY <1>1, <1>2, <1>3, Constants DEF Init, TypeInv

\* Nobody talks at first.
LEMMA ExchangeInit == ASSUME Init PROVE Exchange
BY EmptySeq DEF Init, Exchange, ServedWhereItIs, Serves, Absent, ServingStates, Received

\* The inductive invariant.
IInv == TypeInv /\ Bookkeeping /\ Exchange

\* It holds throughout.
LEMMA IInvHolds == Spec => []IInv
<1>1. Init => IInv
  BY TypeInit, BookkeepingInit, ExchangeInit DEF IInv
<1>2. IInv /\ [Next]_vars => IInv'
  BY TypeNext, BookkeepingNext, ExchangeNext DEF IInv
<1> QED
  BY <1>1, <1>2, PTL DEF Spec

\* A sequence of members is a sequence over a larger set.
LEMMA SeqSubset ==
  ASSUME NEW S, NEW T, S \subseteq T, NEW q \in Seq(S)
  PROVE  q \in Seq(T)
OBVIOUS

\* Every variable keeps its type, whatever the cells, bounds, timeouts and delays.
THEOREM TypeCorrect == Spec => []TypeOK
<1>1. ASSUME TypeInv PROVE TypeOK
  <2>1. ctx \in [Cells -> [Rntis -> Contexts]]
    BY <1>1 DEF TypeInv, TimedContexts
  <2>2. rrc \in Seq(RrcMessages) /\ x2 \in Seq(X2Messages)
    BY <1>1, SeqSubset DEF TypeInv, RrcKnown, X2Known
  <2> QED
    BY <1>1, <2>1, <2>2 DEF TypeInv, TypeOK, UesInCells
<1>2. IInv => TypeOK
  BY <1>1 DEF IInv
<1> QED
  BY <1>2, IInvHolds, PTL

\* The assertion of every timeout handler holds: a timer runs only in the state it
\* was started in (lte-enb-rrc.cc:2626-2698).
THEOREM TimeoutsFindTheirStates == Spec => []TimersMatchStates
<1>1. IInv => TimersMatchStates
  BY DEF IInv, TypeInv, TimedContexts, TimersMatchStates
<1> QED
  BY <1>1, IInvHolds, PTL

\* The UE is served in at most one place, through every interleaving of handovers,
\* failures, timeouts and new connections.
THEOREM ServedOnce == Spec => []OneServing
<1>1. ASSUME Exchange PROVE OneServing
  <2>1. Received("ContextRemove") => ue.state = "IDLE_CELL_SEARCH"
    BY <1>1 DEF Exchange, Agrees, Received
  <2> QED
    BY <1>1, <2>1 DEF Exchange, ServedWhereItIs, OneServing, UeAt
<1>2. IInv => OneServing
  BY <1>1 DEF IInv
<1> QED
  BY <1>2, IInvHolds, PTL

=============================================================================
