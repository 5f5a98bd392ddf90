---------------------------- MODULE LteHandover ----------------------------
(***************************************************************************)
(* The X2 handover of one UE between the eNBs of the simulated network, the *)
(* procedure behind the HANDOVER action of the AI loop                      *)
(* (ns-3-dev/src/lte/model): the UE contexts (UeManager) of every eNB RRC,  *)
(* the RRC of the UE, random access, the ideal RRC protocol, the X2         *)
(* messages between the eNBs and the answers of the MME.                    *)
(*                                                                          *)
(* Time is discrete. An RRC message of the ideal protocol is an event of    *)
(* the current instant and is handled before anything else; X2 messages and *)
(* answers of the MME take X2Delay and S1Delay ticks; time does not pass    *)
(* while a message is due or a timer has expired.                           *)
(***************************************************************************)
EXTENDS Integers, Sequences, FiniteSets

CONSTANTS
    Cells,            \* one cell per eNB, so every handover goes over X2
    MaxRnti,          \* bound on the RNTIs a cell hands out: from then on it is a
                      \* cell whose SRS indices are used up
    RequestTimeout, SetupTimeout, RejectedTimeout,  \* attributes of LteEnbRrc,
    JoiningTimeout,                                 \*   in ticks
    LeavingTimeout,   \* the same, of each cell
    RaTicks,          \* length of a random access that gets no response
    T310,             \* ticks before a fresh link can be declared failed
    X2Delay, S1Delay  \* delay of an X2 message and of an answer of the MME

ASSUME LteHandoverAssumption ==
    /\ Cells \subseteq Nat \ {0}
    /\ MaxRnti \in Nat \ {0}
    /\ {RequestTimeout, SetupTimeout, RejectedTimeout, JoiningTimeout,
        RaTicks, T310, X2Delay, S1Delay} \subseteq Nat
    /\ LeavingTimeout \in [Cells -> Nat]

VARIABLES
    ctx,       \* ctx[c][r]: the UeManager of RNTI r in m_ueMap of cell c
    lastRnti,  \* m_lastAllocatedRnti of every cell
    imsiRnti,  \* m_imsiRntiMap of every eNB application, for the one IMSI
    mmeCell,   \* the cell the MME has on record for the UE
    ue,        \* RRC and random access of the UE
    rrc,       \* RRC messages of the current instant, oldest first
    x2,        \* X2 messages on their way, oldest first
    s1,        \* answers of the MME on their way, oldest first
    stopped    \* "none", or the handler whose assertion or NS_FATAL_ERROR
               \* ended the simulation

network == <<ctx, lastRnti>>
core    == <<imsiRnti, mmeCell, s1>>
vars    == <<ctx, lastRnti, imsiRnti, mmeCell, ue, rrc, x2, s1, stopped>>

NoCell == 0
Rntis  == 1..MaxRnti

Timers == {"request", "setup", "rejected", "joining", "leaving"}

\* Mutant: the leaving timer is started with the duration of the joining timer.
DurationMixedUp(c, timer) ==
    CASE timer = "request"  -> RequestTimeout
      [] timer = "setup"    -> SetupTimeout
      [] timer = "rejected" -> RejectedTimeout
      [] timer \in {"joining", "leaving"} -> JoiningTimeout

Duration(c, timer) ==
    CASE timer = "request"  -> RequestTimeout
      [] timer = "setup"    -> SetupTimeout
      [] timer = "rejected" -> RejectedTimeout
      [] timer = "joining"  -> JoiningTimeout
      [] timer = "leaving"  -> LeavingTimeout[c]

(***************************************************************************)
(* A UE context. peer and peerRnti are m_sourceCellId and m_sourceX2apId of *)
(* a context that joins, m_targetCellId and m_targetX2apId of one that      *)
(* leaves. timers[t] is what is left until the timeout event t, or Off.     *)
(***************************************************************************)
ContextStates ==
    {"ABSENT", "INITIAL_RANDOM_ACCESS", "CONNECTION_SETUP", "CONNECTION_REJECTED",
     "ATTACH_REQUEST", "CONNECTED_NORMALLY", "CONNECTION_RECONFIGURATION",
     "HANDOVER_PREPARATION", "HANDOVER_JOINING", "HANDOVER_PATH_SWITCH",
     "HANDOVER_LEAVING"}

Off == -1

Absent == [state |-> "ABSENT", peer |-> NoCell, peerRnti |-> 0,
           timers |-> [t \in Timers |-> Off]]

Present(c, r) == c \in Cells /\ r \in Rntis /\ ctx[c][r].state # "ABSENT"

Start(c, timer, context) == [context EXCEPT !.timers[timer] = Duration(c, timer)]

Cancel(timer, context) == [context EXCEPT !.timers[timer] = Off]

Expired(c, r, timer) == ctx[c][r].timers[timer] = 0

(***************************************************************************)
(* Messages.                                                                *)
(***************************************************************************)
ToUe  == {"Setup", "Reject", "Reconfiguration", "HandoverCommand", "Release"}
ToEnb == {"Request", "SetupCompleted", "ReconfigurationCompleted", "ContextRemove"}

Rrc(type, c, r) == [type |-> type, cell |-> c, rnti |-> r]

Received(type) == rrc # <<>> /\ Head(rrc).type = type

ToTarget == {"HandoverRequest", "HandoverCancel", "UeData"}
ToSource == {"HandoverRequestAck", "PreparationFailure", "ContextRelease"}

\* s and r are the cell and the RNTI at the source, t and n those at the target.
X2(type, s, r, t, n) ==
    [type |-> type, source |-> s, oldRnti |-> r, target |-> t, newRnti |-> n,
     wait |-> X2Delay]

\* The link between two eNBs is FIFO in each direction.
Receiver(m) == IF m.type \in ToTarget THEN m.target ELSE m.source

Due(i, type) ==
    /\ x2[i].type = type
    /\ x2[i].wait = 0
    /\ \A j \in 1..(i - 1) : Receiver(x2[j]) # Receiver(x2[i])

Others(i) == SubSeq(x2, 1, i - 1) \o SubSeq(x2, i + 1, Len(x2))

\* An instant of the simulation in which no RRC message is left to deliver.
Running == stopped = "none" /\ rrc = <<>>

Stop(handler) ==
    /\ stopped' = handler
    /\ UNCHANGED <<network, core, ue, rrc, x2>>

-----------------------------------------------------------------------------
(***************************************************************************)
(* Contexts of an eNB.                                                      *)
(***************************************************************************)
\* Mutant: one context more than there are SRS indices.
FullTooLate(c) == lastRnti[c] > MaxRnti

\* IsMaxSrsReached: the cell takes no further context.
Full(c) == lastRnti[c] = MaxRnti

\* Mutant: the RNTI of a removed context is handed out again.
NewRntiReused(c) == CHOOSE r \in 1..(lastRnti[c] + 1) : ~Present(c, r)

NewRnti(c) == lastRnti[c] + 1

\* Mutant: a new context gets no timer.
NewContextWithoutTimer(c, state, peer, peerRnti, timer) ==
    [Absent EXCEPT !.state = state, !.peer = peer, !.peerRnti = peerRnti]

\* DoInitialize starts the timer a new context is removed by.
NewContext(c, state, peer, peerRnti, timer) ==
    Start(c, timer, [Absent EXCEPT !.state = state, !.peer = peer, !.peerRnti = peerRnti])

AddUe(c, context) ==
    /\ lastRnti' = [lastRnti EXCEPT ![c] = NewRnti(c)]
    /\ ctx' = [ctx EXCEPT ![c][NewRnti(c)] = context]

SetContext(c, r, context) ==
    /\ ctx' = [ctx EXCEPT ![c][r] = context]
    /\ UNCHANGED lastRnti

RemoveUe(c, r) == SetContext(c, r, Absent)

SwitchToState(c, r, state) == SetContext(c, r, [ctx[c][r] EXCEPT !.state = state])

\* BuildHoPrepFailMsg and BuildHoCancelMsg of the context of r in cell c.
PreparationFailure(c, r) ==
    X2("PreparationFailure", ctx[c][r].peer, ctx[c][r].peerRnti, c, 0)

HandoverCancel(c, r) ==
    X2("HandoverCancel", c, r, ctx[c][r].peer, ctx[c][r].peerRnti)

(***************************************************************************)
(* RRC of the UE.                                                           *)
(***************************************************************************)
UeStates ==
    {"IDLE_CELL_SEARCH", "IDLE_WAIT_SIB2", "IDLE_RANDOM_ACCESS", "IDLE_CONNECTING",
     "CONNECTED_NORMALLY", "CONNECTED_HANDOVER"}

\* LeaveConnectedMode: the MAC is reset and the search for a cell starts over.
\* CONNECTED_PHY_PROBLEM, through which the UE gets here, lasts no time.
LeaveConnectedMode ==
    ue' = [state |-> "IDLE_CELL_SEARCH", cell |-> NoCell, rnti |-> 0, leave |-> TRUE,
           ra |-> 0, rar |-> 0, rlf |-> 0]

\* Mutant: the UE leaves without a word.
DropConnectionSilently == UNCHANGED rrc /\ LeaveConnectedMode

\* The UE reports the loss of its connection to the cell it is in and leaves.
DropConnection ==
    /\ rrc' = Append(rrc, Rrc("ContextRemove", ue.cell, ue.rnti))
    /\ LeaveConnectedMode

AccessesRandomly == ue.state \in {"IDLE_RANDOM_ACCESS", "CONNECTED_HANDOVER"}

\* Cell selection: whichever cell is suitable.
SelectCell(c) ==
    /\ Running
    /\ ue.state = "IDLE_CELL_SEARCH"
    /\ ue' = [ue EXCEPT !.state = "IDLE_WAIT_SIB2", !.cell = c]
    /\ UNCHANGED <<network, core, rrc, x2, stopped>>

StartConnection ==
    /\ Running
    /\ ue.state = "IDLE_WAIT_SIB2"
    /\ ue' = [ue EXCEPT !.state = "IDLE_RANDOM_ACCESS", !.ra = RaTicks]
    /\ UNCHANGED <<network, core, rrc, x2, stopped>>

(***************************************************************************)
(* The MAC of the cell receives the preamble of the UE and sends a response *)
(* for the RNTI the preamble was allocated to, or for a new one: every      *)
(* contention-based preamble, and a dedicated one whose context is gone.    *)
(***************************************************************************)
ReceivePreamble ==
    /\ Running
    /\ AccessesRandomly
    /\ ue.rar = 0
    /\ IF ue.state = "CONNECTED_HANDOVER" /\ Present(ue.cell, ue.rnti)
       THEN ue' = [ue EXCEPT !.rar = ue.rnti] /\ UNCHANGED network
       ELSE /\ ~Full(ue.cell)
            /\ ue' = [ue EXCEPT !.rar = NewRnti(ue.cell)]
            /\ AddUe(ue.cell, NewContext(ue.cell, "INITIAL_RANDOM_ACCESS", NoCell, 0, "request"))
    /\ UNCHANGED <<core, rrc, x2, stopped>>

\* RecvRaResponse of the MAC and DoNotifyRandomAccessSuccessful of the RRC.
RecvRaResponse ==
    /\ Running
    /\ ue.rar # 0
    /\ \/ /\ ue.state = "IDLE_RANDOM_ACCESS"
          /\ ue' = [ue EXCEPT !.state = "IDLE_CONNECTING", !.rnti = ue.rar, !.ra = 0, !.rar = 0]
          /\ rrc' = Append(rrc, Rrc("Request", ue.cell, ue.rar))
       \/ /\ ue.state = "CONNECTED_HANDOVER"
          /\ ue' = [ue EXCEPT !.state = "CONNECTED_NORMALLY", !.rnti = ue.rar, !.ra = 0, !.rar = 0]
          /\ rrc' = Append(rrc, Rrc("ReconfigurationCompleted", ue.cell, ue.rar))
    /\ UNCHANGED <<network, core, x2, stopped>>

\* The last attempt got no response: DoNotifyRandomAccessFailed. Outside a
\* handover the NAS asks for another connection at once.
RandomAccessFailed ==
    /\ Running
    /\ AccessesRandomly
    /\ ue.ra = 0
    /\ \/ /\ ue.state = "IDLE_RANDOM_ACCESS"
          /\ ue' = [ue EXCEPT !.ra = RaTicks, !.rar = 0]
          /\ UNCHANGED rrc
       \/ /\ ue.state = "CONNECTED_HANDOVER"
          /\ ~ue.leave
          /\ DropConnection
    /\ UNCHANGED <<network, core, x2, stopped>>

RadioLinkFailureDetected ==
    /\ Running
    /\ ue.state = "CONNECTED_NORMALLY"
    /\ ue.rlf = 0
    /\ DropConnection
    /\ UNCHANGED <<network, core, x2, stopped>>

-----------------------------------------------------------------------------
(***************************************************************************)
(* The EPC. InitialUeMessage and PathSwitchRequest of the eNB application   *)
(* note the RNTI of the IMSI and the MME the cell; the answer goes to the   *)
(* cell the MME has on record when it is sent.                              *)
(***************************************************************************)
\* Mutant: the RNTI of the IMSI is inserted, which keeps the one there is.
AskMmeKeepsRnti(c, r, answer) ==
    /\ imsiRnti' = [imsiRnti EXCEPT ![c] = IF @ = 0 THEN r ELSE @]
    /\ mmeCell' = c
    /\ s1' = Append(s1, [type |-> answer, wait |-> S1Delay])

AskMme(c, r, answer) ==
    /\ imsiRnti' = [imsiRnti EXCEPT ![c] = r]
    /\ mmeCell' = c
    /\ s1' = Append(s1, [type |-> answer, wait |-> S1Delay])

Answered(answer) == s1 # <<>> /\ Head(s1).wait = 0 /\ Head(s1).type = answer

\* Takes the oldest answer; what it triggers at the eNB is up to the action.
TakeAnswer == s1' = Tail(s1) /\ UNCHANGED <<imsiRnti, mmeCell>>

\* The bearer of the answer is set up first and leaves a reconfiguration
\* pending, which starts when the context becomes CONNECTED_NORMALLY.
InitialContextSetupRequest ==
    /\ Running
    /\ Answered("InitialContextSetup")
    /\ LET r == imsiRnti[mmeCell]
       IN IF ~Present(mmeCell, r) \/ ctx[mmeCell][r].state # "ATTACH_REQUEST"
          THEN Stop("InitialContextSetupRequest")
          ELSE /\ SwitchToState(mmeCell, r, "CONNECTION_RECONFIGURATION")
               /\ rrc' = Append(rrc, Rrc("Reconfiguration", mmeCell, r))
               /\ TakeAnswer
               /\ UNCHANGED <<ue, x2, stopped>>

\* The target tells the source to release the context. A reconfiguration has
\* been pending since the bearers were set up in HANDOVER_JOINING.
PathSwitchRequestAcknowledge ==
    /\ Running
    /\ Answered("PathSwitch")
    /\ LET r == imsiRnti[mmeCell]
       IN IF ~Present(mmeCell, r) \/ ctx[mmeCell][r].state # "HANDOVER_PATH_SWITCH"
          THEN Stop("PathSwitchRequestAcknowledge")
          ELSE /\ SwitchToState(mmeCell, r, "CONNECTION_RECONFIGURATION")
               /\ rrc' = Append(rrc, Rrc("Reconfiguration", mmeCell, r))
               /\ x2' = Append(x2, X2("ContextRelease", ctx[mmeCell][r].peer,
                                      ctx[mmeCell][r].peerRnti, mmeCell, r))
               /\ TakeAnswer
               /\ UNCHANGED <<ue, stopped>>

-----------------------------------------------------------------------------
(***************************************************************************)
(* RRC messages, in the order they were sent.                               *)
(***************************************************************************)
\* Mutant: the timer of the request is left running.
AnswerKeepsTimer(c, r, state, timer) ==
    SetContext(c, r, Start(c, timer, [ctx[c][r] EXCEPT !.state = state]))

\* The request has come: the next timer takes over.
Answer(c, r, state, timer) ==
    SetContext(c, r, Start(c, timer, Cancel("request", [ctx[c][r] EXCEPT !.state = state])))

RecvRrcConnectionRequest ==
    /\ stopped = "none" /\ Received("Request")
    /\ LET c == Head(rrc).cell
           r == Head(rrc).rnti
       IN IF ~Present(c, r) \/ ctx[c][r].state # "INITIAL_RANDOM_ACCESS"
          THEN Stop("RecvRrcConnectionRequest")
          ELSE /\ \/ /\ Answer(c, r, "CONNECTION_SETUP", "setup")
                     /\ rrc' = Append(Tail(rrc), Rrc("Setup", c, r))
                  \/ /\ Answer(c, r, "CONNECTION_REJECTED", "rejected")
                     /\ rrc' = Append(Tail(rrc), Rrc("Reject", c, r))
               /\ UNCHANGED <<core, ue, x2, stopped>>

RecvRrcConnectionSetup ==
    /\ stopped = "none" /\ Received("Setup")
    /\ IF ue.state # "IDLE_CONNECTING"
       THEN Stop("RecvRrcConnectionSetup")
       ELSE /\ ue' = [ue EXCEPT !.state = "CONNECTED_NORMALLY", !.leave = FALSE, !.rlf = T310]
            /\ rrc' = Append(Tail(rrc), Rrc("SetupCompleted", ue.cell, ue.rnti))
            /\ UNCHANGED <<network, core, x2, stopped>>

\* The NAS asks for another connection to the same cell.
RecvRrcConnectionReject ==
    /\ stopped = "none" /\ Received("Reject")
    /\ ue' = [ue EXCEPT !.state = "IDLE_WAIT_SIB2", !.ra = 0, !.rar = 0]
    /\ rrc' = Tail(rrc)
    /\ UNCHANGED <<network, core, x2, stopped>>

RecvRrcConnectionSetupCompleted ==
    /\ stopped = "none" /\ Received("SetupCompleted")
    /\ LET c == Head(rrc).cell
           r == Head(rrc).rnti
       IN IF ~Present(c, r) \/ ctx[c][r].state # "CONNECTION_SETUP"
          THEN Stop("RecvRrcConnectionSetupCompleted")
          ELSE /\ SetContext(c, r, Cancel("setup", [ctx[c][r] EXCEPT !.state = "ATTACH_REQUEST"]))
               /\ AskMme(c, r, "InitialContextSetup")
               /\ rrc' = Tail(rrc)
               /\ UNCHANGED <<ue, x2, stopped>>

RecvRrcConnectionReconfigurationCompleted ==
    /\ stopped = "none" /\ Received("ReconfigurationCompleted")
    /\ LET c == Head(rrc).cell
           r == Head(rrc).rnti
           state == IF Present(c, r) THEN ctx[c][r].state ELSE "ABSENT"
       IN \/ /\ state = "CONNECTION_RECONFIGURATION"
             /\ SwitchToState(c, r, "CONNECTED_NORMALLY")
             /\ rrc' = Tail(rrc)
             /\ UNCHANGED <<core, ue, x2, stopped>>
          \/ /\ state = "HANDOVER_JOINING"
             /\ SetContext(c, r, Cancel("joining",
                                        [ctx[c][r] EXCEPT !.state = "HANDOVER_PATH_SWITCH"]))
             /\ AskMme(c, r, "PathSwitch")
             /\ rrc' = Tail(rrc)
             /\ UNCHANGED <<ue, x2, stopped>>
          \/ /\ state \notin {"CONNECTION_RECONFIGURATION", "HANDOVER_JOINING"}
             /\ IF state \in {"CONNECTED_NORMALLY", "HANDOVER_LEAVING"}
                THEN rrc' = Tail(rrc) /\ UNCHANGED <<network, core, ue, x2, stopped>>
                ELSE Stop("RecvRrcConnectionReconfigurationCompleted")

RecvRrcConnectionReconfiguration ==
    /\ stopped = "none" /\ Received("Reconfiguration")
    /\ IF ue.state # "CONNECTED_NORMALLY"
       THEN Stop("RecvRrcConnectionReconfiguration")
       ELSE /\ rrc' = Append(Tail(rrc), Rrc("ReconfigurationCompleted", ue.cell, ue.rnti))
            /\ UNCHANGED <<network, core, ue, x2, stopped>>

\* A reconfiguration with mobility control: the UE moves to the target and
\* starts its dedicated random access there.
RecvHandoverCommand ==
    /\ stopped = "none" /\ Received("HandoverCommand")
    /\ IF ue.state # "CONNECTED_NORMALLY"
       THEN Stop("RecvRrcConnectionReconfiguration")
       ELSE /\ ue' = [ue EXCEPT !.state = "CONNECTED_HANDOVER", !.cell = Head(rrc).cell,
                                !.rnti = Head(rrc).rnti, !.ra = RaTicks, !.rar = 0, !.rlf = T310]
            /\ rrc' = Tail(rrc)
            /\ UNCHANGED <<network, core, x2, stopped>>

\* Ignored by a UE that has left its connection. Any other UE takes it as the
\* end of the connection it has, whichever cell sent it.
RecvRrcConnectionRelease ==
    /\ stopped = "none" /\ Received("Release")
    /\ \/ /\ ue.leave
          /\ rrc' = Tail(rrc)
          /\ UNCHANGED ue
       \/ /\ ~ue.leave
          /\ rrc' = Append(Tail(rrc), Rrc("ContextRemove", ue.cell, ue.rnti))
          /\ LeaveConnectedMode
    /\ UNCHANGED <<network, core, x2, stopped>>

RecvIdealUeContextRemoveRequest ==
    /\ stopped = "none" /\ Received("ContextRemove")
    /\ LET c == Head(rrc).cell
           r == Head(rrc).rnti
       IN IF Present(c, r)
          THEN /\ x2' = IF ctx[c][r].state = "HANDOVER_JOINING"
                        THEN Append(x2, PreparationFailure(c, r))
                        ELSE x2
               /\ RemoveUe(c, r)
          ELSE UNCHANGED <<network, x2>>
    /\ rrc' = Tail(rrc)
    /\ UNCHANGED <<core, ue, stopped>>

-----------------------------------------------------------------------------
(***************************************************************************)
(* Handover.                                                                *)
(***************************************************************************)
\* To a cell of another eNB, so by a request over X2.
PrepareHandover(c, r, target) ==
    /\ target # c
    /\ SetContext(c, r, [ctx[c][r] EXCEPT !.state = "HANDOVER_PREPARATION",
                                          !.peer = target, !.peerRnti = 0])
    /\ x2' = Append(x2, X2("HandoverRequest", c, r, target, 0))

TriggerHandover(c, r, target) ==
    /\ Running
    /\ ctx[c][r].state = "CONNECTED_NORMALLY"
    /\ PrepareHandover(c, r, target)
    /\ UNCHANGED <<core, ue, rrc, stopped>>

\* Mutant: a refusal is not reported.
RefuseSilently(i) == x2' = Others(i)

Refuse(i) ==
    x2' = Append(Others(i), X2("PreparationFailure", x2[i].source, x2[i].oldRnti,
                               x2[i].target, 0))

\* The target refuses (not admitted, no SRS index, or no dedicated preamble
\* left, when the new context is removed at once) or takes the UE.
RecvHandoverRequest(i) ==
    /\ Running
    /\ Due(i, "HandoverRequest")
    /\ LET m == x2[i]
           t == m.target
       IN \/ Refuse(i) /\ UNCHANGED network
          \/ ~Full(t) /\ Refuse(i) /\ AddUe(t, Absent)
          \/ /\ ~Full(t)
             /\ x2' = Append(Others(i), X2("HandoverRequestAck", m.source, m.oldRnti,
                                           t, NewRnti(t)))
             /\ AddUe(t, NewContext(t, "HANDOVER_JOINING", m.source, m.oldRnti, "joining"))
    /\ UNCHANGED <<core, ue, rrc, stopped>>

\* The state of the context is not looked at.
RecvHandoverRequestAck(i) ==
    /\ Running
    /\ Due(i, "HandoverRequestAck")
    /\ LET m == x2[i]
           c == m.source
           r == m.oldRnti
       IN IF ~Present(c, r)
          THEN Stop("RecvHandoverRequestAck")
          ELSE /\ SetContext(c, r, Start(c, "leaving", [ctx[c][r] EXCEPT
                      !.state = "HANDOVER_LEAVING", !.peer = m.target, !.peerRnti = m.newRnti]))
               /\ rrc' = Append(rrc, Rrc("HandoverCommand", m.target, m.newRnti))
               /\ x2' = Others(i)
               /\ UNCHANGED <<core, ue, stopped>>

\* SendRrcConnectionRelease: the UE is told and the context is removed.
ReleaseConnection(c, r) ==
    /\ rrc' = Append(rrc, Rrc("Release", c, r))
    /\ RemoveUe(c, r)

\* The failure concerns the handover under way, or a context already removed.
RecvHandoverPreparationFailure(i) ==
    /\ Running
    /\ Due(i, "PreparationFailure")
    /\ LET c == x2[i].source
           r == x2[i].oldRnti
           InState(state) == /\ Present(c, r)
                             /\ ctx[c][r].state = state
                             /\ ctx[c][r].peer = x2[i].target
       IN \/ /\ InState("HANDOVER_PREPARATION")
             /\ SwitchToState(c, r, "CONNECTED_NORMALLY")
             /\ x2' = Others(i)
             /\ UNCHANGED <<core, ue, rrc, stopped>>
          \/ /\ InState("HANDOVER_LEAVING")
             /\ ReleaseConnection(c, r)
             /\ x2' = Others(i)
             /\ UNCHANGED <<core, ue, stopped>>
          \/ /\ ~InState("HANDOVER_PREPARATION") /\ ~InState("HANDOVER_LEAVING")
             /\ IF Present(c, r)
                THEN Stop("RecvHandoverPreparationFailure")
                ELSE x2' = Others(i) /\ UNCHANGED <<network, core, ue, rrc, stopped>>

RecvUeContextRelease(i) ==
    /\ Running
    /\ Due(i, "ContextRelease")
    /\ LET c == x2[i].source
           r == x2[i].oldRnti
       IN IF Present(c, r) /\ ctx[c][r].state # "HANDOVER_LEAVING"
          THEN Stop("RecvUeContextRelease")
          ELSE /\ IF Present(c, r) THEN RemoveUe(c, r) ELSE UNCHANGED network
               /\ x2' = Others(i)
               /\ UNCHANGED <<core, ue, rrc, stopped>>

\* The timer of the joining context is cancelled and its bearers are given up
\* at the core; the context itself stays.
RecvHandoverCancel(i) ==
    /\ Running
    /\ Due(i, "HandoverCancel")
    /\ LET t == x2[i].target
           n == x2[i].newRnti
       IN IF Present(t, n) /\ ctx[t][n].state # "HANDOVER_JOINING"
          THEN Stop("RecvHandoverCancel")
          ELSE /\ IF Present(t, n)
                  THEN SetContext(t, n, Cancel("joining", ctx[t][n]))
                  ELSE UNCHANGED network
               /\ x2' = Others(i)
               /\ UNCHANGED <<core, ue, rrc, stopped>>

\* Downlink data that reaches a leaving context is forwarded to the target. One
\* packet at a time is enough to meet every state of the target.
ForwardData(c, r) ==
    /\ Running
    /\ ctx[c][r].state = "HANDOVER_LEAVING"
    /\ \A i \in 1..Len(x2) : x2[i].type # "UeData"
    /\ x2' = Append(x2, X2("UeData", c, r, ctx[c][r].peer, ctx[c][r].peerRnti))
    /\ UNCHANGED <<network, core, ue, rrc, stopped>>

\* The bearer of the packet is known as long as the joined context is there.
RecvUeData(i) ==
    /\ Running
    /\ Due(i, "UeData")
    /\ IF ~Present(x2[i].target, x2[i].newRnti)
       THEN Stop("RecvUeData")
       ELSE /\ x2' = Others(i)
            /\ UNCHANGED <<network, core, ue, rrc, stopped>>

-----------------------------------------------------------------------------
(***************************************************************************)
(* Timeouts of the contexts. Each asserts the state it was started in.      *)
(***************************************************************************)
Awaits(timer) ==
    CASE timer = "request"  -> "INITIAL_RANDOM_ACCESS"
      [] timer = "setup"    -> "CONNECTION_SETUP"
      [] timer = "rejected" -> "CONNECTION_REJECTED"
      [] timer = "joining"  -> "HANDOVER_JOINING"
      [] timer = "leaving"  -> "HANDOVER_LEAVING"

\* ConnectionRequestTimeout, ConnectionSetupTimeout, ConnectionRejectedTimeout.
ConnectionTimeout(c, r, timer) ==
    /\ Running
    /\ Expired(c, r, timer)
    /\ IF ctx[c][r].state # Awaits(timer)
       THEN Stop("ConnectionTimeout")
       ELSE /\ RemoveUe(c, r)
            /\ UNCHANGED <<core, ue, rrc, x2, stopped>>

\* Mutant: the source is not told.
HandoverJoiningTimeoutUnreported(c, r) ==
    /\ Running
    /\ Expired(c, r, "joining")
    /\ RemoveUe(c, r)
    /\ UNCHANGED <<core, ue, rrc, x2, stopped>>

HandoverJoiningTimeout(c, r) ==
    /\ Running
    /\ Expired(c, r, "joining")
    /\ IF ctx[c][r].state # Awaits("joining")
       THEN Stop("HandoverJoiningTimeout")
       ELSE /\ x2' = Append(x2, PreparationFailure(c, r))
            /\ RemoveUe(c, r)
            /\ UNCHANGED <<core, ue, rrc, stopped>>

HandoverLeavingTimeout(c, r) ==
    /\ Running
    /\ Expired(c, r, "leaving")
    /\ IF ctx[c][r].state # Awaits("leaving")
       THEN Stop("HandoverLeavingTimeout")
       ELSE /\ x2' = Append(x2, HandoverCancel(c, r))
            /\ ReleaseConnection(c, r)
            /\ UNCHANGED <<core, ue, stopped>>

(***************************************************************************)
(* Time passes when nothing is left to do at this instant. A response that  *)
(* has not reached the UE by then has missed its window.                    *)
(***************************************************************************)
Minus1(n) == IF n > 0 THEN n - 1 ELSE n

Urgent ==
    \/ \E c \in Cells, r \in Rntis, t \in Timers : Expired(c, r, t)
    \/ AccessesRandomly /\ ue.ra = 0
    \/ \E i \in 1..Len(x2) : x2[i].wait = 0
    \/ \E i \in 1..Len(s1) : s1[i].wait = 0

Tick ==
    /\ Running
    /\ ~Urgent
    /\ ctx' = [c \in Cells |-> [r \in Rntis |->
                  [ctx[c][r] EXCEPT !.timers = [t \in Timers |-> Minus1(@[t])]]]]
    /\ ue' = [ue EXCEPT !.ra = Minus1(@), !.rlf = Minus1(@), !.rar = 0]
    /\ x2' = [i \in 1..Len(x2) |-> [x2[i] EXCEPT !.wait = Minus1(@)]]
    /\ s1' = [i \in 1..Len(s1) |-> [s1[i] EXCEPT !.wait = Minus1(@)]]
    /\ UNCHANGED <<lastRnti, imsiRnti, mmeCell, rrc, stopped>>

-----------------------------------------------------------------------------
Init ==
    /\ ctx = [c \in Cells |-> [r \in Rntis |-> Absent]]
    /\ lastRnti = [c \in Cells |-> 0]
    /\ imsiRnti = [c \in Cells |-> 0]
    /\ mmeCell = NoCell
    /\ ue = [state |-> "IDLE_CELL_SEARCH", cell |-> NoCell, rnti |-> 0, leave |-> FALSE,
             ra |-> 0, rar |-> 0, rlf |-> 0]
    /\ rrc = <<>>
    /\ x2 = <<>>
    /\ s1 = <<>>
    /\ stopped = "none"

UeStep ==
    \/ \E c \in Cells : SelectCell(c)
    \/ StartConnection
    \/ ReceivePreamble
    \/ RecvRaResponse
    \/ RadioLinkFailureDetected

RrcStep ==
    \/ RecvRrcConnectionRequest
    \/ RecvRrcConnectionSetup
    \/ RecvRrcConnectionReject
    \/ RecvRrcConnectionSetupCompleted
    \/ RecvRrcConnectionReconfiguration
    \/ RecvRrcConnectionReconfigurationCompleted
    \/ RecvHandoverCommand
    \/ RecvRrcConnectionRelease
    \/ RecvIdealUeContextRemoveRequest

X2Step ==
    \E i \in 1..Len(x2) :
        \/ RecvHandoverRequest(i)
        \/ RecvHandoverRequestAck(i)
        \/ RecvHandoverPreparationFailure(i)
        \/ RecvUeContextRelease(i)
        \/ RecvHandoverCancel(i)
        \/ RecvUeData(i)

S1Step == InitialContextSetupRequest \/ PathSwitchRequestAcknowledge

TimeoutStep ==
    \E c \in Cells, r \in Rntis :
        \/ \E timer \in {"request", "setup", "rejected"} : ConnectionTimeout(c, r, timer)
        \/ HandoverJoiningTimeout(c, r)
        \/ HandoverLeavingTimeout(c, r)

SourceStep ==
    \E c \in Cells, r \in Rntis :
        \/ ForwardData(c, r)
        \/ \E target \in Cells : TriggerHandover(c, r, target)

\* What the simulator has scheduled.
Scheduled == RrcStep \/ X2Step \/ S1Step \/ TimeoutStep \/ RandomAccessFailed \/ Tick

\* An assertion or NS_FATAL_ERROR ends the simulation.
Stopped == stopped # "none" /\ UNCHANGED vars

Next == UeStep \/ SourceStep \/ Scheduled \/ Stopped

\* The simulator handles what is scheduled and goes on in time, for the subframes
\* of the cells are always scheduled. Nothing makes a UE connect, its random
\* access succeed, its link fail, or a source start a handover or forward data.
Spec == Init /\ [][Next]_vars /\ WF_vars(Scheduled)

-----------------------------------------------------------------------------
(***************************************************************************)
(* Properties.                                                              *)
(***************************************************************************)
CellOrNone == Cells \cup {NoCell}
RntiOrNone == 0..MaxRnti

Contexts ==
    [state : ContextStates, peer : CellOrNone, peerRnti : RntiOrNone,
     timers : [Timers -> Nat \cup {Off}]]

UeRrcs ==
    [state : UeStates, cell : CellOrNone, rnti : RntiOrNone, leave : BOOLEAN,
     ra : Nat, rar : RntiOrNone, rlf : Nat]

RrcMessages == [type : ToUe \cup ToEnb, cell : CellOrNone, rnti : RntiOrNone]

X2Messages ==
    [type : ToTarget \cup ToSource, source : CellOrNone, oldRnti : RntiOrNone,
     target : CellOrNone, newRnti : RntiOrNone, wait : Nat]

S1Messages == [type : {"InitialContextSetup", "PathSwitch"}, wait : Nat]

Handlers ==
    {"InitialContextSetupRequest", "PathSwitchRequestAcknowledge",
     "RecvRrcConnectionRequest", "RecvRrcConnectionSetup",
     "RecvRrcConnectionSetupCompleted", "RecvRrcConnectionReconfigurationCompleted",
     "RecvRrcConnectionReconfiguration", "RecvHandoverRequestAck",
     "RecvHandoverPreparationFailure", "RecvUeContextRelease", "RecvHandoverCancel",
     "RecvUeData", "ConnectionTimeout", "HandoverJoiningTimeout",
     "HandoverLeavingTimeout"}

\* Every variable has its type, and no cell hands out an RNTI past its last.
TypeOK ==
    /\ ctx \in [Cells -> [Rntis -> Contexts]]
    /\ lastRnti \in [Cells -> RntiOrNone]
    /\ imsiRnti \in [Cells -> RntiOrNone]
    /\ mmeCell \in CellOrNone
    /\ ue \in UeRrcs
    /\ rrc \in Seq(RrcMessages)
    /\ x2 \in Seq(X2Messages)
    /\ s1 \in Seq(S1Messages)
    /\ stopped \in Handlers \cup {"none"}

\* The five timeout handlers assert the state of the context they run for
\* (lte-enb-rrc.cc:2626-2698): whatever ends a state cancels its timer, so a
\* running timer always finds its context in the state it was started in.
TimersMatchStates ==
    \A c \in Cells, r \in Rntis, t \in Timers :
        ctx[c][r].timers[t] # Off => ctx[c][r].state = Awaits(t)

\* A context whose next step is up to the UE or to the other eNB is to be deleted
\* "if the UE does not give any sign of life within a reasonable time": it never
\* waits without the timer that deletes it.
NoContextLingers ==
    \A c \in Cells, r \in Rntis, t \in Timers :
        ctx[c][r].state = Awaits(t) => ctx[c][r].timers[t] # Off

ServingStates ==
    {"ATTACH_REQUEST", "CONNECTED_NORMALLY", "CONNECTION_RECONFIGURATION",
     "HANDOVER_PREPARATION", "HANDOVER_PATH_SWITCH"}

Serves(c, r) == ctx[c][r].state \in ServingStates

\* The UE is served in one place at a time, however handovers, their failures,
\* radio link failures and new connections follow on each other.
OneServing ==
    \A c, d \in Cells, r, q \in Rntis : Serves(c, r) /\ Serves(d, q) => c = d /\ r = q

\* A UE that takes itself to be connected is known to the cell it is in under the
\* RNTI it uses, and the core network sends its traffic to that cell and RNTI.
UeServed ==
    Running /\ ue.state = "CONNECTED_NORMALLY" =>
        /\ Present(ue.cell, ue.rnti) /\ Serves(ue.cell, ue.rnti)
        /\ mmeCell = ue.cell
        /\ imsiRnti[ue.cell] = ue.rnti

\* Longer than what the target and the core need to finish or to fail.
LongLeavingTimer(c) == LeavingTimeout[c] > JoiningTimeout + S1Delay

\* When the leaving timer of the source is longer than the joining timer of the
\* target and the path switch together, as it is by default, the target always
\* settles a handover first and the leaving timer is never the one to end it.
TargetSettlesFirst ==
    \A c \in Cells, r \in Rntis : Expired(c, r, "leaving") => ~LongLeavingTimer(c)

\* A release carries no RNTI and the UE takes it as the end of the connection it
\* has: one sent for a context that a failed handover left behind, by a cell with
\* a long leaving timer, never ends a connection another context serves.
ReleaseEndsNoService ==
    [][ RecvRrcConnectionRelease /\ ~ue.leave /\ LongLeavingTimer(Head(rrc).cell)
          => ~Serves(ue.cell, ue.rnti) ]_vars

HandoverStates ==
    {"HANDOVER_PREPARATION", "HANDOVER_JOINING", "HANDOVER_PATH_SWITCH", "HANDOVER_LEAVING"}

\* No handover stays half done: whatever gets lost with the UE, each of its two
\* contexts ends up connected or removed, unless the simulation has stopped.
HandoverResolves ==
    \A c \in Cells, r \in Rntis :
        ctx[c][r].state \in HandoverStates
            ~> ctx[c][r].state \notin HandoverStates \/ stopped # "none"

\* An acknowledgement finds the context whose handover it acknowledges:
\* GetUeManager asserts it ("UE manager for RNTI not found").
AckFindsContext ==
    \A i \in 1..Len(x2) :
        Running /\ Due(i, "HandoverRequestAck") => Present(x2[i].source, x2[i].oldRnti)

(***************************************************************************)
(* What all of this amounts to for the UE: see UeService. A stopped         *)
(* simulation serves nobody.                                                *)
(***************************************************************************)
Pairs == Cells \X Rntis
NoPair == <<NoCell, 0>>

AnyOf(S) == IF S = {} \/ stopped # "none" THEN NoPair ELSE CHOOSE p \in S : TRUE

\* Where the UE is served.
Serving == {p \in Pairs : Serves(p[1], p[2])}

\* The targets of the handovers under way: their source has let go of the UE.
Joining ==
    {p \in Pairs : /\ ctx[p[1]][p[2]].state = "HANDOVER_JOINING"
                   /\ \E q \in Pairs : /\ ctx[q[1]][q[2]].state = "HANDOVER_LEAVING"
                                       /\ ctx[q[1]][q[2]].peer = p[1]
                                       /\ ctx[q[1]][q[2]].peerRnti = p[2]}

Spent ==
    {p \in Pairs :
        /\ p[2] <= lastRnti[p[1]]
        /\ ctx[p[1]][p[2]].state \notin
               {"INITIAL_RANDOM_ACCESS", "CONNECTION_SETUP", "HANDOVER_JOINING"}}

Service ==
    INSTANCE UeService WITH
        Contexts <- Pairs, None <- NoPair,
        serving <- AnyOf(Serving),
        target <- AnyOf(Joining),
        spent <- Spent

\* The eNBs, the UE and the core together implement the service.
ImplementsService == Service!Spec
=============================================================================
