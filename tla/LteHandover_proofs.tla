------------------------- MODULE LteHandover_proofs -------------------------
(***************************************************************************)
(* Where the UE is served: it keeps a context that serves it while it is   *)
(* connected or moves, no context of it waits without a timer, and the     *)
(* eNBs together implement UeService. Then when: a handover is settled by  *)
(* its target before the leaving timer of the source ends it. The theorems *)
(* build on the invariant of LteHandoverInvariant.                         *)
(***************************************************************************)
EXTENDS LteHandoverInvariant

\* The message under way is of the type, from or for RNTI r of cell c.
HeadIs(type, c, r) == Received(type) /\ Head(rrc).cell = c /\ Head(rrc).rnti = r

\* The same, after a step.
HeadIsNext(type, c, r) ==
    rrc' # <<>> /\ Head(rrc').type = type /\ Head(rrc').cell = c /\ Head(rrc').rnti = r

\* An acknowledgement that offers RNTI n of cell t is on its way.
Acked(t, n) ==
    \E i \in 1..Len(x2) :
        x2[i].type = "HandoverRequestAck" /\ x2[i].target = t /\ x2[i].newRnti = n

\* The states a context is created in.
FreshStates == {"INITIAL_RANDOM_ACCESS", "HANDOVER_JOINING"}

\* What a step may make of a context: it is removed, but a serving one only when the
\* UE has left; it is created; it goes on as before; it is moved by the message
\* that is for it; it lets go of its UE; or it serves on.
ContextStep(c, r) ==
    LET old == ctx[c][r]
        new == ctx'[c][r]
    IN \/ new.state = "ABSENT" /\ (old.state \in ServingStates => Received("ContextRemove"))
       \/ r > lastRnti[c] /\ new.state \in FreshStates
       \/ new.state = old.state /\ new.peer = old.peer /\ new.peerRnti = old.peerRnti
       \/ /\ old.state = "INITIAL_RANDOM_ACCESS" /\ Received("Request")
          /\ new.state \in {"CONNECTION_SETUP", "CONNECTION_REJECTED"}
       \/ /\ old.state = "CONNECTION_SETUP" /\ HeadIs("SetupCompleted", c, r)
          /\ new.state = "ATTACH_REQUEST"
       \/ /\ old.state = "HANDOVER_JOINING" /\ HeadIs("ReconfigurationCompleted", c, r)
          /\ new.state = "HANDOVER_PATH_SWITCH"
       \/ /\ old.state = "HANDOVER_PREPARATION" /\ rrc = <<>>
          /\ Acked(new.peer, new.peerRnti)
          /\ HeadIsNext("HandoverCommand", new.peer, new.peerRnti)
          /\ new.state = "HANDOVER_LEAVING"
       \/ old.state \in ServingStates /\ new.state \in ServingStates

\* Every context takes such a step.
ContextSteps == \A c \in Cells, r \in Rntis : ContextStep(c, r)

\* Nothing is done to the contexts.
LEMMA StepsUntouched ==
  ASSUME UNCHANGED network
  PROVE  ContextSteps
BY DEF network, ContextSteps, ContextStep

\* One context is set, by a step it may take.
LEMMA StepsSet ==
  ASSUME TypeInv, NEW c, NEW r, NEW k, SetContext(c, r, k),
         c \in Cells /\ r \in Rntis => ContextStep(c, r)
  PROVE  ContextSteps
<1>1. \A d \in Cells, q \in Rntis :
         ctx'[d][q] = IF d = c /\ q = r THEN k ELSE ctx[d][q]
  BY SetShape
<1> QED
  BY <1>1 DEF ContextSteps, ContextStep

\* The context at the place that is set.
LEMMA SetAt ==
  ASSUME TypeInv, NEW c \in Cells, NEW r \in Rntis, NEW k, SetContext(c, r, k)
  PROVE  ctx'[c][r] = k
BY SetShape

\* A context is removed, a serving one only at the request of its UE.
LEMMA StepsRemove ==
  ASSUME TypeInv, NEW c, NEW r, RemoveUe(c, r),
         c \in Cells /\ r \in Rntis =>
            ctx[c][r].state \notin ServingStates \/ Received("ContextRemove")
  PROVE  ContextSteps
<1>1. SetContext(c, r, Absent) /\ Absent.state = "ABSENT"
  BY DEF RemoveUe, Absent
<1> QED
  BY <1>1, SetAt, StepsSet DEF ContextStep

\* A context is created, or no more than its RNTI spent.
LEMMA StepsAdd ==
  ASSUME TypeInv, Bookkeeping, NEW c \in Cells, ~Full(c), NEW k, AddUe(c, k),
         k.state \in FreshStates \cup {"ABSENT"}
  PROVE  ContextSteps
<1>1. /\ NewRnti(c) \in Rntis /\ ctx[c][NewRnti(c)].state = "ABSENT"
      /\ \A d \in Cells, q \in Rntis :
            ctx'[d][q] = IF d = c /\ q = NewRnti(c) THEN k ELSE ctx[d][q]
  BY AddShape
<1>2. NewRnti(c) > lastRnti[c]
  BY Numbers DEF NewRnti
<1> QED
  BY <1>1, <1>2 DEF ContextSteps, ContextStep, ServingStates

\* A serving context that serves on, or a context whose place and state stay.
LEMMA StepsServing ==
  ASSUME TypeInv, NEW c, NEW r, Present(c, r), ctx[c][r].state \in ServingStates,
         NEW k, k.state \in ServingStates, SetContext(c, r, k)
  PROVE  ContextSteps
BY SetAt, StepsSet DEF ContextStep

\* UeStep: only a preamble makes a context.
LEMMA UeStepContexts ==
  ASSUME TypeInv, Bookkeeping, UeStep
  PROVE  ContextSteps
<1>1. CASE ReceivePreamble
  <2> DEFINE k == NewContext(ue.cell, "INITIAL_RANDOM_ACCESS", NoCell, 0, "request")
  <2>1. ue.cell \in Cells
    BY <1>1 DEF TypeInv, ReceivePreamble, AccessesRandomly, UesInCells
  <2>2. k.state \in FreshStates
    BY DEF NewContext, Start, Absent, FreshStates
  <2>3. UNCHANGED network \/ (~Full(ue.cell) /\ AddUe(ue.cell, k))
    BY <1>1 DEF ReceivePreamble
  <2> HIDE DEF k
  <2> QED
    BY <2>1, <2>2, <2>3, StepsUntouched, StepsAdd
<1> QED
  BY <1>1, StepsUntouched
     DEF UeStep, SelectCell, StartConnection, RecvRaResponse, RadioLinkFailureDetected

\* S1Step: the core makes a serving context reconfigure its UE.
LEMMA S1StepContexts ==
  ASSUME TypeInv, S1Step
  PROVE  ContextSteps
<1> DEFINE r == imsiRnti[mmeCell]
           k == [ctx[mmeCell][r] EXCEPT !.state = "CONNECTION_RECONFIGURATION"]
<1>1. CASE UNCHANGED network
  BY <1>1, StepsUntouched
<1>2. CASE /\ Present(mmeCell, r)
           /\ ctx[mmeCell][r].state \in {"ATTACH_REQUEST", "HANDOVER_PATH_SWITCH"}
           /\ SetContext(mmeCell, r, k)
  <2>1. k.state = "CONNECTION_RECONFIGURATION"
    BY <1>2, PresentType DEF TimedContexts, Contexts
  <2> HIDE DEF k
  <2> QED
    BY <1>2, <2>1, StepsServing DEF ServingStates
<1> QED
  BY <1>1, <1>2
     DEF S1Step, InitialContextSetupRequest, PathSwitchRequestAcknowledge, SwitchToState, Stop

\* RecvRrcConnectionRequest: the context answers.
LEMMA RequestContexts ==
  ASSUME TypeInv, RecvRrcConnectionRequest
  PROVE  ContextSteps
<1> DEFINE c == Head(rrc).cell
           r == Head(rrc).rnti
<1>1. CASE UNCHANGED network
  BY <1>1, StepsUntouched
<1>2. ASSUME Present(c, r), ctx[c][r].state = "INITIAL_RANDOM_ACCESS",
             NEW state \in {"CONNECTION_SETUP", "CONNECTION_REJECTED"}, NEW timer,
             Answer(c, r, state, timer)
      PROVE  ContextSteps
  <2> DEFINE k == Start(c, timer, Cancel("request", [ctx[c][r] EXCEPT !.state = state]))
  <2>1. SetContext(c, r, k) /\ k.state = state
    BY <1>2, PresentType DEF Answer, TimedContexts, Contexts, Start, Cancel
  <2> HIDE DEF k
  <2> QED
    BY <1>2, <2>1, SetAt, StepsSet DEF ContextStep, RecvRrcConnectionRequest
<1> QED
  BY <1>1, <1>2 DEF RecvRrcConnectionRequest, Stop

\* The UE completes what it was told to do, and its context goes on.
LEMMA CompletedContexts ==
  ASSUME TypeInv, RecvRrcConnectionSetupCompleted \/ RecvRrcConnectionReconfigurationCompleted
  PROVE  ContextSteps
<1> DEFINE c == Head(rrc).cell
           r == Head(rrc).rnti
<1>1. CASE UNCHANGED network
  BY <1>1, StepsUntouched
<1>2. CASE RecvRrcConnectionSetupCompleted /\ ~UNCHANGED network
  <2> DEFINE k == Cancel("setup", [ctx[c][r] EXCEPT !.state = "ATTACH_REQUEST"])
  <2>1. /\ Present(c, r) /\ ctx[c][r].state = "CONNECTION_SETUP"
        /\ HeadIs("SetupCompleted", c, r) /\ SetContext(c, r, k)
    BY <1>2 DEF RecvRrcConnectionSetupCompleted, Stop, HeadIs
  <2>2. k.state = "ATTACH_REQUEST"
    BY <2>1, PresentType DEF TimedContexts, Contexts, Cancel
  <2> HIDE DEF k
  <2> QED
    BY <2>1, <2>2, SetAt, StepsSet DEF ContextStep
<1>3. CASE RecvRrcConnectionReconfigurationCompleted /\ ~UNCHANGED network
  <2> DEFINE j == [ctx[c][r] EXCEPT !.state = "HANDOVER_PATH_SWITCH"]
             k == Cancel("joining", j)
             l == [ctx[c][r] EXCEPT !.state = "CONNECTED_NORMALLY"]
  <2>1. /\ Present(c, r) /\ HeadIs("ReconfigurationCompleted", c, r)
        /\ \/ ctx[c][r].state = "HANDOVER_JOINING" /\ SetContext(c, r, k)
           \/ ctx[c][r].state = "CONNECTION_RECONFIGURATION" /\ SetContext(c, r, l)
    BY <1>3 DEF RecvRrcConnectionReconfigurationCompleted, Stop, HeadIs, SwitchToState
  <2>2. c \in Cells /\ r \in Rntis /\ ctx[c][r] \in Contexts
    BY <2>1, PresentType DEF TimedContexts
  <2>3. k.state = "HANDOVER_PATH_SWITCH" /\ l.state = "CONNECTED_NORMALLY"
    <3> HIDE DEF c, r
    <3> QED
      BY ONLY <2>2 DEF Contexts, Cancel
  <2> HIDE DEF k, l
  <2>4. CASE ctx[c][r].state = "HANDOVER_JOINING" /\ SetContext(c, r, k)
    BY <2>1, <2>2, <2>3, <2>4, SetAt, StepsSet DEF ContextStep
  <2>5. CASE ctx[c][r].state = "CONNECTION_RECONFIGURATION" /\ SetContext(c, r, l)
    BY <2>1, <2>3, <2>5, StepsServing DEF ServingStates
  <2> QED
    BY <2>1, <2>4, <2>5
<1> QED
  BY <1>1, <1>2, <1>3

\* RrcStep.
LEMMA RrcStepContexts ==
  ASSUME TypeInv, RrcStep
  PROVE  ContextSteps
<1>1. CASE RecvIdealUeContextRemoveRequest
  BY <1>1, StepsRemove, StepsUntouched DEF RecvIdealUeContextRemoveRequest
<1>2. CASE \/ RecvRrcConnectionSetup \/ RecvRrcConnectionReject
           \/ RecvRrcConnectionReconfiguration \/ RecvHandoverCommand
           \/ RecvRrcConnectionRelease
  BY <1>2, StepsUntouched
     DEF RecvRrcConnectionSetup, RecvRrcConnectionReject, RecvRrcConnectionReconfiguration,
         RecvHandoverCommand, RecvRrcConnectionRelease, Stop
<1> QED
  BY <1>1, <1>2, RequestContexts, CompletedContexts DEF RrcStep

-----------------------------------------------------------------------------

\* The acknowledged context lets go of its UE, which is sent to the target.
LEMMA AckEffect ==
  ASSUME TypeInv, Bookkeeping, Exchange, NEW i \in 1..Len(x2), RecvHandoverRequestAck(i),
         stopped' = "none"
  PROVE  LET c == x2[i].source
             r == x2[i].oldRnti
             k == Start(c, "leaving", [ctx[c][r] EXCEPT !.state = "HANDOVER_LEAVING",
                                       !.peer = x2[i].target, !.peerRnti = x2[i].newRnti])
         IN /\ c \in Cells /\ r \in Rntis /\ rrc = <<>>
            /\ ctx[c][r].state = "HANDOVER_PREPARATION"
            /\ SetContext(c, r, k)
            /\ k.state = "HANDOVER_LEAVING" /\ k.peer = x2[i].target
            /\ k.peerRnti = x2[i].newRnti
            /\ HeadIsNext("HandoverCommand", x2[i].target, x2[i].newRnti)
            /\ x2' = Others(i) /\ UNCHANGED <<core, ue>>
            /\ x2[i].target \in Cells
<1> DEFINE c == x2[i].source
           r == x2[i].oldRnti
           k == Start(c, "leaving", [ctx[c][r] EXCEPT !.state = "HANDOVER_LEAVING",
                                     !.peer = x2[i].target, !.peerRnti = x2[i].newRnti])
           m == Rrc("HandoverCommand", x2[i].target, x2[i].newRnti)
<1>1. /\ Present(c, r) /\ SetContext(c, r, k) /\ rrc' = Append(rrc, m)
      /\ x2' = Others(i) /\ UNCHANGED <<core, ue>>
  BY DEF RecvHandoverRequestAck, Stop
<1>2. /\ rrc = <<>> /\ x2[i].type = "HandoverRequestAck" /\ x2[i].target \in Cells
      /\ x2[i].newRnti \in RntiOrNone
  BY Idle, OthersType DEF RecvHandoverRequestAck, Due, X2Known, X2Messages
<1>3. ctx[c][r].state = "HANDOVER_PREPARATION" /\ c \in Cells /\ r \in Rntis
  BY <1>1, <1>2
     DEF Bookkeeping, MessagesKnown, Arrangements, IsSource, SourceStates, Present
<1>4. k.state = "HANDOVER_LEAVING" /\ k.peer = x2[i].target /\ k.peerRnti = x2[i].newRnti
  BY <1>1, PresentType DEF Start, TimedContexts, Contexts
<1>5. m \in RrcKnown
  BY <1>2, Constants, RrcType DEF ToUe
<1>6. rrc' # <<>> /\ Head(rrc') = m
  BY <1>1, <1>2, <1>5, RrcSent
<1> QED
  BY <1>1, <1>2, <1>3, <1>4, <1>6 DEF HeadIsNext, Rrc

\* RecvHandoverRequestAck: the source lets go of its UE.
LEMMA AckContexts ==
  ASSUME TypeInv, Bookkeeping, Exchange, NEW i \in 1..Len(x2), RecvHandoverRequestAck(i)
  PROVE  ContextSteps
<1>1. CASE stopped' # "none"
  BY <1>1, StepsUntouched DEF RecvHandoverRequestAck, Running, Stop
<1>2. CASE stopped' = "none"
  <2> DEFINE c == x2[i].source
             r == x2[i].oldRnti
             k == Start(c, "leaving", [ctx[c][r] EXCEPT !.state = "HANDOVER_LEAVING",
                                       !.peer = x2[i].target, !.peerRnti = x2[i].newRnti])
  <2>1. /\ c \in Cells /\ r \in Rntis /\ rrc = <<>>
        /\ ctx[c][r].state = "HANDOVER_PREPARATION"
        /\ SetContext(c, r, k)
        /\ k.state = "HANDOVER_LEAVING" /\ k.peer = x2[i].target
        /\ k.peerRnti = x2[i].newRnti
        /\ HeadIsNext("HandoverCommand", x2[i].target, x2[i].newRnti)
    BY <1>2, AckEffect
  <2>2. Acked(x2[i].target, x2[i].newRnti)
    BY DEF RecvHandoverRequestAck, Due, Acked
  <2> HIDE DEF c, r, k
  <2>3. ctx'[c][r] = k
    BY <2>1, SetAt
  <2>4. ContextStep(c, r)
    BY <2>1, <2>2, <2>3 DEF ContextStep
  <2> QED
    BY <2>1, <2>4, StepsSet
<1> QED
  BY <1>1, <1>2

\* RecvHandoverRequest: the target creates a context that joins.
LEMMA RequestedContexts ==
  ASSUME TypeInv, Bookkeeping, NEW i \in 1..Len(x2), RecvHandoverRequest(i)
  PROVE  ContextSteps
<1> DEFINE t == x2[i].target
           k == NewContext(t, "HANDOVER_JOINING", x2[i].source, x2[i].oldRnti, "joining")
<1>1. t \in Cells
  BY OthersType DEF RecvHandoverRequest, Due, X2Known
<1>2. k.state \in FreshStates /\ Absent.state = "ABSENT"
  BY DEF NewContext, Start, Absent, FreshStates
<1>3. \/ UNCHANGED network
      \/ ~Full(t) /\ AddUe(t, Absent)
      \/ ~Full(t) /\ AddUe(t, k)
  BY DEF RecvHandoverRequest
<1> HIDE DEF t, k
<1> QED
  BY <1>1, <1>2, <1>3, StepsUntouched, StepsAdd

\* X2Step.
LEMMA X2StepContexts ==
  ASSUME TypeInv, Bookkeeping, Exchange, X2Step
  PROVE  ContextSteps
<1> SUFFICES ASSUME NEW i \in 1..Len(x2),
                    \/ RecvHandoverPreparationFailure(i)
                    \/ RecvUeContextRelease(i)
                    \/ RecvHandoverCancel(i)
                    \/ RecvUeData(i)
             PROVE  ContextSteps
  BY RequestedContexts, AckContexts DEF X2Step
<1> DEFINE c == x2[i].source
           r == x2[i].oldRnti
           t == x2[i].target
           n == x2[i].newRnti
<1>1. CASE UNCHANGED network
  BY <1>1, StepsUntouched
<1>2. CASE RecvHandoverPreparationFailure(i) /\ ~UNCHANGED network
  <2> DEFINE k == [ctx[c][r] EXCEPT !.state = "CONNECTED_NORMALLY"]
  <2>1. /\ Present(c, r)
        /\ \/ ctx[c][r].state = "HANDOVER_PREPARATION" /\ SetContext(c, r, k)
           \/ ctx[c][r].state = "HANDOVER_LEAVING" /\ RemoveUe(c, r)
    BY <1>2 DEF RecvHandoverPreparationFailure, SwitchToState, ReleaseConnection, Stop
  <2>2. k.state = "CONNECTED_NORMALLY"
    BY <2>1, PresentType DEF TimedContexts, Contexts
  <2> HIDE DEF k
  <2> QED
    BY <2>1, <2>2, StepsServing, StepsRemove DEF ServingStates
<1>3. CASE RecvUeContextRelease(i) /\ ~UNCHANGED network
  <2>1. Present(c, r) /\ ctx[c][r].state = "HANDOVER_LEAVING" /\ RemoveUe(c, r)
    BY <1>3 DEF RecvUeContextRelease, Stop
  <2> QED
    BY <2>1, StepsRemove DEF ServingStates
<1>4. CASE RecvHandoverCancel(i) /\ ~UNCHANGED network
  <2> DEFINE k == Cancel("joining", ctx[t][n])
  <2>1. Present(t, n) /\ SetContext(t, n, k)
    BY <1>4 DEF RecvHandoverCancel, Stop
  <2>2. /\ k.state = ctx[t][n].state /\ k.peer = ctx[t][n].peer
        /\ k.peerRnti = ctx[t][n].peerRnti /\ t \in Cells /\ n \in Rntis
    BY <2>1, PresentType DEF TimedContexts, Contexts, Cancel
  <2> HIDE DEF k
  <2>3. ContextStep(t, n)
    BY <2>1, <2>2, SetAt DEF ContextStep
  <2> QED
    BY <2>1, <2>3, StepsSet
<1>5. CASE RecvUeData(i)
  BY <1>5, StepsUntouched DEF RecvUeData, Stop
<1> QED
  BY <1>1, <1>2, <1>3, <1>4, <1>5

\* TimeoutStep: no context that serves times out.
LEMMA TimeoutContexts ==
  ASSUME TypeInv, TimeoutStep
  PROVE  ContextSteps
<1> SUFFICES ASSUME NEW c \in Cells, NEW r \in Rntis,
                    \/ \E timer \in {"request", "setup", "rejected"} :
                          ConnectionTimeout(c, r, timer)
                    \/ HandoverJoiningTimeout(c, r)
                    \/ HandoverLeavingTimeout(c, r)
             PROVE  ContextSteps
  BY DEF TimeoutStep
<1>1. \/ UNCHANGED network
      \/ RemoveUe(c, r) /\ ctx[c][r].state \notin ServingStates
  BY DEF ConnectionTimeout, HandoverJoiningTimeout, HandoverLeavingTimeout, Stop,
         ReleaseConnection, Awaits, ServingStates
<1> QED
  BY <1>1, StepsUntouched, StepsRemove

\* SourceStep: the source prepares a handover.
LEMMA SourceContexts ==
  ASSUME TypeInv, SourceStep
  PROVE  ContextSteps
<1>1. CASE UNCHANGED network
  BY <1>1, StepsUntouched
<1>2. ASSUME NEW c \in Cells, NEW r \in Rntis, NEW target \in Cells,
             TriggerHandover(c, r, target)
      PROVE  ContextSteps
  <2> DEFINE k == [ctx[c][r] EXCEPT !.state = "HANDOVER_PREPARATION",
                                    !.peer = target, !.peerRnti = 0]
  <2>1. SetContext(c, r, k) /\ ctx[c][r].state = "CONNECTED_NORMALLY" /\ Present(c, r)
    BY <1>2 DEF TriggerHandover, PrepareHandover, Present
  <2>2. k.state = "HANDOVER_PREPARATION"
    BY <2>1, PresentType DEF TimedContexts, Contexts
  <2> HIDE DEF k
  <2> QED
    BY <2>1, <2>2, StepsServing DEF ServingStates
<1> QED
  BY <1>1, <1>2 DEF SourceStep, ForwardData

\* Time changes nothing of a context but its timers.
LEMMA TickContext ==
  ASSUME TypeInv, Tick, NEW c \in Cells, NEW r \in Rntis
  PROVE  /\ ctx'[c][r].state = ctx[c][r].state
         /\ ctx'[c][r].peer = ctx[c][r].peer
         /\ ctx'[c][r].peerRnti = ctx[c][r].peerRnti
         /\ \A t \in Timers : ctx'[c][r].timers[t] = Minus1(ctx[c][r].timers[t])
<1>1. ctx[c][r] \in Contexts
  BY DEF TypeInv, TimedContexts
<1> QED
  BY <1>1 DEF Tick, Contexts

\* Every action is such a step of every context.
LEMMA ContextsNext ==
  ASSUME TypeInv, Bookkeeping, Exchange, [Next]_vars
  PROVE  ContextSteps
<1>1. CASE Tick
  BY <1>1, TickContext DEF ContextSteps, ContextStep
<1>2. CASE RandomAccessFailed \/ Stopped \/ UNCHANGED vars
  BY <1>2, StepsUntouched DEF RandomAccessFailed, Stopped, vars, network
<1> QED
  BY <1>1, <1>2, UeStepContexts, SourceContexts, RrcStepContexts, X2StepContexts,
     S1StepContexts, TimeoutContexts DEF Next, Scheduled

-----------------------------------------------------------------------------

\* A cell that hands out no RNTI, and one that does.
LEMMA RntisGrowSame ==
  ASSUME TypeInv, UNCHANGED lastRnti
  PROVE  RntisGrow
BY Numbers DEF RntisGrow

\* A cell that hands out an RNTI.
LEMMA RntisGrowAdd ==
  ASSUME TypeInv, Bookkeeping, NEW c \in Cells, ~Full(c), NEW k, AddUe(c, k)
  PROVE  /\ RntisGrow
         /\ NewRnti(c) \in Rntis /\ lastRnti[c] < NewRnti(c) /\ lastRnti'[c] = NewRnti(c)
         /\ ctx'[c][NewRnti(c)] = k
<1>1. /\ NewRnti(c) \in Rntis /\ SourcesKept
      /\ ctx'[c][NewRnti(c)] = k
  BY AddShape
<1>2. lastRnti[c] < NewRnti(c)
  BY Numbers DEF NewRnti
<1>3. lastRnti'[c] = NewRnti(c)
  BY DEF AddUe, TypeInv
<1> QED
  BY <1>1, <1>2, <1>3 DEF SourcesKept

\* RNTIs are handed out in order.
LEMMA RntisNext ==
  ASSUME TypeInv, Bookkeeping, [Next]_vars
  PROVE  RntisGrow
<1>1. CASE ReceivePreamble
  <2>1. ue.cell \in Cells
    BY <1>1 DEF TypeInv, ReceivePreamble, AccessesRandomly, UesInCells
  <2> QED
    BY <1>1, <2>1, RntisGrowSame, RntisGrowAdd DEF ReceivePreamble, network
<1>2. ASSUME NEW i \in 1..Len(x2), RecvHandoverRequest(i)
      PROVE  RntisGrow
  <2>1. x2[i].target \in Cells
    BY <1>2, OthersType DEF RecvHandoverRequest, Due, X2Known
  <2> QED
    BY <1>2, <2>1, RntisGrowSame, RntisGrowAdd DEF RecvHandoverRequest, network
<1>3. ASSUME ~ReceivePreamble, \A i \in 1..Len(x2) : ~RecvHandoverRequest(i)
      PROVE  UNCHANGED lastRnti
  <2>1. CASE UeStep
    BY <1>3, <2>1
       DEF UeStep, SelectCell, StartConnection, RecvRaResponse, RadioLinkFailureDetected, network
  <2>2. CASE RrcStep
    BY <2>2
       DEF RrcStep, RecvRrcConnectionRequest, RecvRrcConnectionSetup, RecvRrcConnectionReject,
           RecvRrcConnectionSetupCompleted, RecvRrcConnectionReconfiguration,
           RecvRrcConnectionReconfigurationCompleted, RecvHandoverCommand,
           RecvRrcConnectionRelease, RecvIdealUeContextRemoveRequest, Answer, SwitchToState,
           RemoveUe, SetContext, Stop, network
  <2>3. CASE X2Step
    BY <1>3, <2>3
       DEF X2Step, RecvHandoverRequestAck, RecvHandoverPreparationFailure,
           RecvUeContextRelease, RecvHandoverCancel, RecvUeData, ReleaseConnection,
           SwitchToState, RemoveUe, SetContext, Stop, network
  <2>4. CASE S1Step \/ TimeoutStep \/ RandomAccessFailed \/ SourceStep
    BY <2>4
       DEF S1Step, InitialContextSetupRequest, PathSwitchRequestAcknowledge, TimeoutStep,
           ConnectionTimeout, HandoverJoiningTimeout, HandoverLeavingTimeout,
           RandomAccessFailed, SourceStep, ForwardData, TriggerHandover, PrepareHandover,
           ReleaseConnection, SwitchToState, RemoveUe, SetContext, Stop, network
  <2> QED
    BY <2>1, <2>2, <2>3, <2>4 DEF Next, Scheduled, Tick, Stopped, vars
<1> QED
  BY <1>1, <1>2, <1>3, RntisGrowSame

-----------------------------------------------------------------------------

\* What a new message says: an acknowledgement offers the RNTI just handed out, and
\* a cancellation comes from a source that gives up waiting and releases its UE.
NewMessage(m) ==
    /\ m.type = "HandoverRequestAck" =>
          /\ UNCHANGED <<ue, rrc>>
          /\ m.target \in Cells /\ m.newRnti \in Rntis
          /\ lastRnti[m.target] < m.newRnti /\ lastRnti'[m.target] = m.newRnti
          /\ ctx'[m.target][m.newRnti].state = "HANDOVER_JOINING"
    /\ m.type = "HandoverCancel" =>
          /\ rrc = <<>> /\ UNCHANGED ue
          /\ rrc' # <<>> /\ Head(rrc').type = "Release"
          /\ \E c \in Cells, r \in Rntis :
                /\ ctx[c][r].state = "HANDOVER_LEAVING"
                /\ ctx[c][r].peer = m.target /\ ctx[c][r].peerRnti = m.newRnti

\* The messages after a step are messages from before, and at most one more.
MessageSteps ==
    \E f : \/ Carried(f, Len(x2'))
           \/ /\ Len(x2') \in Nat \ {0} /\ Carried(f, Len(x2') - 1)
              /\ NewMessage(x2'[Len(x2')])

\* The messages stay.
LEMMA MessagesSame ==
  ASSUME TypeInv, UNCHANGED x2
  PROVE  MessageSteps
BY SameShape DEF MessageSteps

\* A message is taken, and nothing is sent.
LEMMA MessagesFewer ==
  ASSUME TypeInv, NEW i \in 1..Len(x2), x2' = Others(i)
  PROVE  MessageSteps
<1>1. Len(x2) \in Nat /\ Len(x2') = Len(x2) - 1
  BY Numbers, OthersShape DEF TypeInv
<1> QED
  BY <1>1, OthersTaken DEF MessageSteps

\* A message is sent.
LEMMA MessagesMore ==
  ASSUME TypeInv, NEW m \in X2Known, x2' = Append(x2, m), NewMessage(m)
  PROVE  MessageSteps
<1>1. Len(x2') \in Nat \ {0} /\ x2'[Len(x2')] = m
      /\ Carried([i \in Nat |-> i], Len(x2') - 1)
  BY AppendShape, Numbers
<1> QED
  BY <1>1 DEF MessageSteps

\* A message is taken and answered.
LEMMA MessagesAnswered ==
  ASSUME TypeInv, NEW i \in 1..Len(x2), NEW m \in X2Known, x2' = Append(Others(i), m),
         NewMessage(m)
  PROVE  MessageSteps
<1>1. Len(x2') \in Nat \ {0}
  BY AnswerShape, Numbers
<1> QED
  BY <1>1, AnswerShape DEF MessageSteps

\* RecvHandoverRequest: the answer of the target.
LEMMA RequestMessages ==
  ASSUME TypeInv, Bookkeeping, NEW i \in 1..Len(x2), RecvHandoverRequest(i)
  PROVE  MessageSteps
<1> DEFINE t == x2[i].target
           s == x2[i].source
           o == x2[i].oldRnti
           k == NewContext(t, "HANDOVER_JOINING", s, o, "joining")
           ack == X2("HandoverRequestAck", s, o, t, NewRnti(t))
           refusal == X2("PreparationFailure", s, o, t, 0)
<1>1. /\ t \in Cells /\ t \in CellOrNone /\ s \in CellOrNone /\ o \in RntiOrNone
      /\ UNCHANGED <<ue, rrc>>
  BY OthersType, Constants DEF RecvHandoverRequest, Due, X2Known, X2Messages
<1>2. CASE Refuse(i)
  <2>1. refusal \in X2Known /\ NewMessage(refusal)
    BY <1>1, X2Type, Constants DEF ToSource, X2, NewMessage
  <2>2. x2' = Append(Others(i), refusal)
    BY <1>2 DEF Refuse
  <2> HIDE DEF refusal
  <2> QED
    BY <2>1, <2>2, MessagesAnswered
<1>3. CASE ~Full(t) /\ x2' = Append(Others(i), ack) /\ AddUe(t, k)
  <2>1. /\ NewRnti(t) \in Rntis /\ lastRnti[t] < NewRnti(t) /\ lastRnti'[t] = NewRnti(t)
        /\ ctx'[t][NewRnti(t)] = k
    BY <1>1, <1>3, RntisGrowAdd
  <2>2. k.state = "HANDOVER_JOINING"
    BY DEF NewContext, Start, Absent
  <2>3. ack \in X2Known /\ ack.type = "HandoverRequestAck"
        /\ ack.target = t /\ ack.newRnti = NewRnti(t)
    BY <1>1, <2>1, X2Type, Constants DEF ToSource, X2
  <2> HIDE DEF k, ack, t
  <2>4. NewMessage(ack)
    BY <1>1, <2>1, <2>2, <2>3 DEF NewMessage
  <2> QED
    BY <1>3, <2>3, <2>4, MessagesAnswered
<1> QED
  BY <1>2, <1>3 DEF RecvHandoverRequest

\* A source that gives up waiting tells the target.
LEMMA LeavingMessages ==
  ASSUME TypeInv, Exchange, NEW c \in Cells, NEW r \in Rntis, HandoverLeavingTimeout(c, r)
  PROVE  MessageSteps
<1> DEFINE m == HandoverCancel(c, r)
           release == Rrc("Release", c, r)
<1>1. CASE UNCHANGED x2
  BY <1>1, MessagesSame
<1>2. CASE /\ ctx[c][r].state = "HANDOVER_LEAVING" /\ rrc = <<>>
           /\ x2' = Append(x2, m) /\ rrc' = Append(rrc, release) /\ UNCHANGED ue
  <2>1. Present(c, r)
    BY <1>2 DEF Present
  <2>2. /\ m \in X2Known /\ m.type = "HandoverCancel"
        /\ m.target = ctx[c][r].peer /\ m.newRnti = ctx[c][r].peerRnti
    BY <2>1, PresentType, X2Type DEF HandoverCancel, ToTarget, X2
  <2>3. release \in RrcKnown /\ release.type = "Release"
    BY <2>1, PresentType, RrcType DEF ToUe, Rrc
  <2> HIDE DEF m, release
  <2>4. rrc' # <<>> /\ Head(rrc').type = "Release"
    BY <1>2, <2>3, RrcSent
  <2>5. NewMessage(m)
    BY <1>2, <2>2, <2>4 DEF NewMessage
  <2> QED
    BY <1>2, <2>2, <2>5, MessagesMore
<1> QED
  BY <1>1, <1>2, Idle DEF HandoverLeavingTimeout, Awaits, Stop, ReleaseConnection

\* A message that is neither an acknowledgement nor a cancellation.
LEMMA MessagesOther ==
  ASSUME TypeInv, NEW type \in (ToTarget \cup ToSource) \ {"HandoverRequestAck", "HandoverCancel"},
         NEW s \in CellOrNone, NEW r \in RntiOrNone, NEW t \in CellOrNone,
         NEW n \in RntiOrNone, type = "HandoverRequest" => t \in Cells,
         x2' = Append(x2, X2(type, s, r, t, n))
  PROVE  MessageSteps
<1> DEFINE m == X2(type, s, r, t, n)
<1>1. m \in X2Known
  BY X2Type, Constants
<1>2. NewMessage(m)
  BY DEF X2, NewMessage
<1> QED
  BY <1>1, <1>2, MessagesMore

\* The failure of a context that is present is reported.
LEMMA FailureMessages ==
  ASSUME TypeInv, NEW c, NEW r, Present(c, r), x2' = Append(x2, PreparationFailure(c, r))
  PROVE  MessageSteps
BY PresentType, MessagesOther, Constants DEF PreparationFailure, ToSource

\* What every action does to the messages.
LEMMA MessagesNext ==
  ASSUME TypeInv, Bookkeeping, Exchange, [Next]_vars
  PROVE  MessageSteps
<1>1. CASE UNCHANGED x2
  BY <1>1, MessagesSame
<1>2. ASSUME NEW i \in 1..Len(x2), x2' = Others(i)
      PROVE  MessageSteps
  BY <1>2, MessagesFewer
<1>3. CASE UeStep \/ RandomAccessFailed \/ Stopped \/ UNCHANGED vars
  BY <1>1, <1>3
     DEF UeStep, SelectCell, StartConnection, ReceivePreamble, RecvRaResponse,
         RadioLinkFailureDetected, RandomAccessFailed, Stopped, vars
<1>4. CASE RrcStep
  <2>1. CASE RecvIdealUeContextRemoveRequest
    BY <1>1, <2>1, FailureMessages DEF RecvIdealUeContextRemoveRequest
  <2> QED
    BY <1>1, <1>4, <2>1
       DEF RrcStep, RecvRrcConnectionRequest, RecvRrcConnectionSetup, RecvRrcConnectionReject,
           RecvRrcConnectionSetupCompleted, RecvRrcConnectionReconfiguration,
           RecvRrcConnectionReconfigurationCompleted, RecvHandoverCommand,
           RecvRrcConnectionRelease, Stop
<1>5. CASE X2Step
  <2> SUFFICES ASSUME NEW i \in 1..Len(x2),
                      \/ RecvHandoverRequestAck(i)
                      \/ RecvHandoverPreparationFailure(i)
                      \/ RecvUeContextRelease(i)
                      \/ RecvHandoverCancel(i)
                      \/ RecvUeData(i)
               PROVE  UNCHANGED x2 \/ x2' = Others(i)
    BY <1>1, <1>2, <1>5, RequestMessages DEF X2Step
  <2>1. CASE RecvHandoverRequestAck(i)
    BY <2>1 DEF RecvHandoverRequestAck, Stop
  <2>2. CASE RecvHandoverPreparationFailure(i)
    BY <2>2 DEF RecvHandoverPreparationFailure, Stop
  <2>3. CASE RecvUeContextRelease(i) \/ RecvHandoverCancel(i) \/ RecvUeData(i)
    BY <2>3 DEF RecvUeContextRelease, RecvHandoverCancel, RecvUeData, Stop
  <2> QED
    BY <2>1, <2>2, <2>3
<1>6. CASE S1Step
  <2> DEFINE r == imsiRnti[mmeCell]
  <2>1. ASSUME Present(mmeCell, r),
               x2' = Append(x2, X2("ContextRelease", ctx[mmeCell][r].peer,
                                   ctx[mmeCell][r].peerRnti, mmeCell, r))
        PROVE  MessageSteps
    BY <2>1, PresentType, MessagesOther DEF ToSource
  <2> QED
    BY <1>1, <1>6, <2>1 DEF S1Step, InitialContextSetupRequest, PathSwitchRequestAcknowledge, Stop
<1>7. CASE TimeoutStep
  <2> SUFFICES ASSUME NEW c \in Cells, NEW r \in Rntis,
                      \/ \E timer \in {"request", "setup", "rejected"} :
                            ConnectionTimeout(c, r, timer)
                      \/ HandoverJoiningTimeout(c, r)
               PROVE  MessageSteps
    BY <1>7, LeavingMessages DEF TimeoutStep
  <2>1. \/ UNCHANGED x2
        \/ Present(c, r) /\ x2' = Append(x2, PreparationFailure(c, r))
    BY DEF ConnectionTimeout, HandoverJoiningTimeout, Awaits, Stop, Present
  <2> QED
    BY <1>1, <2>1, FailureMessages
<1>8. CASE SourceStep
  <2> SUFFICES ASSUME NEW c \in Cells, NEW r \in Rntis,
                      \/ ForwardData(c, r)
                      \/ \E target \in Cells : TriggerHandover(c, r, target)
               PROVE  MessageSteps
    BY <1>8 DEF SourceStep
  <2>1. Present(c, r)
    BY DEF ForwardData, TriggerHandover, Present
  <2>2. CASE ForwardData(c, r)
    <3>1. x2' = Append(x2, X2("UeData", c, r, ctx[c][r].peer, ctx[c][r].peerRnti))
      BY <2>2 DEF ForwardData
    <3>2. "UeData" \in (ToTarget \cup ToSource) \ {"HandoverRequestAck", "HandoverCancel"}
      BY DEF ToTarget
    <3> QED
      BY <2>1, <3>1, <3>2, PresentType, MessagesOther
  <2>3. ASSUME NEW target \in Cells, TriggerHandover(c, r, target)
        PROVE  MessageSteps
    BY <2>1, <2>3, PresentType, MessagesOther, Constants
       DEF TriggerHandover, PrepareHandover, ToTarget
  <2> QED
    BY <2>2, <2>3
<1>9. CASE Tick
  BY <1>9, TickShape DEF MessageSteps
<1> QED
  BY <1>3, <1>4, <1>5, <1>6, <1>7, <1>8, <1>9 DEF Next, Scheduled

-----------------------------------------------------------------------------

\* The UE stays as it is, but for a response that misses its window.
SamePlace ==
    /\ ue'.state = ue.state /\ ue'.cell = ue.cell /\ ue'.rnti = ue.rnti
    /\ ue'.leave = ue.leave /\ ue'.rar \in {ue.rar, 0}

\* The core keeps its view of the UE.
SameCore == UNCHANGED <<imsiRnti, mmeCell>>

\* No message is received and none is sent.
Silent == rrc = <<>> /\ rrc' = <<>>

\* What the UE does and is told, action by action.
Rests == SamePlace /\ SameCore /\ (Silent \/ UNCHANGED <<network, rrc>>)

\* The UE selects a cell.
Selects ==
    /\ Silent /\ SameCore /\ UNCHANGED network
    /\ ue.state = "IDLE_CELL_SEARCH" /\ ue'.state = "IDLE_WAIT_SIB2"
    /\ ue'.rnti = ue.rnti /\ ue'.rar = ue.rar

\* The UE starts to connect, or starts again after a rejection or a failure.
StartsOver ==
    /\ rrc = <<>> \/ Received("Reject")
    /\ rrc' = <<>> /\ SameCore /\ UNCHANGED network
    /\ ue.state \in {"IDLE_WAIT_SIB2", "IDLE_CONNECTING"}
    /\ ue'.state \in {"IDLE_WAIT_SIB2", "IDLE_RANDOM_ACCESS"}
    /\ ue'.cell = ue.cell /\ ue'.rnti = ue.rnti /\ ue'.rar \in {ue.rar, 0}

\* The UE receives a random access response.
IsOffered ==
    /\ Silent /\ SameCore
    /\ ue.state \in {"IDLE_RANDOM_ACCESS", "CONNECTED_HANDOVER"}
    /\ ue'.state = ue.state /\ ue'.cell = ue.cell /\ ue'.rnti = ue.rnti
    /\ ue'.leave = ue.leave
    /\ \/ ue.state = "CONNECTED_HANDOVER" /\ ue'.rar = ue.rnti
       \/ /\ ue.state = "CONNECTED_HANDOVER" => ~Present(ue.cell, ue.rnti)
          /\ ue'.rar \in Rntis
          /\ lastRnti[ue.cell] < ue'.rar /\ lastRnti'[ue.cell] = ue'.rar
          /\ ctx'[ue.cell][ue'.rar].state = "INITIAL_RANDOM_ACCESS"

\* The UE asks for a connection.
Requests ==
    /\ rrc = <<>> /\ rrc' # <<>> /\ Head(rrc').type = "Request"
    /\ SameCore /\ UNCHANGED network
    /\ ue.state = "IDLE_RANDOM_ACCESS" /\ ue'.state = "IDLE_CONNECTING"
    /\ ue'.cell = ue.cell /\ ue'.rnti = ue.rar /\ ue'.rar = 0

\* The UE has come to the target.
Arrives ==
    /\ rrc = <<>> /\ HeadIsNext("ReconfigurationCompleted", ue.cell, ue.rar)
    /\ SameCore /\ UNCHANGED network
    /\ ue.state = "CONNECTED_HANDOVER" /\ ue'.state = "CONNECTED_NORMALLY"
    /\ ue'.cell = ue.cell /\ ue'.rnti = ue.rar /\ ue'.rar = 0 /\ ue.rar # 0
    /\ ue'.leave = ue.leave

\* The UE goes idle and has its context removed.
Leaves ==
    /\ rrc = <<>> \/ Received("Release")
    /\ HeadIsNext("ContextRemove", ue.cell, ue.rnti)
    /\ SameCore /\ UNCHANGED network
    /\ ue'.state = "IDLE_CELL_SEARCH" /\ ue'.cell = NoCell /\ ue'.rnti = 0 /\ ue'.rar = 0

\* The UE sets its connection up.
SetsUp ==
    /\ Received("Setup") /\ HeadIsNext("SetupCompleted", ue.cell, ue.rnti)
    /\ SameCore /\ UNCHANGED network
    /\ ue'.state = "CONNECTED_NORMALLY" /\ ~ue'.leave
    /\ ue'.cell = ue.cell /\ ue'.rnti = ue.rnti /\ ue'.rar = ue.rar

\* The UE follows a handover command.
Moves ==
    /\ HeadIs("HandoverCommand", ue'.cell, ue'.rnti) /\ rrc' = <<>>
    /\ SameCore /\ UNCHANGED network
    /\ ue.state = "CONNECTED_NORMALLY" /\ ue'.state = "CONNECTED_HANDOVER"
    /\ ue'.rar = 0 /\ ue'.leave = ue.leave

\* What it answers or the eNB makes of its messages.
Reconfigures ==
    /\ Received("Reconfiguration")
    /\ HeadIsNext("ReconfigurationCompleted", ue.cell, ue.rnti)
    /\ SamePlace /\ SameCore /\ UNCHANGED network
    /\ ue.state = "CONNECTED_NORMALLY"

\* The UE, told already to leave, ignores a release.
Ignores ==
    /\ Received("Release") /\ ue.leave /\ rrc' = <<>>
    /\ SamePlace /\ SameCore /\ UNCHANGED network

\* The eNB answers a connection request.
IsAnswered ==
    /\ Received("Request")
    /\ rrc' # <<>> /\ Head(rrc').type \in {"Setup", "Reject"}
    /\ SamePlace /\ SameCore

\* The core is asked to send the traffic of the UE to where it is.
Asks(c, r) == mmeCell' = c /\ imsiRnti'[c] = r

\* The eNB learns that the UE at (c, r) did what it was told.
Completes(c, r) ==
    /\ rrc' = <<>> /\ SamePlace
    /\ \/ /\ HeadIs("SetupCompleted", c, r)
          /\ ctx'[c][r].state = "ATTACH_REQUEST" /\ Asks(c, r)
       \/ /\ HeadIs("ReconfigurationCompleted", c, r)
          /\ ctx[c][r].state = "HANDOVER_JOINING"
          /\ ctx'[c][r].state = "HANDOVER_PATH_SWITCH" /\ Asks(c, r)
       \/ /\ HeadIs("ReconfigurationCompleted", c, r)
          /\ ctx[c][r].state = "CONNECTION_RECONFIGURATION"
          /\ ctx'[c][r].state = "CONNECTED_NORMALLY" /\ SameCore
       \/ /\ HeadIs("ReconfigurationCompleted", c, r)
          /\ ctx[c][r].state \in {"CONNECTED_NORMALLY", "HANDOVER_LEAVING"}
          /\ SameCore /\ UNCHANGED network

\* The eNB removes the context of a UE that went idle.
IsRemoved ==
    /\ Received("ContextRemove") /\ rrc' = <<>>
    /\ SamePlace /\ SameCore
    /\ \A c \in Cells, r \in Rntis :
          HeadIs("ContextRemove", c, r) => ctx'[c][r].state = "ABSENT"

\* What an eNB tells it.
IsReconfigured ==
    /\ rrc = <<>> /\ HeadIsNext("Reconfiguration", mmeCell, imsiRnti[mmeCell])
    /\ SamePlace /\ SameCore
    /\ mmeCell \in Cells /\ imsiRnti[mmeCell] \in Rntis
    /\ Serves(mmeCell, imsiRnti[mmeCell])
    /\ ctx'[mmeCell][imsiRnti[mmeCell]].state = "CONNECTION_RECONFIGURATION"

\* The source sends the UE to the target.
IsCommanded ==
    /\ rrc = <<>> /\ SamePlace /\ SameCore
    /\ \E i \in 1..Len(x2) :
          /\ x2[i].type = "HandoverRequestAck" /\ x2[i].target \in Cells
          /\ HeadIsNext("HandoverCommand", x2[i].target, x2[i].newRnti)
          /\ x2' = Others(i)
    /\ \E c \in Cells, r \in Rntis : Serves(c, r)

\* An eNB releases the UE.
IsReleased ==
    /\ rrc = <<>> /\ rrc' # <<>> /\ Head(rrc').type = "Release"
    /\ SamePlace /\ SameCore

\* All that may happen to the UE.
UeSteps ==
    \/ Rests \/ Selects \/ StartsOver \/ IsOffered \/ Requests \/ Arrives \/ Leaves
    \/ SetsUp \/ Moves \/ Reconfigures \/ Ignores \/ IsAnswered
    \/ \E c \in Cells, r \in Rntis : Completes(c, r)
    \/ IsRemoved \/ IsReconfigured \/ IsCommanded \/ IsReleased

\* What there is in a UE.
LEMMA UeType ==
  ASSUME TypeInv
  PROVE  /\ ue \in UeRrcs /\ ue.cell \in CellOrNone /\ ue.rnti \in RntiOrNone
         /\ ue.rar \in RntiOrNone
         /\ ue.state # "IDLE_CELL_SEARCH" => ue.cell \in Cells
BY DEF TypeInv, UesInCells, UeRrcs

\* The message that is sent is the one under way.
LEMMA HeadSent ==
  ASSUME TypeInv, Exchange, NEW type \in ToUe \cup ToEnb,
         NEW c \in CellOrNone, NEW r \in RntiOrNone, type = "HandoverCommand" => c \in Cells,
         \/ rrc = <<>> /\ rrc' = Append(rrc, Rrc(type, c, r))
         \/ rrc # <<>> /\ rrc' = Append(Tail(rrc), Rrc(type, c, r))
  PROVE  HeadIsNext(type, c, r)
<1> DEFINE m == Rrc(type, c, r)
<1>1. m \in RrcKnown /\ m.type = type /\ m.cell = c /\ m.rnti = r
  BY RrcType DEF Rrc
<1> HIDE DEF m
<1>2. rrc' # <<>> /\ Head(rrc') = m
  BY <1>1, RrcSent DEF m
<1> QED
  BY <1>1, <1>2 DEF HeadIsNext

\* A UE that is left alone.
LEMMA UeAlone ==
  ASSUME UNCHANGED ue
  PROVE  SamePlace
BY DEF SamePlace

\* UeStep.
LEMMA UeStepSteps ==
  ASSUME TypeInv, Bookkeeping, Exchange, UeStep
  PROVE  UeSteps
<1>0. rrc = <<>>
  BY Idle DEF UeStep, SelectCell, StartConnection, ReceivePreamble, RecvRaResponse,
              RadioLinkFailureDetected
<1>1. ASSUME NEW c \in Cells, SelectCell(c)
      PROVE  Selects
  BY <1>0, <1>1, UeType DEF SelectCell, Selects, Silent, SameCore, core, UeRrcs
<1>2. CASE StartConnection
  <2>1. StartsOver
    BY <1>0, <1>2, UeType DEF StartConnection, StartsOver, SameCore, core, UeRrcs
  <2> QED
    BY <2>1 DEF UeSteps
<1>3. CASE ReceivePreamble
  <2> DEFINE k == NewContext(ue.cell, "INITIAL_RANDOM_ACCESS", NoCell, 0, "request")
  <2>1. /\ ue.cell \in Cells /\ Silent /\ SameCore
        /\ ue.state \in {"IDLE_RANDOM_ACCESS", "CONNECTED_HANDOVER"}
    BY <1>0, <1>3, UeType DEF ReceivePreamble, AccessesRandomly, Silent, SameCore, core
  <2>2. \/ /\ ue.state = "CONNECTED_HANDOVER"
           /\ ue' = [ue EXCEPT !.rar = ue.rnti]
        \/ /\ ue.state = "CONNECTED_HANDOVER" => ~Present(ue.cell, ue.rnti)
           /\ ~Full(ue.cell) /\ AddUe(ue.cell, k)
           /\ ue' = [ue EXCEPT !.rar = NewRnti(ue.cell)]
    BY <1>3 DEF ReceivePreamble
  <2>3. k.state = "INITIAL_RANDOM_ACCESS"
    BY DEF NewContext, Start, Absent
  <2> HIDE DEF k
  <2>4. /\ ue'.state = ue.state /\ ue'.cell = ue.cell /\ ue'.rnti = ue.rnti
        /\ ue'.leave = ue.leave
    BY <2>2, UeType DEF UeRrcs
  <2>5. CASE ue.state = "CONNECTED_HANDOVER" /\ ue' = [ue EXCEPT !.rar = ue.rnti]
    <3>1. ue'.rar = ue.rnti
      BY <2>5, UeType DEF UeRrcs
    <3>2. IsOffered
      BY <2>1, <2>4, <2>5, <3>1 DEF IsOffered
    <3> QED
      BY <3>2 DEF UeSteps
  <2>6. CASE /\ ue.state = "CONNECTED_HANDOVER" => ~Present(ue.cell, ue.rnti)
             /\ ~Full(ue.cell) /\ AddUe(ue.cell, k)
             /\ ue' = [ue EXCEPT !.rar = NewRnti(ue.cell)]
    <3>1. ue'.rar = NewRnti(ue.cell)
      BY <2>6, UeType DEF UeRrcs
    <3>2. /\ NewRnti(ue.cell) \in Rntis
          /\ lastRnti[ue.cell] < NewRnti(ue.cell) /\ lastRnti'[ue.cell] = NewRnti(ue.cell)
          /\ ctx'[ue.cell][NewRnti(ue.cell)] = k
      BY <2>1, <2>6, RntisGrowAdd
    <3>3. IsOffered
      BY <2>1, <2>3, <2>4, <2>6, <3>1, <3>2 DEF IsOffered
    <3> QED
      BY <3>3 DEF UeSteps
  <2> QED
    BY <2>2, <2>5, <2>6
<1>4. CASE RecvRaResponse
  <2>1. SameCore /\ UNCHANGED network /\ ue.rar # 0
    BY <1>4 DEF RecvRaResponse, SameCore, core
  <2>2. CASE ue.state = "IDLE_RANDOM_ACCESS"
    <3>1. /\ ue'.state = "IDLE_CONNECTING" /\ ue'.cell = ue.cell /\ ue'.rnti = ue.rar
          /\ ue'.rar = 0 /\ rrc' = Append(rrc, Rrc("Request", ue.cell, ue.rar))
      BY <1>4, <2>2, UeType DEF RecvRaResponse, UeRrcs
    <3>2. HeadIsNext("Request", ue.cell, ue.rar)
      BY <1>0, <3>1, UeType, HeadSent DEF ToEnb
    <3>3. Requests
      BY <1>0, <2>1, <2>2, <3>1, <3>2 DEF Requests, HeadIsNext
    <3> QED
      BY <3>3 DEF UeSteps
  <2>3. CASE ue.state = "CONNECTED_HANDOVER"
    <3>1. /\ ue'.state = "CONNECTED_NORMALLY" /\ ue'.cell = ue.cell /\ ue'.rnti = ue.rar
          /\ ue'.rar = 0 /\ ue'.leave = ue.leave
          /\ rrc' = Append(rrc, Rrc("ReconfigurationCompleted", ue.cell, ue.rar))
      BY <1>4, <2>3, UeType DEF RecvRaResponse, UeRrcs
    <3>2. HeadIsNext("ReconfigurationCompleted", ue.cell, ue.rar)
      BY <1>0, <3>1, UeType, HeadSent DEF ToEnb
    <3>3. Arrives
      BY <1>0, <2>1, <2>3, <3>1, <3>2 DEF Arrives
    <3> QED
      BY <3>3 DEF UeSteps
  <2> QED
    BY <1>4, <2>2, <2>3 DEF RecvRaResponse
<1>5. CASE RadioLinkFailureDetected
  <2>1. /\ ue'.state = "IDLE_CELL_SEARCH" /\ ue'.cell = NoCell /\ ue'.rnti = 0 /\ ue'.rar = 0
        /\ rrc' = Append(rrc, Rrc("ContextRemove", ue.cell, ue.rnti))
        /\ SameCore /\ UNCHANGED network
    BY <1>5 DEF RadioLinkFailureDetected, DropConnection, LeaveConnectedMode, SameCore, core
  <2>2. HeadIsNext("ContextRemove", ue.cell, ue.rnti)
    BY <1>0, <2>1, UeType, HeadSent DEF ToEnb
  <2>3. Leaves
    BY <1>0, <2>1, <2>2 DEF Leaves
  <2> QED
    BY <2>3 DEF UeSteps
<1> QED
  BY <1>1, <1>2, <1>3, <1>4, <1>5 DEF UeStep, UeSteps

\* RandomAccessFailed: the UE starts again, or goes idle.
LEMMA RandomAccessFailedSteps ==
  ASSUME TypeInv, Exchange, RandomAccessFailed
  PROVE  UeSteps
<1>0. rrc = <<>> /\ SameCore /\ UNCHANGED network
  BY Idle DEF RandomAccessFailed, SameCore, core
<1>1. CASE ue.state = "IDLE_RANDOM_ACCESS"
  <2>1. SamePlace /\ UNCHANGED rrc
    BY <1>1, UeType DEF RandomAccessFailed, SamePlace, UeRrcs
  <2> QED
    BY <1>0, <2>1 DEF Rests, UeSteps
<1>2. CASE ue.state = "CONNECTED_HANDOVER"
  <2>1. /\ ue'.state = "IDLE_CELL_SEARCH" /\ ue'.cell = NoCell /\ ue'.rnti = 0 /\ ue'.rar = 0
        /\ rrc' = Append(rrc, Rrc("ContextRemove", ue.cell, ue.rnti))
    BY <1>2 DEF RandomAccessFailed, DropConnection, LeaveConnectedMode
  <2>2. HeadIsNext("ContextRemove", ue.cell, ue.rnti)
    BY <1>0, <2>1, UeType, HeadSent DEF ToEnb
  <2>3. Leaves
    BY <1>0, <2>1, <2>2 DEF Leaves
  <2> QED
    BY <2>3 DEF UeSteps
<1> QED
  BY <1>1, <1>2 DEF RandomAccessFailed, AccessesRandomly

-----------------------------------------------------------------------------

\* A failed assertion, and whatever leaves the UE and its messages alone.
LEMMA StopRests ==
  ASSUME NEW handler, Stop(handler)
  PROVE  UeSteps
BY DEF Stop, core, SamePlace, SameCore, Rests, UeSteps

\* An action of the eNBs that is no business of the UE.
LEMMA ElsewhereRests ==
  ASSUME Running, UNCHANGED <<ue, rrc, imsiRnti, mmeCell>>
  PROVE  UeSteps
BY Idle DEF SamePlace, SameCore, Silent, Rests, UeSteps

\* RecvRrcConnectionRequest.
LEMMA RequestSteps ==
  ASSUME TypeInv, Exchange, RecvRrcConnectionRequest
  PROVE  UeSteps
<1> DEFINE c == Head(rrc).cell
           r == Head(rrc).rnti
<1>1. CASE Stop("RecvRrcConnectionRequest")
  BY <1>1, StopRests
<1>2. ASSUME Present(c, r), NEW type \in {"Setup", "Reject"},
             UNCHANGED <<core, ue>>, rrc' = Append(Tail(rrc), Rrc(type, c, r))
      PROVE  UeSteps
  <2>1. rrc # <<>> /\ Received("Request")
    BY DEF RecvRrcConnectionRequest, Received
  <2>2. HeadIsNext(type, c, r)
    BY <1>2, <2>1, PresentType, HeadSent DEF ToUe
  <2>3. IsAnswered
    BY <1>2, <2>1, <2>2 DEF IsAnswered, HeadIsNext, SamePlace, SameCore, core
  <2> QED
    BY <2>3 DEF UeSteps
<1> QED
  BY <1>1, <1>2 DEF RecvRrcConnectionRequest

\* RecvRrcConnectionSetup.
LEMMA SetupSteps ==
  ASSUME TypeInv, Exchange, RecvRrcConnectionSetup
  PROVE  UeSteps
<1>1. CASE Stop("RecvRrcConnectionSetup")
  BY <1>1, StopRests
<1>2. CASE /\ ue' = [ue EXCEPT !.state = "CONNECTED_NORMALLY", !.leave = FALSE, !.rlf = T310]
           /\ rrc' = Append(Tail(rrc), Rrc("SetupCompleted", ue.cell, ue.rnti))
           /\ UNCHANGED <<network, core>>
  <2>1. rrc # <<>> /\ Received("Setup")
    BY DEF RecvRrcConnectionSetup, Received
  <2>2. /\ ue'.state = "CONNECTED_NORMALLY" /\ ~ue'.leave
        /\ ue'.cell = ue.cell /\ ue'.rnti = ue.rnti /\ ue'.rar = ue.rar
    BY <1>2, UeType DEF UeRrcs
  <2>3. HeadIsNext("SetupCompleted", ue.cell, ue.rnti)
    BY <1>2, <2>1, UeType, HeadSent DEF ToEnb
  <2>4. SetsUp
    BY <1>2, <2>1, <2>2, <2>3 DEF SetsUp, SameCore, core
  <2> QED
    BY <2>4 DEF UeSteps
<1> QED
  BY <1>1, <1>2 DEF RecvRrcConnectionSetup

\* RecvRrcConnectionReject.
LEMMA RejectSteps ==
  ASSUME TypeInv, Exchange, RecvRrcConnectionReject
  PROVE  UeSteps
<1>1. ue.state = "IDLE_CONNECTING"
  BY RecvRrcConnectionRejectTalks
<1>2. Received("Reject") /\ rrc' = <<>>
  BY RrcTaken DEF RecvRrcConnectionReject, Received
<1>3. /\ ue'.state = "IDLE_WAIT_SIB2" /\ ue'.cell = ue.cell /\ ue'.rnti = ue.rnti
      /\ ue'.rar = 0
  BY UeType DEF RecvRrcConnectionReject, UeRrcs
<1>4. StartsOver
  BY <1>1, <1>2, <1>3 DEF RecvRrcConnectionReject, StartsOver, SameCore, core
<1> QED
  BY <1>4 DEF UeSteps

\* RecvRrcConnectionSetupCompleted.
LEMMA SetupCompletedSteps ==
  ASSUME TypeInv, Exchange, RecvRrcConnectionSetupCompleted
  PROVE  UeSteps
<1> DEFINE c == Head(rrc).cell
           r == Head(rrc).rnti
           k == Cancel("setup", [ctx[c][r] EXCEPT !.state = "ATTACH_REQUEST"])
<1>1. CASE Stop("RecvRrcConnectionSetupCompleted")
  BY <1>1, StopRests
<1>2. CASE /\ Present(c, r) /\ SetContext(c, r, k) /\ AskMme(c, r, "InitialContextSetup")
           /\ rrc' = Tail(rrc) /\ UNCHANGED ue
  <2>1. c \in Cells /\ r \in Rntis /\ k.state = "ATTACH_REQUEST"
    BY <1>2, PresentType DEF TimedContexts, Contexts, Cancel
  <2>2. HeadIs("SetupCompleted", c, r) /\ rrc # <<>>
    BY DEF RecvRrcConnectionSetupCompleted, HeadIs, Received
  <2>3. Asks(c, r)
    BY <1>2, <2>1 DEF AskMme, Asks, TypeInv
  <2> HIDE DEF c, r, k
  <2>4. ctx'[c][r].state = "ATTACH_REQUEST"
    BY <1>2, <2>1, SetAt
  <2>5. Completes(c, r)
    BY <1>2, <2>2, <2>3, <2>4, RrcTaken, UeAlone DEF Completes
  <2> QED
    BY <2>1, <2>5 DEF UeSteps
<1> QED
  BY <1>1, <1>2 DEF RecvRrcConnectionSetupCompleted

\* RecvRrcConnectionReconfigurationCompleted.
LEMMA ReconfigurationCompletedSteps ==
  ASSUME TypeInv, Exchange, RecvRrcConnectionReconfigurationCompleted
  PROVE  UeSteps
<1> DEFINE c == Head(rrc).cell
           r == Head(rrc).rnti
           j == [ctx[c][r] EXCEPT !.state = "HANDOVER_PATH_SWITCH"]
           k == Cancel("joining", j)
           l == [ctx[c][r] EXCEPT !.state = "CONNECTED_NORMALLY"]
<1>1. CASE Stop("RecvRrcConnectionReconfigurationCompleted")
  BY <1>1, StopRests
<1>2. CASE /\ Present(c, r) /\ rrc' = Tail(rrc) /\ UNCHANGED ue
           /\ \/ /\ ctx[c][r].state = "HANDOVER_JOINING"
                 /\ SetContext(c, r, k) /\ AskMme(c, r, "PathSwitch")
              \/ /\ ctx[c][r].state = "CONNECTION_RECONFIGURATION"
                 /\ SetContext(c, r, l) /\ UNCHANGED core
              \/ /\ ctx[c][r].state \in {"CONNECTED_NORMALLY", "HANDOVER_LEAVING"}
                 /\ UNCHANGED <<network, core>>
  <2>0. c \in Cells /\ r \in Rntis /\ ctx[c][r] \in Contexts
    BY <1>2, PresentType DEF TimedContexts
  <2>1. k.state = "HANDOVER_PATH_SWITCH" /\ l.state = "CONNECTED_NORMALLY"
    <3> HIDE DEF c, r
    <3> QED
      BY ONLY <2>0 DEF Contexts, Cancel
  <2>2. HeadIs("ReconfigurationCompleted", c, r) /\ rrc # <<>>
    BY DEF RecvRrcConnectionReconfigurationCompleted, HeadIs, Received
  <2>3. AskMme(c, r, "PathSwitch") => Asks(c, r)
    BY <2>0 DEF AskMme, Asks, TypeInv
  <2> HIDE DEF c, r, k, l
  <2>4. /\ SetContext(c, r, k) => ctx'[c][r].state = "HANDOVER_PATH_SWITCH"
        /\ SetContext(c, r, l) => ctx'[c][r].state = "CONNECTED_NORMALLY"
    BY <2>0, <2>1, SetAt
  <2>5. rrc' = <<>> /\ SamePlace
    BY <1>2, <2>2, RrcTaken, UeAlone
  <2>6. Completes(c, r)
    BY <1>2, <2>2, <2>3, <2>4, <2>5 DEF Completes, SameCore, core
  <2> QED
    BY <2>0, <2>6 DEF UeSteps
<1> QED
  BY <1>1, <1>2 DEF RecvRrcConnectionReconfigurationCompleted, SwitchToState

\* RecvRrcConnectionReconfiguration.
LEMMA ReconfigurationSteps ==
  ASSUME TypeInv, Exchange, RecvRrcConnectionReconfiguration
  PROVE  UeSteps
<1>1. CASE Stop("RecvRrcConnectionReconfiguration")
  BY <1>1, StopRests
<1>2. CASE /\ ue.state = "CONNECTED_NORMALLY"
           /\ rrc' = Append(Tail(rrc), Rrc("ReconfigurationCompleted", ue.cell, ue.rnti))
           /\ UNCHANGED <<network, core, ue>>
  <2>1. rrc # <<>> /\ Received("Reconfiguration")
    BY DEF RecvRrcConnectionReconfiguration, Received
  <2>2. HeadIsNext("ReconfigurationCompleted", ue.cell, ue.rnti)
    BY <1>2, <2>1, UeType, HeadSent DEF ToEnb
  <2>3. Reconfigures
    BY <1>2, <2>1, <2>2, UeAlone DEF Reconfigures, SameCore, core
  <2> QED
    BY <2>3 DEF UeSteps
<1> QED
  BY <1>1, <1>2 DEF RecvRrcConnectionReconfiguration

\* RecvHandoverCommand.
LEMMA CommandSteps ==
  ASSUME TypeInv, Exchange, RecvHandoverCommand
  PROVE  UeSteps
<1>1. CASE Stop("RecvRrcConnectionReconfiguration")
  BY <1>1, StopRests
<1>2. CASE /\ ue.state = "CONNECTED_NORMALLY"
           /\ ue' = [ue EXCEPT !.state = "CONNECTED_HANDOVER", !.cell = Head(rrc).cell,
                               !.rnti = Head(rrc).rnti, !.ra = RaTicks, !.rar = 0, !.rlf = T310]
           /\ rrc' = Tail(rrc)
           /\ UNCHANGED <<network, core>>
  <2>1. /\ ue'.state = "CONNECTED_HANDOVER" /\ ue'.cell = Head(rrc).cell
        /\ ue'.rnti = Head(rrc).rnti /\ ue'.rar = 0 /\ ue'.leave = ue.leave
    BY <1>2, UeType DEF UeRrcs
  <2>2. Received("HandoverCommand") /\ rrc # <<>>
    BY DEF RecvHandoverCommand, Received
  <2>3. Moves
    BY <1>2, <2>1, <2>2, RrcTaken DEF Moves, HeadIs, SameCore, core
  <2> QED
    BY <2>3 DEF UeSteps
<1> QED
  BY <1>1, <1>2 DEF RecvHandoverCommand

\* RecvRrcConnectionRelease.
LEMMA ReleaseSteps ==
  ASSUME TypeInv, Exchange, RecvRrcConnectionRelease
  PROVE  UeSteps
<1>1. /\ rrc # <<>> /\ Received("Release") /\ SameCore /\ UNCHANGED network
  BY DEF RecvRrcConnectionRelease, Received, SameCore, core
<1>2. CASE ue.leave /\ rrc' = Tail(rrc) /\ UNCHANGED ue
  <2>1. Ignores
    BY <1>1, <1>2, RrcTaken, UeAlone DEF Ignores
  <2> QED
    BY <2>1 DEF UeSteps
<1>3. CASE /\ rrc' = Append(Tail(rrc), Rrc("ContextRemove", ue.cell, ue.rnti))
           /\ LeaveConnectedMode
  <2>1. HeadIsNext("ContextRemove", ue.cell, ue.rnti)
    BY <1>1, <1>3, UeType, HeadSent DEF ToEnb
  <2>2. Leaves
    BY <1>1, <1>3, <2>1 DEF Leaves, LeaveConnectedMode
  <2> QED
    BY <2>2 DEF UeSteps
<1> QED
  BY <1>2, <1>3 DEF RecvRrcConnectionRelease

\* RecvIdealUeContextRemoveRequest.
LEMMA RemoveSteps ==
  ASSUME TypeInv, Exchange, RecvIdealUeContextRemoveRequest
  PROVE  UeSteps
<1> DEFINE c == Head(rrc).cell
           r == Head(rrc).rnti
<1>1. /\ rrc # <<>> /\ Received("ContextRemove") /\ rrc' = <<>> /\ UNCHANGED <<core, ue>>
  BY RrcTaken DEF RecvIdealUeContextRemoveRequest, Received
<1>2. c \in Cells /\ r \in Rntis => ctx'[c][r].state = "ABSENT"
  <2>1. CASE RemoveUe(c, r)
    BY <2>1, SetShape DEF RemoveUe, Absent
  <2>2. CASE ~Present(c, r) /\ UNCHANGED network
    BY <2>2 DEF Present, network
  <2> QED
    BY <2>1, <2>2 DEF RecvIdealUeContextRemoveRequest
<1>3. IsRemoved
  BY <1>1, <1>2 DEF IsRemoved, HeadIs, SamePlace, SameCore, core
<1> QED
  BY <1>3 DEF UeSteps

\* S1Step.
LEMMA S1Steps ==
  ASSUME TypeInv, Exchange, S1Step
  PROVE  UeSteps
<1> DEFINE r == imsiRnti[mmeCell]
           k == [ctx[mmeCell][r] EXCEPT !.state = "CONNECTION_RECONFIGURATION"]
<1>1. rrc = <<>>
  BY Idle DEF S1Step, InitialContextSetupRequest, PathSwitchRequestAcknowledge, Answered
<1>2. CASE \/ Stop("InitialContextSetupRequest")
           \/ Stop("PathSwitchRequestAcknowledge")
  BY <1>2, StopRests
<1>3. CASE /\ Present(mmeCell, r)
           /\ ctx[mmeCell][r].state \in {"ATTACH_REQUEST", "HANDOVER_PATH_SWITCH"}
           /\ SetContext(mmeCell, r, k)
           /\ rrc' = Append(rrc, Rrc("Reconfiguration", mmeCell, r))
           /\ TakeAnswer /\ UNCHANGED ue
  <2>1. /\ mmeCell \in Cells /\ r \in Rntis /\ Serves(mmeCell, r)
        /\ k.state = "CONNECTION_RECONFIGURATION"
    BY <1>3, PresentType DEF TimedContexts, Contexts, Serves, ServingStates
  <2>2. HeadIsNext("Reconfiguration", mmeCell, r)
    BY <1>1, <1>3, PresentType, HeadSent DEF ToUe
  <2> HIDE DEF k
  <2>3. ctx'[mmeCell][r].state = "CONNECTION_RECONFIGURATION"
    BY <1>3, <2>1, SetAt
  <2>4. IsReconfigured
    BY <1>1, <1>3, <2>1, <2>2, <2>3 DEF IsReconfigured, TakeAnswer, SamePlace, SameCore
  <2> QED
    BY <2>4 DEF UeSteps
<1> QED
  BY <1>2, <1>3
     DEF S1Step, InitialContextSetupRequest, PathSwitchRequestAcknowledge, SwitchToState

\* The release of a context that is present.
LEMMA ReleasedSteps ==
  ASSUME TypeInv, Exchange, Running, NEW c, NEW r, Present(c, r), ReleaseConnection(c, r),
         UNCHANGED <<core, ue>>
  PROVE  UeSteps
<1>1. rrc = <<>>
  BY Idle
<1>2. HeadIsNext("Release", c, r)
  BY <1>1, PresentType, HeadSent DEF ReleaseConnection, ToUe
<1>3. IsReleased
  BY <1>1, <1>2, UeAlone DEF IsReleased, HeadIsNext, SameCore, core
<1> QED
  BY <1>3 DEF UeSteps

\* X2Step.
LEMMA X2Steps ==
  ASSUME TypeInv, Bookkeeping, Exchange, X2Step
  PROVE  UeSteps
<1> SUFFICES ASSUME NEW i \in 1..Len(x2),
                    \/ RecvHandoverRequest(i)
                    \/ RecvHandoverRequestAck(i)
                    \/ RecvHandoverPreparationFailure(i)
                    \/ RecvUeContextRelease(i)
                    \/ RecvHandoverCancel(i)
                    \/ RecvUeData(i)
             PROVE  UeSteps
  BY DEF X2Step
<1>1. CASE RecvHandoverRequest(i)
  BY <1>1, ElsewhereRests DEF RecvHandoverRequest, core
<1>2. CASE RecvHandoverRequestAck(i)
  <2>1. CASE Stop("RecvHandoverRequestAck")
    BY <2>1, StopRests
  <2>2. CASE stopped' = "none"
    <3>1. /\ rrc = <<>> /\ SamePlace /\ SameCore /\ x2' = Others(i)
          /\ x2[i].target \in Cells
          /\ HeadIsNext("HandoverCommand", x2[i].target, x2[i].newRnti)
          /\ \E c \in Cells, r \in Rntis : Serves(c, r)
      BY <1>2, <2>2, AckEffect, UeAlone DEF Serves, ServingStates, SameCore, core
    <3>2. IsCommanded
      BY <1>2, <3>1 DEF IsCommanded, RecvHandoverRequestAck, Due
    <3> QED
      BY <3>2 DEF UeSteps
  <2> QED
    BY <1>2, <2>1, <2>2 DEF RecvHandoverRequestAck, Running
<1>3. CASE RecvHandoverPreparationFailure(i)
  BY <1>3, StopRests, ElsewhereRests, ReleasedSteps DEF RecvHandoverPreparationFailure, core
<1>4. CASE RecvUeContextRelease(i) \/ RecvHandoverCancel(i) \/ RecvUeData(i)
  BY <1>4, StopRests, ElsewhereRests
     DEF RecvUeContextRelease, RecvHandoverCancel, RecvUeData, core
<1> QED
  BY <1>1, <1>2, <1>3, <1>4

\* TimeoutStep.
LEMMA TimeoutSteps ==
  ASSUME TypeInv, Exchange, TimeoutStep
  PROVE  UeSteps
<1> SUFFICES ASSUME NEW c \in Cells, NEW r \in Rntis,
                    \/ \E timer \in {"request", "setup", "rejected"} :
                          ConnectionTimeout(c, r, timer)
                    \/ HandoverJoiningTimeout(c, r)
                    \/ HandoverLeavingTimeout(c, r)
             PROVE  UeSteps
  BY DEF TimeoutStep
<1>1. ASSUME NEW timer, ConnectionTimeout(c, r, timer)
      PROVE  UeSteps
  BY <1>1, StopRests, ElsewhereRests DEF ConnectionTimeout, core
<1>2. CASE HandoverJoiningTimeout(c, r)
  BY <1>2, StopRests, ElsewhereRests DEF HandoverJoiningTimeout, core
<1>3. CASE HandoverLeavingTimeout(c, r)
  BY <1>3, StopRests, ReleasedSteps DEF HandoverLeavingTimeout, Awaits, Present
<1> QED
  BY <1>1, <1>2, <1>3

\* What the UE does and is told, and what comes of it.
LEMMA UeStepsNext ==
  ASSUME TypeInv, Bookkeeping, Exchange, [Next]_vars
  PROVE  UeSteps
<1>1. CASE RrcStep
  BY <1>1, RequestSteps, SetupSteps, RejectSteps, SetupCompletedSteps, ReconfigurationSteps,
     ReconfigurationCompletedSteps, CommandSteps, ReleaseSteps, RemoveSteps DEF RrcStep
<1>2. CASE SourceStep
  BY <1>2, ElsewhereRests DEF SourceStep, ForwardData, TriggerHandover, core
<1>3. CASE Tick
  <2>1. SamePlace /\ SameCore /\ Silent
    BY <1>3, UeType, Idle DEF Tick, SamePlace, SameCore, Silent, UeRrcs
  <2> QED
    BY <2>1 DEF Rests, UeSteps
<1>4. CASE Stopped \/ UNCHANGED vars
  BY <1>4 DEF Stopped, vars, SamePlace, SameCore, network, Rests, UeSteps
<1> QED
  BY <1>1, <1>2, <1>3, <1>4, UeStepSteps, RandomAccessFailedSteps, X2Steps, S1Steps,
     TimeoutSteps DEF Next, Scheduled

-----------------------------------------------------------------------------

\* The UE uses only RNTIs that were handed out.
UeNumbered ==
    /\ ue.state = "IDLE_CELL_SEARCH" => ue.rnti = 0 /\ ue.rar = 0
    /\ ue.cell \in Cells => ue.rnti <= lastRnti[ue.cell] /\ ue.rar <= lastRnti[ue.cell]

\* RNTI r of cell c is there for a UE to join, or was, and nobody has come.
Unreached(c, r) ==
    /\ r \in Rntis /\ r <= lastRnti[c]
    /\ ctx[c][r].state \in {"ABSENT", "HANDOVER_JOINING"}

\* The same, after a step.
UnreachedNext(c, r) ==
    /\ r \in Rntis /\ r <= lastRnti'[c]
    /\ ctx'[c][r].state \in {"ABSENT", "HANDOVER_JOINING"}

\* The UE is, is to be, or is told to be at RNTI r of cell c.
UeHolds(c, r) ==
    \/ ue.cell = c /\ (ue.rnti = r \/ ue.rar = r)
    \/ HeadIs("HandoverCommand", c, r)

\* The same, after a step.
UeHoldsNext(c, r) ==
    \/ ue'.cell = c /\ (ue'.rnti = r \/ ue'.rar = r)
    \/ HeadIsNext("HandoverCommand", c, r)

\* A UE is sent where nobody has been.
CommandFresh == Received("HandoverCommand") => Unreached(Head(rrc).cell, Head(rrc).rnti)

\* What is offered for a handover is new to the UE as well.
AcksFresh ==
    \A i \in 1..Len(x2) :
        x2[i].type = "HandoverRequestAck" =>
            Unreached(x2[i].target, x2[i].newRnti) /\ ~UeHolds(x2[i].target, x2[i].newRnti)

\* Nothing is offered twice.
AcksDiffer ==
    \A i, j \in 1..Len(x2) :
        i # j /\ x2[i].type = "HandoverRequestAck" /\ x2[j].type = "HandoverRequestAck"
            => x2[i].target # x2[j].target \/ x2[i].newRnti # x2[j].newRnti

\* A UE on its way has not been where it goes. It accesses another context only
\* when the one that was to receive it is gone.
Heading ==
    /\ ue.state = "CONNECTED_HANDOVER" =>
          /\ Unreached(ue.cell, ue.rnti)
          /\ \/ ue.rar \in {0, ue.rnti}
             \/ /\ ctx[ue.cell][ue.rnti].state = "ABSENT"
                /\ ctx[ue.cell][ue.rar].state \in {"ABSENT", "INITIAL_RANDOM_ACCESS"}
    /\ ue.state \in {"CONNECTED_NORMALLY", "CONNECTED_HANDOVER"} => ~ue.leave

\* Where the UE is and is sent.
Whereabouts == UeNumbered /\ CommandFresh /\ AcksFresh /\ AcksDiffer /\ Heading

\* What a step leaves of the UE: most leave it where it is.
LEMMA UeMoves ==
  ASSUME UeSteps
  PROVE  SamePlace \/ Selects \/ StartsOver \/ IsOffered \/ Requests \/ Arrives
         \/ Leaves \/ SetsUp \/ Moves
BY DEF UeSteps, Rests, Reconfigures, Ignores, IsAnswered, Completes, IsRemoved,
       IsReconfigured, IsCommanded, IsReleased

\* What is under way from the UE is true of it.
LEMMA HeadAgrees ==
  ASSUME Exchange
  PROVE  /\ \A c, r : HeadIs("ReconfigurationCompleted", c, r) \/ HeadIs("SetupCompleted", c, r)
               => ue.state = "CONNECTED_NORMALLY" /\ ue.cell = c /\ ue.rnti = r
         /\ Received("ContextRemove") => ue.state = "IDLE_CELL_SEARCH"
         /\ Received("Request") \/ Received("Setup") \/ Received("Reject")
               => ue.state = "IDLE_CONNECTING"
BY DEF Exchange, Agrees, HeadIs, Received

\* Nobody comes to a place but by the message that says so, and what is gone stays
\* gone.
LEMMA UnreachedKept ==
  ASSUME TypeInv, ContextSteps, RntisGrow, NEW c \in Cells, NEW r, Unreached(c, r),
         ~HeadIs("ReconfigurationCompleted", c, r)
  PROVE  UnreachedNext(c, r) /\ (ctx[c][r].state = "ABSENT" => ctx'[c][r].state = "ABSENT")
<1>1. /\ r \in Rntis /\ ContextStep(c, r) /\ r <= lastRnti[c] /\ r \in Nat
      /\ lastRnti[c] \in Nat /\ lastRnti'[c] \in Nat /\ lastRnti[c] <= lastRnti'[c]
  BY Numbers DEF ContextSteps, Unreached, RntisGrow, Rntis
<1>2. /\ ctx'[c][r].state \in {"ABSENT", "HANDOVER_JOINING"}
      /\ ctx[c][r].state = "ABSENT" => ctx'[c][r].state = "ABSENT"
  BY <1>1 DEF Unreached, ContextStep, ServingStates
<1> QED
  BY <1>1, <1>2 DEF UnreachedNext

\* Every step keeps UeNumbered.
LEMMA UeNumberedNext ==
  ASSUME TypeInv, UeNumbered, CommandFresh, RntisGrow, UeSteps
  PROVE  UeNumbered'
<1>1. /\ ue.rnti \in Nat /\ ue.rar \in Nat /\ (ue.state # "IDLE_CELL_SEARCH" => ue.cell \in Cells)
  BY UeType, Numbers DEF RntiOrNone
<1>2. CASE SamePlace
  BY <1>1, <1>2 DEF UeNumbered, SamePlace, RntisGrow
<1>3. CASE Selects
  BY <1>3 DEF UeNumbered, Selects, RntisGrow
<1>4. CASE StartsOver \/ Requests
  BY <1>1, <1>4 DEF UeNumbered, StartsOver, Requests, RntisGrow
<1>5. CASE IsOffered
  BY <1>1, <1>5 DEF UeNumbered, IsOffered, RntisGrow
<1>6. CASE Arrives \/ SetsUp
  BY <1>1, <1>6 DEF UeNumbered, Arrives, SetsUp, RntisGrow
<1>7. CASE Leaves
  BY <1>7, LteHandoverAssumption DEF UeNumbered, Leaves, NoCell, LteHandoverAssumption
<1>8. CASE Moves
  <2>1. /\ Unreached(ue'.cell, ue'.rnti) /\ ue'.rar = 0 /\ ue'.state = "CONNECTED_HANDOVER"
        /\ UNCHANGED network
    BY <1>8 DEF Moves, CommandFresh, HeadIs
  <2> QED
    BY <2>1 DEF UeNumbered, Unreached, network, RntisGrow
<1> QED
  BY <1>2, <1>3, <1>4, <1>5, <1>6, <1>7, <1>8, UeMoves

\* Every step keeps CommandFresh.
LEMMA CommandFreshNext ==
  ASSUME TypeInv, Exchange, CommandFresh, AcksFresh, ContextSteps, RntisGrow, UeSteps
  PROVE  CommandFresh'
<1> SUFFICES ASSUME rrc' # <<>>, Head(rrc').type = "HandoverCommand"
             PROVE  UnreachedNext(Head(rrc').cell, Head(rrc').rnti)
  BY DEF CommandFresh, Received, Unreached, UnreachedNext
<1>1. Rests \/ IsCommanded
  BY DEF UeSteps, Selects, StartsOver, IsOffered, Requests, Arrives, Leaves, SetsUp, Moves,
         Reconfigures, Ignores, IsAnswered, Completes, IsRemoved, IsReconfigured, IsReleased,
         HeadIsNext, Silent
<1>2. CASE Rests
  BY <1>2 DEF Rests, Silent, CommandFresh, Received, Unreached, UnreachedNext, network
<1>3. CASE IsCommanded
  <2>1. PICK i \in 1..Len(x2) :
           /\ x2[i].type = "HandoverRequestAck" /\ x2[i].target \in Cells
           /\ HeadIsNext("HandoverCommand", x2[i].target, x2[i].newRnti)
    BY <1>3 DEF IsCommanded
  <2>2. Unreached(x2[i].target, x2[i].newRnti) /\ rrc = <<>>
    BY <1>3, <2>1 DEF AcksFresh, IsCommanded
  <2> QED
    BY <2>1, <2>2, UnreachedKept DEF HeadIsNext, HeadIs, Received
<1> QED
  BY <1>1, <1>2, <1>3

\* The UE comes to hold a place that was handed out only when it is sent there.
LEMMA HoldsNot ==
  ASSUME TypeInv, UeNumbered, UeSteps, NEW c \in Cells, NEW r \in Rntis, r <= lastRnti[c],
         ~UeHolds(c, r),
         ~(IsCommanded /\ HeadIsNext("HandoverCommand", c, r))
  PROVE  ~UeHoldsNext(c, r)
<1>1. r \in Nat /\ r # 0 /\ lastRnti[c] \in Nat
  BY Numbers DEF Rntis
<1>2. ~(ue'.cell = c /\ (ue'.rnti = r \/ ue'.rar = r))
  <2>1. CASE SamePlace \/ StartsOver
    BY <1>1, <2>1 DEF UeHolds, SamePlace, StartsOver
  <2>2. CASE Selects
    BY <1>1, <2>2 DEF UeHolds, Selects, UeNumbered
  <2>3. CASE IsOffered
    BY <1>1, <2>3 DEF UeHolds, IsOffered
  <2>4. CASE Requests \/ Arrives \/ SetsUp
    BY <1>1, <2>4 DEF UeHolds, Requests, Arrives, SetsUp
  <2>5. CASE Leaves
    BY <1>1, <2>5 DEF UeHolds, Leaves
  <2>6. CASE Moves
    BY <1>1, <2>6 DEF UeHolds, Moves
  <2> QED
    BY <2>1, <2>2, <2>3, <2>4, <2>5, <2>6, UeMoves
<1>3. ~HeadIsNext("HandoverCommand", c, r)
  BY DEF UeSteps, Selects, StartsOver, IsOffered, Requests, Arrives, Leaves, SetsUp, Moves,
         Reconfigures, Ignores, IsAnswered, Completes, IsRemoved, IsReconfigured, IsReleased,
         HeadIsNext, Silent, Rests, UeHolds, HeadIs, Received
<1> QED
  BY <1>2, <1>3 DEF UeHoldsNext

\* A message under way was under way before the step, or is new.
LEMMA MessageOrigin ==
  ASSUME MessageSteps, NEW i \in 1..Len(x2')
  PROVE  NewMessage(x2'[i]) \/ \E k \in 1..Len(x2) : SameButTime(x2'[i], x2[k])
<1>1. PICK f : \/ Carried(f, Len(x2'))
               \/ /\ Len(x2') \in Nat \ {0} /\ Carried(f, Len(x2') - 1)
                  /\ NewMessage(x2'[Len(x2')])
  BY DEF MessageSteps
<1>2. CASE Carried(f, Len(x2'))
  BY <1>2 DEF Carried
<1>3. CASE /\ Len(x2') \in Nat \ {0} /\ Carried(f, Len(x2') - 1)
           /\ NewMessage(x2'[Len(x2')])
  <2>1. i \in 1..(Len(x2') - 1) \/ i = Len(x2')
    BY <1>3
  <2> QED
    BY <1>3, <2>1 DEF Carried
<1> QED
  BY <1>1, <1>2, <1>3

\* An acknowledgement that was under way is not the one just taken.
LEMMA AckOrigin ==
  ASSUME TypeInv, MessageSteps, NEW i \in 1..Len(x2')
  PROVE  \/ NewMessage(x2'[i])
         \/ \E k \in 1..Len(x2) :
               /\ SameButTime(x2'[i], x2[k])
               /\ IsCommanded => \E j \in 1..Len(x2) :
                     /\ j # k /\ x2[j].type = "HandoverRequestAck"
                     /\ HeadIsNext("HandoverCommand", x2[j].target, x2[j].newRnti)
<1>1. CASE IsCommanded
  <2>1. PICK j \in 1..Len(x2) :
           /\ x2[j].type = "HandoverRequestAck"
           /\ HeadIsNext("HandoverCommand", x2[j].target, x2[j].newRnti)
           /\ x2' = Others(j)
    BY <1>1 DEF IsCommanded
  <2>2. /\ i \in 1..(Len(x2) - 1) /\ x2'[i] = x2[Place(j, i)]
    BY <2>1, OthersShape DEF TypeInv
  <2>3. Place(j, i) \in 1..Len(x2) /\ Place(j, i) # j
    BY <2>2, Numbers DEF Place
  <2> QED
    BY <2>1, <2>2, <2>3 DEF SameButTime, SameMessage
<1> QED
  BY <1>1, MessageOrigin

\* Every step keeps AcksFresh.
LEMMA AcksFreshNext ==
  ASSUME TypeInv, Exchange, UeNumbered, CommandFresh, AcksFresh, AcksDiffer,
         ContextSteps, RntisGrow, MessageSteps, UeSteps
  PROVE  AcksFresh'
<1> SUFFICES ASSUME NEW i \in 1..Len(x2'), x2'[i].type = "HandoverRequestAck"
             PROVE  /\ UnreachedNext(x2'[i].target, x2'[i].newRnti)
                    /\ ~UeHoldsNext(x2'[i].target, x2'[i].newRnti)
  BY DEF AcksFresh, Unreached, UnreachedNext, UeHolds, UeHoldsNext, HeadIs, HeadIsNext, Received
<1> DEFINE t == x2'[i].target
           n == x2'[i].newRnti
<1>1. CASE NewMessage(x2'[i])
  <2>1. /\ UNCHANGED <<ue, rrc>> /\ t \in Cells /\ n \in Rntis
        /\ lastRnti[t] < n /\ lastRnti'[t] = n
        /\ ctx'[t][n].state = "HANDOVER_JOINING"
    BY <1>1 DEF NewMessage
  <2>2. lastRnti[t] \in Nat /\ n \in Nat /\ n # 0 /\ ue.rnti \in Nat /\ ue.rar \in Nat
    BY <2>1, Numbers, UeType DEF Rntis, RntiOrNone
  <2> HIDE DEF t, n
  <2>3. UnreachedNext(t, n)
    BY <2>1, <2>2 DEF UnreachedNext
  <2>4. ~(ue.cell = t /\ (ue.rnti = n \/ ue.rar = n))
    BY <2>1, <2>2 DEF UeNumbered
  <2>5. ~HeadIsNext("HandoverCommand", t, n)
    BY <2>1, <2>2 DEF CommandFresh, Unreached, Received, HeadIsNext
  <2>6. ~UeHoldsNext(t, n)
    BY <2>1, <2>4, <2>5 DEF UeHoldsNext
  <2> QED
    BY <2>3, <2>6 DEF t, n
<1>2. ASSUME NEW k \in 1..Len(x2), SameButTime(x2'[i], x2[k]),
             IsCommanded => \E j \in 1..Len(x2) :
                /\ j # k /\ x2[j].type = "HandoverRequestAck"
                /\ HeadIsNext("HandoverCommand", x2[j].target, x2[j].newRnti)
      PROVE  UnreachedNext(t, n) /\ ~UeHoldsNext(t, n)
  <2>1. /\ x2[k].type = "HandoverRequestAck" /\ x2[k].target = t /\ x2[k].newRnti = n
        /\ t \in Cells
    BY <1>2, OthersType DEF SameButTime, SameMessage, X2Known
  <2>2. Unreached(t, n) /\ ~UeHolds(t, n)
    BY <2>1 DEF AcksFresh
  <2>3. ~(IsCommanded /\ HeadIsNext("HandoverCommand", t, n))
    BY <1>2, <2>1 DEF AcksDiffer, HeadIsNext
  <2>4. ~HeadIs("ReconfigurationCompleted", t, n)
    BY <2>2, HeadAgrees DEF UeHolds
  <2> QED
    BY <2>1, <2>2, <2>3, <2>4, UnreachedKept, HoldsNot DEF Unreached
<1> QED
  BY <1>1, <1>2, AckOrigin

\* Every step keeps AcksDiffer: what a target offers, it hands out in the same
\* step.
LEMMA AcksDifferNext ==
  ASSUME TypeInv, AcksFresh, AcksDiffer, MessageSteps
  PROVE  AcksDiffer'
<1> SUFFICES ASSUME NEW i \in 1..Len(x2'), NEW j \in 1..Len(x2'), i < j,
                    x2'[i].type = "HandoverRequestAck", x2'[j].type = "HandoverRequestAck"
             PROVE  x2'[i].target # x2'[j].target \/ x2'[i].newRnti # x2'[j].newRnti
  BY DEF AcksDiffer
<1>1. PICK f : \/ Carried(f, Len(x2'))
               \/ /\ Len(x2') \in Nat \ {0} /\ Carried(f, Len(x2') - 1)
                  /\ NewMessage(x2'[Len(x2')])
  BY DEF MessageSteps
<1>2. ASSUME NEW n, Carried(f, n), i \in 1..n, j \in 1..n
      PROVE  x2'[i].target # x2'[j].target \/ x2'[i].newRnti # x2'[j].newRnti
  <2>1. /\ f[i] \in 1..Len(x2) /\ SameButTime(x2'[i], x2[f[i]])
        /\ f[j] \in 1..Len(x2) /\ SameButTime(x2'[j], x2[f[j]])
        /\ f[i] < f[j]
    BY <1>2 DEF Carried
  <2> QED
    BY <2>1 DEF AcksDiffer, SameButTime, SameMessage
<1>3. CASE /\ Len(x2') \in Nat \ {0} /\ Carried(f, Len(x2') - 1)
           /\ NewMessage(x2'[Len(x2')]) /\ j = Len(x2')
  <2>1. i \in 1..(Len(x2') - 1)
    BY <1>3
  <2>2. f[i] \in 1..Len(x2) /\ SameButTime(x2'[i], x2[f[i]])
    BY <1>3, <2>1 DEF Carried
  <2>3. x2'[i].newRnti \in Rntis /\ x2'[i].newRnti <= lastRnti[x2'[i].target]
    BY <2>2 DEF AcksFresh, Unreached, SameButTime, SameMessage
  <2>4. /\ x2'[j].target \in Cells /\ x2'[j].newRnti \in Rntis
        /\ lastRnti[x2'[j].target] < x2'[j].newRnti
    BY <1>3 DEF NewMessage
  <2> QED
    BY <2>3, <2>4, Numbers DEF Rntis
<1>4. \/ Carried(f, Len(x2'))
      \/ Len(x2') \in Nat \ {0} /\ Carried(f, Len(x2') - 1) /\ j \in 1..(Len(x2') - 1)
      \/ /\ Len(x2') \in Nat \ {0} /\ Carried(f, Len(x2') - 1)
         /\ NewMessage(x2'[Len(x2')]) /\ j = Len(x2')
  BY <1>1
<1>5. j \in 1..(Len(x2') - 1) /\ Len(x2') \in Nat \ {0} => i \in 1..(Len(x2') - 1)
  OBVIOUS
<1> QED
  BY <1>2, <1>3, <1>4, <1>5

\* Every step keeps Heading.
LEMMA HeadingNext ==
  ASSUME TypeInv, Exchange, UeNumbered, CommandFresh, Heading, ContextSteps, RntisGrow, UeSteps
  PROVE  Heading'
<1> DEFINE c == ue.cell
           r == ue.rnti
<1>1. ASSUME ue.state = "CONNECTED_HANDOVER"
      PROVE  /\ c \in Cells /\ UnreachedNext(c, r)
             /\ ctx[c][r].state = "ABSENT" => ctx'[c][r].state = "ABSENT"
  <2>1. c \in Cells /\ Unreached(c, r) /\ ~HeadIs("ReconfigurationCompleted", c, r)
    BY <1>1, UeType, HeadAgrees DEF Heading
  <2> QED
    BY <2>1, UnreachedKept
<1>2. CASE SamePlace
  <2>1. ASSUME ue.state = "CONNECTED_HANDOVER", ue.rar \notin {0, r}
        PROVE  ctx'[c][ue.rar].state \in {"ABSENT", "INITIAL_RANDOM_ACCESS"}
    <3>1. /\ c \in Cells /\ ue.rar \in Rntis /\ ue.rar <= lastRnti[c]
          /\ lastRnti[c] \in Nat /\ ue.rar \in Nat
          /\ ctx[c][ue.rar].state \in {"ABSENT", "INITIAL_RANDOM_ACCESS"}
      BY <2>1, UeType, Numbers DEF RntiOrNone, Rntis, UeNumbered, Heading
    <3>2. ContextStep(c, ue.rar) /\ ~Received("Request")
      BY <2>1, <3>1, HeadAgrees DEF ContextSteps
    <3> QED
      BY <3>1, <3>2 DEF ContextStep, ServingStates
  <2> QED
    BY <1>1, <1>2, <2>1 DEF Heading, SamePlace, Unreached, UnreachedNext
<1>3. CASE IsOffered
  <2>1. ASSUME ue.state = "CONNECTED_HANDOVER", ~Present(c, r)
        PROVE  ctx'[c][r].state = "ABSENT"
    BY <1>1, <2>1 DEF Present, Heading, Unreached
  <2> QED
    BY <1>1, <1>3, <2>1 DEF Heading, IsOffered, Unreached, UnreachedNext
<1>4. CASE Moves
  <2>1. Unreached(ue'.cell, ue'.rnti) /\ UNCHANGED network
    BY <1>4 DEF Moves, CommandFresh, HeadIs
  <2> QED
    BY <1>4, <2>1 DEF Heading, Moves, Unreached, network
<1>5. CASE Arrives \/ SetsUp
  BY <1>5 DEF Heading, Arrives, SetsUp
<1>6. CASE Selects \/ StartsOver \/ Requests \/ Leaves
  BY <1>6 DEF Heading, Selects, StartsOver, Requests, Leaves
<1> QED
  BY <1>2, <1>3, <1>4, <1>5, <1>6, UeMoves

\* Every action keeps Whereabouts.
LEMMA WhereaboutsNext ==
  ASSUME TypeInv, Bookkeeping, Exchange, Whereabouts, [Next]_vars
  PROVE  Whereabouts'
<1>1. ContextSteps /\ RntisGrow /\ MessageSteps /\ UeSteps
  BY ContextsNext, RntisNext, MessagesNext, UeStepsNext
<1> QED
  BY <1>1, UeNumberedNext, CommandFreshNext, AcksFreshNext, AcksDifferNext, HeadingNext
     DEF Whereabouts

\* Whereabouts holds at first.
LEMMA WhereaboutsInit == ASSUME Init PROVE Whereabouts
<1>1. Len(x2) = 0 /\ ~Received("HandoverCommand") /\ ue.cell \notin Cells
  BY EmptySeq, LteHandoverAssumption DEF Init, Received, LteHandoverAssumption, NoCell
<1>2. UeNumbered /\ Heading
  BY <1>1 DEF Init, UeNumbered, Heading
<1>3. AcksFresh /\ AcksDiffer /\ CommandFresh
  BY <1>1 DEF AcksFresh, AcksDiffer, CommandFresh
<1> QED
  BY <1>2, <1>3 DEF Whereabouts

-----------------------------------------------------------------------------

\* The core sends the traffic of the UE to where the UE is.
CoreAgrees == mmeCell = ue.cell /\ imsiRnti[ue.cell] = ue.rnti

\* The context of the UE waits for the end of a reconfiguration.
Reconfiguring ==
    /\ ue.rnti \in Rntis /\ ctx[ue.cell][ue.rnti].state = "CONNECTION_RECONFIGURATION"
    /\ CoreAgrees

\* UeServed, and what holds while a message is under way that keeps it up. A UE that
\* has come to a context that did not wait for it is about to stop the simulation.
Served ==
    stopped = "none" /\ ue.state = "CONNECTED_NORMALLY" =>
        /\ rrc = <<>> => ue.rnti \in Rntis /\ Serves(ue.cell, ue.rnti) /\ CoreAgrees
        /\ Received("Reconfiguration") => Reconfiguring
        /\ Received("ReconfigurationCompleted") =>
              \/ Reconfiguring
              \/ /\ ue.rnti \in Rntis
                 /\ ctx[ue.cell][ue.rnti].state
                       \in {"ABSENT", "HANDOVER_JOINING", "INITIAL_RANDOM_ACCESS"}

\* The simulation goes on after a message only when the message found what it expects.
LEMMA StoppedStays ==
  ASSUME [Next]_vars, stopped' = "none"
  PROVE  stopped = "none"
BY DEF Next, Stopped, vars, UeStep, SelectCell, StartConnection, ReceivePreamble,
       RecvRaResponse, RadioLinkFailureDetected, SourceStep, ForwardData, TriggerHandover,
       Scheduled, RandomAccessFailed, Tick, TimeoutStep, ConnectionTimeout,
       HandoverJoiningTimeout, HandoverLeavingTimeout, S1Step, InitialContextSetupRequest,
       PathSwitchRequestAcknowledge, X2Step, RecvHandoverRequest, RecvHandoverRequestAck,
       RecvHandoverPreparationFailure, RecvUeContextRelease, RecvHandoverCancel, RecvUeData,
       RrcStep, RecvRrcConnectionRequest, RecvRrcConnectionSetup, RecvRrcConnectionReject,
       RecvRrcConnectionSetupCompleted, RecvRrcConnectionReconfiguration,
       RecvRrcConnectionReconfigurationCompleted, RecvHandoverCommand,
       RecvRrcConnectionRelease, RecvIdealUeContextRemoveRequest, Running

\* What may come of the messages while the UE stays connected.
LEMMA ConnectedSteps ==
  ASSUME TypeInv, Exchange, Heading, UeSteps, ue'.state = "CONNECTED_NORMALLY"
  PROVE  \/ /\ SamePlace /\ ue.state = "CONNECTED_NORMALLY"
            /\ \/ Rests \/ Reconfigures
               \/ \E c \in Cells, r \in Rntis : Completes(c, r)
               \/ IsReconfigured \/ IsCommanded \/ IsReleased
         \/ Arrives \/ SetsUp
<1>1. ~Selects /\ ~StartsOver /\ ~IsOffered /\ ~Requests /\ ~Leaves /\ ~Moves
  BY DEF Selects, StartsOver, IsOffered, Requests, Leaves, Moves
<1>2. ~Ignores /\ ~IsAnswered /\ ~IsRemoved
  BY HeadAgrees DEF Ignores, IsAnswered, IsRemoved, SamePlace, Heading
<1> QED
  BY <1>1, <1>2
     DEF UeSteps, Rests, Reconfigures, Completes, IsReconfigured, IsCommanded, IsReleased,
         SamePlace

\* A serving context goes on serving a UE that stays connected and is sent nowhere.
LEMMA ServingKept ==
  ASSUME TypeInv, Exchange, ContextSteps, NEW c \in Cells, NEW r \in Rntis, Serves(c, r),
         ContextsNumbered, ue.state = "CONNECTED_NORMALLY",
         rrc' = <<>> \/ Head(rrc').type # "HandoverCommand"
  PROVE  ctx'[c][r].state \in ServingStates
<1>1. ContextStep(c, r) /\ ~Received("ContextRemove") /\ r <= lastRnti[c]
  BY HeadAgrees DEF ContextSteps, ContextsNumbered, Serves, ServingStates
<1>2. lastRnti[c] \in Nat /\ r \in Nat
  BY Numbers DEF Rntis
<1> QED
  BY <1>1, <1>2 DEF ContextStep, Serves, ServingStates, HeadIsNext

\* Every action keeps Served.
LEMMA ServedNext ==
  ASSUME TypeInv, Bookkeeping, Exchange, Whereabouts, Served, [Next]_vars
  PROVE  Served'
<1> SUFFICES ASSUME stopped = "none", stopped' = "none", ue'.state = "CONNECTED_NORMALLY"
             PROVE  /\ rrc' = <<>> => (ue.rnti \in Rntis /\ Serves(ue.cell, ue.rnti) /\ CoreAgrees)'
                    /\ rrc' # <<>> /\ Head(rrc').type = "Reconfiguration" => Reconfiguring'
                    /\ rrc' # <<>> /\ Head(rrc').type = "ReconfigurationCompleted" =>
                          \/ Reconfiguring'
                          \/ /\ ue'.rnti \in Rntis
                             /\ ctx'[ue'.cell][ue'.rnti].state
                                   \in {"ABSENT", "HANDOVER_JOINING", "INITIAL_RANDOM_ACCESS"}
  BY StoppedStays DEF Served, Received
<1>1. ContextSteps /\ UeSteps
  BY ContextsNext, UeStepsNext
<1>2. ContextsNumbered
  BY DEF Bookkeeping
<1>3. ue.state # "IDLE_CELL_SEARCH" => ue.cell \in Cells
  BY UeType
<1>4. CASE SamePlace /\ ue.state = "CONNECTED_NORMALLY" /\ Rests
  <2>1. CASE Silent
    <3>1. ue.rnti \in Rntis /\ Serves(ue.cell, ue.rnti) /\ CoreAgrees /\ rrc' = <<>>
      BY <1>4, <2>1 DEF Served, Silent
    <3>2. ctx'[ue.cell][ue.rnti].state \in ServingStates
      BY <1>1, <1>2, <1>3, <1>4, <3>1, ServingKept
    <3> QED
      BY <1>4, <3>1, <3>2 DEF Rests, SamePlace, SameCore, CoreAgrees, Serves
  <2>2. CASE UNCHANGED <<network, rrc>>
    BY <1>4, <2>2
       DEF Rests, SamePlace, SameCore, network, Served, CoreAgrees, Reconfiguring, Serves, Received
  <2> QED
    BY <1>4, <2>1, <2>2 DEF Rests
<1>5. CASE Reconfigures
  BY <1>5 DEF Reconfigures, SamePlace, SameCore, network, Served, CoreAgrees, Reconfiguring,
              HeadIsNext
<1>6. ASSUME NEW c \in Cells, NEW r \in Rntis, Completes(c, r)
      PROVE  rrc' = <<>> /\ (ue.rnti \in Rntis /\ Serves(ue.cell, ue.rnti) /\ CoreAgrees)'
  <2>1. /\ rrc' = <<>> /\ ue.cell = c /\ ue.rnti = r /\ ue'.cell = c /\ ue'.rnti = r
        /\ ue.state = "CONNECTED_NORMALLY"
    BY <1>6, HeadAgrees DEF Completes, SamePlace
  <2>2. CASE Asks(c, r) /\ ctx'[c][r].state \in {"ATTACH_REQUEST", "HANDOVER_PATH_SWITCH"}
    BY <2>1, <2>2 DEF Asks, CoreAgrees, Serves, ServingStates
  <2>3. CASE /\ ctx[c][r].state \in {"CONNECTION_RECONFIGURATION", "CONNECTED_NORMALLY",
                                     "HANDOVER_LEAVING"}
             /\ HeadIs("ReconfigurationCompleted", c, r) /\ SameCore
             /\ \/ ctx'[c][r].state = "CONNECTED_NORMALLY"
                \/ ctx[c][r].state \in {"CONNECTED_NORMALLY", "HANDOVER_LEAVING"}
    <3>1. Reconfiguring
      BY <2>1, <2>3 DEF Served, HeadIs
    <3> QED
      BY <2>1, <2>3, <3>1 DEF Reconfiguring, CoreAgrees, SameCore, Serves, ServingStates
  <2> QED
    BY <1>6, <2>2, <2>3 DEF Completes
<1>7. CASE SamePlace /\ ue.state = "CONNECTED_NORMALLY" /\ IsReconfigured
  <2>1. CoreAgrees
    BY <1>7 DEF IsReconfigured, Served
  <2> QED
    BY <1>7, <2>1
       DEF IsReconfigured, HeadIsNext, SamePlace, SameCore, Reconfiguring, CoreAgrees
<1>8. CASE IsCommanded \/ IsReleased \/ SetsUp
  BY <1>8 DEF IsCommanded, IsReleased, SetsUp, HeadIsNext
<1>9. CASE Arrives
  <2>1. /\ ue.rar \in Rntis
        /\ ctx[ue.cell][ue.rar].state \in {"ABSENT", "HANDOVER_JOINING", "INITIAL_RANDOM_ACCESS"}
    BY <1>9, UeType, Numbers
       DEF Arrives, Whereabouts, Heading, Unreached, RntiOrNone, Rntis
  <2> QED
    BY <1>9, <2>1 DEF Arrives, HeadIsNext, network
<1> QED
  BY <1>1, <1>4, <1>5, <1>6, <1>7, <1>8, <1>9, ConnectedSteps DEF Whereabouts

-----------------------------------------------------------------------------

\* The UE is on its way to RNTI r of cell c, or has just got there or failed to.
ArrivesAt(c, r) ==
    \/ /\ UeAt(c, r) /\ ue.state = "CONNECTED_HANDOVER"
       /\ rrc = <<>> \/ Received("Release")
    \/ HeadIs("HandoverCommand", c, r)
    \/ HeadIs("ReconfigurationCompleted", c, r)
    \/ HeadIs("ContextRemove", c, r)

\* The same, after a step.
ArrivesAtNext(c, r) ==
    \/ /\ ue'.cell = c /\ ue'.rnti = r /\ ue'.state = "CONNECTED_HANDOVER"
       /\ rrc' = <<>> \/ Head(rrc').type = "Release"
    \/ HeadIsNext("HandoverCommand", c, r)
    \/ HeadIsNext("ReconfigurationCompleted", c, r)
    \/ HeadIsNext("ContextRemove", c, r)

\* RNTI r of cell c waits for a UE that is handed over.
IsJoining(c, r) == ctx[c][r].state = "HANDOVER_JOINING"

\* RNTI r of cell c was handed out.
HandedOut(c, r) == c \in Cells /\ r \in Rntis /\ r <= lastRnti[c]

\* The UE has left its source for the target, and waits there as long as the target
\* waits for it.
LeavingKnown ==
    \A c \in Cells, r \in Rntis :
        ctx[c][r].state = "HANDOVER_LEAVING" =>
            /\ HandedOut(ctx[c][r].peer, ctx[c][r].peerRnti)
            /\ IsJoining(ctx[c][r].peer, ctx[c][r].peerRnti)
                  => ArrivesAt(ctx[c][r].peer, ctx[c][r].peerRnti)

\* A source that cancels a handover has released the UE, which makes the target
\* remove its context before the cancellation arrives.
CancelsKnown ==
    \A i \in 1..Len(x2) :
        x2[i].type = "HandoverCancel" =>
            /\ HandedOut(x2[i].target, x2[i].newRnti)
            /\ IsJoining(x2[i].target, x2[i].newRnti) =>
                  /\ rrc # <<>>
                  /\ ArrivesAt(x2[i].target, x2[i].newRnti)
                  /\ Received("Release") \/ Received("ContextRemove")

\* A context that joins after a step has joined before.
LEMMA JoiningBefore ==
  ASSUME TypeInv, ContextSteps, RntisGrow, NEW c \in Cells, NEW r \in Rntis, r <= lastRnti[c],
         ctx'[c][r].state = "HANDOVER_JOINING"
  PROVE  IsJoining(c, r)
<1>1. ContextStep(c, r) /\ lastRnti[c] \in Nat /\ lastRnti'[c] \in Nat /\ r \in Nat
  BY Numbers DEF ContextSteps, Rntis, RntisGrow
<1> QED
  BY <1>1 DEF ContextStep, IsJoining, FreshStates, ServingStates

\* What was handed out stays so.
LEMMA HandedOutKept ==
  ASSUME RntisGrow, MaxRnti \in Nat, NEW c, NEW r, HandedOut(c, r)
  PROVE  c \in Cells /\ r \in Rntis /\ r <= lastRnti'[c]
BY DEF RntisGrow, HandedOut, Rntis

\* What becomes of a UE on its way, as long as its target joins.
LEMMA ArrivesStill ==
  ASSUME TypeInv, Exchange, Heading, UeSteps,
         NEW c \in Cells, NEW r \in Rntis, IsJoining(c, r), ArrivesAt(c, r),
         ctx'[c][r].state = "HANDOVER_JOINING"
  PROVE  /\ ArrivesAtNext(c, r)
         /\ Received("Release") \/ Received("ContextRemove")
              => rrc' # <<>> /\ Head(rrc').type \in {"Release", "ContextRemove"}
<1>1. CASE UeAt(c, r) /\ ue.state = "CONNECTED_HANDOVER" /\ rrc = <<>>
  <2>1. \A type : ~Received(type)
    BY <1>1 DEF Received
  <2>2. ~IsReconfigured /\ ~IsCommanded
    BY <1>1, <2>1, NotServed DEF NobodyServed, IsReconfigured, IsCommanded
  <2>3. Rests \/ IsOffered \/ Arrives \/ Leaves \/ IsReleased
    BY <1>1, <2>1, <2>2
       DEF UeSteps, Selects, StartsOver, Requests, SetsUp, Moves, Reconfigures, Ignores,
           IsAnswered, Completes, IsRemoved, HeadIs
  <2>4. CASE Rests \/ IsOffered \/ IsReleased
    BY <1>1, <2>1, <2>4
       DEF Rests, IsOffered, IsReleased, SamePlace, Silent, ArrivesAtNext, UeAt
  <2>5. CASE Arrives
    BY <1>1, <2>1, <2>5 DEF Arrives, Heading, UeAt, IsJoining, ArrivesAtNext
  <2>6. CASE Leaves
    BY <1>1, <2>1, <2>6 DEF Leaves, UeAt, ArrivesAtNext
  <2> QED
    BY <2>3, <2>4, <2>5, <2>6
<1>2. CASE UeAt(c, r) /\ ue.state = "CONNECTED_HANDOVER" /\ Received("Release")
  <2>1. /\ rrc # <<>> /\ \A type : Received(type) => type = "Release"
    BY <1>2 DEF Received
  <2>2. Rests \/ Leaves
    BY <1>2, <2>1
       DEF UeSteps, Selects, StartsOver, IsOffered, Requests, Arrives, SetsUp, Moves,
           Reconfigures, Ignores, IsAnswered, Completes, IsRemoved, IsReconfigured,
           IsCommanded, IsReleased, HeadIs, Silent, Heading
  <2> QED
    BY <1>2, <2>1, <2>2
       DEF Rests, Leaves, Silent, SamePlace, UeAt, ArrivesAtNext, HeadIsNext, Received
<1>3. CASE HeadIs("HandoverCommand", c, r)
  <2>1. /\ rrc # <<>> /\ \A type : Received(type) => type = "HandoverCommand"
    BY <1>3 DEF Received, HeadIs
  <2>2. Rests \/ Moves
    BY <1>3, <2>1, HeadAgrees
       DEF UeSteps, Selects, StartsOver, IsOffered, Requests, Arrives, Leaves, SetsUp,
           Reconfigures, Ignores, IsAnswered, Completes, IsRemoved, IsReconfigured,
           IsCommanded, IsReleased, HeadIs, Silent
  <2>3. CASE Rests
    BY <1>3, <2>1, <2>3 DEF Rests, Silent, ArrivesAtNext, HeadIs, HeadIsNext, Received
  <2>4. CASE Moves
    BY <1>3, <2>1, <2>4 DEF Moves, HeadIs, ArrivesAtNext
  <2> QED
    BY <2>2, <2>3, <2>4
<1>4. CASE HeadIs("ReconfigurationCompleted", c, r)
  <2>1. /\ rrc # <<>> /\ \A type : Received(type) => type = "ReconfigurationCompleted"
        /\ ue.state = "CONNECTED_NORMALLY"
    BY <1>4, HeadAgrees DEF Received, HeadIs
  <2>2. \A d \in Cells, q \in Rntis : ~Completes(d, q)
    BY <1>4, <2>1 DEF Completes, HeadIs, IsJoining
  <2>3. Rests
    BY <1>4, <2>1, <2>2
       DEF UeSteps, Selects, StartsOver, IsOffered, Requests, Arrives, Leaves, SetsUp, Moves,
           Reconfigures, Ignores, IsAnswered, IsRemoved, IsReconfigured,
           IsCommanded, IsReleased, HeadIs, Silent
  <2> QED
    BY <1>4, <2>1, <2>3 DEF Rests, Silent, ArrivesAtNext, HeadIs, HeadIsNext, Received
<1>5. CASE HeadIs("ContextRemove", c, r)
  <2>1. /\ rrc # <<>> /\ \A type : Received(type) => type = "ContextRemove"
        /\ ue.state = "IDLE_CELL_SEARCH"
    BY <1>5, HeadAgrees DEF Received, HeadIs
  <2>2. Rests
    BY <1>5, <2>1
       DEF UeSteps, Selects, StartsOver, IsOffered, Requests, Arrives, Leaves, SetsUp, Moves,
           Reconfigures, Ignores, IsAnswered, Completes, IsRemoved, IsReconfigured,
           IsCommanded, IsReleased, HeadIs, Silent
  <2> QED
    BY <1>5, <2>1, <2>2 DEF Rests, Silent, ArrivesAtNext, HeadIs, HeadIsNext, Received
<1> QED
  BY <1>1, <1>2, <1>3, <1>4, <1>5 DEF ArrivesAt

\* Every action keeps LeavingKnown.
LEMMA LeavingKnownNext ==
  ASSUME TypeInv, Bookkeeping, Exchange, Whereabouts, LeavingKnown, [Next]_vars
  PROVE  LeavingKnown'
<1> SUFFICES ASSUME NEW c \in Cells, NEW r \in Rntis,
                    ctx'[c][r].state = "HANDOVER_LEAVING",
                    NEW t, t = ctx'[c][r].peer, NEW n, n = ctx'[c][r].peerRnti
             PROVE  /\ t \in Cells /\ n \in Rntis /\ n <= lastRnti'[t]
                    /\ ctx'[t][n].state = "HANDOVER_JOINING" => ArrivesAtNext(t, n)
  BY DEF LeavingKnown, HandedOut, IsJoining, ArrivesAt, ArrivesAtNext, UeAt, HeadIs,
         HeadIsNext, Received
<1>1. ContextSteps /\ RntisGrow /\ UeSteps /\ Heading /\ MaxRnti \in Nat
  BY ContextsNext, RntisNext, UeStepsNext, Numbers DEF Whereabouts
<1>2. \/ ctx[c][r].state = "HANDOVER_LEAVING" /\ t = ctx[c][r].peer /\ n = ctx[c][r].peerRnti
      \/ Acked(t, n) /\ HeadIsNext("HandoverCommand", t, n)
  <2>1. ContextStep(c, r)
    BY <1>1 DEF ContextSteps
  <2> QED
    BY <2>1 DEF ContextStep, FreshStates, ServingStates
<1>3. CASE ctx[c][r].state = "HANDOVER_LEAVING" /\ t = ctx[c][r].peer /\ n = ctx[c][r].peerRnti
  <2>1. HandedOut(t, n) /\ (IsJoining(t, n) => ArrivesAt(t, n))
    BY <1>3 DEF LeavingKnown
  <2>2. t \in Cells /\ n \in Rntis /\ n <= lastRnti[t] /\ n <= lastRnti'[t]
    BY <1>1, <2>1, HandedOutKept DEF HandedOut
  <2>3. ctx'[t][n].state = "HANDOVER_JOINING" => IsJoining(t, n)
    BY <1>1, <2>2, JoiningBefore
  <2> QED
    BY <1>1, <2>1, <2>2, <2>3, ArrivesStill
<1>4. CASE Acked(t, n) /\ HeadIsNext("HandoverCommand", t, n)
  <2>1. HandedOut(t, n)
    BY <1>4, OthersType DEF Acked, Whereabouts, AcksFresh, Unreached, HandedOut, X2Known
  <2> QED
    BY <1>1, <1>4, <2>1, HandedOutKept DEF ArrivesAtNext
<1> QED
  BY <1>2, <1>3, <1>4

\* Every action keeps CancelsKnown.
LEMMA CancelsKnownNext ==
  ASSUME TypeInv, Bookkeeping, Exchange, Whereabouts, LeavingKnown, CancelsKnown, [Next]_vars
  PROVE  CancelsKnown'
<1> SUFFICES ASSUME NEW i \in 1..Len(x2'), x2'[i].type = "HandoverCancel",
                    NEW t, t = x2'[i].target, NEW n, n = x2'[i].newRnti
             PROVE  /\ t \in Cells /\ n \in Rntis /\ n <= lastRnti'[t]
                    /\ ctx'[t][n].state = "HANDOVER_JOINING" =>
                          /\ ArrivesAtNext(t, n) /\ rrc' # <<>>
                          /\ Head(rrc').type \in {"Release", "ContextRemove"}
  BY DEF CancelsKnown, HandedOut, IsJoining, ArrivesAt, ArrivesAtNext, UeAt, HeadIs,
         HeadIsNext, Received
<1>1. /\ ContextSteps /\ RntisGrow /\ UeSteps /\ MessageSteps
      /\ Heading /\ MaxRnti \in Nat
  BY ContextsNext, RntisNext, UeStepsNext, MessagesNext, Numbers DEF Whereabouts
<1>2. NewMessage(x2'[i]) \/ \E k \in 1..Len(x2) : SameButTime(x2'[i], x2[k])
  BY <1>1, MessageOrigin
<1>3. CASE NewMessage(x2'[i])
  <2>1. PICK c \in Cells, r \in Rntis :
           /\ ctx[c][r].state = "HANDOVER_LEAVING"
           /\ ctx[c][r].peer = t /\ ctx[c][r].peerRnti = n
    BY <1>3 DEF NewMessage
  <2>2. /\ rrc = <<>> /\ UNCHANGED ue
        /\ rrc' # <<>> /\ Head(rrc').type = "Release"
    BY <1>3 DEF NewMessage
  <2>3. HandedOut(t, n) /\ (IsJoining(t, n) => ArrivesAt(t, n))
    BY <2>1 DEF LeavingKnown
  <2>4. t \in Cells /\ n \in Rntis /\ n <= lastRnti[t] /\ n <= lastRnti'[t]
    BY <1>1, <2>3, HandedOutKept DEF HandedOut
  <2>5. ctx'[t][n].state = "HANDOVER_JOINING" => IsJoining(t, n)
    BY <1>1, <2>4, JoiningBefore
  <2> QED
    BY <2>2, <2>3, <2>4, <2>5 DEF ArrivesAt, ArrivesAtNext, HeadIs, Received, UeAt
<1>4. ASSUME NEW k \in 1..Len(x2), SameButTime(x2'[i], x2[k])
      PROVE  /\ t \in Cells /\ n \in Rntis /\ n <= lastRnti'[t]
             /\ ctx'[t][n].state = "HANDOVER_JOINING" =>
                   /\ ArrivesAtNext(t, n) /\ rrc' # <<>>
                   /\ Head(rrc').type \in {"Release", "ContextRemove"}
  <2>1. /\ HandedOut(t, n)
        /\ IsJoining(t, n) =>
              ArrivesAt(t, n) /\ (Received("Release") \/ Received("ContextRemove"))
    BY <1>4 DEF CancelsKnown, SameButTime, SameMessage
  <2>2. t \in Cells /\ n \in Rntis /\ n <= lastRnti[t] /\ n <= lastRnti'[t]
    BY <1>1, <2>1, HandedOutKept DEF HandedOut
  <2>3. ctx'[t][n].state = "HANDOVER_JOINING" => IsJoining(t, n)
    BY <1>1, <2>2, JoiningBefore
  <2> QED
    BY <1>1, <2>1, <2>2, <2>3, ArrivesStill
<1> QED
  BY <1>2, <1>3, <1>4

-----------------------------------------------------------------------------

\* A context in a state with a timeout runs its timer.
Timed(k) == \A t \in Timers : k.state = Awaits(t) => k.timers[t] # Off

\* A step that touches no context leaves every context timed.
LEMMA LingersUntouched ==
  ASSUME NoContextLingers, UNCHANGED network
  PROVE  NoContextLingers'
BY DEF NoContextLingers, network

\* A context is replaced by one that is timed.
LEMMA LingersSet ==
  ASSUME TypeInv, NoContextLingers, NEW c, NEW r, NEW k, SetContext(c, r, k), Timed(k)
  PROVE  NoContextLingers'
BY SetShape DEF NoContextLingers, Timed

\* A context is added that is timed.
LEMMA LingersAdd ==
  ASSUME TypeInv, Bookkeeping, NoContextLingers, NEW c \in Cells, ~Full(c), NEW k, AddUe(c, k),
         Timed(k)
  PROVE  NoContextLingers'
BY AddShape DEF NoContextLingers, Timed

\* A removed context waits for nothing.
LEMMA LingersRemove ==
  ASSUME TypeInv, NoContextLingers, NEW c, NEW r, RemoveUe(c, r)
  PROVE  NoContextLingers'
BY LingersSet DEF RemoveUe, Absent, Timed, Awaits, Timers

\* A context without a timeout is timed.
LEMMA UntimedTimed ==
  ASSUME NEW k, k.state \notin {Awaits(t) : t \in Timers}
  PROVE  Timed(k)
BY DEF Timed

\* The timer of a state is started with the state.
LEMMA StartTimed ==
  ASSUME NEW c \in Cells, NEW timer \in Timers, NEW k \in Contexts
  PROVE  Timed(Start(c, timer, [k EXCEPT !.state = Awaits(timer)]))
<1> DEFINE l == Start(c, timer, [k EXCEPT !.state = Awaits(timer)])
<1>1. l.state = Awaits(timer) /\ l.timers[timer] # Off
  BY DurationType DEF Start, Contexts, Off
<1>2. \A t \in Timers : Awaits(t) = Awaits(timer) => t = timer
  BY DEF Awaits, Timers
<1> QED
  BY <1>1, <1>2 DEF Timed

\* A new context is timed.
LEMMA NewTimed ==
  ASSUME NEW c \in Cells, NEW timer \in Timers, NEW p, NEW r
  PROVE  Timed(NewContext(c, Awaits(timer), p, r, timer))
<1> DEFINE l == NewContext(c, Awaits(timer), p, r, timer)
<1>1. l.state = Awaits(timer) /\ l.timers[timer] # Off
  BY DurationType DEF NewContext, Start, Absent, Off
<1>2. \A t \in Timers : Awaits(t) = Awaits(timer) => t = timer
  BY DEF Awaits, Timers
<1> QED
  BY <1>1, <1>2 DEF Timed

\* UeStep leaves no context without its timer.
LEMMA UeStepLingers ==
  ASSUME TypeInv, Bookkeeping, NoContextLingers, UeStep
  PROVE  NoContextLingers'
<1>1. CASE ReceivePreamble
  <2> DEFINE k == NewContext(ue.cell, "INITIAL_RANDOM_ACCESS", NoCell, 0, "request")
  <2>1. ue.cell \in Cells
    BY <1>1 DEF TypeInv, ReceivePreamble, AccessesRandomly, UesInCells
  <2>2. Awaits("request") = "INITIAL_RANDOM_ACCESS" /\ "request" \in Timers
    BY DEF Awaits, Timers
  <2>3. Timed(k)
    BY <2>1, <2>2, NewTimed
  <2>4. UNCHANGED network \/ (~Full(ue.cell) /\ AddUe(ue.cell, k))
    BY <1>1 DEF ReceivePreamble
  <2> HIDE DEF k
  <2> QED
    BY <2>1, <2>3, <2>4, LingersUntouched, LingersAdd
<1> QED
  BY <1>1, LingersUntouched
     DEF UeStep, SelectCell, StartConnection, RecvRaResponse, RadioLinkFailureDetected

\* A context goes on in a state without a timeout.
LEMMA LingersSwitch ==
  ASSUME TypeInv, NoContextLingers, NEW c, NEW r, Present(c, r),
         NEW state, state \notin {Awaits(t) : t \in Timers}, SwitchToState(c, r, state)
  PROVE  NoContextLingers'
<1> DEFINE k == [ctx[c][r] EXCEPT !.state = state]
<1>1. SetContext(c, r, k) /\ k.state = state
  BY PresentType DEF SwitchToState, TimedContexts, Contexts
<1> HIDE DEF k
<1> QED
  BY <1>1, UntimedTimed, LingersSet

\* S1Step leaves no context without its timer.
LEMMA S1StepLingers ==
  ASSUME TypeInv, NoContextLingers, S1Step
  PROVE  NoContextLingers'
<1>1. "CONNECTION_RECONFIGURATION" \notin {Awaits(t) : t \in Timers}
  BY DEF Awaits, Timers
<1> QED
  BY <1>1, LingersSwitch, LingersUntouched
     DEF S1Step, InitialContextSetupRequest, PathSwitchRequestAcknowledge, Stop

\* RrcStep leaves no context without its timer.
LEMMA RrcStepLingers ==
  ASSUME TypeInv, NoContextLingers, RrcStep
  PROVE  NoContextLingers'
<1> DEFINE c == Head(rrc).cell
           r == Head(rrc).rnti
<1>1. CASE RecvRrcConnectionRequest
  <2>1. ASSUME Present(c, r), NEW timer \in {"setup", "rejected"},
               Answer(c, r, Awaits(timer), timer)
        PROVE  NoContextLingers'
    <3> DEFINE k == [Cancel("request", ctx[c][r]) EXCEPT !.state = Awaits(timer)]
               l == Start(c, timer, Cancel("request", [ctx[c][r] EXCEPT !.state = Awaits(timer)]))
    <3>1. /\ ctx[c][r] \in Contexts /\ c \in Cells /\ timer \in Timers
          /\ Awaits(timer) \in ContextStates
      BY <2>1, PresentType DEF TimedContexts, Timers, Awaits, ContextStates
    <3>2. Cancel("request", ctx[c][r]) \in Contexts
      BY <3>1 DEF Cancel, Contexts
    <3>3. k = Cancel("request", [ctx[c][r] EXCEPT !.state = Awaits(timer)])
      BY <3>1 DEF Cancel, Contexts
    <3>4. Timed(l)
      BY <3>1, <3>2, <3>3, StartTimed
    <3>5. SetContext(c, r, l)
      BY <2>1 DEF Answer
    <3> HIDE DEF l, c, r
    <3> QED
      BY <3>4, <3>5, LingersSet
  <2>2. Awaits("setup") = "CONNECTION_SETUP" /\ Awaits("rejected") = "CONNECTION_REJECTED"
    BY DEF Awaits
  <2> QED
    BY <1>1, <2>1, <2>2, LingersUntouched DEF RecvRrcConnectionRequest, Stop
<1>2. ASSUME Present(c, r), NEW timer,
             NEW state \in {"ATTACH_REQUEST", "HANDOVER_PATH_SWITCH"},
             SetContext(c, r, Cancel(timer, [ctx[c][r] EXCEPT !.state = state]))
      PROVE  NoContextLingers'
  <2> DEFINE k == Cancel(timer, [ctx[c][r] EXCEPT !.state = state])
  <2>1. k.state = state
    BY <1>2, PresentType DEF TimedContexts, Contexts, Cancel
  <2>2. k.state \notin {Awaits(t) : t \in Timers}
    BY <2>1 DEF Awaits, Timers
  <2> HIDE DEF k
  <2> QED
    BY <1>2, <2>2, UntimedTimed, LingersSet DEF k
<1>3. CASE RecvRrcConnectionSetupCompleted
  BY <1>2, <1>3, LingersUntouched DEF RecvRrcConnectionSetupCompleted, Stop
<1>4. CASE RecvRrcConnectionReconfigurationCompleted
  <2>1. "CONNECTED_NORMALLY" \notin {Awaits(t) : t \in Timers}
    BY DEF Awaits, Timers
  <2> QED
    BY <1>2, <1>4, <2>1, LingersUntouched, LingersSwitch
       DEF RecvRrcConnectionReconfigurationCompleted, Stop
<1>5. CASE RecvIdealUeContextRemoveRequest
  BY <1>5, LingersRemove, LingersUntouched DEF RecvIdealUeContextRemoveRequest
<1>6. CASE \/ RecvRrcConnectionSetup \/ RecvRrcConnectionReject
           \/ RecvRrcConnectionReconfiguration \/ RecvHandoverCommand
           \/ RecvRrcConnectionRelease
  BY <1>6, LingersUntouched
     DEF RecvRrcConnectionSetup, RecvRrcConnectionReject, RecvRrcConnectionReconfiguration,
         RecvHandoverCommand, RecvRrcConnectionRelease, Stop
<1> QED
  BY <1>1, <1>3, <1>4, <1>5, <1>6 DEF RrcStep

\* X2Step leaves no context without its timer: a cancellation, which takes the timer of a
\* joining context away, finds none.
LEMMA X2StepLingers ==
  ASSUME TypeInv, Bookkeeping, CancelsKnown, NoContextLingers, X2Step
  PROVE  NoContextLingers'
<1> SUFFICES ASSUME NEW i \in 1..Len(x2),
                    \/ RecvHandoverRequest(i)
                    \/ RecvHandoverRequestAck(i)
                    \/ RecvHandoverPreparationFailure(i)
                    \/ RecvUeContextRelease(i)
                    \/ RecvHandoverCancel(i)
                    \/ RecvUeData(i)
             PROVE  NoContextLingers'
  BY DEF X2Step
<1> DEFINE c == x2[i].source
           r == x2[i].oldRnti
           t == x2[i].target
           n == x2[i].newRnti
<1>1. CASE RecvHandoverRequest(i)
  <2> DEFINE k == NewContext(t, "HANDOVER_JOINING", c, r, "joining")
  <2>1. t \in Cells
    BY <1>1, OthersType DEF RecvHandoverRequest, Due, X2Known
  <2>2. Awaits("joining") = "HANDOVER_JOINING" /\ "joining" \in Timers
    BY DEF Awaits, Timers
  <2>3. Timed(k) /\ Timed(Absent)
    BY <2>1, <2>2, NewTimed, UntimedTimed DEF Absent, Awaits, Timers
  <2>4. \/ UNCHANGED network
        \/ ~Full(t) /\ AddUe(t, Absent)
        \/ ~Full(t) /\ AddUe(t, k)
    BY <1>1 DEF RecvHandoverRequest
  <2> HIDE DEF k, t
  <2> QED
    BY <2>1, <2>3, <2>4, LingersUntouched, LingersAdd
<1>2. CASE RecvHandoverRequestAck(i)
  <2>1. CASE Stop("RecvHandoverRequestAck")
    BY <2>1, LingersUntouched DEF Stop
  <2> DEFINE j == [ctx[c][r] EXCEPT !.peer = t, !.peerRnti = n]
             k == Start(c, "leaving", [ctx[c][r] EXCEPT !.state = "HANDOVER_LEAVING",
                                       !.peer = t, !.peerRnti = n])
  <2>2. CASE Present(c, r) /\ SetContext(c, r, k)
    <3>1. /\ ctx[c][r] \in Contexts /\ c \in Cells /\ "leaving" \in Timers
          /\ t \in CellOrNone /\ n \in RntiOrNone /\ Awaits("leaving") = "HANDOVER_LEAVING"
      BY <2>2, PresentType, OthersType
         DEF TimedContexts, Timers, Awaits, X2Known, X2Messages
    <3>2. j \in Contexts
      BY <3>1 DEF Contexts
    <3>3. [j EXCEPT !.state = "HANDOVER_LEAVING"]
            = [ctx[c][r] EXCEPT !.state = "HANDOVER_LEAVING", !.peer = t, !.peerRnti = n]
      BY <3>1 DEF Contexts
    <3>4. Timed(k)
      BY <3>1, <3>2, <3>3, StartTimed
    <3> HIDE DEF k
    <3> QED
      BY <2>2, <3>4, LingersSet
  <2> QED
    BY <1>2, <2>1, <2>2 DEF RecvHandoverRequestAck
<1>3. CASE RecvHandoverPreparationFailure(i)
  <2>1. "CONNECTED_NORMALLY" \notin {Awaits(timer) : timer \in Timers}
    BY DEF Awaits, Timers
  <2> QED
    BY <1>3, <2>1, LingersSwitch, LingersRemove, LingersUntouched
       DEF RecvHandoverPreparationFailure, ReleaseConnection, Stop
<1>4. CASE RecvUeContextRelease(i)
  BY <1>4, LingersRemove, LingersUntouched DEF RecvUeContextRelease, Stop
<1>5. CASE RecvHandoverCancel(i)
  <2>1. ~IsJoining(t, n)
    BY <1>5, Idle DEF RecvHandoverCancel, Due, CancelsKnown
  <2> QED
    BY <1>5, <2>1, LingersUntouched DEF RecvHandoverCancel, Stop, IsJoining
<1>6. CASE RecvUeData(i)
  BY <1>6, LingersUntouched DEF RecvUeData, Stop
<1> QED
  BY <1>1, <1>2, <1>3, <1>4, <1>5, <1>6

\* TimeoutStep and SourceStep leave no context without its timer.
LEMMA TimeoutLingers ==
  ASSUME TypeInv, NoContextLingers, TimeoutStep
  PROVE  NoContextLingers'
BY LingersRemove, LingersUntouched
   DEF TimeoutStep, ConnectionTimeout, HandoverJoiningTimeout, HandoverLeavingTimeout,
       ReleaseConnection, Stop

\* A source that prepares a handover waits without a timer, as the code does.
LEMMA SourceLingers ==
  ASSUME TypeInv, NoContextLingers, SourceStep
  PROVE  NoContextLingers'
<1>1. ASSUME NEW c \in Cells, NEW r \in Rntis, NEW target \in Cells,
             TriggerHandover(c, r, target)
      PROVE  NoContextLingers'
  <2> DEFINE k == [ctx[c][r] EXCEPT !.state = "HANDOVER_PREPARATION",
                                    !.peer = target, !.peerRnti = 0]
  <2>1. SetContext(c, r, k) /\ Present(c, r)
    BY <1>1 DEF TriggerHandover, PrepareHandover, Present
  <2>2. k.state = "HANDOVER_PREPARATION"
    BY <2>1, PresentType DEF TimedContexts, Contexts
  <2> HIDE DEF k
  <2>3. Timed(k)
    BY <2>2, UntimedTimed DEF Awaits, Timers
  <2> QED
    BY <2>1, <2>3, LingersSet
<1> QED
  BY <1>1, LingersUntouched DEF SourceStep, ForwardData

\* Time does not turn a timer off.
LEMMA TickLingers ==
  ASSUME TypeInv, NoContextLingers, Tick
  PROVE  NoContextLingers'
<1> SUFFICES ASSUME NEW c \in Cells, NEW r \in Rntis, NEW t \in Timers,
                    ctx'[c][r].state = Awaits(t)
             PROVE  ctx'[c][r].timers[t] # Off
  BY DEF NoContextLingers
<1>1. /\ ctx[c][r].state = Awaits(t)
      /\ ctx'[c][r].timers[t] = Minus1(ctx[c][r].timers[t])
  BY TickContext
<1>2. ctx[c][r].timers[t] \in Nat
  BY <1>1 DEF TypeInv, TimedContexts, Contexts, NoContextLingers
<1> QED
  BY <1>1, <1>2 DEF Minus1, Off

\* Every step leaves every waiting context its timer.
LEMMA LingersNext ==
  ASSUME TypeInv, Bookkeeping, CancelsKnown, NoContextLingers, [Next]_vars
  PROVE  NoContextLingers'
<1>1. CASE RandomAccessFailed \/ Stopped \/ UNCHANGED vars
  BY <1>1, LingersUntouched DEF RandomAccessFailed, Stopped, vars, network
<1> QED
  BY <1>1, UeStepLingers, SourceLingers, RrcStepLingers, X2StepLingers, S1StepLingers,
     TimeoutLingers, TickLingers DEF Next, Scheduled

-----------------------------------------------------------------------------

\* Nobody is served, leaves or lingers at first.
LEMMA PlacesInit ==
  ASSUME Init
  PROVE  Served /\ LeavingKnown /\ CancelsKnown /\ NoContextLingers
<1>1. Len(x2) = 0
  BY EmptySeq DEF Init
<1>2. \A c \in Cells, r \in Rntis : ctx[c][r].state = "ABSENT"
  BY DEF Init, Absent
<1>3. Served /\ LeavingKnown /\ CancelsKnown
  BY <1>1, <1>2 DEF Init, Served, LeavingKnown, CancelsKnown
<1>4. NoContextLingers
  BY <1>2 DEF NoContextLingers, Awaits, Timers
<1> QED
  BY <1>3, <1>4

\* Where everyone is, on top of the invariant of the messages.
Places == Whereabouts /\ Served /\ LeavingKnown /\ CancelsKnown /\ NoContextLingers

\* The inductive invariant.
PlacesInv == IInv /\ Places

\* The inductive invariant holds.
LEMMA PlacesHold == Spec => []PlacesInv
<1>1. Init => PlacesInv
  BY TypeInit, BookkeepingInit, ExchangeInit, WhereaboutsInit, PlacesInit
     DEF PlacesInv, Places, IInv
<1>2. PlacesInv /\ [Next]_vars => PlacesInv'
  BY TypeNext, BookkeepingNext, ExchangeNext, WhereaboutsNext, ServedNext, LeavingKnownNext,
     CancelsKnownNext, LingersNext DEF PlacesInv, Places, IInv
<1> QED
  BY <1>1, <1>2, PTL DEF Spec

\* A connected UE with no message under way has a context at its cell that serves
\* it, and the core sends its traffic there: no order of handovers, late X2
\* messages, timeouts and failures leaves a UE whose RRC says CONNECTED_NORMALLY
\* without an eNB behind it.
THEOREM ConnectedIsServed == Spec => []UeServed
<1>1. ASSUME TypeInv, Served PROVE UeServed
  <2> SUFFICES ASSUME Running, ue.state = "CONNECTED_NORMALLY"
               PROVE  /\ Present(ue.cell, ue.rnti) /\ Serves(ue.cell, ue.rnti)
                      /\ mmeCell = ue.cell /\ imsiRnti[ue.cell] = ue.rnti
    BY DEF UeServed
  <2>1. /\ ue.rnti \in Rntis /\ Serves(ue.cell, ue.rnti) /\ CoreAgrees
    BY <1>1 DEF Served, Running
  <2>2. ue.cell \in Cells
    BY <1>1, UeType
  <2> QED
    BY <2>1, <2>2 DEF CoreAgrees, Present, Serves, ServingStates
<1>2. PlacesInv => UeServed
  BY <1>1 DEF PlacesInv, Places, IInv
<1> QED
  BY <1>2, PlacesHold, PTL

\* A context that waits for its UE or for the other eNB runs the timeout of its
\* state, whatever messages come late: no UeManager stays for good in a state that
\* only a message it never gets would end. A HANDOVER CANCEL that comes to a
\* context still joining would turn its timer off; the proof is that such a context
\* is gone before the message arrives.
THEOREM WaitingIsTimed == Spec => []NoContextLingers
<1>1. PlacesInv => NoContextLingers
  BY DEF PlacesInv, Places
<1> QED
  BY <1>1, PlacesHold, PTL

-----------------------------------------------------------------------------

\* The UE is on its way to one target at most, and is not served meanwhile.
LEMMA OneTarget ==
  ASSUME TypeInv, Exchange, LeavingKnown, NEW p \in Joining
  PROVE  Serving = {} /\ \A q \in Joining : q = p
<1>1. ASSUME NEW q \in Joining
      PROVE  q = <<q[1], q[2]>> /\ q[1] \in Cells /\ q[2] \in Rntis /\ ArrivesAt(q[1], q[2])
             /\ IsJoining(q[1], q[2])
  <2>1. PICK s \in Pairs : /\ ctx[s[1]][s[2]].state = "HANDOVER_LEAVING"
                           /\ ctx[s[1]][s[2]].peer = q[1]
                           /\ ctx[s[1]][s[2]].peerRnti = q[2]
    BY <1>1 DEF Joining
  <2>2. q \in Pairs /\ ctx[q[1]][q[2]].state = "HANDOVER_JOINING"
    BY <1>1 DEF Joining
  <2>3. s[1] \in Cells /\ s[2] \in Rntis
    BY <2>1 DEF Pairs
  <2> QED
    BY <2>1, <2>2, <2>3 DEF Pairs, LeavingKnown, IsJoining
<1>2. Serving = {}
  <2> SUFFICES ASSUME NEW s \in Serving PROVE FALSE
    OBVIOUS
  <2>1. s[1] \in Cells /\ s[2] \in Rntis /\ Serves(s[1], s[2])
    BY DEF Serving, Pairs
  <2>2. ArrivesAt(p[1], p[2]) /\ IsJoining(p[1], p[2])
    BY <1>1
  <2>3. p[1] # s[1] \/ p[2] # s[2]
    BY <2>1, <2>2 DEF IsJoining, Serves, ServingStates
  <2> QED
    BY <2>1, <2>2, <2>3, HeadAgrees
       DEF ArrivesAt, Exchange, NobodyServed, ServedWhereItIs, UeAt, HeadIs, Received
<1>3. \A q \in Joining : q[1] = p[1] /\ q[2] = p[2]
  BY <1>1, HeadAgrees DEF ArrivesAt, UeAt, HeadIs, Received
<1> QED
  BY <1>1, <1>2, <1>3

\* The UE is served in one place at most.
LEMMA OneServer ==
  ASSUME Exchange, NEW p \in Serving
  PROVE  \A q \in Serving : q = p
<1>1. OneServing
  <2>1. Received("ContextRemove") => ue.state = "IDLE_CELL_SEARCH"
    BY HeadAgrees
  <2> QED
    BY <2>1 DEF Exchange, ServedWhereItIs, OneServing, UeAt
<1> QED
  BY <1>1 DEF Serving, Pairs, OneServing

\* A context that starts to serve was fresh, and the message that makes it serve is
\* from its UE.
LEMMA StartsServing ==
  ASSUME ContextSteps, NEW c \in Cells, NEW r \in Rntis,
         ctx'[c][r].state \in ServingStates, ~Serves(c, r)
  PROVE  \/ ctx[c][r].state = "CONNECTION_SETUP" /\ HeadIs("SetupCompleted", c, r)
         \/ IsJoining(c, r) /\ HeadIs("ReconfigurationCompleted", c, r)
<1>1. ContextStep(c, r)
  BY DEF ContextSteps
<1> QED
  BY <1>1 DEF ContextStep, ServingStates, FreshStates, Serves, IsJoining

\* A handover that is under way after a step was so before, or its source has just let
\* go of the UE it served, for a target where nobody has been.
LEMMA StartsMoving ==
  ASSUME TypeInv, Bookkeeping, Whereabouts, LeavingKnown, ContextSteps, RntisGrow,
         NEW q \in Joining'
  PROVE  /\ q \in Pairs /\ IsJoining(q[1], q[2])
         /\ q \in Joining \/ Serving # {}
<1>1. /\ q \in Pairs /\ q[1] \in Cells /\ q[2] \in Rntis
      /\ ctx'[q[1]][q[2]].state = "HANDOVER_JOINING"
  BY DEF Joining, Pairs
<1>2. PICK s \in Pairs : /\ ctx'[s[1]][s[2]].state = "HANDOVER_LEAVING"
                         /\ ctx'[s[1]][s[2]].peer = q[1]
                         /\ ctx'[s[1]][s[2]].peerRnti = q[2]
  BY DEF Joining, Pairs
<1>3. s[1] \in Cells /\ s[2] \in Rntis
  BY <1>2 DEF Pairs
<1>4. \/ /\ ctx[s[1]][s[2]].state = "HANDOVER_LEAVING"
         /\ ctx[s[1]][s[2]].peer = q[1] /\ ctx[s[1]][s[2]].peerRnti = q[2]
      \/ Acked(q[1], q[2]) /\ ctx[s[1]][s[2]].state = "HANDOVER_PREPARATION"
  <2>1. ContextStep(s[1], s[2])
    BY <1>3 DEF ContextSteps
  <2> QED
    BY <1>2, <2>1 DEF ContextStep, FreshStates, ServingStates
<1>5. q[2] <= lastRnti[q[1]]
  <2>1. CASE /\ ctx[s[1]][s[2]].state = "HANDOVER_LEAVING"
             /\ ctx[s[1]][s[2]].peer = q[1] /\ ctx[s[1]][s[2]].peerRnti = q[2]
    BY <1>3, <2>1 DEF LeavingKnown, HandedOut
  <2>2. CASE Acked(q[1], q[2])
    BY <2>2 DEF Acked, Whereabouts, AcksFresh, Unreached
  <2> QED
    BY <1>4, <2>1, <2>2
<1>6. IsJoining(q[1], q[2])
  BY <1>1, <1>5, JoiningBefore
<1>7. \/ q \in Joining
      \/ s \in Serving
  BY <1>1, <1>2, <1>4, <1>6 DEF Joining, IsJoining, Serving, Serves, ServingStates
<1> QED
  BY <1>1, <1>6, <1>7

\* What has served or will not serve stays so, and what serves counts as such.
LEMMA SpentGrows ==
  ASSUME TypeInv, ContextSteps, RntisGrow, ContextsNumbered'
  PROVE  Spent \subseteq Spent' /\ Serving' \subseteq Spent'
<1>1. ASSUME NEW p \in Spent PROVE p \in Spent'
  <2>1. /\ p \in Pairs /\ p[1] \in Cells /\ p[2] \in Rntis /\ p[2] <= lastRnti[p[1]]
        /\ ctx[p[1]][p[2]].state \notin
              {"INITIAL_RANDOM_ACCESS", "CONNECTION_SETUP", "HANDOVER_JOINING"}
    BY DEF Spent, Pairs
  <2>2. /\ lastRnti[p[1]] \in Nat /\ lastRnti'[p[1]] \in Nat
        /\ lastRnti[p[1]] <= lastRnti'[p[1]] /\ p[2] \in Nat
    BY <2>1, Numbers DEF RntisGrow, Rntis
  <2>3. ContextStep(p[1], p[2]) /\ p[2] <= lastRnti'[p[1]] /\ ~(p[2] > lastRnti[p[1]])
    BY <2>1, <2>2 DEF ContextSteps
  <2>4. ctx'[p[1]][p[2]].state \notin
              {"INITIAL_RANDOM_ACCESS", "CONNECTION_SETUP", "HANDOVER_JOINING"}
    BY <2>1, <2>3 DEF ContextStep, ServingStates
  <2> QED
    BY <2>1, <2>3, <2>4 DEF Spent, Pairs
<1>2. ASSUME NEW p \in Serving' PROVE p \in Spent'
  BY <1>2 DEF Serving, Spent, Pairs, Serves, ServingStates, ContextsNumbered
<1> QED
  BY <1>1, <1>2

\* No pair is the pair that stands for none.
LEMMA NoPairIsNone == NoPair \notin Pairs
BY LteHandoverAssumption DEF LteHandoverAssumption, NoPair, Pairs, NoCell

\* The UE is served in one place, or on its way to one target, or neither.
OnePlace ==
    /\ \A p, q \in Serving : p = q
    /\ \A p, q \in Joining : p = q
    /\ Serving = {} \/ Joining = {}

\* OnePlace follows from the inductive invariant.
LEMMA PlacesOne == ASSUME PlacesInv PROVE OnePlace
<1>1. TypeInv /\ Exchange /\ LeavingKnown
  BY DEF PlacesInv, Places, IInv
<1> QED
  BY <1>1, OneTarget, OneServer DEF OnePlace

\* A UE that has come to the context that serves it next was on its way there, if it was
\* on its way at all.
LEMMA ArrivesThere ==
  ASSUME TypeInv, Exchange, LeavingKnown, ContextSteps, NEW p \in Serving', p \notin Serving,
         NEW q \in Joining
  PROVE  p = q
<1>1. /\ p \in Pairs /\ p[1] \in Cells /\ p[2] \in Rntis
      /\ ctx'[p[1]][p[2]].state \in ServingStates /\ ~Serves(p[1], p[2])
  BY DEF Serving, Pairs, Serves
<1>2. HeadIs("SetupCompleted", p[1], p[2]) \/ HeadIs("ReconfigurationCompleted", p[1], p[2])
  BY <1>1, StartsServing
<1>3. q \in Pairs /\ ArrivesAt(q[1], q[2])
  <2>1. PICK s \in Pairs : /\ ctx[s[1]][s[2]].state = "HANDOVER_LEAVING"
                           /\ ctx[s[1]][s[2]].peer = q[1]
                           /\ ctx[s[1]][s[2]].peerRnti = q[2]
    BY DEF Joining
  <2>2. q \in Pairs /\ ctx[q[1]][q[2]].state = "HANDOVER_JOINING"
    BY DEF Joining
  <2>3. s[1] \in Cells /\ s[2] \in Rntis
    BY <2>1 DEF Pairs
  <2> QED
    BY <2>1, <2>2, <2>3 DEF LeavingKnown, IsJoining
<1>4. p[1] = q[1] /\ p[2] = q[2]
  BY <1>2, <1>3, HeadAgrees DEF ArrivesAt, HeadIs, Received
<1> QED
  BY <1>1, <1>3, <1>4 DEF Pairs

\* Nobody else serves a UE that has come to the context that serves it next.
LEMMA ArrivesUnserved ==
  ASSUME TypeInv, Exchange, ContextSteps, NEW p \in Serving', p \notin Serving
  PROVE  Serving = {} /\ p \in Pairs \ Spent
<1>1. /\ p \in Pairs /\ p[1] \in Cells /\ p[2] \in Rntis
      /\ ctx'[p[1]][p[2]].state \in ServingStates /\ ~Serves(p[1], p[2])
  BY DEF Serving, Pairs, Serves
<1>2. /\ ctx[p[1]][p[2]].state \in {"CONNECTION_SETUP", "HANDOVER_JOINING"}
      /\ HeadIs("SetupCompleted", p[1], p[2]) \/ HeadIs("ReconfigurationCompleted", p[1], p[2])
  BY <1>1, StartsServing DEF IsJoining
<1>3. ASSUME NEW s \in Serving PROVE FALSE
  <2>1. s \in Pairs /\ s[1] \in Cells /\ s[2] \in Rntis /\ Serves(s[1], s[2])
    BY DEF Serving, Pairs
  <2>2. ue.cell = s[1] /\ ue.rnti = s[2]
    BY <1>2, <2>1, ServedHere DEF HeadIs, Received
  <2>3. s[1] = p[1] /\ s[2] = p[2]
    BY <1>2, <2>2, HeadAgrees
  <2> QED
    BY <1>1, <2>1, <2>3
<1> QED
  BY <1>1, <1>2, <1>3 DEF Spent

\* Every step of the network is a step of the service.
LEMMA ServiceNext ==
  ASSUME PlacesInv, OnePlace, OnePlace', ContextsNumbered', [Next]_vars
  PROVE  Service!Next
<1>1. /\ TypeInv /\ Bookkeeping /\ Exchange /\ Whereabouts /\ LeavingKnown
      /\ ContextSteps /\ RntisGrow
  BY ContextsNext, RntisNext DEF PlacesInv, Places, IInv
<1>2. Spent \subseteq Spent' /\ Serving' \subseteq Spent'
  BY <1>1, SpentGrows
<1>3. AnyOf(Serving)' # NoPair => AnyOf(Serving)' \in Spent'
  BY <1>2 DEF AnyOf
<1>4. \/ Service!Attach \/ Service!Command \/ Service!Complete \/ Service!Lose
      \/ Service!Keep
  <2>1. CASE AnyOf(Serving)' = NoPair /\ AnyOf(Joining)' = NoPair
    BY <2>1 DEF Service!Lose, Service!Keep
  <2>2. CASE stopped' = "none" /\ Serving' # {}
    <3>1. stopped = "none"
      BY <2>2, StoppedStays
    <3>2. PICK p : p \in Serving'
      BY <2>2
    <3>3. AnyOf(Serving)' = p /\ AnyOf(Joining)' = NoPair
      BY <2>2, <3>2 DEF OnePlace, AnyOf
    <3>4. CASE p \in Serving
      <4>1. AnyOf(Serving) = p /\ AnyOf(Joining) = NoPair
        BY <3>1, <3>4 DEF OnePlace, AnyOf
      <4> QED
        BY <3>3, <4>1 DEF Service!Keep
    <3>5. CASE p \notin Serving /\ Joining = {}
      <4>1. AnyOf(Serving) = NoPair /\ AnyOf(Joining) = NoPair /\ p \in Pairs \ Spent
        BY <1>1, <3>2, <3>5, ArrivesUnserved DEF AnyOf
      <4> QED
        BY <3>3, <4>1 DEF Service!Attach
    <3>6. CASE p \notin Serving /\ Joining # {}
      <4>1. p \in Joining
        BY <1>1, <3>2, <3>6, ArrivesThere
      <4>2. AnyOf(Joining) = p /\ p \in Pairs
        BY <3>1, <4>1 DEF OnePlace, AnyOf, Joining
      <4> QED
        BY <3>3, <4>2, NoPairIsNone DEF Service!Complete
    <3> QED
      BY <3>4, <3>5, <3>6
  <2>3. CASE stopped' = "none" /\ Serving' = {} /\ Joining' # {}
    <3>1. stopped = "none"
      BY <2>3, StoppedStays
    <3>2. PICK q : q \in Joining'
      BY <2>3
    <3>3. AnyOf(Serving)' = NoPair /\ AnyOf(Joining)' = q
      BY <2>3, <3>2 DEF OnePlace, AnyOf
    <3>4. q \in Pairs /\ IsJoining(q[1], q[2]) /\ (q \in Joining \/ Serving # {})
      BY <1>1, <3>2, StartsMoving
    <3>5. CASE q \in Joining
      <4>1. AnyOf(Serving) = NoPair /\ AnyOf(Joining) = q
        BY <3>1, <3>5 DEF OnePlace, AnyOf
      <4> QED
        BY <3>3, <4>1 DEF Service!Keep
    <3>6. CASE Serving # {}
      <4>1. AnyOf(Serving) # NoPair
        BY <3>1, <3>6, NoPairIsNone DEF AnyOf, Serving
      <4>2. q \in Pairs \ Spent
        BY <3>4 DEF Spent, IsJoining
      <4> QED
        BY <3>3, <4>1, <4>2 DEF Service!Command
    <3> QED
      BY <3>4, <3>5, <3>6
  <2>4. stopped' # "none" \/ (Serving' = {} /\ Joining' = {})
           => AnyOf(Serving)' = NoPair /\ AnyOf(Joining)' = NoPair
    BY DEF AnyOf
  <2> QED
    BY <2>1, <2>2, <2>3, <2>4
<1> QED
  BY <1>2, <1>3, <1>4 DEF Service!Next

\* The service starts with nothing.
LEMMA ServiceInit == ASSUME Init PROVE Service!Init
<1>1. \A p \in Pairs : p[1] \in Cells /\ p[2] \in Nat \ {0}
                       /\ ctx[p[1]][p[2]].state = "ABSENT" /\ lastRnti[p[1]] = 0
  BY DEF Init, Absent, Pairs, Rntis
<1>2. Serving = {} /\ Joining = {} /\ Spent = {}
  BY <1>1 DEF Serving, Joining, Spent, Serves, ServingStates
<1> QED
  BY <1>2 DEF Service!Init, AnyOf

\* The eNBs with their UE implement the service UeService promises: the UE is
\* served by one context at a time, hands over only to the context the source sent
\* it to, and a context that has served, or was given up, never serves again. The
\* last clause of UeService!Spec, that a move ends, is left to the runs.
THEOREM ServiceKept == Spec => Service!Safety
<1>1. PlacesInv => OnePlace /\ ContextsNumbered
  BY PlacesOne DEF PlacesInv, IInv, Bookkeeping
<1>2. PlacesInv /\ OnePlace /\ OnePlace' /\ ContextsNumbered' /\ [Next]_vars => Service!Next
  BY ServiceNext
<1> QED
  BY <1>1, <1>2, PlacesHold, ServiceInit, PTL DEF Spec, Service!Safety

-----------------------------------------------------------------------------
(***************************************************************************)
(* The timers. Which handover ends by which message is settled by what is  *)
(* left of the timers of both contexts, of the link and of the access of   *)
(* the UE, and of the delays of the messages. Every step is first reduced  *)
(* to what it does to these; Timing then relates them.                     *)
(***************************************************************************)

\* A step of a simulation that goes on, other than the passing of time.
Goes == Next /\ ~Tick /\ stopped = "none" /\ stopped' = "none"

\* Any other step but the passing of time changes nothing but stopped.
LEMMA StopFreezes ==
  ASSUME [Next]_vars, ~Tick, ~Goes
  PROVE  UNCHANGED <<network, core, ue, rrc, x2>>
<1>1. CASE Stopped \/ UNCHANGED vars
  BY <1>1 DEF Stopped, vars, network, core
<1>2. CASE UeStep \/ SourceStep \/ RandomAccessFailed
  BY <1>2
     DEF Goes, Next, Scheduled, UeStep, SourceStep, RandomAccessFailed, SelectCell,
         StartConnection, ReceivePreamble,
         RecvRaResponse, RadioLinkFailureDetected, ForwardData, TriggerHandover, Running
<1>3. CASE RrcStep
  BY <1>3
     DEF Goes, Next, Scheduled, RrcStep, RecvRrcConnectionRequest, RecvRrcConnectionSetup,
         RecvRrcConnectionReject, RecvRrcConnectionSetupCompleted,
         RecvRrcConnectionReconfiguration, RecvRrcConnectionReconfigurationCompleted,
         RecvHandoverCommand, RecvRrcConnectionRelease, RecvIdealUeContextRemoveRequest, Stop
<1>4. CASE X2Step
  BY <1>4
     DEF Goes, Next, Scheduled, X2Step, RecvHandoverRequest, RecvHandoverRequestAck,
         RecvHandoverPreparationFailure, RecvUeContextRelease, RecvHandoverCancel, RecvUeData,
         Stop, Running
<1>5. CASE S1Step \/ TimeoutStep
  BY <1>5
     DEF Goes, Next, Scheduled, S1Step, InitialContextSetupRequest,
         PathSwitchRequestAcknowledge, TimeoutStep, ConnectionTimeout, HandoverJoiningTimeout,
         HandoverLeavingTimeout, Stop, Running
<1> QED
  BY <1>1, <1>2, <1>3, <1>4, <1>5 DEF Next, Scheduled

\* The UE is sent from RNTI r of cell c to where acknowledgement i offers.
Commands(i, c, r) ==
    /\ x2[i].type = "HandoverRequestAck" /\ x2[i].wait = 0
    /\ x2[i].source = c /\ x2[i].oldRnti = r
    /\ ctx[c][r].state = "HANDOVER_PREPARATION"
    /\ ctx'[c][r].state = "HANDOVER_LEAVING"
    /\ ctx'[c][r].peer = x2[i].target /\ ctx'[c][r].peerRnti = x2[i].newRnti
    /\ ctx'[c][r].timers["leaving"] = LeavingTimeout[c]
    /\ \A d \in Cells, q \in Rntis : d # c \/ q # r => ctx'[d][q] = ctx[d][q]
    /\ rrc = <<>> /\ HeadIsNext("HandoverCommand", x2[i].target, x2[i].newRnti)
    /\ x2' = Others(i) /\ UNCHANGED ue

\* Request i is accepted under RNTI r of cell c.
Accepts(i, c, r) ==
    /\ x2[i].type = "HandoverRequest" /\ x2[i].wait = 0
    /\ ctx[c][r].state = "ABSENT"
    /\ JoinsFrom(ctx'[c][r], x2[i].source, x2[i].oldRnti)
    /\ ctx'[c][r].timers["joining"] = JoiningTimeout
    /\ rrc = <<>>

\* RNTI r of cell c gives up joining and reports it.
Reports(c, r) ==
    /\ ctx[c][r].state = "HANDOVER_JOINING" /\ ctx'[c][r].state = "ABSENT"
    /\ x2' = Append(x2, PreparationFailure(c, r))
    /\ rrc = <<>> \/ HeadIs("ContextRemove", c, r)
    /\ rrc' = <<>> /\ UNCHANGED <<ue, s1>>

\* The UE has come to RNTI r of cell c, which asks for the path switch.
Switches(c, r) ==
    /\ ctx[c][r].state = "HANDOVER_JOINING" /\ ctx'[c][r].state = "HANDOVER_PATH_SWITCH"
    /\ ctx'[c][r].peer = ctx[c][r].peer /\ ctx'[c][r].peerRnti = ctx[c][r].peerRnti
    /\ HeadIs("ReconfigurationCompleted", c, r) /\ rrc' = <<>>
    /\ s1' = Append(s1, [type |-> "PathSwitch", wait |-> S1Delay])
    /\ UNCHANGED <<ue, x2>>

\* The path has been switched to RNTI r of cell c, which releases the source.
ReleasesSource(c, r) ==
    /\ ctx[c][r].state = "HANDOVER_PATH_SWITCH"
    /\ ctx'[c][r].state = "CONNECTION_RECONFIGURATION"
    /\ x2' = Append(x2, X2("ContextRelease", ctx[c][r].peer, ctx[c][r].peerRnti, c, r))

\* The states of the two contexts of a handover that has begun.
MovingStates == {"HANDOVER_JOINING", "HANDOVER_PATH_SWITCH", "HANDOVER_LEAVING"}

\* What a step does to the contexts of a handover, with their timers and all.
Exact(c, r) ==
    \/ ctx'[c][r] = ctx[c][r]
    \/ Reports(c, r) \/ Switches(c, r) \/ ReleasesSource(c, r)
    \/ \E i \in 1..Len(x2) : Accepts(i, c, r)
    \/ \E i \in 1..Len(x2) : Commands(i, c, r)
    \/ /\ ctx[c][r].state = "HANDOVER_PATH_SWITCH" /\ ctx'[c][r].state = "ABSENT"
       /\ Received("ContextRemove")
    \/ ctx[c][r].state = "HANDOVER_LEAVING" /\ ctx'[c][r].state = "ABSENT"
    \/ ctx[c][r].state \notin MovingStates /\ ctx'[c][r].state \notin MovingStates

\* Every context takes such a step.
AllExact == \A c \in Cells, r \in Rntis : Exact(c, r)

\* No context changes.
LEMMA ExactUntouched ==
  ASSUME UNCHANGED network
  PROVE  AllExact
BY DEF network, AllExact, Exact

\* One context is set.
LEMMA ExactSet ==
  ASSUME TypeInv, NEW c, NEW r, NEW k, SetContext(c, r, k),
         c \in Cells /\ r \in Rntis => Exact(c, r)
  PROVE  AllExact
<1>1. \A d \in Cells, q \in Rntis :
         ctx'[d][q] = IF d = c /\ q = r THEN k ELSE ctx[d][q]
  BY SetShape
<1> QED
  BY <1>1 DEF AllExact, Exact

\* A context that takes no part in a handover is set to another that takes none.
LEMMA ExactApart ==
  ASSUME TypeInv, NEW c, NEW r, NEW k, SetContext(c, r, k),
         c \in Cells /\ r \in Rntis => ctx[c][r].state \notin MovingStates,
         k.state \notin MovingStates
  PROVE  AllExact
<1>1. c \in Cells /\ r \in Rntis => Exact(c, r)
  BY SetAt DEF Exact
<1> QED
  BY <1>1, ExactSet

\* One context is created.
LEMMA ExactAdd ==
  ASSUME TypeInv, Bookkeeping, NEW c \in Cells, ~Full(c), NEW k, AddUe(c, k),
         Exact(c, NewRnti(c))
  PROVE  AllExact
BY AddShape DEF AllExact, Exact

\* UeStep.
LEMMA UeStepExact ==
  ASSUME TypeInv, Bookkeeping, UeStep
  PROVE  AllExact
<1>1. CASE ReceivePreamble
  <2> DEFINE k == NewContext(ue.cell, "INITIAL_RANDOM_ACCESS", NoCell, 0, "request")
  <2>1. ue.cell \in Cells
    BY <1>1 DEF TypeInv, ReceivePreamble, AccessesRandomly, UesInCells
  <2>2. k.state = "INITIAL_RANDOM_ACCESS"
    BY DEF NewContext, Start, Absent
  <2>3. UNCHANGED network \/ (~Full(ue.cell) /\ AddUe(ue.cell, k))
    BY <1>1 DEF ReceivePreamble
  <2> HIDE DEF k
  <2>4. ASSUME ~Full(ue.cell), AddUe(ue.cell, k) PROVE AllExact
    <3>1. ctx[ue.cell][NewRnti(ue.cell)].state = "ABSENT" /\ ctx'[ue.cell][NewRnti(ue.cell)] = k
      BY <2>1, <2>4, AddShape
    <3>2. Exact(ue.cell, NewRnti(ue.cell))
      BY <2>2, <3>1 DEF Exact, MovingStates
    <3> QED
      BY <2>1, <2>4, <3>2, ExactAdd
  <2> QED
    BY <2>3, <2>4, ExactUntouched
<1> QED
  BY <1>1, ExactUntouched
     DEF UeStep, SelectCell, StartConnection, RecvRaResponse, RadioLinkFailureDetected

\* S1Step.
LEMMA S1StepExact ==
  ASSUME TypeInv, S1Step
  PROVE  AllExact
<1> DEFINE r == imsiRnti[mmeCell]
           k == [ctx[mmeCell][r] EXCEPT !.state = "CONNECTION_RECONFIGURATION"]
<1>1. CASE UNCHANGED network
  BY <1>1, ExactUntouched
<1>2. CASE /\ Present(mmeCell, r)
           /\ SetContext(mmeCell, r, k)
           /\ \/ ctx[mmeCell][r].state = "ATTACH_REQUEST"
              \/ /\ ctx[mmeCell][r].state = "HANDOVER_PATH_SWITCH"
                 /\ x2' = Append(x2, X2("ContextRelease", ctx[mmeCell][r].peer,
                                      ctx[mmeCell][r].peerRnti, mmeCell, r))
  <2>1. k.state = "CONNECTION_RECONFIGURATION" /\ mmeCell \in Cells /\ r \in Rntis
    BY <1>2, PresentType DEF TimedContexts, Contexts
  <2> HIDE DEF k
  <2>2. ctx'[mmeCell][r] = k
    BY <1>2, <2>1, SetAt
  <2>3. Exact(mmeCell, r)
    BY <1>2, <2>1, <2>2 DEF Exact, ReleasesSource, MovingStates
  <2> QED
    BY <1>2, <2>3, ExactSet
<1> QED
  BY <1>1, <1>2
     DEF S1Step, InitialContextSetupRequest, PathSwitchRequestAcknowledge, SwitchToState, Stop

\* The context answers a connection request.
LEMMA RequestExact ==
  ASSUME TypeInv, RecvRrcConnectionRequest
  PROVE  AllExact
<1> DEFINE c == Head(rrc).cell
           r == Head(rrc).rnti
<1>1. CASE UNCHANGED network
  BY <1>1, ExactUntouched
<1>2. ASSUME Present(c, r), ctx[c][r].state = "INITIAL_RANDOM_ACCESS",
             NEW state \in {"CONNECTION_SETUP", "CONNECTION_REJECTED"}, NEW timer,
             Answer(c, r, state, timer)
      PROVE  AllExact
  <2> DEFINE k == Start(c, timer, Cancel("request", [ctx[c][r] EXCEPT !.state = state]))
  <2>1. SetContext(c, r, k) /\ k.state = state
    BY <1>2, PresentType DEF Answer, TimedContexts, Contexts, Start, Cancel
  <2> HIDE DEF k
  <2> QED
    BY <1>2, <2>1, ExactApart DEF MovingStates
<1> QED
  BY <1>1, <1>2 DEF RecvRrcConnectionRequest, Stop

\* The context learns that its UE did what it was told.
LEMMA CompletedExact ==
  ASSUME TypeInv, Exchange,
         RecvRrcConnectionSetupCompleted \/ RecvRrcConnectionReconfigurationCompleted
  PROVE  AllExact
<1> DEFINE c == Head(rrc).cell
           r == Head(rrc).rnti
<1>1. CASE UNCHANGED network
  BY <1>1, ExactUntouched
<1>2. ASSUME Present(c, r), NEW timer, ctx[c][r].state = "CONNECTION_SETUP",
             SetContext(c, r, Cancel(timer, [ctx[c][r] EXCEPT !.state = "ATTACH_REQUEST"]))
      PROVE  AllExact
  <2> DEFINE k == Cancel(timer, [ctx[c][r] EXCEPT !.state = "ATTACH_REQUEST"])
  <2>1. k.state = "ATTACH_REQUEST"
    BY <1>2, PresentType DEF TimedContexts, Contexts, Cancel
  <2> HIDE DEF k
  <2> QED
    BY <1>2, <2>1, ExactApart DEF k, MovingStates
<1>3. ASSUME Present(c, r), ctx[c][r].state = "CONNECTION_RECONFIGURATION",
             SwitchToState(c, r, "CONNECTED_NORMALLY")
      PROVE  AllExact
  <2> DEFINE k == [ctx[c][r] EXCEPT !.state = "CONNECTED_NORMALLY"]
  <2>1. SetContext(c, r, k) /\ k.state = "CONNECTED_NORMALLY"
    BY <1>3, PresentType DEF TimedContexts, Contexts, SwitchToState
  <2> HIDE DEF k
  <2> QED
    BY <1>3, <2>1, ExactApart DEF MovingStates
<1>4. ASSUME Present(c, r), ctx[c][r].state = "HANDOVER_JOINING",
             Received("ReconfigurationCompleted"),
             SetContext(c, r, Cancel("joining",
                                     [ctx[c][r] EXCEPT !.state = "HANDOVER_PATH_SWITCH"])),
             AskMme(c, r, "PathSwitch"), rrc' = Tail(rrc), UNCHANGED <<ue, x2>>
      PROVE  AllExact
  <2> DEFINE k == Cancel("joining", [ctx[c][r] EXCEPT !.state = "HANDOVER_PATH_SWITCH"])
  <2>1. /\ k.state = "HANDOVER_PATH_SWITCH" /\ k.peer = ctx[c][r].peer
        /\ k.peerRnti = ctx[c][r].peerRnti /\ c \in Cells /\ r \in Rntis
    BY <1>4, PresentType DEF TimedContexts, Contexts, Cancel
  <2>2. SetContext(c, r, k)
    BY <1>4
  <2>3. rrc' = <<>>
    BY <1>4, RrcTaken DEF Received
  <2> HIDE DEF k
  <2>4. ctx'[c][r] = k
    BY <2>1, <2>2, SetAt
  <2>5. Switches(c, r)
    BY <1>4, <2>1, <2>3, <2>4 DEF Switches, HeadIs, AskMme
  <2> QED
    BY <2>2, <2>5, ExactSet DEF Exact
<1>5. CASE RecvRrcConnectionSetupCompleted
  BY <1>1, <1>2, <1>5 DEF RecvRrcConnectionSetupCompleted, Stop
<1>6. CASE RecvRrcConnectionReconfigurationCompleted
  BY <1>1, <1>3, <1>4, <1>6 DEF RecvRrcConnectionReconfigurationCompleted, Stop
<1> QED
  BY <1>5, <1>6

\* The context of a UE that went idle is removed.
LEMMA RemoveExact ==
  ASSUME TypeInv, Exchange, RecvIdealUeContextRemoveRequest
  PROVE  AllExact
<1> DEFINE c == Head(rrc).cell
           r == Head(rrc).rnti
<1>1. CASE UNCHANGED network
  BY <1>1, ExactUntouched
<1>2. CASE Present(c, r) /\ RemoveUe(c, r)
  <2>1. SetContext(c, r, Absent) /\ Absent.state = "ABSENT" /\ c \in Cells /\ r \in Rntis
    BY <1>2, PresentType DEF RemoveUe, Absent
  <2>2. ctx'[c][r].state = "ABSENT"
    BY <2>1, SetAt
  <2>3. Received("ContextRemove") /\ HeadIs("ContextRemove", c, r)
    BY DEF RecvIdealUeContextRemoveRequest, HeadIs
  <2>4. /\ rrc' = <<>> /\ UNCHANGED <<ue, s1>>
        /\ ctx[c][r].state = "HANDOVER_JOINING" => x2' = Append(x2, PreparationFailure(c, r))
    BY <1>2, <2>3, RrcTaken DEF RecvIdealUeContextRemoveRequest, core, Received
  <2>5. Exact(c, r)
    BY <2>2, <2>3, <2>4 DEF Exact, Reports, MovingStates
  <2> QED
    BY <2>1, <2>5, ExactSet
<1> QED
  BY <1>1, <1>2 DEF RecvIdealUeContextRemoveRequest

\* RrcStep.
LEMMA RrcStepExact ==
  ASSUME TypeInv, Exchange, RrcStep
  PROVE  AllExact
<1>1. CASE \/ RecvRrcConnectionSetup \/ RecvRrcConnectionReject
           \/ RecvRrcConnectionReconfiguration \/ RecvHandoverCommand
           \/ RecvRrcConnectionRelease
  BY <1>1, ExactUntouched
     DEF RecvRrcConnectionSetup, RecvRrcConnectionReject, RecvRrcConnectionReconfiguration,
         RecvHandoverCommand, RecvRrcConnectionRelease, Stop
<1> QED
  BY <1>1, RequestExact, CompletedExact, RemoveExact DEF RrcStep

\* RecvHandoverRequest.
LEMMA RequestedExact ==
  ASSUME TypeInv, Bookkeeping, NEW i \in 1..Len(x2), RecvHandoverRequest(i)
  PROVE  AllExact
<1> DEFINE t == x2[i].target
           n == NewRnti(t)
           k == NewContext(t, "HANDOVER_JOINING", x2[i].source, x2[i].oldRnti, "joining")
<1>1. /\ t \in Cells /\ x2[i].type = "HandoverRequest" /\ x2[i].wait = 0 /\ rrc = <<>>
  BY OthersType DEF RecvHandoverRequest, Due, X2Known, Running
<1>2. /\ JoinsFrom(k, x2[i].source, x2[i].oldRnti) /\ k.timers["joining"] = JoiningTimeout
      /\ Absent.state = "ABSENT"
  BY DEF NewContext, Start, Absent, JoinsFrom, Duration, Timers
<1>3. \/ UNCHANGED network
      \/ ~Full(t) /\ AddUe(t, Absent)
      \/ ~Full(t) /\ AddUe(t, k)
  BY DEF RecvHandoverRequest
<1> HIDE DEF t, k
<1>4. ASSUME NEW l \in {Absent, k}, ~Full(t), AddUe(t, l) PROVE AllExact
  <2>1. ctx[t][n].state = "ABSENT" /\ ctx'[t][n] = l
    BY <1>1, <1>4, AddShape
  <2>2. Exact(t, n)
    BY <1>1, <1>2, <1>4, <2>1 DEF Exact, Accepts, MovingStates
  <2> QED
    BY <1>1, <1>4, <2>2, ExactAdd
<1> QED
  BY <1>3, <1>4, ExactUntouched

\* RecvHandoverRequestAck.
LEMMA AckExact ==
  ASSUME TypeInv, Bookkeeping, Exchange, NEW i \in 1..Len(x2), RecvHandoverRequestAck(i),
         stopped' = "none"
  PROVE  Commands(i, x2[i].source, x2[i].oldRnti)
<1> DEFINE c == x2[i].source
           r == x2[i].oldRnti
           k == Start(c, "leaving", [ctx[c][r] EXCEPT !.state = "HANDOVER_LEAVING",
                                     !.peer = x2[i].target, !.peerRnti = x2[i].newRnti])
<1>1. /\ c \in Cells /\ r \in Rntis /\ rrc = <<>>
      /\ ctx[c][r].state = "HANDOVER_PREPARATION"
      /\ SetContext(c, r, k)
      /\ k.state = "HANDOVER_LEAVING" /\ k.peer = x2[i].target
      /\ k.peerRnti = x2[i].newRnti
      /\ HeadIsNext("HandoverCommand", x2[i].target, x2[i].newRnti)
      /\ x2' = Others(i) /\ UNCHANGED ue
  BY AckEffect
<1>2. x2[i].type = "HandoverRequestAck" /\ x2[i].wait = 0
  BY DEF RecvHandoverRequestAck, Due
<1>3. k.timers["leaving"] = LeavingTimeout[c]
  <2>1. ctx[c][r] \in Contexts
    BY <1>1 DEF TypeInv, TimedContexts
  <2> QED
    BY <2>1 DEF Start, Contexts, Duration, Timers
<1> HIDE DEF k, c, r
<1>4. /\ ctx'[c][r] = k
      /\ \A d \in Cells, q \in Rntis : d # c \/ q # r => ctx'[d][q] = ctx[d][q]
  BY <1>1, SetShape
<1> QED
  BY <1>1, <1>2, <1>3, <1>4 DEF Commands, c, r

\* X2Step.
LEMMA X2StepExact ==
  ASSUME TypeInv, Bookkeeping, Exchange, CancelsKnown, X2Step, stopped' = "none"
  PROVE  AllExact
<1> SUFFICES ASSUME NEW i \in 1..Len(x2),
                    \/ RecvHandoverRequestAck(i)
                    \/ RecvHandoverPreparationFailure(i)
                    \/ RecvUeContextRelease(i)
                    \/ RecvHandoverCancel(i)
                    \/ RecvUeData(i)
             PROVE  AllExact
  BY RequestedExact DEF X2Step
<1> DEFINE c == x2[i].source
           r == x2[i].oldRnti
           t == x2[i].target
           n == x2[i].newRnti
<1>1. CASE UNCHANGED network
  BY <1>1, ExactUntouched
<1>2. CASE RecvHandoverRequestAck(i)
  <2>1. Commands(i, c, r)
    BY <1>2, AckExact
  <2> QED
    BY <2>1 DEF AllExact, Exact, Commands
<1>3. ASSUME Present(c, r), ctx[c][r].state = "HANDOVER_LEAVING", RemoveUe(c, r)
      PROVE  AllExact
  <2>1. SetContext(c, r, Absent) /\ Absent.state = "ABSENT" /\ c \in Cells /\ r \in Rntis
    BY <1>3, PresentType DEF RemoveUe, Absent
  <2>2. Exact(c, r)
    BY <1>3, <2>1, SetAt DEF Exact
  <2> QED
    BY <2>1, <2>2, ExactSet
<1>4. CASE RecvHandoverPreparationFailure(i) /\ ~UNCHANGED network
  <2> DEFINE k == [ctx[c][r] EXCEPT !.state = "CONNECTED_NORMALLY"]
  <2>1. /\ Present(c, r)
        /\ \/ ctx[c][r].state = "HANDOVER_PREPARATION" /\ SetContext(c, r, k)
           \/ ctx[c][r].state = "HANDOVER_LEAVING" /\ RemoveUe(c, r)
    BY <1>4 DEF RecvHandoverPreparationFailure, SwitchToState, ReleaseConnection, Stop
  <2>2. k.state = "CONNECTED_NORMALLY"
    BY <2>1, PresentType DEF TimedContexts, Contexts
  <2> HIDE DEF k
  <2> QED
    BY <1>3, <2>1, <2>2, ExactApart DEF MovingStates
<1>5. CASE RecvUeContextRelease(i)
  BY <1>1, <1>3, <1>5 DEF RecvUeContextRelease, Stop
<1>6. CASE RecvHandoverCancel(i)
  <2>1. ~IsJoining(t, n)
    BY <1>6, Idle DEF RecvHandoverCancel, Due, CancelsKnown
  <2> QED
    BY <1>1, <1>6, <2>1 DEF RecvHandoverCancel, Stop, IsJoining
<1>7. CASE RecvUeData(i)
  BY <1>1, <1>7 DEF RecvUeData, Stop
<1> QED
  BY <1>1, <1>2, <1>4, <1>5, <1>6, <1>7

\* TimeoutStep.
LEMMA TimeoutExact ==
  ASSUME TypeInv, TimeoutStep
  PROVE  AllExact
<1> SUFFICES ASSUME NEW c \in Cells, NEW r \in Rntis,
                    \/ \E timer \in {"request", "setup", "rejected"} :
                          ConnectionTimeout(c, r, timer)
                    \/ HandoverJoiningTimeout(c, r)
                    \/ HandoverLeavingTimeout(c, r)
             PROVE  AllExact
  BY DEF TimeoutStep
<1>1. CASE UNCHANGED network
  BY <1>1, ExactUntouched
<1>2. ASSUME RemoveUe(c, r),
             \/ ctx[c][r].state \notin MovingStates
             \/ ctx[c][r].state = "HANDOVER_LEAVING"
             \/ /\ ctx[c][r].state = "HANDOVER_JOINING"
                /\ x2' = Append(x2, PreparationFailure(c, r))
                /\ rrc = <<>> /\ rrc' = <<>> /\ UNCHANGED <<ue, s1>>
      PROVE  AllExact
  <2>1. SetContext(c, r, Absent) /\ Absent.state = "ABSENT"
    BY <1>2 DEF RemoveUe, Absent
  <2>2. ctx'[c][r].state = "ABSENT"
    BY <2>1, SetAt
  <2>3. Exact(c, r)
    BY <1>2, <2>2 DEF Exact, Reports, MovingStates
  <2> QED
    BY <2>1, <2>3, ExactSet
<1>3. ASSUME NEW timer \in {"request", "setup", "rejected"}, ConnectionTimeout(c, r, timer)
      PROVE  AllExact
  BY <1>1, <1>2, <1>3 DEF ConnectionTimeout, Stop, Awaits, MovingStates
<1>4. CASE HandoverJoiningTimeout(c, r)
  BY <1>1, <1>2, <1>4 DEF HandoverJoiningTimeout, Stop, Awaits, Running, core
<1>5. CASE HandoverLeavingTimeout(c, r)
  BY <1>1, <1>2, <1>5 DEF HandoverLeavingTimeout, Stop, Awaits, ReleaseConnection
<1> QED
  BY <1>3, <1>4, <1>5

\* SourceStep.
LEMMA SourceExact ==
  ASSUME TypeInv, SourceStep
  PROVE  AllExact
<1>1. ASSUME NEW c \in Cells, NEW r \in Rntis, NEW target \in Cells,
             TriggerHandover(c, r, target)
      PROVE  AllExact
  <2> DEFINE k == [ctx[c][r] EXCEPT !.state = "HANDOVER_PREPARATION",
                                    !.peer = target, !.peerRnti = 0]
  <2>1. SetContext(c, r, k) /\ ctx[c][r].state = "CONNECTED_NORMALLY" /\ Present(c, r)
    BY <1>1 DEF TriggerHandover, PrepareHandover, Present
  <2>2. k.state = "HANDOVER_PREPARATION"
    BY <2>1, PresentType DEF TimedContexts, Contexts
  <2> HIDE DEF k
  <2> QED
    BY <2>1, <2>2, ExactApart DEF MovingStates
<1> QED
  BY <1>1, ExactUntouched DEF SourceStep, ForwardData

\* Every step that goes on is such a step of every context.
LEMMA ExactNext ==
  ASSUME TypeInv, Bookkeeping, Exchange, CancelsKnown, Goes
  PROVE  AllExact
<1>1. CASE RandomAccessFailed \/ Stopped
  BY <1>1, ExactUntouched DEF RandomAccessFailed, Stopped, vars, network
<1> QED
  BY <1>1, UeStepExact, SourceExact, RrcStepExact, X2StepExact, S1StepExact, TimeoutExact
     DEF Goes, Next, Scheduled

\* The states in which the UE is connected or about to be.
Linked == {"CONNECTED_NORMALLY", "CONNECTED_HANDOVER"}

\* Message i is taken in, the first for its receiver: a failure or a release is
\* taken in only where it ends the handover, if there is one.
Taken(i) ==
    /\ x2[i].wait = 0 /\ rrc = <<>>
    /\ \A k \in 1..(i - 1) : Receiver(x2[k]) # Receiver(x2[i])
    /\ /\ x2[i].type \in {"PreparationFailure", "ContextRelease"}
       /\ x2[i].source \in Cells /\ x2[i].oldRnti \in Rntis
       => ctx'[x2[i].source][x2[i].oldRnti].state # "HANDOVER_LEAVING"

\* Message m is sent: an acknowledgement by the context it offers, a failure by a
\* context that gives up joining or instead of an acknowledgement.
Sent(m) ==
    /\ m.wait = X2Delay
    /\ m.type = "HandoverRequestAck" =>
          /\ m.target \in Cells /\ m.newRnti \in Rntis
          /\ \E i \in 1..Len(x2) :
                /\ Accepts(i, m.target, m.newRnti)
                /\ x2[i].source = m.source /\ x2[i].oldRnti = m.oldRnti
    /\ m.type = "PreparationFailure" =>
          \/ \E c \in Cells, r \in Rntis :
                /\ Reports(c, r)
                /\ ctx[c][r].peer = m.source /\ ctx[c][r].peerRnti = m.oldRnti
          \/ \E i \in 1..Len(x2) :
                /\ x2[i].type = "HandoverRequest"
                /\ x2[i].source = m.source /\ x2[i].oldRnti = m.oldRnti

\* A step takes in at most one message and sends at most one.
MailStep ==
    \/ UNCHANGED x2
    \/ \E m \in X2Known : x2' = Append(x2, m) /\ Sent(m)
    \/ \E i \in 1..Len(x2) : x2' = Others(i) /\ Taken(i)
    \/ \E i \in 1..Len(x2) : \E m \in X2Known :
          x2' = Append(Others(i), m) /\ Taken(i) /\ Sent(m)

\* A message of any other type than the two that answer a source is sent.
LEMMA SentOther ==
  ASSUME NEW type \in (ToTarget \cup ToSource) \ {"HandoverRequestAck", "PreparationFailure"},
         NEW s \in CellOrNone, NEW r \in RntiOrNone, NEW t \in CellOrNone,
         NEW n \in RntiOrNone, type = "HandoverRequest" => t \in Cells
  PROVE  X2(type, s, r, t, n) \in X2Known /\ Sent(X2(type, s, r, t, n))
<1>1. X2(type, s, r, t, n) \in X2Known
  BY X2Type
<1>2. Sent(X2(type, s, r, t, n))
  BY DEF Sent, X2
<1> QED
  BY <1>1, <1>2

\* A joining context that is removed reports it.
LEMMA SentFailure ==
  ASSUME TypeInv, AllExact, NEW c, NEW r, Present(c, r), IsJoining(c, r),
         RemoveUe(c, r), x2' = Append(x2, PreparationFailure(c, r))
  PROVE  MailStep
<1>1. c \in Cells /\ r \in Rntis /\ PreparationFailure(c, r) \in X2Known
  BY PresentType, PreparationFailureType
<1>2. ctx'[c][r].state = "ABSENT"
  BY <1>1, SetAt DEF RemoveUe, Absent
<1>3. Reports(c, r)
  BY <1>1, <1>2 DEF AllExact, Exact, IsJoining, Switches, ReleasesSource, Accepts, Commands,
     JoinsFrom, MovingStates
<1>4. Sent(PreparationFailure(c, r))
  BY <1>1, <1>3 DEF Sent, PreparationFailure, X2
<1> QED
  BY <1>1, <1>4 DEF MailStep

\* RecvHandoverRequest.
LEMMA RequestMail ==
  ASSUME TypeInv, Bookkeeping, AllExact, NEW i \in 1..Len(x2), RecvHandoverRequest(i)
  PROVE  MailStep
<1> DEFINE t == x2[i].target
           n == NewRnti(t)
           s == x2[i].source
           r == x2[i].oldRnti
           k == NewContext(t, "HANDOVER_JOINING", s, r, "joining")
           p == X2("PreparationFailure", s, r, t, 0)
           a == X2("HandoverRequestAck", s, r, t, n)
<1>1. /\ t \in Cells /\ x2[i].type = "HandoverRequest"
      /\ s \in CellOrNone /\ r \in RntiOrNone /\ t \in CellOrNone
  BY OthersType, Constants DEF RecvHandoverRequest, Due, X2Known, X2Messages
<1>2. Taken(i)
  BY <1>1 DEF Taken, RecvHandoverRequest, Due, Running
<1>3. CASE Refuse(i)
  <2>1. p \in X2Known
    BY <1>1, X2Type, Constants DEF ToSource
  <2>2. Sent(p)
    BY <1>1 DEF Sent, X2
  <2> QED
    BY <1>2, <1>3, <2>1, <2>2 DEF MailStep, Refuse
<1>4. CASE ~Full(t) /\ AddUe(t, k) /\ x2' = Append(Others(i), a)
  <2>1. n \in Rntis /\ ctx[t][n].state = "ABSENT" /\ ctx'[t][n] = k
    BY <1>1, <1>4, AddShape
  <2>2. JoinsFrom(ctx'[t][n], s, r)
    BY <2>1 DEF NewContext, Start, Absent, JoinsFrom
  <2>3. PICK j \in 1..Len(x2) : Accepts(j, t, n)
    <3>1. Exact(t, n)
      BY <1>1, <2>1 DEF AllExact
    <3> QED
      BY <3>1, <2>1, <2>2
         DEF Exact, Reports, Switches, ReleasesSource, Commands, JoinsFrom, MovingStates
  <2>4. x2[j].source = s /\ x2[j].oldRnti = r
    BY <2>2, <2>3 DEF Accepts, JoinsFrom
  <2>5. a \in X2Known
    BY <1>1, <2>1, X2Type, Constants DEF ToSource
  <2>6. Sent(a)
    BY <1>1, <2>1, <2>3, <2>4 DEF Sent, X2
  <2> HIDE DEF a
  <2> QED
    BY <1>2, <1>4, <2>5, <2>6 DEF MailStep
<1> QED
  BY <1>3, <1>4 DEF RecvHandoverRequest

\* X2Step.
LEMMA X2StepMail ==
  ASSUME TypeInv, Bookkeeping, AllExact, X2Step, stopped' = "none"
  PROVE  MailStep
<1> SUFFICES ASSUME NEW i \in 1..Len(x2),
                    \/ RecvHandoverRequestAck(i)
                    \/ RecvHandoverPreparationFailure(i)
                    \/ RecvUeContextRelease(i)
                    \/ RecvHandoverCancel(i)
                    \/ RecvUeData(i)
             PROVE  MailStep
  BY RequestMail DEF X2Step
<1> DEFINE c == x2[i].source
           r == x2[i].oldRnti
<1>1. stopped = "none" /\ x2' = Others(i)
  BY DEF RecvHandoverRequestAck, RecvHandoverPreparationFailure, RecvUeContextRelease,
     RecvHandoverCancel, RecvUeData, Stop, Running
<1>2. /\ x2[i].wait = 0 /\ rrc = <<>>
      /\ \A k \in 1..(i - 1) : Receiver(x2[k]) # Receiver(x2[i])
  BY DEF RecvHandoverRequestAck, RecvHandoverPreparationFailure, RecvUeContextRelease,
     RecvHandoverCancel, RecvUeData, Due, Running
<1>3. ASSUME c \in Cells, r \in Rntis, RemoveUe(c, r) PROVE ctx'[c][r].state # "HANDOVER_LEAVING"
  BY <1>3, SetAt DEF RemoveUe, Absent
<1>4. ASSUME c \in Cells, r \in Rntis, RecvHandoverPreparationFailure(i)
      PROVE  ctx'[c][r].state # "HANDOVER_LEAVING"
  <2> DEFINE k == [ctx[c][r] EXCEPT !.state = "CONNECTED_NORMALLY"]
  <2>1. \/ ctx[c][r].state = "HANDOVER_PREPARATION" /\ SetContext(c, r, k)
        \/ RemoveUe(c, r)
        \/ UNCHANGED network /\ ctx[c][r].state # "HANDOVER_LEAVING"
    BY <1>1, <1>4 DEF RecvHandoverPreparationFailure, SwitchToState, ReleaseConnection, Stop,
       Present
  <2>2. k.state = "CONNECTED_NORMALLY"
    BY <1>4 DEF TypeInv, TimedContexts, Contexts
  <2> HIDE DEF k
  <2>3. CASE SetContext(c, r, k)
    BY <1>4, <2>2, <2>3, SetAt
  <2> QED
    BY <1>3, <1>4, <2>1, <2>3 DEF network
<1>5. ASSUME c \in Cells, r \in Rntis, RecvUeContextRelease(i)
      PROVE  ctx'[c][r].state # "HANDOVER_LEAVING"
  BY <1>1, <1>3, <1>5 DEF RecvUeContextRelease, Stop, Present, network
<1>6. Taken(i)
  BY <1>2, <1>4, <1>5
     DEF Taken, RecvHandoverRequestAck, RecvHandoverCancel, RecvUeData, Due
<1> QED
  BY <1>1, <1>6 DEF MailStep

\* TimeoutStep.
LEMMA TimeoutMail ==
  ASSUME TypeInv, AllExact, TimeoutStep
  PROVE  MailStep
<1> SUFFICES ASSUME NEW c \in Cells, NEW r \in Rntis,
                    HandoverJoiningTimeout(c, r) \/ HandoverLeavingTimeout(c, r)
             PROVE  MailStep
  BY DEF TimeoutStep, ConnectionTimeout, Stop, MailStep
<1>1. CASE UNCHANGED x2
  BY <1>1 DEF MailStep
<1>2. CASE HandoverJoiningTimeout(c, r)
  BY <1>1, <1>2, SentFailure DEF HandoverJoiningTimeout, Stop, Awaits, Present, IsJoining
<1>3. CASE HandoverLeavingTimeout(c, r)
  <2>1. ctx[c][r].peer \in CellOrNone /\ ctx[c][r].peerRnti \in RntiOrNone
    BY DEF TypeInv, TimedContexts, Contexts
  <2>2. HandoverCancel(c, r) \in X2Known /\ Sent(HandoverCancel(c, r))
    BY <2>1, SentOther, Constants DEF HandoverCancel, ToTarget
  <2> QED
    BY <1>1, <1>3, <2>2 DEF HandoverLeavingTimeout, Stop, MailStep
<1> QED
  BY <1>2, <1>3

\* SourceStep.
LEMMA SourceMail ==
  ASSUME TypeInv, SourceStep
  PROVE  MailStep
<1> PICK c \in Cells, r \in Rntis :
         ForwardData(c, r) \/ \E target \in Cells : TriggerHandover(c, r, target)
  BY DEF SourceStep
<1>1. CASE ForwardData(c, r)
  <2> DEFINE m == X2("UeData", c, r, ctx[c][r].peer, ctx[c][r].peerRnti)
  <2>1. ctx[c][r].peer \in CellOrNone /\ ctx[c][r].peerRnti \in RntiOrNone
    BY DEF TypeInv, TimedContexts, Contexts
  <2>2. m \in X2Known /\ Sent(m)
    BY <2>1, SentOther, Constants DEF ToTarget
  <2> QED
    BY <1>1, <2>2 DEF ForwardData, MailStep
<1>2. ASSUME NEW target \in Cells, TriggerHandover(c, r, target) PROVE MailStep
  <2> DEFINE m == X2("HandoverRequest", c, r, target, 0)
  <2>1. m \in X2Known /\ Sent(m)
    BY SentOther, Constants DEF ToTarget
  <2> QED
    BY <1>2, <2>1 DEF TriggerHandover, PrepareHandover, MailStep
<1> QED
  BY <1>1, <1>2

\* S1Step.
LEMMA S1Mail ==
  ASSUME TypeInv, S1Step
  PROVE  MailStep
<1> DEFINE r == imsiRnti[mmeCell]
           m == X2("ContextRelease", ctx[mmeCell][r].peer, ctx[mmeCell][r].peerRnti, mmeCell, r)
<1>1. UNCHANGED x2 \/ (Present(mmeCell, r) /\ x2' = Append(x2, m))
  BY DEF S1Step, InitialContextSetupRequest, PathSwitchRequestAcknowledge, Stop
<1>2. Present(mmeCell, r) => m \in X2Known /\ Sent(m)
  BY PresentType, SentOther DEF ToSource
<1> QED
  BY <1>1, <1>2 DEF MailStep

\* Every step that goes on.
LEMMA MailNext ==
  ASSUME TypeInv, Bookkeeping, AllExact, Goes
  PROVE  MailStep
<1>1. CASE UNCHANGED x2
  BY <1>1 DEF MailStep
<1>2. CASE RrcStep
  BY <1>1, <1>2, SentFailure
     DEF RrcStep, RecvRrcConnectionRequest, RecvRrcConnectionSetup,
         RecvRrcConnectionReject, RecvRrcConnectionSetupCompleted,
         RecvRrcConnectionReconfiguration, RecvRrcConnectionReconfigurationCompleted,
         RecvHandoverCommand, RecvRrcConnectionRelease, RecvIdealUeContextRemoveRequest, Stop,
         IsJoining
<1>3. CASE UeStep \/ RandomAccessFailed \/ Stopped
  BY <1>1, <1>3
     DEF UeStep, RandomAccessFailed, Stopped, vars, SelectCell, StartConnection, ReceivePreamble,
         RecvRaResponse, RadioLinkFailureDetected
<1> QED
  BY <1>2, <1>3, SourceMail, X2StepMail, S1Mail, TimeoutMail DEF Goes, Next, Scheduled

\* A message on its way stays as it is or is taken in; one that is on its way
\* after the step was before or is sent.
LEMMA MailKept ==
  ASSUME TypeInv, MailStep
  PROVE  /\ \A i \in 1..Len(x2) : Taken(i) \/ \E j \in 1..Len(x2') : x2'[j] = x2[i]
         /\ \A j \in 1..Len(x2') : Sent(x2'[j]) \/ \E i \in 1..Len(x2) : x2'[j] = x2[i]
<1> Len(x2) \in Nat
  BY Numbers
<1>1. CASE UNCHANGED x2
  BY <1>1
<1>2. ASSUME NEW m \in X2Known, x2' = Append(x2, m), Sent(m)
      PROVE  /\ \A i \in 1..Len(x2) : \E j \in 1..Len(x2') : x2'[j] = x2[i]
             /\ \A j \in 1..Len(x2') : Sent(x2'[j]) \/ \E i \in 1..Len(x2) : x2'[j] = x2[i]
  <2>1. /\ Len(x2') = Len(x2) + 1 /\ x2'[Len(x2')] = m
        /\ \A i \in 1..(Len(x2') - 1) : x2'[i] = x2[i]
    BY <1>2, AppendShape
  <2> QED
    BY <1>2, <2>1
<1>3. ASSUME NEW i \in 1..Len(x2), NEW k \in 1..Len(x2), k # i
      PROVE  \E j \in 1..(Len(x2) - 1) : Place(i, j) = k
  <2>1. CASE k < i
    <3>1. k \in 1..(Len(x2) - 1) /\ Place(i, k) = k
      BY <2>1 DEF Place
    <3> QED
      BY <3>1
  <2>2. CASE k > i
    <3>1. k - 1 \in 1..(Len(x2) - 1) /\ Place(i, k - 1) = k
      BY <2>2 DEF Place
    <3> QED
      BY <3>1
  <2> QED
    BY <1>3, <2>1, <2>2
<1>4. ASSUME NEW i \in 1..Len(x2), x2' = Others(i), Taken(i)
      PROVE  /\ \A k \in 1..Len(x2) : Taken(k) \/ \E j \in 1..Len(x2') : x2'[j] = x2[k]
             /\ \A j \in 1..Len(x2') : \E k \in 1..Len(x2) : x2'[j] = x2[k]
  <2>1. /\ Len(x2') = Len(x2) - 1
        /\ \A j \in 1..Len(x2') : x2'[j] = x2[Place(i, j)]
    BY <1>4, OthersShape DEF TypeInv
  <2>2. \A j \in 1..(Len(x2) - 1) : Place(i, j) \in 1..Len(x2)
    BY DEF Place
  <2>3. ASSUME NEW k \in 1..Len(x2), k # i PROVE \E j \in 1..Len(x2') : x2'[j] = x2[k]
    <3> PICK j \in 1..(Len(x2) - 1) : Place(i, j) = k
      BY <1>3, <2>3
    <3> QED
      BY <2>1
  <2> QED
    BY <1>4, <2>1, <2>2, <2>3
<1>5. ASSUME NEW i \in 1..Len(x2), NEW m \in X2Known, x2' = Append(Others(i), m), Taken(i),
             Sent(m)
      PROVE  /\ \A k \in 1..Len(x2) : Taken(k) \/ \E j \in 1..Len(x2') : x2'[j] = x2[k]
             /\ \A j \in 1..Len(x2') : Sent(x2'[j]) \/ \E k \in 1..Len(x2) : x2'[j] = x2[k]
  <2>1. /\ Len(x2') = Len(x2) /\ x2'[Len(x2')] = m
        /\ \A j \in 1..(Len(x2) - 1) :
              Place(i, j) \in 1..Len(x2) \ {i} /\ x2'[j] = x2[Place(i, j)]
    BY <1>5, AnswerShape
  <2>2. ASSUME NEW k \in 1..Len(x2), k # i PROVE \E j \in 1..Len(x2') : x2'[j] = x2[k]
    <3> PICK j \in 1..(Len(x2) - 1) : Place(i, j) = k
      BY <1>3, <2>2
    <3> QED
      BY <2>1
  <2>3. \A j \in 1..Len(x2') : Sent(x2'[j]) \/ \E k \in 1..Len(x2) : x2'[j] = x2[k]
    BY <1>5, <2>1
  <2> QED
    BY <1>5, <2>2, <2>3
<1> QED
  BY <1>1, <1>2, <1>4, <1>5 DEF MailStep

\* Message i tells RNTI r of cell b that its handover has failed.
IsFailure(i, b, r) ==
    x2[i].type = "PreparationFailure" /\ x2[i].source = b /\ x2[i].oldRnti = r

\* The UE stays where it is, and its access and its link do.
Stays ==
    /\ ue'.state = ue.state /\ ue'.cell = ue.cell /\ ue'.rnti = ue.rnti
    /\ ue'.ra = ue.ra /\ ue'.rlf = ue.rlf

\* RNTI r of cell c is left for good and its UE told so.
Releases(c, r) ==
    /\ ctx[c][r].state = "HANDOVER_LEAVING" /\ ctx'[c][r].state = "ABSENT"
    /\ HeadIsNext("Release", c, r) /\ UNCHANGED ue
    /\ Expired(c, r, "leaving") \/ \E i \in 1..Len(x2) : IsFailure(i, c, r) /\ x2[i].wait = 0

\* What becomes of the UE and of the answers of the core when no RRC message is
\* to be delivered.
TalkStep ==
    \/ rrc' = <<>> /\ s1' = s1 /\ (ue.state \in Linked => Stays)
    \/ RecvRaResponse \/ RandomAccessFailed \/ RadioLinkFailureDetected \/ S1Step
    \/ \E i \in 1..Len(x2) : \E c \in Cells, r \in Rntis : Commands(i, c, r)
    \/ \E c \in Cells, r \in Rntis : Releases(c, r)

\* An RRC message is delivered before anything else happens.
LEMMA Delivers ==
  ASSUME Goes, rrc # <<>>
  PROVE  RrcStep
<1>1. ~X2Step /\ ~S1Step /\ ~SourceStep
  BY DEF X2Step, S1Step, SourceStep, RecvHandoverRequest, RecvHandoverRequestAck,
     RecvHandoverPreparationFailure, RecvUeContextRelease, RecvHandoverCancel, RecvUeData,
     InitialContextSetupRequest, PathSwitchRequestAcknowledge, ForwardData, TriggerHandover,
     Running
<1>2. ~UeStep /\ ~TimeoutStep /\ ~RandomAccessFailed /\ ~Stopped
  BY DEF Goes, UeStep, TimeoutStep, RandomAccessFailed, Stopped, SelectCell, StartConnection,
     ReceivePreamble, RecvRaResponse, RadioLinkFailureDetected, ConnectionTimeout,
     HandoverJoiningTimeout, HandoverLeavingTimeout, Running
<1> QED
  BY <1>1, <1>2 DEF Goes, Next, Scheduled

\* The two handlers that release a leaving context.
LEMMA ReleasesThere ==
  ASSUME TypeInv, Exchange, rrc = <<>>, NEW c, NEW r, Present(c, r),
         ctx[c][r].state = "HANDOVER_LEAVING", ReleaseConnection(c, r), UNCHANGED ue,
         Expired(c, r, "leaving") \/ \E i \in 1..Len(x2) : IsFailure(i, c, r) /\ x2[i].wait = 0
  PROVE  c \in Cells /\ r \in Rntis /\ Releases(c, r)
<1>1. c \in Cells /\ r \in Rntis /\ c \in CellOrNone /\ r \in RntiOrNone
  BY PresentType
<1>2. ctx'[c][r].state = "ABSENT"
  BY <1>1, SetAt DEF ReleaseConnection, RemoveUe, Absent
<1>3. HeadIsNext("Release", c, r)
  BY <1>1, HeadSent DEF ReleaseConnection, ToUe
<1> QED
  BY <1>1, <1>2, <1>3 DEF Releases

\* Every step that goes on.
LEMMA TalkNext ==
  ASSUME TypeInv, Bookkeeping, Exchange, Goes, rrc = <<>>
  PROVE  TalkStep
<1>1. CASE UNCHANGED <<ue, rrc, s1>>
  BY <1>1 DEF TalkStep, Stays
<1>2. CASE UeStep
  <2>1. CASE \E c \in Cells : SelectCell(c)
    BY <2>1 DEF SelectCell, TalkStep, Linked, core
  <2>2. CASE StartConnection
    BY <2>2 DEF StartConnection, TalkStep, Linked, core
  <2>3. CASE ReceivePreamble
    <3>1. UNCHANGED <<rrc, s1>>
      BY <2>3 DEF ReceivePreamble, core
    <3>2. Stays
      BY <2>3 DEF ReceivePreamble, Stays, TypeInv, UesInCells, UeRrcs
    <3> QED
      BY <3>1, <3>2 DEF TalkStep
  <2> QED
    BY <1>2, <2>1, <2>2, <2>3 DEF UeStep, TalkStep
<1>3. CASE SourceStep
  BY <1>1, <1>3 DEF SourceStep, ForwardData, TriggerHandover, core
<1>4. CASE X2Step
  <2> PICK i \in 1..Len(x2) :
           \/ RecvHandoverRequest(i)
           \/ RecvHandoverRequestAck(i)
           \/ RecvHandoverPreparationFailure(i)
           \/ RecvUeContextRelease(i)
           \/ RecvHandoverCancel(i)
           \/ RecvUeData(i)
    BY <1>4 DEF X2Step
  <2>1. stopped' = "none"
    BY DEF Goes
  <2>2. CASE RecvHandoverRequestAck(i)
    BY <2>1, <2>2, AckExact, AckEffect DEF TalkStep
  <2>3. CASE RecvHandoverPreparationFailure(i)
    <3>1. x2[i].type = "PreparationFailure" /\ x2[i].wait = 0
      BY <2>3 DEF RecvHandoverPreparationFailure, Due
    <3>2. IsFailure(i, x2[i].source, x2[i].oldRnti)
      BY <3>1 DEF IsFailure
    <3> QED
      BY <1>1, <2>1, <2>3, <3>1, <3>2, ReleasesThere
         DEF RecvHandoverPreparationFailure, TalkStep, Stop, core
  <2> QED
    BY <1>1, <2>1, <2>2, <2>3
       DEF RecvHandoverRequest, RecvUeContextRelease, RecvHandoverCancel, RecvUeData, Stop, core
<1>5. CASE TimeoutStep
  <2> PICK c \in Cells, r \in Rntis :
           \/ \E timer \in {"request", "setup", "rejected"} : ConnectionTimeout(c, r, timer)
           \/ HandoverJoiningTimeout(c, r)
           \/ HandoverLeavingTimeout(c, r)
    BY <1>5 DEF TimeoutStep
  <2>1. CASE HandoverLeavingTimeout(c, r)
    BY <1>1, <2>1, ReleasesThere
       DEF HandoverLeavingTimeout, TalkStep, Stop, core, Awaits, Present
  <2> QED
    BY <1>1, <2>1 DEF ConnectionTimeout, HandoverJoiningTimeout, Stop, core
<1>6. ~RrcStep /\ ~Stopped
  BY DEF Goes, Stopped, RrcStep, RecvRrcConnectionRequest, RecvRrcConnectionSetup,
     RecvRrcConnectionReject, RecvRrcConnectionSetupCompleted,
     RecvRrcConnectionReconfiguration, RecvRrcConnectionReconfigurationCompleted,
     RecvHandoverCommand, RecvRrcConnectionRelease, RecvIdealUeContextRemoveRequest, Received
<1> QED
  BY <1>2, <1>3, <1>4, <1>5, <1>6 DEF Goes, Next, Scheduled, TalkStep

\* The clocks of a UE that is connected or about to be: its link is as old as its
\* last setup or handover, its access as old as its handover.
UeClock ==
    \/ ue'.state \notin Linked
    \/ Received("Setup")
    \/ /\ HeadIs("HandoverCommand", ue'.cell, ue'.rnti) /\ rrc' = <<>>
       /\ ue'.state = "CONNECTED_HANDOVER" /\ ue'.ra = RaTicks /\ ue'.rlf = T310
    \/ Stays
    \/ rrc = <<>> /\ ue.state \in Linked /\ ue'.cell = ue.cell /\ ue'.rlf = ue.rlf

\* Every step that goes on.
LEMMA UeClockNext ==
  ASSUME TypeInv, Exchange, Goes
  PROVE  UeClock
<1> ue \in UeRrcs
  BY DEF TypeInv, UesInCells
<1>1. CASE UNCHANGED ue
  BY <1>1 DEF UeClock, Stays
<1>2. CASE DropConnection \/ LeaveConnectedMode
  BY <1>2 DEF DropConnection, LeaveConnectedMode, UeClock, Linked
<1>3. CASE UeStep \/ RandomAccessFailed
  <2>1. CASE \E c \in Cells : SelectCell(c)
    BY <2>1 DEF SelectCell, UeClock, Linked, UeRrcs
  <2>2. CASE StartConnection
    BY <2>2 DEF StartConnection, UeClock, Linked, UeRrcs
  <2>3. CASE ReceivePreamble
    BY <2>3 DEF ReceivePreamble, UeClock, Stays, UeRrcs
  <2>4. CASE RecvRaResponse
    BY <2>4 DEF RecvRaResponse, Running, UeClock, Linked, UeRrcs
  <2>5. CASE RandomAccessFailed
    BY <1>2, <2>5 DEF RandomAccessFailed, UeClock, Linked, UeRrcs
  <2> QED
    BY <1>2, <1>3, <2>1, <2>2, <2>3, <2>4, <2>5 DEF UeStep, RadioLinkFailureDetected
<1>4. CASE RrcStep
  <2>1. CASE RecvRrcConnectionSetup
    BY <2>1 DEF RecvRrcConnectionSetup, UeClock
  <2>2. CASE RecvRrcConnectionReject
    BY <2>2 DEF RecvRrcConnectionReject, UeClock, Linked, UeRrcs
  <2>3. CASE RecvHandoverCommand /\ ~UNCHANGED ue
    <3>1. /\ Received("HandoverCommand") /\ rrc' = Tail(rrc)
          /\ ue'.state = "CONNECTED_HANDOVER" /\ ue'.ra = RaTicks /\ ue'.rlf = T310
          /\ ue'.cell = Head(rrc).cell /\ ue'.rnti = Head(rrc).rnti
      BY <2>3 DEF RecvHandoverCommand, Stop, UeRrcs
    <3>2. rrc' = <<>>
      BY <3>1, RrcTaken DEF Received
    <3> QED
      BY <3>1, <3>2 DEF UeClock, HeadIs
  <2> QED
    BY <1>1, <1>2, <1>4, <2>1, <2>2, <2>3
       DEF RrcStep, RecvRrcConnectionRequest, RecvRrcConnectionSetupCompleted,
           RecvRrcConnectionReconfiguration, RecvRrcConnectionReconfigurationCompleted,
           RecvRrcConnectionRelease, RecvIdealUeContextRemoveRequest, Stop
<1>5. CASE X2Step \/ S1Step \/ TimeoutStep
  <2>1. UNCHANGED ue
    BY <1>5
       DEF X2Step, S1Step, TimeoutStep, RecvHandoverRequest, RecvHandoverRequestAck,
           RecvHandoverPreparationFailure, RecvUeContextRelease, RecvHandoverCancel, RecvUeData,
           InitialContextSetupRequest, PathSwitchRequestAcknowledge, ConnectionTimeout,
           HandoverJoiningTimeout, HandoverLeavingTimeout, Stop
  <2> QED
    BY <1>1, <2>1
<1> QED
  BY <1>1, <1>3, <1>4, <1>5
     DEF Goes, Next, Scheduled, Stopped, vars, SourceStep, ForwardData, TriggerHandover

\* RNTI r of cell c has let go of the UE.
IsLeaving(c, r) == ctx[c][r].state = "HANDOVER_LEAVING"

\* What is left of a timer of a context.
Left(c, r, timer) == ctx[c][r].timers[timer]

\* RNTI r of cell b leaves for RNTI n of cell t.
Targets(b, r, t, n) == IsLeaving(b, r) /\ ctx[b][r].peer = t /\ ctx[b][r].peerRnti = n

\* Message i is the acknowledgement that offers RNTI n of cell t to RNTI r of cell b.
Offers(i, b, r, t, n) ==
    /\ x2[i].type = "HandoverRequestAck"
    /\ x2[i].source = b /\ x2[i].oldRnti = r /\ x2[i].target = t /\ x2[i].newRnti = n

\* No message takes longer than the link does.
X2Near == \A i \in 1..Len(x2) : x2[i].wait <= X2Delay

\* The timer of an offered context was started when the acknowledgement was sent;
\* if it has run out, the failure it reported is not far behind.
Timely(i, b, r, t, n) ==
    /\ IsJoining(t, n) =>
          /\ JoinsFrom(ctx[t][n], b, r)
          /\ Left(t, n, "joining") + X2Delay <= JoiningTimeout + x2[i].wait
    /\ ~IsJoining(t, n) =>
          \E j \in 1..Len(x2) :
             IsFailure(j, b, r) /\ x2[j].wait <= JoiningTimeout + x2[i].wait

\* Every acknowledgement is as young as what it offers.
AcksTimely ==
    \A i \in 1..Len(x2) : \A b, t \in Cells : \A r, n \in Rntis :
        Offers(i, b, r, t, n) => Timely(i, b, r, t, n)

\* The UE leaves one context at a time.
LeavingOnce ==
    \A b, d \in Cells : \A r, q \in Rntis :
        IsLeaving(b, r) /\ IsLeaving(d, q) => b = d /\ r = q

\* A context that leaves and one that joins from it belong to the same handover.
Matches(b, r, t, n) ==
    /\ \A c \in Cells, q \in Rntis : JoinsFrom(ctx[c][q], b, r) => c = t /\ q = n
    /\ IsJoining(t, n) => JoinsFrom(ctx[t][n], b, r)

\* A source that has let go of the UE sent it to the one context that joins from it.
JoinsTarget ==
    \A b, t \in Cells : \A r, n \in Rntis : Targets(b, r, t, n) => Matches(b, r, t, n)

\* What is left of the timer of a leaving context is enough for what is still to
\* come. The UE is on its way to the target, whose timer is the older one, and the
\* link of the UE is no older than its handover.
OnItsWay(b, r, t, n) ==
    /\ JoinsFrom(ctx[t][n], b, r)
    /\ LeavingTimeout[b] + Left(t, n, "joining") + X2Delay
          <= Left(b, r, "leaving") + JoiningTimeout
    /\ HeadIs("HandoverCommand", t, n) => Left(t, n, "joining") + X2Delay <= JoiningTimeout
    /\ UeAt(t, n) /\ ue.state \in Linked =>
          T310 + Left(t, n, "joining") + X2Delay <= ue.rlf + JoiningTimeout

\* The UE has come to the target, which waits for the core to switch the path.
Switching(b, r, t, n) ==
    /\ ctx[t][n].state = "HANDOVER_PATH_SWITCH"
    /\ ctx[t][n].peer = b /\ ctx[t][n].peerRnti = r
    /\ UeAt(t, n) /\ ue.state = "CONNECTED_NORMALLY" /\ rrc = <<>>
    /\ \E i \in 1..Len(s1) :
          /\ LeavingTimeout[b] + X2Delay + s1[i].wait
                <= Left(b, r, "leaving") + JoiningTimeout + S1Delay
          /\ T310 + X2Delay + s1[i].wait <= ue.rlf + JoiningTimeout + S1Delay

\* The source of message m prepares a handover.
Prepares(m) == ctx[m.source][m.oldRnti].state = "HANDOVER_PREPARATION"

\* No other handover of the UE begins before message i has come: an answer to a
\* request still under way comes after it.
Precedes(i) ==
    \A j \in 1..Len(x2) :
        Prepares(x2[j]) =>
            /\ x2[j].type = "HandoverRequest" => x2[i].wait <= x2[j].wait
            /\ x2[j].type = "HandoverRequestAck" => x2[i].wait < x2[j].wait

\* The message that ends the handover is under way.
Ending(b, r, i) ==
    /\ x2[i].type \in {"PreparationFailure", "ContextRelease"}
    /\ x2[i].source = b /\ x2[i].oldRnti = r
    /\ LeavingTimeout[b] + x2[i].wait <= Left(b, r, "leaving") + JoiningTimeout + S1Delay
    /\ Precedes(i)

\* The handover is bound to end before the leaving timer does.
Settling(b, r, t, n) ==
    \/ OnItsWay(b, r, t, n)
    \/ Switching(b, r, t, n)
    \/ \E i \in 1..Len(x2) : Ending(b, r, i)

\* Every handover whose source has let go of the UE is.
LeavingEnds ==
    \A b, t \in Cells : \A r, n \in Rntis : Targets(b, r, t, n) => Settling(b, r, t, n)

\* The inductive invariant, given PlacesInv.
Timing == X2Near /\ AcksTimely /\ LeavingOnce /\ JoinsTarget /\ LeavingEnds

\* The messages of a link take time, and a fresh link cannot fail before the target
\* has settled the handover that it is for.
TimersInOrder == X2Delay > 0 /\ JoiningTimeout + S1Delay < T310 + X2Delay

-----------------------------------------------------------------------------
\* What is known of a step that goes on.
Known ==
    /\ PlacesInv /\ PlacesInv' /\ stopped = "none" /\ stopped' = "none"
    /\ ContextSteps /\ RntisGrow /\ AllExact /\ MailStep /\ UeClock /\ UeSteps
    /\ rrc = <<>> => TalkStep
    /\ rrc # <<>> => RrcStep

\* Every step that goes on.
LEMMA KnownNext ==
  ASSUME PlacesInv, PlacesInv', Goes
  PROVE  Known
<1>1. TypeInv /\ Bookkeeping /\ Exchange /\ CancelsKnown
  BY DEF PlacesInv, IInv, Places
<1>2. [Next]_vars /\ stopped = "none" /\ stopped' = "none"
  BY DEF Goes
<1>3. ContextSteps /\ RntisGrow /\ UeSteps
  BY <1>1, <1>2, ContextsNext, RntisNext, UeStepsNext
<1>4. AllExact /\ UeClock
  BY <1>1, ExactNext, UeClockNext
<1>5. MailStep
  BY <1>1, <1>4, MailNext
<1>6. (rrc = <<>> => TalkStep) /\ (rrc # <<>> => RrcStep)
  BY <1>1, TalkNext, Delivers
<1> QED
  BY <1>2, <1>3, <1>4, <1>5, <1>6 DEF Known

\* The numbers of the model.
LEMMA Times ==
  ASSUME PlacesInv
  PROVE  /\ X2Delay \in Nat /\ S1Delay \in Nat /\ T310 \in Nat /\ RaTicks \in Nat
         /\ JoiningTimeout \in Nat /\ ue.rlf \in Nat /\ ue.ra \in Nat
         /\ \A c \in Cells : LeavingTimeout[c] \in Nat
         /\ \A i \in 1..Len(x2) : x2[i].wait \in Nat
         /\ \A i \in 1..Len(s1) : s1[i].wait \in Nat
         /\ \A c \in Cells, r \in Rntis : Left(c, r, "leaving") \in Int
         /\ \A c \in Cells, r \in Rntis : IsJoining(c, r) => Left(c, r, "joining") \in Nat
         /\ \A c \in Cells, r \in Rntis : IsLeaving(c, r) => Left(c, r, "leaving") \in Nat
<1> TypeInv /\ NoContextLingers
  BY DEF PlacesInv, IInv, Places
<1>1. \A i \in 1..Len(x2) : x2[i].wait \in Nat
  BY OthersType DEF X2Known, X2Messages
<1>2. \A i \in 1..Len(s1) : s1[i].wait \in Nat
  <2> SUFFICES ASSUME NEW i \in 1..Len(s1) PROVE s1[i].wait \in Nat
    OBVIOUS
  <2>1. s1[i] \in S1Messages
    BY DEF TypeInv
  <2> QED
    BY <2>1 DEF S1Messages
<1>3. \A c \in Cells, r \in Rntis : \A t \in Timers : ctx[c][r].timers[t] \in Nat \cup {Off}
  BY DEF TypeInv, TimedContexts, Contexts
<1>4. "joining" \in Timers /\ "leaving" \in Timers /\ Off \in Int
  BY DEF Timers, Off
<1>5. \A c \in Cells, r \in Rntis :
         /\ IsJoining(c, r) => Left(c, r, "joining") # Off
         /\ IsLeaving(c, r) => Left(c, r, "leaving") # Off
  BY <1>4 DEF NoContextLingers, IsJoining, IsLeaving, Left, Awaits
<1>6. ue.rlf \in Nat /\ ue.ra \in Nat
  BY DEF TypeInv, UesInCells, UeRrcs
<1>7. \A c \in Cells, r \in Rntis :
         /\ Left(c, r, "leaving") \in Nat \cup {Off}
         /\ Left(c, r, "joining") \in Nat \cup {Off}
  BY <1>3, <1>4 DEF Left
<1>8. /\ \A c \in Cells : LeavingTimeout[c] \in Nat
      /\ X2Delay \in Nat /\ S1Delay \in Nat /\ T310 \in Nat /\ RaTicks \in Nat
      /\ JoiningTimeout \in Nat
  BY LteHandoverAssumption
<1> QED
  BY <1>1, <1>2, <1>4, <1>5, <1>6, <1>7, <1>8

\* A joining context stays as it is, reports that it gives up, or is joined.
LEMMA JoiningStep ==
  ASSUME AllExact, NEW c \in Cells, NEW r \in Rntis, IsJoining(c, r)
  PROVE  ctx'[c][r] = ctx[c][r] \/ Reports(c, r) \/ Switches(c, r)
BY DEF AllExact, Exact, IsJoining, ReleasesSource, Accepts, Commands, MovingStates

\* A context joins as before or is accepted.
LEMMA JoinedStep ==
  ASSUME AllExact, NEW c \in Cells, NEW r \in Rntis, ctx'[c][r].state = "HANDOVER_JOINING"
  PROVE  ctx'[c][r] = ctx[c][r] \/ \E i \in 1..Len(x2) : Accepts(i, c, r)
BY DEF AllExact, Exact, Reports, Switches, ReleasesSource, Commands, MovingStates

\* A context leaves as before or is told to.
LEMMA LeavingStep ==
  ASSUME AllExact, NEW c \in Cells, NEW r \in Rntis, ctx'[c][r].state = "HANDOVER_LEAVING"
  PROVE  ctx'[c][r] = ctx[c][r] \/ \E i \in 1..Len(x2) : Commands(i, c, r)
BY DEF AllExact, Exact, Reports, Switches, ReleasesSource, Accepts, JoinsFrom, MovingStates

\* A context whose path is being switched stays as it is, releases the source or
\* is removed with its UE.
LEMMA SwitchingStep ==
  ASSUME AllExact, NEW c \in Cells, NEW r \in Rntis,
         ctx[c][r].state = "HANDOVER_PATH_SWITCH"
  PROVE  ctx'[c][r] = ctx[c][r] \/ ReleasesSource(c, r) \/ Received("ContextRemove")
BY DEF AllExact, Exact, Reports, Switches, Accepts, Commands, MovingStates

\* A context that prepares a handover served the UE before.
LEMMA PreparesBefore ==
  ASSUME ContextSteps, NEW c \in Cells, NEW r \in Rntis,
         ctx'[c][r].state = "HANDOVER_PREPARATION"
  PROVE  Serves(c, r)
BY DEF ContextSteps, ContextStep, Serves, ServingStates, FreshStates

\* The source of a request or of its acknowledgement is in no other state than the
\* one it asked in.
LEMMA SourcePrepares ==
  ASSUME Bookkeeping, NEW i \in 1..Len(x2),
         x2[i].type \in {"HandoverRequest", "HandoverRequestAck"}
  PROVE  /\ x2[i].source \in Cells /\ x2[i].oldRnti \in Rntis
         /\ ctx[x2[i].source][x2[i].oldRnti].state \in {"ABSENT", "HANDOVER_PREPARATION"}
BY DEF Bookkeeping, MessagesKnown, Arrangements, IsSource, SourceStates

\* The message that ends a handover stays ahead of any other handover.
LEMMA EndingKept ==
  ASSUME Known, X2Near, X2Delay > 0, NEW b \in Cells, NEW r \in Rntis, IsLeaving(b, r),
         ctx'[b][r] = ctx[b][r], NEW i \in 1..Len(x2), Ending(b, r, i)
  PROVE  \E j \in 1..Len(x2') : Ending(b, r, j)'
<1>1. /\ PlacesInv /\ TypeInv /\ Bookkeeping /\ MailStep /\ ContextSteps
      /\ Bookkeeping'
  BY DEF Known, PlacesInv, IInv
<1>2. ~Taken(i)
  BY DEF Taken, Ending, IsLeaving
<1>3. PICK j \in 1..Len(x2') : x2'[j] = x2[i]
  BY <1>1, <1>2, MailKept
<1>4. ASSUME NEW k \in 1..Len(x2'), x2'[k].type \in {"HandoverRequest", "HandoverRequestAck"},
             Prepares(x2[k])'
      PROVE  /\ x2'[k].type = "HandoverRequest" => x2[i].wait <= x2'[k].wait
             /\ x2'[k].type = "HandoverRequestAck" => x2[i].wait < x2'[k].wait
  <2> DEFINE c == x2'[k].source
             q == x2'[k].oldRnti
  <2>1. c \in Cells /\ q \in Rntis /\ ctx'[c][q].state = "HANDOVER_PREPARATION"
    BY <1>1, <1>4 DEF Bookkeeping, MessagesKnown, Arrangements, IsSource, Prepares
  <2>2. Serves(c, q)
    BY <1>1, <2>1, PreparesBefore
  <2>3. ASSUME NEW l \in 1..Len(x2), x2[l].type \in {"HandoverRequest", "HandoverRequestAck"},
               x2[l].source = c, x2[l].oldRnti = q
        PROVE  Prepares(x2[l])
    BY <1>1, <2>2, <2>3, SourcePrepares DEF Prepares, Serves, ServingStates
  <2>4. CASE \E l \in 1..Len(x2) : x2'[k] = x2[l]
    BY <1>4, <2>3, <2>4 DEF Ending, Precedes
  <2>5. CASE Sent(x2'[k])
    <3>1. x2[i].wait \in Nat /\ x2[i].wait <= X2Delay /\ x2'[k].wait = X2Delay /\ X2Delay \in Nat
      BY <1>1, <2>5, Times DEF X2Near, Sent
    <3>2. CASE x2'[k].type = "HandoverRequestAck"
      <4>1. PICK l \in 1..Len(x2) : /\ x2[l].type = "HandoverRequest" /\ x2[l].wait = 0
                                    /\ x2[l].source = c /\ x2[l].oldRnti = q
        BY <2>5, <3>2 DEF Sent, Accepts
      <4>2. x2[i].wait <= 0
        BY <2>3, <4>1 DEF Ending, Precedes
      <4> QED
        BY <3>1, <3>2, <4>2
    <3> QED
      BY <1>4, <3>1, <3>2
  <2> QED
    BY <1>1, <2>4, <2>5, MailKept
<1>5. Precedes(j)'
  BY <1>3, <1>4 DEF Precedes
<1>6. Ending(b, r, j)'
  BY <1>3, <1>5 DEF Ending, Left
<1> QED
  BY <1>6

\* While a target is joined nobody serves the UE.
LEMMA Unserved ==
  ASSUME PlacesInv, NEW b \in Cells, NEW r \in Rntis, NEW t \in Cells, NEW n \in Rntis,
         Targets(b, r, t, n), IsJoining(t, n)
  PROVE  NobodyServed /\ ArrivesAt(t, n)
<1>1. TypeInv /\ Exchange /\ LeavingKnown
  BY DEF PlacesInv, IInv, Places
<1>2. ArrivesAt(t, n)
  BY <1>1 DEF LeavingKnown, Targets, IsLeaving
<1>3. ASSUME NEW c \in Cells, NEW q \in Rntis, Serves(c, q) PROVE FALSE
  <2>1. ~Received("HandoverCommand")
    BY <1>1, <1>3 DEF Exchange, NobodyServed
  <2>2. c # t \/ q # n
    BY <1>3 DEF IsJoining, Serves, ServingStates
  <2>3. CASE Received("ContextRemove")
    BY <1>1, <1>2, <1>3, <2>2, <2>3, HeadAgrees
       DEF Exchange, ServedWhereItIs, ArrivesAt, HeadIs, Received
  <2>4. CASE ~Received("ContextRemove")
    BY <1>1, <1>2, <1>3, <2>1, <2>2, <2>4, ServedHere, HeadAgrees
       DEF ArrivesAt, HeadIs, UeAt
  <2> QED
    BY <2>3, <2>4
<1> QED
  BY <1>2, <1>3 DEF NobodyServed

\* What a context that gives up joining sends.
LEMMA ReportsFailure ==
  ASSUME PlacesInv, NEW c \in Cells, NEW r \in Rntis, Reports(c, r)
  PROVE  /\ Len(x2') \in 1..Len(x2')
         /\ x2'[Len(x2')].type = "PreparationFailure"
         /\ x2'[Len(x2')].source = ctx[c][r].peer
         /\ x2'[Len(x2')].oldRnti = ctx[c][r].peerRnti
         /\ x2'[Len(x2')].wait = X2Delay
<1>1. TypeInv /\ Len(x2) \in Nat
  BY Numbers DEF PlacesInv, IInv
<1>2. PreparationFailure(c, r) \in X2Known
  BY <1>1, PreparationFailureType DEF Reports, Present
<1>3. Len(x2') = Len(x2) + 1 /\ x2'[Len(x2')] = PreparationFailure(c, r)
  BY <1>1, <1>2, AppendShape DEF Reports
<1> QED
  BY <1>1, <1>3 DEF PreparationFailure, X2

\* Where no context prepares a handover, every message precedes the next one.
LEMMA NonePrepares ==
  ASSUME Bookkeeping', \A c \in Cells, q \in Rntis : ctx'[c][q].state # "HANDOVER_PREPARATION",
         NEW i \in 1..Len(x2')
  PROVE  Precedes(i)'
<1> SUFFICES ASSUME NEW j \in 1..Len(x2'),
                    x2'[j].type \in {"HandoverRequest", "HandoverRequestAck"}
             PROVE  ~Prepares(x2[j])'
  BY DEF Precedes
<1> QED
  BY DEF Bookkeeping, MessagesKnown, Arrangements, IsSource, Prepares

\* Nobody is commanded to a cell while nobody is served.
LEMMA NoCommand ==
  ASSUME UeSteps, NobodyServed, NEW c, NEW r, HeadIsNext("HandoverCommand", c, r)
  PROVE  HeadIs("HandoverCommand", c, r)
<1>1. Rests
  BY DEF UeSteps, Selects, StartsOver, IsOffered, Requests, Arrives, Leaves, SetsUp, Moves,
         Reconfigures, Ignores, IsAnswered, Completes, IsRemoved, IsReconfigured, IsReleased,
         HeadIsNext, Silent, IsCommanded, NobodyServed
<1> QED
  BY <1>1 DEF Rests, Silent, HeadIsNext, HeadIs, Received

\* The UE is still on its way.
LEMMA StillOnItsWay ==
  ASSUME Known, NEW b \in Cells, NEW r \in Rntis, NEW t \in Cells, NEW n \in Rntis,
         Targets(b, r, t, n), OnItsWay(b, r, t, n), ctx'[b][r] = ctx[b][r],
         ctx'[t][n] = ctx[t][n]
  PROVE  OnItsWay(b, r, t, n)'
<1>1. PlacesInv /\ UeSteps /\ UeClock /\ IsJoining(t, n)
  BY DEF Known, OnItsWay, JoinsFrom, IsJoining
<1>2. NobodyServed /\ ArrivesAt(t, n)
  BY <1>1, Unserved
<1>3. HeadIs("HandoverCommand", t, n)' => HeadIs("HandoverCommand", t, n)
  BY <1>1, <1>2, NoCommand DEF HeadIs, HeadIsNext, Received
<1>4. ASSUME ue'.cell = t, ue'.rnti = n, ue'.state \in Linked
      PROVE  T310 + Left(t, n, "joining") + X2Delay <= ue'.rlf + JoiningTimeout
  <2>1. CASE Stays
    BY <1>4, <2>1 DEF Stays, OnItsWay, UeAt
  <2>2. CASE HeadIs("HandoverCommand", ue'.cell, ue'.rnti) /\ ue'.rlf = T310
    <3>1. Left(t, n, "joining") + X2Delay <= JoiningTimeout
      BY <1>4, <2>2 DEF OnItsWay
    <3> QED
      BY <1>1, <2>2, <3>1, Times
  <2>3. CASE rrc = <<>> /\ ue.state \in Linked /\ ue'.cell = ue.cell /\ ue'.rlf = ue.rlf
    <3>1. UeAt(t, n)
      BY <1>2, <2>3 DEF ArrivesAt, HeadIs, Received
    <3> QED
      BY <2>3, <3>1 DEF OnItsWay
  <2>4. ~Received("Setup")
    BY <1>2 DEF ArrivesAt, HeadIs, Received
  <2> QED
    BY <1>1, <1>4, <2>1, <2>2, <2>3, <2>4 DEF UeClock
<1> QED
  BY <1>3, <1>4 DEF OnItsWay, Left, UeAt

\* The target has given up: the failure it reports is under way.
LEMMA FailureEnds ==
  ASSUME Known, NEW b \in Cells, NEW r \in Rntis, NEW t \in Cells, NEW n \in Rntis,
         Targets(b, r, t, n), OnItsWay(b, r, t, n), ctx'[b][r] = ctx[b][r], Reports(t, n)
  PROVE  \E i \in 1..Len(x2') : Ending(b, r, i)'
<1>1. PlacesInv /\ Bookkeeping' /\ ContextSteps /\ IsJoining(t, n)
  BY DEF Known, PlacesInv, IInv, OnItsWay, JoinsFrom, IsJoining
<1>2. NobodyServed
  BY <1>1, Unserved
<1>3. \A c \in Cells, q \in Rntis : ctx'[c][q].state # "HANDOVER_PREPARATION"
  BY <1>1, <1>2, PreparesBefore DEF NobodyServed
<1> DEFINE i == Len(x2')
<1>4. /\ i \in 1..Len(x2') /\ x2'[i].type = "PreparationFailure"
      /\ x2'[i].source = b /\ x2'[i].oldRnti = r /\ x2'[i].wait = X2Delay
  BY <1>1, ReportsFailure DEF OnItsWay, JoinsFrom
<1>5. LeavingTimeout[b] + X2Delay <= Left(b, r, "leaving") + JoiningTimeout + S1Delay
  <2>1. LeavingTimeout[b] + Left(t, n, "joining") + X2Delay
           <= Left(b, r, "leaving") + JoiningTimeout
    BY DEF OnItsWay
  <2>2. /\ Left(t, n, "joining") \in Nat /\ Left(b, r, "leaving") \in Int /\ S1Delay \in Nat
        /\ LeavingTimeout[b] \in Nat /\ X2Delay \in Nat /\ JoiningTimeout \in Nat
    BY <1>1, Times
  <2> QED
    BY <2>1, <2>2
<1> HIDE DEF i
<1>6. PICK k \in 1..Len(x2') : k = i
  BY <1>4
<1>7. Precedes(k)'
  BY <1>1, <1>3, NonePrepares
<1>8. Ending(b, r, k)'
  BY <1>4, <1>5, <1>6, <1>7 DEF Ending, Left
<1> QED
  BY <1>8

\* The UE has come: the core is asked for the path.
LEMMA ComesToSwitch ==
  ASSUME Known, NEW b \in Cells, NEW r \in Rntis, NEW t \in Cells, NEW n \in Rntis,
         Targets(b, r, t, n), OnItsWay(b, r, t, n), ctx'[b][r] = ctx[b][r], Switches(t, n)
  PROVE  Switching(b, r, t, n)'
<1>1. PlacesInv /\ Exchange /\ IsJoining(t, n) /\ s1 \in Seq(S1Messages)
  BY DEF Known, PlacesInv, IInv, TypeInv, OnItsWay, JoinsFrom, IsJoining
<1>2. UeAt(t, n) /\ ue.state = "CONNECTED_NORMALLY"
  BY <1>1, HeadAgrees DEF Switches, UeAt
<1>3. /\ LeavingTimeout[b] + Left(t, n, "joining") + X2Delay
            <= Left(b, r, "leaving") + JoiningTimeout
      /\ T310 + Left(t, n, "joining") + X2Delay <= ue.rlf + JoiningTimeout
  BY <1>2 DEF OnItsWay, Linked
<1>4. /\ Left(t, n, "joining") \in Nat /\ Left(b, r, "leaving") \in Int /\ S1Delay \in Nat
      /\ LeavingTimeout[b] \in Nat /\ X2Delay \in Nat /\ JoiningTimeout \in Nat
      /\ T310 \in Nat /\ ue.rlf \in Nat
  BY <1>1, Times
<1>5. PICK i \in 1..Len(s1') : s1'[i] = [type |-> "PathSwitch", wait |-> S1Delay]
  <2>1. Len(s1) \in Nat /\ Len(s1') = Len(s1) + 1
        /\ s1'[Len(s1) + 1] = [type |-> "PathSwitch", wait |-> S1Delay]
    BY <1>1 DEF Switches
  <2> QED
    BY <2>1
<1>6. /\ LeavingTimeout[b] + X2Delay + s1'[i].wait
            <= Left(b, r, "leaving") + JoiningTimeout + S1Delay
      /\ T310 + X2Delay + s1'[i].wait <= ue.rlf + JoiningTimeout + S1Delay
  <2>1. s1'[i].wait = S1Delay
    BY <1>5
  <2> DEFINE w == s1'[i].wait
             l == Left(b, r, "leaving")
             j == Left(t, n, "joining")
             d == LeavingTimeout[b]
             f == ue.rlf
  <2>2. /\ w = S1Delay /\ l \in Int /\ j \in Nat /\ d \in Nat /\ f \in Nat
        /\ d + j + X2Delay <= l + JoiningTimeout
        /\ T310 + j + X2Delay <= f + JoiningTimeout
    BY <1>3, <1>4, <2>1
  <2> HIDE DEF w, l, j, d, f
  <2>3. d + X2Delay + w <= l + JoiningTimeout + S1Delay
    BY <1>4, <2>2
  <2>4. T310 + X2Delay + w <= f + JoiningTimeout + S1Delay
    BY <1>4, <2>2
  <2> QED
    BY <2>3, <2>4 DEF w, l, j, d, f
<1> QED
  BY <1>2, <1>6 DEF Switching, Switches, OnItsWay, JoinsFrom, UeAt, Left

\* A handover whose UE is on its way goes on.
LEMMA OnItsWayGoesOn ==
  ASSUME Known, NEW b \in Cells, NEW r \in Rntis, NEW t \in Cells, NEW n \in Rntis,
         Targets(b, r, t, n), OnItsWay(b, r, t, n), ctx'[b][r] = ctx[b][r]
  PROVE  Settling(b, r, t, n)'
<1>1. ctx'[t][n] = ctx[t][n] \/ Reports(t, n) \/ Switches(t, n)
  BY JoiningStep DEF Known, OnItsWay, JoinsFrom, IsJoining
<1> QED
  BY <1>1, StillOnItsWay, FailureEnds, ComesToSwitch DEF Settling

\* While the path is switched the UE is served at the target and nowhere else.
LEMMA ServedAtTarget ==
  ASSUME PlacesInv, stopped = "none", NEW b \in Cells, NEW r \in Rntis,
         NEW t \in Cells, NEW n \in Rntis, Switching(b, r, t, n)
  PROVE  /\ \A c \in Cells, q \in Rntis : Serves(c, q) => c = t /\ q = n
         /\ mmeCell = t /\ imsiRnti[t] = n
<1>1. Exchange /\ Served /\ ~Received("ContextRemove")
  BY DEF PlacesInv, IInv, Places, Switching, Received
<1>2. \A c \in Cells, q \in Rntis : Serves(c, q) => c = t /\ q = n
  BY <1>1, ServedHere DEF Switching, UeAt
<1>3. CoreAgrees
  BY <1>1 DEF Served, Switching
<1> QED
  BY <1>2, <1>3 DEF CoreAgrees, Switching, UeAt

\* The answer of the core, if it has come, ends the wait of the target.
LEMMA CoreAnswers ==
  ASSUME Known, NEW b \in Cells, NEW r \in Rntis, NEW t \in Cells, NEW n \in Rntis,
         Switching(b, r, t, n), S1Step
  PROVE  ctx'[t][n] # ctx[t][n]
<1>1. /\ mmeCell = t /\ imsiRnti[t] = n /\ TypeInv /\ stopped = "none" /\ stopped' = "none"
      /\ ctx[t][n].state = "HANDOVER_PATH_SWITCH"
  BY ServedAtTarget DEF Known, PlacesInv, IInv, Switching
<1>2. SwitchToState(t, n, "CONNECTION_RECONFIGURATION")
  BY <1>1 DEF S1Step, InitialContextSetupRequest, PathSwitchRequestAcknowledge, Stop
<1> DEFINE k == [ctx[t][n] EXCEPT !.state = "CONNECTION_RECONFIGURATION"]
<1>3. k.state = "CONNECTION_RECONFIGURATION"
  BY <1>1 DEF TypeInv, TimedContexts, Contexts
<1>4. SetContext(t, n, k)
  BY <1>2 DEF SwitchToState
<1> HIDE DEF k
<1>5. ctx'[t][n] = k
  BY <1>1, <1>4, SetAt
<1> QED
  BY <1>1, <1>3, <1>5

\* The target still waits for the core: the link of the UE is too fresh to fail.
LEMMA StillSwitching ==
  ASSUME Known, TimersInOrder, LeavingOnce,
         NEW b \in Cells, NEW r \in Rntis, NEW t \in Cells, NEW n \in Rntis,
         Targets(b, r, t, n), Switching(b, r, t, n), ctx'[b][r] = ctx[b][r],
         ctx'[t][n] = ctx[t][n]
  PROVE  Switching(b, r, t, n)'
<1>1. /\ PlacesInv /\ TalkStep /\ UeAt(t, n) /\ ue.state = "CONNECTED_NORMALLY"
      /\ stopped = "none"
  BY DEF Known, Switching
<1>2. \A c \in Cells, q \in Rntis : Serves(c, q) => c = t /\ q = n
  BY <1>1, ServedAtTarget
<1>3. ~RadioLinkFailureDetected
  <2>1. PICK i \in 1..Len(s1) : T310 + X2Delay + s1[i].wait <= ue.rlf + JoiningTimeout + S1Delay
    BY DEF Switching
  <2>2. /\ S1Delay \in Nat /\ X2Delay \in Nat /\ JoiningTimeout \in Nat /\ T310 \in Nat
        /\ ue.rlf \in Nat /\ s1[i].wait \in Nat
    BY <1>1, Times
  <2>3. ue.rlf # 0
    BY <2>1, <2>2 DEF TimersInOrder
  <2> QED
    BY <2>3 DEF RadioLinkFailureDetected
<1>4. ~RecvRaResponse /\ ~RandomAccessFailed
  BY <1>1 DEF RecvRaResponse, RandomAccessFailed, AccessesRandomly
<1>5. ~S1Step
  BY CoreAnswers
<1>6. ASSUME NEW i \in 1..Len(x2), NEW c \in Cells, NEW q \in Rntis, Commands(i, c, q)
      PROVE  FALSE
  BY <1>2, <1>6 DEF Commands, Serves, ServingStates, Switching
<1>7. ASSUME NEW c \in Cells, NEW q \in Rntis, Releases(c, q)
      PROVE  FALSE
  BY <1>7 DEF Releases, LeavingOnce, IsLeaving, Targets
<1>8. rrc' = <<>> /\ s1' = s1 /\ Stays
  BY <1>1, <1>3, <1>4, <1>5, <1>6, <1>7 DEF TalkStep, Linked
<1> QED
  BY <1>8 DEF Switching, Stays, UeAt, Left

\* The path has been switched: the release of the source is under way.
LEMMA ReleaseEnds ==
  ASSUME Known, NEW b \in Cells, NEW r \in Rntis, NEW t \in Cells, NEW n \in Rntis,
         Targets(b, r, t, n), Switching(b, r, t, n), ctx'[b][r] = ctx[b][r],
         ReleasesSource(t, n)
  PROVE  \E i \in 1..Len(x2') : Ending(b, r, i)'
<1>1. /\ PlacesInv /\ TypeInv /\ Bookkeeping' /\ ContextSteps /\ stopped = "none"
      /\ ctx[t][n].peer = b /\ ctx[t][n].peerRnti = r
  BY DEF Known, PlacesInv, IInv, Switching
<1>2. \A c \in Cells, q \in Rntis : ctx'[c][q].state # "HANDOVER_PREPARATION"
  BY <1>1, ServedAtTarget, PreparesBefore DEF ReleasesSource
<1> DEFINE i == Len(x2')
           m == X2("ContextRelease", b, r, t, n)
<1>3. /\ i \in 1..Len(x2') /\ x2'[i].type = "ContextRelease"
      /\ x2'[i].source = b /\ x2'[i].oldRnti = r /\ x2'[i].wait = X2Delay
  <2>1. m \in X2Known
    BY X2Type, Constants DEF ToSource
  <2>2. /\ m.type = "ContextRelease" /\ m.source = b /\ m.oldRnti = r /\ m.wait = X2Delay
        /\ x2' = Append(x2, m)
    BY <1>1 DEF X2, ReleasesSource
  <2> HIDE DEF m
  <2>3. Len(x2') = Len(x2) + 1 /\ x2'[Len(x2')] = m /\ Len(x2) \in Nat
    BY <1>1, <2>1, <2>2, AppendShape, Numbers
  <2> QED
    BY <2>2, <2>3
<1>4. LeavingTimeout[b] + X2Delay <= Left(b, r, "leaving") + JoiningTimeout + S1Delay
  <2>1. PICK k \in 1..Len(s1) :
           LeavingTimeout[b] + X2Delay + s1[k].wait
              <= Left(b, r, "leaving") + JoiningTimeout + S1Delay
    BY DEF Switching
  <2>2. /\ s1[k].wait \in Nat /\ Left(b, r, "leaving") \in Int /\ S1Delay \in Nat
        /\ LeavingTimeout[b] \in Nat /\ X2Delay \in Nat /\ JoiningTimeout \in Nat
    BY <1>1, Times
  <2> QED
    BY <2>1, <2>2
<1> HIDE DEF i, m
<1>5. PICK k \in 1..Len(x2') : k = i
  BY <1>3
<1>6. Precedes(k)'
  BY <1>1, <1>2, NonePrepares
<1>7. Ending(b, r, k)'
  BY <1>3, <1>4, <1>5, <1>6 DEF Ending, Left
<1> QED
  BY <1>7

\* A handover whose path is being switched goes on.
LEMMA SwitchingGoesOn ==
  ASSUME Known, TimersInOrder, LeavingOnce,
         NEW b \in Cells, NEW r \in Rntis, NEW t \in Cells, NEW n \in Rntis,
         Targets(b, r, t, n), Switching(b, r, t, n), ctx'[b][r] = ctx[b][r]
  PROVE  Settling(b, r, t, n)'
<1>1. AllExact /\ ctx[t][n].state = "HANDOVER_PATH_SWITCH" /\ ~Received("ContextRemove")
  BY DEF Known, Switching, Received
<1>2. ctx'[t][n] = ctx[t][n] \/ ReleasesSource(t, n)
  BY <1>1, SwitchingStep
<1> QED
  BY <1>2, StillSwitching, ReleaseEnds DEF Settling

\* The handover has just begun: the acknowledgement was timely.
LEMMA CommandGoesOn ==
  ASSUME Known, AcksTimely, NEW i \in 1..Len(x2),
         NEW b \in Cells, NEW r \in Rntis, NEW t \in Cells, NEW n \in Rntis,
         Commands(i, b, r), Targets(b, r, t, n)'
  PROVE  Settling(b, r, t, n)'
<1>1. /\ PlacesInv /\ TypeInv /\ AcksFresh /\ Exchange' /\ Bookkeeping'
  BY DEF Known, PlacesInv, IInv, Places, Whereabouts
<1>2. Offers(i, b, r, t, n) /\ x2[i].wait = 0
  BY DEF Commands, Offers, Targets
<1>3. Timely(i, b, r, t, n)
  BY <1>2 DEF AcksTimely
<1>4. /\ JoiningTimeout \in Nat /\ S1Delay \in Nat /\ X2Delay \in Nat
      /\ LeavingTimeout[b] \in Nat
      /\ Left(b, r, "leaving")' = LeavingTimeout[b]
  BY <1>1, Times DEF Commands, Left
<1>5. CASE IsJoining(t, n)
  <2>1. ctx'[t][n] = ctx[t][n]
    BY <1>5 DEF Commands, IsJoining
  <2>2. ~UeAt(t, n)
    BY <1>1, <1>2 DEF AcksFresh, UeHolds, UeAt, Offers
  <2>3. ~UeAt(t, n)'
    BY <2>2 DEF Commands, UeAt
  <2>4. JoinsFrom(ctx[t][n], b, r) /\ Left(t, n, "joining") + X2Delay <= JoiningTimeout
    BY <1>2, <1>3, <1>4, <1>5 DEF Timely
  <2>5. Left(t, n, "joining") \in Nat
    BY <1>1, <1>5, Times
  <2>6. LeavingTimeout[b] + Left(t, n, "joining") + X2Delay <= LeavingTimeout[b] + JoiningTimeout
    BY <1>4, <2>4, <2>5
  <2>7. OnItsWay(b, r, t, n)'
    BY <1>4, <2>1, <2>3, <2>4, <2>6 DEF OnItsWay, Left
  <2> QED
    BY <2>7 DEF Settling
<1>6. CASE ~IsJoining(t, n)
  <2>1. PICK j \in 1..Len(x2) : IsFailure(j, b, r) /\ x2[j].wait <= JoiningTimeout
    BY <1>2, <1>3, <1>4, <1>6 DEF Timely
  <2>2. j # i /\ x2' = Others(i)
    BY <1>2, <2>1 DEF IsFailure, Offers, Commands
  <2>3. PICK k \in 1..Len(x2') : x2'[k] = x2[j]
    <3>1. ~Taken(j)
      BY <2>1 DEF Taken, IsFailure, Commands
    <3> QED
      BY <1>1, <3>1, MailKept DEF Known
  <2>4. NobodyServed'
    BY <1>1 DEF Exchange, Commands, HeadIsNext, Received
  <2>5. Precedes(k)'
    BY <1>1, <2>4, NonePrepares DEF NobodyServed, Serves, ServingStates
  <2>6. LeavingTimeout[b] + x2[j].wait <= LeavingTimeout[b] + JoiningTimeout + S1Delay
    <3>1. x2[j].wait \in Nat
      BY <1>1, Times
    <3> QED
      BY <1>4, <2>1, <3>1
  <2>7. Ending(b, r, k)'
    BY <1>4, <2>1, <2>3, <2>5, <2>6 DEF Ending, IsFailure
  <2> QED
    BY <2>7 DEF Settling
<1> QED
  BY <1>5, <1>6

\* A handover that is about to end still is.
LEMMA EndingGoesOn ==
  ASSUME Known, X2Near, X2Delay > 0,
         NEW b \in Cells, NEW r \in Rntis, NEW t \in Cells, NEW n \in Rntis,
         Targets(b, r, t, n), ctx'[b][r] = ctx[b][r],
         NEW i \in 1..Len(x2), Ending(b, r, i)
  PROVE  Settling(b, r, t, n)'
<1>1. \E j \in 1..Len(x2') : Ending(b, r, j)'
  BY EndingKept DEF Targets
<1> QED
  BY <1>1 DEF Settling

\* Every handover that has begun goes on to its end in time.
LEMMA LeavingEndsNext ==
  ASSUME Known, TimersInOrder, Timing
  PROVE  LeavingEnds'
<1> SUFFICES ASSUME NEW b \in Cells, NEW t \in Cells, NEW r \in Rntis, NEW n \in Rntis,
                    Targets(b, r, t, n)'
             PROVE  Settling(b, r, t, n)'
  BY DEF LeavingEnds
<1>1. ctx'[b][r].state = "HANDOVER_LEAVING" /\ AllExact
  BY DEF Targets, IsLeaving, Known
<1>2. CASE \E i \in 1..Len(x2) : Commands(i, b, r)
  BY <1>2, CommandGoesOn DEF Timing
<1>3. CASE ctx'[b][r] = ctx[b][r]
  <2>1. Targets(b, r, t, n)
    BY <1>3 DEF Targets, IsLeaving
  <2>2. Settling(b, r, t, n)
    BY <2>1 DEF Timing, LeavingEnds
  <2>3. LeavingOnce /\ X2Near /\ X2Delay > 0
    BY DEF Timing, TimersInOrder
  <2> QED
    BY <1>3, <2>1, <2>2, <2>3, OnItsWayGoesOn, SwitchingGoesOn, EndingGoesOn DEF Settling
<1> QED
  BY <1>1, <1>2, <1>3, LeavingStep

\* A message that is sent takes X2Delay, and the others keep their time.
LEMMA X2NearNext ==
  ASSUME Known, X2Near
  PROVE  X2Near'
<1>1. TypeInv /\ MailStep /\ X2Delay \in Nat
  BY Times DEF Known, PlacesInv, IInv
<1> SUFFICES ASSUME NEW j \in 1..Len(x2') PROVE x2'[j].wait <= X2Delay
  BY DEF X2Near
<1>2. Sent(x2'[j]) \/ \E i \in 1..Len(x2) : x2'[j] = x2[i]
  BY <1>1, MailKept
<1> QED
  BY <1>1, <1>2 DEF Sent, X2Near

\* A failure is not taken in while an acknowledgement for the same context is still
\* on its way: it was sent after it.
LEMMA FailureStays ==
  ASSUME Known, NEW i \in 1..Len(x2), NEW b \in Cells, NEW r \in Rntis, NEW t, NEW n,
         Offers(i, b, r, t, n), NEW j \in 1..Len(x2), IsFailure(j, b, r)
  PROVE  \E k \in 1..Len(x2') : x2'[k] = x2[j]
<1>1. TypeInv /\ Bookkeeping /\ MailStep
  BY DEF Known, PlacesInv, IInv
<1>2. i # j /\ Receiver(x2[i]) = b /\ Receiver(x2[j]) = b
  BY DEF Offers, IsFailure, Receiver, ToTarget
<1>3. ~(j < i)
  BY <1>1 DEF Offers, IsFailure, Arrangements, Concerns, Bookkeeping, MessagesInOrder
<1>4. i \in 1..(j - 1)
  BY <1>1, <1>2, <1>3, Numbers
<1>5. ~Taken(j)
  BY <1>2, <1>4 DEF Taken
<1> QED
  BY <1>1, <1>5, MailKept

\* An acknowledgement on its way: the context it offers may give up meanwhile.
LEMMA StillTimely ==
  ASSUME Known, NEW i \in 1..Len(x2), NEW b \in Cells, NEW r \in Rntis,
         NEW t \in Cells, NEW n \in Rntis, Offers(i, b, r, t, n), Timely(i, b, r, t, n),
         NEW j \in 1..Len(x2'), x2'[j] = x2[i]
  PROVE  Timely(j, b, r, t, n)'
<1>1. /\ PlacesInv /\ TypeInv /\ AllExact /\ ContextSteps /\ RntisGrow /\ AcksFresh
      /\ Exchange
  BY DEF Known, PlacesInv, IInv, Places, Whereabouts
<1>2. Unreached(t, n) /\ ~UeHolds(t, n)
  BY <1>1 DEF AcksFresh, Offers
<1>3. CASE IsJoining(t, n)'
  <2>1. IsJoining(t, n)
    BY <1>1, <1>2, <1>3, JoiningBefore DEF IsJoining, Unreached
  <2>2. ctx'[t][n] = ctx[t][n]
    BY <1>1, <1>3, <2>1, JoinedStep DEF IsJoining, Accepts
  <2> QED
    BY <1>3, <2>1, <2>2 DEF Timely, Left
<1>4. CASE ~IsJoining(t, n)' /\ IsJoining(t, n)
  <2>1. Reports(t, n)
    <3>1. ctx'[t][n] # ctx[t][n]
      BY <1>4 DEF IsJoining
    <3>2. ~Switches(t, n)
      BY <1>1, <1>2, HeadAgrees DEF Switches, UeHolds
    <3> QED
      BY <1>1, <1>4, <3>1, <3>2, JoiningStep
  <2>2. JoinsFrom(ctx[t][n], b, r) /\ Left(t, n, "joining") + X2Delay <= JoiningTimeout + x2[i].wait
    BY <1>4 DEF Timely
  <2>3. PICK k \in 1..Len(x2') :
           /\ x2'[k].type = "PreparationFailure" /\ x2'[k].wait = X2Delay
           /\ x2'[k].source = b /\ x2'[k].oldRnti = r
    BY <1>1, <2>1, <2>2, ReportsFailure DEF JoinsFrom
  <2>4. /\ Left(t, n, "joining") \in Nat /\ X2Delay \in Nat /\ x2[i].wait \in Nat
        /\ JoiningTimeout \in Nat
    BY <1>1, <1>4, Times
  <2>5. X2Delay <= JoiningTimeout + x2[i].wait
    BY <2>2, <2>4
  <2> QED
    BY <1>4, <2>3, <2>5 DEF Timely, IsFailure
<1>5. CASE ~IsJoining(t, n)' /\ ~IsJoining(t, n)
  <2>1. PICK l \in 1..Len(x2) :
           IsFailure(l, b, r) /\ x2[l].wait <= JoiningTimeout + x2[i].wait
    BY <1>5 DEF Timely
  <2>2. \E k \in 1..Len(x2') : x2'[k] = x2[l]
    BY <2>1, FailureStays
  <2> QED
    BY <1>5, <2>1, <2>2 DEF Timely, IsFailure
<1> QED
  BY <1>3, <1>4, <1>5

\* Acknowledgements stay timely, and a new one is: its context was just accepted.
LEMMA AcksTimelyNext ==
  ASSUME Known, AcksTimely
  PROVE  AcksTimely'
<1>1. PlacesInv /\ TypeInv /\ MailStep
  BY DEF Known, PlacesInv, IInv
<1> SUFFICES ASSUME NEW j \in 1..Len(x2'), NEW b \in Cells, NEW t \in Cells,
                    NEW r \in Rntis, NEW n \in Rntis, Offers(j, b, r, t, n)'
             PROVE  Timely(j, b, r, t, n)'
  BY DEF AcksTimely
<1>2. CASE \E i \in 1..Len(x2) : x2'[j] = x2[i]
  <2>1. PICK i \in 1..Len(x2) : x2'[j] = x2[i]
    BY <1>2
  <2>2. Offers(i, b, r, t, n)
    BY <2>1 DEF Offers
  <2>3. Timely(i, b, r, t, n)
    BY <2>2 DEF AcksTimely
  <2> QED
    BY <2>1, <2>2, <2>3, StillTimely
<1>3. CASE Sent(x2'[j])
  <2>1. x2'[j].wait = X2Delay /\ JoinsFrom(ctx'[t][n], b, r)
        /\ ctx'[t][n].timers["joining"] = JoiningTimeout
    BY <1>3 DEF Sent, Offers, Accepts
  <2>2. X2Delay \in Nat /\ JoiningTimeout \in Nat
    BY <1>1, Times
  <2> QED
    BY <2>1, <2>2 DEF Timely, Left, IsJoining, JoinsFrom
<1> QED
  BY <1>1, <1>2, <1>3, MailKept

\* While a context leaves, the UE is not told to leave another one.
LEMMA LeavesNoOther ==
  ASSUME Known, Timing, NEW b \in Cells, NEW r \in Rntis, IsLeaving(b, r),
         NEW i \in 1..Len(x2), NEW d \in Cells, NEW q \in Rntis, Commands(i, d, q)
  PROVE  FALSE
<1>1. PlacesInv /\ LeavingKnown /\ stopped = "none"
  BY DEF Known, PlacesInv, Places
<1>2. PICK t \in Cells, n \in Rntis : Targets(b, r, t, n)
  BY <1>1 DEF LeavingKnown, HandedOut, Targets, IsLeaving
<1>3. Serves(d, q)
  BY DEF Commands, Serves, ServingStates
<1>4. CASE OnItsWay(b, r, t, n)
  BY <1>1, <1>2, <1>3, <1>4, Unserved DEF OnItsWay, JoinsFrom, IsJoining, NobodyServed
<1>5. CASE Switching(b, r, t, n)
  BY <1>1, <1>3, <1>5, ServedAtTarget DEF Switching, Commands
<1>6. ASSUME NEW k \in 1..Len(x2), Ending(b, r, k) PROVE FALSE
  <2>1. Prepares(x2[i]) /\ x2[i].type = "HandoverRequestAck" /\ x2[i].wait = 0
    BY DEF Prepares, Commands
  <2>2. x2[k].wait < 0
    BY <1>6, <2>1 DEF Ending, Precedes
  <2>3. x2[k].wait \in Nat
    BY <1>1, Times
  <2> QED
    BY <2>2, <2>3
<1> QED
  BY <1>2, <1>4, <1>5, <1>6 DEF Timing, LeavingEnds, Settling

\* No second context starts to leave.
LEMMA LeavingOnceNext ==
  ASSUME Known, Timing
  PROVE  LeavingOnce'
<1> SUFFICES ASSUME NEW b \in Cells, NEW d \in Cells, NEW r \in Rntis, NEW q \in Rntis,
                    ctx'[b][r].state = "HANDOVER_LEAVING", ctx'[d][q].state = "HANDOVER_LEAVING",
                    b # d \/ r # q
             PROVE  FALSE
  BY DEF LeavingOnce, IsLeaving
<1>1. AllExact
  BY DEF Known
<1>2. ASSUME NEW c \in Cells, NEW p \in Rntis, NEW e \in Cells, NEW s \in Rntis,
             NEW i \in 1..Len(x2), Commands(i, c, p), c # e \/ p # s,
             ctx'[e][s].state = "HANDOVER_LEAVING"
      PROVE  FALSE
  <2>1. IsLeaving(e, s)
    BY <1>2 DEF Commands, IsLeaving
  <2> QED
    BY <1>2, <2>1, LeavesNoOther
<1>3. ctx'[b][r] = ctx[b][r] /\ ctx'[d][q] = ctx[d][q]
  BY <1>1, <1>2, LeavingStep
<1> QED
  BY <1>3 DEF Timing, LeavingOnce, IsLeaving

\* The context the UE is told to go to is the one that joins.
LEMMA CommandMatches ==
  ASSUME Known, AcksTimely, NEW i \in 1..Len(x2),
         NEW b \in Cells, NEW r \in Rntis, NEW t \in Cells, NEW n \in Rntis,
         Commands(i, b, r), Targets(b, r, t, n)'
  PROVE  Matches(b, r, t, n)
<1>1. Bookkeeping
  BY DEF Known, PlacesInv, IInv
<1>2. Offers(i, b, r, t, n)
  BY DEF Commands, Offers, Targets
<1>3. Timely(i, b, r, t, n)
  BY <1>2 DEF AcksTimely
<1>4. ASSUME NEW c \in Cells, NEW q \in Rntis, JoinsFrom(ctx[c][q], b, r)
      PROVE  c = t /\ q = n
  <2>1. CASE IsJoining(t, n)
    <3>1. JoinsFrom(ctx[t][n], b, r)
      BY <1>3, <2>1 DEF Timely
    <3> QED
      BY <1>1, <1>4, <3>1 DEF Bookkeeping, JoiningOnce, JoinsFrom
  <2>2. CASE ~IsJoining(t, n)
    <3>1. PICK j \in 1..Len(x2) : IsFailure(j, b, r)
      BY <1>3, <2>2 DEF Timely
    <3> QED
      BY <1>1, <1>4, <3>1 DEF Bookkeeping, JoiningAlone, Arrangements, IsFailure
  <2> QED
    BY <2>1, <2>2
<1> QED
  BY <1>3, <1>4 DEF Matches, Timely

\* What joins stays matched with what leaves.
LEMMA JoinsTargetNext ==
  ASSUME Known, Timing
  PROVE  JoinsTarget'
<1> SUFFICES ASSUME NEW b \in Cells, NEW t \in Cells, NEW r \in Rntis, NEW n \in Rntis,
                    Targets(b, r, t, n)'
             PROVE  Matches(b, r, t, n)'
  BY DEF JoinsTarget
<1>1. /\ AllExact /\ TypeInv /\ Bookkeeping /\ LeavingKnown /\ ContextSteps /\ RntisGrow
      /\ ctx'[b][r].state = "HANDOVER_LEAVING"
  BY DEF Known, PlacesInv, IInv, Places, Targets, IsLeaving
<1>2. CASE \E i \in 1..Len(x2) : Commands(i, b, r)
  <2>1. PICK i \in 1..Len(x2) : Commands(i, b, r)
    BY <1>2
  <2>2. Matches(b, r, t, n)
    BY <2>1, CommandMatches DEF Timing
  <2>3. \A c \in Cells, q \in Rntis :
           ctx'[c][q].state = "HANDOVER_JOINING" => ctx'[c][q] = ctx[c][q]
    BY <1>1, <2>1 DEF Commands
  <2> QED
    BY <2>2, <2>3 DEF Matches, IsJoining, JoinsFrom
<1>3. CASE ctx'[b][r] = ctx[b][r]
  <2>1. Targets(b, r, t, n)
    BY <1>3 DEF Targets, IsLeaving
  <2>2. Matches(b, r, t, n)
    BY <2>1 DEF Timing, JoinsTarget
  <2>3. ASSUME NEW c \in Cells, NEW q \in Rntis, JoinsFrom(ctx'[c][q], b, r)
        PROVE  JoinsFrom(ctx[c][q], b, r)
    <3>1. ctx'[c][q].state = "HANDOVER_JOINING"
      BY <2>3 DEF JoinsFrom
    <3>2. ASSUME NEW i \in 1..Len(x2), Accepts(i, c, q) PROVE FALSE
      <4>1. x2[i].type = "HandoverRequest" /\ x2[i].source = b /\ x2[i].oldRnti = r
        BY <2>3, <3>2 DEF Accepts, JoinsFrom
      <4> QED
        BY <1>1, <2>1, <4>1, SourcePrepares DEF Targets, IsLeaving
    <3> QED
      BY <1>1, <2>3, <3>1, <3>2, JoinedStep
  <2>4. ASSUME IsJoining(t, n)' PROVE JoinsFrom(ctx'[t][n], b, r)
    <3>1. n <= lastRnti[t]
      BY <1>1, <2>1 DEF LeavingKnown, HandedOut, Targets, IsLeaving
    <3>2. IsJoining(t, n) /\ ctx'[t][n].state = "HANDOVER_JOINING"
      BY <1>1, <2>4, <3>1, JoiningBefore DEF IsJoining
    <3>3. ctx'[t][n] = ctx[t][n]
      BY <1>1, <3>2, JoinedStep DEF IsJoining, Accepts
    <3> QED
      BY <2>2, <3>2, <3>3 DEF Matches
  <2> QED
    BY <2>2, <2>3, <2>4 DEF Matches
<1> QED
  BY <1>1, <1>2, <1>3, LeavingStep

\* A step that goes on keeps the time.
LEMMA TimingGoes ==
  ASSUME PlacesInv, PlacesInv', TimersInOrder, Timing, Goes
  PROVE  Timing'
<1>1. Known
  BY KnownNext
<1>2. X2Near /\ AcksTimely
  BY DEF Timing
<1>3. X2Near' /\ AcksTimely'
  BY <1>1, <1>2, X2NearNext, AcksTimelyNext
<1>4. LeavingOnce' /\ JoinsTarget' /\ LeavingEnds'
  BY <1>1, LeavingOnceNext, JoinsTargetNext, LeavingEndsNext
<1> QED
  BY <1>3, <1>4 DEF Timing

\* A step that changes nothing but stopped.
LEMMA TimingFrozen ==
  ASSUME Timing, UNCHANGED <<network, core, ue, rrc, x2>>
  PROVE  Timing'
<1>1. UNCHANGED <<ctx, ue, rrc, x2, s1>>
  BY DEF network, core
<1>2. X2Near' /\ LeavingOnce' /\ JoinsTarget'
  BY <1>1 DEF Timing, X2Near, LeavingOnce, IsLeaving, JoinsTarget, Targets, Matches, IsJoining
<1>3. AcksTimely'
  BY <1>1 DEF Timing, AcksTimely, Offers, Timely, IsJoining, IsFailure, Left
<1>4. ASSUME NEW b, NEW r, NEW t, NEW n, Settling(b, r, t, n)
      PROVE  Settling(b, r, t, n)'
  BY <1>1, <1>4
     DEF Settling, OnItsWay, Switching, Ending, Precedes, Prepares, Left, HeadIs, Received, UeAt
<1>5. LeavingEnds'
  BY <1>1, <1>4 DEF Timing, LeavingEnds, Targets, IsLeaving
<1> QED
  BY <1>2, <1>3, <1>5 DEF Timing

\* When time passes, every timer and every delay that matters becomes shorter.
Shorter ==
    /\ rrc = <<>> /\ rrc' = <<>>
    /\ ue'.state = ue.state /\ ue'.cell = ue.cell /\ ue'.rnti = ue.rnti
    /\ ue'.rlf \in Nat /\ ue.rlf <= ue'.rlf + 1 /\ ue'.ra \in Nat
    /\ ue.state = "CONNECTED_HANDOVER" => ue.ra <= ue'.ra + 1
    /\ Len(x2') = Len(x2)
    /\ \A i \in 1..Len(x2) : SameButTime(x2'[i], x2[i]) /\ x2'[i].wait = x2[i].wait - 1
    /\ Len(s1') = Len(s1)
    /\ \A i \in 1..Len(s1) : s1'[i].type = s1[i].type /\ s1'[i].wait = s1[i].wait - 1
    /\ \A c \in Cells, r \in Rntis :
          /\ ctx'[c][r].state = ctx[c][r].state
          /\ ctx'[c][r].peer = ctx[c][r].peer /\ ctx'[c][r].peerRnti = ctx[c][r].peerRnti
          /\ IsJoining(c, r) => Left(c, r, "joining")' = Left(c, r, "joining") - 1
          /\ IsLeaving(c, r) => Left(c, r, "leaving")' = Left(c, r, "leaving") - 1

\* Tick takes one from each of them, since none is 0.
LEMMA TickShortens ==
  ASSUME PlacesInv, Tick
  PROVE  Shorter
<1>1. TypeInv /\ Len(x2) \in Nat
  BY Numbers DEF PlacesInv, IInv
<1>2. /\ rrc = <<>> /\ rrc' = <<>>
      /\ ue'.state = ue.state /\ ue'.cell = ue.cell /\ ue'.rnti = ue.rnti
      /\ ue'.rlf = Minus1(ue.rlf) /\ ue'.ra = Minus1(ue.ra)
  <2>1. ue \in UeRrcs
    BY <1>1 DEF TypeInv, UesInCells
  <2> QED
    BY <2>1 DEF Tick, Running, UeRrcs
<1>3. ue.rlf <= ue'.rlf + 1 /\ ue.ra <= ue'.ra + 1 /\ ue'.rlf \in Nat /\ ue'.ra \in Nat
  BY <1>2, Times DEF Minus1
<1>4. /\ Len(x2') = Len(x2)
      /\ \A i \in 1..Len(x2) : SameButTime(x2'[i], x2[i]) /\ x2'[i].wait = x2[i].wait - 1
  <2>1. \A i \in 1..Len(x2) : x2[i].wait \in Nat \ {0}
    BY Times DEF Tick, Urgent
  <2> QED
    BY <1>1, <2>1, TickShape DEF Minus1
<1>5. /\ Len(s1') = Len(s1)
      /\ \A i \in 1..Len(s1) : s1'[i].type = s1[i].type /\ s1'[i].wait = s1[i].wait - 1
  <2>1. \A i \in 1..Len(s1) : s1[i].wait \in Nat \ {0}
    BY Times DEF Tick, Urgent
  <2>2. Len(s1) \in Nat /\ s1 \in Seq(S1Messages)
    BY <1>1 DEF TypeInv
  <2>3. s1' = [i \in 1..Len(s1) |-> [s1[i] EXCEPT !.wait = Minus1(@)]]
    BY DEF Tick
  <2>4. Len(s1') = Len(s1)
    BY <2>2, <2>3
  <2>5. ASSUME NEW i \in 1..Len(s1)
        PROVE  s1'[i].type = s1[i].type /\ s1'[i].wait = s1[i].wait - 1
    <3>1. s1[i] \in S1Messages
      BY <2>2
    <3>2. s1'[i] = [s1[i] EXCEPT !.wait = Minus1(@)]
      BY <2>3
    <3>3. s1'[i].type = s1[i].type /\ s1'[i].wait = Minus1(s1[i].wait)
      BY <3>1, <3>2 DEF S1Messages
    <3> QED
      BY <2>1, <3>3 DEF Minus1
  <2> QED
    BY <2>4, <2>5
<1>6. ASSUME NEW c \in Cells, NEW r \in Rntis
      PROVE  /\ ctx'[c][r].state = ctx[c][r].state
             /\ ctx'[c][r].peer = ctx[c][r].peer /\ ctx'[c][r].peerRnti = ctx[c][r].peerRnti
             /\ IsJoining(c, r) => Left(c, r, "joining")' = Left(c, r, "joining") - 1
             /\ IsLeaving(c, r) => Left(c, r, "leaving")' = Left(c, r, "leaving") - 1
  <2>1. /\ ctx'[c][r].state = ctx[c][r].state
        /\ ctx'[c][r].peer = ctx[c][r].peer /\ ctx'[c][r].peerRnti = ctx[c][r].peerRnti
        /\ \A t \in Timers : ctx'[c][r].timers[t] = Minus1(ctx[c][r].timers[t])
    BY <1>1, TickContext
  <2>2. /\ IsJoining(c, r) => Left(c, r, "joining") \in Nat
        /\ IsLeaving(c, r) => Left(c, r, "leaving") \in Nat
    BY Times
  <2>3. \A t \in Timers : ctx[c][r].timers[t] # 0
    BY DEF Tick, Urgent, Expired
  <2>4. "joining" \in Timers /\ "leaving" \in Timers
    BY DEF Timers
  <2> QED
    BY <2>1, <2>2, <2>3, <2>4 DEF Left, Minus1
<1> QED
  BY <1>2, <1>3, <1>4, <1>5, <1>6 DEF Shorter

\* The source of a message prepares a handover as before.
LEMMA TickPrecedes ==
  ASSUME PlacesInv, Shorter, NEW i \in 1..Len(x2), Precedes(i)
  PROVE  Precedes(i)'
<1> SUFFICES ASSUME NEW j \in 1..Len(x2'), Prepares(x2[j])',
                    x2'[j].type \in {"HandoverRequest", "HandoverRequestAck"}
             PROVE  /\ x2'[j].type = "HandoverRequest" => x2'[i].wait <= x2'[j].wait
                    /\ x2'[j].type = "HandoverRequestAck" => x2'[i].wait < x2'[j].wait
  BY DEF Precedes
<1>1. /\ j \in 1..Len(x2) /\ SameButTime(x2'[j], x2[j])
      /\ x2'[j].wait = x2[j].wait - 1 /\ x2'[i].wait = x2[i].wait - 1
      /\ x2[i].wait \in Nat /\ x2[j].wait \in Nat
  BY Times DEF Shorter
<1>2. Prepares(x2[j])
  BY <1>1, SourcePrepares DEF Prepares, SameButTime, SameMessage, Shorter, PlacesInv, IInv
<1> QED
  BY <1>1, <1>2 DEF Precedes, SameButTime, SameMessage

\* Time passes for a handover.
LEMMA TickSettles ==
  ASSUME PlacesInv, Shorter, NEW b \in Cells, NEW r \in Rntis, NEW t \in Cells, NEW n \in Rntis,
         IsLeaving(b, r), Settling(b, r, t, n)
  PROVE  Settling(b, r, t, n)'
<1>1. /\ X2Delay \in Nat /\ S1Delay \in Nat /\ JoiningTimeout \in Nat /\ T310 \in Nat
      /\ ue.rlf \in Nat /\ LeavingTimeout[b] \in Nat
      /\ Left(b, r, "leaving") \in Nat
      /\ Left(b, r, "leaving")' = Left(b, r, "leaving") - 1
  BY Times DEF Shorter
<1>2. CASE OnItsWay(b, r, t, n)
  <2>1. JoinsFrom(ctx[t][n], b, r) /\ IsJoining(t, n)
    BY <1>2 DEF OnItsWay, JoinsFrom, IsJoining
  <2>2. JoinsFrom(ctx'[t][n], b, r)
    BY <2>1 DEF JoinsFrom, Shorter
  <2>3. /\ Left(t, n, "joining")' = Left(t, n, "joining") - 1
        /\ Left(t, n, "joining") \in Nat
    BY <2>1, Times DEF Shorter
  <2>4. LeavingTimeout[b] + Left(t, n, "joining")' + X2Delay
           <= Left(b, r, "leaving")' + JoiningTimeout
    <3>1. LeavingTimeout[b] + Left(t, n, "joining") + X2Delay
             <= Left(b, r, "leaving") + JoiningTimeout
      BY <1>2 DEF OnItsWay
    <3> QED
      BY <1>1, <2>3, <3>1
  <2>5. ASSUME UeAt(t, n)', ue'.state \in Linked
        PROVE  T310 + Left(t, n, "joining")' + X2Delay <= ue'.rlf + JoiningTimeout
    <3>1. T310 + Left(t, n, "joining") + X2Delay <= ue.rlf + JoiningTimeout
      BY <1>2, <2>5 DEF OnItsWay, UeAt, Shorter
    <3>2. ue.rlf <= ue'.rlf + 1 /\ ue'.rlf \in Int
      BY DEF Shorter
    <3> QED
      BY <1>1, <2>3, <3>1, <3>2
  <2>6. OnItsWay(b, r, t, n)'
    BY <2>2, <2>4, <2>5 DEF OnItsWay, HeadIs, Received, Shorter
  <2> QED
    BY <2>6 DEF Settling
<1>3. CASE Switching(b, r, t, n)
  <2>1. PICK i \in 1..Len(s1) :
           /\ LeavingTimeout[b] + X2Delay + s1[i].wait
                 <= Left(b, r, "leaving") + JoiningTimeout + S1Delay
           /\ T310 + X2Delay + s1[i].wait <= ue.rlf + JoiningTimeout + S1Delay
    BY <1>3 DEF Switching
  <2>2. /\ s1[i].wait \in Nat /\ s1'[i].wait = s1[i].wait - 1 /\ i \in 1..Len(s1')
        /\ ue.rlf <= ue'.rlf + 1 /\ ue'.rlf \in Int
    BY Times DEF Shorter
  <2>3. /\ LeavingTimeout[b] + X2Delay + s1'[i].wait
              <= Left(b, r, "leaving")' + JoiningTimeout + S1Delay
        /\ T310 + X2Delay + s1'[i].wait <= ue'.rlf + JoiningTimeout + S1Delay
    <3> DEFINE w == s1[i].wait
               l == Left(b, r, "leaving")
               d == LeavingTimeout[b]
               f == ue'.rlf
    <3>1. /\ w \in Nat /\ l \in Nat /\ d \in Nat /\ f \in Int
          /\ d + X2Delay + w <= l + JoiningTimeout + S1Delay
          /\ T310 + X2Delay + w <= ue.rlf + JoiningTimeout + S1Delay
          /\ ue.rlf <= f + 1
      BY <1>1, <2>1, <2>2
    <3> HIDE DEF w, l, d, f
    <3>2. d + X2Delay + (w - 1) <= (l - 1) + JoiningTimeout + S1Delay
      BY <1>1, <3>1
    <3>3. T310 + X2Delay + (w - 1) <= f + JoiningTimeout + S1Delay
      BY <1>1, <3>1
    <3> QED
      BY <1>1, <2>2, <3>2, <3>3 DEF w, l, d, f
  <2>4. Switching(b, r, t, n)'
    BY <1>3, <2>2, <2>3 DEF Switching, UeAt, Shorter
  <2> QED
    BY <2>4 DEF Settling
<1>4. ASSUME NEW i \in 1..Len(x2), Ending(b, r, i) PROVE Settling(b, r, t, n)'
  <2>1. /\ i \in 1..Len(x2') /\ x2[i].wait \in Nat /\ x2'[i].wait = x2[i].wait - 1
        /\ SameButTime(x2'[i], x2[i])
    BY Times DEF Shorter
  <2>2. LeavingTimeout[b] + x2'[i].wait <= Left(b, r, "leaving")' + JoiningTimeout + S1Delay
    <3> DEFINE w == x2[i].wait
               l == Left(b, r, "leaving")
               d == LeavingTimeout[b]
    <3>1. /\ w \in Nat /\ l \in Nat /\ d \in Nat
          /\ d + w <= l + JoiningTimeout + S1Delay
      BY <1>1, <1>4, <2>1 DEF Ending
    <3> HIDE DEF w, l, d
    <3>2. d + (w - 1) <= (l - 1) + JoiningTimeout + S1Delay
      BY <1>1, <3>1
    <3> QED
      BY <1>1, <2>1, <3>2 DEF w, l, d
  <2>3. Precedes(i)'
    BY <1>4, TickPrecedes DEF Ending
  <2>4. Ending(b, r, i)'
    BY <1>4, <2>1, <2>2, <2>3 DEF Ending, SameButTime, SameMessage
  <2> QED
    BY <2>1, <2>4 DEF Settling
<1> QED
  BY <1>2, <1>3, <1>4 DEF Settling

\* The passing of time keeps the time.
LEMMA TimingTick ==
  ASSUME PlacesInv, Timing, Tick
  PROVE  Timing'
<1>1. Shorter
  BY TickShortens
<1>2. /\ \A i \in 1..Len(x2) : x2[i].wait \in Nat
      /\ X2Delay \in Nat /\ JoiningTimeout \in Nat
      /\ \A c \in Cells, r \in Rntis : IsJoining(c, r) => Left(c, r, "joining") \in Nat
  BY Times
<1>3. X2Near'
  BY <1>1, <1>2 DEF Timing, X2Near, Shorter
<1>4. LeavingOnce' /\ JoinsTarget'
  <2>1. LeavingOnce'
    BY <1>1 DEF Timing, LeavingOnce, IsLeaving, Shorter
  <2>2. JoinsTarget'
    <3> SUFFICES ASSUME NEW b \in Cells, NEW t \in Cells, NEW r \in Rntis, NEW n \in Rntis,
                        Targets(b, r, t, n)'
                 PROVE  Matches(b, r, t, n)'
      BY DEF JoinsTarget
    <3>1. Targets(b, r, t, n)
      BY <1>1 DEF Shorter, Targets, IsLeaving
    <3>2. Matches(b, r, t, n)
      BY <3>1 DEF Timing, JoinsTarget
    <3>3. \A c \in Cells, q \in Rntis : JoinsFrom(ctx'[c][q], b, r) <=> JoinsFrom(ctx[c][q], b, r)
      BY <1>1 DEF Shorter, JoinsFrom
    <3> QED
      BY <1>1, <3>2, <3>3 DEF Matches, IsJoining, Shorter
  <2> QED
    BY <2>1, <2>2
<1>5. AcksTimely'
  <2> SUFFICES ASSUME NEW i \in 1..Len(x2'), NEW b \in Cells, NEW t \in Cells,
                      NEW r \in Rntis, NEW n \in Rntis, Offers(i, b, r, t, n)'
               PROVE  Timely(i, b, r, t, n)'
    BY DEF AcksTimely
  <2>1. i \in 1..Len(x2) /\ Offers(i, b, r, t, n) /\ x2'[i].wait = x2[i].wait - 1
    BY <1>1 DEF Shorter, Offers, SameButTime, SameMessage
  <2>2. Timely(i, b, r, t, n)
    BY <2>1 DEF Timing, AcksTimely
  <2>3. CASE IsJoining(t, n)
    <3>1. /\ Left(t, n, "joining")' = Left(t, n, "joining") - 1
          /\ Left(t, n, "joining") \in Nat /\ x2[i].wait \in Nat
      BY <1>1, <1>2, <2>1, <2>3 DEF Shorter
    <3>2. JoinsFrom(ctx[t][n], b, r)
          /\ Left(t, n, "joining") + X2Delay <= JoiningTimeout + x2[i].wait
      BY <2>2, <2>3 DEF Timely
    <3>3. Left(t, n, "joining")' + X2Delay <= JoiningTimeout + x2'[i].wait
      BY <1>2, <2>1, <3>1, <3>2
    <3>4. JoinsFrom(ctx'[t][n], b, r)
      BY <1>1, <3>2 DEF Shorter, JoinsFrom
    <3> QED
      BY <3>3, <3>4 DEF Timely, IsJoining, JoinsFrom
  <2>4. CASE ~IsJoining(t, n)
    <3>1. PICK j \in 1..Len(x2) :
             IsFailure(j, b, r) /\ x2[j].wait <= JoiningTimeout + x2[i].wait
      BY <2>2, <2>4 DEF Timely
    <3>2. /\ j \in 1..Len(x2') /\ IsFailure(j, b, r)' /\ x2'[j].wait = x2[j].wait - 1
          /\ x2[j].wait \in Nat /\ x2[i].wait \in Nat
      BY <1>1, <1>2, <2>1, <3>1 DEF Shorter, IsFailure, SameButTime, SameMessage
    <3>3. x2'[j].wait <= JoiningTimeout + x2'[i].wait
      BY <1>2, <2>1, <3>1, <3>2
    <3> QED
      BY <1>1, <2>4, <3>2, <3>3 DEF Timely, IsJoining, Shorter
  <2> QED
    BY <2>3, <2>4
<1>6. LeavingEnds'
  <2> SUFFICES ASSUME NEW b \in Cells, NEW t \in Cells, NEW r \in Rntis, NEW n \in Rntis,
                      Targets(b, r, t, n)'
               PROVE  Settling(b, r, t, n)'
    BY DEF LeavingEnds
  <2>1. Targets(b, r, t, n) /\ IsLeaving(b, r)
    BY <1>1 DEF Shorter, Targets, IsLeaving
  <2> QED
    BY <1>1, <2>1, TickSettles DEF Timing, LeavingEnds
<1> QED
  BY <1>3, <1>4, <1>5, <1>6 DEF Timing

\* Nothing is timed at first.
LEMMA TimingInit ==
  ASSUME Init
  PROVE  Timing
<1>1. x2 = <<>> /\ \A c \in Cells, r \in Rntis : ctx[c][r].state = "ABSENT"
  BY DEF Init, Absent
<1>2. \A c \in Cells, r \in Rntis : ~IsLeaving(c, r)
  BY <1>1 DEF IsLeaving
<1>3. X2Near /\ AcksTimely
  BY <1>1 DEF X2Near, AcksTimely
<1> QED
  BY <1>2, <1>3 DEF Timing, LeavingOnce, JoinsTarget, LeavingEnds, Targets

\* Every step keeps the time.
LEMMA TimingNext ==
  ASSUME TimersInOrder, PlacesInv, PlacesInv', Timing, [Next]_vars
  PROVE  Timing'
<1>1. CASE Tick
  BY <1>1, TimingTick
<1>2. CASE Goes
  BY <1>2, TimingGoes
<1> QED
  BY <1>1, <1>2, StopFreezes, TimingFrozen

\* The inductive invariant holds.
LEMMA TimingHolds ==
  ASSUME TimersInOrder
  PROVE  Spec => []Timing
<1>1. Init => Timing
  BY TimingInit
<1>2. PlacesInv /\ PlacesInv' /\ Timing /\ [Next]_vars => Timing'
  BY TimingNext
<1> QED
  BY <1>1, <1>2, PlacesHold, PTL DEF Spec

\* The leaving timer does not end a handover when it is long enough.
LEMMA TargetFirst ==
  ASSUME PlacesInv, Timing
  PROVE  TargetSettlesFirst
<1> SUFFICES ASSUME NEW b \in Cells, NEW r \in Rntis, Expired(b, r, "leaving")
             PROVE  ~LongLeavingTimer(b)
  BY DEF TargetSettlesFirst
<1>1. TypeInv /\ LeavingKnown
  BY DEF PlacesInv, IInv, Places
<1>2. IsLeaving(b, r) /\ Left(b, r, "leaving") = 0
  <2>1. ctx[b][r] \in TimedContexts /\ "leaving" \in Timers /\ Off # 0
    BY <1>1 DEF TypeInv, Timers, Off
  <2> QED
    BY <2>1 DEF TimedContexts, Awaits, IsLeaving, Left, Expired
<1>3. PICK t \in Cells, n \in Rntis : Targets(b, r, t, n)
  BY <1>1, <1>2 DEF LeavingKnown, HandedOut, Targets, IsLeaving
<1>4. Settling(b, r, t, n)
  BY <1>3 DEF Timing, LeavingEnds
<1>5. /\ X2Delay \in Nat /\ S1Delay \in Nat /\ JoiningTimeout \in Nat
      /\ LeavingTimeout[b] \in Nat
      /\ IsJoining(t, n) => Left(t, n, "joining") \in Nat
      /\ \A i \in 1..Len(x2) : x2[i].wait \in Nat
      /\ \A i \in 1..Len(s1) : s1[i].wait \in Nat
  BY Times
<1>6. LeavingTimeout[b] <= JoiningTimeout + S1Delay
  <2>1. CASE OnItsWay(b, r, t, n)
    <3>1. IsJoining(t, n) /\ LeavingTimeout[b] + Left(t, n, "joining") + X2Delay <= JoiningTimeout
      BY <1>2, <1>5, <2>1 DEF OnItsWay, JoinsFrom, IsJoining
    <3> QED
      BY <1>5, <3>1
  <2>2. CASE Switching(b, r, t, n)
    <3>1. PICK i \in 1..Len(s1) :
             LeavingTimeout[b] + X2Delay + s1[i].wait
                <= Left(b, r, "leaving") + JoiningTimeout + S1Delay
      BY <2>2 DEF Switching
    <3>2. s1[i].wait \in Nat
      BY <1>5
    <3> QED
      BY <1>2, <1>5, <3>1, <3>2
  <2>3. ASSUME NEW i \in 1..Len(x2), Ending(b, r, i)
        PROVE  LeavingTimeout[b] <= JoiningTimeout + S1Delay
    <3>1. /\ x2[i].wait \in Nat
          /\ LeavingTimeout[b] + x2[i].wait <= Left(b, r, "leaving") + JoiningTimeout + S1Delay
      BY <1>5, <2>3 DEF Ending
    <3> QED
      BY <1>2, <1>5, <3>1
  <2> QED
    BY <1>4, <2>1, <2>2, <2>3 DEF Settling
<1> QED
  BY <1>5, <1>6 DEF LongLeavingTimer

\* A handover is always settled by the target, with the release of the source or with
\* a handover preparation failure, and HandoverLeavingTimeout never runs in a cell
\* whose leaving timer is longer than the joining timer and the path switch together.
THEOREM TargetSettles ==
  ASSUME TimersInOrder
  PROVE  Spec => []TargetSettlesFirst
<1>1. PlacesInv /\ Timing => TargetSettlesFirst
  BY TargetFirst
<1> QED
  BY <1>1, PlacesHold, TimingHolds, PTL

(***************************************************************************)
(* Releases: where the UE is when its source learns that the target has    *)
(* given up.                                                               *)
(***************************************************************************)

\* The random access of a handover that gets no response ends after the target has
\* given up.
AccessOutlastsJoining == JoiningTimeout < RaTicks

\* In w ticks at the latest RNTI r of cell b learns that RNTI n of cell t has given
\* up, if the UE does not come there.
GivesUpIn(b, r, t, n, w) ==
    \/ JoinsFrom(ctx[t][n], b, r) /\ w = Left(t, n, "joining") + X2Delay
    \/ \E i \in 1..Len(x2) : IsFailure(i, b, r) /\ w = x2[i].wait

\* The UE is told to go to RNTI n of cell t, or goes there and will for more than w
\* ticks.
Awaited(t, n, w) ==
    \/ HeadIs("HandoverCommand", t, n) /\ w <= JoiningTimeout
    \/ /\ UeAt(t, n) /\ ue.state = "CONNECTED_HANDOVER" /\ rrc = <<>>
       /\ RaTicks + w <= ue.ra + JoiningTimeout

\* The UE arrives at cell t, at RNTI n as long as it waits, or else where nothing
\* waits for it.
Arriving(b, r, t, n) ==
    /\ HeadIs("ReconfigurationCompleted", ue.cell, ue.rnti)
    /\ ue.cell = t /\ ue.rnti \in Rntis
    /\ \/ ctx[t][ue.rnti].state \in {"ABSENT", "INITIAL_RANDOM_ACCESS"}
       \/ ue.rnti = n /\ JoinsFrom(ctx[t][n], b, r)

\* No source learns of a failure before its UE has come to the target or while the
\* UE has given up on it.
AwaitsTarget ==
    \A b, t \in Cells : \A r, n \in Rntis : \A w \in Nat :
        Targets(b, r, t, n) /\ GivesUpIn(b, r, t, n, w)
            => Awaited(t, n, w) \/ Arriving(b, r, t, n)

\* A release from a cell with a long leaving timer finds the UE on its way.
ReleaseLate ==
    Received("Release") =>
        ~LongLeavingTimer(Head(rrc).cell) \/ ue.state = "CONNECTED_HANDOVER"

\* What the target does was known to the source as early before.
LEMMA GivesUpBefore ==
  ASSUME Known, Timing, NEW b \in Cells, NEW r \in Rntis, NEW t \in Cells, NEW n \in Rntis,
         Targets(b, r, t, n), ctx'[b][r] = ctx[b][r],
         NEW w \in Nat, GivesUpIn(b, r, t, n, w)'
  PROVE  \E v \in Nat : w <= v /\ GivesUpIn(b, r, t, n, v)
<1>1. PlacesInv /\ TypeInv /\ AllExact /\ MailStep /\ Bookkeeping
  BY DEF Known, PlacesInv, IInv
<1>2. ~\E i \in 1..Len(x2) : /\ x2[i].type = "HandoverRequest"
                             /\ x2[i].source = b /\ x2[i].oldRnti = r
  BY <1>1, SourcePrepares DEF Targets, IsLeaving
<1>3. CASE JoinsFrom(ctx'[t][n], b, r) /\ w = Left(t, n, "joining")' + X2Delay
  <2>1. ctx'[t][n] = ctx[t][n]
    BY <1>1, <1>2, <1>3, JoinedStep DEF JoinsFrom, Accepts
  <2>2. GivesUpIn(b, r, t, n, w)
    BY <1>3, <2>1 DEF GivesUpIn, Left
  <2> QED
    BY <2>2
<1>4. ASSUME NEW j \in 1..Len(x2'), IsFailure(j, b, r)', w = x2'[j].wait
      PROVE  \E v \in Nat : w <= v /\ GivesUpIn(b, r, t, n, v)
  <2>1. CASE \E i \in 1..Len(x2) : x2'[j] = x2[i]
    <3>1. GivesUpIn(b, r, t, n, w)
      BY <1>4, <2>1 DEF GivesUpIn, IsFailure
    <3> QED
      BY <3>1
  <2>2. CASE Sent(x2'[j])
    <3>1. PICK c \in Cells, q \in Rntis : Reports(c, q) /\ JoinsFrom(ctx[c][q], b, r)
      BY <1>2, <1>4, <2>2 DEF Sent, IsFailure, Reports, JoinsFrom
    <3>2. c = t /\ q = n
      BY <3>1 DEF Timing, JoinsTarget, Matches
    <3>3. Left(t, n, "joining") \in Nat /\ X2Delay \in Nat /\ w = X2Delay
      BY <1>1, <1>4, <2>2, <3>1, <3>2, Times DEF Sent, JoinsFrom, IsJoining
    <3> DEFINE v == Left(t, n, "joining") + X2Delay
    <3>4. v \in Nat /\ w <= v
      BY <3>3
    <3>5. GivesUpIn(b, r, t, n, v)
      BY <3>1, <3>2 DEF GivesUpIn
    <3> QED
      BY <3>4, <3>5
  <2> QED
    BY <1>1, <2>1, <2>2, MailKept
<1> QED
  BY <1>3, <1>4 DEF GivesUpIn

\* A UE on its way goes on or arrives.
LEMMA StillAwaited ==
  ASSUME Known, Timing, AccessOutlastsJoining,
         NEW b \in Cells, NEW r \in Rntis, NEW t \in Cells, NEW n \in Rntis,
         Targets(b, r, t, n), ctx'[b][r] = ctx[b][r], NEW w \in Nat, Awaited(t, n, w)
  PROVE  Awaited(t, n, w)' \/ Arriving(b, r, t, n)'
<1>1. /\ PlacesInv /\ TypeInv /\ Exchange /\ Heading /\ stopped = "none" /\ stopped' = "none"
      /\ JoiningTimeout \in Nat /\ RaTicks \in Nat /\ ue.ra \in Nat
  BY Times DEF Known, PlacesInv, IInv, Places, Whereabouts
<1>2. CASE HeadIs("HandoverCommand", t, n) /\ w <= JoiningTimeout
  <2>1. RecvHandoverCommand
    BY <1>2 DEF Known, HeadIs, RrcStep, Received, RecvRrcConnectionRequest, RecvRrcConnectionSetup,
       RecvRrcConnectionReject, RecvRrcConnectionSetupCompleted,
       RecvRrcConnectionReconfiguration, RecvRrcConnectionReconfigurationCompleted,
       RecvRrcConnectionRelease, RecvIdealUeContextRemoveRequest
  <2>2. rrc' = <<>>
    BY <1>1, <1>2, <2>1, RrcTaken DEF RecvHandoverCommand, Stop, HeadIs, Received
  <2>3. ue'.state = "CONNECTED_HANDOVER" /\ ue'.cell = t /\ ue'.rnti = n /\ ue'.ra = RaTicks
    <3>1. ue \in UeRrcs
      BY <1>1, UeType
    <3>2. ue' = [ue EXCEPT !.state = "CONNECTED_HANDOVER", !.cell = t,
                           !.rnti = n, !.ra = RaTicks, !.rar = 0, !.rlf = T310]
      BY <1>1, <1>2, <2>1 DEF RecvHandoverCommand, Stop, HeadIs
    <3> QED
      BY <3>1, <3>2 DEF UeRrcs
  <2>4. RaTicks + w <= ue'.ra + JoiningTimeout
    BY <1>1, <1>2, <2>3
  <2> QED
    BY <2>2, <2>3, <2>4 DEF Awaited, UeAt
<1>3. CASE /\ UeAt(t, n) /\ ue.state = "CONNECTED_HANDOVER" /\ rrc = <<>>
           /\ RaTicks + w <= ue.ra + JoiningTimeout
  <2>1. NobodyServed
    BY <1>1, <1>3, NotServed DEF Received
  <2>2. ~RandomAccessFailed /\ ~RadioLinkFailureDetected
    BY <1>1, <1>3 DEF RandomAccessFailed, RadioLinkFailureDetected, AccessOutlastsJoining
  <2>3. ~S1Step
    <3>1. ASSUME Present(mmeCell, imsiRnti[mmeCell]),
                 ctx[mmeCell][imsiRnti[mmeCell]].state
                    \in {"ATTACH_REQUEST", "HANDOVER_PATH_SWITCH"}
          PROVE  FALSE
      BY <2>1, <3>1 DEF NobodyServed, Serves, ServingStates, Present
    <3> QED
      BY <1>1, <3>1
         DEF S1Step, InitialContextSetupRequest, PathSwitchRequestAcknowledge, Stop
  <2>4. ASSUME NEW i \in 1..Len(x2), NEW c \in Cells, NEW q \in Rntis, Commands(i, c, q)
        PROVE  FALSE
    BY <2>1, <2>4 DEF NobodyServed, Commands, Serves, ServingStates
  <2>5. ASSUME NEW c \in Cells, NEW q \in Rntis, Releases(c, q)
        PROVE  FALSE
    BY <2>5 DEF Releases, Timing, LeavingOnce, IsLeaving, Targets
  <2>6. CASE rrc' = <<>> /\ Stays
    BY <1>3, <2>6 DEF Awaited, Stays, UeAt
  <2>7. CASE RecvRaResponse
    <3>1. /\ HeadIsNext("ReconfigurationCompleted", ue.cell, ue.rar)
          /\ ue'.cell = ue.cell /\ ue'.rnti = ue.rar /\ UNCHANGED ctx
      <4>1. /\ rrc' = Append(rrc, Rrc("ReconfigurationCompleted", ue.cell, ue.rar))
            /\ ue' = [ue EXCEPT !.state = "CONNECTED_NORMALLY", !.rnti = ue.rar,
                                !.ra = 0, !.rar = 0]
            /\ UNCHANGED ctx
        BY <1>3, <2>7 DEF RecvRaResponse, network
      <4>2. HeadIsNext("ReconfigurationCompleted", ue.cell, ue.rar)
        BY <1>1, <1>3, <4>1, HeadSent, UeType DEF ToEnb
      <4> QED
        BY <1>1, <4>1, <4>2, UeType DEF UeRrcs
    <3>2. ue.rar \in Rntis
      <4>1. ue.rar \in RntiOrNone /\ ue.rar # 0
        BY <1>1, <2>7, UeType DEF RecvRaResponse
      <4>2. MaxRnti \in Nat
        BY LteHandoverAssumption DEF LteHandoverAssumption
      <4> QED
        BY <4>1, <4>2 DEF RntiOrNone, Rntis
    <3>3. /\ ctx[t][n].state \in {"ABSENT", "HANDOVER_JOINING"}
          /\ ue.rar = n \/ ctx[t][ue.rar].state \in {"ABSENT", "INITIAL_RANDOM_ACCESS"}
      BY <1>1, <1>3, <3>2 DEF Heading, Unreached, UeAt, Rntis
    <3>4. IsJoining(t, n) => JoinsFrom(ctx[t][n], b, r)
      BY DEF Timing, JoinsTarget, Matches
    <3>5. Arriving(b, r, t, n)'
      BY <1>3, <3>1, <3>2, <3>3, <3>4
         DEF Arriving, IsJoining, HeadIs, HeadIsNext, Received, UeAt
    <3> QED
      BY <3>5
  <2> QED
    BY <1>3, <2>2, <2>3, <2>4, <2>5, <2>6, <2>7 DEF Known, TalkStep, Linked
<1> QED
  BY <1>2, <1>3 DEF Awaited

\* A UE that arrives ends the wait, unless the simulation stops.
LEMMA ArrivingEnds ==
  ASSUME Known, NEW b \in Cells, NEW r \in Rntis, NEW t \in Cells, NEW n \in Rntis,
         Arriving(b, r, t, n), NEW w \in Nat, GivesUpIn(b, r, t, n, w)'
  PROVE  FALSE
<1>1. /\ TypeInv /\ Bookkeeping /\ RecvRrcConnectionReconfigurationCompleted
      /\ stopped = "none" /\ stopped' = "none" /\ AllExact
  BY DEF Known, PlacesInv, IInv, Arriving, HeadIs, RrcStep, Received, RecvRrcConnectionRequest,
     RecvRrcConnectionSetup, RecvRrcConnectionReject, RecvRrcConnectionSetupCompleted,
     RecvRrcConnectionReconfiguration, RecvHandoverCommand,
     RecvRrcConnectionRelease, RecvIdealUeContextRemoveRequest
<1>2. Head(rrc).cell = t /\ Head(rrc).rnti = ue.rnti
  BY DEF Arriving, HeadIs
<1>3. ctx[t][ue.rnti].state \notin {"ABSENT", "INITIAL_RANDOM_ACCESS"}
  BY <1>1, <1>2 DEF RecvRrcConnectionReconfigurationCompleted, Stop, Present
<1>4. ue.rnti = n /\ JoinsFrom(ctx[t][n], b, r)
  BY <1>3 DEF Arriving
<1>5. /\ SetContext(t, n, Cancel("joining", [ctx[t][n] EXCEPT !.state = "HANDOVER_PATH_SWITCH"]))
      /\ UNCHANGED x2
  BY <1>1, <1>2, <1>4 DEF RecvRrcConnectionReconfigurationCompleted, JoinsFrom, Present
<1>6. ctx'[t][n].state = "HANDOVER_PATH_SWITCH"
  <2> DEFINE k == Cancel("joining", [ctx[t][n] EXCEPT !.state = "HANDOVER_PATH_SWITCH"])
  <2>1. k.state = "HANDOVER_PATH_SWITCH"
    BY <1>1 DEF Cancel, TypeInv, TimedContexts, Contexts
  <2> HIDE DEF k
  <2>2. ctx'[t][n] = k
    BY <1>1, <1>5, SetAt DEF k
  <2> QED
    BY <2>1, <2>2
<1>7. \E i \in 1..Len(x2) : IsFailure(i, b, r)
  BY <1>5, <1>6 DEF GivesUpIn, JoinsFrom, IsFailure
<1> QED
  BY <1>1, <1>4, <1>7 DEF Bookkeeping, JoiningAlone, IsFailure, Arrangements

\* A UE that is told to go has the time it takes.
LEMMA CommandAwaited ==
  ASSUME Known, Timing, NEW b \in Cells, NEW r \in Rntis, NEW t \in Cells, NEW n \in Rntis,
         NEW i \in 1..Len(x2), Commands(i, b, r), Targets(b, r, t, n)',
         NEW w \in Nat, GivesUpIn(b, r, t, n, w)'
  PROVE  Awaited(t, n, w)'
<1>1. PlacesInv /\ TypeInv /\ Bookkeeping /\ Len(x2) \in Nat
  BY Numbers DEF Known, PlacesInv, IInv
<1>2. Offers(i, b, r, t, n) /\ HeadIsNext("HandoverCommand", t, n) /\ x2[i].wait = 0
  BY DEF Commands, Offers, Targets
<1>3. Timely(i, b, r, t, n) /\ JoiningTimeout \in Nat
  BY <1>1, <1>2, Times DEF Timing, AcksTimely
<1>4. CASE JoinsFrom(ctx'[t][n], b, r) /\ w = Left(t, n, "joining")' + X2Delay
  <2>1. ctx'[t][n] = ctx[t][n]
    BY <1>4 DEF Commands, JoinsFrom
  <2>2. w <= JoiningTimeout
    BY <1>2, <1>3, <1>4, <2>1 DEF Timely, Left, IsJoining, JoinsFrom
  <2> QED
    BY <1>2, <2>2 DEF Awaited, HeadIs, HeadIsNext, Received
<1>5. ASSUME NEW j \in 1..Len(x2'), IsFailure(j, b, r)', w = x2'[j].wait
      PROVE  w <= JoiningTimeout
  <2>1. PICK k \in 1..Len(x2) : x2'[j] = x2[k]
    <3>1. /\ x2' = Others(i) /\ Place(i, j) \in 1..Len(x2) /\ x2'[j] = x2[Place(i, j)]
      BY <1>1, OthersShape DEF Commands, TypeInv, Place
    <3> QED
      BY <3>1
  <2>2. IsFailure(k, b, r)
    BY <1>5, <2>1 DEF IsFailure
  <2>3. ~JoinsFrom(ctx[t][n], b, r)
    BY <1>1, <2>2 DEF Bookkeeping, JoiningAlone, IsFailure, Arrangements
  <2>4. PICK l \in 1..Len(x2) : IsFailure(l, b, r) /\ x2[l].wait <= JoiningTimeout + x2[i].wait
    BY <1>3, <2>3 DEF Timely
  <2>5. k = l
    <3>1. ~(k < l) /\ ~(l < k)
      BY <1>1, <2>2, <2>4
         DEF Bookkeeping, MessagesInOrder, IsFailure, Arrangements, Concerns
    <3> QED
      BY <1>1, <3>1
  <2> QED
    BY <1>2, <1>3, <1>5, <2>1, <2>4, <2>5
<1> QED
  BY <1>2, <1>4, <1>5 DEF GivesUpIn, Awaited, HeadIs, HeadIsNext, Received

\* AwaitsTarget is kept by a step that goes on.
LEMMA AwaitsTargetNext ==
  ASSUME Known, Timing, AccessOutlastsJoining, AwaitsTarget
  PROVE  AwaitsTarget'
<1> SUFFICES ASSUME NEW b \in Cells, NEW t \in Cells, NEW r \in Rntis, NEW n \in Rntis,
                    NEW w \in Nat, Targets(b, r, t, n)', GivesUpIn(b, r, t, n, w)'
             PROVE  Awaited(t, n, w)' \/ Arriving(b, r, t, n)'
  BY DEF AwaitsTarget
<1>1. ASSUME NEW i \in 1..Len(x2), Commands(i, b, r)
      PROVE  Awaited(t, n, w)'
  BY <1>1, CommandAwaited
<1>2. CASE ctx'[b][r] = ctx[b][r]
  <2>1. Targets(b, r, t, n)
    BY <1>2 DEF Targets, IsLeaving
  <2>2. PICK v \in Nat : w <= v /\ GivesUpIn(b, r, t, n, v)
    BY <1>2, <2>1, GivesUpBefore
  <2>3. Awaited(t, n, v)
    BY <2>1, <2>2, ArrivingEnds DEF AwaitsTarget
  <2>4. Awaited(t, n, w)
    <3>1. JoiningTimeout \in Nat /\ RaTicks \in Nat /\ ue.ra \in Nat
      BY Times DEF Known
    <3> QED
      BY <2>2, <2>3, <3>1 DEF Awaited
  <2> QED
    BY <1>2, <2>1, <2>4, StillAwaited
<1>3. AllExact /\ ctx'[b][r].state = "HANDOVER_LEAVING"
  BY DEF Known, Targets, IsLeaving
<1> QED
  BY <1>1, <1>2, <1>3, LeavingStep

\* What is said of releases is kept by a step that goes on.
LEMMA ReleaseLateNext ==
  ASSUME Known, Timing, AwaitsTarget, ReleaseLate
  PROVE  ReleaseLate'
<1> SUFFICES ASSUME rrc' # <<>>, Head(rrc').type = "Release"
             PROVE  ~LongLeavingTimer(Head(rrc').cell) \/ ue'.state = "CONNECTED_HANDOVER"
  BY DEF ReleaseLate, Received, LongLeavingTimer
<1>1. /\ PlacesInv /\ TypeInv /\ Exchange /\ LeavingKnown /\ UeSteps
      /\ stopped = "none" /\ stopped' = "none"
  BY DEF Known, PlacesInv, IInv, Places
<1>2. CASE rrc # <<>>
  <2>1. UNCHANGED rrc /\ ue'.state = ue.state
    BY <1>1, <1>2 DEF UeSteps, Rests, SamePlace, Selects, StartsOver, IsOffered, Requests,
       Arrives, Leaves, SetsUp, Moves, Reconfigures, Ignores, IsAnswered, Completes, IsRemoved,
       IsReconfigured, IsCommanded, IsReleased, HeadIsNext, Silent
  <2> QED
    BY <1>2, <2>1 DEF ReleaseLate, Received
<1>3. CASE rrc = <<>>
  <2>1. UeSteps => IsReleased
    BY <1>3 DEF UeSteps, Rests, Selects, StartsOver, IsOffered, Requests,
       Arrives, Leaves, SetsUp, Moves, Reconfigures, Ignores, IsAnswered, Completes, IsRemoved,
       IsReconfigured, IsCommanded, IsReleased, HeadIsNext, HeadIs, Silent, Received
  <2>2. ASSUME NEW type, NEW c, NEW q, rrc' = Append(rrc, Rrc(type, c, q))
        PROVE  type = "Release"
    BY <1>3, <2>2 DEF Rrc
  <2>3. ~RecvRaResponse /\ ~RandomAccessFailed /\ ~RadioLinkFailureDetected
    BY <1>3, <2>2 DEF RecvRaResponse, RandomAccessFailed, RadioLinkFailureDetected,
       DropConnection
  <2>4. ~S1Step
    BY <1>1, <2>2
       DEF S1Step, InitialContextSetupRequest, PathSwitchRequestAcknowledge, Stop
  <2>5. PICK c \in Cells, r \in Rntis : Releases(c, r)
    BY <1>3, <2>3, <2>4 DEF Known, TalkStep, Commands, HeadIsNext
  <2>6. Head(rrc').cell = c /\ UNCHANGED ue /\ IsLeaving(c, r)
    BY <2>5 DEF Releases, HeadIsNext, IsLeaving
  <2>7. CASE Expired(c, r, "leaving")
    BY <1>1, <2>6, <2>7, TargetFirst DEF TargetSettlesFirst
  <2>8. ASSUME NEW i \in 1..Len(x2), IsFailure(i, c, r), x2[i].wait = 0
        PROVE  ue.state = "CONNECTED_HANDOVER"
    <3>1. PICK t \in Cells, n \in Rntis : Targets(c, r, t, n)
      BY <1>1, <2>6 DEF LeavingKnown, HandedOut, Targets, IsLeaving
    <3>2. GivesUpIn(c, r, t, n, 0)
      BY <2>8 DEF GivesUpIn
    <3> QED
      BY <1>3, <3>1, <3>2 DEF AwaitsTarget, Awaited, Arriving, HeadIs, Received
  <2> QED
    BY <2>5, <2>6, <2>7, <2>8 DEF Releases
<1> QED
  BY <1>2, <1>3

\* The passing of time.
LEMMA AwaitsTick ==
  ASSUME PlacesInv, AwaitsTarget, Tick
  PROVE  AwaitsTarget' /\ ReleaseLate'
<1>1. Shorter
  BY TickShortens
<1> SUFFICES ASSUME NEW b \in Cells, NEW t \in Cells, NEW r \in Rntis, NEW n \in Rntis,
                    NEW w \in Nat, Targets(b, r, t, n)', GivesUpIn(b, r, t, n, w)'
             PROVE  Awaited(t, n, w)'
  BY <1>1 DEF AwaitsTarget, ReleaseLate, Received, Shorter
<1>2. Targets(b, r, t, n)
  BY <1>1 DEF Shorter, Targets, IsLeaving
<1>3. GivesUpIn(b, r, t, n, w + 1)
  <2>1. CASE JoinsFrom(ctx'[t][n], b, r) /\ w = Left(t, n, "joining")' + X2Delay
    <3>1. JoinsFrom(ctx[t][n], b, r) /\ IsJoining(t, n)
      BY <1>1, <2>1 DEF Shorter, JoinsFrom, IsJoining
    <3>2. /\ Left(t, n, "joining")' = Left(t, n, "joining") - 1
          /\ Left(t, n, "joining") \in Nat /\ X2Delay \in Nat
      BY <1>1, <3>1, Times DEF Shorter
    <3>3. w + 1 = Left(t, n, "joining") + X2Delay
      BY <2>1, <3>2
    <3> QED
      BY <3>1, <3>3 DEF GivesUpIn
  <2>2. ASSUME NEW i \in 1..Len(x2'), IsFailure(i, b, r)', w = x2'[i].wait
        PROVE  GivesUpIn(b, r, t, n, w + 1)
    <3>1. /\ i \in 1..Len(x2) /\ SameButTime(x2'[i], x2[i])
          /\ x2'[i].wait = x2[i].wait - 1 /\ x2[i].wait \in Nat
      BY <1>1, Times DEF Shorter
    <3>2. IsFailure(i, b, r) /\ w + 1 = x2[i].wait
      BY <2>2, <3>1 DEF IsFailure, SameButTime, SameMessage
    <3> QED
      BY <3>1, <3>2 DEF GivesUpIn
  <2> QED
    BY <2>1, <2>2 DEF GivesUpIn
<1>4. /\ UeAt(t, n) /\ ue.state = "CONNECTED_HANDOVER"
      /\ RaTicks + (w + 1) <= ue.ra + JoiningTimeout
  BY <1>1, <1>2, <1>3 DEF AwaitsTarget, Awaited, Arriving, HeadIs, Received, Shorter
<1>5. RaTicks + w <= ue'.ra + JoiningTimeout
  <2>1. /\ JoiningTimeout \in Nat /\ RaTicks \in Nat /\ ue.ra \in Nat /\ ue'.ra \in Nat
        /\ ue.ra <= ue'.ra + 1
    BY <1>1, <1>4, Times DEF Shorter
  <2> QED
    BY <1>4, <2>1
<1> QED
  BY <1>1, <1>4, <1>5 DEF Awaited, UeAt, Shorter

\* A step that changes nothing but stopped.
LEMMA AwaitsFrozen ==
  ASSUME AwaitsTarget, ReleaseLate, UNCHANGED <<network, core, ue, rrc, x2>>
  PROVE  AwaitsTarget' /\ ReleaseLate'
<1>1. UNCHANGED <<ctx, ue, rrc, x2>>
  BY DEF network
<1>2. ReleaseLate'
  BY <1>1 DEF ReleaseLate, Received, LongLeavingTimer
<1>3. AwaitsTarget'
  BY <1>1 DEF AwaitsTarget, Targets, IsLeaving, GivesUpIn, JoinsFrom, IsFailure, Left, Awaited,
     Arriving, HeadIs, Received, UeAt
<1> QED
  BY <1>2, <1>3

\* Both hold at first.
LEMMA AwaitsInit ==
  ASSUME Init
  PROVE  AwaitsTarget /\ ReleaseLate
BY DEF Init, Absent, AwaitsTarget, Targets, IsLeaving, ReleaseLate, Received

\* Every step keeps both.
LEMMA AwaitsNext ==
  ASSUME TimersInOrder, AccessOutlastsJoining, PlacesInv, PlacesInv', Timing,
         AwaitsTarget, ReleaseLate, [Next]_vars
  PROVE  AwaitsTarget' /\ ReleaseLate'
<1>1. CASE Tick
  BY <1>1, AwaitsTick
<1>2. CASE Goes
  BY <1>2, KnownNext, AwaitsTargetNext, ReleaseLateNext
<1> QED
  BY <1>1, <1>2, StopFreezes, AwaitsFrozen

\* Where the cell of a release has a long leaving timer, the UE that takes it is not
\* served: it ends a connection that is on its way to a target that has given up.
LEMMA ReleaseUnserved ==
  ASSUME PlacesInv, ReleaseLate, RecvRrcConnectionRelease,
         LongLeavingTimer(Head(rrc).cell)
  PROVE  ~Serves(ue.cell, ue.rnti)
<1>1. /\ Exchange /\ TypeInv /\ Heading /\ Received("Release")
      /\ ue.state = "CONNECTED_HANDOVER"
  BY DEF PlacesInv, IInv, Places, Whereabouts, RecvRrcConnectionRelease, ReleaseLate
<1>2. NobodyServed
  BY <1>1, NotServed DEF Received
<1>3. ue.cell \in Cells /\ ue.rnti \in Rntis
  BY <1>1, UeType DEF Heading, Unreached
<1> QED
  BY <1>2, <1>3 DEF NobodyServed

\* RecvRrcConnectionRelease (lte-ue-rrc.cc) does not look at which cell the release
\* came from. From a cell with a long leaving timer it only ever reaches a UE that is
\* still on its way to a target that has given up, so it ends no service.
THEOREM ReleasesHarmless ==
  ASSUME TimersInOrder, AccessOutlastsJoining
  PROVE  Spec => ReleaseEndsNoService
<1>1. Init => AwaitsTarget /\ ReleaseLate
  BY AwaitsInit
<1>2. PlacesInv /\ PlacesInv' /\ Timing /\ AwaitsTarget /\ ReleaseLate /\ [Next]_vars
         => (AwaitsTarget /\ ReleaseLate)'
  BY AwaitsNext
<1>3. PlacesInv /\ ReleaseLate =>
         [RecvRrcConnectionRelease /\ ~ue.leave /\ LongLeavingTimer(Head(rrc).cell)
             => ~Serves(ue.cell, ue.rnti)]_vars
  BY ReleaseUnserved
<1> QED
  BY <1>1, <1>2, <1>3, PlacesHold, TimingHolds, PTL DEF Spec, ReleaseEndsNoService

=============================================================================
