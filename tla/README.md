# TLA+ models of the LTE AI-SON controller

TLA+ specifications of the Python control loop that steers a simulated LTE network, and of the
handover procedure of the simulator it steers: the server that turns KPI vectors into one action
per cell, the filter that damps the actions, the last gate that validates them, the error
injector, the thread that retrains the model, the launcher of the services, and the RRC and X2
state machines of the ns-3 LTE module. Modules are written from the code under `src/`; TLC checks
them on small instances and TLAPS proves the safety properties of the filter, the policies, the
server, the updater, the launcher and the handover for every value of the constants.

## Inventory

The closed loop: the ns-3 simulator sends 42 KPI values (7 metrics of 6 cells) over TCP port
5000, the AI server answers with 6 actions (0 BALANCE, 1 INCREASE_POWER, 2 REDUCE_POWER,
3 HANDOVER).

| part | state | operations | interacts with |
|---|---|---|---|
| `ai_server.py` AIServer | the model, request and prediction counters, decision log | accept loop, `handle_client`, `process_kpi_data`, `_load_or_train_model`, `shutdown` | simulator (TCP), all of `ai_engine/` |
| `stability_controller.py` StabilityController | per cell: deque of impositions, time of each action, action in force and its start, KPI baseline, oscillation score | `apply_stability` | called by the server; its clock is the server's request counter |
| `action_validator.py` ActionValidator | report counters only | `validate_action(s)` | called by the server after the filter |
| `error_injector.py`, `error_definitions.py` | active errors, history | inject, expire, apply to a vector, clear | called by the server on each vector; nothing in production feeds its instance |
| `model_updater.py` ModelUpdater | its own model, row counter, training and stop flags, a thread | retraining loop, backup, save, stop | shares the model file and `training_dataset.csv` with the server's thread and the offline pipeline |
| `hybrid_predictor.py`, `neighbor_manager.py` | the trained model | predict, policies, train, save, load | called by the server and by the updater |
| `smart_labeler.py`, `training/`, `train_model.py` | files | label, augment, train offline | training data and the model file |
| `start_services_background.py` | dictionary of processes | start, restart, stop, signal handler | the three services |
| `dashboard/app.py` | none of its own | draws files, sends commands on ports 5001 and 5002 | the simulator |
| `ns-3-dev/src/lte/model` handover | per eNB: UE contexts with a state and five timers, RNTIs; per UE: RRC state, cell, RNTI, T310; MME: the cell that serves the UE | connection, handover over X2, path switch, radio link failure, release, timeouts | eNBs by X2, MME by S1, UE by RRC and random access |

What is hard in it, and what makes each part correct:

* **Filter.** Timers, a reversal penalty and a hysteresis read records that other branches of
  the same method wrote at other requests. Correct when impositions of one action are a cooldown
  apart, an action is held for its minimum, forbidden successions do not occur, the number of
  impositions in a window is bounded, the redundant records agree, and a proposal that is
  repeated long enough is imposed.
* **Server.** One TCP stream, one `recv` taken for one request, exceptions at any point of a
  request, connections that come and go while the filter stays. Correct when replies pair with
  vectors, no cell over capacity is sent HANDOVER, the decision log follows the requests, every
  vector is answered, and the filter is driven as its specification says.
* **Predictor's policies.** A network-wide verdict, recommendations from the neighbours' loads and
  guards that run in a fixed order decide on each cell alone. Correct when the cells together make
  sense: some cell is left to take users, and a cell meant to take users does not hand its own over.
* **Error injector.** Windows in a clock that jumps, several errors on a cell, clamps that
  compose. Correct when KPIs stay in range, only catalogued metrics move, and effects start and
  end with the windows.
* **Updater.** Two threads and one file that is written in place; kills and failures at every
  step. Correct when a whole model is never lost, retraining is tried again after a failure, and
  a shutdown ends the process.
* **Launcher.** A signal handler that runs in the middle of anything, and processes that do not
  end when told. Correct when it loses track of no service, stops all it recorded, and ends.

* **LTE handover.** Five timers a context, messages between two eNBs, the MME and a UE that may
  lose its link, time out or be refused at any step; handlers that assert the state they expect
  and stop the program when they find another. Correct when no timeout finds a state it does not
  expect, no context waits for ever, the UE is served by one cell at a time and by the one it is
  connected to, a handover is resolved and a target that has been reached outlives the source.

`PROJECT.json` lists the hazards at their lines.

## Modules

| module | models | notes |
|---|---|---|
| `StabilityController` | `ai_engine/stability_controller.py` | `Decide` is one call of `apply_stability` for all cells; `Elapse` a request that fails before the filter. One operator per constraint, in the order `_check_constraints` tries them |
| `ActionPacer` | the filter's contract, abstractly | cooldowns, minimum hold, barred successions; no KPIs, baselines or scores |
| `StabilityResponse` | the filter with history variables | since when a proposal has been repeated, and the latest KPIs |
| `StabilityController_proofs` | theorems, of `StabilityResponse` too | see Proofs |
| `ActionValidator` | `ai_engine/action_validator.py` | a pure function: the network state it gets is constant |
| `AIServer` | `ai_server.py` and the simulator's end of the connection | composes `StabilityController` (INSTANCE) and `ActionValidator` (EXTENDS) |
| `ErrorDefinitions`, `ErrorInjector` | `simulator/error_definitions.py`, `simulator/error_injector.py` | the impact of each of the eight errors on each KPI; windows, application, clearing |
| `ErrorInjector_proofs` | theorems | see Proofs |
| `HandoverPolicy` | `predict` and its policies in `ai_engine/hybrid_predictor.py`, `ai_engine/neighbor_manager.py` | what the trained model computes is an input; `Predict` is one call |
| `HandoverPolicy_proofs` | theorems | see Proofs |
| `AIServer_proofs` | theorems | see Proofs; instantiates `StabilityController_proofs` |
| `ModelUpdater` | `ai_engine/model_updater.py`, and loading, reloading and saving in `ai_server.py` and `hybrid_predictor.py` | two program counters, one file, kills |
| `ModelUpdater_proofs` | theorems | see Proofs |
| `ServiceLauncher` | `start_services_background.py` | program counter of the launcher, the living processes, signals |
| `ServiceLauncher_proofs` | theorems | see Proofs |
| `LteHandover` | `lte-enb-rrc.cc`, `lte-ue-rrc.cc`, the MACs' random access, `epc-x2.cc`, `epc-enb-application.cc`, `epc-mme-application.cc` of `ns-3-dev/src/lte/model` | one UE, its contexts in every cell, the X2 and S1 messages, discrete time |
| `UeService` | what a UE sees of all that, abstractly | away, settling in a cell, served, moving; refined by `LteHandover` |
| `LteHandoverInvariant`, `LteHandover_proofs` | theorems: the invariant of types, messages and exchanges, then where the UE is served, then when a handover is settled | see Proofs |

Operators commented as mutants are variants of the code's definitions with a plausible mistake
in them; no specification uses them. They document which mistake each property is able to
notice, and `PROJECT.json` pairs them.

### Abstractions

* KPIs are integers in the units of the comments (percent, milliseconds, dB); fractions, float
  rounding at the thresholds and 42-value layout are left out. A KPI situation is one record of
  a small set, chosen so that each threshold of the code is met on both sides.
* The filter's clock is the request counter, as `process_kpi_data` passes it. Time advances by
  one at each request that is counted.
* In the server's runs there is one cell: no cell reads or writes what belongs to another, in
  the filter and in the validator alike. `StabilityController` itself is written, and proved,
  for any set of cells.
* In `HandoverPolicy` the topology is the code's table. Scores and deviations are any numbers: the
  trained model is arbitrary.
* In the server's runs the predictor proposes BALANCE or HANDOVER for a cell, whatever the KPIs
  (`PredictedActions`): more than the policies allow.
* The error injector is a component of its own, not composed into `AIServer`, since no service
  injects errors into the server's instance: the vector passes unchanged there.
* In `ModelUpdater` a model is its number in the order of training. `joblib` truncates the file
  (`OpenFile`) and later completes it (`CloseFile`); two writers that overlap may leave either
  a whole model or a torn file. Finding the file unusable, training, opening the file and writing it
  are separate steps of the server, and training, copying the old file, opening and writing steps of the
  updater; a copy during which the file is opened is torn, and one that ends as the file is completed
  may be either. The offline pipeline is present as `ReplaceRows` only, not as a
  third writer of the model.
* In `LteHandover` there is one UE and as many cells as wished. A tick is 100 ms, the unit the
  eNB's timeouts are multiples of; T310 and the random access are counted in it too. RRC messages
  are those of the ideal RRC protocol the simulations use by default: one link between the UE and
  the cell it is tuned to, delivered in order and at once, before time goes on. X2 and S1 messages
  take a delay each and stay in order on their link. A random access is a preamble and a response;
  it fails when it has not ended after `RaTicks`, which stands for the preamble attempts a UE may
  make. That a cell admits or rejects a UE, and that a target refuses a handover, is any choice.
* RNTIs count up from 1 in each cell. `MaxRnti` bounds them: a cell that has handed out that many
  is a cell whose SRS indices are used up, and refuses connections and handovers as the code does.
* The run of `LteHandover` has `RaTicks > JoiningTimeout`, as with the default 50 preamble attempts,
  which outlast the 200 ms of the joining timeout. The module does not assume it:
  `ReleaseEndsNoService` needs it, and TLC finds that property violated with `RaTicks = 1`.
* In `ServiceLauncher` `wait(timeout=5)` either returns because the process has ended or times
  out; SIGKILL is immediate.

## Runs

`CHECK_DEADLOCK FALSE` is set in every run but `lte_handover` because the models stop at a bound
(the horizon of the clock, the number of requests, models or processes) or, for the launcher and a
server that is down, because the program may end. `lte_handover` has no such bound and is checked
for deadlocks: unless an assertion has stopped the program (`Stopped`), time at least can go on.

| run | checks | bounds |
|---|---|---|
| `stability_filter` | types, `HistoryAgrees`, `CooldownSpacing`, `MinimumHold`, `NoBarredReversal`, `ChurnBound`, that the filter implements `ActionPacer`, and `InsistenceWins`: a proposal repeated for as long as the longest timer is imposed, except when the reversal penalty or the hysteresis still refuses it | one cell, 3 KPI situations, horizon 10, deque of 4; 516,037 states |
| `server` | types; when each vector arrives whole, `RepliesMatchRequests`, `NoHandoverAtCapacity`, `LogIsOrdered`; however TCP cuts the stream, `FilterSpec` (the server drives the filter as `StabilityController!Spec` allows) and `EveryVectorAnswered` | 4 recv calls, 3 vectors a connection, 2 ahead of the replies if they arrive whole, cuts inside the list, inside the last number or before the newline, reconnections |
| `policy` | types, `SomeCellStays`, `AcceptorsKeepUsers` | the ring of 6 cells, 5 situations each, 18 verdicts of the model |
| `error_injection` | ranges, `OnlyListedMetrics`, `EffectsOnlyInWindow`, `EffectsLast` | eight types, up to 3 errors between clearings, 2 cells, 4 ticks |
| `model_updater` | types, `WholeModelSurvives`, `RetrainingAttempted`, `ShutdownEnds` | 5 models, 5 rows, interval of 2; 277,009 states |
| `service_launcher` | types, `NothingLost`, `RecordedStopped`, `CleanupEnds` | 6 processes (so up to three restarts), 2 signals |
| `lte_handover` | types, `TimersMatchStates`, `NoContextLingers`, `OneServing`, `UeServed`, `TargetSettlesFirst`, `ReleaseEndsNoService`, `HandoverResolves`, and that the network implements `UeService`; no deadlock | 2 cells, 3 RNTIs each, timeouts of 1 and 2 ticks, a leaving timeout of 5 in one cell and 0 in the other; 61,747 states |

The timers of `StabilityConfig` (5 < 10 < 30 = 30 < 60: cooldown of BALANCE, minimum duration,
cooldowns of the power actions, cooldown of HANDOVER) are scaled down in the same order, to 2 < 4 <
5 = 5 < 9, and with the relations the properties depend on: twice the cooldown of BALANCE is at
least the minimum duration, and the cooldown of HANDOVER is more than twice the minimum duration.
The horizon of 10 is past the longest cooldown, so an action can be imposed, cooled down and
imposed again within it, and a proposal can be repeated for as long as `InsistenceWins` asks; the
deque of 4 drops records within it. For other timers and longer runs there are the theorems. The
server's runs use still smaller timers: what they check is the composition.

In `lte_handover` three RNTIs a cell let a UE connect, be handed over, lose its link and come back
before a cell is full, and a full cell is a case of its own. One leaving timeout is longer than
everything else, as by default (500 ms), the other expires at once, so that it races with each step
of the other eNB. All properties also held with 3 cells of 2 RNTIs (323,920 states), where two
handovers of one UE overlap in three cells.

Runs that end in a violation, each a disagreement between the code and what its comments say:

| run | what the counterexample shows |
|---|---|
| `power_down` | a HANDOVER the safety policy refuses becomes REDUCE_POWER in a cell with more than 100 ms of delay, because the fallback returns before the check that avoids it |
| `repeated_impact` | each of n errors active on a cell is applied n times, because the loop over them calls a method that applies all of them |
| `retrained_model_served` | what the updater trains is never served: the server keeps the model it loaded |
| `stop_stops_all` | 'stop' and 'restart ns3' signal the `ns3 run` wrapper; the simulator it started goes on |
| `lost_during_preparation` | a UE whose link fails while its handover is prepared is removed from the source, and the acknowledgement that arrives then finds no context: the handler asks for it before anything else, and the program stops |

Further observations made while modelling, described here and not checked as runs:

* HANDOVER to BALANCE is refused for ever: the benefit of BALANCE is 0, below the penalty of a
  reversal, however much the cell has improved (`NoBarredReversal` states what the code does).
* A request inside the cooldown of HANDOVER is answered HANDOVER again: refusing a proposal
  means returning the action in force, never BALANCE as the class docstring says.
* An exception is answered BALANCE past the filter, so a cell can be sent an action, BALANCE and
  the action again at three successive requests, closer than any timer of the filter.
* The validator can turn an action into BALANCE after the filter has recorded it as imposed and
  started its timers.
* A vector delivered in two pieces gets two replies, and the later ones are out of step.
* The table of proximities holds one direction of each pair of neighbours. The guard on HANDOVER
  takes the best signal of one neighbour and the least delay of the other, and the target that is
  chosen is logged but not sent.
* An error injected for a later time is dropped by the first vector that precedes its start.
* UNDERUTILIZATION lists throughput in the catalog and does not change it; INTERFERENCE raises
  a SINR that another error has taken below -20.
* Rows that arrive during a retraining count as trained on; `min_accuracy` is read and not used;
  the updater's constructor loads a torn model file without a `try`, and the server fails to start.
* A signal between `Popen` and the assignment to `processes` leaves a service nobody stops; a
  failed start, or the end of the launcher's input, ends it without a cleanup.
  A restart of ns3 drops the `--num-ue` and `--sim-time` the launcher was started with.

* In the LTE module, user data forwarded to a context that has been removed, and a
  reconfiguration completed after the joining timeout has removed it, stop the program as the
  acknowledgement above does; so does the MME's answer to a path switch of a context that is gone.
* With a random access that ends before the joining timeout and a slow X2 link, the release sent on
  a late preparation failure would tear down the UE's next connection. The defaults exclude it.
* What a source eNB forwards to a context that is leaving with no delay on X2 is forwarded for ever
  in no time: `HandoverResolves` needs a delay of at least one tick.
* The branch of the handover cancel that finds the context still present cannot be reached with the
  ideal RRC protocol.

### Fairness

* `AIServer`: weak fairness of `HandleClient`. The loop reads and answers as long as there is
  something to read. Nothing forces the simulator to send, to stay or to return.
* `ModelUpdater`: weak fairness of the server thread's steps (`ServerStep`), of the updater's
  steps (`MonitorStep`) and of `Exit`. Each is a thread the operating system schedules, in code
  without locks; training and saving end, well or badly. No row, start, mismatch, interrupt
  or kill is ever forced.
* `ServiceLauncher`: weak fairness of `LauncherStep`, the launcher's own straight-line code,
  including the timeout of `wait`. Commands, signals and the end of any service are not forced.
* `LteHandover`: weak fairness of `Scheduled`, the events the simulator has scheduled: delivering
  messages, timeouts (that of a random access too) and the clock. ns-3 runs its queue of events to
  the end, in time order, so an event that has been scheduled happens. New connections, handovers,
  lost links, refusals and the success of a random access are never forced.
* The filter, the policies and the error injector have safety properties only: they move when called.

## Proofs

Each theorem holds for every value of the constants that satisfies the named assumption of its
module. `PROJECT.json` lists them.

`StabilityController_proofs` proves, for every set of cells, every set of KPI records, every
configuration and every horizon that satisfy `ConfigAssumption` (the timers are naturals, the
reversal penalty is positive, the deque holds at least one record):

* `TypeCorrect`: `Spec => []TypeOK`;
* `HistoryAlwaysAgrees`, `CooldownsRespected`, `MinimumHoldRespected`, `ReversalsBarred`: the
  invariants of the run `stability_filter`;
* `ChurnBounded`: `ChurnBound`, for configurations with `ChurnConfig`, as `StabilityConfig` is;
* `FilterImplementsPacer`: `Spec => Pacer!Spec`, the refinement of `ActionPacer`.

The bounds on the history are not inductive alone: a step compares the time of the request with
`last_action_time` and `current_action_start_time`, while the properties speak of the records in
the deque. `HistoryAgrees` ties the three together: the last record is the action in force and
its start, `last_action_time` is no older than any record of the action, records are in time
order. The inductive invariant is `IInv`, the conjunction of `TypeOK`, `HistoryAgrees`,
`CooldownSpacing`, `MinimumHold` and `NoBarredReversal`. Its preservation is proved for one cell
(`CellBounds`) and splits into `AcceptKeepsBounds`, the cell's proposal accepted, with
`AppendRecordShape` for the deque that may drop its oldest record, and `HoldKeepsBounds`, the
proposal refused. That HANDOVER is never followed by BALANCE, nor INCREASE_POWER by
REDUCE_POWER, rests on the benefit being estimated from the proposed action: for BALANCE and
REDUCE_POWER it is 0. `ChurnBound` follows from `IInv` by cases on which of four successive
impositions are BALANCE. The refinement maps the deque, baselines and scores away.

It also proves, of `StabilityResponse` and for the same parameters with cooldowns of at most 999 s:

* `InsistenceRewarded`: `InsistenceWins`.

The invariant behind it is `TimersPredate`: while a proposal is refused at every call, both timers
that could refuse it, its own last imposition and the start of the action in force, are older than
the run of that proposal. It is kept since a call that imposes anything imposes the proposal, which
ends the refusal. So when the run has lasted for both timers, neither refuses (`TimersRunOut`), and
one of the two other checks did, on the KPIs of the latest call. The hypothesis `CooldownsEnd` is
what the code itself rests on: an action never imposed on a cell counts as imposed 999 s ago
(`stability_controller.py:200`), so a longer cooldown would refuse it for good. `StabilityConfig`
has 60 s at most.

`HandoverPolicy_proofs` proves, for every set of situations and verdicts with numeric fields
(`InputAssumption`):

* `TypeCorrect`: actions are actions, and a reported target is a neighbour of the cell;
* `NeverAllHandOver`: the cell with the strongest signal of the ring never hands over, since the
  safety policy asks for a neighbour with a strictly stronger one. `GreatestOfRing` finds that
  cell among six integers, `SafeHandover` is the guard;
* `AcceptorsAlwaysKeepUsers`: from `AcceptorStays` (the load-balancing policy answers no HANDOVER
  for such a cell) and `SafeHandover` (the safety policy makes none of another action).

`AIServer_proofs` proves, under `ServerAssumption` (a legal configuration of the filter, and a
predictor that proposes actions), for any number of cells, vectors, recv calls and vectors ahead:

* `TypeCorrect`, `RepliesAlwaysMatch`, `NeverHandoverAtCapacity`, `LogAlwaysOrdered`: the
  invariants of the run `server`. The inductive invariant adds `Received` (what is in the stream
  was sent, and the counter leaves room for it), `Paired` (whole vectors wait in order behind the
  answered ones; the counter has passed every reply) and `LogIsPast`. One turn of the loop is
  `ReadingFacts` (what a recv can mean) followed by `ProcessReplies` (what any answer says, counts
  and logs);
* `DrivesTheFilter`: `Spec => Filter!Spec`. Each turn is one `Decide`, one `Elapse` or, for a vector
  that does not convert, nothing;
* `CooldownsRespectedInServer`: by composition, from the theorem of the filter. The instance
  `FilterProofs` brings the theorems in; `SameFilter` says that it is the filter the server uses.

`ModelUpdater_proofs` proves `TypeCorrect` and `WholeModelAlwaysSurvives`. The file alone does not
tell why a torn file has a whole copy: `Threads` says what each thread holds where it stands, and
that the first save of a server is not mixed with one of the updater; `Saved` says that a server
that serves a model has seen a whole file, and that once there was one, there is a whole copy as soon as
either thread sets about writing the file, or a copy under way is torn. The interesting case is the
server's reload: it finds a torn file while the updater writes it, trains for minutes, and opens the
file after the updater has completed it, or while the updater copies it. The copy taken before the
file was torn is still there.

`ServiceLauncher_proofs` proves `TypeCorrect`, `NothingIsLost` and `RecordedAreStopped`, for any
number of restarts and signals. `Starts` says that the record a start will overwrite is free or of a
process that has ended and that a new process is not one on record; `Stops` that a cleanup still has
before it every recorded service that runs.

`LteHandoverInvariant` and `LteHandover_proofs` prove, under `LteHandoverAssumption`, for any number
of cells and RNTIs. For any timeouts and delays, 0 included:

* `TypeCorrect`; `TimeoutsFindTheirStates`: `TimersMatchStates`; `ServedOnce`: `OneServing`;
* `ConnectedIsServed`: `UeServed`; `WaitingIsTimed`: `NoContextLingers`;
* `ServiceKept`: `Spec => Service!Safety`, the refinement of `UeService` without its liveness.

For timers in the order the defaults have them in:

* `TargetSettles`: `TargetSettlesFirst`, under `TimersInOrder`: `X2Delay > 0`, and a fresh link cannot
  be declared failed before its handover is settled, `JoiningTimeout + S1Delay < T310 + X2Delay`;
* `ReleasesHarmless`: the action property `ReleaseEndsNoService`, under `TimersInOrder` and
  `AccessOutlastsJoining`, `JoiningTimeout < RaTicks`.

The first three need the inductive invariant `IInv`, in three layers. `TypeInv` holds the types, that
a timer runs only in its state, and that messages that move a UE name a cell. `Bookkeeping` relates
the X2 messages to the contexts: every message of a handover has its source in a state that matches
it; for one source at most an acknowledgement followed by the same target's failure is under way; a
context that joins has its source, at most an acknowledgement is under way while it joins, and no two
join from the same source. `Exchange` relates the RRC exchange to the contexts: at most one message is
under way, it says the truth about the UE, and the UE is served only where it is connected or is about
to be removed. The second layer is needed because the acknowledgement's handler does not look at the
state of the context: an acknowledgement of a context without a pending handover would turn it into
one that leaves while its timers run. The third is needed because a rejection and a removal act on
whatever the UE is doing by then. Each layer has one lemma per action.

The others need to know where the UE is as well: `PlacesInv` adds `Places` to `IInv`.

* `Whereabouts`: a context offered in an acknowledgement, named in a handover command or headed for by
  a UE on its way was handed out and has not been reached (`Unreached`); no two acknowledgements offer
  the same one, and what is offered is new to the UE.
* `Served`: `UeServed`, and what holds between a reconfiguration and its completion. A completion that
  reaches a context that does not wait for it is let be, since the handler stops the program then.
* `LeavingKnown`: as long as the target of a source that has let go joins, the UE is on its way to it,
  has just arrived or has just failed (`ArrivesAt`).
* `CancelsKnown`: a HANDOVER CANCEL under way whose target still joins is caught in the same instant as
  the release of the UE, whose removal takes the target's context before the message can be delivered.
  It is why `NoContextLingers` holds: `RecvHandoverCancel` turns the joining timer off and leaves the
  context.
* `NoContextLingers` itself.

Since these parts look at the same steps from several sides, the steps are abstracted first, with one
lemma per action: `ContextSteps` says what a step may make of a context, `MessageSteps` what of the X2
messages, `UeSteps` what of the UE and the message under way. The parts of `Places` are then proved
from these three. The refinement is a consequence of the invariant: `OnePlace` (one server or one
target, never both) makes the mapping `AnyOf` definite, and every step is one of `Attach`, `Command`,
`Complete`, `Lose` and `Keep` of `UeService`; that no context serves twice is `SpentGrows`.

The two properties about time compare the timers of both contexts with the age of the UE's link, the
age of its random access and the delays of the messages. `TargetSettlesFirst` says of each state only
that the target has not left the source to its timer; the invariant has to say what is still bound
to happen, and that there is time enough for it. It is `Timing`, on top of `PlacesInv`:

* `X2Near` and `AcksTimely`: no X2 message has more than `X2Delay` to go, and a context offered in an
  acknowledgement had its timer started when the acknowledgement was sent; if that timer has run out
  in the meantime, the failure it reported follows the acknowledgement.
* `LeavingOnce` and `JoinsTarget`: the UE leaves one context at a time, and the context that joins from
  it is the one it was sent to.
* `LeavingEnds`: every source that has let go of the UE is `Settling`. Its UE is on its way and the
  target's timer runs (`OnItsWay`), or the target waits for the MME (`Switching`), or the message that
  ends the handover is under way (`Ending`); each with what is left of the leaving timer compared with
  what is left of the others. That last message comes before any later handover of the same UE is
  answered (`Precedes`), so the source it finds is the one it was meant for. It is here that a message
  which takes no time, or a link that fails before the path switch, would need another argument.

`ReleasesHarmless` adds `AwaitsTarget` and `ReleaseLate`: a source that learns in `w` ticks at the latest
that the target has given up (`GivesUpIn`) has its UE still on its way for more than `w` ticks, or just
arriving. So the release sent on the failure finds a UE that nobody serves.

These parts are proved from exact abstractions of the steps, again with one lemma per action: `AllExact`
for the contexts with their timers, `MailStep` for the X2 messages, `TalkStep` and `UeClock` for the UE
and the core, `Shorter` for the passing of time, under which both sides of every comparison lose one
tick. `Known` gathers what holds of a step of a simulation that goes on, and `StopFreezes` deals with one
that an assertion stops.

The hypotheses are what the code has by default. T310 is 1 s (`lte-ue-rrc.cc:222`) and the joining
timeout 200 ms (`lte-enb-rrc.cc:1992`). An X2 link has no delay of its own by default but a finite data
rate (`no-backhaul-epc-helper.cc:273`), so a message takes time, and how long a tick is does not matter
to the theorems. `TimersInOrder` is what the proof rests on: with `X2Delay = 0` or `T310 = 0` TLC finds no
violation on the small instance either. `AccessOutlastsJoining` is what the code rests on: without it
TLC does find one.

`ErrorInjector_proofs` proves, for every set of cells, every set of errors of the eight types with a
severity in percent and any window, and every set of measured vectors with legal KPIs
(`InjectorAssumption`), however many errors are in force at once:

* `TypeCorrect`: the KPIs returned are legal, which the bounds of one error do not give, since each
  clamps with its own;
* `OnlyListedAlways`: `OnlyListedMetrics`;
* `NeverOutsideWindow`, `LastsThroughWindow`: `EffectsOnlyInWindow` and `EffectsLast`, the action
  properties of the run `error_injection`.

The invariant is `IInv`: types; `Remembered`, an event in force is one of the history, and one
reported with the latest vector and still in the history is in force; and `Reported`, the vector returned
is among the records `Degraded` from the one measured, that is legal and different only where the
catalogue lists the metric for an error reported. `Degraded` is what the two nested loops keep: one
lemma per metric says that an error leaves a legal KPI legal and moves a listed one only (`OneImpact`),
and `CellDegrades` carries it through the loops. Which events a list comprehension keeps (`Keep`) and what
the loops compute is recursion over the errors, so it takes induction. The induction theorems of the
library have a predicate as a parameter, which the provers cannot instantiate; `Induction` is derived
instead from the existence of minimal elements (`WFMin`), with a set for the predicate. `Keep` is
written as a recursive function in the model for that, where `SelectSeq` would read the same.

Every safety property of every passing run is proved. Only model-checked are the liveness
properties (`EveryVectorAnswered`, `RetrainingAttempted`, `ShutdownEnds`, `CleanupEnds`,
`HandoverResolves`, and that a move of `UeService` ends), which are out of the prover's reach.

## Not modelled

* The numeric code: training, scaling, anomaly scores, float arithmetic.
* The predictor's feature preparation, and what the neighbour manager computes for logs.
* The smart labeler and the offline pipeline: sequential and without state the loop shares, apart
  from the files mentioned above.
* The dashboard: it draws files, and its commands go to the simulator. The two simulation programs
  the README of the repository names are not part of it.
* Of the LTE module's handover: handover between the cells of one eNB, a handover request for which
  the upper layers do not look at the state first, re-establishment, T300, the transfer of sequence
  numbers, data radio bearers, carrier aggregation, several UEs that compete for one random access,
  and the real RRC protocol with its losses.
* The rest of ns-3, which is vendored: the other protocol stacks, the channel and mobility models, the
  scheduler of events and the build system are a library the project uses as it is. They are all but a
  small part of the lines under `src/`, so the lines the map covers are a small part too; the
  project's own program is covered but for the parts above.
* `start_all_services.py`, the setup scripts and the legacy helpers.

## Plan

1. Done: `StabilityController`, its contract and proofs; `StabilityResponse`; `AIServer` with
   `ActionValidator`; `HandoverPolicy`; `ErrorInjector`; `ModelUpdater`; `ServiceLauncher`;
   `LteHandover` with `UeService`; proofs of all of them.
2. Next: the whole pipeline of a request: `HandoverPolicy`, the filter and the validator composed over
   successive vectors (what the policies rule out in one vector may return through the actions the
   filter keeps in force).
3. Other state machines of the LTE module that do not depend on floats: RLC acknowledged mode, HARQ.
