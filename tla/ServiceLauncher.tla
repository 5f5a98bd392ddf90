--------------------------- MODULE ServiceLauncher ---------------------------
(***************************************************************************)
(* The launcher of the three services (start_services_background.py): it   *)
(* starts them in order, restarts one on command, and stops all of them on *)
(* 'stop', 'quit' or a signal, whose handler runs in the middle of         *)
(* whatever the launcher is doing.  A process is a service and a number;   *)
(* `ns3 run` is a wrapper that runs the simulator as its own child.        *)
(***************************************************************************)
EXTENDS Integers, Sequences, SequencesExt

CONSTANTS
  MaxSpawns,        (* bound on the processes the launcher starts            *)
  MaxSignals,       (* bound on the signals the launcher gets                *)
  NoProcess

VARIABLES
  at,               (* where the launcher is                                 *)
  mode,             (* start_all, _restart_service or cleanup                *)
  todo,             (* the services it has still to start, restart or stop   *)
  processes,        (* the processes it has recorded                         *)
  pending,          (* the process Popen has returned and nothing records yet *)
  spawned,          (* number of processes started                           *)
  living,           (* the processes that run, simulators included           *)
  signals           (* number of signals received                            *)

vars == <<at, mode, todo, processes, pending, spawned, living, signals>>

Services == <<"ai_server", "dashboard", "ns3">>
Service == ToSet(Services)
Process == Service \X (1..MaxSpawns)
Simulator == {"simulator"} \X (1..MaxSpawns)

ASSUME LauncherAssumption ==
  MaxSpawns \in Nat /\ MaxSignals \in Nat /\ NoProcess \notin Process \cup Simulator

Recorded(s) == processes[s] # NoProcess

TypeOK ==
  /\ at \in {"starting", "recording", "monitoring", "stopping", "waiting", "exited", "aborted"}
  /\ mode \in {"start_all", "restart", "cleanup"}
  /\ todo \in Seq(Service)
  /\ processes \in [Service -> Process \cup {NoProcess}]
  /\ pending \in Process \cup {NoProcess}
  /\ spawned \in 0..MaxSpawns
  /\ living \subseteq Process \cup Simulator
  /\ signals \in 0..MaxSignals
  /\ at = "recording" <=> pending # NoProcess
  /\ at \in {"starting", "recording", "stopping", "waiting"} <=> todo # <<>>
  /\ at = "monitoring" => \A s \in Service : Recorded(s)
  /\ at \in {"stopping", "waiting"} => \A i \in 1..Len(todo) : Recorded(todo[i])

Init ==
  /\ at = "starting"
  /\ mode = "start_all"
  /\ todo = Services
  /\ processes = [s \in Service |-> NoProcess]
  /\ pending = NoProcess
  /\ spawned = 0
  /\ living = {}
  /\ signals = 0

-----------------------------------------------------------------------------
(* Starting.                                                               *)

Start ==
  /\ at = "starting"
  /\ spawned < MaxSpawns
  /\ spawned' = spawned + 1
  /\ pending' = <<Head(todo), spawned'>>
  /\ living' = living \cup {pending'}
  /\ at' = "recording"
  /\ UNCHANGED <<mode, todo, processes, signals>>

\* Mutant: start_all goes on whether a service has started or not.
StartFailsUnnoticed ==
  /\ at = "starting"
  /\ todo' = Tail(todo)
  /\ at' = IF todo' = <<>> THEN "monitoring" ELSE "starting"
  /\ UNCHANGED <<mode, processes, pending, spawned, living, signals>>

\* start_all gives up, and main exits without cleaning up; a restart leaves the
\* record of the process it has stopped.
StartFails ==
  /\ at = "starting"
  /\ todo' = <<>>
  /\ at' = IF mode = "start_all" THEN "aborted" ELSE "monitoring"
  /\ UNCHANGED <<mode, processes, pending, spawned, living, signals>>

Record ==
  /\ at = "recording"
  /\ processes' = [processes EXCEPT ![Head(todo)] = pending]
  /\ pending' = NoProcess
  /\ todo' = Tail(todo)
  /\ at' = IF todo' = <<>> THEN "monitoring" ELSE "starting"
  /\ UNCHANGED <<mode, spawned, living, signals>>

-----------------------------------------------------------------------------
(* Commands and signals.                                                   *)

Restart ==
  /\ at = "monitoring"
  /\ spawned < MaxSpawns
  /\ \E s \in Service : Recorded(s) /\ todo' = <<s>>
  /\ mode' = "restart"
  /\ at' = "stopping"
  /\ UNCHANGED <<processes, pending, spawned, living, signals>>

\* The services recorded so far, in the order they were started first.
IfRecorded(s) == IF Recorded(s) THEN <<s>> ELSE <<>>
RecordedServices == IfRecorded(Services[1]) \o IfRecorded(Services[2]) \o IfRecorded(Services[3])

Cleanup ==
  /\ mode' = "cleanup"
  /\ todo' = RecordedServices
  /\ at' = IF todo' = <<>> THEN "exited" ELSE "stopping"
  /\ pending' = NoProcess

Stop ==
  /\ at = "monitoring"
  /\ Cleanup
  /\ UNCHANGED <<processes, spawned, living, signals>>

\* The handler runs between any two steps and never returns to the code it
\* interrupts, a cleanup included: it ends in sys.exit.
Signal ==
  /\ at \notin {"exited", "aborted"}
  /\ signals < MaxSignals
  /\ signals' = signals + 1
  /\ Cleanup
  /\ UNCHANGED <<processes, spawned, living>>

\* input() raises at the end of the launcher's input, and nothing catches it.
InputEnds ==
  /\ at = "monitoring"
  /\ at' = "aborted"
  /\ UNCHANGED <<mode, todo, processes, pending, spawned, living, signals>>

-----------------------------------------------------------------------------
(* Stopping.                                                               *)

Terminate ==
  /\ at = "stopping"
  /\ at' = "waiting"
  /\ UNCHANGED <<mode, todo, processes, pending, spawned, living, signals>>

\* A restart goes on to start the service it has stopped.
Stopped ==
  IF mode = "restart"
    THEN at' = "starting" /\ UNCHANGED todo
    ELSE /\ todo' = Tail(todo)
         /\ at' = IF todo' = <<>> THEN "exited" ELSE "stopping"

Waited == processes[Head(todo)]

WaitReturns ==
  /\ at = "waiting"
  /\ Waited \notin living
  /\ Stopped
  /\ UNCHANGED <<mode, processes, pending, spawned, living, signals>>

\* Mutant: the wait has no timeout.
WaitForEver ==
  /\ at = "waiting"
  /\ Waited \in living
  /\ UNCHANGED vars

\* Mutant: the launcher gives up on a process that does not end.
WaitGivesUp ==
  /\ at = "waiting"
  /\ Waited \in living
  /\ Stopped
  /\ UNCHANGED <<mode, processes, pending, spawned, living, signals>>

\* Five seconds have passed: the process is killed.
WaitTimesOut ==
  /\ at = "waiting"
  /\ Waited \in living
  /\ living' = living \ {Waited}
  /\ Stopped
  /\ UNCHANGED <<mode, processes, pending, spawned, signals>>

-----------------------------------------------------------------------------
(* The processes.                                                          *)

\* ns3 has built the simulator and runs it.
RunSimulator ==
  /\ \E n \in 1..MaxSpawns :
       /\ <<"ns3", n>> \in living
       /\ <<"simulator", n>> \notin living
       /\ living' = living \cup {<<"simulator", n>>}
  /\ UNCHANGED <<at, mode, todo, processes, pending, spawned, signals>>

\* A process ends: told to, by itself, or by a signal that reaches the whole
\* terminal.  The wrapper of a simulator that ends has nothing left to do.
ProcessEnds ==
  /\ \E p \in living :
       living' = living \ (IF p \in Simulator THEN {p, <<"ns3", p[2]>>} ELSE {p})
  /\ UNCHANGED <<at, mode, todo, processes, pending, spawned, signals>>

LauncherStep == Start \/ StartFails \/ Record \/ Terminate \/ WaitReturns \/ WaitTimesOut

Next ==
  \/ LauncherStep
  \/ Restart \/ Stop \/ Signal \/ InputEnds
  \/ RunSimulator \/ ProcessEnds

\* The launcher runs when it can; commands, signals and the services' ends need
\* never come.
Spec == Init /\ [][Next]_vars /\ WF_vars(LauncherStep)

-----------------------------------------------------------------------------
(* Properties.                                                             *)

Running == at \notin {"exited", "aborted"}

\* Until it cleans up, a living service is the one the launcher has recorded under
\* its name, or the one it has just started: neither a restart nor a failed start
\* leaves a second one that the launcher can no longer stop.
NothingLost ==
  (Running /\ mode # "cleanup") =>
     \A p \in living \cap Process : p = processes[p[1]] \/ p = pending

\* "Cleanup complete": whatever state a signal finds the launcher in, and however
\* many signals follow, no process it has recorded outlives the cleanup.
RecordedStopped ==
  at = "exited" => \A s \in Service : processes[s] \notin living

\* A cleanup ends, even if no service ends when told to.
CleanupEnds == (Running /\ mode = "cleanup") ~> (at = "exited")

\* "'stop': Stop all services": nothing of them runs after the command.
StopStopsAll == (at = "exited" /\ signals = 0) => living = {}

=============================================================================
