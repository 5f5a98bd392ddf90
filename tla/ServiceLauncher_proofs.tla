----------------------- MODULE ServiceLauncher_proofs -----------------------
(***************************************************************************)
(* The launcher, for every number of restarts and signals: no service is   *)
(* running that it could not stop, and a cleanup leaves none it recorded.  *)
(***************************************************************************)
EXTENDS ServiceLauncher, SequenceTheorems, TLAPS

\* The record of a service about to be started is free or of a process that has
\* ended, the process just started is that service's, and what is not yet recorded
\* is still to be started.
Starts ==
  /\ at \in {"starting", "recording"} =>
       /\ \A i, j \in 1..Len(todo) : todo[i] = todo[j] => i = j
       /\ \A s \in Service : Recorded(s) \/ s \in ToSet(todo)
       /\ \A s \in ToSet(todo) : processes[s] \notin living
  /\ at \in {"starting", "recording", "monitoring"} => mode # "cleanup"
  /\ at = "recording" => pending[1] = Head(todo)
  /\ mode = "restart" => \A s \in Service : Recorded(s)
  /\ \A s \in Service : Recorded(s) => processes[s][2] <= spawned
  /\ at = "recording" => pending[2] <= spawned

\* A restart stops one service; a cleanup has still to stop each recorded one that runs.
Stops ==
  at \in {"stopping", "waiting"} =>
    /\ mode \in {"restart", "cleanup"}
    /\ mode = "restart" => Len(todo) = 1
    /\ mode = "cleanup" => \A s \in Service : processes[s] \in living => s \in ToSet(todo)

IInv == TypeOK /\ Starts /\ Stops /\ NothingLost /\ RecordedStopped

-----------------------------------------------------------------------------

LEMMA ThreeServices ==
  /\ Service = {"ai_server", "dashboard", "ns3"}
  /\ Services \in Seq(Service)
  /\ Len(Services) = 3
  /\ Services # <<>>
  /\ Process \cap Simulator = {}
<1>1. Service = {"ai_server", "dashboard", "ns3"}
  BY DEF Service, Services, ToSet
<1>2. Process \cap Simulator = {}
  BY <1>1 DEF Process, Simulator
<1> QED BY <1>1, <1>2 DEF Services

\* Taking the first service off the list takes it out of the set.
LEMMA HeadAndRest ==
  ASSUME NEW q \in Seq(Service), q # <<>>
  PROVE  /\ Head(q) \in Service
         /\ Head(q) \in ToSet(q)
         /\ Tail(q) \in Seq(Service)
         /\ ToSet(q) = {Head(q)} \cup ToSet(Tail(q))
         /\ ToSet(q) \subseteq Service
         /\ Len(q) = 1 => Tail(q) = <<>>
         /\ (\A i, j \in 1..Len(q) : q[i] = q[j] => i = j) =>
              /\ Head(q) \notin ToSet(Tail(q))
              /\ \A i, j \in 1..Len(Tail(q)) : Tail(q)[i] = Tail(q)[j] => i = j
<1> DEFINE n == Len(q)  t == Tail(q)
<1>1. n \in Nat \ {0} /\ q \in [1..n -> Service] /\ Head(q) = q[1] /\ DOMAIN q = 1..n
  BY EmptySeq, LenProperties
<1>2. /\ t \in Seq(Service)
      /\ Len(t) = n - 1
      /\ \A i \in 1..Len(t) : t[i] = q[i + 1]
  BY HeadTailProperties
<1>3. DOMAIN t = 1..Len(t) /\ Len(t) \in Nat
  BY <1>2, LenProperties
<1> HIDE DEF n, t
<1>4. ToSet(q) = {q[i] : i \in 1..n} /\ ToSet(t) = {t[i] : i \in 1..Len(t)}
  BY <1>1, <1>3 DEF ToSet
<1>5. ToSet(q) = {q[1]} \cup ToSet(t)
  <2>1. ASSUME NEW i \in 1..n PROVE q[i] \in {q[1]} \cup ToSet(t)
    <3>1. CASE i = 1
      BY <3>1
    <3>2. CASE i # 1
      <4>1. i - 1 \in 1..Len(t) /\ (i - 1) + 1 = i
        BY <3>2, <1>1, <1>2
      <4> QED BY <4>1, <1>2, <1>4
    <3> QED BY <3>1, <3>2
  <2>2. ASSUME NEW i \in 1..Len(t) PROVE t[i] \in ToSet(q)
    <3>1. i + 1 \in 1..n
      BY <1>1, <1>2
    <3> QED BY <3>1, <1>2, <1>4
  <2>3. q[1] \in ToSet(q)
    BY <1>1, <1>4
  <2> QED BY <2>1, <2>2, <2>3, <1>4
<1>6. ToSet(q) \subseteq Service
  BY <1>1, <1>4
<1>7. ASSUME n = 1 PROVE t = <<>>
  <2>1. Len(t) = 0
    BY <1>7, <1>2
  <2> QED BY <2>1, <1>2, EmptySeq
<1>8. ASSUME \A i, j \in 1..n : q[i] = q[j] => i = j
      PROVE  /\ q[1] \notin ToSet(t)
             /\ \A i, j \in 1..Len(t) : t[i] = t[j] => i = j
  <2>1. ASSUME NEW i \in 1..Len(t) PROVE i + 1 \in 1..n /\ i + 1 # 1
    BY <1>1, <1>2
  <2>2. \A i \in 1..Len(t) : t[i] # q[1]
    BY <2>1, <1>2, <1>1, <1>8
  <2>3. ASSUME NEW i \in 1..Len(t), NEW j \in 1..Len(t), t[i] = t[j] PROVE i = j
    <3>1. i + 1 = j + 1
      BY <2>1, <2>3, <1>2, <1>8
    <3> QED BY <3>1, <1>2, <1>3
  <2> QED BY <2>2, <2>3, <1>4
<1>9. Head(q) = q[1] /\ n = Len(q) /\ t = Tail(q)
  BY <1>1 DEF n, t
<1> QED BY <1>1, <1>2, <1>5, <1>6, <1>7, <1>8, <1>9

\* The members of a concatenation are the members of its parts.
LEMMA MembersOfConcat ==
  ASSUME NEW q \in Seq(Service), NEW r \in Seq(Service)
  PROVE  q \o r \in Seq(Service) /\ ToSet(q \o r) = ToSet(q) \cup ToSet(r)
<1> DEFINE c == q \o r
<1>1. /\ c \in Seq(Service)
      /\ Len(c) = Len(q) + Len(r)
      /\ \A i \in 1..(Len(q) + Len(r)) : c[i] = IF i <= Len(q) THEN q[i] ELSE r[i - Len(q)]
  BY ConcatProperties
<1>2. Len(q) \in Nat /\ Len(r) \in Nat /\ Len(c) \in Nat
  BY <1>1, LenProperties
<1> HIDE DEF c
<1>3. /\ ToSet(q) = {q[i] : i \in 1..Len(q)}
      /\ ToSet(r) = {r[i] : i \in 1..Len(r)}
      /\ ToSet(c) = {c[i] : i \in 1..Len(c)}
  BY <1>1, LenProperties DEF ToSet
<1>4. ASSUME NEW i \in 1..Len(c) PROVE c[i] \in ToSet(q) \cup ToSet(r)
  <2>1. CASE i <= Len(q)
    <3>1. i \in 1..Len(q) /\ c[i] = q[i]
      BY <2>1, <1>1, <1>2
    <3> QED BY <3>1, <1>3
  <2>2. CASE ~(i <= Len(q))
    <3>1. i - Len(q) \in 1..Len(r) /\ c[i] = r[i - Len(q)]
      BY <2>2, <1>1, <1>2
    <3> QED BY <3>1, <1>3
  <2> QED BY <2>1, <2>2
<1>5. ASSUME NEW i \in 1..Len(q) PROVE q[i] \in ToSet(c)
  <2>1. i \in 1..Len(c) /\ c[i] = q[i]
    BY <1>1, <1>2
  <2> QED BY <2>1, <1>3
<1>6. ASSUME NEW i \in 1..Len(r) PROVE r[i] \in ToSet(c)
  <2>1. Len(q) + i \in 1..Len(c) /\ ~(Len(q) + i <= Len(q)) /\ (Len(q) + i) - Len(q) = i
    BY <1>1, <1>2
  <2>2. c[Len(q) + i] = r[i]
    BY <2>1, <1>1
  <2> QED BY <2>1, <2>2, <1>3
<1>7. ToSet(c) = ToSet(q) \cup ToSet(r)
  BY <1>3, <1>4, <1>5, <1>6
<1>8. q \o r = c
  BY DEF c
<1> QED BY <1>1, <1>7, <1>8

\* A cleanup goes through the recorded services and no others.
LEMMA CleanupList ==
  /\ RecordedServices \in Seq(Service)
  /\ ToSet(RecordedServices) = {s \in Service : Recorded(s)}
  /\ \A i \in 1..Len(RecordedServices) : Recorded(RecordedServices[i])
  /\ RecordedServices = <<>> => \A s \in Service : ~Recorded(s)
<1>1. ASSUME NEW s \in Service
      PROVE  /\ IfRecorded(s) \in Seq(Service)
             /\ ToSet(IfRecorded(s)) = {x \in {s} : Recorded(x)}
  BY DEF IfRecorded, ToSet
<1> DEFINE a == IfRecorded(Services[1])
           d == IfRecorded(Services[2])
           n == IfRecorded(Services[3])
<1>2. /\ Services[1] = "ai_server" /\ Services[2] = "dashboard" /\ Services[3] = "ns3"
      /\ Services[1] \in Service /\ Services[2] \in Service /\ Services[3] \in Service
  BY ThreeServices DEF Services
<1>3. a \in Seq(Service) /\ d \in Seq(Service) /\ n \in Seq(Service)
  BY <1>1, <1>2
<1>4. ToSet(a) \cup ToSet(d) \cup ToSet(n) = {s \in Service : Recorded(s)}
  <2>1. /\ ToSet(a) = {x \in {"ai_server"} : Recorded(x)}
        /\ ToSet(d) = {x \in {"dashboard"} : Recorded(x)}
        /\ ToSet(n) = {x \in {"ns3"} : Recorded(x)}
    BY <1>1, <1>2
  <2> HIDE DEF a, d, n
  <2> QED BY <2>1, ThreeServices
<1> HIDE DEF a, d, n
<1>5. a \o d \in Seq(Service) /\ ToSet(a \o d) = ToSet(a) \cup ToSet(d)
  BY <1>3, MembersOfConcat
<1>6. (a \o d) \o n \in Seq(Service) /\ ToSet((a \o d) \o n) = ToSet(a \o d) \cup ToSet(n)
  BY <1>3, <1>5, MembersOfConcat
<1>7. RecordedServices = (a \o d) \o n
  BY DEF RecordedServices, a, d, n
<1>8. /\ RecordedServices \in Seq(Service)
      /\ ToSet(RecordedServices) = {s \in Service : Recorded(s)}
  BY <1>4, <1>5, <1>6, <1>7
<1>9. \A i \in 1..Len(RecordedServices) : RecordedServices[i] \in ToSet(RecordedServices)
  BY <1>8, LenProperties DEF ToSet
<1>10. ToSet(<<>>) = {}
  BY DEF ToSet
<1> QED BY <1>8, <1>9, <1>10

\* The launcher begins with nothing running and every service to start.
LEMMA InitIInv == Init => IInv
<1> SUFFICES ASSUME Init PROVE IInv
  OBVIOUS
<1>1. TypeOK
  BY ThreeServices, LauncherAssumption DEF Init, TypeOK
<1>2. ToSet(Services) = Service /\ ~\E s \in Service : Recorded(s)
  BY DEF Init, Service, Recorded
<1>3. \A i, j \in 1..Len(Services) : Services[i] = Services[j] => i = j
  BY ThreeServices DEF Services
<1>4. Starts /\ Stops
  BY <1>2, <1>3 DEF Init, Starts, Stops
<1>5. NothingLost /\ RecordedStopped
  BY DEF Init, NothingLost, RecordedStopped
<1> QED BY <1>1, <1>4, <1>5 DEF IInv

\* What is left of the list, and what the records are, in any state of the invariant.
LEMMA TodoFacts ==
  ASSUME IInv
  PROVE  /\ todo \in Seq(Service)
         /\ ToSet(<<>>) = {}
         /\ ToSet(todo) = {todo[i] : i \in 1..Len(todo)}
         /\ todo # <<>> =>
              /\ Head(todo) \in Service
              /\ Head(todo) \in ToSet(todo)
              /\ Tail(todo) \in Seq(Service)
              /\ ToSet(todo) = {Head(todo)} \cup ToSet(Tail(todo))
              /\ ToSet(Tail(todo)) = {Tail(todo)[i] : i \in 1..Len(Tail(todo))}
              /\ Len(todo) = 1 => Tail(todo) = <<>>
         /\ \A s \in Service : processes[s] \in Process \cup {NoProcess}
<1>1. todo \in Seq(Service)
  BY DEF IInv, TypeOK
<1>2. ASSUME NEW q \in Seq(Service) PROVE ToSet(q) = {q[i] : i \in 1..Len(q)}
  BY LenProperties DEF ToSet
<1>3. todo # <<>> => Tail(todo) \in Seq(Service)
  BY <1>1, HeadAndRest
<1>4. ToSet(<<>>) = {}
  BY DEF ToSet
<1>5. \A s \in Service : processes[s] \in Process \cup {NoProcess}
  BY DEF IInv, TypeOK
<1> QED BY <1>1, <1>2, <1>3, <1>4, <1>5, HeadAndRest

\* A new process has a number no recorded one has.
LEMMA StartKeeps == IInv /\ Start => IInv'
<1> SUFFICES ASSUME IInv, Start PROVE IInv'
  OBVIOUS
<1>1. /\ TypeOK /\ Starts /\ NothingLost
      /\ at = "starting" /\ todo # <<>> /\ pending = NoProcess
  BY DEF IInv, Start, TypeOK
<1>2. pending' = <<Head(todo), spawned + 1>> /\ pending' \in Process
  <2>1. spawned + 1 \in 1..MaxSpawns
    BY <1>1, LauncherAssumption DEF Start, TypeOK
  <2> QED BY <2>1, <1>1, TodoFacts DEF Start, Process
<1>3. pending' # NoProcess /\ pending'[1] = Head(todo) /\ pending'[2] = spawned + 1
  BY <1>2, LauncherAssumption
<1>4. TypeOK'
  <2>1. spawned' \in 0..MaxSpawns
    BY <1>1, LauncherAssumption DEF Start, TypeOK
  <2>2. living' \subseteq Process \cup Simulator
    BY <1>1, <1>2 DEF Start, TypeOK
  <2> QED BY <1>1, <1>2, <1>3, <2>1, <2>2 DEF Start, TypeOK, Recorded
<1>5. \A s \in Service : processes[s] # pending'
  <2> SUFFICES ASSUME NEW s \in Service, processes[s] = pending' PROVE FALSE
    OBVIOUS
  <2>1. Recorded(s) /\ processes[s][2] = spawned + 1
    BY <1>3 DEF Recorded
  <2>2. processes[s][2] <= spawned /\ spawned \in Nat
    BY <1>1, <2>1 DEF Starts, TypeOK
  <2> QED BY <2>1, <2>2
<1>6. Starts'
  <2>1. spawned \in Nat /\ spawned' = spawned + 1
    BY <1>1 DEF Start, TypeOK
  <2>2. \A s \in ToSet(todo) : processes[s] \notin living'
    BY <1>1, <1>5, TodoFacts DEF Start, Starts, IInv
  <2>3. ASSUME NEW s \in Service, Recorded(s)' PROVE processes'[s][2] <= spawned'
    <3>1. processes' = processes /\ Recorded(s)
      BY <2>3 DEF Start, Recorded
    <3>2. processes[s][2] <= spawned /\ processes[s][2] \in 1..MaxSpawns
      BY <1>1, <3>1, TodoFacts DEF Starts, Recorded, Process
    <3> QED BY <3>1, <3>2, <2>1
  <2>4. pending'[2] <= spawned'
    BY <1>3, <2>1
  <2> QED BY <1>1, <1>3, <2>2, <2>3, <2>4 DEF Start, Starts, Recorded
<1>7. NothingLost'
  BY <1>1, <1>2, LauncherAssumption DEF Start, NothingLost, Running
<1>8. Stops' /\ RecordedStopped'
  BY DEF Start, Stops, RecordedStopped
<1> QED BY <1>4, <1>6, <1>7, <1>8 DEF IInv

\* The record that is replaced is of a process that has ended.
LEMMA RecordKeeps == IInv /\ Record => IInv'
<1> SUFFICES ASSUME IInv, Record PROVE IInv'
  OBVIOUS
<1> DEFINE h == Head(todo)
<1>1. /\ TypeOK /\ Starts /\ NothingLost
      /\ at = "recording" /\ todo # <<>> /\ todo \in Seq(Service)
      /\ pending \in Process /\ pending # NoProcess /\ pending[1] = h
  BY DEF IInv, Record, TypeOK, Starts
<1>2. /\ h \in Service /\ h \notin ToSet(Tail(todo))
      /\ Tail(todo) \in Seq(Service)
      /\ ToSet(todo) = {h} \cup ToSet(Tail(todo))
      /\ \A i, j \in 1..Len(Tail(todo)) : Tail(todo)[i] = Tail(todo)[j] => i = j
      /\ ToSet(todo) \subseteq Service
      /\ ToSet(<<>>) = {}
  BY <1>1, HeadAndRest, TodoFacts DEF Starts
<1>3. /\ processes'[h] = pending
      /\ \A s \in Service \ {h} : processes'[s] = processes[s]
      /\ processes' \in [Service -> Process \cup {NoProcess}]
      /\ todo' = Tail(todo) /\ pending' = NoProcess
      /\ at' = IF Tail(todo) = <<>> THEN "monitoring" ELSE "starting"
      /\ UNCHANGED <<mode, spawned, living, signals>>
  BY <1>1, <1>2 DEF Record, TypeOK
<1> HIDE DEF h
<1>4. \A s \in Service : s \in ToSet(todo') \/ Recorded(s)'
  BY <1>1, <1>2, <1>3 DEF Starts, Recorded
<1>5. TypeOK'
  BY <1>1, <1>2, <1>3, <1>4 DEF TypeOK, Recorded
<1>6. Starts'
  <2>1. \A s \in ToSet(todo') : processes'[s] \notin living'
    BY <1>1, <1>2, <1>3 DEF Starts
  <2>2. mode' = "restart" => \A s \in Service : Recorded(s)'
    BY <1>1, <1>3 DEF Starts, Recorded
  <2>3. \A s \in Service : Recorded(s)' => processes'[s][2] <= spawned'
    BY <1>1, <1>3 DEF Starts, Recorded
  <2> QED BY <1>1, <1>2, <1>3, <1>4, <2>1, <2>2, <2>3 DEF Starts
<1>7. NothingLost'
  <2> SUFFICES ASSUME mode' # "cleanup", NEW p \in living' \cap Process
               PROVE  p = processes'[p[1]]
    BY DEF NothingLost
  <2>1. p = processes[p[1]] \/ p = pending
    BY <1>1, <1>3 DEF NothingLost, Running
  <2>2. p[1] \in Service
    BY DEF Process
  <2>3. processes[h] \notin living
    BY <1>1, <1>2 DEF Starts
  <2> QED BY <1>1, <1>3, <2>1, <2>2, <2>3
<1>8. Stops' /\ RecordedStopped'
  BY <1>3 DEF Stops, RecordedStopped
<1> QED BY <1>5, <1>6, <1>7, <1>8 DEF IInv

\* A cleanup, of the command or of a signal, has every recorded service to stop.
LEMMA CleanupKeeps ==
  IInv /\ Cleanup /\ UNCHANGED <<processes, spawned, living>> /\ signals' \in 0..MaxSignals => IInv'
<1> SUFFICES ASSUME IInv, Cleanup, UNCHANGED <<processes, spawned, living>>, signals' \in 0..MaxSignals
             PROVE  IInv'
  OBVIOUS
<1>1. /\ TypeOK /\ Starts
      /\ mode' = "cleanup" /\ todo' = RecordedServices /\ pending' = NoProcess
      /\ at' = IF todo' = <<>> THEN "exited" ELSE "stopping"
      /\ UNCHANGED <<processes, spawned, living>>
  BY DEF IInv, Cleanup
<1>2. NoProcess \notin living
  BY <1>1, LauncherAssumption DEF TypeOK
<1>3. TypeOK'
  BY <1>1, CleanupList DEF TypeOK, Recorded
<1>4. Starts'
  BY <1>1 DEF Starts, Recorded
<1>5. Stops'
  <2>1. \A s \in Service : processes[s] \in living => s \in ToSet(RecordedServices)
    BY <1>2, CleanupList DEF Recorded
  <2> QED BY <1>1, <2>1 DEF Stops
<1>6. RecordedStopped'
  BY <1>1, <1>2, CleanupList DEF RecordedStopped, Recorded
<1>7. NothingLost'
  BY <1>1 DEF NothingLost
<1> QED BY <1>3, <1>4, <1>5, <1>6, <1>7 DEF IInv

\* The process waited for no longer runs: the list goes on without it.
LEMMA StoppedKeeps ==
  IInv /\ at = "waiting" /\ Stopped /\ living' = living \ {Waited}
    /\ UNCHANGED <<mode, processes, pending, spawned, signals>> => IInv'
<1> SUFFICES ASSUME IInv, at = "waiting", Stopped, living' = living \ {Waited},
                    UNCHANGED <<mode, processes, pending, spawned, signals>>
             PROVE  IInv'
  OBVIOUS
<1>1. /\ TypeOK /\ Starts /\ Stops /\ NothingLost
      /\ todo # <<>> /\ pending = NoProcess
      /\ mode \in {"restart", "cleanup"}
      /\ mode = "restart" => Len(todo) = 1
  BY DEF IInv, TypeOK, Stops
<1>2. processes[Head(todo)] \notin living'
  BY DEF Waited
<1>3. CASE mode = "restart"
  <2>1. at' = "starting" /\ todo' = todo
    BY <1>3 DEF Stopped
  <2>2. ToSet(todo) = {Head(todo)}
    BY <1>1, <1>3, TodoFacts
  <2>3. \A i, j \in 1..Len(todo) : i = j
    <3>1. Len(todo) = 1
      BY <1>1, <1>3
    <3> QED BY <3>1
  <2>4. TypeOK'
    BY <1>1, <2>1 DEF TypeOK, Recorded
  <2>5. Starts'
    BY <1>1, <1>2, <1>3, <2>1, <2>2, <2>3 DEF Starts, Recorded
  <2>6. NothingLost'
    BY <1>1, <1>3 DEF NothingLost, Running
  <2>7. Stops' /\ RecordedStopped'
    BY <2>1 DEF Stops, RecordedStopped
  <2> QED BY <2>4, <2>5, <2>6, <2>7 DEF IInv
<1>4. CASE mode = "cleanup"
  <2>1. todo' = Tail(todo) /\ at' = IF Tail(todo) = <<>> THEN "exited" ELSE "stopping"
    BY <1>4 DEF Stopped
  <2>2. \A s \in Service : processes[s] \in living' => s \in ToSet(Tail(todo))
    BY <1>1, <1>2, <1>4, TodoFacts DEF Stops
  <2>3. \A i \in 1..Len(Tail(todo)) : Recorded(Tail(todo)[i])
    <3>1. \A s \in ToSet(todo) : Recorded(s)
      BY <1>1, TodoFacts DEF TypeOK
    <3> QED BY <3>1, <1>1, TodoFacts
  <2>4. TypeOK'
    BY <1>1, <2>1, <2>3, TodoFacts DEF TypeOK, Recorded
  <2>5. Starts'
    BY <1>1, <1>4, <2>1 DEF Starts, Recorded
  <2>6. Stops'
    BY <1>4, <2>1, <2>2 DEF Stops
  <2>7. RecordedStopped'
    BY <2>1, <2>2, TodoFacts DEF RecordedStopped
  <2>8. NothingLost'
    BY <1>4 DEF NothingLost
  <2> QED BY <2>4, <2>5, <2>6, <2>7, <2>8 DEF IInv
<1> QED BY <1>1, <1>3, <1>4

\* Every step of the launcher, of the user, of the system and of the services.
LEMMA StepIInv == IInv /\ [Next]_vars => IInv'
<1> SUFFICES ASSUME IInv, [Next]_vars PROVE IInv'
  OBVIOUS
<1>0. TypeOK /\ Starts /\ Stops /\ NothingLost /\ RecordedStopped
  BY DEF IInv
<1>1. CASE Start
  BY <1>1, StartKeeps
<1>2. CASE StartFails
  <2>1. mode = "restart" => \A s \in Service : Recorded(s)
    BY <1>0 DEF Starts
  <2>2. mode \in {"start_all", "restart", "cleanup"} /\ mode # "cleanup"
    BY <1>0, <1>2 DEF StartFails, TypeOK, Starts
  <2>3. TypeOK'
    BY <1>0, <1>2, <2>1, <2>2 DEF StartFails, TypeOK, Recorded
  <2>4. Starts' /\ Stops' /\ NothingLost' /\ RecordedStopped'
    BY <1>0, <1>2 DEF StartFails, Starts, Stops, NothingLost, RecordedStopped, Running, Recorded
  <2> QED BY <2>3, <2>4 DEF IInv
<1>3. CASE Record
  BY <1>3, RecordKeeps
<1>4. CASE Terminate
  BY <1>0, <1>4 DEF IInv, Terminate, TypeOK, Starts, Stops, NothingLost, RecordedStopped, Running, Recorded
<1>5. CASE WaitReturns
  <2>1. living' = living \ {Waited}
    BY <1>5 DEF WaitReturns
  <2> QED BY <1>5, <2>1, StoppedKeeps DEF WaitReturns
<1>6. CASE WaitTimesOut
  BY <1>6, StoppedKeeps DEF WaitTimesOut
<1>7. CASE Restart
  <2>1. PICK s \in Service : Recorded(s) /\ todo' = <<s>>
    BY <1>7 DEF Restart
  <2>2. todo' \in Seq(Service) /\ Len(todo') = 1 /\ todo'[1] = s /\ todo' # <<>>
    BY <2>1
  <2>3. /\ at = "monitoring" /\ at' = "stopping" /\ mode' = "restart"
        /\ UNCHANGED <<processes, pending, spawned, living, signals>>
    BY <1>7 DEF Restart
  <2>4. TypeOK'
    BY <1>0, <2>1, <2>2, <2>3 DEF TypeOK, Recorded
  <2>5. Starts' /\ Stops' /\ RecordedStopped'
    BY <1>0, <2>2, <2>3 DEF TypeOK, Starts, Stops, RecordedStopped, Recorded
  <2>6. NothingLost'
    BY <1>0, <2>3 DEF Starts, NothingLost, Running
  <2> QED BY <2>4, <2>5, <2>6 DEF IInv
<1>8. CASE Stop
  <2>1. signals' \in 0..MaxSignals
    BY <1>0, <1>8 DEF Stop, TypeOK
  <2> QED BY <1>8, <2>1, CleanupKeeps DEF Stop
<1>9. CASE Signal
  <2>1. signals' \in 0..MaxSignals
    BY <1>0, <1>9, LauncherAssumption DEF Signal, TypeOK
  <2> QED BY <1>9, <2>1, CleanupKeeps DEF Signal
<1>10. CASE InputEnds
  BY <1>0, <1>10 DEF IInv, InputEnds, TypeOK, Starts, Stops, NothingLost, RecordedStopped, Running, Recorded
<1>11. CASE RunSimulator
  <2>1. PICK n \in 1..MaxSpawns : living' = living \cup {<<"simulator", n>>}
    BY <1>11 DEF RunSimulator
  <2>2. <<"simulator", n>> \in Simulator /\ <<"simulator", n>> \notin Process
    BY ThreeServices DEF Simulator
  <2>3. \A s \in Service : processes[s] # <<"simulator", n>>
    BY <2>2, LauncherAssumption, TodoFacts
  <2>4. ToSet(todo) \subseteq Service
    BY <1>0, TodoFacts, HeadAndRest
  <2>5. TypeOK'
    BY <1>0, <1>11, <2>1, <2>2 DEF RunSimulator, TypeOK, Recorded
  <2>6. Starts'
    BY <1>0, <1>11, <2>1, <2>3, <2>4 DEF RunSimulator, Starts, Recorded
  <2>7. Stops' /\ RecordedStopped'
    BY <1>0, <1>11, <2>1, <2>3 DEF RunSimulator, Stops, RecordedStopped
  <2>8. NothingLost'
    BY <1>0, <1>11, <2>1, <2>2 DEF RunSimulator, NothingLost, Running
  <2> QED BY <2>5, <2>6, <2>7, <2>8 DEF IInv
<1>12. CASE ProcessEnds
  <2>1. living' \subseteq living
    BY <1>12 DEF ProcessEnds
  <2>2. TypeOK'
    BY <1>0, <1>12, <2>1 DEF ProcessEnds, TypeOK, Recorded
  <2>3. Starts' /\ Stops' /\ NothingLost' /\ RecordedStopped'
    BY <1>0, <1>12, <2>1
       DEF ProcessEnds, Starts, Stops, NothingLost, RecordedStopped, Running, Recorded
  <2> QED BY <2>2, <2>3 DEF IInv
<1>13. CASE UNCHANGED vars
  BY <1>0, <1>13
     DEF vars, IInv, TypeOK, Starts, Stops, NothingLost, RecordedStopped, Running, Recorded
<1> QED BY <1>1, <1>2, <1>3, <1>4, <1>5, <1>6, <1>7, <1>8, <1>9, <1>10, <1>11, <1>12, <1>13
        DEF Next, LauncherStep

-----------------------------------------------------------------------------

\* Types hold; the menu is reached with every service recorded; only recorded
\* services are ever waited for.
THEOREM TypeCorrect == Spec => []TypeOK
<1>1. IInv => TypeOK
  BY DEF IInv
<1> QED BY InitIInv, StepIInv, <1>1, PTL DEF Spec

\* However many restarts there are, and whichever start fails, no service runs that
\* the launcher has lost track of.
THEOREM NothingIsLost == Spec => []NothingLost
<1>1. IInv => NothingLost
  BY DEF IInv
<1> QED BY InitIInv, StepIInv, <1>1, PTL DEF Spec

\* Wherever the first signal and those after it arrive, a cleanup that completes has
\* stopped every process on record.
THEOREM RecordedAreStopped == Spec => []RecordedStopped
<1>1. IInv => RecordedStopped
  BY DEF IInv
<1> QED BY InitIInv, StepIInv, <1>1, PTL DEF Spec

=============================================================================
