------------------------- MODULE ModelUpdater_proofs -------------------------
(***************************************************************************)
(* For every interval and every number of rows and models: a whole model,  *)
(* once saved, is never lost.  The file alone does not tell why.  What is  *)
(* needed is where the two threads are, and that whoever sets about        *)
(* writing it leaves a whole copy behind or has had none to copy.          *)
(***************************************************************************)
EXTENDS ModelUpdater, TLAPS

\* What each thread holds at each point.  The updater runs only while the server
\* is up; the server's first save is therefore never mixed with one of the updater.
Threads ==
  /\ server \in Starting \cup {"down"} => monitor = "off"
  /\ server \in {"down", "loading", "training"} => model = NoModel
  /\ server \in {"opening", "saving", "reopening", "resaving"} => model \in Model
  /\ monitor \in {"training", "trained", "copying"} => new_model \in Model
  /\ monitor \in {"opening", "saving"} => current_model \in Model
  /\ copy # NoModel <=> monitor = "copying"
  /\ server = "saving" => ~mixed

\* A thread that is about to write the file, or is writing it.
ServerToWrite ==
  server \in {"training", "opening", "saving", "retraining", "reopening", "resaving"}
UpdaterToWrite == monitor \in {"opening", "saving"}

\* A server that has a model has it from a file that was whole, or has saved it; and
\* a file that was whole has been copied before either thread sets about writing it,
\* or is being spoilt while it is copied.
Saved ==
  /\ model_file \in Model => ever_saved
  /\ server \in {"starting_updater", "serving"} /\ model # NoModel => ever_saved
  /\ server \in {"reloading", "retraining", "reopening", "resaving"} => ever_saved
  /\ ever_saved /\ (ServerToWrite \/ UpdaterToWrite \/ copy = Torn) =>
       backups \cap Model # {}

IInv == TypeOK /\ Threads /\ Saved /\ WholeModelSurvives

\* The bounds admit the empty files the system starts with.
LEMMA NoneYet == 0 \in 0..MaxRows /\ 0 \in 0..MaxModels
  BY IntervalAssumption

\* The offline pipeline leaves no whole model and no thread running.
LEMMA InitIInv == Init => IInv
<1> SUFFICES ASSUME Init PROVE IInv
  OBVIOUS
<1>1. TypeOK
  BY NoneYet DEF Init, TypeOK, Starting, Running, Busy
<1>2. Threads /\ Saved /\ WholeModelSurvives
  BY FileAssumption DEF Init, Threads, Saved, WholeModelSurvives, Model, Starting,
     ServerToWrite, UpdaterToWrite
<1> QED BY <1>1, <1>2 DEF IInv

\* Every step of either thread, every row, kill and failed save keeps the invariant.
LEMMA StepIInv == IInv /\ [Next]_vars => IInv'
<1> SUFFICES ASSUME IInv, [Next]_vars PROVE IInv'
  OBVIOUS
<1> USE DEF IInv
<1>1. CASE CollectRow
  BY <1>1, IntervalAssumption DEF CollectRow, TypeOK, Threads, Saved,
     WholeModelSurvives, updaterVars, Model, Starting, Running, Busy, ServerToWrite,
     UpdaterToWrite
<1>2. CASE ReplaceRows
  BY <1>2, IntervalAssumption DEF ReplaceRows, TypeOK, Threads, Saved,
     WholeModelSurvives, updaterVars, Model, Starting, Running, Busy, ServerToWrite,
     UpdaterToWrite
<1>3. CASE StartServer
  <2>1. TypeOK'
    BY <1>3, IntervalAssumption, NoneYet DEF StartServer, TypeOK, fileVars, updaterVars,
       Starting, Running
  <2>2. Threads'
    BY <1>3, IntervalAssumption, FileAssumption DEF StartServer, TypeOK, Threads,
       fileVars, updaterVars, Model, Starting, Running, Busy
  <2>3. Saved' /\ WholeModelSurvives'
    BY <1>3, FileAssumption DEF StartServer, Threads, Saved, WholeModelSurvives, TypeOK,
       fileVars, updaterVars, Model, Starting, ServerToWrite, UpdaterToWrite, Running,
       Busy
  <2> QED BY <2>1, <2>2, <2>3
<1>4. CASE LoadModel
  <2>1. TypeOK'
    BY <1>4, IntervalAssumption, NoneYet DEF LoadModel, TypeOK, Loading, AfterLoad,
       fileVars, updaterVars, Starting, Running
  <2>2. Threads'
    BY <1>4, IntervalAssumption, FileAssumption DEF LoadModel, TypeOK, Threads, Loading,
       Model, AfterLoad, fileVars, updaterVars, Starting, Running, Busy
  <2>3. Saved' /\ WholeModelSurvives'
    BY <1>4, FileAssumption DEF LoadModel, Threads, Saved, WholeModelSurvives, TypeOK,
       Loading, Model, AfterLoad, fileVars, updaterVars, Starting, ServerToWrite,
       UpdaterToWrite, Running, Busy
  <2> QED BY <2>1, <2>2, <2>3
<1>5. CASE LoadNothing
  <2>1. TypeOK'
    BY <1>5, IntervalAssumption, NoneYet DEF LoadNothing, TypeOK, Loading, AfterLoad,
       fileVars, updaterVars, Starting, Running
  <2>2. Threads'
    BY <1>5, IntervalAssumption, FileAssumption DEF LoadNothing, TypeOK, Threads,
       Loading, Model, AfterLoad, fileVars, updaterVars, Starting, Running, Busy
  <2>3. Saved' /\ WholeModelSurvives'
    BY <1>5, FileAssumption DEF LoadNothing, Threads, Saved, WholeModelSurvives, TypeOK,
       Loading, Model, AfterLoad, fileVars, updaterVars, Starting, ServerToWrite,
       UpdaterToWrite, Running, Busy
  <2> QED BY <2>1, <2>2, <2>3
<1>6. CASE StartTrainingInServer
  <2>1. TypeOK'
    BY <1>6, IntervalAssumption, NoneYet DEF StartTrainingInServer, TypeOK, Loading,
       fileVars, updaterVars, Starting, Running
  <2>2. Threads'
    BY <1>6, IntervalAssumption, FileAssumption DEF StartTrainingInServer, TypeOK,
       Threads, Loading, Model, fileVars, updaterVars, Starting, Running, Busy
  <2>3. Saved' /\ WholeModelSurvives'
    BY <1>6, FileAssumption DEF StartTrainingInServer, Threads, Saved,
       WholeModelSurvives, TypeOK, Loading, Model, fileVars, updaterVars, Starting,
       ServerToWrite, UpdaterToWrite, Running, Busy
  <2> QED BY <2>1, <2>2, <2>3
<1>7. CASE TrainInServer
  <2>1. TypeOK'
    BY <1>7, IntervalAssumption, NoneYet DEF TrainInServer, TypeOK, Fresh, updaterVars,
       Model, Starting, Running
  <2>2. Threads'
    BY <1>7, IntervalAssumption, FileAssumption DEF TrainInServer, TypeOK, Threads,
       Fresh, updaterVars, Model, Starting, Running, Busy
  <2>3. Saved' /\ WholeModelSurvives'
    BY <1>7, FileAssumption DEF TrainInServer, Threads, Saved, WholeModelSurvives,
       TypeOK, Fresh, updaterVars, Model, Starting, ServerToWrite, UpdaterToWrite,
       Running, Busy
  <2> QED BY <2>1, <2>2, <2>3
<1>8. CASE TrainInServerFails
  <2>1. TypeOK'
    BY <1>8, IntervalAssumption, NoneYet DEF TrainInServerFails, TypeOK, fileVars,
       updaterVars, Starting, Running
  <2>2. Threads'
    BY <1>8, IntervalAssumption, FileAssumption DEF TrainInServerFails, TypeOK, Threads,
       fileVars, updaterVars, Model, Starting, Running, Busy
  <2>3. Saved' /\ WholeModelSurvives'
    BY <1>8, FileAssumption DEF TrainInServerFails, Threads, Saved, WholeModelSurvives,
       TypeOK, fileVars, updaterVars, Model, Starting, ServerToWrite, UpdaterToWrite,
       Running, Busy
  <2> QED BY <2>1, <2>2, <2>3
<1>9. CASE OpenInServer
  <2>1. TypeOK'
    BY <1>9, IntervalAssumption, NoneYet DEF OpenInServer, TypeOK, OpenFile,
       ServerWriting, UpdaterWriting, updaterVars, Starting, Running
  <2>2. Threads'
    BY <1>9, IntervalAssumption, FileAssumption DEF OpenInServer, TypeOK, Threads,
       OpenFile, ServerWriting, UpdaterWriting, updaterVars, Model, Starting, Running,
       Busy
  <2>3. Saved' /\ WholeModelSurvives'
    BY <1>9, FileAssumption DEF OpenInServer, Threads, Saved, WholeModelSurvives,
       TypeOK, OpenFile, ServerWriting, UpdaterWriting, updaterVars, Model, Starting,
       ServerToWrite, UpdaterToWrite, Running, Busy
  <2> QED BY <2>1, <2>2, <2>3
<1>10. CASE SaveInServer
  <2>1. TypeOK'
    BY <1>10, IntervalAssumption, NoneYet DEF SaveInServer, TypeOK, ServerWriting,
       CloseFile, UpdaterWriting, updaterVars, Starting, Running
  <2>2. Threads'
    BY <1>10, IntervalAssumption, FileAssumption DEF SaveInServer, TypeOK, Threads,
       ServerWriting, CloseFile, UpdaterWriting, updaterVars, Model, Starting, Running,
       Busy
  <2>3. Saved' /\ WholeModelSurvives'
    <3>1. model \in Model /\ UNCHANGED <<backups, model, monitor>>
      BY <1>10 DEF SaveInServer, ServerWriting, Threads, updaterVars
    <3>2. CASE server = "saving"
      <4>1. model_file' = model /\ ever_saved' /\ copy' = NoModel
        BY <1>10, <3>2 DEF SaveInServer, CloseFile, Threads, Starting
      <4>2. server' = "starting_updater" /\ monitor' = "off"
        BY <1>10, <3>1, <3>2 DEF SaveInServer, Threads, Starting
      <4> QED
        BY <3>1, <4>1, <4>2, FileAssumption DEF Saved, WholeModelSurvives, ServerToWrite,
           UpdaterToWrite
    <3>3. CASE server = "resaving"
      <4>1. ever_saved /\ backups \cap Model # {}
        BY <3>3 DEF Saved, ServerToWrite
      <4>2. ever_saved' /\ server' = "serving"
        BY <1>10, <3>3, <4>1 DEF SaveInServer, CloseFile
      <4> QED
        BY <3>1, <4>1, <4>2 DEF Saved, WholeModelSurvives
    <3> QED
      BY <1>10, <3>2, <3>3 DEF SaveInServer, ServerWriting
  <2> QED BY <2>1, <2>2, <2>3
<1>11. CASE SaveInServerFails
  <2>1. TypeOK'
    BY <1>11, IntervalAssumption, NoneYet DEF SaveInServerFails, TypeOK, fileVars,
       updaterVars, Starting, Running
  <2>2. Threads'
    BY <1>11, IntervalAssumption, FileAssumption DEF SaveInServerFails, TypeOK, Threads,
       fileVars, updaterVars, Model, Starting, Running, Busy
  <2>3. Saved' /\ WholeModelSurvives'
    BY <1>11, FileAssumption DEF SaveInServerFails, Threads, Saved, WholeModelSurvives,
       TypeOK, fileVars, updaterVars, Model, Starting, ServerToWrite, UpdaterToWrite,
       Running, Busy
  <2> QED BY <2>1, <2>2, <2>3
<1>12. CASE StartUpdater
  <2>1. TypeOK'
    BY <1>12, IntervalAssumption, NoneYet DEF StartUpdater, TypeOK, fileVars, Starting,
       Running, Busy
  <2>2. Threads'
    BY <1>12, IntervalAssumption, FileAssumption DEF StartUpdater, TypeOK, Threads,
       fileVars, Model, Starting, Running, Busy
  <2>3. Saved' /\ WholeModelSurvives'
    BY <1>12, FileAssumption DEF StartUpdater, Threads, Saved, WholeModelSurvives,
       TypeOK, fileVars, Model, Starting, ServerToWrite, UpdaterToWrite, Running, Busy
  <2> QED BY <2>1, <2>2, <2>3
<1>13. CASE StartUpdaterFails
  <2>1. TypeOK'
    BY <1>13, IntervalAssumption, NoneYet DEF StartUpdaterFails, TypeOK, fileVars,
       updaterVars, Starting, Running
  <2>2. Threads'
    BY <1>13, IntervalAssumption, FileAssumption DEF StartUpdaterFails, TypeOK, Threads,
       fileVars, updaterVars, Model, Starting, Running, Busy
  <2>3. Saved' /\ WholeModelSurvives'
    BY <1>13, FileAssumption DEF StartUpdaterFails, Threads, Saved, WholeModelSurvives,
       TypeOK, fileVars, updaterVars, Model, Starting, ServerToWrite, UpdaterToWrite,
       Running, Busy
  <2> QED BY <2>1, <2>2, <2>3
<1>14. CASE ReloadModel
  <2>1. TypeOK'
    BY <1>14, IntervalAssumption, NoneYet DEF ReloadModel, TypeOK, fileVars,
       updaterVars, Starting, Running
  <2>2. Threads'
    BY <1>14, IntervalAssumption, FileAssumption DEF ReloadModel, TypeOK, Threads,
       fileVars, updaterVars, Model, Starting, Running, Busy
  <2>3. Saved' /\ WholeModelSurvives'
    BY <1>14, FileAssumption DEF ReloadModel, Threads, Saved, WholeModelSurvives,
       TypeOK, fileVars, updaterVars, Model, Starting, ServerToWrite, UpdaterToWrite,
       Running, Busy
  <2> QED BY <2>1, <2>2, <2>3
<1>15. CASE Shutdown
  <2>1. TypeOK'
    BY <1>15, IntervalAssumption, NoneYet DEF Shutdown, TypeOK, Running, fileVars,
       updaterVars, Starting
  <2>2. Threads'
    BY <1>15, IntervalAssumption, FileAssumption DEF Shutdown, TypeOK, Threads, Running,
       fileVars, updaterVars, Model, Starting, Busy
  <2>3. Saved' /\ WholeModelSurvives'
    BY <1>15, FileAssumption DEF Shutdown, Threads, Saved, WholeModelSurvives, TypeOK,
       Running, fileVars, updaterVars, Model, Starting, ServerToWrite, UpdaterToWrite,
       Busy
  <2> QED BY <2>1, <2>2, <2>3
<1>16. CASE Exit
  <2>1. TypeOK'
    BY <1>16, IntervalAssumption, NoneYet DEF Exit, TypeOK, EndProcess, PartialCopy,
       Starting, Running, Busy
  <2>2. Threads'
    BY <1>16, IntervalAssumption, FileAssumption DEF Exit, TypeOK, Threads, EndProcess,
       PartialCopy, Model, Starting, Running, Busy
  <2>3. Saved' /\ WholeModelSurvives'
    BY <1>16, FileAssumption DEF Exit, Threads, Saved, WholeModelSurvives, TypeOK,
       EndProcess, PartialCopy, Model, Starting, ServerToWrite, UpdaterToWrite, Running,
       Busy
  <2> QED BY <2>1, <2>2, <2>3
<1>17. CASE Kill
  <2>1. TypeOK'
    BY <1>17, IntervalAssumption, NoneYet DEF Kill, TypeOK, EndProcess, PartialCopy,
       Starting, Running, Busy
  <2>2. Threads'
    BY <1>17, IntervalAssumption, FileAssumption DEF Kill, TypeOK, Threads, EndProcess,
       PartialCopy, Model, Starting, Running, Busy
  <2>3. Saved' /\ WholeModelSurvives'
    BY <1>17, FileAssumption DEF Kill, Threads, Saved, WholeModelSurvives, TypeOK,
       EndProcess, PartialCopy, Model, Starting, ServerToWrite, UpdaterToWrite, Running,
       Busy
  <2> QED BY <2>1, <2>2, <2>3
<1>18. CASE StartRetraining
  <2>1. TypeOK'
    BY <1>18, IntervalAssumption, NoneYet DEF StartRetraining, TypeOK, RowsNew, Fresh,
       Model, Busy
  <2>2. Threads'
    BY <1>18, IntervalAssumption, FileAssumption DEF StartRetraining, TypeOK, Threads,
       RowsNew, Fresh, Model, Starting, Running, Busy
  <2>3. Saved' /\ WholeModelSurvives'
    BY <1>18, FileAssumption DEF StartRetraining, Threads, Saved, WholeModelSurvives,
       TypeOK, RowsNew, Fresh, Model, Starting, ServerToWrite, UpdaterToWrite, Running,
       Busy
  <2> QED BY <2>1, <2>2, <2>3
<1>19. CASE LeaveLoop
  <2>1. TypeOK'
    BY <1>19, IntervalAssumption, NoneYet DEF LeaveLoop, TypeOK, fileVars, Busy
  <2>2. Threads'
    BY <1>19, IntervalAssumption, FileAssumption DEF LeaveLoop, TypeOK, Threads,
       fileVars, Model, Starting, Running, Busy
  <2>3. Saved' /\ WholeModelSurvives'
    BY <1>19, FileAssumption DEF LeaveLoop, Threads, Saved, WholeModelSurvives, TypeOK,
       fileVars, Model, Starting, ServerToWrite, UpdaterToWrite, Running, Busy
  <2> QED BY <2>1, <2>2, <2>3
<1>20. CASE TrainingFails
  <2>1. TypeOK'
    BY <1>20, IntervalAssumption, NoneYet DEF TrainingFails, TypeOK, fileVars, Busy
  <2>2. Threads'
    BY <1>20, IntervalAssumption, FileAssumption DEF TrainingFails, TypeOK, Threads,
       fileVars, Model, Starting, Running, Busy
  <2>3. Saved' /\ WholeModelSurvives'
    BY <1>20, FileAssumption DEF TrainingFails, Threads, Saved, WholeModelSurvives,
       TypeOK, fileVars, Model, Starting, ServerToWrite, UpdaterToWrite, Running, Busy
  <2> QED BY <2>1, <2>2, <2>3
<1>21. CASE TrainingEnds
  <2>1. TypeOK'
    BY <1>21, IntervalAssumption, NoneYet DEF TrainingEnds, TypeOK, fileVars, Busy
  <2>2. Threads'
    BY <1>21, IntervalAssumption, FileAssumption DEF TrainingEnds, TypeOK, Threads,
       fileVars, Model, Starting, Running, Busy
  <2>3. Saved' /\ WholeModelSurvives'
    BY <1>21, FileAssumption DEF TrainingEnds, Threads, Saved, WholeModelSurvives,
       TypeOK, fileVars, Model, Starting, ServerToWrite, UpdaterToWrite, Running, Busy
  <2> QED BY <2>1, <2>2, <2>3
<1>22. CASE StartBackup
  <2>1. TypeOK'
    BY <1>22, IntervalAssumption, NoneYet DEF StartBackup, TypeOK, Busy
  <2>2. Threads'
    BY <1>22, IntervalAssumption, FileAssumption DEF StartBackup, TypeOK, Threads,
       Model, Starting, Running, Busy
  <2>3. Saved' /\ WholeModelSurvives'
    BY <1>22, FileAssumption DEF StartBackup, Threads, Saved, WholeModelSurvives,
       TypeOK, Model, Starting, ServerToWrite, UpdaterToWrite, Running, Busy
  <2> QED BY <2>1, <2>2, <2>3
<1>23. CASE BackupAndSwap
  <2>1. TypeOK'
    BY <1>23, IntervalAssumption, NoneYet DEF BackupAndSwap, TypeOK, Busy
  <2>2. Threads'
    BY <1>23, IntervalAssumption, FileAssumption DEF BackupAndSwap, TypeOK, Threads,
       Model, Starting, Running, Busy
  <2>3. Saved' /\ WholeModelSurvives'
    BY <1>23, FileAssumption DEF BackupAndSwap, Threads, Saved, WholeModelSurvives,
       TypeOK, Model, Starting, ServerToWrite, UpdaterToWrite, Running, Busy
  <2> QED BY <2>1, <2>2, <2>3
<1>24. CASE BackupFails
  <2>1. TypeOK'
    BY <1>24, IntervalAssumption, NoneYet DEF BackupFails, TypeOK, PartialCopy, Busy
  <2>2. Threads'
    BY <1>24, IntervalAssumption, FileAssumption DEF BackupFails, TypeOK, Threads,
       PartialCopy, Model, Starting, Running, Busy
  <2>3. Saved' /\ WholeModelSurvives'
    BY <1>24, FileAssumption DEF BackupFails, Threads, Saved, WholeModelSurvives,
       TypeOK, PartialCopy, Model, Starting, ServerToWrite, UpdaterToWrite, Running,
       Busy
  <2> QED BY <2>1, <2>2, <2>3
<1>25. CASE OpenModelFile
  <2>1. TypeOK'
    BY <1>25, IntervalAssumption, NoneYet DEF OpenModelFile, TypeOK, OpenFile,
       ServerWriting, UpdaterWriting, Busy
  <2>2. Threads'
    BY <1>25, IntervalAssumption, FileAssumption DEF OpenModelFile, TypeOK, Threads,
       OpenFile, ServerWriting, UpdaterWriting, Model, Starting, Running, Busy
  <2>3. Saved' /\ WholeModelSurvives'
    BY <1>25, FileAssumption DEF OpenModelFile, Threads, Saved, WholeModelSurvives,
       TypeOK, OpenFile, ServerWriting, UpdaterWriting, Model, Starting, ServerToWrite,
       UpdaterToWrite, Running, Busy
  <2> QED BY <2>1, <2>2, <2>3
<1>26. CASE SaveModel
  <2>1. TypeOK'
    BY <1>26, IntervalAssumption, NoneYet DEF SaveModel, TypeOK, CloseFile,
       ServerWriting, UpdaterWriting, Busy
  <2>2. Threads'
    BY <1>26, IntervalAssumption, FileAssumption DEF SaveModel, TypeOK, Threads,
       CloseFile, ServerWriting, UpdaterWriting, Model, Starting, Running, Busy
  <2>3. Saved' /\ WholeModelSurvives'
    BY <1>26, FileAssumption DEF SaveModel, Threads, Saved, WholeModelSurvives, TypeOK,
       CloseFile, ServerWriting, UpdaterWriting, Model, Starting, ServerToWrite,
       UpdaterToWrite, Running, Busy
  <2> QED BY <2>1, <2>2, <2>3
<1>27. CASE SaveFails
  <2>1. TypeOK'
    BY <1>27, IntervalAssumption, NoneYet DEF SaveFails, TypeOK, fileVars, Busy
  <2>2. Threads'
    BY <1>27, IntervalAssumption, FileAssumption DEF SaveFails, TypeOK, Threads,
       fileVars, Model, Starting, Running, Busy
  <2>3. Saved' /\ WholeModelSurvives'
    BY <1>27, FileAssumption DEF SaveFails, Threads, Saved, WholeModelSurvives, TypeOK,
       fileVars, Model, Starting, ServerToWrite, UpdaterToWrite, Running, Busy
  <2> QED BY <2>1, <2>2, <2>3
<1>28. CASE Recount
  <2>1. TypeOK'
    BY <1>28, IntervalAssumption, NoneYet DEF Recount, TypeOK, fileVars, Busy
  <2>2. Threads'
    BY <1>28, IntervalAssumption, FileAssumption DEF Recount, TypeOK, Threads, fileVars,
       Model, Starting, Running, Busy
  <2>3. Saved' /\ WholeModelSurvives'
    BY <1>28, FileAssumption DEF Recount, Threads, Saved, WholeModelSurvives, TypeOK,
       fileVars, Model, Starting, ServerToWrite, UpdaterToWrite, Running, Busy
  <2> QED BY <2>1, <2>2, <2>3
<1>29. CASE UNCHANGED vars
  BY <1>29 DEF vars, TypeOK, Threads, Saved, WholeModelSurvives, fileVars, updaterVars,
     Model, Starting, Running, Busy, ServerToWrite, UpdaterToWrite
<1> QED BY <1>1, <1>2, <1>3, <1>4, <1>5, <1>6, <1>7, <1>8, <1>9, <1>10, <1>11, <1>12,
        <1>13, <1>14, <1>15, <1>16, <1>17, <1>18, <1>19, <1>20, <1>21, <1>22, <1>23,
        <1>24, <1>25, <1>26, <1>27, <1>28, <1>29
        DEF Next, ServerStep, MonitorStep

\* Types hold, and a retraining is under way exactly when the updater says so.
THEOREM TypeCorrect == Spec => []TypeOK
<1>1. IInv => TypeOK
  BY DEF IInv
<1> QED BY InitIInv, StepIInv, <1>1, PTL DEF Spec

\* Once the file has held a whole model, the file or a copy of it holds one: killed,
\* failed and overlapping saves, and retrainings without end, lose no model for good.
THEOREM WholeModelAlwaysSurvives == Spec => []WholeModelSurvives
<1>1. IInv => WholeModelSurvives
  BY DEF IInv
<1> QED BY InitIInv, StepIInv, <1>1, PTL DEF Spec

=============================================================================
