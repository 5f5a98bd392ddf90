---------------------------- MODULE ModelUpdater ----------------------------
(***************************************************************************)
(* The life of the model in the server's process: the server loads or      *)
(* trains it (ai_server.py, _load_or_train_model), the updater's thread    *)
(* retrains it from the training data (ai_engine/model_updater.py), both   *)
(* save to one file that joblib writes in place, and the process may be    *)
(* killed at any point.  A model is known by the order in which it was     *)
(* trained.                                                                *)
(***************************************************************************)
EXTENDS Integers, FiniteSets

CONSTANTS
  RetrainingInterval,   (* new rows that trigger a retraining               *)
  MaxRows,              (* bound on the rows of the training data           *)
  MaxModels,            (* bound on the models trained                      *)
  NoModel, Torn         (* no file or untrained; a file partly written      *)

ASSUME IntervalAssumption ==
  RetrainingInterval \in Nat \ {0} /\ MaxRows \in Nat /\ MaxModels \in Nat
ASSUME FileAssumption ==
  NoModel \notin 1..MaxModels /\ Torn \notin 1..MaxModels /\ NoModel # Torn

VARIABLES
  rows,             (* rows of training_dataset.csv, 0 if there is no file   *)
  model_file,       (* what hybrid_model_path holds                          *)
  backups,          (* what the copies in model_backup_dir hold              *)
  copy,             (* what the copy being taken will hold, or NoModel       *)
  trained,          (* number of models trained so far                       *)
  server,           (* program counter of the server's thread                *)
  model,            (* AIServer.model                                        *)
  monitor,          (* program counter of the updater's thread               *)
  current_model,    (* ModelUpdater.current_model                            *)
  new_model,        (* the model the updater is training                     *)
  last_row_count, is_training, should_stop,
  mixed,            (* the file's two writers have overlapped                *)
  ever_saved        (* history: the file has held a whole model              *)

fileVars == <<rows, model_file, backups, copy, trained, mixed, ever_saved>>
updaterVars == <<monitor, current_model, new_model, last_row_count, is_training>>
vars == <<fileVars, server, model, updaterVars, should_stop>>

Model == 1..MaxModels
Running == {"serving", "reloading", "retraining", "reopening", "resaving"}
Starting == {"loading", "training", "opening", "saving", "starting_updater"}
Busy == {"training", "trained", "copying", "opening", "saving", "recounting"}

TypeOK ==
  /\ rows \in 0..MaxRows
  /\ model_file \in Model \cup {NoModel, Torn}
  /\ backups \subseteq Model \cup {Torn}
  /\ trained \in 0..MaxModels
  /\ copy \in Model \cup {NoModel, Torn}
  /\ server \in {"down", "stopping"} \cup Starting \cup Running
  /\ model \in Model \cup {NoModel}
  /\ monitor \in {"off", "sleeping"} \cup Busy
  /\ current_model \in Model \cup {NoModel}
  /\ new_model \in Model \cup {NoModel}
  /\ last_row_count \in 0..MaxRows
  /\ is_training \in BOOLEAN /\ should_stop \in BOOLEAN
  /\ mixed \in BOOLEAN /\ ever_saved \in BOOLEAN
  /\ is_training <=> monitor \in Busy

Fresh == trained + 1

\* The offline pipeline may have been killed while it saved a model.
Init ==
  /\ rows \in 0..MaxRows
  /\ model_file \in {NoModel, Torn}
  /\ backups = {}
  /\ copy = NoModel
  /\ trained = 0
  /\ server = "down"
  /\ model = NoModel
  /\ monitor = "off"
  /\ current_model = NoModel
  /\ new_model = NoModel
  /\ last_row_count = 0
  /\ is_training = FALSE
  /\ should_stop = FALSE
  /\ mixed = FALSE
  /\ ever_saved = FALSE

-----------------------------------------------------------------------------
(* The files.                                                              *)

ServerWriting == server \in {"saving", "resaving"}
UpdaterWriting == monitor = "saving"

\* joblib.dump truncates the file, whoever else is writing to it or copying it.
OpenFile ==
  /\ model_file' = Torn
  /\ mixed' = (ServerWriting \/ UpdaterWriting)
  /\ copy' = IF copy = NoModel THEN NoModel ELSE Torn
  /\ UNCHANGED ever_saved

\* What two writers leave behind may be a model or a mixture of both.
CloseFile(m) ==
  /\ model_file' \in (IF mixed THEN {m, Torn} ELSE {m})
  /\ ever_saved' = (ever_saved \/ model_file' = m)
  /\ mixed' = (mixed /\ ServerWriting /\ UpdaterWriting)
  /\ copy' \in (IF copy = NoModel THEN {NoModel} ELSE {model_file', Torn})

\* What is left of a copy that does not come to its end.
PartialCopy == IF copy = NoModel THEN {} ELSE {Torn}

\* A row is appended to the training data.
CollectRow ==
  /\ rows < MaxRows
  /\ rows' = rows + 1
  /\ UNCHANGED <<model_file, backups, copy, trained, mixed, ever_saved, server, model,
                 updaterVars, should_stop>>

\* The training pipeline generates the data anew.
ReplaceRows ==
  /\ rows' \in 1..MaxRows
  /\ UNCHANGED <<model_file, backups, copy, trained, mixed, ever_saved, server, model,
                 updaterVars, should_stop>>

-----------------------------------------------------------------------------
(* The server's thread.                                                    *)

StartServer ==
  /\ server = "down"
  /\ server' = "loading"
  /\ UNCHANGED <<fileVars, model, updaterVars, should_stop>>

\* Where _load_or_train_model returns to: the constructor, or the request loop.
Loading == server \in {"loading", "reloading"}
AfterLoad == IF server = "loading" THEN "starting_updater" ELSE "serving"

LoadModel ==
  /\ Loading
  /\ model_file \in Model
  /\ model' = model_file
  /\ server' = AfterLoad
  /\ UNCHANGED <<fileVars, updaterVars, should_stop>>

\* A file that is torn is replaced by a model trained now, as is one that is absent;
\* the file may be another when the training ends.
StartTrainingInServer ==
  /\ Loading
  /\ model_file \notin Model
  /\ rows > 0
  /\ model' = NoModel
  /\ server' = IF server = "loading" THEN "training" ELSE "retraining"
  /\ UNCHANGED <<fileVars, updaterVars, should_stop>>

\* Past the bound on models every training fails.
TrainInServer ==
  /\ server \in {"training", "retraining"}
  /\ trained < MaxModels
  /\ model' = Fresh
  /\ trained' = trained + 1
  /\ server' = IF server = "training" THEN "opening" ELSE "reopening"
  /\ UNCHANGED <<rows, model_file, backups, copy, mixed, ever_saved, updaterVars, should_stop>>

\* Training raises: the constructor fails, or the request is answered an error.
TrainInServerFails ==
  /\ server \in {"training", "retraining"}
  /\ server' = IF server = "training" THEN "down" ELSE "serving"
  /\ UNCHANGED <<fileVars, model, updaterVars, should_stop>>

OpenInServer ==
  /\ server \in {"opening", "reopening"}
  /\ OpenFile
  /\ server' = IF server = "opening" THEN "saving" ELSE "resaving"
  /\ UNCHANGED <<rows, backups, trained, model, updaterVars, should_stop>>

SaveInServer ==
  /\ ServerWriting
  /\ CloseFile(model)
  /\ server' = IF server = "saving" THEN "starting_updater" ELSE "serving"
  /\ UNCHANGED <<rows, backups, trained, model, updaterVars, should_stop>>

\* The file cannot be opened, or the disk is full: the constructor fails, or the
\* request is answered an error.
SaveInServerFails ==
  \/ /\ server \in {"opening", "saving"}
     /\ model' = NoModel
     /\ server' = "down"
     /\ UNCHANGED <<fileVars, updaterVars, should_stop>>
  \/ /\ server \in {"reopening", "resaving"}
     /\ server' = "serving"
     /\ UNCHANGED <<fileVars, model, updaterVars, should_stop>>

\* Without training data the server goes on with what it has.
LoadNothing ==
  /\ Loading
  /\ model_file \notin Model
  /\ rows = 0
  /\ model' = IF model_file = Torn THEN NoModel ELSE model
  /\ server' = AfterLoad
  /\ UNCHANGED <<fileVars, updaterVars, should_stop>>

\* The updater loads the file unless there is none, and its thread starts.
StartUpdater ==
  /\ server = "starting_updater"
  /\ model_file # Torn
  /\ current_model' = model_file
  /\ last_row_count' = 0
  /\ is_training' = FALSE
  /\ should_stop' = FALSE
  /\ monitor' = "sleeping"
  /\ server' = "serving"
  /\ UNCHANGED <<fileVars, model, new_model>>

\* A torn file raises in the updater's constructor: the server does not start.
StartUpdaterFails ==
  /\ server = "starting_updater"
  /\ model_file = Torn
  /\ server' = "down"
  /\ model' = NoModel
  /\ UNCHANGED <<fileVars, updaterVars, should_stop>>

\* A request finds that the model was trained on other features.
ReloadModel ==
  /\ server = "serving"
  /\ model # NoModel
  /\ server' = "reloading"
  /\ UNCHANGED <<fileVars, model, updaterVars, should_stop>>

\* An interrupt, whatever the server is at: the updater is told to stop, and the
\* server's thread ends, having waited for the updater or not.
Shutdown ==
  /\ server \in Running
  /\ should_stop' = TRUE
  /\ server' = "stopping"
  /\ UNCHANGED <<fileVars, model, updaterVars>>

EndProcess ==
  /\ server' = "down"
  /\ model' = NoModel
  /\ monitor' = "off"
  /\ current_model' = NoModel
  /\ new_model' = NoModel
  /\ last_row_count' = 0
  /\ is_training' = FALSE
  /\ should_stop' = FALSE
  /\ mixed' = FALSE
  /\ backups' = backups \cup PartialCopy
  /\ copy' = NoModel
  /\ UNCHANGED <<rows, model_file, trained, ever_saved>>

\* The interpreter waits for the updater's thread, which is not a daemon.
Exit == server = "stopping" /\ monitor = "off" /\ EndProcess

Kill == server # "down" /\ EndProcess

ServerStep ==
  \/ LoadModel \/ LoadNothing \/ StartTrainingInServer \/ TrainInServer \/ TrainInServerFails
  \/ OpenInServer \/ SaveInServer \/ SaveInServerFails
  \/ StartUpdater \/ StartUpdaterFails

-----------------------------------------------------------------------------
(* The updater's thread.                                                   *)

RowsNew == rows - last_row_count

\* The loop's turn, every ten seconds: train, sleep on, or leave.
StartRetraining ==
  /\ monitor = "sleeping"
  /\ ~should_stop /\ ~is_training
  /\ RowsNew >= RetrainingInterval
  /\ trained < MaxModels
  /\ is_training' = TRUE
  /\ new_model' = Fresh
  /\ trained' = trained + 1
  /\ monitor' = "training"
  /\ UNCHANGED <<rows, model_file, backups, copy, mixed, ever_saved, server, model,
                 current_model, last_row_count, should_stop>>

\* Mutant: the loop does not look at should_stop while rows are waiting.
LeaveWhenIdle ==
  /\ monitor = "sleeping"
  /\ should_stop /\ RowsNew < RetrainingInterval
  /\ monitor' = "off"
  /\ UNCHANGED <<fileVars, server, model, current_model, new_model, last_row_count,
                 is_training, should_stop>>

LeaveLoop ==
  /\ monitor = "sleeping"
  /\ should_stop
  /\ monitor' = "off"
  /\ UNCHANGED <<fileVars, server, model, current_model, new_model, last_row_count,
                 is_training, should_stop>>

\* Mutant: the early return of a training without two classes leaves the flag up.
FailStillTraining ==
  /\ monitor = "training"
  /\ new_model' = NoModel
  /\ monitor' = "sleeping"
  /\ UNCHANGED <<fileVars, server, model, current_model, last_row_count, is_training, should_stop>>

TrainingFails ==
  /\ monitor = "training"
  /\ is_training' = FALSE
  /\ new_model' = NoModel
  /\ monitor' = "sleeping"
  /\ UNCHANGED <<fileVars, server, model, current_model, last_row_count, should_stop>>

TrainingEnds ==
  /\ monitor = "training"
  /\ monitor' = "trained"
  /\ UNCHANGED <<fileVars, server, model, current_model, new_model, last_row_count,
                 is_training, should_stop>>

\* Mutant: no copy of the old file is taken.
SwapModel ==
  /\ monitor = "trained"
  /\ current_model' = new_model
  /\ monitor' = "opening"
  /\ UNCHANGED <<fileVars, server, model, new_model, last_row_count, is_training, should_stop>>

\* A file that is there is copied first, whatever it holds.
StartBackup ==
  /\ monitor = "trained"
  /\ model_file # NoModel
  /\ copy' = model_file
  /\ monitor' = "copying"
  /\ UNCHANGED <<rows, model_file, backups, trained, mixed, ever_saved, server, model,
                 current_model, new_model, last_row_count, is_training, should_stop>>

\* The model is swapped in memory before it is saved.
BackupAndSwap ==
  /\ \/ monitor = "trained" /\ model_file = NoModel
     \/ monitor = "copying"
  /\ backups' = backups \cup ({copy} \ {NoModel})
  /\ copy' = NoModel
  /\ current_model' = new_model
  /\ monitor' = "opening"
  /\ UNCHANGED <<rows, model_file, trained, mixed, ever_saved, server, model, new_model,
                 last_row_count, is_training, should_stop>>

\* The copy fails; no swap.
BackupFails ==
  /\ monitor = "copying"
  /\ backups' = backups \cup PartialCopy
  /\ copy' = NoModel
  /\ is_training' = FALSE
  /\ new_model' = NoModel
  /\ monitor' = "sleeping"
  /\ UNCHANGED <<rows, model_file, trained, mixed, ever_saved, server, model, current_model,
                 last_row_count, should_stop>>

OpenModelFile ==
  /\ monitor = "opening"
  /\ OpenFile
  /\ monitor' = "saving"
  /\ UNCHANGED <<rows, backups, trained, server, model, current_model, new_model,
                 last_row_count, is_training, should_stop>>

SaveModel ==
  /\ monitor = "saving"
  /\ CloseFile(current_model)
  /\ monitor' = "recounting"
  /\ UNCHANGED <<rows, backups, trained, server, model, current_model, new_model,
                 last_row_count, is_training, should_stop>>

\* Mutant: the handler of a failed save leaves the flag up.
SaveFailsStillTraining ==
  /\ monitor \in {"opening", "saving"}
  /\ new_model' = NoModel
  /\ monitor' = "sleeping"
  /\ UNCHANGED <<fileVars, server, model, current_model, last_row_count, is_training, should_stop>>

\* The file cannot be opened and stays as it is, or the disk is full and it stays as
\* far as it was written.
SaveFails ==
  /\ monitor \in {"opening", "saving"}
  /\ is_training' = FALSE
  /\ new_model' = NoModel
  /\ monitor' = "sleeping"
  /\ UNCHANGED <<fileVars, server, model, current_model, last_row_count, should_stop>>

\* The rows are counted again, after the training; an unreadable file counts 0.
Recount ==
  /\ monitor = "recounting"
  /\ last_row_count' \in {rows, 0}
  /\ is_training' = FALSE
  /\ new_model' = NoModel
  /\ monitor' = "sleeping"
  /\ UNCHANGED <<fileVars, server, model, current_model, should_stop>>

MonitorStep ==
  \/ StartRetraining \/ LeaveLoop \/ TrainingFails \/ TrainingEnds
  \/ StartBackup \/ BackupAndSwap \/ BackupFails
  \/ OpenModelFile \/ SaveModel \/ SaveFails \/ Recount

Next ==
  \/ CollectRow \/ ReplaceRows
  \/ StartServer \/ ServerStep \/ ReloadModel \/ Shutdown \/ Exit \/ Kill
  \/ MonitorStep

\* A thread that can run does; nothing makes rows, starts, mismatches, shutdowns or
\* kills happen.
Spec == /\ Init /\ [][Next]_vars
        /\ WF_vars(ServerStep) /\ WF_vars(Exit) /\ WF_vars(MonitorStep)

-----------------------------------------------------------------------------
(* Properties.                                                             *)

\* "Save backup of old model": once the file has held a whole model, the file or a
\* copy holds one, whatever kill, failed save or second writer has torn the file.
WholeModelSurvives == ever_saved => (model_file \in Model \/ backups \cap Model # {})

\* New rows past the interval are trained on, or the updater is on its way out,
\* however often training or saving has failed before.
RetrainingAttempted ==
  (monitor = "sleeping" /\ RowsNew >= RetrainingInterval /\ trained < MaxModels)
    ~> \/ monitor = "training" \/ trained = MaxModels
       \/ should_stop \/ server = "down"
       \/ RowsNew < RetrainingInterval     \* the data were replaced meanwhile

\* The non-daemon thread does not keep the process alive: a shutdown ends it.
ShutdownEnds == server = "stopping" ~> server = "down"

\* "Initialize model updater for continuous learning": what the updater has
\* trained is what the server serves, sooner or later.
RetrainedModelServed ==
  \A i \in 1..MaxModels :
    (monitor = "recounting" /\ current_model = i)
      ~> (server = "down" \/ should_stop \/ (model # NoModel /\ model >= i))

=============================================================================
