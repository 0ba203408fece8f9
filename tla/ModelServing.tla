---------------------------- MODULE ModelServing ----------------------------
(***************************************************************************)
(* The API server of src/pqc_bench/api/main.py next to ModelTraining: its  *)
(* predict handlers load the CNN checkpoint on first use into a module     *)
(* global without a lock, each in a thread of its own, and its metrics     *)
(* handlers read the metrics file.  Nothing tells the server of a new run; *)
(* only a restart empties its global.                                      *)
(*                                                                         *)
(* A model in memory is named after the file it was loaded from: Absent is *)
(* the model with initial weights that is used when there is no file.      *)
(***************************************************************************)
EXTENDS ModelTraining

CONSTANTS Predicts,      \* POST /api/v1/model/predict, one thread each
          Reports,       \* GET /api/v1/model/metrics, one thread each
          None           \* Python's None

ASSUME RequestsAssumption == Predicts \cap Reports = {}
ASSUME NoneAssumption == None \notin Checkpoint \cup Metrics \cup {Absent, Torn}

Requests == Predicts \cup Reports

VARIABLES cnn_model,     \* the module global _cnn_model
          pc,            \* where each request is
          model,         \* the model each request builds
          answer,        \* what it was answered: Torn for status 500, Absent for 404
          seen           \* every content of the checkpoint since the server started

servingVars == <<cnn_model, pc, model, answer>>
vars == <<trainingVars, servingVars, seen>>

Loaded == Checkpoint \cup {Absent}

TypeOK == /\ TrainingTypeOK
          /\ cnn_model \in Loaded \cup {None}
          /\ pc \in [Requests -> {"arrive", "exists", "load", "assign", "return", "read", "answered"}]
          /\ model \in [Requests -> Loaded \cup {None}]
          /\ answer \in [Requests -> Loaded \cup Metrics \cup {Torn, None}]
          /\ seen \subseteq Loaded \cup {Torn}

Started == /\ cnn_model = None
           /\ pc = [r \in Requests |-> "arrive"]
           /\ model = [r \in Requests |-> None]
           /\ answer = [r \in Requests |-> None]

Init == TrainingInit /\ Started /\ seen = {disk["cnn"]}

Goto(r, to) == pc' = [pc EXCEPT ![r] = to]
Answer(r, a) == Goto(r, "answered") /\ answer' = [answer EXCEPT ![r] = a]

\* Mutant: every request loads a model of its own.
TestNothing(r) == /\ pc[r] = "arrive"
                  /\ Goto(r, "exists")
                  /\ UNCHANGED <<cnn_model, model, answer>>

\* get_side_channel_model, from its test of the global to its return.
Test(r) == /\ pc[r] = "arrive"
           /\ Goto(r, IF cnn_model = None THEN "exists" ELSE "return")
           /\ UNCHANGED <<cnn_model, model, answer>>

Exists(r) == /\ pc[r] = "exists"
             /\ IF disk["cnn"] = Absent
                THEN Goto(r, "assign") /\ model' = [model EXCEPT ![r] = Absent]
                ELSE Goto(r, "load") /\ UNCHANGED model
             /\ UNCHANGED <<cnn_model, answer>>

\* A torn checkpoint does not load: the exception is a status 500.
Load(r) == /\ pc[r] = "load"
           /\ IF disk["cnn"] = Torn
              THEN Answer(r, Torn) /\ UNCHANGED model
              ELSE /\ model' = [model EXCEPT ![r] = disk["cnn"]]
                   /\ Goto(r, "assign") /\ UNCHANGED answer
           /\ UNCHANGED cnn_model

\* Mutant: the model is shared before its weights are loaded.
SharesTooEarly(r) == \/ /\ pc[r] = "exists" /\ cnn_model = None
                        /\ cnn_model' = Absent
                        /\ UNCHANGED <<pc, model, answer>>
                     \/ /\ pc[r] = "assign"
                        /\ cnn_model' = model[r]
                        /\ Goto(r, "return")
                        /\ UNCHANGED <<model, answer>>

\* The last of several loading threads wins.
Assign(r) == /\ pc[r] = "assign"
             /\ cnn_model' = model[r]
             /\ Goto(r, "return")
             /\ UNCHANGED <<model, answer>>

\* The global is read again.
Return(r) == /\ pc[r] = "return"
             /\ Answer(r, cnn_model)
             /\ UNCHANGED <<cnn_model, model>>

Predict(r) == Test(r) \/ Exists(r) \/ Load(r) \/ Assign(r) \/ Return(r)

\* get_model_training_metrics
Report(r) == /\ \/ /\ pc[r] = "arrive"
                   /\ IF disk["metrics"] = Absent THEN Answer(r, Absent)
                      ELSE Goto(r, "read") /\ UNCHANGED answer
                \/ pc[r] = "read" /\ Answer(r, disk["metrics"])
             /\ UNCHANGED <<cnn_model, model>>

Serve == (\E r \in Predicts : Predict(r)) \/ (\E r \in Reports : Report(r))

\* Requests under way are lost with the process, and clients ask anew.
Restart == /\ cnn_model' = None
           /\ pc' = [r \in Requests |-> "arrive"]
           /\ model' = [r \in Requests |-> None]
           /\ answer' = [r \in Requests |-> None]
           /\ seen' = {disk["cnn"]}

Next == \/ Train /\ seen' = seen \cup {disk'["cnn"]} /\ UNCHANGED servingVars
        \/ Serve /\ UNCHANGED <<trainingVars, seen>>
        \/ Restart /\ UNCHANGED trainingVars

Spec == Init /\ [][Next]_vars

-----------------------------------------------------------------------------
(* Properties.                                                             *)

\* A prediction comes from a file that was whole, and is refused only if a
\* torn file was there, at some time since the server started: no half of a
\* checkpoint, no failed load and no model of an earlier server is served.
ServedSinceStart ==
  \A r \in Predicts : pc[r] = "answered" => answer[r] \in seen

\* Once no thread is loading any more, the model of a server is settled:
\* threads that race for it, with different checkpoints, end up with one.
Loading == {r \in Predicts : pc[r] \in {"exists", "load", "assign"}}
Settled == [][cnn_model # None /\ Loading = {} => cnn_model' \in {cnn_model, None}
                                                  /\ Loading' = {}]_vars

\* What the metrics handler reports of a run was saved before: a server
\* started after the answer serves that run's checkpoint or a later one.
ReportsSaved ==
  \A r \in Reports :
    /\ answer[r] \notin {None, Absent, Torn} /\ answer[r].best_val_accuracy["cnn"] > 0
    /\ disk["cnn"] # Torn
    => disk["cnn"] # Absent /\ disk["cnn"].run >= answer[r].run
=============================================================================
