------------------------ MODULE ModelServing_proofs -------------------------
(***************************************************************************)
(* Training and serving keep their promises for any number of runs, epochs *)
(* and requests.                                                           *)
(***************************************************************************)
EXTENDS ModelServing, TLAPS

-----------------------------------------------------------------------------
(* The training run.                                                       *)

\* best[m] is the earliest of the best epochs so far, or none.
BestOf(m) ==
  /\ best[m].epoch \in 0..Len(val_acc[m])
  /\ best[m].epoch = 0 <=> best[m].acc = 0
  /\ best[m].epoch > 0 => val_acc[m][best[m].epoch] = best[m].acc
  /\ \A e \in 1..Len(val_acc[m]) : /\ val_acc[m][e] <= best[m].acc
                                   /\ e < best[m].epoch => val_acc[m][e] < best[m].acc

\* The run has no more to do for model m.
Done(m) == stage \in IF m = "cnn" THEN {"lwe", "metrics", "idle"} ELSE {"metrics", "idle"}

StageInv == /\ stage = "metrics" => step # "train"
            /\ \A m \in Models : stage = m /\ step # "train" => best[m].acc > 0

\* A checkpoint of the current run is its best model, and is there once the
\* run has gone on to something else.
SavedInv(m) ==
  /\ disk[m] \in Checkpoint =>
       /\ disk[m].run <= run
       /\ disk[m].run = run => /\ Done(m)
                               /\ best[m].epoch > 0
                               /\ disk[m].epoch = best[m].epoch
                               /\ disk[m].acc = best[m].acc
  /\ Done(m) /\ stage # "idle" /\ best[m].acc > 0 => disk[m] \in Checkpoint /\ disk[m].run = run

MetricsInv == disk["metrics"] \in Metrics =>
                /\ disk["metrics"].run <= run
                /\ disk["metrics"].run = run => stage = "idle"

TrainInv == /\ TrainingTypeOK
            /\ StageInv
            /\ \A m \in Models : BestOf(m) /\ SavedInv(m)
            /\ MetricsInv
            /\ MetricsHonest

LEMMA TrainInit == TrainingInit => TrainInv
BY BoundsAssumption, NoFileAssumption, TornAssumption
   DEF TrainingInit, TrainInv, TrainingTypeOK, StageInv, BestOf, SavedInv, Done, MetricsInv,
       MetricsHonest, Models, Files, NoWeights

\* A new run forgets the accuracies of the one before, and what is on disk
\* is now of an earlier run.
LEMMA StartRunInv == TrainInv /\ StartRun => TrainInv'
<1> SUFFICES ASSUME TrainInv, StartRun PROVE TrainInv'
  OBVIOUS
<1> USE DEF TrainInv, StartRun, Models, Files, NoWeights
<1>1. TrainingTypeOK'
  BY BoundsAssumption DEF TrainingTypeOK
<1>2. StageInv'
  BY DEF StageInv
<1>3. ASSUME NEW m \in Models PROVE BestOf(m)'
  BY DEF BestOf
<1>4. ASSUME NEW m \in Models PROVE SavedInv(m)'
  BY BoundsAssumption, SMTT(30) DEF SavedInv, Done, TrainingTypeOK, Checkpoint
<1>5. MetricsInv' /\ MetricsHonest'
  BY BoundsAssumption, NoFileAssumption DEF MetricsInv, MetricsHonest, TrainingTypeOK, Metrics, Checkpoint
<1> QED BY <1>1, <1>2, <1>3, <1>4, <1>5

LEMMA ElementOfSeq == ASSUME NEW T, NEW t \in Seq(T), NEW e \in 1..Len(t) PROVE t[e] \in T
  OBVIOUS

\* An epoch keeps the best of the accuracies so far.
LEMMA EpochInv ==
  ASSUME TrainInv, NEW m \in Models, NEW acc \in 0..MaxAcc, Epoch(m, acc)
  PROVE  TrainInv'
<1> USE DEF TrainInv, Epoch, Models, Files
<1> DEFINE s == val_acc[m]
           e0 == Len(s) + 1
<1>1. s \in Seq(0..MaxAcc) /\ Len(s) \in Nat /\ best[m] \in [epoch : Nat, acc : 0..MaxAcc]
  BY DEF TrainingTypeOK
<1>2. /\ Append(s, acc) \in Seq(0..MaxAcc)
      /\ Len(Append(s, acc)) = e0
      /\ \A e \in 1..Len(s) : Append(s, acc)[e] = s[e]
      /\ Append(s, acc)[e0] = acc
  BY <1>1
<1>3. val_acc' = [val_acc EXCEPT ![m] = Append(s, acc)] /\ best' = [best EXCEPT ![m] = Better(best[m], e0, acc)]
  OBVIOUS
<1>4. Better(best[m], e0, acc) \in [epoch : Nat, acc : 0..MaxAcc]
  BY <1>1 DEF Better
<1>5. TrainingTypeOK'
  BY <1>2, <1>3, <1>4 DEF TrainingTypeOK
<1>6. /\ val_acc'[m] = Append(s, acc) /\ best'[m] = Better(best[m], e0, acc)
      /\ \A f \in Models \ {m} : val_acc'[f] = val_acc[f] /\ best'[f] = best[f]
  BY <1>3 DEF TrainingTypeOK
<1>7. StageInv'
  BY <1>6 DEF StageInv
<1>8. BestOf(m)'
  <2>1. BestOf(m) /\ \A e \in 1..e0 : e \in 1..Len(s) \/ e = e0
    BY <1>1
  <2>2. \A e \in 1..Len(s) : s[e] \in 0..MaxAcc
    BY <1>1, ElementOfSeq
  <2>3. CASE acc > best[m].acc
    <3>1. best'[m] = [epoch |-> e0, acc |-> acc]
      BY <2>3, <1>6 DEF Better
    <3>2. \A e \in 1..e0 : val_acc'[m][e] <= acc /\ (e < e0 => val_acc'[m][e] < acc)
      BY <1>1, <1>2, <1>6, <2>1, <2>2, <2>3, BoundsAssumption, SMTT(30) DEF BestOf
    <3> QED BY <3>1, <3>2, <1>1, <1>2, <1>6, <2>3 DEF BestOf
  <2>4. CASE ~(acc > best[m].acc)
    <3>1. best'[m] = best[m]
      BY <2>4, <1>6 DEF Better
    <3>2. best[m].epoch \in 0..Len(s)
      BY <2>1 DEF BestOf
    <3>3. \A e \in 1..e0 : /\ val_acc'[m][e] <= best[m].acc
                           /\ e < best[m].epoch => val_acc'[m][e] < best[m].acc
      BY <1>1, <1>2, <1>6, <2>1, <2>2, <2>4, <3>2, BoundsAssumption DEF BestOf
    <3>4. best[m].epoch > 0 => val_acc'[m][best[m].epoch] = best[m].acc
      BY <1>1, <1>2, <1>6, <2>1, <3>2 DEF BestOf
    <3> QED BY <3>1, <3>2, <3>3, <3>4, <1>1, <1>2, <1>6, <2>1 DEF BestOf
  <2> QED BY <2>3, <2>4
<1>9. ASSUME NEW f \in Models PROVE BestOf(f)' /\ SavedInv(f)'
  <2>1. CASE f = m
    BY <2>1, <1>8 DEF SavedInv, Done
  <2>2. CASE f # m
    BY <2>2, <1>6 DEF BestOf, SavedInv, Done
  <2> QED BY <2>1, <2>2
<1>10. MetricsInv' /\ MetricsHonest'
  BY DEF MetricsInv, MetricsHonest
<1> QED BY <1>5, <1>7, <1>9, <1>10

LEMMA TrainedInv == ASSUME TrainInv, NEW m \in Models, Trained(m) PROVE TrainInv'
<1> USE DEF TrainInv, Trained, Advance, Models, Files, NoWeights
<1>1. best[m] \in [epoch : Nat, acc : 0..MaxAcc] /\ BestOf(m)
  BY DEF TrainingTypeOK
<1>2. best[m] # NoWeights => best[m].acc > 0
  BY <1>1, BoundsAssumption DEF BestOf
<1>3. TrainingTypeOK' /\ StageInv'
  BY <1>2 DEF TrainingTypeOK, StageInv
<1>4. ASSUME NEW f \in Models PROVE BestOf(f)' /\ SavedInv(f)'
  BY <1>2 DEF BestOf, SavedInv, Done
<1>5. MetricsInv' /\ MetricsHonest'
  BY DEF MetricsInv, MetricsHonest
<1> QED BY <1>3, <1>4, <1>5

\* While a run has a file open, the metrics on disk are of an earlier run.
LEMMA OpenInv == ASSUME TrainInv, NEW f \in Files, Open(f) PROVE TrainInv'
<1> USE DEF TrainInv, Open, Models, Files
<1>0. /\ disk'[f] = Torn
      /\ \A g \in Files \ {f} : disk'[g] = disk[g]
      /\ Torn \notin Checkpoint \cup Metrics
  BY NoFileAssumption DEF TrainingTypeOK
<1>1. TrainingTypeOK' /\ StageInv'
  BY <1>0 DEF TrainingTypeOK, StageInv
<1>2. ASSUME NEW m \in Models PROVE BestOf(m)'
  BY DEF BestOf
<1>3. ASSUME NEW m \in Models PROVE SavedInv(m)'
  BY <1>0 DEF SavedInv, Done
<1>4. MetricsInv'
  BY <1>0 DEF MetricsInv
<1>5. MetricsHonest'
  <2>1. CASE f = "metrics"
    BY <2>1, <1>0 DEF MetricsHonest
  <2>2. CASE f # "metrics"
    BY <2>2, <1>0, BoundsAssumption DEF MetricsHonest, MetricsInv, TrainingTypeOK, Metrics
  <2> QED BY <2>1, <2>2
<1> QED BY <1>1, <1>2, <1>3, <1>4, <1>5

\* A checkpoint is written with the best weights, the metrics with what was
\* saved.
LEMMA WriteInv == ASSUME TrainInv, NEW f \in Files, Write(f) PROVE TrainInv'
<1> USE DEF TrainInv, Write, Advance, Models, Files
<1>0. /\ disk'[f] = Content(f)
      /\ \A g \in Files \ {f} : disk'[g] = disk[g]
      /\ run \in Nat /\ run' = run /\ best' = best /\ val_acc' = val_acc
  BY BoundsAssumption DEF TrainingTypeOK
<1>1. CASE f = "metrics"
  <2>1. /\ Content(f) = [run |-> run, best_val_accuracy |-> [m \in Models |-> best[m].acc]]
        /\ Content(f) \in Metrics
    BY <1>1, <1>0, BoundsAssumption DEF Content, Metrics, TrainingTypeOK
  <2>2. Content(f) \notin Checkpoint \cup {Absent, Torn}
    BY <2>1, NoFileAssumption DEF Metrics, Checkpoint
  <2>3. TrainingTypeOK' /\ StageInv'
    BY <1>0, <1>1, <2>1, <2>2 DEF TrainingTypeOK, StageInv
  <2>4. ASSUME NEW m \in Models PROVE BestOf(m)' /\ SavedInv(m)'
    BY <1>0, <1>1 DEF BestOf, SavedInv, Done
  <2>5. MetricsInv'
    BY <1>0, <1>1, <2>1 DEF MetricsInv
  <2>6. MetricsHonest'
    <3> SUFFICES ASSUME NEW m \in Models, best[m].acc > 0
                 PROVE  disk[m] \in Checkpoint /\ disk[m].run = run /\ disk[m].acc = best[m].acc
      BY <1>0, <1>1, <2>1 DEF MetricsHonest
    <3> QED BY <1>1 DEF SavedInv, Done
  <2> QED BY <2>3, <2>4, <2>5, <2>6
<1>2. CASE f \in Models
  <2>1. /\ best[f].acc > 0 /\ best[f].epoch > 0
        /\ val_acc[f][best[f].epoch] = best[f].acc
        /\ best[f] \in [epoch : Nat, acc : 0..MaxAcc]
    BY <1>2, BoundsAssumption, SMTT(30) DEF StageInv, BestOf, TrainingTypeOK
  <2>2. /\ Content(f) = [run |-> run, epoch |-> best[f].epoch, acc |-> best[f].acc]
        /\ Content(f) \in Checkpoint
    BY <1>2, <1>0, <2>1, BoundsAssumption DEF Content, Checkpoint
  <2>3. Content(f) \notin Metrics \cup {Absent, Torn}
    BY <2>2, NoFileAssumption DEF Metrics, Checkpoint
  <2>4. TrainingTypeOK' /\ StageInv'
    BY <1>0, <1>2, <2>2, <2>3 DEF TrainingTypeOK, StageInv
  <2>5. ASSUME NEW m \in Models PROVE BestOf(m)'
    BY <1>0 DEF BestOf
  <2>6. ASSUME NEW m \in Models PROVE SavedInv(m)'
    <3>1. CASE m = f
      BY <3>1, <1>0, <1>2, <2>1, <2>2 DEF SavedInv, Done
    <3>2. CASE m # f
      BY <3>2, <1>0, <1>2 DEF SavedInv, Done
    <3> QED BY <3>1, <3>2
  <2>7. MetricsInv'
    BY <1>0, <1>2 DEF MetricsInv
  <2>8. MetricsHonest'
    BY <1>0, <1>2, <2>2, <2>3, BoundsAssumption DEF MetricsHonest, MetricsInv, TrainingTypeOK, Metrics
  <2> QED BY <2>4, <2>5, <2>6, <2>7, <2>8
<1> QED BY <1>1, <1>2

LEMMA CrashInv == TrainInv /\ Crash => TrainInv'
BY DEF TrainInv, Crash, TrainingTypeOK, StageInv, BestOf, SavedInv, Done, MetricsInv,
       MetricsHonest, Models, Files

LEMMA TrainStep == TrainInv /\ (Train \/ UNCHANGED trainingVars) => TrainInv'
<1> SUFFICES ASSUME TrainInv, Train \/ UNCHANGED trainingVars PROVE TrainInv'
  OBVIOUS
<1>1. CASE UNCHANGED trainingVars
  BY <1>1 DEF TrainInv, trainingVars, TrainingTypeOK, StageInv, BestOf, SavedInv, Done, MetricsInv,
              MetricsHonest
<1>2. CASE Train
  BY <1>2, StartRunInv, EpochInv, TrainedInv, OpenInv, WriteInv, CrashInv DEF Train
<1> QED BY <1>1, <1>2

-----------------------------------------------------------------------------
(* The server.                                                             *)

\* The only way into memory is through a file that was whole, and only a
\* restart takes the model out of memory.
PredictInv(r) == /\ pc[r] = "assign" => model[r] \in seen \cap Loaded
                 /\ pc[r] = "return" => cnn_model # None
                 /\ pc[r] = "answered" => answer[r] \in seen

\* What a report has told of a run stays true of the disk.
ReportInv(r) ==
  /\ answer[r] \in Metrics \cup {Absent, Torn, None}
  /\ answer[r] \in Metrics =>
       /\ answer[r].run <= run
       /\ answer[r].best_val_accuracy["cnn"] > 0 =>
            disk["cnn"] = Torn \/ (disk["cnn"] \in Checkpoint /\ disk["cnn"].run >= answer[r].run)

IInv == /\ TypeOK
        /\ TrainInv
        /\ disk["cnn"] \in seen
        /\ cnn_model \in seen \cup {None}
        /\ \A r \in Predicts : PredictInv(r)
        /\ \A r \in Reports : ReportInv(r)

LEMMA CnnFile == TrainingTypeOK => disk["cnn"] \in Loaded \cup {Torn}
BY DEF TrainingTypeOK, Models, Files, Loaded

LEMMA InitInv == Init => IInv
<1> SUFFICES ASSUME Init PROVE IInv
  OBVIOUS
<1>1. TrainInv
  BY TrainInit DEF Init
<1>2. TypeOK
  BY <1>1, CnnFile DEF TypeOK, TrainInv, Init, Started
<1> QED BY <1>1, <1>2, NoneAssumption DEF IInv, Init, Started, PredictInv, ReportInv, Requests

\* Training adds to what was seen, and replaces the checkpoint of a run only
\* by that of a later one.
LEMMA TrainServing ==
  IInv /\ (Train \/ UNCHANGED trainingVars) /\ seen' = seen \cup {disk'["cnn"]} /\ UNCHANGED servingVars
    => IInv'
<1> SUFFICES ASSUME IInv, Train \/ UNCHANGED trainingVars, seen' = seen \cup {disk'["cnn"]},
                    UNCHANGED servingVars
             PROVE  IInv'
  OBVIOUS
<1> USE DEF IInv, servingVars
<1>1. TrainInv'
  BY TrainStep
<1>2. disk'["cnn"] \in Loaded \cup {Torn}
  BY <1>1, CnnFile DEF TrainInv, TrainingTypeOK, Models, Files, Loaded
<1>3. TypeOK'
  BY <1>1, <1>2 DEF TypeOK, TrainInv
<1>4. ASSUME NEW r \in Predicts PROVE PredictInv(r)'
  BY DEF PredictInv
<1>5. /\ run \in Nat /\ run' \in Nat /\ run <= run'
      /\ \/ disk'["cnn"] = disk["cnn"]
         \/ disk'["cnn"] = Torn
         \/ disk'["cnn"] \in Checkpoint /\ disk'["cnn"].run = run
  <2>1. run \in Nat /\ disk \in [Files -> Checkpoint \cup Metrics \cup {Absent, Torn}]
    BY BoundsAssumption DEF TrainInv, TrainingTypeOK
  <2>2. CASE StartRun
    BY <2>1, <2>2 DEF StartRun
  <2>3. CASE Crash \/ UNCHANGED trainingVars
    BY <2>1, <2>3 DEF Crash, trainingVars
  <2>4. ASSUME NEW m \in Models, Trained(m) \/ \E acc \in 0..MaxAcc : Epoch(m, acc)
        PROVE  disk' = disk /\ run' = run
    BY <2>4 DEF Trained, Epoch
  <2>5. ASSUME NEW f \in Files, Open(f) PROVE run' = run /\ disk'["cnn"] \in {disk["cnn"], Torn}
    BY <2>1, <2>5 DEF Open, Files
  <2>6. ASSUME NEW f \in Files, Write(f)
        PROVE  /\ run' = run
               /\ \/ disk'["cnn"] = disk["cnn"]
                  \/ disk'["cnn"] \in Checkpoint /\ disk'["cnn"].run = run
    <3>1. CASE f # "cnn"
      <4>1. disk' = [disk EXCEPT ![f] = Content(f)] /\ run' = run
        BY <2>6 DEF Write
      <4> QED BY <2>1, <3>1, <4>1 DEF Files, Models
    <3>2. CASE f = "cnn"
      <4>1. disk'["cnn"] = [run |-> run, epoch |-> best["cnn"].epoch,
                            acc |-> val_acc["cnn"][best["cnn"].epoch]]
        BY <2>1, <2>6, <3>2 DEF Write, Files, Models, Content
      <4>2. disk'["cnn"] \notin Metrics \cup {Absent, Torn}
        <5>1. disk'["cnn"] \notin Metrics
          BY <1>1 DEF TrainInv, TrainingTypeOK, Models
        <5>2. best["cnn"].epoch \in Nat /\ val_acc["cnn"][best["cnn"].epoch] \in 0..MaxAcc
          <6>1. BestOf("cnn") /\ best["cnn"].acc > 0 /\ best["cnn"] \in [epoch : Nat, acc : 0..MaxAcc]
            BY <2>6, <3>2 DEF Write, TrainInv, StageInv, TrainingTypeOK, Models
          <6> QED BY <6>1, BoundsAssumption DEF BestOf
        <5> QED BY <5>1, <5>2, <4>1, <2>1, NoFileAssumption, BoundsAssumption DEF Checkpoint
      <4>3. disk'["cnn"] \in Checkpoint
        BY <1>2, <4>2 DEF Loaded
      <4> QED BY <4>1, <4>3, <2>6 DEF Write
    <3> QED BY <3>1, <3>2
  <2> QED BY <2>1, <2>2, <2>3, <2>4, <2>5, <2>6 DEF Train
<1>6. ASSUME NEW r \in Reports PROVE ReportInv(r)'
  BY <1>5, NoFileAssumption DEF ReportInv, Metrics
<1> QED BY <1>1, <1>3, <1>4, <1>6

LEMMA PredictStep ==
  ASSUME IInv, NEW r \in Predicts, Predict(r), UNCHANGED <<trainingVars, seen>> PROVE IInv'
<1> USE RequestsAssumption DEF IInv, Requests
<1>1. TrainInv' /\ disk' = disk /\ seen' = seen
  BY TrainStep DEF trainingVars
<1>2. /\ TypeOK /\ PredictInv(r) /\ r \in Requests
      /\ disk["cnn"] \in Loaded \cup {Torn} /\ None \notin Loaded \cup {Torn}
  BY CnnFile, NoneAssumption DEF TypeOK, Loaded
<1>3. /\ TypeOK' /\ PredictInv(r)' /\ cnn_model' \in seen \cup {None}
      /\ cnn_model # None => cnn_model' # None
      /\ \A q \in Requests \ {r} : pc'[q] = pc[q] /\ model'[q] = model[q] /\ answer'[q] = answer[q]
  <2>1. TrainingTypeOK'
    BY <1>1 DEF TrainInv
  <2>2. CASE Test(r)
    BY <1>1, <1>2, <2>1, <2>2 DEF Test, Goto, TypeOK, PredictInv
  <2>3. CASE Exists(r)
    BY <1>1, <1>2, <2>1, <2>3 DEF Exists, Goto, TypeOK, PredictInv, Loaded
  <2>4. CASE Load(r)
    BY <1>1, <1>2, <2>1, <2>4 DEF Load, Goto, Answer, TypeOK, PredictInv, Loaded
  <2>5. CASE Assign(r)
    BY <1>1, <1>2, <2>1, <2>5 DEF Assign, Goto, TypeOK, PredictInv
  <2>6. CASE Return(r)
    BY <1>1, <1>2, <2>1, <2>6 DEF Return, Answer, Goto, TypeOK, PredictInv
  <2> QED BY <2>2, <2>3, <2>4, <2>5, <2>6 DEF Predict
<1>4. ASSUME NEW q \in Predicts PROVE PredictInv(q)'
  BY <1>1, <1>3 DEF PredictInv
<1>5. ASSUME NEW q \in Reports PROVE ReportInv(q)'
  BY <1>1, <1>3 DEF ReportInv, trainingVars
<1> QED BY <1>1, <1>3, <1>4, <1>5

LEMMA ReportStep ==
  ASSUME IInv, NEW r \in Reports, Report(r), UNCHANGED <<trainingVars, seen>> PROVE IInv'
<1> USE RequestsAssumption DEF IInv, Requests
<1>1. TrainInv' /\ disk' = disk /\ seen' = seen /\ run' = run
  BY TrainStep DEF trainingVars
<1>2. disk["metrics"] \in Metrics \cup {Absent, Torn}
  BY DEF TrainInv, TrainingTypeOK, Files
<1>3. /\ cnn_model' = cnn_model /\ model' = model /\ TypeOK' /\ ReportInv(r)'
      /\ \A q \in Requests \ {r} : pc'[q] = pc[q] /\ answer'[q] = answer[q]
  <2>1. TypeOK /\ TrainingTypeOK' /\ ReportInv(r) /\ MetricsInv /\ MetricsHonest
    BY <1>1 DEF TrainInv
  <2>2. disk["metrics"] \in Metrics =>
          /\ disk["metrics"].run <= run
          /\ disk["metrics"].best_val_accuracy["cnn"] > 0 =>
               disk["cnn"] = Torn \/ (disk["cnn"] \in Checkpoint /\ disk["cnn"].run >= disk["metrics"].run)
    BY <2>1, NoFileAssumption DEF MetricsInv, MetricsHonest, Models
  <2>3. /\ cnn_model' = cnn_model /\ model' = model
        /\ pc' \in [Requests -> {"arrive", "exists", "load", "assign", "return", "read", "answered"}]
        /\ answer'[r] \in {answer[r], Absent, disk["metrics"]}
        /\ answer' \in [Requests -> Loaded \cup Metrics \cup {Torn, None}]
        /\ \A q \in Requests \ {r} : pc'[q] = pc[q] /\ answer'[q] = answer[q]
    BY <2>1, <1>2 DEF Report, Answer, Goto, TypeOK, Loaded
  <2>4. ReportInv(r)'
    BY <2>1, <2>2, <2>3, <1>1, <1>2, NoFileAssumption DEF ReportInv
  <2> QED BY <2>1, <2>3, <2>4, <1>1 DEF TypeOK
<1>4. ASSUME NEW q \in Predicts PROVE PredictInv(q)'
  BY <1>1, <1>3 DEF PredictInv
<1>5. ASSUME NEW q \in Reports PROVE ReportInv(q)'
  BY <1>1, <1>3 DEF ReportInv
<1> QED BY <1>1, <1>3, <1>4, <1>5

LEMMA RestartStep == IInv /\ Restart /\ UNCHANGED trainingVars => IInv'
<1> SUFFICES ASSUME IInv, Restart, UNCHANGED trainingVars PROVE IInv'
  OBVIOUS
<1>1. TrainInv' /\ disk' = disk
  BY TrainStep DEF IInv, trainingVars
<1>2. disk["cnn"] \in Loaded \cup {Torn}
  BY CnnFile DEF IInv, TypeOK
<1>3. TypeOK'
  BY <1>1, <1>2 DEF TypeOK, TrainInv, Restart
<1> QED BY <1>1, <1>3, NoneAssumption DEF IInv, Restart, PredictInv, ReportInv, Requests

LEMMA StepInv == IInv /\ [Next]_vars => IInv'
<1> SUFFICES ASSUME IInv, [Next]_vars PROVE IInv'
  OBVIOUS
<1>1. CASE Train /\ seen' = seen \cup {disk'["cnn"]} /\ UNCHANGED servingVars
  BY <1>1, TrainServing
<1>2. CASE Serve /\ UNCHANGED <<trainingVars, seen>>
  BY <1>2, PredictStep, ReportStep DEF Serve
<1>3. CASE Restart /\ UNCHANGED trainingVars
  BY <1>3, RestartStep
<1>4. CASE UNCHANGED vars
  <2>1. UNCHANGED trainingVars /\ UNCHANGED servingVars /\ seen' = seen /\ disk' = disk
    BY <1>4 DEF vars, trainingVars, servingVars
  <2>2. seen' = seen \cup {disk'["cnn"]}
    BY <2>1 DEF IInv
  <2> QED BY <2>1, <2>2, TrainServing
<1> QED BY <1>1, <1>2, <1>3, <1>4 DEF Next

LEMMA Inductive == Spec => []IInv
BY InitInv, StepInv, PTL DEF Spec

-----------------------------------------------------------------------------
(* What follows from it.                                                   *)

\* Every state has its type.
THEOREM TypeCorrect == Spec => []TypeOK
<1>1. IInv => TypeOK
  BY DEF IInv
<1> QED BY <1>1, Inductive, PTL

\* train_model's best_weights: the checkpoint a run leaves is its earliest
\* best epoch, for every number of epochs and every course of accuracies.
THEOREM BestSaved == Spec => []BestIsSaved
<1>1. IInv => BestIsSaved
  <2> SUFFICES ASSUME IInv, NEW m \in Models, disk[m] \notin {Absent, Torn}, disk[m].run = run
               PROVE  /\ disk[m].epoch \in 1..Len(val_acc[m])
                      /\ \A e \in 1..Len(val_acc[m]) :
                           /\ val_acc[m][e] <= val_acc[m][disk[m].epoch]
                           /\ e < disk[m].epoch => val_acc[m][e] < val_acc[m][disk[m].epoch]
    BY DEF BestIsSaved
  <2>1. disk[m] \in Checkpoint
    BY DEF IInv, TrainInv, TrainingTypeOK, Models, Files
  <2>2. disk[m].epoch = best[m].epoch /\ best[m].epoch > 0 /\ BestOf(m)
    BY <2>1 DEF IInv, TrainInv, SavedInv
  <2>3. Len(val_acc[m]) \in Nat
    BY DEF IInv, TrainInv, TrainingTypeOK
  <2> QED BY <2>2, <2>3 DEF BestOf
<1> QED BY <1>1, Inductive, PTL

\* main() writes the metrics last: whatever step a run crashes in, the
\* metrics on disk report no model that was not saved.
THEOREM MetricsTruthful == Spec => []MetricsHonest
<1>1. IInv => MetricsHonest
  BY DEF IInv, TrainInv
<1> QED BY <1>1, Inductive, PTL

\* get_side_channel_model without a lock: any number of threads that race
\* each other and a training run still answer from a file that was whole.
THEOREM ServesSinceStart == Spec => []ServedSinceStart
<1>1. IInv => ServedSinceStart
  BY DEF IInv, PredictInv, ServedSinceStart
<1> QED BY <1>1, Inductive, PTL

\* get_model_training_metrics: what was reported was saved before, and stays
\* so through later runs and their crashes.
THEOREM ReportsOfSaved == Spec => []ReportsSaved
<1>1. IInv => ReportsSaved
  <2> SUFFICES ASSUME IInv, NEW r \in Reports, answer[r] \notin {None, Absent, Torn},
                      answer[r].best_val_accuracy["cnn"] > 0, disk["cnn"] # Torn
               PROVE  disk["cnn"] # Absent /\ disk["cnn"].run >= answer[r].run
    BY DEF ReportsSaved
  <2>1. answer[r] \in Metrics
    BY DEF IInv, ReportInv
  <2> QED BY <2>1, NoFileAssumption DEF IInv, ReportInv
<1> QED BY <1>1, Inductive, PTL

\* The loading race of get_side_channel_model ends: once no thread loads,
\* the server answers with one model until it is restarted.
THEOREM ModelSettles == Spec => Settled
<1>1. IInv /\ [Next]_vars => [cnn_model # None /\ Loading = {} =>
                               cnn_model' \in {cnn_model, None} /\ Loading' = {}]_vars
  <2> SUFFICES ASSUME IInv, Next, cnn_model # None, Loading = {}
               PROVE  cnn_model' \in {cnn_model, None} /\ Loading' = {}
    OBVIOUS
  <2>0. pc \in [Requests -> {"arrive", "exists", "load", "assign", "return", "read", "answered"}]
    BY DEF IInv, TypeOK
  <2>1. CASE Train /\ UNCHANGED servingVars
    BY <2>1 DEF servingVars, Loading
  <2>2. ASSUME NEW r \in Predicts, Predict(r) PROVE cnn_model' = cnn_model /\ Loading' = {}
    <3>1. pc[r] \notin {"exists", "load", "assign"}
      BY DEF Loading
    <3>2. Test(r) \/ Return(r)
      BY <2>2, <3>1 DEF Predict, Exists, Load, Assign
    <3>3. cnn_model' = cnn_model /\ \E to \in {"return", "answered"} : pc' = [pc EXCEPT ![r] = to]
      BY <3>2 DEF Test, Return, Goto, Answer
    <3> QED BY <3>3, <2>0 DEF Loading, Requests
  <2>3. ASSUME NEW r \in Reports, Report(r) PROVE cnn_model' = cnn_model /\ Loading' = {}
    <3>1. cnn_model' = cnn_model /\ \E to \in {"read", "answered"} : pc' = [pc EXCEPT ![r] = to]
      BY <2>3 DEF Report, Goto, Answer
    <3> QED BY <3>1, <2>0 DEF Loading, Requests
  <2>4. CASE Restart
    BY <2>4 DEF Restart, Loading, Requests
  <2> QED BY <2>1, <2>2, <2>3, <2>4 DEF Next, Serve
<1> QED BY <1>1, Inductive, PTL DEF Spec, Settled
=============================================================================
