--------------------------- MODULE ModelTraining ----------------------------
(***************************************************************************)
(* main() of src/pqc_bench/models/train_side_channel.py: one run after the *)
(* other trains the side-channel CNN and the LWE MLP and writes two        *)
(* checkpoints and a metrics file in place, each file opened (and emptied) *)
(* before it is written.  A run may crash, or raise, between any two steps.*)
(*                                                                         *)
(* Weights are named after the run and the epoch that produced them, an    *)
(* accuracy is a number of correct predictions.  The number of epochs is a *)
(* command-line argument.                                                  *)
(***************************************************************************)
EXTENDS Naturals, Sequences

CONSTANTS MaxRuns,     \* bound of the runs
          MaxEpochs,   \* bound of the epochs of one training
          MaxAcc,      \* correct predictions of a perfect model
          Absent,      \* no file
          Torn         \* a file that was opened but not written to its end

ASSUME BoundsAssumption == {MaxRuns, MaxEpochs, MaxAcc} \subseteq Nat

Models == {"cnn", "lwe"}
Files == Models \cup {"metrics"}
Checkpoint == [run : Nat, epoch : Nat, acc : Nat]
Metrics == [run : Nat, best_val_accuracy : [Models -> Nat]]

ASSUME NoFileAssumption == {Absent, Torn} \cap (Checkpoint \cup Metrics) = {}
ASSUME TornAssumption == Absent # Torn

VARIABLES disk,      \* the content of each file
          stage,     \* what the run is busy with
          step,      \* how far it is: training, before open, before write
          run,       \* the number of runs started
          val_acc,   \* the validation accuracies of the run's epochs
          best       \* best_weights and best_val_acc; epoch 0 for no weights

trainingVars == <<disk, stage, step, run, val_acc, best>>

TrainingTypeOK ==
  /\ disk \in [Files -> Checkpoint \cup Metrics \cup {Absent, Torn}]
  /\ \A m \in Models : disk[m] \notin Metrics
  /\ disk["metrics"] \notin Checkpoint
  /\ stage \in Files \cup {"idle"}
  /\ step \in {"train", "open", "write"}
  /\ run \in 0..MaxRuns
  /\ val_acc \in [Models -> Seq(0..MaxAcc)]
  /\ best \in [Models -> [epoch : Nat, acc : 0..MaxAcc]]

NoWeights == [epoch |-> 0, acc |-> 0]

TrainingInit == /\ disk = [f \in Files |-> Absent]
                /\ stage = "idle"
                /\ step = "train"
                /\ run = 0
                /\ val_acc = [m \in Models |-> <<>>]
                /\ best = [m \in Models |-> NoWeights]

StartRun == /\ stage = "idle" /\ run < MaxRuns
            /\ run' = run + 1
            /\ stage' = "cnn"
            /\ step' = "train"
            /\ val_acc' = [m \in Models |-> <<>>]
            /\ best' = [m \in Models |-> NoWeights]
            /\ UNCHANGED disk

\* Mutant: the weights of every epoch replace the best ones.
Latest(b, epoch, acc) == [epoch |-> epoch, acc |-> IF acc > b.acc THEN acc ELSE b.acc]

\* Mutant: equally good weights replace earlier ones.
AtLeastAsGood(b, epoch, acc) == IF acc >= b.acc THEN [epoch |-> epoch, acc |-> acc] ELSE b

\* Weights are copied only if they are strictly better than all before them.
Better(b, epoch, acc) == IF acc > b.acc THEN [epoch |-> epoch, acc |-> acc] ELSE b

Epoch(m, acc) == /\ stage = m /\ step = "train" /\ Len(val_acc[m]) < MaxEpochs
                 /\ val_acc' = [val_acc EXCEPT ![m] = Append(@, acc)]
                 /\ best' = [best EXCEPT ![m] = Better(@, Len(val_acc[m]) + 1, acc)]
                 /\ UNCHANGED <<disk, stage, step, run>>

\* After a model comes the next one, after the models the metrics.
Advance(f) == /\ stage' = CASE f = "cnn" -> "lwe" [] f = "lwe" -> "metrics" [] OTHER -> "idle"
              /\ step' = IF f = "cnn" THEN "train" ELSE "open"

\* The epochs are over.  Without weights nothing is saved; a CNN trained for
\* no epoch at all has no final accuracy to report and raises.
Trained(m) == /\ stage = m /\ step = "train"
              /\ m = "lwe" => val_acc[m] # <<>>
              /\ \/ /\ best[m] # NoWeights
                    /\ step' = "open" /\ UNCHANGED stage
                 \/ /\ best[m] = NoWeights /\ val_acc[m] # <<>>
                    /\ Advance(m)
                 \/ /\ val_acc[m] = <<>>
                    /\ stage' = "idle" /\ UNCHANGED step
              /\ UNCHANGED <<disk, run, val_acc, best>>

Open(f) == /\ stage = f /\ step = "open"
           /\ disk' = [disk EXCEPT ![f] = Torn]
           /\ step' = "write"
           /\ UNCHANGED <<stage, run, val_acc, best>>

\* What the open file receives.  The metrics report both models, trained
\* with success or not.
Content(f) == IF f = "metrics"
              THEN [run |-> run, best_val_accuracy |-> [m \in Models |-> best[m].acc]]
              ELSE [run |-> run, epoch |-> best[f].epoch, acc |-> val_acc[f][best[f].epoch]]

\* The summary that main() prints after the metrics raises, with nothing left to write.
Write(f) == /\ stage = f /\ step = "write"
            /\ disk' = [disk EXCEPT ![f] = Content(f)]
            /\ Advance(f)
            /\ UNCHANGED <<run, val_acc, best>>

Crash == /\ stage # "idle"
         /\ stage' = "idle"
         /\ UNCHANGED <<disk, step, run, val_acc, best>>

Train == \/ StartRun \/ Crash
         \/ \E m \in Models : Trained(m) \/ \E acc \in 0..MaxAcc : Epoch(m, acc)
         \/ \E f \in Files : Open(f) \/ Write(f)

-----------------------------------------------------------------------------
(* Properties.                                                             *)

\* A checkpoint of the current run holds the weights of its best epoch, the
\* earliest of equals, whatever the epochs after it did to the model.
BestIsSaved ==
  \A m \in Models : disk[m] \notin {Absent, Torn} /\ disk[m].run = run =>
    /\ disk[m].epoch \in 1..Len(val_acc[m])
    /\ \A e \in 1..Len(val_acc[m]) :
         /\ val_acc[m][e] <= val_acc[m][disk[m].epoch]
         /\ e < disk[m].epoch => val_acc[m][e] < val_acc[m][disk[m].epoch]

\* Metrics are never ahead of the checkpoints: a model they report an
\* accuracy for has been saved by that run, with that accuracy, and is gone
\* from disk only because a later run has opened or replaced it.
MetricsHonest ==
  LET m == disk["metrics"]
  IN  m \notin {Absent, Torn} =>
        \A f \in Models : m.best_val_accuracy[f] > 0 =>
          \/ disk[f] = Torn /\ run > m.run
          \/ /\ disk[f] \in Checkpoint
             /\ disk[f].run = m.run => disk[f].acc = m.best_val_accuracy[f]
             /\ disk[f].run >= m.run
=============================================================================
