----------------------------- MODULE Hdf5Loader -----------------------------
(***************************************************************************)
(* Hdf5OscilloscopeLoader of src/pqc_bench/hardware/hdf5_loader.py, kept   *)
(* open by a program that opens and closes it as it likes, and the two API *)
(* handlers of src/pqc_bench/api/main.py that use it, while others replace *)
(* the file at the path.                                                   *)
(*                                                                         *)
(* A file is the shape of its traces (<<0, 0>> if it has none), the number *)
(* of its samples (one that fits no trace if it has none) and the kind of  *)
(* its metadata and intermediates: absent, a group without or with values, *)
(* or a thing the loader cannot read.  A field of a loader holds the file  *)
(* it was filled from, whose content gives its value.                      *)
(***************************************************************************)
EXTENDS Integers, FiniteSets, Sequences

CONSTANTS Files, NoFile,
          HandlerCalls,          \* parameters of the handlers
          DEFAULT_SAMPLE_RATE

ASSUME FileAssumption ==
  /\ NoFile \notin Files /\ DEFAULT_SAMPLE_RATE \in Nat
  /\ Files \subseteq [traces : Seq(Nat), samples : Nat, metadata : {"absent", "empty", "stored", "unreadable"},
                      intermediates : {"absent", "stored", "unreadable"}]

VARIABLES disk,      \* the file at the path
          loaders,   \* the program's, the handler's and that of load_hdf5_traces
          pc,        \* where the handler is
          request

loaderVars == <<disk, loaders, pc, request>>

Names == {"program", "handler", "summary"}
Content == Files \cup {NoFile}
\* opened, of and failed are history: the files opened since the last close,
\* that of the last open, and whether that raised.
Loader == [h5_file : BOOLEAN, traces : Content, counts : Content, sample_axis : Content, metadata : Content,
           intermediates : Content, opened : SUBSET Files, of : Content, failed : BOOLEAN]

LoaderTypeOK == /\ disk \in Content
                /\ loaders \in [Names -> Loader]
                /\ pc \in {"idle", "snr", "summary", "answered", "failed"}
                /\ request \in HandlerCalls

NewLoader == [h5_file |-> FALSE, traces |-> NoFile, counts |-> NoFile, sample_axis |-> NoFile,
              metadata |-> NoFile, intermediates |-> NoFile, opened |-> {}, of |-> NoFile, failed |-> FALSE]

LoaderInit == /\ disk \in Content
              /\ loaders = [name \in Names |-> NewLoader]
              /\ pc = "idle" /\ request \in HandlerCalls

-----------------------------------------------------------------------------
(* open and close.                                                         *)

\* int(sample_rate) of the metadata loaded before: a stored rate is an h5py
\* dataset and no number.
ExpectedSamples(L) == IF L.metadata # NoFile /\ L.metadata.metadata # "stored" THEN DEFAULT_SAMPLE_RATE ELSE 0

\* The traces are in memory before their shape is unpacked in two, except
\* those of one dimension and an unexpected length.
TracesAssigned(L, f) == Len(f.traces) # 1 \/ f.traces[1] = ExpectedSamples(L)
TracesLoaded(f) == Len(f.traces) = 2
MetadataLoaded(f) == TracesLoaded(f) /\ f.metadata # "unreadable"
Loaded(f) == MetadataLoaded(f) /\ f.intermediates # "unreadable"

\* Mutant: intermediates are left alone if the file has none.
KeptIntermediates(L, f) == IF Loaded(f) /\ f.intermediates = "stored" THEN f ELSE L.intermediates

Intermediates(L, f) == IF Loaded(f) THEN f ELSE L.intermediates

\* _load_core_arrays: the first part it cannot read ends it.
LoadCoreArrays(L, f) ==
  [L EXCEPT !.traces = IF TracesAssigned(L, f) THEN f ELSE @,
            !.counts = IF TracesLoaded(f) THEN f ELSE @,
            !.sample_axis = IF TracesLoaded(f) THEN f ELSE @,
            !.metadata = IF MetadataLoaded(f) THEN f ELSE @,
            !.intermediates = Intermediates(L, f)]

\* Without a file h5py raises, and the loader is as before.
Opened(L) == IF disk = NoFile THEN [L EXCEPT !.failed = TRUE]
             ELSE [LoadCoreArrays(L, disk) EXCEPT !.h5_file = TRUE, !.failed = ~Loaded(disk),
                                                  !.opened = @ \cup {disk}, !.of = disk]

\* Mutant: the arrays stay in memory.
ClosedHandle(L) == IF L.h5_file THEN [L EXCEPT !.h5_file = FALSE, !.opened = {}, !.of = NoFile] ELSE L

\* The counts stay, and a loader without a handle is as before.
Closed(L) == IF L.h5_file THEN [NewLoader EXCEPT !.counts = L.counts] ELSE L

-----------------------------------------------------------------------------
(* What accessors answer: the file their answer is from, if they do not    *)
(* raise.                                                                  *)

N(L) == IF L.counts = NoFile THEN 0 ELSE L.counts.traces[1]
Rows(f) == f.traces[1]
Answers(field) == {field} \ {NoFile}

Traces(L) == Answers(L.traces)
SampleAxis(L) == Answers(L.sample_axis)
GetTrace(L, index) == {f \in Traces(L) : index \in 0..N(L) - 1 /\ index < Rows(f)}
GetIntermediate(L) == {f \in Answers(L.intermediates) : f.intermediates = "stored"}

Given(indices) == indices # <<>>
Within(indices, n) == \A k \in 1..Len(indices) : indices[k] \in -n..n - 1

\* compute_snr, for lists of indices that are not empty: signal and noise
\* traces have to exist, sample positions serve as trace indices if no noise
\* traces are given, and their number has to fit the signal's.
SnrComputed(L, signal, noise_traces, noise_samples) ==
  \E f \in Traces(L) :
    /\ Len(f.traces) = 2
    /\ LET n == f.traces[1]
           m == f.traces[2]
           excluded == IF Given(signal) THEN {signal[k] : k \in 1..Len(signal)} ELSE {0}
       IN  /\ Within(signal, n)
           /\ IF Given(noise_traces) THEN Within(noise_traces, n)
              ELSE IF Given(noise_samples) THEN Within(noise_samples, n)
              ELSE \E i \in 0..n - 1 : i \notin excluded
           /\ Given(noise_samples) => Within(noise_samples, m) /\ (Len(noise_samples) \in {1, m} \/ m = 1)

-----------------------------------------------------------------------------
(* The program, and those who capture traces.                              *)

Replace == disk' \in Content \ {disk} /\ UNCHANGED <<loaders, pc, request>>

Open == loaders' = [loaders EXCEPT !["program"] = Opened(@)] /\ UNCHANGED <<disk, pc, request>>

Close == loaders' = [loaders EXCEPT !["program"] = Closed(@)] /\ UNCHANGED <<disk, pc, request>>

-----------------------------------------------------------------------------
(* The handlers.  That of hdf5-snr ends with the SNR; that of hdf5-trace   *)
(* opens the file once more, through load_hdf5_traces.                     *)

Begin == /\ pc \in {"idle", "answered", "failed"}
         /\ request' \in HandlerCalls
         /\ LET L == Opened(NewLoader)
            IN  /\ loaders' = [loaders EXCEPT !["handler"] = L, !["summary"] = NewLoader]
                /\ pc' = IF L.failed THEN "failed" ELSE "snr"
         /\ UNCHANGED disk

\* With the finally clause.
Finish(outcome) == /\ pc' = outcome
                   /\ loaders' = [loaders EXCEPT !["handler"] = Closed(@)]

Signal == IF Given(request.signal) THEN request.signal
          ELSE IF request.endpoint = "trace" /\ request.reference # 0 THEN <<request.reference>> ELSE <<>>

Snr == /\ pc = "snr"
       /\ LET answered == SnrComputed(loaders["handler"], Signal, request.noise_traces, request.noise_samples)
          IN  IF answered /\ request.endpoint = "trace"
              THEN pc' = "summary" /\ UNCHANGED loaders
              ELSE Finish(IF answered THEN "answered" ELSE "failed")
       /\ UNCHANGED <<disk, request>>

AfterSummary(L) == IF L.failed THEN L ELSE Closed(L)

\* load_hdf5_traces, and the answer: a stored sample rate is no number.
Summary == /\ pc = "summary"
           /\ LET L == Opened(NewLoader)
                  read == ~L.failed /\ GetTrace(L, 0) # {}
              IN  /\ pc' = IF read /\ L.of.metadata # "stored" THEN "answered" ELSE "failed"
                  /\ loaders' = [loaders EXCEPT !["summary"] = AfterSummary(L), !["handler"] = Closed(@)]
           /\ UNCHANGED <<disk, request>>

ProgramNext == Replace \/ Open \/ Close
ApiNext == Replace \/ Begin \/ Snr \/ Summary

LoaderSpec == LoaderInit /\ [][ProgramNext \/ ApiNext]_loaderVars

-----------------------------------------------------------------------------
(* Properties.                                                             *)

\* After an open that did not raise, all a loader tells is of the file it
\* opened, though it may have held another one before, or failed halfway
\* through one; and get_trace and the counts agree.
LoadedWhole == LoaderTypeOK /\
  \A name \in Names :
    LET L == loaders[name]
    IN  L.h5_file /\ ~L.failed =>
          /\ {L.traces, L.counts, L.sample_axis, L.metadata, L.intermediates} = {L.of}
          /\ \A index \in -1..N(L) : GetTrace(L, index) # {} <=> index \in 0..N(L) - 1

\* What was closed is not told any more, although the counts are kept and an
\* index may pass their check; nor what was never opened.  And a handler that
\* answered or failed has closed every file it opened, also those that were
\* replaced in between, unless the open itself raised.
NothingAfterClose ==
  /\ \A name \in Names :
       LET L == loaders[name]
       IN  Traces(L) \cup SampleAxis(L) \cup GetTrace(L, 0) \cup GetIntermediate(L) \subseteq L.opened
  /\ pc \in {"answered", "failed"} =>
       \A name \in {"handler", "summary"} : loaders[name].h5_file => loaders[name].failed
=============================================================================
