--------------------------- MODULE MCMeasurement ----------------------------
(***************************************************************************)
(* The parts of the bench that measure and compute, side by side: they     *)
(* share no state, Init picks the one that runs, and the others stay as    *)
(* they are, with arguments they never look at.                            *)
(***************************************************************************)
EXTENDS Hdf5Loader, NumberTheoreticTransform, ToyLwe, MemoryZeroizer, Accelerator, GpuAllocator

\* Files with two, one and no dimensions, with and without what they may have.
File(traces, samples, metadata, intermediates) ==
  [traces |-> traces, samples |-> samples, metadata |-> metadata, intermediates |-> intermediates]
MCFiles == {File(<<2, 3>>, 3, "absent", "stored"), File(<<2, 3>>, 9, "stored", "absent"),
            File(<<1, 3>>, 3, "empty", "absent"), File(<<3, 1>>, 1, "absent", "unreadable"),
            File(<<0, 0>>, 9, "empty", "stored"), File(<<1, 2>>, 2, "unreadable", "absent"),
            File(<<4>>, 4, "absent", "absent"), File(<<0>>, 9, "stored", "stored"),
            File(<<2, 2, 2>>, 2, "absent", "absent")}
Handle(endpoint, reference, signal, noise_traces, noise_samples) ==
  [endpoint |-> endpoint, reference |-> reference, signal |-> signal,
   noise_traces |-> noise_traces, noise_samples |-> noise_samples]
MCHandlerCalls ==
  {Handle("trace", r, <<>>, <<>>, <<>>) : r \in {0, 1}}
  \cup {Handle("trace", 0, <<0>>, <<1>>, <<>>), Handle("snr", 0, <<>>, <<>>, <<0>>),
        Handle("snr", 0, <<>>, <<-1>>, <<0, 1, 2>>), Handle("snr", 0, <<2>>, <<>>, <<>>)}

MCPolynomials == UNION {[0..n - 1 -> {0, 1, 3}] : n \in 0..3} \cup [0..3 -> {0, 2}]
                 \cup {[k \in 0..7 |-> k], [k \in 0..7 |-> IF k = 5 THEN 1 ELSE 0]}

MCOperands == {-3, -1, 0, 1, 2, 3, 4, 5, 9}
MCDimensions == {-1, 0, 1, 2, 3, 4, 9, 20}
MCStdFactors == [num : {-1, 0, 1, 2, 3}, den : {1, 2, 20, 50}]
MCSecrets == {<<1>>, <<0, 1>>, <<1, 1, 0>>}

\* Sizes below, at and above one and two chunks and the cap.
MCCalls == [entry : {"ctypes"}, size : {-1, 0, 1, 3, 4, 5, 6}, overwrite_passes : 0..2, pattern_idx : {0, 1, 4}]
           \cup [entry : {"bytearray"}, size : {3}, overwrite_passes : {1}, pattern_idx : {0}]

\* Lists of ints that fit a C int of three bits, whose doubles do and do not,
\* and that do not fit; a list with a float, a tuple and a string.
Batch(list, items) == [list |-> list, items |-> items]
Ints(s) == [n \in DOMAIN s |-> Number(s[n])]
NoInt == [int |-> FALSE, v |-> 1]
MCBatches == {Batch(TRUE, Ints(s)) : s \in {<<>>, <<0, 0>>, <<1, -2>>, <<1, -4, 3>>, <<4, 9>>}}
             \cup {Batch(TRUE, <<NoInt, Number(2)>>), Batch(FALSE, Ints(<<0, 1>>)), Batch(FALSE, <<NoInt>>)}
MCCValues == -4..3

MCCudaOutputs == {Missing, <<Header, 4>>, <<Short>>, <<1, 4>>, <<3, Short, 2>>}

VARIABLE subject
pureVars == <<nttCall, lweCall>>
measurementVars == <<loaderVars, pureVars, zeroVars, accelVars, gpuVars, subject>>

MeasurementInit ==
  /\ subject \in {"program", "api", "ntt", "lwe", "zeroizer", "accelerator", "gpu"}
  /\ LoaderInit /\ NttInit /\ LweInit /\ ZeroizerInit /\ AccelInit /\ GpuInit
  /\ subject \notin {"program", "api"} => disk = NoFile
  /\ subject # "api" => request = Handle("trace", 0, <<>>, <<>>, <<>>)
  /\ subject # "zeroizer" => call.entry = "bytearray"
  /\ subject # "accelerator" => library = "absent"
  /\ subject # "gpu" => cuda = Missing /\ rocm = Missing

ProgramStep == subject = "program" /\ ProgramNext /\ UNCHANGED <<pureVars, zeroVars, accelVars, gpuVars>>
ApiStep == subject = "api" /\ ApiNext /\ UNCHANGED <<pureVars, zeroVars, accelVars, gpuVars>>
NttStep == subject = "ntt" /\ NttNext /\ UNCHANGED <<loaderVars, lweCall, zeroVars, accelVars, gpuVars>>
LweStep == subject = "lwe" /\ LweNext /\ UNCHANGED <<loaderVars, nttCall, zeroVars, accelVars, gpuVars>>
ZeroizerStep == subject = "zeroizer" /\ ZeroizerNext /\ UNCHANGED <<loaderVars, pureVars, accelVars, gpuVars>>
AcceleratorStep == subject = "accelerator" /\ AccelNext /\ UNCHANGED <<loaderVars, pureVars, zeroVars, gpuVars>>
GpuStep == subject = "gpu" /\ GpuNext /\ UNCHANGED <<loaderVars, pureVars, zeroVars, accelVars>>

MeasurementNext == /\ UNCHANGED subject
                   /\ \/ ProgramStep \/ ApiStep \/ NttStep \/ LweStep
                      \/ ZeroizerStep \/ AcceleratorStep \/ GpuStep
MeasurementSpec == MeasurementInit /\ [][MeasurementNext]_measurementVars
=============================================================================
