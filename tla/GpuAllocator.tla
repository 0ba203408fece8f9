---------------------------- MODULE GpuAllocator ----------------------------
(***************************************************************************)
(* gpu/gpu_allocator.py: a request probes nvidia-smi, then rocm-smi, and   *)
(* falls back to the CPU; get_optimal_configuration allocates twice, for   *)
(* itself and for the side channel it starts.  The devices of the machine  *)
(* may change between any two probes.                                      *)
(*                                                                         *)
(* The output of nvidia-smi is Missing (no program, a timeout, an error)   *)
(* or its lines: the memory of a device, Header for a line whose second    *)
(* field is no number, Short for one with less than three fields.  That of *)
(* rocm-smi is Missing or a number of lines.                               *)
(***************************************************************************)
EXTENDS Integers, Sequences

CONSTANTS CudaOutputs, RocmOutputs,
          MemoryRequests,    \* requested_memory_mb, 0 for None
          CHANNEL_MB,  \* 2048
          ROCM_MB,     \* 4096, the default assumption
          RAM_MB,      \* _get_system_ram_mb
          Missing, Header, Short
ASSUME GpuAssumption == /\ CudaOutputs \subseteq {Missing} \cup Seq(Nat \cup {Header, Short})
                        /\ RocmOutputs \subseteq {Missing} \cup (Nat \ {0})
                        /\ MemoryRequests \subseteq Nat /\ {CHANNEL_MB, ROCM_MB, RAM_MB} \subseteq Nat \ {0}

VARIABLES cuda, rocm,  \* what the tools print at present
          probe,       \* "idle", "cuda", "rocm", "done" or "IndexError"
          wanted,      \* of the allocation that is under way
          purpose,     \* "request", or "optimal" and then "channel"
          prefer_gpu,
          resources,   \* the answers so far
          seen         \* the devices that the last answer was chosen from
gpuVars == <<cuda, rocm, probe, wanted, purpose, prefer_gpu, resources, seen>>

GpuInit == /\ cuda \in CudaOutputs /\ rocm \in RocmOutputs /\ probe = "idle"
           /\ wanted = 0 /\ purpose = "none" /\ prefer_gpu = FALSE /\ resources = <<>> /\ seen = <<>>

Lines(output) == {output[i] : i \in DOMAIN output}
IsDevice(line) == line \notin {Header, Short}

\* check_cuda_availability: int() of a header is the exception that ends it.
CudaAvailable == cuda # Missing /\ cuda # <<>> /\ Header \notin Lines(cuda)
\* By the number of their line.
CudaDevices == [i \in {n \in DOMAIN cuda : IsDevice(cuda[n])} |-> cuda[i]]

\* Mutant: any device is suitable.
AllSuitable(devices, request) == IF request = 0 THEN {} ELSE DOMAIN devices

Suitable(devices, request) == IF request = 0 THEN {} ELSE {i \in DOMAIN devices : devices[i] >= request}

\* The first suitable device, or the first one: the request is then reported
\* as allocated although the device is smaller.
First(S) == CHOOSE i \in S : \A j \in S : i <= j
Choose(devices, request) ==
  LET S == Suitable(devices, request) IN First(IF S = {} THEN DOMAIN devices ELSE S)

Gpu(backend, devices, request, unasked) ==
  [mode |-> "gpu", backend |-> backend, request |-> request,
   device_memory_mb |-> devices[Choose(devices, request)],
   memory_allocated_mb |-> IF request = 0 THEN unasked ELSE request]

Cpu(request) == [mode |-> "cpu_only", backend |-> "cpu", request |-> request, device_memory_mb |-> RAM_MB,
                 memory_allocated_mb |-> IF request = 0 THEN RAM_MB \div 4 ELSE request]

-----------------------------------------------------------------------------

\* The devices change: a driver is loaded, a card falls off the bus.
Change == \/ /\ cuda' \in CudaOutputs \ {cuda}
             /\ UNCHANGED <<rocm, probe, wanted, purpose, prefer_gpu, resources, seen>>
          \/ /\ rocm' \in RocmOutputs \ {rocm}
             /\ UNCHANGED <<cuda, probe, wanted, purpose, prefer_gpu, resources, seen>>

Request(r) == /\ probe = "idle" /\ probe' = "cuda" /\ wanted' = r /\ purpose' = "request"
              /\ UNCHANGED <<cuda, rocm, prefer_gpu, resources, seen>>

GetOptimalConfiguration(prefer) ==
  /\ probe = "idle" /\ probe' = "cuda" /\ wanted' = 0 /\ purpose' = "optimal" /\ prefer_gpu' = prefer
  /\ UNCHANGED <<cuda, rocm, resources, seen>>

\* The first allocation of get_optimal_configuration decides what
\* start_side_channel_channel asks for.
Answer(r) ==
  /\ resources' = Append(resources, r)
  /\ IF purpose = "optimal"
     THEN /\ purpose' = "channel" /\ probe' = "cuda"
          /\ wanted' = IF prefer_gpu /\ r.mode # "cpu_only" THEN CHANNEL_MB ELSE 0
     ELSE probe' = "done" /\ UNCHANGED <<purpose, wanted>>

CheckCuda ==
  /\ probe = "cuda"
  /\ IF CudaAvailable
     THEN IF DOMAIN CudaDevices = {} THEN probe' = "IndexError" /\ UNCHANGED <<purpose, wanted, resources, seen>>
          ELSE seen' = CudaDevices /\ Answer(Gpu("cuda", CudaDevices, wanted, CudaDevices[First(DOMAIN CudaDevices)]))
     ELSE probe' = "rocm" /\ UNCHANGED <<purpose, wanted, resources, seen>>
  /\ UNCHANGED <<cuda, rocm, prefer_gpu>>

\* _get_rocm_memory_mb is given a dictionary where it looks for a name in a
\* line: the TypeError is caught, and every device has the default memory.
RocmDevices == [i \in 1..rocm |-> ROCM_MB]
CheckRocm ==
  /\ probe = "rocm"
  /\ IF rocm # Missing
     THEN seen' = RocmDevices /\ Answer(Gpu("rocm", RocmDevices, wanted, 0))
     ELSE seen' = <<>> /\ Answer(Cpu(wanted))
  /\ UNCHANGED <<cuda, rocm, prefer_gpu>>

GpuNext == \/ Change \/ CheckCuda \/ CheckRocm
           \/ \E r \in MemoryRequests : Request(r)
           \/ \E prefer \in BOOLEAN : GetOptimalConfiguration(prefer)

GpuSpec == GpuInit /\ [][GpuNext]_gpuVars

\* Only when no device listed by the probe is large enough does an answer claim
\* more memory than its device has; on a GPU it names a listed device.  The
\* channel asks for a GPU's memory only after an answer that found one, and it
\* may still be told of less, or of the CPU, if the devices changed.
AllocationHonest ==
  /\ \A i \in DOMAIN resources : LET r == resources[i] IN
       (r.mode = "gpu" /\ i = Len(resources)) =>
         /\ \E d \in DOMAIN seen : seen[d] = r.device_memory_mb
         /\ r.memory_allocated_mb > r.device_memory_mb => \A d \in DOMAIN seen : seen[d] < r.request
         /\ (r.request > 0 /\ r.device_memory_mb >= r.request) =>
              \A d \in DOMAIN seen : seen[d] >= r.request =>
                 \E e \in DOMAIN seen : e <= d /\ seen[e] = r.device_memory_mb
  /\ (Len(resources) = 2 /\ resources[2].request > 0) =>
       prefer_gpu /\ resources[1].mode = "gpu" /\ resources[1].request = 0
=============================================================================
