------------------------- MODULE Measurement_proofs -------------------------
(***************************************************************************)
(* Proofs about parts of the bench that measure and compute: the HDF5      *)
(* loader, toy LWE, the zeroizer, the C accelerator, the GPU allocator and *)
(* the number theoretic transform.  They share no state; each is proved    *)
(* about its own specification.                                            *)
(***************************************************************************)
EXTENDS Hdf5Loader, ToyLwe, MemoryZeroizer, Accelerator, GpuAllocator,
        NumberTheoreticTransform,
        FiniteSetTheorems, SequenceTheorems, WellFoundedInduction, TLAPS

-----------------------------------------------------------------------------
\* Numbers that are in a set have a least one among them: so that a least
\* counterexample does what an induction would.
LEMMA LeastExists ==
  ASSUME NEW S \in SUBSET Nat, S # {}
  PROVE  \E m \in S : \A k \in Nat : k < m => k \notin S
<1>1. \E x \in S : \A y \in S : <<y, x>> \notin OpToRel(<, Nat)
  BY NatLessThanWellFounded, WFMin
<1> QED BY <1>1 DEF OpToRel

-----------------------------------------------------------------------------
(* The loader.  What is in memory was opened since the last close; a loader*)
(* without a file has nothing but counts; and after an open that did not   *)
(* raise every field is of the file opened, which could be read in full.   *)

Memory(L) == {L.traces, L.sample_axis, L.metadata, L.intermediates} \ {NoFile}

LoaderOk(L) ==
  /\ L \in Loader
  /\ Memory(L) \subseteq L.opened
  /\ ~L.h5_file => Memory(L) = {}
  /\ L.h5_file /\ ~L.failed =>
       /\ L.of \in Files /\ Loaded(L.of)
       /\ L.traces = L.of /\ L.counts = L.of /\ L.sample_axis = L.of
       /\ L.metadata = L.of /\ L.intermediates = L.of

LoaderInv ==
  /\ LoaderTypeOK
  /\ \A name \in Names : LoaderOk(loaders[name])
  /\ pc \in {"snr", "summary", "answered"} =>  ~loaders["summary"].h5_file
  /\ pc \in {"answered", "failed"} =>
       \A name \in {"handler", "summary"} : loaders[name].h5_file => loaders[name].failed

LEMMA NewLoaderOk == LoaderOk(NewLoader) /\ NewLoader.h5_file = FALSE
<1>1. NewLoader \in Loader
  BY DEF NewLoader, Loader, Content
<1>2. Memory(NewLoader) = {} /\ NewLoader.h5_file = FALSE
  BY DEF NewLoader, Memory
<1> QED BY <1>1, <1>2 DEF LoaderOk

\* An open that raises leaves of the file's parts those before the one it
\* could not read, and the rest as it was.
LEMMA OpenedOk == ASSUME NEW L, LoaderOk(L), disk \in Content PROVE LoaderOk(Opened(L))
<1>1. CASE disk = NoFile
  <2> DEFINE M == [L EXCEPT !.failed = TRUE]
  <2>1. /\ M \in Loader /\ M.traces = L.traces /\ M.sample_axis = L.sample_axis /\ M.metadata = L.metadata
        /\ M.intermediates = L.intermediates /\ M.opened = L.opened /\ M.h5_file = L.h5_file /\ M.failed = TRUE
    BY DEF LoaderOk, Loader
  <2> HIDE DEF M
  <2>2. LoaderOk(M)
    BY <2>1 DEF LoaderOk, Memory
  <2> QED BY <1>1, <2>2 DEF Opened, M
<1>2. CASE disk \in Files
  <2>1. disk # NoFile
    BY <1>2, FileAssumption
  <2> DEFINE M == Opened(L)
  <2>2. /\ M = [LoadCoreArrays(L, disk) EXCEPT !.h5_file = TRUE, !.failed = ~Loaded(disk),
                                               !.opened = @ \cup {disk}, !.of = disk]
    BY <2>1 DEF Opened
  <2>3. /\ M.h5_file = TRUE /\ M.failed = ~Loaded(disk) /\ M.opened = L.opened \cup {disk} /\ M.of = disk
        /\ M.traces = IF TracesAssigned(L, disk) THEN disk ELSE L.traces
        /\ M.counts = IF TracesLoaded(disk) THEN disk ELSE L.counts
        /\ M.sample_axis = IF TracesLoaded(disk) THEN disk ELSE L.sample_axis
        /\ M.metadata = IF MetadataLoaded(disk) THEN disk ELSE L.metadata
        /\ M.intermediates = IF Loaded(disk) THEN disk ELSE L.intermediates
    BY <2>2 DEF LoaderOk, Loader, LoadCoreArrays, Intermediates
  <2>4. M \in Loader
    <3> DEFINE failed == ~Loaded(disk)
    <3>1. LoadCoreArrays(L, disk) \in Loader
      BY <1>2, ZenonT(60) DEF LoaderOk, Loader, LoadCoreArrays, Intermediates, Content
    <3>2. failed \in BOOLEAN
      OBVIOUS
    <3>3. M = [LoadCoreArrays(L, disk) EXCEPT !.h5_file = TRUE, !.failed = failed,
                                              !.opened = @ \cup {disk}, !.of = disk]
      BY <2>2
    <3> HIDE DEF failed, M
    <3> QED BY <1>2, <3>1, <3>2, <3>3 DEF Loader, Content
  <2> HIDE DEF M
  <2>5. Loaded(disk) => MetadataLoaded(disk) /\ TracesLoaded(disk) /\ TracesAssigned(L, disk)
    BY DEF Loaded, MetadataLoaded, TracesLoaded, TracesAssigned
  <2>6. Memory(M) \subseteq M.opened
    BY <2>3 DEF LoaderOk, Memory
  <2>7. LoaderOk(M)
    BY <1>2, <2>3, <2>4, <2>5, <2>6 DEF LoaderOk
  <2> QED BY <2>7 DEF M
<1> QED BY <1>1, <1>2 DEF Content

LEMMA ClosedOk == ASSUME NEW L, LoaderOk(L) PROVE LoaderOk(Closed(L)) /\ ~Closed(L).h5_file
<1>1. CASE L.h5_file
  <2> DEFINE M == [NewLoader EXCEPT !.counts = L.counts]
  <2>1. M \in Loader /\ Memory(M) = {} /\ M.h5_file = FALSE
    BY NewLoaderOk DEF LoaderOk, NewLoader, Loader, Memory
  <2> HIDE DEF M
  <2>2. LoaderOk(M)
    BY <2>1 DEF LoaderOk
  <2> QED BY <1>1, <2>1, <2>2 DEF Closed, M
<1>2. CASE ~L.h5_file
  BY <1>2 DEF Closed
<1> QED BY <1>1, <1>2

LEMMA LoaderInitInv == LoaderInit => LoaderInv
<1> SUFFICES ASSUME LoaderInit PROVE LoaderInv
  OBVIOUS
<1>1. \A name \in Names : loaders[name] = NewLoader
  BY DEF LoaderInit
<1>2. loaders \in [Names -> Loader]
  BY NewLoaderOk DEF LoaderInit, LoaderOk
<1>3. LoaderTypeOK
  BY <1>2 DEF LoaderInit, LoaderTypeOK
<1> QED BY <1>1, <1>3, NewLoaderOk DEF LoaderInit, LoaderInv, Names

\* Replacing one loader's state by one that is in order.
LEMMA LoaderReplaced ==
  ASSUME LoaderInv, NEW name \in Names, NEW L, LoaderOk(L),
         loaders' = [loaders EXCEPT ![name] = L]
  PROVE  /\ loaders' \in [Names -> Loader] /\ \A n \in Names : LoaderOk(loaders'[n])
         /\ \A n \in Names : loaders'[n] = IF n = name THEN L ELSE loaders[n]
BY DEF LoaderInv, LoaderTypeOK, LoaderOk

LEMMA LoaderProgram == ASSUME LoaderInv, ProgramNext PROVE LoaderInv'
<1>1. disk \in Content /\ "program" \in Names /\ LoaderOk(loaders["program"]) /\ loaders \in [Names -> Loader]
  BY DEF LoaderInv, LoaderTypeOK, Names
<1>2. CASE Replace
  BY <1>2 DEF LoaderInv, LoaderTypeOK, Replace
<1>3. ASSUME NEW L, LoaderOk(L), loaders' = [loaders EXCEPT !["program"] = L], UNCHANGED <<disk, pc, request>>
      PROVE  LoaderInv'
  BY <1>1, <1>3, LoaderReplaced DEF LoaderInv, LoaderTypeOK, Names
<1>4. CASE Open
  BY <1>1, <1>3, <1>4, OpenedOk DEF Open
<1>5. CASE Close
  BY <1>1, <1>3, <1>5, ClosedOk DEF Close
<1> QED BY <1>2, <1>4, <1>5 DEF ProgramNext

LEMMA LoaderApi == ASSUME LoaderInv, ApiNext PROVE LoaderInv'
<1>1. /\ disk \in Content /\ {"handler", "summary"} \subseteq Names /\ loaders \in [Names -> Loader]
      /\ \A name \in Names : LoaderOk(loaders[name])
  BY DEF LoaderInv, LoaderTypeOK, Names
<1>2. CASE Replace
  BY <1>2 DEF LoaderInv, LoaderTypeOK, Replace
<1>3. CASE Begin
  <2> DEFINE L == Opened(NewLoader)
  <2>1. LoaderOk(L) /\ LoaderOk(NewLoader) /\ NewLoader.h5_file = FALSE
    BY <1>1, OpenedOk, NewLoaderOk
  <2>2. /\ loaders' = [loaders EXCEPT !["handler"] = L, !["summary"] = NewLoader]
        /\ pc' = IF L.failed THEN "failed" ELSE "snr"
        /\ request' \in HandlerCalls /\ disk' = disk
    BY <1>3 DEF Begin
  <2> HIDE DEF L
  <2>3. /\ \A name \in Names : LoaderOk(loaders'[name])
        /\ loaders'["handler"] = L /\ loaders'["summary"] = NewLoader
    BY <1>1, <2>1, <2>2
  <2>4. loaders' \in [Names -> Loader]
    BY <1>1, <2>1, <2>2 DEF LoaderOk
  <2> QED BY <1>1, <2>1, <2>2, <2>3, <2>4 DEF LoaderInv, LoaderTypeOK
<1>4. ASSUME NEW outcome \in {"answered", "failed"}, pc = "snr", Finish(outcome), UNCHANGED <<disk, request>>
      PROVE  LoaderInv'
  <2> DEFINE L == Closed(loaders["handler"])
  <2>1. LoaderOk(L) /\ ~L.h5_file
    BY <1>1, ClosedOk
  <2>2. loaders' = [loaders EXCEPT !["handler"] = L] /\ pc' = outcome
    BY <1>4 DEF Finish
  <2> HIDE DEF L
  <2>3. /\ loaders' \in [Names -> Loader] /\ \A n \in Names : LoaderOk(loaders'[n])
        /\ loaders'["handler"] = L /\ loaders'["summary"] = loaders["summary"]
    BY <1>1, <2>1, <2>2, LoaderReplaced
  <2> QED BY <1>1, <1>4, <2>1, <2>2, <2>3 DEF LoaderInv, LoaderTypeOK
<1>5. CASE Snr
  <2> DEFINE answered == SnrComputed(loaders["handler"], Signal, request.noise_traces, request.noise_samples)
  <2>1. /\ pc = "snr" /\ UNCHANGED <<disk, request>>
        /\ IF answered /\ request.endpoint = "trace" THEN pc' = "summary" /\ UNCHANGED loaders
           ELSE Finish(IF answered THEN "answered" ELSE "failed")
    BY <1>5 DEF Snr
  <2> HIDE DEF answered
  <2>2. CASE answered /\ request.endpoint = "trace"
    BY <2>1, <2>2 DEF LoaderInv, LoaderTypeOK
  <2>3. CASE ~(answered /\ request.endpoint = "trace")
    BY <1>4, <2>1, <2>3
  <2> QED BY <2>2, <2>3
<1>6. CASE Summary
  <2> DEFINE L == Opened(NewLoader)
             S == AfterSummary(L)
             H == Closed(loaders["handler"])
  <2>1. LoaderOk(L) /\ LoaderOk(H) /\ ~H.h5_file
    BY <1>1, OpenedOk, NewLoaderOk, ClosedOk
  <2>2. LoaderOk(S) /\ (S.h5_file => L.failed /\ S = L)
    BY <2>1, ClosedOk DEF AfterSummary
  <2>3. /\ loaders' = [loaders EXCEPT !["summary"] = S, !["handler"] = H]
        /\ pc' \in {"answered", "failed"} /\ UNCHANGED <<disk, request>>
        /\ pc' = "answered" => ~L.failed
    BY <1>6 DEF Summary
  <2> HIDE DEF L, S, H
  <2>4. /\ \A name \in Names : LoaderOk(loaders'[name])
        /\ loaders'["handler"] = H /\ loaders'["summary"] = S
    BY <1>1, <2>1, <2>2, <2>3
  <2>5. loaders' \in [Names -> Loader]
    BY <1>1, <2>1, <2>2, <2>3 DEF LoaderOk
  <2> QED BY <1>1, <2>1, <2>2, <2>3, <2>4, <2>5 DEF LoaderInv, LoaderTypeOK
<1> QED BY <1>2, <1>3, <1>5, <1>6 DEF ApiNext

LEMMA LoaderAlways == LoaderSpec => []LoaderInv
<1>1. LoaderInv /\ [ProgramNext \/ ApiNext]_loaderVars => LoaderInv'
  <2>1. LoaderInv /\ UNCHANGED loaderVars => LoaderInv'
    BY DEF loaderVars, LoaderInv, LoaderTypeOK
  <2> QED BY <2>1, LoaderProgram, LoaderApi
<1> QED BY <1>1, LoaderInitInv, PTL DEF LoaderSpec

\* After an open that did not raise, all a loader tells is of the file it
\* opened, and get_trace and the counts agree (open, _load_core_arrays), for
\* any files, however they are replaced.
THEOREM LoadedIsWhole == LoaderSpec => []LoadedWhole
<1>1. LoaderInv => LoadedWhole
  <2> SUFFICES ASSUME LoaderInv, NEW name \in Names, loaders[name].h5_file, ~loaders[name].failed
               PROVE  LET L == loaders[name]
                      IN  /\ {L.traces, L.counts, L.sample_axis, L.metadata, L.intermediates} = {L.of}
                          /\ \A index \in -1..N(L) : GetTrace(L, index) # {} <=> index \in 0..N(L) - 1
    BY DEF LoadedWhole, LoaderInv
  <2> DEFINE L == loaders[name]
  <2>1. /\ L.of \in Files /\ Loaded(L.of) /\ L.traces = L.of /\ L.counts = L.of
        /\ {L.traces, L.counts, L.sample_axis, L.metadata, L.intermediates} = {L.of}
    BY DEF LoaderInv, LoaderOk
  <2>2. L.of # NoFile /\ L.of.traces \in Seq(Nat) /\ Len(L.of.traces) = 2
    BY <2>1, FileAssumption DEF Loaded, MetadataLoaded, TracesLoaded
  <2>3. Rows(L.of) \in Nat /\ N(L) = Rows(L.of) /\ Traces(L) = {L.of}
    BY <2>1, <2>2 DEF N, Rows, Traces, Answers
  <2> HIDE DEF L
  <2>4. \A index \in -1..N(L) : GetTrace(L, index) # {} <=> index \in 0..N(L) - 1
    BY <2>3 DEF GetTrace
  <2> QED BY <2>1, <2>4 DEF L
<1> QED BY <1>1, LoaderAlways, PTL

\* What was closed is not told any more, and a handler that answered or failed
\* has closed every file it opened, unless the open itself raised (close,
\* load_hdf5_trace, compute_hdf5_snr), for any files and parameters.
THEOREM ClosedIsForgotten == LoaderSpec => []NothingAfterClose
<1>1. LoaderInv => NothingAfterClose
  <2> SUFFICES ASSUME LoaderInv, NEW name \in Names
               PROVE  LET L == loaders[name]
                      IN  Traces(L) \cup SampleAxis(L) \cup GetTrace(L, 0) \cup GetIntermediate(L) \subseteq L.opened
    BY DEF NothingAfterClose, LoaderInv
  <2> DEFINE L == loaders[name]
  <2>1. Memory(L) \subseteq L.opened
    BY DEF LoaderInv, LoaderOk
  <2> HIDE DEF L
  <2>2. Traces(L) \cup SampleAxis(L) \cup GetTrace(L, 0) \cup GetIntermediate(L) \subseteq Memory(L)
    BY DEF Traces, SampleAxis, GetTrace, GetIntermediate, Answers, Memory
  <2> QED BY <2>1, <2>2 DEF L
<1> QED BY <1>1, LoaderAlways, PTL
-----------------------------------------------------------------------------
(* The zeroizer.  With a pattern of zeros the chunks written in this pass  *)
(* are zero, and all of the region is after a pass, unless another thread  *)
(* wrote; and what was hashed is still there, or what that thread wrote.   *)

Untouched == writes = 0 /\ call.pattern_idx % Len(ZERO_PATTERNS) = 0
Wiped(n) == \A a \in 1..LastByte : a <= n /\ a <= call.size => memory[a] = 0
Hashed == Least2(call.size, CAP)

ZeroInv ==
  /\ ZeroizerTypeOK
  /\ stage \notin {"start", "AttributeError", "ValueError"} => call.size \in Nat
  /\ pass <= call.overwrite_passes
  /\ \A a \in 1..LastByte : a > call.size => memory[a] \in {Secret, Other}
  /\ Untouched /\ pass < call.overwrite_passes => Wiped(call.size)
  /\ Untouched => Wiped(i)
  /\ stage \in {"compare", "done"} =>
       /\ pass = 0 /\ checksum \in [1..Hashed -> 0..255]
       /\ \A a \in 1..Hashed : memory[a] = checksum[a] \/ (memory[a] = Other /\ writes > 0)
       /\ writes = 0 => \A a \in 1..Hashed : memory[a] = checksum[a]
  /\ stage = "done" => (passed <=> checksum = [a \in 1..call.size |-> 0])

\* The call, the numbers and the patterns are what they should be.
LEMMA ZeroNumbers ==
  ASSUME ZeroInv
  PROVE  /\ call.size \in Int /\ call.size <= LastByte /\ call.overwrite_passes \in Nat
         /\ {CHUNK, CAP, LastByte, MaxWrites, i, pass, writes} \subseteq Nat /\ CHUNK > 0 /\ CAP > 0
         /\ memory \in [1..LastByte -> 0..255]
         /\ call.pattern_idx \in Int
BY ZeroizerAssumption DEF ZeroInv, ZeroizerTypeOK

LEMMA Patterns ==
  ASSUME NEW idx \in Int
  PROVE  /\ ZERO_PATTERNS[1 + (idx % Len(ZERO_PATTERNS))] \in 0..255
         /\ idx % Len(ZERO_PATTERNS) = 0 => ZERO_PATTERNS[1 + (idx % Len(ZERO_PATTERNS))] = 0
<1>1. Len(ZERO_PATTERNS) = 4
  BY DEF ZERO_PATTERNS
<1> DEFINE p == 1 + (idx % 4)
<1>2. p = 1 \/ p = 2 \/ p = 3 \/ p = 4
  OBVIOUS
<1>3. p = 1 => idx % 4 = 0
  OBVIOUS
<1>4. idx % 4 = 0 => p = 1
  OBVIOUS
<1> HIDE DEF p
<1>5. ZERO_PATTERNS[p] \in 0..255 /\ (p = 1 => ZERO_PATTERNS[p] = 0)
  BY <1>2 DEF ZERO_PATTERNS
<1> QED BY <1>1, <1>4, <1>5 DEF p

LEMMA ZeroInitInv == ZeroizerInit => ZeroInv
<1> SUFFICES ASSUME ZeroizerInit PROVE ZeroInv
  OBVIOUS
<1>1. /\ call \in Calls /\ call.size \in Int /\ call.overwrite_passes \in Nat /\ {LastByte, MaxWrites} \subseteq Nat
  BY ZeroizerAssumption DEF ZeroizerInit
<1>2. ZeroizerTypeOK
  <2>1. memory \in [1..LastByte -> 0..255]
    BY DEF ZeroizerInit, Secret
  <2>2. stage = "start" /\ pass \in Nat /\ i \in Nat /\ passed \in BOOLEAN /\ writes \in 0..MaxWrites
    <3>1. pass = call.overwrite_passes /\ i = 0 /\ passed = FALSE /\ writes = 0 /\ stage = "start"
      BY DEF ZeroizerInit
    <3>2. MaxWrites \in Nat
      BY <1>1
    <3>3. pass \in Nat /\ i \in Nat /\ writes \in 0..MaxWrites
      BY <1>1, <3>1, <3>2
    <3>4. passed \in BOOLEAN
      BY <3>1
    <3> QED BY <3>1, <3>3, <3>4
  <2> QED BY <1>1, <2>1, <2>2 DEF ZeroizerTypeOK
<1>3. Wiped(i) /\ pass = call.overwrite_passes
  BY <1>1 DEF ZeroizerInit, Wiped
<1> QED BY <1>1, <1>2, <1>3 DEF ZeroizerInit, ZeroInv, Secret

LEMMA ZeroStart == ASSUME ZeroInv, Start PROVE ZeroInv'
<1>1. /\ UNCHANGED <<call, memory, pass, i, checksum, passed, writes>>
      /\ stage' \in {"AttributeError", "ValueError", "overwrite"} /\ (stage' = "overwrite" => call.size >= 0)
  BY ZeroNumbers DEF Start
<1>2. ZeroizerTypeOK' /\ (stage' = "overwrite" => call'.size \in Nat)
  <2>1. ZeroizerTypeOK'
    BY <1>1 DEF ZeroInv, ZeroizerTypeOK
  <2>2. call.size \in Int
    BY ZeroNumbers
  <2> QED BY <1>1, <2>1, <2>2
<1>3. UNCHANGED Untouched /\ (Wiped(i) => Wiped(i)') /\ (Wiped(call.size) => Wiped(call.size)')
  BY <1>1 DEF Untouched, Wiped
<1> QED BY <1>1, <1>2, <1>3 DEF ZeroInv

LEMMA ZeroWriteChunk == ASSUME ZeroInv, WriteChunk PROVE ZeroInv'
<1> DEFINE pattern == ZERO_PATTERNS[1 + (call.pattern_idx % Len(ZERO_PATTERNS))]
           n == ChunkLength
<1>1. /\ UNCHANGED <<call, stage, pass, checksum, passed, writes>> /\ stage = "overwrite" /\ i < call.size
      /\ i' = i + CHUNK
      /\ memory' = [a \in DOMAIN memory |-> IF a \in i + 1..i + n THEN pattern ELSE memory[a]]
  BY DEF WriteChunk
<1>2. pattern \in 0..255 /\ (Untouched => pattern = 0) /\ UNCHANGED Untouched
  BY <1>1, ZeroNumbers, Patterns DEF Untouched
<1>3. /\ n \in Nat /\ i + n <= call.size
      /\ \A a \in Int : a <= call.size /\ a <= i + CHUNK => a <= i + n
  BY <1>1, ZeroNumbers, SMTT(30) DEF ChunkLength, Least2
<1> HIDE DEF pattern, n
<1>4. memory' \in [1..LastByte -> 0..255]
  BY <1>1, <1>2, ZeroNumbers
<1>5. \A a \in 1..LastByte : memory'[a] = IF a \in i + 1..i + n THEN pattern ELSE memory[a]
  BY <1>1, ZeroNumbers
<1>6. ZeroizerTypeOK'
  <2>1. i' \in Nat
    BY <1>1, ZeroNumbers
  <2> QED BY <1>1, <1>4, <2>1 DEF ZeroInv, ZeroizerTypeOK
<1>7. \A a \in 1..LastByte : a > call.size => memory'[a] \in {Secret, Other}
  <2>1. \A a \in 1..LastByte : a > call.size => a \notin i + 1..i + n
    BY <1>3, ZeroNumbers
  <2> QED BY <1>5, <2>1 DEF ZeroInv
<1>8. Untouched => Wiped(i)'
  <2> SUFFICES ASSUME Untouched, NEW a \in 1..LastByte, a <= i + CHUNK, a <= call.size PROVE memory'[a] = 0
    BY <1>1 DEF Wiped
  <2>1. a <= i + n /\ (a <= i => memory[a] = 0)
    BY <1>3 DEF ZeroInv, Wiped
  <2> QED BY <1>2, <1>3, <1>5, <2>1, ZeroNumbers
<1>9. Untouched /\ pass < call.overwrite_passes => Wiped(call.size)'
  BY <1>1, <1>2, <1>5 DEF ZeroInv, Wiped
<1> QED BY <1>1, <1>2, <1>6, <1>7, <1>8, <1>9 DEF ZeroInv

LEMMA ZeroEndPass == ASSUME ZeroInv, EndPass PROVE ZeroInv'
<1>1. /\ UNCHANGED <<call, memory, stage, checksum, passed, writes>> /\ stage = "overwrite"
      /\ pass > 0 /\ i >= call.size /\ pass' = pass - 1 /\ i' = 0
  BY DEF EndPass
<1>2. ZeroizerTypeOK' /\ pass' <= call'.overwrite_passes
  <2>1. pass' \in Nat /\ i' \in Nat /\ pass' <= call.overwrite_passes
    BY <1>1, ZeroNumbers DEF ZeroInv
  <2> QED BY <1>1, <2>1 DEF ZeroInv, ZeroizerTypeOK
<1>3. Untouched => Wiped(call.size)
  BY <1>1, ZeroNumbers DEF ZeroInv, Wiped
<1>4. (Untouched => Wiped(call.size))' /\ Wiped(0)'
  BY <1>1, <1>3, ZeroNumbers DEF Wiped, Untouched
<1> QED BY <1>1, <1>2, <1>4 DEF ZeroInv

LEMMA ZeroPostChecksum == ASSUME ZeroInv, PostChecksum PROVE ZeroInv'
<1>1. /\ UNCHANGED <<call, memory, pass, i, passed, writes>> /\ stage = "overwrite" /\ stage' = "compare"
      /\ pass = 0 /\ checksum' = [a \in 1..Hashed |-> memory[a]]
  BY DEF PostChecksum, Checksum, Hashed
<1>2. 1..Hashed \subseteq 1..LastByte
  BY ZeroNumbers DEF Hashed, Least2
<1>3. checksum' \in [1..Hashed -> 0..255] /\ \A a \in 1..Hashed : memory[a] = checksum'[a]
  BY <1>1, <1>2, ZeroNumbers
<1> QED BY <1>1, <1>3 DEF ZeroInv, ZeroizerTypeOK, Untouched, Wiped, Hashed

LEMMA ZeroCompare == ASSUME ZeroInv, Compare PROVE ZeroInv'
<1>1. /\ UNCHANGED <<call, memory, pass, i, checksum, writes>> /\ stage = "compare" /\ stage' = "done"
      /\ passed' = (checksum = [a \in 1..call.size |-> 0])
  BY DEF Compare
<1>2. passed' \in BOOLEAN
  BY <1>1
<1> QED BY <1>1, <1>2 DEF ZeroInv, ZeroizerTypeOK, Untouched, Wiped, Hashed

LEMMA ZeroOther == ASSUME ZeroInv, NEW a \in 1..LastByte, OtherThread(a) PROVE ZeroInv'
<1>1. /\ UNCHANGED <<call, stage, pass, i, checksum, passed>> /\ stage # "done"
      /\ memory' = [memory EXCEPT ![a] = Other] /\ writes < MaxWrites /\ writes' = writes + 1
  BY DEF OtherThread
<1>2. memory' \in [1..LastByte -> 0..255] /\ \A b \in 1..LastByte : memory'[b] = IF b = a THEN Other ELSE memory[b]
  BY <1>1, ZeroNumbers DEF Other
<1>3. writes' > 0 /\ writes' \in 0..MaxWrites /\ ~Untouched'
  BY <1>1, ZeroNumbers DEF Untouched
<1>4. 1..Hashed \subseteq 1..LastByte
  BY ZeroNumbers DEF Hashed, Least2
<1>5. ZeroizerTypeOK'
  BY <1>1, <1>2, <1>3 DEF ZeroInv, ZeroizerTypeOK
<1>6. \A b \in 1..LastByte : b > call.size => memory'[b] \in {Secret, Other}
  BY <1>2 DEF ZeroInv
<1>7. Hashed' = Hashed /\ (stage = "compare" =>
        \A b \in 1..Hashed : memory'[b] = checksum[b] \/ (memory'[b] = Other /\ writes' > 0))
  BY <1>1, <1>2, <1>3, <1>4 DEF ZeroInv, Hashed
<1>8. writes' # 0
  BY <1>1, ZeroNumbers
<1> QED BY <1>1, <1>3, <1>5, <1>6, <1>7, <1>8 DEF ZeroInv

LEMMA ZeroAlways == ZeroizerSpec => []ZeroInv
<1>1. ZeroInv /\ [ZeroizerNext]_zeroVars => ZeroInv'
  <2>1. ZeroInv /\ UNCHANGED zeroVars => ZeroInv'
    <3> SUFFICES ASSUME ZeroInv, UNCHANGED <<call, memory, stage, pass, i, checksum, passed, writes>> PROVE ZeroInv'
      BY DEF zeroVars
    <3>1. UNCHANGED <<Untouched, Hashed>> /\ (Wiped(i) => Wiped(i)') /\ (Wiped(call.size) => Wiped(call.size)')
      BY DEF Untouched, Hashed, Wiped
    <3>2. ZeroizerTypeOK'
      BY DEF ZeroInv, ZeroizerTypeOK
    <3> QED BY <3>1, <3>2 DEF ZeroInv
  <2> QED BY <2>1, ZeroStart, ZeroWriteChunk, ZeroEndPass, ZeroPostChecksum, ZeroCompare, ZeroOther DEF ZeroizerNext
<1> QED BY <1>1, ZeroInitInv, PTL DEF ZeroizerSpec

\* A region that passes was zero when it was hashed, all of it; one that was
\* overwritten with zeros and left alone passes; and bytes beyond the region
\* are never overwritten (zero_memory, compute_region_checksum), for any
\* calls, chunks and caps, and any writes of another thread.
THEOREM PassedIsZero == ZeroizerSpec => []PassedMeansZero
<1>1. ZeroInv => PassedMeansZero
  <2> SUFFICES ASSUME ZeroInv PROVE PassedMeansZero
    OBVIOUS
  <2>1. ASSUME stage = "done"
        PROVE  /\ passed => /\ call.size <= CAP
                            /\ \A a \in 1..call.size : memory[a] = 0 \/ (memory[a] = Other /\ writes > 0)
               /\ (call.size <= CAP /\ call.overwrite_passes > 0 /\ Untouched) => passed
    <3>1. /\ call.size \in Nat /\ pass = 0 /\ checksum \in [1..Hashed -> 0..255]
          /\ \A a \in 1..Hashed : memory[a] = checksum[a] \/ (memory[a] = Other /\ writes > 0)
          /\ writes = 0 => \A a \in 1..Hashed : memory[a] = checksum[a]
          /\ passed <=> checksum = [a \in 1..call.size |-> 0]
      BY <2>1 DEF ZeroInv
    <3>2. Hashed \in Nat /\ (call.size <= CAP => Hashed = call.size) /\ (call.size > CAP => Hashed = CAP)
      BY <3>1, ZeroNumbers DEF Hashed, Least2
    <3>3. ASSUME passed PROVE call.size <= CAP
      <4>1. 1..Hashed = 1..call.size
        BY <3>1, <3>3
      <4>2. call.size \in 1..call.size \/ call.size = 0
        BY <3>1
      <4> QED BY <3>1, <3>2, <4>1, <4>2, ZeroNumbers
    <3>4. ASSUME passed, NEW a \in 1..call.size PROVE memory[a] = 0 \/ (memory[a] = Other /\ writes > 0)
      BY <3>1, <3>2, <3>3, <3>4
    <3>5. ASSUME call.size <= CAP, call.overwrite_passes > 0, Untouched PROVE passed
      <4>1. Wiped(call.size) /\ 1..call.size \subseteq 1..LastByte
        <5>1. 0 < call.overwrite_passes /\ Wiped(call.size)
          BY <3>1, <3>5 DEF ZeroInv
        <5>2. call.size <= LastByte /\ LastByte \in Nat
          BY ZeroNumbers
        <5> QED BY <3>1, <5>1, <5>2
      <4>2. \A a \in 1..call.size : memory[a] = 0
        BY <3>1, <4>1 DEF Wiped
      <4>3. \A a \in 1..Hashed : checksum[a] = 0
        BY <3>1, <3>2, <3>5, <4>2 DEF Untouched
      <4> QED BY <3>1, <3>2, <3>5, <4>3
    <3> QED BY <3>3, <3>4, <3>5
  <2> QED BY <2>1 DEF PassedMeansZero, ZeroInv, Untouched
<1> QED BY <1>1, ZeroAlways, PTL
-----------------------------------------------------------------------------
(* The accelerator.  A result is empty or as long as its data, so that the *)
(* score counts the elements that came back.                               *)

Element == [int : BOOLEAN, v : Int]
Came(items, result) == {n \in 1..Len(items) : Equal(items[n], result[n])}

\* What a core may give for a batch: nothing or as many elements, and without
\* the C library the copy.
LEMMA ProcessLength ==
  ASSUME NEW lib, NEW data \in Batches, NEW result \in Process(lib, data)
  PROVE  /\ data.items \in Seq(Element) /\ result \in Seq(Element)
         /\ result = <<>> \/ Len(result) = Len(data.items)
         /\ lib = "Mock" => result = Copy(data)
<1> DEFINE items == data.items
<1>1. items \in Seq(Element) /\ CValues \subseteq Int
  BY AcceleratorAssumption DEF Element
<1>2. CASE result = Copy(data)
  BY <1>1, <1>2 DEF Copy
<1>3. CASE lib = "CDLL" /\ result \in CArrays(items)
  <2>1. {Number(c) : c \in CValues} \subseteq Element
    <3>1. \A c \in Int : Number(c) \in Element
      BY DEF Number, Element
    <3> QED BY <1>1, <3>1
  <2>2. DOMAIN items = 1..Len(items) /\ Len(items) \in Nat
    BY <1>1
  <2>3. result \in [1..Len(items) -> {Number(c) : c \in CValues}]
    BY <1>3, <2>2 DEF CArrays
  <2>4. result \in [1..Len(items) -> Element]
    BY <2>1, <2>3
  <2> QED BY <1>1, <1>3, <2>2, <2>4
<1>4. result = Copy(data) \/ (lib = "CDLL" /\ result \in CArrays(items))
  BY DEF Process
<1> QED BY <1>2, <1>3, <1>4

\* The score is a fraction of one, one just when every element came back, and
\* none when no element did.
LEMMA IntegrityCounts ==
  ASSUME NEW items \in Seq(Element), NEW result \in Seq(Element), result = <<>> \/ Len(result) = Len(items)
  PROVE  LET score == Integrity(items, result)
         IN  /\ score[2] > 0 /\ score[1] \in 0..score[2]
             /\ (score[1] = score[2]) <=>
                  (items # <<>> /\ Len(result) = Len(items) /\ \A n \in DOMAIN items : Equal(items[n], result[n]))
             /\ result = <<>> => score[1] = 0
             /\ result # <<>> /\ score[1] = 0 => \A n \in DOMAIN items : ~Equal(items[n], result[n])
<1> DEFINE S == Came(items, result)
<1>1. Len(items) \in Nat /\ DOMAIN items = 1..Len(items) /\ (items = <<>> <=> Len(items) = 0)
      /\ (result = <<>> <=> Len(result) = 0)
  BY EmptySeq
<1>2. CASE items = <<>> \/ result = <<>>
  BY <1>1, <1>2 DEF Integrity
<1>3. CASE items # <<>> /\ result # <<>>
  <2>1. IsFiniteSet(1..Len(items)) /\ Cardinality(1..Len(items)) = Len(items)
    <3>1. 1 \in Int /\ Len(items) \in Int /\ ~(1 > Len(items)) /\ Len(items) - 1 + 1 = Len(items)
      BY <1>1, <1>3
    <3>2. /\ IsFiniteSet(1..Len(items))
          /\ Cardinality(1..Len(items)) = IF 1 > Len(items) THEN 0 ELSE Len(items) - 1 + 1
      BY <3>1, FS_Interval, Zenon
    <3> QED BY <3>1, <3>2
  <2>2. S \in SUBSET (1..Len(items))
    BY DEF Came
  <2>3. /\ IsFiniteSet(S) /\ Cardinality(S) <= Len(items)
        /\ Cardinality(S) = Len(items) => S = 1..Len(items)
    BY <2>1, <2>2, FS_Subset
  <2>4. Cardinality(S) \in Nat /\ (Cardinality(S) = 0 => S = {})
    BY <2>3, FS_CardinalityType, FS_EmptySet
  <2>5. Integrity(items, result) = <<Cardinality(S), Len(items)>>
    BY <1>1, <1>3 DEF Integrity, Came, LesserOf
  <2>6. /\ S = 1..Len(items) <=> \A n \in DOMAIN items : Equal(items[n], result[n])
        /\ S = {} <=> \A n \in DOMAIN items : ~Equal(items[n], result[n])
    BY <1>1 DEF Came
  <2>7. S = 1..Len(items) => Cardinality(S) = Len(items)
    BY <2>1
  <2> HIDE DEF S
  <2> QED BY <1>1, <1>3, <2>3, <2>4, <2>5, <2>6, <2>7
<1> QED BY <1>2, <1>3

\* Every outcome of a call is honest.
LEMMA OutcomesHonest ==
  ASSUME NEW lib \in {"CDLL", "Mock"}, NEW op, NEW data \in Batches, NEW a \in Outcomes(lib, op, data)
  PROVE  LET r == a.result
             d == a.data.items
             full == a.score[1] = a.score[2]
         IN /\ a.lib \in {"CDLL", "Mock"} /\ a.data \in Batches
            /\ a.score[2] > 0 /\ a.score[1] \in 0..a.score[2]
            /\ r = <<>> \/ Len(r) = Len(d)
            /\ full <=> (d # <<>> /\ Len(r) = Len(d) /\ \A n \in DOMAIN d : Equal(r[n], d[n]))
            /\ a.lib = "Mock" => r = Copy(a.data)
            /\ a.valid /\ full => \A n \in DOMAIN d : d[n].v = 0
            /\ a.valid /\ a.score[1] = 0 => r = <<>> \/ \A n \in DOMAIN d : d[n].v # 0
            /\ a.op = "data_integrity" /\ r = <<>> => a.valid /\ a.score[1] = 0
<1>1. PICK result \in Process(lib, data), t \in Elapsed :
        a = [op |-> op, lib |-> lib, data |-> data, result |-> result, score |-> Integrity(data.items, result),
             elapsed |-> t, valid |-> op = "data_integrity" /\ IsValid(data.items, result),
             error |-> Error(op, data, t)]
  BY DEF Outcomes
<1> DEFINE items == data.items
           score == Integrity(items, result)
<1>2. /\ a.lib = lib /\ a.op = op /\ a.data = data /\ a.result = result /\ a.score = score
      /\ a.valid <=> op = "data_integrity" /\ IsValid(items, result)
  BY <1>1
<1>3. /\ items \in Seq(Element) /\ result \in Seq(Element) /\ (result = <<>> \/ Len(result) = Len(items))
      /\ lib = "Mock" => result = Copy(data)
  BY ProcessLength
<1>4. /\ score[2] > 0 /\ score[1] \in 0..score[2]
      /\ (score[1] = score[2]) <=>
           (items # <<>> /\ Len(result) = Len(items) /\ \A n \in DOMAIN items : Equal(items[n], result[n]))
      /\ result = <<>> => score[1] = 0
      /\ result # <<>> /\ score[1] = 0 => \A n \in DOMAIN items : ~Equal(items[n], result[n])
  BY <1>3, IntegrityCounts
<1> HIDE DEF score
<1>5. a.data.items = items
  BY <1>2
<1> HIDE DEF items
<1>6. ASSUME Len(result) = Len(items), IsValid(items, result)
      PROVE  \A n \in DOMAIN items : items[n].v \in Int /\ result[n].v = 2 * items[n].v
  <2>1. \A n \in DOMAIN items : items[n] \in Element /\ result[n] \in Element /\ n \in 1..Len(items)
    BY <1>3, <1>6
  <2> QED BY <1>3, <1>6, <2>1 DEF IsValid, LesserOf, Element
<1>7. \A n \in DOMAIN items : Equal(items[n], result[n]) <=> Equal(result[n], items[n])
  BY DEF Equal
<1>8. IsValid(items, result) /\ score[1] = score[2] => \A n \in DOMAIN items : items[n].v = 0
  BY <1>4, <1>6 DEF Equal
<1>9. IsValid(items, result) /\ score[1] = 0 => result = <<>> \/ \A n \in DOMAIN items : items[n].v # 0
  BY <1>3, <1>4, <1>6 DEF Equal
<1>10. result = <<>> => IsValid(items, result)
  <2>1. result = <<>> => Len(result) = 0 /\ 1..LesserOf(Len(items), Len(result)) = {}
    BY <1>3 DEF LesserOf
  <2> QED BY <2>1 DEF IsValid
<1> QED BY <1>2, <1>3, <1>4, <1>5, <1>7, <1>8, <1>9, <1>10

\* Whatever array of C ints the C function returns, and for lists and what is
\* none, the score is full exactly when every element came back, and an answer
\* without the C library is the list that was given (process,
\* _calculate_integrity, data_integrity), for any data, C integers and clock.
THEOREM ScoresAreHonest == AccelSpec => []ScoreIsHonest
<1>1. AccelInit => ScoreIsHonest
  BY DEF AccelInit, ScoreIsHonest, AccelTypeOK
<1>2. ScoreIsHonest /\ [AccelNext]_accelVars => ScoreIsHonest'
  <2> SUFFICES ASSUME ScoreIsHonest, [AccelNext]_accelVars PROVE ScoreIsHonest'
    OBVIOUS
  <2>1. library \in {"absent", "broken", "loads"} /\ instance \in {None, "CDLL", "Mock"}
    BY DEF ScoreIsHonest, AccelTypeOK
  <2>7. NewCore \in {"CDLL", "Mock"}
    BY DEF NewCore
  <2>2. ASSUME answer' = None, library' \in {"absent", "broken", "loads"}, instance' \in {None, "CDLL", "Mock"}
        PROVE  ScoreIsHonest'
    BY <2>2 DEF ScoreIsHonest, AccelTypeOK
  <2>3. ASSUME NEW lib \in {"CDLL", "Mock"}, NEW op, NEW data \in Batches, answer' \in Outcomes(lib, op, data),
               UNCHANGED library, instance' \in {None, "CDLL", "Mock"}
        PROVE  ScoreIsHonest'
    BY <2>1, <2>3, OutcomesHonest DEF ScoreIsHonest, AccelTypeOK
  <2>4. CASE Build \/ GetAccelerator \/ ResetAccelerator
    BY <2>1, <2>2, <2>4, <2>7 DEF Build, GetAccelerator, ResetAccelerator
  <2>5. ASSUME NEW op \in Operations, NEW data \in Batches, CallInstance(op, data) \/ CallGlobal(op, data)
        PROVE  ScoreIsHonest'
    BY <2>1, <2>3, <2>5, <2>7 DEF CallInstance, CallGlobal
  <2>6. CASE UNCHANGED accelVars
    BY <2>6 DEF accelVars, ScoreIsHonest, AccelTypeOK
  <2> QED BY <2>4, <2>5, <2>6 DEF AccelNext
<1> QED BY <1>1, <1>2, PTL DEF AccelSpec
-----------------------------------------------------------------------------
(* The allocator.  The last answer is about the devices last seen; a second*)
(* answer follows one that was asked for nothing.                          *)

Resource == [mode : {"gpu", "cpu_only"}, backend : {"cuda", "rocm", "cpu"}, request : Nat,
             device_memory_mb : Nat, memory_allocated_mb : Nat]

Honest(r, devices) ==
  /\ \E d \in DOMAIN devices : devices[d] = r.device_memory_mb
  /\ r.memory_allocated_mb > r.device_memory_mb => \A d \in DOMAIN devices : devices[d] < r.request
  /\ (r.request > 0 /\ r.device_memory_mb >= r.request) =>
       \A d \in DOMAIN devices : devices[d] >= r.request =>
          \E e \in DOMAIN devices : e <= d /\ devices[e] = r.device_memory_mb

GpuInv ==
  /\ cuda \in CudaOutputs /\ rocm \in RocmOutputs /\ wanted \in Nat /\ prefer_gpu \in BOOLEAN
  /\ resources \in Seq(Resource) /\ Len(resources) <= 2
  /\ probe = "idle" => resources = <<>>
  /\ probe \in {"cuda", "rocm"} =>
       \/ purpose = "request" /\ resources = <<>>
       \/ purpose = "optimal" /\ resources = <<>> /\ wanted = 0
       \/ /\ purpose = "channel" /\ Len(resources) = 1 /\ resources[1].request = 0
          /\ wanted > 0 => prefer_gpu /\ resources[1].mode = "gpu"
  /\ Len(resources) > 0 => LET r == resources[Len(resources)] IN r.mode = "gpu" => Honest(r, seen)
  /\ (Len(resources) = 2 /\ resources[2].request > 0) =>
       prefer_gpu /\ resources[1].mode = "gpu" /\ resources[1].request = 0

\* The first of some numbers is the least.
LEMMA FirstIsLeast ==
  ASSUME NEW S \in SUBSET Nat, S # {}
  PROVE  First(S) \in S /\ \A j \in S : First(S) <= j
<1>1. PICK x \in S : \A y \in Nat : y < x => y \notin S
  BY LeastExists
<1>2. \A y \in S : ~(y < x)
  BY <1>1
<1>3. \A y \in S : x <= y
  BY <1>2
<1> QED BY <1>3 DEF First

\* The device named in an answer is one that was listed, the first one that
\* is large enough if there is any.
LEMMA GpuHonest ==
  ASSUME NEW backend \in {"cuda", "rocm"}, NEW devices, NEW wanted_mb \in Nat, NEW unasked \in Nat,
         DOMAIN devices \in SUBSET Nat, DOMAIN devices # {}, \A d \in DOMAIN devices : devices[d] \in Nat,
         unasked <= devices[First(DOMAIN devices)]
  PROVE  LET r == Gpu(backend, devices, wanted_mb, unasked)
         IN  r \in Resource /\ r.mode = "gpu" /\ r.request = wanted_mb /\ Honest(r, devices)
<1> DEFINE S == Suitable(devices, wanted_mb)
           r == Gpu(backend, devices, wanted_mb, unasked)
           c == Choose(devices, wanted_mb)
<1>1. S \in SUBSET DOMAIN devices /\ c = First(IF S = {} THEN DOMAIN devices ELSE S)
  BY DEF Suitable, Choose
<1>2. /\ wanted_mb = 0 => S = {}
      /\ wanted_mb # 0 => S = {d \in DOMAIN devices : devices[d] >= wanted_mb}
  BY DEF Suitable
<1>3. /\ r.mode = "gpu" /\ r.backend = backend /\ r.request = wanted_mb /\ r.device_memory_mb = devices[c]
      /\ r.memory_allocated_mb = IF wanted_mb = 0 THEN unasked ELSE wanted_mb
  BY DEF Gpu
<1>4. c \in DOMAIN devices /\ (S # {} => c \in S /\ \A j \in S : c <= j)
  BY <1>1, FirstIsLeast
<1>5. r \in Resource
  BY <1>4 DEF Gpu, Resource
<1>6. S = {} => c = First(DOMAIN devices)
  BY <1>1
<1> HIDE DEF S, r, c
<1>7. devices[c] \in Nat
  BY <1>4
<1>8. ASSUME S = {} PROVE Honest(r, devices)
  <2>1. wanted_mb # 0 => \A d \in DOMAIN devices : devices[d] < wanted_mb
    BY <1>2, <1>8
  <2>2. r.memory_allocated_mb > r.device_memory_mb => wanted_mb # 0
    BY <1>3, <1>6, <1>8, <1>7
  <2>3. ~(r.request > 0 /\ r.device_memory_mb >= r.request)
    BY <1>3, <1>4, <2>1
  <2> QED BY <1>3, <1>4, <2>1, <2>2, <2>3 DEF Honest
<1>9. ASSUME S # {} PROVE Honest(r, devices)
  <2>1. wanted_mb # 0 /\ devices[c] >= wanted_mb /\ \A d \in DOMAIN devices : devices[d] >= wanted_mb => c <= d
    BY <1>2, <1>4, <1>9
  <2>2. ~(r.memory_allocated_mb > r.device_memory_mb)
    BY <1>3, <1>4, <2>1
  <2>3. r.device_memory_mb = devices[c] /\ r.request = wanted_mb
    BY <1>3
  <2> QED BY <1>4, <2>1, <2>2, <2>3 DEF Honest
<1> QED BY <1>3, <1>5, <1>8, <1>9 DEF r

LEMMA GpuInitInv == GpuInit => GpuInv
<1> SUFFICES ASSUME GpuInit PROVE GpuInv
  OBVIOUS
<1>1. resources = <<>> /\ <<>> \in Seq(Resource) /\ Len(<<>>) = 0 /\ wanted = 0 /\ prefer_gpu = FALSE /\ probe = "idle"
  BY EmptySeq DEF GpuInit
<1>2. resources \in Seq(Resource) /\ Len(resources) = 0 /\ prefer_gpu \in BOOLEAN
  BY <1>1
<1> QED BY <1>1, <1>2 DEF GpuInit, GpuInv

\* An answer about what the request wanted, from the devices seen for it.
LEMMA GpuAnswer ==
  ASSUME GpuInv, probe \in {"cuda", "rocm"}, NEW r \in Resource, r.request = wanted, Answer(r),
         r.mode = "gpu" => Honest(r, seen'),
         UNCHANGED <<cuda, rocm, prefer_gpu>>
  PROVE  GpuInv'
<1>1. /\ resources' \in Seq(Resource) /\ Len(resources') = Len(resources) + 1 /\ Len(resources) \in Nat
      /\ resources'[Len(resources')] = r
      /\ \A n \in 1..Len(resources) : resources'[n] = resources[n]
  BY AppendProperties DEF Answer, GpuInv
<1>2. CHANNEL_MB \in Nat
  BY GpuAssumption
<1>3. Len(resources') > 0 /\ (r.mode = "gpu" => Honest(resources'[Len(resources')], seen'))
  BY <1>1
<1>4. CASE purpose = "optimal"
  <2>1. /\ purpose' = "channel" /\ probe' = "cuda"
        /\ wanted' = IF prefer_gpu /\ r.mode # "cpu_only" THEN CHANNEL_MB ELSE 0
    BY <1>4 DEF Answer
  <2>2. resources = <<>> /\ wanted = 0 /\ Len(resources) = 0
    BY <1>4 DEF GpuInv
  <2>3. r.mode # "cpu_only" => r.mode = "gpu"
    BY DEF Resource
  <2>4. Len(resources') = 1 /\ resources'[1] = r /\ wanted' \in Nat
    BY <1>1, <1>2, <2>1, <2>2
  <2> QED BY <1>1, <1>3, <2>1, <2>2, <2>3, <2>4 DEF GpuInv
<1>5. CASE purpose # "optimal"
  <2>1. probe' = "done" /\ UNCHANGED <<purpose, wanted>>
    BY <1>5 DEF Answer
  <2>2. CASE resources = <<>>
    <3>1. Len(resources') = 1
      BY <1>1, <2>2
    <3> QED BY <1>1, <1>3, <2>1, <3>1 DEF GpuInv
  <2>3. CASE resources # <<>>
    <3>1. /\ Len(resources) = 1 /\ resources[1].request = 0
          /\ wanted > 0 => prefer_gpu /\ resources[1].mode = "gpu"
      BY <1>5, <2>3 DEF GpuInv
    <3>2. Len(resources') = 2 /\ resources'[2] = r /\ resources'[1] = resources[1]
      BY <1>1, <3>1
    <3> QED BY <1>1, <1>3, <2>1, <3>1, <3>2 DEF GpuInv
  <2> QED BY <2>2, <2>3
<1> QED BY <1>4, <1>5

LEMMA GpuCheckCuda == ASSUME GpuInv, CheckCuda PROVE GpuInv'
<1>1. probe = "cuda" /\ UNCHANGED <<cuda, rocm, prefer_gpu>> /\ wanted \in Nat
  BY DEF CheckCuda, GpuInv
<1>2. CASE ~CudaAvailable \/ DOMAIN CudaDevices = {}
  <2>1. probe' \in {"rocm", "IndexError"} /\ UNCHANGED <<purpose, wanted, resources, seen>>
    BY <1>2 DEF CheckCuda
  <2> QED BY <1>1, <2>1 DEF GpuInv
<1>3. CASE CudaAvailable /\ DOMAIN CudaDevices # {}
  <2> DEFINE devices == CudaDevices
             unasked == devices[First(DOMAIN devices)]
             r == Gpu("cuda", devices, wanted, unasked)
  <2>1. seen' = devices /\ Answer(r)
    BY <1>3 DEF CheckCuda
  <2>2. cuda \in Seq(Nat \cup {Header, Short})
    BY <1>3, GpuAssumption DEF GpuInv, CudaAvailable
  <2>3. /\ DOMAIN devices \in SUBSET Nat
        /\ \A d \in DOMAIN devices : devices[d] = cuda[d] /\ d \in DOMAIN cuda /\ IsDevice(cuda[d])
    BY <2>2 DEF CudaDevices
  <2>4. \A d \in DOMAIN devices : devices[d] \in Nat
    <3>1. \A d \in DOMAIN cuda : cuda[d] \in Nat \cup {Header, Short}
      BY <2>2
    <3> QED BY <2>3, <3>1 DEF IsDevice
  <2>5. unasked \in Nat /\ unasked <= devices[First(DOMAIN devices)] /\ DOMAIN devices # {}
    BY <1>3, <2>3, <2>4, FirstIsLeast
  <2> HIDE DEF devices, unasked
  <2>6. r \in Resource /\ r.mode = "gpu" /\ r.request = wanted /\ Honest(r, devices)
    BY <1>1, <2>3, <2>4, <2>5, GpuHonest
  <2> HIDE DEF r
  <2> QED BY <1>1, <2>1, <2>6, GpuAnswer
<1> QED BY <1>2, <1>3

LEMMA GpuCheckRocm == ASSUME GpuInv, CheckRocm PROVE GpuInv'
<1>1. probe = "rocm" /\ UNCHANGED <<cuda, rocm, prefer_gpu>> /\ wanted \in Nat
  BY DEF CheckRocm, GpuInv
<1>2. CASE rocm = Missing
  <2>1. Answer(Cpu(wanted))
    BY <1>2 DEF CheckRocm
  <2>2. Cpu(wanted) \in Resource /\ Cpu(wanted).request = wanted /\ Cpu(wanted).mode = "cpu_only"
    <3>1. RAM_MB \in Nat /\ RAM_MB \div 4 \in Nat
      BY GpuAssumption
    <3> QED BY <1>1, <3>1 DEF Cpu, Resource
  <2> QED BY <1>1, <2>1, <2>2, GpuAnswer
<1>3. CASE rocm # Missing
  <2> DEFINE devices == RocmDevices
             r == Gpu("rocm", devices, wanted, 0)
  <2>1. seen' = devices /\ Answer(r)
    BY <1>3 DEF CheckRocm
  <2>2. rocm \in Nat \ {0} /\ ROCM_MB \in Nat
    BY <1>3, GpuAssumption DEF GpuInv
  <2>3. /\ DOMAIN devices \in SUBSET Nat /\ 1 \in DOMAIN devices
        /\ \A d \in DOMAIN devices : devices[d] \in Nat
    BY <2>2 DEF RocmDevices
  <2>4. 0 \in Nat /\ 0 <= devices[First(DOMAIN devices)] /\ DOMAIN devices # {}
    BY <2>3, FirstIsLeast
  <2> HIDE DEF devices
  <2>5. r \in Resource /\ r.mode = "gpu" /\ r.request = wanted /\ Honest(r, devices)
    BY <1>1, <2>3, <2>4, GpuHonest
  <2> HIDE DEF r
  <2> QED BY <1>1, <2>1, <2>5, GpuAnswer
<1> QED BY <1>2, <1>3

\* Only when no device listed is large enough does an answer claim more memory
\* than its device has, and the channel asks for a GPU's memory only after an
\* answer that found one (allocate_gpu_resource, get_optimal_configuration),
\* for any machines, however they change between the probes.
THEOREM AllocationsAreHonest == GpuSpec => []AllocationHonest
<1>1. GpuInv /\ [GpuNext]_gpuVars => GpuInv'
  <2> SUFFICES ASSUME GpuInv, [GpuNext]_gpuVars PROVE GpuInv'
    OBVIOUS
  <2>1. CASE UNCHANGED gpuVars
    BY <2>1 DEF gpuVars, GpuInv
  <2>2. CASE Change
    BY <2>2 DEF Change, GpuInv
  <2>3. ASSUME NEW m \in MemoryRequests, Request(m) PROVE GpuInv'
    BY <2>3, GpuAssumption DEF Request, GpuInv
  <2>4. ASSUME NEW prefer \in BOOLEAN, GetOptimalConfiguration(prefer) PROVE GpuInv'
    BY <2>4 DEF GetOptimalConfiguration, GpuInv
  <2> QED BY <2>1, <2>2, <2>3, <2>4, GpuCheckCuda, GpuCheckRocm DEF GpuNext
<1>2. GpuInv => AllocationHonest
  <2> SUFFICES ASSUME GpuInv PROVE AllocationHonest
    OBVIOUS
  <2>1. ASSUME NEW n \in DOMAIN resources, resources[n].mode = "gpu", n = Len(resources)
        PROVE  Honest(resources[n], seen)
    BY <2>1 DEF GpuInv
  <2> QED BY <2>1 DEF GpuInv, AllocationHonest, Honest
<1> QED BY <1>1, <1>2, GpuInitInv, PTL DEF GpuSpec

-----------------------------------------------------------------------------
(* Toy LWE.  A behavior is one call, so that the last call is all there is.*)

\* f holds the sums of the first products of a row and an error vector.
Sums(row, e, n, f) == f = [j \in 0..n |-> IF j = 0 THEN 0 ELSE f[j - 1] + row[j] * e[j]]

\* There are such sums: those of the first rows, and one more.
LEMMA SumsExist ==
  ASSUME NEW row, NEW e, NEW n \in Nat
  PROVE  \E f : Sums(row, e, n, f)
<1> DEFINE Without == {m \in Nat : ~ \E f : Sums(row, e, m, f)}
<1> SUFFICES ASSUME Without # {} PROVE FALSE
  OBVIOUS
<1>1. PICK m \in Without : \A k \in Nat : k < m => k \notin Without
  BY LeastExists
<1>2. m # 0
  <2> DEFINE f == [j \in 0..0 |-> 0]
  <2>1. Sums(row, e, 0, f)
    BY DEF Sums
  <2> QED BY <2>1
<1>3. m - 1 \in Nat /\ m \in Nat /\ m - 1 \notin Without
  BY <1>1, <1>2
<1>4. PICK f : Sums(row, e, m - 1, f)
  BY <1>3
<1> DEFINE g == [j \in 0..m |-> IF j = m THEN f[m - 1] + row[m] * e[m] ELSE f[j]]
<1>5. \A j \in 0..m : g[j] = IF j = 0 THEN 0 ELSE g[j - 1] + row[j] * e[j]
  <2> SUFFICES ASSUME NEW j \in 0..m PROVE g[j] = IF j = 0 THEN 0 ELSE g[j - 1] + row[j] * e[j]
    OBVIOUS
  <2>1. CASE j = m
    <3>1. m - 1 \in 0..m /\ m - 1 # m
      BY <1>3
    <3> QED BY <1>2, <2>1, <3>1
  <2>2. CASE j # m
    <3>1. j \in 0..m - 1
      BY <1>3, <2>2
    <3>2. f[j] = IF j = 0 THEN 0 ELSE f[j - 1] + row[j] * e[j]
      BY <1>4, <3>1 DEF Sums
    <3>3. j # 0 => j - 1 \in 0..m /\ j - 1 # m
      BY <1>3, <3>1
    <3> QED BY <2>2, <3>2, <3>3
  <2> QED BY <2>1, <2>2
<1>6. Sums(row, e, m, g)
  BY <1>5 DEF Sums
<1> QED BY <1>1, <1>6

LEMMA InnerProductInt ==
  ASSUME NEW row \in Seq(Int), NEW e, \A j \in 1..Len(row) : e[j] \in Int
  PROVE  InnerProduct(row, e) \in Int
<1> DEFINE n == Len(row)
           f == CHOOSE f : Sums(row, e, n, f)
           Bad == {m \in Nat : m <= n /\ f[m] \notin Int}
<1>1. InnerProduct(row, e) = f[n]
  BY DEF InnerProduct, Sums
<1>2. n \in Nat /\ \A j \in 1..n : row[j] \in Int
  OBVIOUS
<1>3. Sums(row, e, n, f)
  BY <1>2, SumsExist
<1> HIDE DEF f, n
<1>4. \A j \in 0..n : f[j] = IF j = 0 THEN 0 ELSE f[j - 1] + row[j] * e[j]
  BY <1>3 DEF Sums
<1>5. Bad = {}
  <2> SUFFICES ASSUME Bad # {} PROVE FALSE
    OBVIOUS
  <2>1. PICK m \in Bad : \A k \in Nat : k < m => k \notin Bad
    BY LeastExists
  <2>2. m \in 0..n /\ m # 0
    BY <1>2, <1>4, <2>1
  <2>3. m - 1 \in Nat /\ m - 1 <= n /\ m - 1 < m /\ m \in 1..n
    BY <1>2, <2>2
  <2>4. f[m - 1] \in Int
    BY <2>1, <2>3
  <2>5. row[m] * e[m] \in Int
    <3>1. e[m] \in Int /\ row[m] \in Int
      BY <1>2, <2>3 DEF n
    <3> QED BY <3>1
  <2>6. f[m] \in Int
    BY <1>4, <2>2, <2>4, <2>5
  <2> QED BY <2>1, <2>6
<1> QED BY <1>1, <1>2, <1>5

\* A power of four more is asked for by an estimate that is one more.
LEMMA AtLeastFalls ==
  ASSUME NEW n \in Nat, NEW f, f.num \in Int, f.den \in Nat, NEW k \in 0..6, AtLeast(k + 1, n, f)
  PROVE  AtLeast(k, n, f)
<1> DEFINE y == n * f.num * f.num
           P == PiSquared(f.den * f.den)
<1>1. f.num * f.num \in Nat
  <2>1. f.num >= 0 \/ f.num < 0
    OBVIOUS
  <2> QED BY <2>1
<1>2. y = n * (f.num * f.num)
  OBVIOUS
<1>3. y \in Nat
  BY <1>1, <1>2
<1>4. P \in Int
  BY DEF PiSquared
<1>5. \A c \in Nat : c * n * f.num * f.num = c * y
  OBVIOUS
<1>6. \A u \in 0..7 : Fours[u + 1] \in Nat
  BY DEF Fours
<1>7. \A u \in 0..7 : AtLeast(u, n, f) <=> Fours[u + 1] * y <= P
  BY <1>5, <1>6 DEF AtLeast
<1>8. k + 1 \in 0..7 /\ k \in 0..7 /\ Fours[k + 2] = 4 * Fours[k + 1]
  BY DEF Fours
<1>9. (k + 1) + 1 = k + 2
  OBVIOUS
<1> DEFINE c == Fours[k + 1]
<1>10. c \in Nat /\ 4 * c * y <= P /\ (AtLeast(k, n, f) <=> c * y <= P)
  BY <1>6, <1>7, <1>8, <1>9
<1> HIDE DEF c, y, P
<1>11. c * y \in Nat /\ 4 * c * y = 4 * (c * y)
  BY <1>3, <1>10
<1> QED BY <1>4, <1>10, <1>11

\* The estimate is rounded down, -1 standing for all that is below 0 and 7
\* for all from 7 on.
LEMMA FloorRounds ==
  ASSUME NEW n \in Nat, NEW f, f.num \in Int, f.den \in Nat
  PROVE  LET low == Floor(n, f)
         IN  /\ low \in -1..7
             /\ \A k \in 0..7 : AtLeast(k, n, f) <=> k <= low
<1> DEFINE A(k) == AtLeast(k, n, f)
           Down(k) == A(k) /\ (k < 7 => ~A(k + 1))
           low == Floor(n, f)
<1>1. \A k \in 0..6 : A(k + 1) => A(k)
  BY AtLeastFalls
<1>2. low = IF ~A(0) THEN -1 ELSE CHOOSE k \in 0..7 : Down(k)
  BY DEF Floor
<1> HIDE DEF low, A
<1>3. /\ (A(1) => A(0)) /\ (A(2) => A(1)) /\ (A(3) => A(2)) /\ (A(4) => A(3))
      /\ (A(5) => A(4)) /\ (A(6) => A(5)) /\ (A(7) => A(6))
  <2>1. \A k \in 0..6, l \in 1..7 : l = k + 1 => (A(l) => A(k))
    BY <1>1
  <2> QED BY <2>1
<1>4. \A k \in 0..7 : k \in {0, 1, 2, 3, 4, 5, 6, 7}
  OBVIOUS
<1>5. CASE ~A(0)
  <2>1. \A k \in 0..7 : ~A(k)
    BY <1>3, <1>4, <1>5
  <2> QED BY <1>2, <1>5, <2>1 DEF low, A
<1>6. CASE A(0)
  <2>1. \E k \in 0..7 : Down(k)
    <3>1. Down(0) \/ Down(1) \/ Down(2) \/ Down(3) \/ Down(4) \/ Down(5) \/ Down(6) \/ Down(7)
      BY <1>6
    <3> QED BY <3>1
  <2>2. low \in 0..7 /\ Down(low)
    BY <1>2, <1>6, <2>1
  <2>3. \A k \in 0..7 : A(k) <=> k <= low
    <3>1. low \in {0, 1, 2, 3, 4, 5, 6, 7}
      BY <1>4, <2>2
    <3>2. A(low) /\ \A k \in 0..7 : k = low + 1 => ~A(k)
      BY <2>2
    <3> QED BY <1>3, <1>4, <3>1, <3>2
  <2> QED BY <2>2, <2>3 DEF low, A
<1> QED BY <1>5, <1>6

\* What the two clamps make of it.
LEMMA RangeOfBits ==
  ASSUME NEW n \in Nat \ {0}, NEW f, f.num \in Int, f.den \in Nat
  PROVE  LET r == BitRange(n, f)
             bits(k) == AtLeast(k, n, f)
         IN  /\ 1 <= r.min /\ r.min <= r.max /\ r.max <= 6
             /\ (bits(1) /\ ~bits(6)) => bits(r.min) /\ ~bits(r.max) /\ r.max = r.min + 1
             /\ (~bits(0) \/ bits(7)) => r.min = 1 /\ r.max = 6
             /\ bits(1) => WithinThreshold(f)
<1> DEFINE low == Floor(n, f)
           min == IF low > 1 THEN low ELSE 1
           max == IF low + 1 < 6 THEN low + 1 ELSE 6
           r == BitRange(n, f)
<1>1. low \in -1..7 /\ \A k \in 0..7 : AtLeast(k, n, f) <=> k <= low
  BY FloorRounds
<1>2. r = IF min > max THEN [min |-> 1, max |-> 6] ELSE [min |-> min, max |-> max]
  BY DEF BitRange, OneToSix
<1>3. r.min = (IF min > max THEN 1 ELSE min) /\ r.max = (IF min > max THEN 6 ELSE max)
  BY <1>2
<1> HIDE DEF low, r
<1>4. /\ 1 <= r.min /\ r.min <= r.max /\ r.max <= 6
      /\ r.min \in 0..7 /\ r.max \in 0..7
      /\ (1 <= low /\ ~(6 <= low)) => r.min <= low /\ ~(r.max <= low) /\ r.max = r.min + 1
      /\ (~(0 <= low) \/ 7 <= low) => r.min = 1 /\ r.max = 6
  BY <1>1, <1>3
<1>5. AtLeast(1, n, f) => WithinThreshold(f)
  <2> DEFINE x == f.num * f.num
             P == PiSquared(f.den * f.den)
  <2>1. x \in Nat
    <3>1. f.num >= 0 \/ f.num < 0
      OBVIOUS
    <3> QED BY <3>1
  <2>2. AtLeast(1, n, f) <=> 4 * (n * x) <= P
    <3>1. Fours[1 + 1] = 4
      BY DEF Fours
    <3>2. 4 * n * f.num * f.num = 4 * (n * x)
      OBVIOUS
    <3> QED BY <3>1, <3>2 DEF AtLeast
  <2>3. WithinThreshold(f) <=> 4 * x <= P
    <3>1. 4 * f.num * f.num = 4 * x
      OBVIOUS
    <3> QED BY <3>1 DEF WithinThreshold
  <2>4. P \in Int
    BY DEF PiSquared
  <2> HIDE DEF x, P
  <2>5. x <= n * x /\ n * x \in Nat
    BY <2>1
  <2> QED BY <2>1, <2>2, <2>3, <2>4, <2>5
<1> QED BY <1>1, <1>4, <1>5 DEF r

\* What the modular operations, the ranges of bits and the instances answer is
\* in range (check_overflow_risk, compute_1_6_bit_range,
\* generate_toy_lwe_instance), for every modulus, dimension and factor of the
\* deviation, and for every matrix and error vector that can be drawn.
THEOREM CallsInRange == LweSpec => []AnswersInRange
<1>1. LweInit => AnswersInRange
  BY DEF LweInit, AnswersInRange
<1>2. AnswersInRange /\ [LweNext]_lweCall => AnswersInRange'
  <2> SUFFICES ASSUME AnswersInRange, [LweNext]_lweCall PROVE AnswersInRange'
    OBVIOUS
  <2>1. CASE UNCHANGED lweCall
    BY <2>1 DEF AnswersInRange
  <2>2. ASSUME NEW a \in Operands, NEW b \in Operands, NEW q \in LweModuli, Multiply(a, b, q)
        PROVE  AnswersInRange'
    <3>1. a \in Int /\ b \in Int /\ q \in Nat \ {0} /\ MAX_SAFE \in Nat
      BY LweAssumption
    <3>2. /\ lweCall'.function = "mul" /\ lweCall'.a = a /\ lweCall'.b = b /\ lweCall'.q = q
          /\ lweCall'.product = (a * b) % q /\ lweCall'.sum = (a + b) % q
          /\ lweCall'.overflow_risk <=> (a * b > MAX_SAFE /\ a * b > q)
          /\ lweCall'.product_exceeds_64bit <=> a * b > MAX_SAFE
      BY <2>2 DEF Multiply, SafeModularMul, SafeModularAdd, OverflowRisk
    <3>3. a * b \in Int /\ a + b \in Int
      BY <3>1
    <3>4. (a * b) % q \in 0..q - 1 /\ (a + b) % q \in 0..q - 1
      BY <3>1, <3>3
    <3>5. a \in 0..q - 1 /\ b \in 0..q - 1 => a * b <= q * q
      <4> SUFFICES ASSUME a \in 0..q - 1, b \in 0..q - 1 PROVE a * b <= q * q
        OBVIOUS
      <4>1. a * b <= q * b
        BY <3>1
      <4>2. q * b <= q * q
        BY <3>1
      <4> QED BY <3>1, <3>3, <4>1, <4>2
    <3>6. q * q \in Nat
      BY <3>1
    <3> QED BY <3>1, <3>2, <3>3, <3>4, <3>5, <3>6 DEF AnswersInRange
  <2>3. ASSUME NEW n \in Dimensions, NEW f \in StdFactors, Analyze(n, f)
        PROVE  AnswersInRange'
    <3>1. CASE Positive(n, f)
      <4>1. n \in Nat \ {0} /\ f.num \in Int /\ f.den \in Nat
        BY <3>1, LweAssumption DEF Positive
      <4>2. /\ lweCall'.function = "range" /\ lweCall'.n = n /\ lweCall'.factor = f
            /\ lweCall'.range = BitRange(n, f) /\ (lweCall'.within <=> WithinThreshold(f))
        BY <2>3, <3>1 DEF Analyze
      <4> QED BY <4>1, <4>2, RangeOfBits DEF AnswersInRange
    <3>2. CASE ~Positive(n, f)
      BY <2>3, <3>2 DEF Analyze, AnswersInRange
    <3> QED BY <3>1, <3>2
  <2>4. ASSUME NEW s \in Secrets, NEW q \in ToyModuli, NEW A \in [1..MatrixRows -> [1..Len(s) -> 0..q - 1]],
               NEW e \in [1..MatrixRows -> 0..q - 1], NEW e0 \in 0..q - 1, Instance(s, q, A, e, e0)
        PROVE  AnswersInRange'
    <3>1. CASE Len(s) > MatrixRows
      BY <2>4, <3>1 DEF Instance, AnswersInRange
    <3>2. CASE ~(Len(s) > MatrixRows)
      <4>1. q \in Nat \ {0} /\ MatrixRows \in Nat /\ Len(s) \in Nat /\ Len(s) <= MatrixRows
        BY <3>2, LweAssumption
      <4>2. /\ lweCall'.function = "instance" /\ lweCall'.q = q
            /\ lweCall'.t = [u \in 1..MatrixRows |-> ((InnerProduct(A[u], e) % q) + e0) % q]
        BY <2>4, <3>2 DEF Instance
      <4>3. ASSUME NEW u \in 1..MatrixRows PROVE ((InnerProduct(A[u], e) % q) + e0) % q \in 0..q - 1
        <5>1. A[u] \in Seq(Int) /\ Len(A[u]) = Len(s)
          <6> DEFINE n == Len(s)
          <6>1. A[u] \in [1..n -> 0..q - 1] /\ n \in Nat
            BY <4>1
          <6> HIDE DEF n
          <6>2. A[u] \in [1..n -> Int]
            BY <4>1, <6>1
          <6>3. \A r \in [1..n -> Int] : r \in Seq(Int) /\ Len(r) = n
            BY <6>1
          <6> QED BY <6>2, <6>3 DEF n
        <5>2. \A j \in 1..Len(A[u]) : e[j] \in Int
          BY <4>1, <5>1
        <5>3. InnerProduct(A[u], e) \in Int
          BY <5>1, <5>2, InnerProductInt
        <5>4. (InnerProduct(A[u], e) % q) + e0 \in Int
          BY <4>1, <5>3
        <5> QED BY <4>1, <5>4
      <4> QED BY <4>2, <4>3 DEF AnswersInRange
    <3> QED BY <3>1, <3>2
  <2> QED BY <2>1, <2>2, <2>3, <2>4 DEF LweNext
<1> QED BY <1>1, <1>2, PTL DEF LweSpec

-----------------------------------------------------------------------------
(* The transform.  Coefficients are compared modulo the prime q (Cong).    *)
(* The invariant of the stages (Reaches) is that after s of them each      *)
(* block of 2^s coefficients holds the Walsh transform H of the block it   *)
(* came from, weighted with powers of omega: a butterfly joins two such    *)
(* blocks, and its factor doubles the weights.  After the last stage one   *)
(* block is left, which is the reference.  Dividing by the length rests on *)
(* Fermat's theorem for two.  Where the factors are 1, H undoes itself up  *)
(* to the length, and turns the dyadic convolution into a product.         *)

\* A set with zero, and with the successor of each of its numbers, has all.
LEMMA SetInduction ==
  ASSUME NEW S, 0 \in S, \A n \in Nat : n \in S => n + 1 \in S
  PROVE  \A n \in Nat : n \in S
<1> DEFINE Out == {n \in Nat : n \notin S}
<1> SUFFICES ASSUME Out # {} PROVE FALSE
  OBVIOUS
<1>1. PICK m \in Out : \A k \in Nat : k < m => k \notin Out
  BY LeastExists
<1>2. m \in Nat /\ m # 0 /\ m \notin S
  BY <1>1
<1>3. m - 1 \in Nat /\ m - 1 < m /\ (m - 1) + 1 = m
  BY <1>2
<1>4. m - 1 \in S
  BY <1>1, <1>3
<1> QED BY <1>2, <1>3, <1>4

\* A first value and a step make a sequence.
Iterates(f, first, Step) == f[0] = first /\ \A k \in Nat : f[k + 1] = Step[k][f[k]]

LEMMA Recursion ==
  ASSUME NEW V, NEW first \in V, NEW Step \in [Nat -> [V -> V]]
  PROVE  \E f \in [Nat -> V] : Iterates(f, first, Step)
<1> DEFINE Starts(n, f) == f[0] = first /\ \A k \in Nat : k < n => f[k + 1] = Step[k][f[k]]
           Reached == {n \in Nat : \E f \in [Nat -> V] : Starts(n, f)}
           upTo == [n \in Nat |-> CHOOSE f \in [Nat -> V] : Starts(n, f)]
           limit == [n \in Nat |-> upTo[n][n]]
<1>1. 0 \in Reached
  <2>1. Starts(0, [k \in Nat |-> first])
    OBVIOUS
  <2> QED BY <2>1
<1>2. ASSUME NEW n \in Nat, n \in Reached PROVE n + 1 \in Reached
  <2>1. PICK f \in [Nat -> V] : Starts(n, f)
    BY <1>2
  <2> DEFINE g == [k \in Nat |-> IF k = n + 1 THEN Step[n][f[n]] ELSE f[k]]
  <2>2. g \in [Nat -> V] /\ g[0] = first
    BY <2>1
  <2>3. ASSUME NEW k \in Nat, k < n + 1 PROVE g[k + 1] = Step[k][g[k]]
    <3>1. g[k] = f[k]
      BY <2>3
    <3>2. CASE k = n
      BY <3>1, <3>2
    <3>3. CASE k # n
      BY <2>1, <2>3, <3>1, <3>3
    <3> QED BY <3>2, <3>3
  <2>4. Starts(n + 1, g)
    BY <2>2, <2>3
  <2> HIDE DEF g, Starts
  <2> QED BY <2>2, <2>4
<1>3. \A n \in Nat : n \in Reached
  <2> HIDE DEF Reached
  <2> QED BY <1>1, <1>2, SetInduction
<1>4. \A n \in Nat : upTo[n] \in [Nat -> V] /\ Starts(n, upTo[n])
  BY <1>3
<1> HIDE DEF upTo
<1>5. ASSUME NEW n \in Nat, NEW k \in Nat, k <= n PROVE upTo[n][k] = upTo[k][k]
  <2> DEFINE Same == {j \in Nat : j <= k => upTo[n][j] = upTo[k][j]}
  <2>1. 0 \in Same
    BY <1>4
  <2>2. ASSUME NEW j \in Nat, j \in Same PROVE j + 1 \in Same
    BY <1>4, <1>5, <2>2
  <2>3. k \in Same
    <3> HIDE DEF Same
    <3> QED BY <2>1, <2>2, SetInduction
  <2> QED BY <2>3
<1>6. limit \in [Nat -> V] /\ limit[0] = first
  BY <1>4
<1>7. ASSUME NEW k \in Nat PROVE limit[k + 1] = Step[k][limit[k]]
  <2>1. limit[k + 1] = Step[k][upTo[k + 1][k]]
    BY <1>4
  <2>2. upTo[k + 1][k] = upTo[k][k]
    BY <1>5
  <2> QED BY <2>1, <2>2
<1> QED BY <1>6, <1>7 DEF Iterates

-----------------------------------------------------------------------------
\* Congruence modulo q.
Cong(a, b, q) == \E k \in Int : a - b = q * k

LEMMA CongMod ==
  ASSUME NEW q \in Nat, q > 0, NEW a \in Int
  PROVE  Cong(a % q, a, q) /\ Cong(a, a % q, q) /\ a % q \in 0..q - 1 /\ a % q \in Int
<1>1. a = q * (a \div q) + (a % q) /\ a \div q \in Int /\ a % q \in 0..q - 1
  OBVIOUS
<1>2. a - (a % q) = q * (a \div q)
  BY <1>1
<1>3. -(a \div q) \in Int /\ (a % q) - a = q * (-(a \div q))
  BY <1>1
<1>4. a % q \in Int
  BY <1>1
<1> QED BY <1>1, <1>2, <1>3, <1>4 DEF Cong

LEMMA CongSymmetric ==
  ASSUME NEW q \in Nat, NEW a \in Int, NEW b \in Int, Cong(a, b, q)
  PROVE  Cong(b, a, q)
<1>1. PICK k \in Int : a - b = q * k
  BY DEF Cong
<1>2. -k \in Int /\ b - a = q * (-k)
  BY <1>1
<1> QED BY <1>2 DEF Cong

LEMMA CongRefl ==
  ASSUME NEW q \in Nat, NEW a \in Int
  PROVE  Cong(a, a, q)
<1>1. a - a = q * 0
  OBVIOUS
<1> QED BY <1>1 DEF Cong

LEMMA CongTransitive ==
  ASSUME NEW q \in Nat, NEW a \in Int, NEW b \in Int, NEW c \in Int, Cong(a, b, q), Cong(b, c, q)
  PROVE  Cong(a, c, q)
<1>1. PICK k \in Int : a - b = q * k
  BY DEF Cong
<1>2. PICK l \in Int : b - c = q * l
  BY DEF Cong
<1>3. k + l \in Int /\ a - c = q * (k + l)
  BY <1>1, <1>2
<1> QED BY <1>3 DEF Cong

LEMMA CongSum ==
  ASSUME NEW q \in Nat, NEW a \in Int, NEW b \in Int, NEW c \in Int, NEW d \in Int, Cong(a, b, q), Cong(c, d, q)
  PROVE  Cong(a + c, b + d, q) /\ Cong(a - c, b - d, q)
<1>1. PICK k \in Int : a - b = q * k
  BY DEF Cong
<1>2. PICK l \in Int : c - d = q * l
  BY DEF Cong
<1>3. k + l \in Int /\ (a + c) - (b + d) = q * (k + l)
  BY <1>1, <1>2
<1>4. k - l \in Int /\ (a - c) - (b - d) = q * (k - l)
  BY <1>1, <1>2
<1> QED BY <1>3, <1>4 DEF Cong

LEMMA CongProduct ==
  ASSUME NEW q \in Nat, NEW a \in Int, NEW b \in Int, NEW c \in Int, NEW d \in Int, Cong(a, b, q), Cong(c, d, q)
  PROVE  Cong(a * c, b * d, q)
<1>1. PICK k \in Int : a - b = q * k
  BY DEF Cong
<1>2. PICK l \in Int : c - d = q * l
  BY DEF Cong
<1>3. a * c - b * d = (a - b) * c + b * (c - d)
  OBVIOUS
<1>4. (a - b) * c + b * (c - d) = (q * k) * c + b * (q * l)
  BY <1>1, <1>2
<1>5. k * c + b * l \in Int /\ (q * k) * c + b * (q * l) = q * (k * c + b * l)
  OBVIOUS
<1>6. a * c - b * d = q * (k * c + b * l)
  BY <1>3, <1>4, <1>5
<1> QED BY <1>5, <1>6 DEF Cong

LEMMA CongTimes ==
  ASSUME NEW q \in Nat, NEW a \in Int, NEW b \in Int, NEW c \in Int, Cong(a, b, q)
  PROVE  Cong(c * a, c * b, q) /\ Cong(a * c, b * c, q)
<1>1. Cong(c, c, q)
  BY CongRefl
<1>2. Cong(c * a, c * b, q)
  BY <1>1, CongProduct
<1>3. Cong(a * c, b * c, q)
  BY <1>1, CongProduct
<1> QED BY <1>2, <1>3

\* What is less than q in size and a multiple of it is zero.
LEMMA SmallMultiple ==
  ASSUME NEW q \in Nat, NEW k \in Int, -q < q * k, q * k < q
  PROVE  k = 0
<1>1. k >= 1 => q * k >= q
  <2> SUFFICES ASSUME k >= 1 PROVE q * k >= q
    OBVIOUS
  <2>1. q * (k - 1) >= 0
    <3>1. k - 1 \in Nat
      OBVIOUS
    <3> QED BY <3>1
  <2>2. q * k = q * (k - 1) + q
    OBVIOUS
  <2>3. q * k \in Int /\ q * (k - 1) \in Int
    OBVIOUS
  <2> QED BY <2>1, <2>2, <2>3
<1>2. k <= -1 => q * k <= -q
  <2> SUFFICES ASSUME k <= -1 PROVE q * k <= -q
    OBVIOUS
  <2>1. q * ((-k) - 1) >= 0
    <3>1. (-k) - 1 \in Nat
      OBVIOUS
    <3> QED BY <3>1
  <2>2. q * k = -(q * ((-k) - 1)) - q
    OBVIOUS
  <2>3. q * k \in Int /\ q * ((-k) - 1) \in Int
    OBVIOUS
  <2> QED BY <2>1, <2>2, <2>3
<1>3. q * k \in Int
  OBVIOUS
<1> QED BY <1>1, <1>2, <1>3

\* The remainder is the only residue that is congruent.
LEMMA CongResidue ==
  ASSUME NEW q \in Nat, q > 0, NEW a \in Int, NEW b \in 0..q - 1, Cong(a, b, q)
  PROVE  b = a % q
<1>1. a % q \in 0..q - 1 /\ Cong(a % q, b, q)
  BY CongMod, CongTransitive
<1>2. PICK k \in Int : (a % q) - b = q * k
  BY <1>1 DEF Cong
<1>3. -q < q * k /\ q * k < q
  BY <1>1, <1>2
<1>4. k = 0
  BY <1>3, SmallMultiple
<1> QED BY <1>1, <1>2, <1>4

LEMMA CongEqual ==
  ASSUME NEW q \in Nat, q > 0, NEW a \in Int, NEW b \in Int, Cong(a, b, q)
  PROVE  a % q = b % q
<1>1. b % q \in 0..q - 1 /\ Cong(b, b % q, q)
  BY CongMod
<1>2. Cong(a, b % q, q)
  BY <1>1, CongTransitive
<1> QED BY <1>1, <1>2, CongResidue

-----------------------------------------------------------------------------
\* Powers of two.
Doubles(n, f) == f = [k \in 0..n |-> IF k = 0 THEN 1 ELSE 2 * f[k - 1]]

LEMMA TwoToDoubles ==
  /\ TwoTo(0) = 1
  /\ \A s \in Nat : TwoTo(s) \in Nat /\ TwoTo(s) > 0 /\ TwoTo(s + 1) = 2 * TwoTo(s)
<1>1. PICK f \in [Nat -> Nat] : f[0] = 1 /\ \A k \in Nat : f[k + 1] = 2 * f[k]
  <2> DEFINE Step == [k \in Nat |-> [v \in Nat |-> 2 * v]]
  <2>1. Step \in [Nat -> [Nat -> Nat]]
    OBVIOUS
  <2>2. \E f \in [Nat -> Nat] : Iterates(f, 1, Step)
    <3> HIDE DEF Step
    <3>1. 1 \in Nat
      OBVIOUS
    <3> QED BY <2>1, <3>1, Recursion
  <2> QED BY <2>2 DEF Iterates
<1>2. ASSUME NEW n \in Nat PROVE TwoTo(n) = f[n]
  <2> DEFINE g == [k \in 0..n |-> f[k]]
             h == CHOOSE h : Doubles(n, h)
             Same == {k \in Nat : k <= n => h[k] = f[k]}
  <2>1. \A k \in 0..n : g[k] = IF k = 0 THEN 1 ELSE 2 * g[k - 1]
    <3> SUFFICES ASSUME NEW k \in 0..n, k # 0 PROVE f[k] = 2 * g[k - 1]
      BY <1>1
    <3>1. k - 1 \in Nat /\ k - 1 \in 0..n /\ (k - 1) + 1 = k
      OBVIOUS
    <3>2. f[(k - 1) + 1] = 2 * f[k - 1]
      BY <1>1, <3>1
    <3> QED BY <3>1, <3>2
  <2>2. Doubles(n, g)
    BY <2>1 DEF Doubles
  <2>3. TwoTo(n) = h[n]
    BY DEF TwoTo, Doubles
  <2>4. Doubles(n, h)
    <3> HIDE DEF g
    <3> QED BY <2>2
  <2> HIDE DEF h
  <2>5. 0 \in Same
    BY <1>1, <2>4 DEF Doubles
  <2>6. ASSUME NEW k \in Nat, k \in Same PROVE k + 1 \in Same
    <3> SUFFICES ASSUME k + 1 <= n PROVE h[k + 1] = f[k + 1]
      OBVIOUS
    <3>1. k + 1 \in 0..n /\ k + 1 # 0 /\ (k + 1) - 1 = k /\ h[k] = f[k]
      BY <2>6
    <3>2. h[k + 1] = 2 * h[(k + 1) - 1]
      BY <2>4, <3>1 DEF Doubles
    <3> QED BY <1>1, <3>1, <3>2
  <2>7. n \in Same
    <3> HIDE DEF Same
    <3> QED BY <2>5, <2>6, SetInduction
  <2> QED BY <2>3, <2>7
<1>3. \A n \in Nat : f[n] > 0
  <2> DEFINE S == {n \in Nat : f[n] > 0}
  <2>1. 0 \in S /\ \A n \in Nat : n \in S => n + 1 \in S
    BY <1>1
  <2>2. \A n \in Nat : n \in S
    <3> HIDE DEF S
    <3> QED BY <2>1, SetInduction
  <2> QED BY <2>2
<1> QED BY <1>1, <1>2, <1>3

-----------------------------------------------------------------------------
\* Sums of the first terms of a sequence.
Adds(f, n, sum) == sum = [k \in 0..n |-> IF k = 0 THEN 0 ELSE sum[k - 1] + f[k - 1]]

LEMMA SumStep ==
  ASSUME NEW f \in [Nat -> Int]
  PROVE  Sum(f, 0) = 0 /\ \A n \in Nat : Sum(f, n) \in Int /\ Sum(f, n + 1) = Sum(f, n) + f[n]
<1>1. PICK t \in [Nat -> Int] : t[0] = 0 /\ \A k \in Nat : t[k + 1] = t[k] + f[k]
  <2> DEFINE Step == [k \in Nat |-> [v \in Int |-> v + f[k]]]
  <2>1. Step \in [Nat -> [Int -> Int]]
    OBVIOUS
  <2>2. \E t \in [Nat -> Int] : Iterates(t, 0, Step)
    <3> HIDE DEF Step
    <3>1. 0 \in Int
      OBVIOUS
    <3> QED BY <2>1, <3>1, Recursion
  <2> QED BY <2>2 DEF Iterates
<1>2. ASSUME NEW n \in Nat PROVE Sum(f, n) = t[n]
  <2> DEFINE g == [k \in 0..n |-> t[k]]
             h == CHOOSE h : Adds(f, n, h)
             Same == {k \in Nat : k <= n => h[k] = t[k]}
  <2>1. \A k \in 0..n : g[k] = IF k = 0 THEN 0 ELSE g[k - 1] + f[k - 1]
    <3> SUFFICES ASSUME NEW k \in 0..n, k # 0 PROVE t[k] = g[k - 1] + f[k - 1]
      BY <1>1
    <3>1. k - 1 \in Nat /\ k - 1 \in 0..n /\ (k - 1) + 1 = k
      OBVIOUS
    <3>2. t[(k - 1) + 1] = t[k - 1] + f[k - 1]
      BY <1>1, <3>1
    <3> QED BY <3>1, <3>2
  <2>2. Adds(f, n, g)
    BY <2>1 DEF Adds
  <2>3. Sum(f, n) = h[n]
    BY DEF Sum, Adds
  <2>4. Adds(f, n, h)
    <3> HIDE DEF g
    <3> QED BY <2>2
  <2> HIDE DEF h
  <2>5. 0 \in Same
    BY <1>1, <2>4 DEF Adds
  <2>6. ASSUME NEW k \in Nat, k \in Same PROVE k + 1 \in Same
    <3> SUFFICES ASSUME k + 1 <= n PROVE h[k + 1] = t[k + 1]
      OBVIOUS
    <3>1. k + 1 \in 0..n /\ k + 1 # 0 /\ (k + 1) - 1 = k /\ h[k] = t[k]
      BY <2>6
    <3>2. h[k + 1] = h[(k + 1) - 1] + f[(k + 1) - 1]
      BY <2>4, <3>1 DEF Adds
    <3> QED BY <1>1, <3>1, <3>2
  <2>7. n \in Same
    <3> HIDE DEF Same
    <3> QED BY <2>5, <2>6, SetInduction
  <2> QED BY <2>3, <2>7
<1> QED BY <1>1, <1>2

\* A sum depends on its terms only.
LEMMA SumSame ==
  ASSUME NEW n \in Nat, NEW f, NEW g, \A k \in 0..n - 1 : f[k] = g[k]
  PROVE  Sum(f, n) = Sum(g, n)
<1>1. ASSUME NEW sum PROVE Adds(f, n, sum) <=> Adds(g, n, sum)
  <2>1. \A k \in 0..n : k # 0 => k - 1 \in 0..n - 1
    OBVIOUS
  <2>2. \A k \in 0..n : k # 0 => f[k - 1] = g[k - 1]
    BY <2>1
  <2> QED BY <2>2 DEF Adds
<1>2. (CHOOSE sum : Adds(f, n, sum)) = (CHOOSE sum : Adds(g, n, sum))
  BY <1>1
<1> QED BY <1>2 DEF Sum, Adds

-----------------------------------------------------------------------------
\* Powers, as they are computed by squares, are those computed one by one.
Multiplies(P, b, q) ==
  P \in [Nat -> 0..q - 1] /\ P[0] = 1 % q /\ \A k \in Nat : P[k + 1] = (P[k] * b) % q

LEMMA PowersExist ==
  ASSUME NEW q \in Nat, q > 0, NEW b \in Int
  PROVE  \E P : Multiplies(P, b, q)
<1> DEFINE Step == [k \in Nat |-> [v \in 0..q - 1 |-> (v * b) % q]]
<1>1. Step \in [Nat -> [0..q - 1 -> 0..q - 1]]
  <2>1. \A v \in 0..q - 1 : (v * b) % q \in 0..q - 1
    BY CongMod
  <2> QED BY <2>1
<1>2. 1 % q \in 0..q - 1
  BY CongMod
<1>3. PICK f \in [Nat -> 0..q - 1] : Iterates(f, 1 % q, Step)
  <2> HIDE DEF Step
  <2> QED BY <1>1, <1>2, Recursion
<1>4. Multiplies(f, b, q)
  BY <1>3 DEF Iterates, Multiplies
<1> QED BY <1>4

LEMMA PowersAdd ==
  ASSUME NEW q \in Nat, q > 0, NEW b \in Int, NEW P, Multiplies(P, b, q), NEW c \in Nat
  PROVE  \A e \in Nat : Cong(P[c + e], P[c] * P[e], q)
<1> DEFINE S == {e \in Nat : Cong(P[c + e], P[c] * P[e], q)}
<1>1. ASSUME NEW e \in Nat PROVE P[e] \in Int /\ P[e + 1] \in Int /\ Cong(P[e + 1], P[e] * b, q)
  <2>1. P[e] \in Int /\ P[e + 1] \in Int /\ P[e + 1] = (P[e] * b) % q
    BY DEF Multiplies
  <2>2. Cong((P[e] * b) % q, P[e] * b, q)
    <3>1. P[e] * b \in Int
      BY <2>1
    <3> QED BY <3>1, CongMod
  <2> QED BY <2>1, <2>2
<1>2. 0 \in S
  <2>1. PICK one \in Int : one = 1
    OBVIOUS
  <2>2. Cong(one, P[0], q)
    BY <2>1, CongMod DEF Multiplies
  <2>3. P[c] \in Int /\ P[0] \in Int
    BY <1>1
  <2>4. Cong(P[c] * one, P[c] * P[0], q)
    BY <2>2, <2>3, CongTimes
  <2> QED BY <2>1, <2>3, <2>4
<1>3. ASSUME NEW e \in Nat, e \in S PROVE e + 1 \in S
  <2>1. Cong(P[c + (e + 1)], P[c + e] * b, q)
    <3>1. c + e \in Nat /\ (c + e) + 1 = c + (e + 1)
      OBVIOUS
    <3> QED BY <1>1, <3>1
  <2>2. Cong(P[c + e] * b, (P[c] * P[e]) * b, q)
    <3>1. P[c + e] \in Int /\ P[c] * P[e] \in Int
      BY <1>1
    <3> QED BY <1>3, <3>1, CongTimes
  <2>3. Cong(P[c] * (P[e] * b), P[c] * P[e + 1], q)
    <3>1. Cong(P[e] * b, P[e + 1], q)
      <4>1. P[e] * b \in Int /\ P[e + 1] \in Int
        BY <1>1
      <4> QED BY <1>1, <4>1, CongSymmetric
    <3>2. P[e] * b \in Int /\ P[e + 1] \in Int /\ P[c] \in Int
      BY <1>1
    <3> QED BY <3>1, <3>2, CongProduct, CongRefl
  <2>4. (P[c] * P[e]) * b = P[c] * (P[e] * b)
    BY <1>1
  <2>5. /\ P[c + (e + 1)] \in Int /\ P[c + e] * b \in Int
        /\ P[c] * (P[e] * b) \in Int /\ P[c] * P[e + 1] \in Int
    BY <1>1
  <2>6. Cong(P[c + (e + 1)], P[c] * (P[e] * b), q)
    BY <2>1, <2>2, <2>4, <2>5, CongTransitive
  <2>7. Cong(P[c + (e + 1)], P[c] * P[e + 1], q)
    BY <2>3, <2>5, <2>6, CongTransitive
  <2> QED BY <2>7
<1> HIDE DEF S
<1>4. \A e \in Nat : e \in S
  BY <1>2, <1>3, SetInduction
<1> QED BY <1>4 DEF S

\* The squares in the definition of a power.
Squares(pow, b, e, q) ==
  pow = [k \in 0..e |-> IF k = 0 THEN 1 % q
                        ELSE LET h == pow[k \div 2] IN (IF k % 2 = 0 THEN h * h % q ELSE ((h * h % q) * b) % q)]

LEMMA PowersSquare ==
  ASSUME NEW q \in Nat, q > 0, NEW b \in Int, NEW P, Multiplies(P, b, q), NEW k \in Nat
  PROVE  P[k] = IF k = 0 THEN 1 % q
                ELSE IF k % 2 = 0 THEN (P[k \div 2] * P[k \div 2]) % q
                ELSE (((P[k \div 2] * P[k \div 2]) % q) * b) % q
<1> DEFINE h == k \div 2
<1>1. h \in Nat /\ (k % 2 = 0 => k = h + h) /\ (k % 2 # 0 => k = (h + h) + 1)
  OBVIOUS
<1> HIDE DEF h
<1>2. P[h + h] = (P[h] * P[h]) % q
  <2>1. Cong(P[h] * P[h], P[h + h], q)
    <3>1. Cong(P[h + h], P[h] * P[h], q)
      BY <1>1, PowersAdd
    <3>2. P[h + h] \in Int /\ P[h] * P[h] \in Int
      BY <1>1 DEF Multiplies
    <3> QED BY <3>1, <3>2, CongSymmetric
  <2>2. P[h + h] \in 0..q - 1 /\ P[h] * P[h] \in Int
    BY <1>1 DEF Multiplies
  <2> QED BY <2>1, <2>2, CongResidue
<1>3. CASE k = 0
  BY <1>3 DEF Multiplies
<1>4. CASE k # 0 /\ k % 2 = 0
  BY <1>1, <1>2, <1>4 DEF h
<1>5. CASE k # 0 /\ k % 2 # 0
  <2>1. P[(h + h) + 1] = (P[h + h] * b) % q
    <3>1. h + h \in Nat
      BY <1>1
    <3> QED BY <3>1 DEF Multiplies
  <2> QED BY <1>1, <1>2, <1>5, <2>1 DEF h
<1> QED BY <1>3, <1>4, <1>5

LEMMA PowerMultiplies ==
  ASSUME NEW q \in Nat, q > 0, NEW b \in Int, NEW P, Multiplies(P, b, q), NEW e \in Nat
  PROVE  Power(b, e, q) = P[e]
<1> DEFINE g == [k \in 0..e |-> P[k]]
           pow == CHOOSE pow : Squares(pow, b, e, q)
           Bad == {k \in Nat : k <= e /\ pow[k] # P[k]}
<1>1. Power(b, e, q) = pow[e]
  BY DEF Power, Squares
<1>2. \A k \in Nat : k \div 2 \in Nat /\ (k # 0 => k \div 2 < k)
  OBVIOUS
<1>3. Squares(g, b, e, q)
  <2>1. ASSUME NEW k \in 0..e
        PROVE  g[k] = IF k = 0 THEN 1 % q
                      ELSE IF k % 2 = 0 THEN (g[k \div 2] * g[k \div 2]) % q
                      ELSE (((g[k \div 2] * g[k \div 2]) % q) * b) % q
    <3>1. k \div 2 \in 0..e
      BY <1>2
    <3>2. g[k] = P[k] /\ g[k \div 2] = P[k \div 2] /\ k \in Nat
      BY <3>1
    <3> QED BY <3>2, PowersSquare
  <2> QED BY <2>1 DEF Squares
<1>4. Squares(pow, b, e, q)
  <2> HIDE DEF g
  <2> QED BY <1>3
<1> HIDE DEF pow
<1>5. Bad = {}
  <2> SUFFICES ASSUME Bad # {} PROVE FALSE
    OBVIOUS
  <2>1. PICK k \in Bad : \A j \in Nat : j < k => j \notin Bad
    BY LeastExists
  <2>2. k \in Nat /\ k \in 0..e /\ k \div 2 \in Nat /\ (k # 0 => k \div 2 < k /\ k \div 2 <= e)
    BY <1>2, <2>1
  <2>3. k # 0 => pow[k \div 2] = P[k \div 2]
    BY <2>1, <2>2
  <2>4. pow[k] = P[k]
    <3>1. pow[k] = IF k = 0 THEN 1 % q
                   ELSE IF k % 2 = 0 THEN (pow[k \div 2] * pow[k \div 2]) % q
                   ELSE (((pow[k \div 2] * pow[k \div 2]) % q) * b) % q
      BY <1>4, <2>2 DEF Squares
    <3>2. P[k] = IF k = 0 THEN 1 % q
                 ELSE IF k % 2 = 0 THEN (P[k \div 2] * P[k \div 2]) % q
                 ELSE (((P[k \div 2] * P[k \div 2]) % q) * b) % q
      BY <2>2, PowersSquare
    <3> QED BY <2>3, <3>1, <3>2
  <2> QED BY <2>1, <2>4
<1> QED BY <1>1, <1>5

LEMMA PowerStep ==
  ASSUME NEW q \in Nat, q > 0, NEW b \in Int
  PROVE  /\ Power(b, 0, q) = 1 % q
         /\ \A e \in Nat : /\ Power(b, e, q) \in 0..q - 1
                           /\ Power(b, e + 1, q) = (Power(b, e, q) * b) % q
         /\ \A c, e \in Nat : Cong(Power(b, c + e, q), Power(b, c, q) * Power(b, e, q), q)
<1>1. PICK P : Multiplies(P, b, q)
  BY PowersExist
<1>2. \A e \in Nat : Power(b, e, q) = P[e]
  BY <1>1, PowerMultiplies
<1>3. \A c, e \in Nat : c + e \in Nat
  OBVIOUS
<1>4. \A c, e \in Nat : Cong(P[c + e], P[c] * P[e], q)
  BY <1>1, PowersAdd
<1> QED BY <1>1, <1>2, <1>3, <1>4 DEF Multiplies

LEMMA SumSplit ==
  ASSUME NEW f \in [Nat -> Int], NEW a \in Nat
  PROVE  \A n \in Nat : Sum(f, a + n) = Sum(f, a) + Sum([j \in Nat |-> f[a + j]], n)
<1> DEFINE g == [j \in Nat |-> f[a + j]]
           S == {n \in Nat : Sum(f, a + n) = Sum(f, a) + Sum(g, n)}
<1>1. g \in [Nat -> Int] /\ \A n \in Nat : g[n] = f[a + n]
  OBVIOUS
<1> HIDE DEF g
<1>2. 0 \in S
  BY <1>1, SumStep
<1>3. ASSUME NEW n \in Nat, n \in S PROVE n + 1 \in S
  <2>1. a + n \in Nat /\ (a + n) + 1 = a + (n + 1)
    OBVIOUS
  <2>2. Sum(f, a + (n + 1)) = Sum(f, a + n) + f[a + n]
    BY <2>1, SumStep
  <2>3. Sum(g, n + 1) = Sum(g, n) + g[n]
    BY <1>1, SumStep
  <2>4. Sum(f, a) \in Int /\ Sum(g, n) \in Int /\ g[n] \in Int
    BY <1>1, SumStep
  <2> QED BY <1>1, <1>3, <2>2, <2>3, <2>4
<1>4. \A n \in Nat : n \in S
  <2> HIDE DEF S
  <2> QED BY <1>2, <1>3, SetInduction
<1> QED BY <1>4 DEF g

Combines(h, c, f, d, g, len) == \A j \in 0..len - 1 : h[j] = c * f[j] + d * g[j]

LEMMA SumLinear ==
  ASSUME NEW f \in [Nat -> Int], NEW g \in [Nat -> Int], NEW h \in [Nat -> Int], NEW c \in Int, NEW d \in Int,
         NEW len \in Nat, Combines(h, c, f, d, g, len)
  PROVE  Sum(h, len) = c * Sum(f, len) + d * Sum(g, len)
<1> DEFINE S == {n \in Nat : n <= len => Sum(h, n) = c * Sum(f, n) + d * Sum(g, n)}
<1>1. 0 \in S
  <2>1. Sum(f, 0) = 0 /\ Sum(g, 0) = 0 /\ Sum(h, 0) = 0
    BY SumStep
  <2> QED BY <2>1
<1>2. ASSUME NEW n \in Nat, n \in S PROVE n + 1 \in S
  <2> SUFFICES ASSUME n + 1 <= len PROVE Sum(h, n + 1) = c * Sum(f, n + 1) + d * Sum(g, n + 1)
    OBVIOUS
  <2>1. /\ Sum(f, n + 1) = Sum(f, n) + f[n]
        /\ Sum(g, n + 1) = Sum(g, n) + g[n]
        /\ Sum(h, n + 1) = Sum(h, n) + h[n]
        /\ Sum(f, n) \in Int /\ Sum(g, n) \in Int
    BY SumStep
  <2>2. c * (Sum(f, n) + f[n]) = c * Sum(f, n) + c * f[n]
    BY <2>1
  <2>3. d * (Sum(g, n) + g[n]) = d * Sum(g, n) + d * g[n]
    BY <2>1
  <2>4. c * Sum(f, n) \in Int /\ d * Sum(g, n) \in Int /\ c * f[n] \in Int /\ d * g[n] \in Int
    BY <2>1
  <2>5. Sum(h, n) = c * Sum(f, n) + d * Sum(g, n) /\ h[n] = c * f[n] + d * g[n]
    BY <1>2 DEF Combines
  <2> QED BY <2>1, <2>2, <2>3, <2>4, <2>5
<1>3. \A n \in Nat : n \in S
  <2> HIDE DEF S
  <2> QED BY <1>1, <1>2, SetInduction
<1>4. len <= len
  OBVIOUS
<1> QED BY <1>3, <1>4

LEMMA SumCong ==
  ASSUME NEW q \in Nat, NEW f \in [Nat -> Int], NEW g \in [Nat -> Int],
         NEW len \in Nat, \A j \in 0..len - 1 : Cong(f[j], g[j], q)
  PROVE  Cong(Sum(f, len), Sum(g, len), q)
<1> DEFINE S == {n \in Nat : n <= len => Cong(Sum(f, n), Sum(g, n), q)}
<1>1. 0 \in S
  BY SumStep, CongRefl
<1>2. ASSUME NEW n \in Nat, n \in S PROVE n + 1 \in S
  <2> SUFFICES ASSUME n + 1 <= len PROVE Cong(Sum(f, n + 1), Sum(g, n + 1), q)
    OBVIOUS
  <2>1. /\ Sum(f, n + 1) = Sum(f, n) + f[n]
        /\ Sum(g, n + 1) = Sum(g, n) + g[n]
        /\ Sum(f, n) \in Int /\ Sum(g, n) \in Int /\ f[n] \in Int /\ g[n] \in Int
    BY SumStep
  <2>2. Cong(Sum(f, n) + f[n], Sum(g, n) + g[n], q)
    <3>1. Cong(Sum(f, n), Sum(g, n), q) /\ Cong(f[n], g[n], q)
      BY <1>2
    <3> QED BY <2>1, <3>1, CongSum
  <2> QED BY <2>1, <2>2
<1>3. \A n \in Nat : n \in S
  <2> HIDE DEF S
  <2> QED BY <1>1, <1>2, SetInduction
<1>4. len <= len
  OBVIOUS
<1> QED BY <1>3, <1>4

-----------------------------------------------------------------------------
\* Quotients and bits.
LEMMA Division ==
  ASSUME NEW k \in Nat, NEW e \in Nat, e > 0
  PROVE  k \div e \in Nat /\ k % e \in 0..e - 1 /\ k = (k % e) + e * (k \div e)
  OBVIOUS

LEMMA QuotientUnique ==
  ASSUME NEW d \in Nat, d > 0, NEW k \in Int, NEW r \in 0..d - 1
  PROVE  (r + d * k) \div d = k /\ (r + d * k) % d = r
<1> DEFINE a == r + d * k
<1>1. a \in Int
  OBVIOUS
<1>2. Cong(a, r, d)
  <2>1. a - r = d * k
    OBVIOUS
  <2> QED BY <2>1 DEF Cong
<1>3. r = a % d
  BY <1>1, <1>2, CongResidue
<1>4. a = d * (a \div d) + (a % d) /\ a \div d \in Int
  BY <1>1
<1>5. d * ((a \div d) - k) = 0
  BY <1>3, <1>4
<1>6. (a \div d) - k = 0
  BY <1>4, <1>5, SmallMultiple
<1> QED BY <1>3, <1>4, <1>6

LEMMA QuotientShift ==
  ASSUME NEW d \in Nat, d > 0, NEW a \in Int, NEW k \in Int
  PROVE  (a + d * k) \div d = (a \div d) + k /\ (a + d * k) % d = a % d
<1> DEFINE r == a % d
           l == a \div d
<1>1. r \in 0..d - 1 /\ l \in Int /\ a = d * l + r
  OBVIOUS
<1> HIDE DEF r, l
<1>2. a + d * k = r + d * (l + k)
  BY <1>1
<1>3. l + k \in Int
  BY <1>1
<1>4. (r + d * (l + k)) \div d = l + k /\ (r + d * (l + k)) % d = r
  BY <1>1, <1>3, QuotientUnique
<1> QED BY <1>2, <1>4 DEF r, l

LEMMA TwoToAdds ==
  ASSUME NEW a \in Nat
  PROVE  \A b \in Nat : TwoTo(a + b) = TwoTo(a) * TwoTo(b)
<1> DEFINE S == {b \in Nat : TwoTo(a + b) = TwoTo(a) * TwoTo(b)}
<1>1. 0 \in S
  <2>1. TwoTo(a) \in Nat /\ TwoTo(0) = 1 /\ a + 0 = a
    BY TwoToDoubles
  <2> QED BY <2>1
<1>2. ASSUME NEW b \in Nat, b \in S PROVE b + 1 \in S
  <2>1. a + b \in Nat /\ a + (b + 1) = (a + b) + 1
    OBVIOUS
  <2>2. TwoTo((a + b) + 1) = 2 * TwoTo(a + b) /\ TwoTo(b + 1) = 2 * TwoTo(b)
    BY <2>1, TwoToDoubles
  <2>3. TwoTo(a) \in Nat /\ TwoTo(b) \in Nat
    BY TwoToDoubles
  <2> QED BY <1>2, <2>1, <2>2, <2>3
<1>3. \A b \in Nat : b \in S
  <2> HIDE DEF S
  <2> QED BY <1>1, <1>2, SetInduction
<1> QED BY <1>3

\* The bits of a number in the lower or in the upper half.
LEMMA BitsOfHalves ==
  ASSUME NEW s \in Nat, NEW j \in 0..TwoTo(s) - 1, NEW half \in 0..1
  PROVE  /\ \A t \in 0..s - 1 : Bit(j + TwoTo(s) * half, t) = Bit(j, t)
         /\ Bit(j + TwoTo(s) * half, s) = half
<1>1. TwoTo(s) \in Nat /\ TwoTo(s) > 0
  BY TwoToDoubles
<1>2. ASSUME NEW t \in 0..s - 1 PROVE Bit(j + TwoTo(s) * half, t) = Bit(j, t)
  <2> DEFINE d == TwoTo(t)
             r == TwoTo(s - (t + 1))
  <2>1. d \in Nat /\ d > 0 /\ r \in Nat
    <3>1. t \in Nat /\ s - (t + 1) \in Nat
      OBVIOUS
    <3> QED BY <3>1, TwoToDoubles
  <2>2. TwoTo(s) = d * (2 * r)
    <3>1. t \in Nat /\ t + 1 \in Nat /\ s - (t + 1) \in Nat /\ (t + 1) + (s - (t + 1)) = s
      OBVIOUS
    <3>2. TwoTo(s) = TwoTo(t + 1) * r
      BY <3>1, TwoToAdds
    <3>3. TwoTo(t + 1) = 2 * d
      BY <3>1, TwoToDoubles
    <3> QED BY <2>1, <3>2, <3>3
  <2> HIDE DEF d, r
  <2>3. j + TwoTo(s) * half = j + d * (2 * r * half)
    BY <2>1, <2>2
  <2>4. (j + d * (2 * r * half)) \div d = (j \div d) + 2 * r * half
    <3>1. 2 * r * half \in Int /\ j \in Int
      BY <1>1, <2>1
    <3> QED BY <2>1, <3>1, QuotientShift
  <2>5. ((j \div d) + 2 * r * half) % 2 = (j \div d) % 2
    <3>1. j \div d \in Int /\ r * half \in Int
      BY <1>1, <2>1
    <3>2. \A y, z \in Int : (y + 2 * z) % 2 = y % 2
      OBVIOUS
    <3>3. 2 * r * half = 2 * (r * half)
      BY <2>1
    <3> QED BY <3>1, <3>2, <3>3
  <2> QED BY <2>3, <2>4, <2>5 DEF Bit, d
<1>3. Bit(j + TwoTo(s) * half, s) = half
  <2>1. (j + TwoTo(s) * half) \div TwoTo(s) = half
    <3> DEFINE d == TwoTo(s)
    <3>1. d \in Nat /\ d > 0 /\ j \in 0..d - 1 /\ half \in Int
      BY <1>1
    <3> HIDE DEF d
    <3>2. (j + d * half) \div d = half
      BY <3>1, QuotientUnique
    <3> QED BY <3>2 DEF d
  <2> QED BY <2>1 DEF Bit
<1> QED BY <1>2, <1>3

-----------------------------------------------------------------------------
\* The transform without weights, of the first 2^s numbers of y.
Common(j, r, s) == Sum([t \in Nat |-> Bit(j, t) * Bit(r, t)], s)
Sg(j, r, s) == IF Common(j, r, s) % 2 = 0 THEN 1 ELSE -1
Terms(s, y, r) == [j \in Nat |-> Sg(j, r, s) * y[j]]
H(s, y, r) == Sum(Terms(s, y, r), TwoTo(s))
Upper(s, y) == [j \in Nat |-> y[j + TwoTo(s)]]

LEMMA BitOf ==
  ASSUME NEW j \in Int, NEW t \in Nat
  PROVE  Bit(j, t) \in 0..1
<1>1. TwoTo(t) \in Nat /\ TwoTo(t) > 0
  BY TwoToDoubles
<1>2. j \div TwoTo(t) \in Int
  BY <1>1
<1> QED BY <1>2 DEF Bit

LEMMA CommonOf ==
  ASSUME NEW j \in Int, NEW r \in Int
  PROVE  /\ [t \in Nat |-> Bit(j, t) * Bit(r, t)] \in [Nat -> Int]
         /\ \A s \in Nat : Common(j, r, s) \in Int /\ Sg(j, r, s) \in {1, -1} /\ Sg(j, r, s) \in Int
<1>1. ASSUME NEW t \in Nat PROVE Bit(j, t) * Bit(r, t) \in Int
  <2>1. Bit(j, t) \in Int /\ Bit(r, t) \in Int
    BY BitOf
  <2> QED BY <2>1
<1>2. [t \in Nat |-> Bit(j, t) * Bit(r, t)] \in [Nat -> Int]
  BY <1>1
<1>3. \A s \in Nat : Common(j, r, s) \in Int
  BY <1>2, SumStep DEF Common
<1> QED BY <1>2, <1>3 DEF Sg

LEMMA SignOfHalves ==
  ASSUME NEW s \in Nat, NEW j \in 0..TwoTo(s) - 1, NEW r \in 0..TwoTo(s) - 1,
         NEW half \in 0..1, NEW other \in 0..1
  PROVE  Sg(j + TwoTo(s) * half, r + TwoTo(s) * other, s + 1)
           = IF half = 1 /\ other = 1 THEN -Sg(j, r, s) ELSE Sg(j, r, s)
<1> DEFINE i2 == j + TwoTo(s) * half
           r2 == r + TwoTo(s) * other
           f == [t \in Nat |-> Bit(j, t) * Bit(r, t)]
           g == [t \in Nat |-> Bit(i2, t) * Bit(r2, t)]
<1>1. j \in Int /\ r \in Int /\ i2 \in Int /\ r2 \in Int
  <2>1. TwoTo(s) \in Nat
    BY TwoToDoubles
  <2> QED BY <2>1
<1>2. \A t \in 0..s - 1 : Bit(i2, t) = Bit(j, t) /\ Bit(r2, t) = Bit(r, t)
  BY BitsOfHalves
<1>3. Bit(i2, s) = half /\ Bit(r2, s) = other
  BY BitsOfHalves
<1> HIDE DEF i2, r2
<1>4. f \in [Nat -> Int] /\ g \in [Nat -> Int]
  BY <1>1, CommonOf
<1>5. \A t \in 0..s - 1 : f[t] = g[t]
  BY <1>2
<1>6. g[s] = half * other
  BY <1>3
<1>7. Common(j, r, s) = Sum(f, s) /\ Common(i2, r2, s + 1) = Sum(g, s + 1)
  BY DEF Common
<1> HIDE DEF f, g
<1>8. Sum(f, s) = Sum(g, s)
  BY <1>5, SumSame
<1>9. Sum(g, s + 1) = Sum(g, s) + half * other
  BY <1>4, <1>6, SumStep
<1>10. Common(i2, r2, s + 1) = Common(j, r, s) + half * other /\ Common(j, r, s) \in Int
  BY <1>1, <1>7, <1>8, <1>9, CommonOf
<1>11. half * other = IF half = 1 /\ other = 1 THEN 1 ELSE 0
  OBVIOUS
<1>12. Sg(i2, r2, s + 1) = IF half = 1 /\ other = 1 THEN -Sg(j, r, s) ELSE Sg(j, r, s)
  BY <1>10, <1>11 DEF Sg
<1> QED BY <1>12 DEF i2, r2

LEMMA TermsOf ==
  ASSUME NEW s \in Nat, NEW y \in [Nat -> Int], NEW r \in Int
  PROVE  Terms(s, y, r) \in [Nat -> Int] /\ H(s, y, r) \in Int
<1>1. \A j \in Nat : Sg(j, r, s) \in Int
  BY CommonOf
<1>2. Terms(s, y, r) \in [Nat -> Int]
  BY <1>1 DEF Terms
<1>3. TwoTo(s) \in Nat
  BY TwoToDoubles
<1> QED BY <1>2, <1>3, SumStep DEF H

\* The transform of one number is that number.
LEMMA HZero ==
  ASSUME NEW y \in [Nat -> Int]
  PROVE  H(0, y, 0) = y[0]
<1> DEFINE f == Terms(0, y, 0)
<1>1. Sg(0, 0, 0) = 1
  <2>1. Common(0, 0, 0) = 0
    BY CommonOf, SumStep DEF Common
  <2> QED BY <2>1 DEF Sg
<1>2. f \in [Nat -> Int] /\ f[0] = y[0]
  BY <1>1, TermsOf DEF Terms
<1>3. H(0, y, 0) = Sum(f, 1)
  BY TwoToDoubles DEF H
<1> HIDE DEF f
<1>4. Sum(f, 0 + 1) = Sum(f, 0) + f[0] /\ Sum(f, 0) = 0
  BY <1>2, SumStep
<1> QED BY <1>2, <1>3, <1>4

LEMMA HLinear ==
  ASSUME NEW s \in Nat, NEW f \in [Nat -> Int], NEW g \in [Nat -> Int], NEW h \in [Nat -> Int],
         NEW c \in Int, NEW d \in Int, NEW r \in Int,
         Combines(h, c, f, d, g, TwoTo(s))
  PROVE  H(s, h, r) = c * H(s, f, r) + d * H(s, g, r)
<1> DEFINE ff == Terms(s, f, r)
           gg == Terms(s, g, r)
           hh == Terms(s, h, r)
<1>1. ff \in [Nat -> Int] /\ gg \in [Nat -> Int] /\ hh \in [Nat -> Int] /\ TwoTo(s) \in Nat
  BY TermsOf, TwoToDoubles
<1>2. ASSUME NEW j \in 0..TwoTo(s) - 1 PROVE hh[j] = c * ff[j] + d * gg[j]
  <2>1. j \in Nat /\ j \in Int /\ Sg(j, r, s) \in Int
    BY <1>1, CommonOf
  <2>2. f[j] \in Int /\ g[j] \in Int /\ h[j] = c * f[j] + d * g[j]
    BY <2>1 DEF Combines
  <2> HIDE DEF Sg
  <2>3. Sg(j, r, s) * (c * f[j] + d * g[j]) = c * (Sg(j, r, s) * f[j]) + d * (Sg(j, r, s) * g[j])
    BY <2>1, <2>2
  <2> QED BY <2>1, <2>2, <2>3 DEF Terms
<1>3. H(s, h, r) = Sum(hh, TwoTo(s)) /\ H(s, f, r) = Sum(ff, TwoTo(s)) /\ H(s, g, r) = Sum(gg, TwoTo(s))
  BY DEF H
<1> HIDE DEF ff, gg, hh
<1>4. Sum(hh, TwoTo(s)) = c * Sum(ff, TwoTo(s)) + d * Sum(gg, TwoTo(s))
  <2>1. Combines(hh, c, ff, d, gg, TwoTo(s))
    BY <1>2 DEF Combines
  <2> QED BY <1>1, <2>1, SumLinear
<1> QED BY <1>3, <1>4

Scales(h, c, f, len) == \A j \in 0..len - 1 : h[j] = c * f[j]

LEMMA HTimes ==
  ASSUME NEW s \in Nat, NEW f \in [Nat -> Int], NEW h \in [Nat -> Int], NEW c \in Int, NEW r \in Int,
         Scales(h, c, f, TwoTo(s))
  PROVE  H(s, h, r) = c * H(s, f, r)
<1>1. PICK zero \in Int : zero = 0
  OBVIOUS
<1>2. Combines(h, c, f, zero, f, TwoTo(s))
  <2>1. ASSUME NEW j \in 0..TwoTo(s) - 1 PROVE h[j] = c * f[j] + zero * f[j]
    <3>1. f[j] \in Int /\ c * f[j] \in Int
      <4>1. TwoTo(s) \in Nat
        BY TwoToDoubles
      <4> QED BY <4>1
    <3>2. h[j] = c * f[j]
      BY DEF Scales
    <3> QED BY <1>1, <3>1, <3>2
  <2> QED BY <2>1 DEF Combines
<1>3. H(s, h, r) = c * H(s, f, r) + zero * H(s, f, r)
  BY <1>2, HLinear
<1>4. H(s, f, r) \in Int
  BY TermsOf
<1> QED BY <1>1, <1>3, <1>4

LEMMA HCong ==
  ASSUME NEW q \in Nat, NEW s \in Nat, NEW f \in [Nat -> Int], NEW g \in [Nat -> Int], NEW r \in Int,
         \A j \in 0..TwoTo(s) - 1 : Cong(f[j], g[j], q)
  PROVE  Cong(H(s, f, r), H(s, g, r), q)
<1> DEFINE ff == Terms(s, f, r)
           gg == Terms(s, g, r)
<1>1. ff \in [Nat -> Int] /\ gg \in [Nat -> Int] /\ TwoTo(s) \in Nat
  BY TermsOf, TwoToDoubles
<1>2. ASSUME NEW j \in 0..TwoTo(s) - 1 PROVE Cong(ff[j], gg[j], q)
  <2>1. j \in Nat /\ Sg(j, r, s) \in Int
    BY <1>1, CommonOf
  <2>2. f[j] \in Int /\ g[j] \in Int /\ Cong(f[j], g[j], q)
    BY <2>1
  <2>3. Cong(Sg(j, r, s) * f[j], Sg(j, r, s) * g[j], q)
    BY <2>1, <2>2, CongTimes
  <2> QED BY <2>1, <2>3 DEF Terms
<1>3. H(s, f, r) = Sum(ff, TwoTo(s)) /\ H(s, g, r) = Sum(gg, TwoTo(s))
  BY DEF H
<1> HIDE DEF ff, gg
<1>4. Cong(Sum(ff, TwoTo(s)), Sum(gg, TwoTo(s)), q)
  BY <1>1, <1>2, SumCong
<1> QED BY <1>3, <1>4

\* A transform of twice as many numbers adds or subtracts those of the halves.
LEMMA HHalves ==
  ASSUME NEW s \in Nat, NEW y \in [Nat -> Int], NEW r \in 0..TwoTo(s) - 1, NEW half \in 0..1
  PROVE  H(s + 1, y, r + TwoTo(s) * half)
           = H(s, y, r) + (IF half = 1 THEN -H(s, Upper(s, y), r) ELSE H(s, Upper(s, y), r))
<1> DEFINE d == TwoTo(s)
           r2 == r + d * half
           u == Upper(s, y)
           sign == IF half = 1 THEN -1 ELSE 1
           whole == Terms(s + 1, y, r2)
           low == Terms(s, y, r)
           high == Terms(s, u, r)
           rest == [j \in Nat |-> whole[d + j]]
<1>1. d \in Nat /\ TwoTo(s + 1) = d + d /\ r \in Int /\ r2 \in Int /\ sign \in Int /\ s + 1 \in Nat
  BY TwoToDoubles
<1>2. u \in [Nat -> Int]
  BY <1>1 DEF Upper
<1>3. whole \in [Nat -> Int] /\ low \in [Nat -> Int] /\ high \in [Nat -> Int]
  <2> HIDE DEF u, r2
  <2> QED BY <1>1, <1>2, TermsOf
<1>4. rest \in [Nat -> Int]
  BY <1>1, <1>3
<1>5. \A j \in 0..d - 1 : whole[j] = low[j]
  <2> SUFFICES ASSUME NEW j \in 0..d - 1 PROVE Sg(j, r2, s + 1) = Sg(j, r, s)
    BY <1>1 DEF Terms
  <2>1. 0 \in 0..1 /\ j + d * 0 = j
    BY <1>1
  <2>2. Sg(j + d * 0, r2, s + 1) = Sg(j, r, s)
    BY <2>1, SignOfHalves
  <2> QED BY <2>1, <2>2
<1>6. \A j \in 0..d - 1 : rest[j] = sign * high[j] + 0 * high[j]
  <2> SUFFICES ASSUME NEW j \in 0..d - 1 PROVE rest[j] = sign * high[j] + 0 * high[j]
    OBVIOUS
  <2>1. j \in Nat /\ 1 \in 0..1 /\ j + d * 1 = d + j /\ d + j \in Nat
    BY <1>1
  <2>2. Sg(j + d * 1, r2, s + 1) = IF half = 1 THEN -Sg(j, r, s) ELSE Sg(j, r, s)
    BY <2>1, SignOfHalves
  <2>3. rest[j] = Sg(d + j, r2, s + 1) * y[d + j]
    BY <2>1 DEF Terms
  <2>4. high[j] = Sg(j, r, s) * y[d + j]
    BY <1>1, <2>1 DEF Upper, Terms
  <2>5. Sg(j, r, s) \in Int /\ y[d + j] \in Int
    BY <1>1, <2>1, CommonOf
  <2> HIDE DEF high, rest, r2
  <2> HIDE DEF Sg
  <2>6. rest[j] = (IF half = 1 THEN -Sg(j, r, s) ELSE Sg(j, r, s)) * y[d + j]
    BY <2>1, <2>2, <2>3
  <2>7. rest[j] = sign * (Sg(j, r, s) * y[d + j])
    BY <2>5, <2>6
  <2> QED BY <2>4, <2>5, <2>7
<1>7. H(s + 1, y, r2) = Sum(whole, d + d) /\ H(s, y, r) = Sum(low, d) /\ H(s, u, r) = Sum(high, d)
  BY <1>1 DEF H
<1>8. Sum(whole, d + d) = Sum(whole, d) + Sum(rest, d)
  <2> HIDE DEF whole, d
  <2> QED BY <1>1, <1>3, SumSplit
<1> HIDE DEF whole, low, high, rest
<1>9. Sum(whole, d) = Sum(low, d)
  BY <1>1, <1>5, SumSame
<1>10. Sum(rest, d) = sign * Sum(high, d) + 0 * Sum(high, d)
  <2>1. Combines(rest, sign, high, 0, high, d)
    BY <1>6 DEF Combines
  <2>2. 0 \in Int
    OBVIOUS
  <2> HIDE DEF sign, d
  <2> QED BY <1>1, <1>3, <1>4, <2>1, <2>2, SumLinear
<1>11. Sum(high, d) \in Int
  BY <1>1, <1>3, SumStep
<1> QED BY <1>7, <1>8, <1>9, <1>10, <1>11

-----------------------------------------------------------------------------
\* What the butterflies reach.  After s stages, the numbers in each block of
\* 2^s are the transform of the coefficients there, each times its weight.
Block(w, X, d, c) == [j \in Nat |-> w[j] * X[j + d * c]]
Fly(a, b, F, half) == IF half = 1 THEN a - b * F ELSE a + b * F
Reaches(z, s, n, w, X, q) ==
  /\ z \in [0..n - 1 -> Int]
  /\ \A c \in Nat, r \in 0..TwoTo(s) - 1 :
       r + TwoTo(s) * c < n => Cong(z[r + TwoTo(s) * c], H(s, Block(w, X, TwoTo(s), c), r), q)

Doubled(w, v, T, F, q) == \A j \in 0..T - 1 : v[j] = w[j] /\ Cong(v[j + T], w[j] * F, q)

LEMMA BlockOf ==
  ASSUME NEW w \in [Nat -> Int], NEW X \in [Nat -> Int], NEW d \in Nat, NEW c \in Nat
  PROVE  Block(w, X, d, c) \in [Nat -> Int]
<1>1. ASSUME NEW j \in Nat PROVE w[j] * X[j + d * c] \in Int
  <2>1. j + d * c \in Nat
    OBVIOUS
  <2>2. w[j] \in Int /\ X[j + d * c] \in Int
    BY <2>1
  <2> QED BY <2>2
<1> QED BY <1>1 DEF Block

\* The halves of a block are blocks of the stage before, the upper one times
\* the factor of the stage.
LEMMA HalvesOfBlock ==
  ASSUME NEW q \in Nat, NEW s \in Nat, NEW c \in Nat, NEW r \in 0..TwoTo(s) - 1, NEW half \in 0..1,
         NEW w \in [Nat -> Int], NEW v \in [Nat -> Int], NEW X \in [Nat -> Int], NEW F \in Int,
         Doubled(w, v, TwoTo(s), F, q),
         NEW a \in Int, NEW b \in Int,
         Cong(a, H(s, Block(w, X, TwoTo(s), 2 * c), r), q),
         Cong(b, H(s, Block(w, X, TwoTo(s), 2 * c + 1), r), q)
  PROVE  Cong(Fly(a, b, F, half),
              H(s + 1, Block(v, X, TwoTo(s + 1), c), r + TwoTo(s) * half), q)
<1> DEFINE d == TwoTo(s)
           whole == Block(v, X, TwoTo(s + 1), c)
           low == Block(w, X, d, 2 * c)
           high == Block(w, X, d, 2 * c + 1)
           u == Upper(s, whole)
           times == [j \in Nat |-> F * high[j]]
<1>1. d \in Nat /\ TwoTo(s + 1) = 2 * d /\ r \in Int /\ 2 * c \in Nat /\ 2 * c + 1 \in Nat /\ 2 * d \in Nat
  BY TwoToDoubles
<1>2. whole \in [Nat -> Int] /\ low \in [Nat -> Int] /\ high \in [Nat -> Int]
  BY <1>1, BlockOf
<1>3. u \in [Nat -> Int]
  <2> HIDE DEF whole
  <2> QED BY <1>1, <1>2 DEF Upper
<1>4. times \in [Nat -> Int]
  <2> HIDE DEF high
  <2>1. \A j \in Nat : F * high[j] \in Int
    BY <1>2
  <2> QED BY <2>1
<1>5. \A j \in 0..d - 1 : Cong(whole[j], low[j], q)
  <2> SUFFICES ASSUME NEW j \in 0..d - 1 PROVE Cong(whole[j], low[j], q)
    OBVIOUS
  <2>1. j \in Nat /\ j + (2 * d) * c = j + d * (2 * c)
    BY <1>1
  <2>2. whole[j] = v[j] * X[j + (2 * d) * c] /\ low[j] = w[j] * X[j + d * (2 * c)]
    BY <1>1, <2>1 DEF Block
  <2>3. whole[j] = low[j] /\ low[j] \in Int
    <3>1. v[j] = w[j]
      BY DEF Doubled
    <3> HIDE DEF whole, low
    <3> QED BY <1>2, <2>1, <2>2, <3>1
  <2> QED BY <2>3, CongRefl
<1>6. \A j \in 0..d - 1 : Cong(u[j], times[j], q)
  <2> SUFFICES ASSUME NEW j \in 0..d - 1 PROVE Cong(u[j], times[j], q)
    OBVIOUS
  <2>1. j \in Nat /\ j + d \in Nat /\ (j + d) + (2 * d) * c = j + d * (2 * c + 1) /\ j + d * (2 * c + 1) \in Nat
    BY <1>1
  <2>2. u[j] = v[j + d] * X[(j + d) + (2 * d) * c]
    BY <1>1, <2>1 DEF Block, Upper
  <2>3. times[j] = F * (w[j] * X[j + d * (2 * c + 1)])
    BY <1>1, <2>1 DEF Block
  <2> DEFINE x == X[j + d * (2 * c + 1)]
  <2>4. v[j + d] \in Int /\ w[j] \in Int /\ x \in Int /\ w[j] * F \in Int
    BY <2>1
  <2>5. u[j] = v[j + d] * x /\ times[j] = (w[j] * F) * x
    <3>1. F * (w[j] * x) = (w[j] * F) * x
      BY <2>4
    <3> QED BY <2>1, <2>2, <2>3, <3>1
  <2> HIDE DEF x, u, times
  <2>6. Cong(v[j + d], w[j] * F, q)
    BY DEF Doubled
  <2> QED BY <2>4, <2>5, <2>6, CongTimes
<1> DEFINE hl == H(s, low, r)
           hh == H(s, high, r)
           hw == H(s, whole, r)
           hu == H(s, u, r)
           ht == H(s, times, r)
<1>7. hl \in Int /\ hh \in Int /\ hw \in Int /\ hu \in Int /\ ht \in Int
  <2> HIDE DEF low, high, whole, u, times
  <2> QED BY <1>1, <1>2, <1>3, <1>4, TermsOf
<1>8. Cong(hw, hl, q) /\ Cong(hu, ht, q)
  <2> HIDE DEF low, whole, u, times
  <2> QED BY <1>1, <1>2, <1>3, <1>4, <1>5, <1>6, HCong
<1>9. ht = F * hh
  <2>1. Scales(times, F, high, TwoTo(s))
    BY <1>1 DEF Scales
  <2> HIDE DEF high, times, low, whole, u
  <2> QED BY <1>1, <1>2, <1>4, <2>1, HTimes
<1>10. H(s + 1, whole, r + d * half) = hw + (IF half = 1 THEN -hu ELSE hu)
  <2> HIDE DEF whole
  <2> QED BY <1>2, HHalves
<1>11. Cong(a, hl, q) /\ Cong(b, hh, q)
  OBVIOUS
<1> HIDE DEF hl, hh, hw, hu, ht
<1>12. Cong(a, hw, q)
  BY <1>7, <1>8, <1>11, CongSymmetric, CongTransitive
<1>13. Cong(b * F, hu, q)
  <2>1. Cong(b * F, hh * F, q)
    BY <1>7, <1>11, CongTimes
  <2>2. hh * F = ht /\ b * F \in Int
    BY <1>7, <1>9
  <2> QED BY <1>7, <1>8, <2>1, <2>2, CongSymmetric, CongTransitive
<1>14. Cong(a + b * F, hw + hu, q) /\ Cong(a - b * F, hw - hu, q)
  <2>1. b * F \in Int
    OBVIOUS
  <2> QED BY <1>7, <1>12, <1>13, <2>1, CongSum
<1>15. hw + (-hu) = hw - hu
  BY <1>7
<1>16. CASE half = 1
  BY <1>10, <1>14, <1>15, <1>16 DEF Fly
<1>17. CASE half # 1
  BY <1>10, <1>14, <1>17 DEF Fly
<1> QED BY <1>16, <1>17

\* The indices of a butterfly.
LEMMA BlocksBelow ==
  ASSUME NEW T \in Nat, T > 0, NEW d \in Nat, NEW c \in Nat, NEW k \in Nat, k < T * d, T * c <= k
  PROVE  T * c + T <= T * d
<1>1. T * c \in Int /\ T * d \in Int
  OBVIOUS
<1>2. c < d
  <2> SUFFICES ASSUME d <= c PROVE FALSE
    OBVIOUS
  <2>1. c - d \in Nat /\ T * (c - d) = T * c - T * d
    OBVIOUS
  <2>2. T * (c - d) \in Nat
    BY <2>1
  <2> QED BY <1>1, <2>1, <2>2
<1>3. d - (c + 1) \in Nat /\ T * (d - (c + 1)) = T * d - (T * c + T)
  BY <1>2
<1>4. T * (d - (c + 1)) \in Nat
  BY <1>3
<1> QED BY <1>1, <1>3, <1>4

Place(k, T, c, r, half) == k = (r + T * half) + (2 * T) * c
Fits(n, T, d) == n = (2 * T) * d
Spread(lower, upper, k, T, n, c, r, half) ==
  /\ lower = r + T * (2 * c) /\ upper = r + T * (2 * c + 1)
  /\ lower \in 0..n - 1 /\ upper \in 0..n - 1 /\ upper = lower + T
  /\ k = IF half = 1 THEN upper ELSE lower
  /\ (k \div T) % 2 = half

LEMMA ButterflyIndices ==
  ASSUME NEW T \in Nat, T > 0, NEW d \in Nat, NEW c \in Nat, NEW r \in 0..T - 1, NEW half \in 0..1,
         NEW n \in Nat, Fits(n, T, d), NEW k \in 0..n - 1, Place(k, T, c, r, half)
  PROVE  \E lower, upper : Spread(lower, upper, k, T, n, c, r, half)
<1>. k = (r + T * half) + (2 * T) * c /\ k < (2 * T) * d /\ n = (2 * T) * d /\ k \in Nat
  BY DEF Place, Fits
<1> DEFINE P == (2 * T) * c
           S == T * half
<1>1. P \in Nat /\ T * (2 * c) = P /\ T * (2 * c + 1) = P + T /\ T * (2 * c + half) = P + S /\ S \in Nat
  OBVIOUS
<1>2. S = IF half = 1 THEN T ELSE 0
  OBVIOUS
<1>3. k = (r + S) + P /\ r \in Nat /\ r < T
  OBVIOUS
<1>4. (2 * T) * c + 2 * T <= (2 * T) * d
  <2>1. 2 * T \in Nat /\ 2 * T > 0
    OBVIOUS
  <2>2. (2 * T) * c <= k
    <3> HIDE DEF S
    <3> QED BY <1>1, <1>3
  <2> QED BY <2>1, <2>2, BlocksBelow
<1>5. k \div T = 2 * c + half
  <2>1. k = r + T * (2 * c + half)
    <3> HIDE DEF S, P
    <3> QED BY <1>1, <1>3
  <2>2. 2 * c + half \in Int
    OBVIOUS
  <2>3. (r + T * (2 * c + half)) \div T = 2 * c + half
    BY <2>2, QuotientUnique
  <2> QED BY <2>1, <2>3
<1>6. (k \div T) % 2 = half
  BY <1>5
<1> HIDE DEF P, S
<1>7. k = (r + P) + (IF half = 1 THEN T ELSE 0)
  BY <1>1, <1>2, <1>3
<1>8. P + 2 * T <= n
  BY <1>4 DEF P
<1>9. Spread(r + P, (r + P) + T, k, T, n, c, r, half)
  <2>1. (r + P) + T = r + (P + T)
    BY <1>1, <1>3
  <2>2. r + P = r + T * (2 * c) /\ (r + P) + T = r + T * (2 * c + 1)
    BY <1>1, <2>1
  <2>3. r + P \in 0..n - 1 /\ (r + P) + T \in 0..n - 1
    BY <1>1, <1>3, <1>8
  <2>4. k = IF half = 1 THEN (r + P) + T ELSE r + P
    BY <1>1, <1>3, <1>7
  <2> QED BY <1>6, <2>2, <2>3, <2>4 DEF Spread
<1> QED BY <1>9

\* What one butterfly answers.
LEMMA FlyValue ==
  ASSUME NEW q \in Nat, q > 0, NEW a \in Int, NEW b \in Int, NEW F \in Int, NEW half, NEW value,
         value = IF half = 1 THEN (a - ((b * F) % q)) % q ELSE (a + ((b * F) % q)) % q
  PROVE  value \in 0..q - 1 /\ Fly(a, b, F, half) \in Int /\ Cong(value, Fly(a, b, F, half), q)
<1> DEFINE m == (b * F) % q
<1>1. b * F \in Int
  OBVIOUS
<1>2. m \in Int /\ Cong(m, b * F, q)
  BY <1>1, CongMod
<1> HIDE DEF m
<1>3. Cong(a - m, a - b * F, q) /\ Cong(a + m, a + b * F, q)
  BY <1>1, <1>2, CongRefl, CongSum
<1>4. a - m \in Int /\ a + m \in Int /\ a - b * F \in Int /\ a + b * F \in Int
  BY <1>1, <1>2
<1> \A x \in Int : x % q \in 0..q - 1 /\ x % q \in Int /\ Cong(x % q, x, q)
  BY CongMod
<1>5. (a - m) % q \in 0..q - 1 /\ (a - m) % q \in Int /\ Cong((a - m) % q, a - m, q)
  BY <1>4
<1>6. (a + m) % q \in 0..q - 1 /\ (a + m) % q \in Int /\ Cong((a + m) % q, a + m, q)
  BY <1>4
<1>7. Cong((a - m) % q, a - b * F, q)
  BY <1>3, <1>4, <1>5, CongTransitive
<1>8. Cong((a + m) % q, a + b * F, q)
  BY <1>3, <1>4, <1>6, CongTransitive
<1>9. CASE half = 1
  BY <1>4, <1>5, <1>7, <1>9 DEF m, Fly
<1>10. CASE half # 1
  BY <1>4, <1>6, <1>8, <1>10 DEF m, Fly
<1> QED BY <1>9, <1>10

LEMMA OneButterfly ==
  ASSUME NEW q \in Nat, q > 0, NEW T \in Nat, T > 0, NEW n \in Nat,
         NEW z \in [0..n - 1 -> Int], NEW F \in Int,
         NEW c, NEW r, NEW half \in 0..1, NEW k, NEW lower, NEW upper,
         Spread(lower, upper, k, T, n, c, r, half)
  PROVE  /\ Butterflies(z, T, F, q)[k] \in 0..q - 1
         /\ Fly(z[lower], z[upper], F, half) \in Int
         /\ Cong(Butterflies(z, T, F, q)[k], Fly(z[lower], z[upper], F, half), q)
<1>1. z[lower] \in Int /\ z[upper] \in Int /\ k \in DOMAIN z
  BY DEF Spread
<1> DEFINE a == z[lower]
           b == z[upper]
<1>2. Butterflies(z, T, F, q)[k] = IF half = 1 THEN (a - ((b * F) % q)) % q ELSE (a + ((b * F) % q)) % q
  <2>1. CASE half = 1
    <3>1. k = upper /\ k - T = lower /\ (k \div T) % 2 = 1
      BY <2>1 DEF Spread
    <3> QED BY <1>1, <2>1, <3>1, SMTT(30) DEF Butterflies
  <2>2. CASE half = 0
    <3>1. k = lower /\ k + T = upper /\ (k \div T) % 2 = 0
      BY <2>2 DEF Spread
    <3>2. Butterflies(z, T, F, q)[k] = (z[k] + ((z[k + T] * F) % q)) % q
      BY <1>1, <3>1 DEF Butterflies
    <3> QED BY <2>2, <3>1, <3>2
  <2> QED BY <2>1, <2>2
<1> QED BY <1>1, <1>2, FlyValue

LEMMA ButterfliesReach ==
  ASSUME NEW q \in Nat, q > 0, NEW s \in Nat, NEW n \in Nat, NEW d \in Nat, Fits(n, TwoTo(s), d),
         NEW w \in [Nat -> Int], NEW v \in [Nat -> Int], NEW X \in [Nat -> Int], NEW F \in Int,
         NEW z, Reaches(z, s, n, w, X, q),
         Doubled(w, v, TwoTo(s), F, q)
  PROVE  /\ Butterflies(z, TwoTo(s), F, q) \in [0..n - 1 -> 0..q - 1]
         /\ Reaches(Butterflies(z, TwoTo(s), F, q), s + 1, n, v, X, q)
<1> DEFINE T == TwoTo(s)
           z2 == Butterflies(z, T, F, q)
<1>1. T \in Nat /\ T > 0 /\ TwoTo(s + 1) = 2 * T
  BY TwoToDoubles
<1>2. z \in [0..n - 1 -> Int] /\ Fits(n, T, d)
  BY DEF Reaches
<1>3. ASSUME NEW k \in 0..n - 1 PROVE z2[k] \in 0..q - 1
  <2> DEFINE c == k \div (2 * T)
             r2 == k % (2 * T)
             half == IF r2 < T THEN 0 ELSE 1
             r == r2 - T * half
  <2>1. 2 * T \in Nat /\ 2 * T > 0
    BY <1>1
  <2>2. c \in Nat /\ r2 \in 0..2 * T - 1 /\ k = r2 + (2 * T) * c
    <3>1. PICK e \in Nat : e = 2 * T /\ e > 0
      BY <2>1
    <3>2. k \div e \in Nat /\ k % e \in 0..e - 1 /\ k = (k % e) + e * (k \div e)
      BY <3>1, Division
    <3> QED BY <3>1, <3>2
  <2> HIDE DEF c, r2
  <2>3. half \in 0..1 /\ r \in 0..T - 1 /\ r + T * half = r2
    BY <1>1, <2>2
  <2> HIDE DEF half, r
  <2>4. Place(k, T, c, r, half)
    BY <1>1, <2>2, <2>3 DEF Place
  <2>5. PICK lower, upper : Spread(lower, upper, k, T, n, c, r, half)
    BY <1>1, <1>2, <2>2, <2>3, <2>4, ButterflyIndices
  <2> QED BY <1>1, <1>2, <2>3, <2>5, OneButterfly
<1>4. z2 \in [0..n - 1 -> 0..q - 1]
  <2>1. DOMAIN z2 = 0..n - 1 /\ z2 = [k \in DOMAIN z2 |-> z2[k]]
    BY <1>2 DEF Butterflies
  <2> HIDE DEF z2
  <2> QED BY <1>3, <2>1
<1>5. ASSUME NEW c \in Nat, NEW r2 \in 0..TwoTo(s + 1) - 1, r2 + TwoTo(s + 1) * c < n
      PROVE  Cong(z2[r2 + TwoTo(s + 1) * c], H(s + 1, Block(v, X, TwoTo(s + 1), c), r2), q)
  <2> DEFINE half == IF r2 < T THEN 0 ELSE 1
             r == r2 - T * half
             k == r2 + TwoTo(s + 1) * c
  <2>1. half \in 0..1 /\ r \in 0..T - 1 /\ r + T * half = r2
    BY <1>1
  <2> HIDE DEF half, r
  <2>2. k \in 0..n - 1 /\ Place(k, T, c, r, half)
    <3>1. TwoTo(s + 1) * c \in Nat
      BY <1>1
    <3> QED BY <1>1, <1>5, <2>1, <3>1 DEF Place
  <2> HIDE DEF k
  <2>3. PICK lower, upper : Spread(lower, upper, k, T, n, c, r, half)
    BY <1>1, <1>2, <2>1, <2>2, ButterflyIndices
  <2> DEFINE a == z[lower]
             b == z[upper]
  <2>4. a \in Int /\ b \in Int /\ Fly(a, b, F, half) \in Int /\ Cong(z2[k], Fly(a, b, F, half), q)
    <3>1. a \in Int /\ b \in Int
      BY <1>2, <2>3 DEF Spread
    <3> QED BY <1>1, <1>2, <2>1, <2>3, <3>1, OneButterfly
  <2>5. Cong(a, H(s, Block(w, X, T, 2 * c), r), q) /\ Cong(b, H(s, Block(w, X, T, 2 * c + 1), r), q)
    <3>1. 2 * c \in Nat /\ 2 * c + 1 \in Nat
      OBVIOUS
    <3>2. lower = r + T * (2 * c) /\ lower < n /\ upper = r + T * (2 * c + 1) /\ upper < n
      BY <2>3 DEF Spread
    <3> QED BY <2>1, <3>1, <3>2 DEF Reaches
  <2> HIDE DEF a, b
  <2>6. Cong(Fly(a, b, F, half), H(s + 1, Block(v, X, TwoTo(s + 1), c), r + T * half), q)
    BY <2>1, <2>4, <2>5, HalvesOfBlock
  <2>7. H(s + 1, Block(v, X, TwoTo(s + 1), c), r2) \in Int
    <3>1. TwoTo(s + 1) \in Nat /\ s + 1 \in Nat /\ r2 \in Int
      BY <1>1
    <3>2. Block(v, X, TwoTo(s + 1), c) \in [Nat -> Int]
      BY <3>1, BlockOf
    <3> QED BY <3>1, <3>2, TermsOf
  <2> HIDE DEF z2
  <2>8. z2[k] \in Int
    <3>1. z2[k] \in 0..q - 1
      BY <1>4, <2>2
    <3> QED BY <3>1
  <2> QED BY <2>1, <2>4, <2>6, <2>7, <2>8, CongTransitive DEF k
<1>6. z2 \in [0..n - 1 -> Int]
  <2> HIDE DEF z2
  <2> QED BY <1>4
<1> QED BY <1>4, <1>5, <1>6 DEF Reaches

-----------------------------------------------------------------------------
\* Weights: a power of omega for the bits of an index, in reverse order.
RevTerms(j, m) == [t \in Nat |-> IF t < m THEN Bit(j, t) * TwoTo(m - (1 + t)) ELSE 0]
Rev(j, s, m) == Sum(RevTerms(j, m), s)
Weights(omega, s, m, q) == [j \in Nat |-> Power(omega, Rev(j, s, m), q)]

LEMMA SumNat ==
  ASSUME NEW f \in [Nat -> Nat]
  PROVE  \A n \in Nat : Sum(f, n) \in Nat
<1> DEFINE S == {n \in Nat : Sum(f, n) \in Nat}
<1>1. f \in [Nat -> Int]
  OBVIOUS
<1>2. 0 \in S
  BY <1>1, SumStep
<1>3. ASSUME NEW n \in Nat, n \in S PROVE n + 1 \in S
  BY <1>1, <1>3, SumStep
<1>4. \A n \in Nat : n \in S
  <2> HIDE DEF S
  <2> QED BY <1>2, <1>3, SetInduction
<1> QED BY <1>4

LEMMA RevOf ==
  ASSUME NEW j \in Int, NEW m \in Nat
  PROVE  RevTerms(j, m) \in [Nat -> Nat] /\ \A s \in Nat : Rev(j, s, m) \in Nat
<1>1. ASSUME NEW t \in Nat PROVE (IF t < m THEN Bit(j, t) * TwoTo(m - (1 + t)) ELSE 0) \in Nat
  <2> SUFFICES ASSUME t < m PROVE Bit(j, t) * TwoTo(m - (1 + t)) \in Nat
    OBVIOUS
  <2>1. m - (1 + t) \in Nat
    OBVIOUS
  <2>2. TwoTo(m - (1 + t)) \in Nat
    BY <2>1, TwoToDoubles
  <2>3. Bit(j, t) \in 0..1
    BY BitOf
  <2> QED BY <2>2, <2>3
<1>2. RevTerms(j, m) \in [Nat -> Nat]
  BY <1>1 DEF RevTerms
<1> QED BY <1>2, SumNat DEF Rev

LEMMA RevZero ==
  ASSUME NEW j \in Int, NEW m \in Nat
  PROVE  Rev(j, 0, m) = 0
<1>1. RevTerms(j, m) \in [Nat -> Nat]
  BY RevOf
<1>2. RevTerms(j, m) \in [Nat -> Int]
  BY <1>1
<1> QED BY <1>2, SumStep DEF Rev

LEMMA RevOfHalves ==
  ASSUME NEW m \in Nat, NEW s \in 0..m - 1, NEW j \in 0..TwoTo(s) - 1, NEW half \in 0..1
  PROVE  Rev(j + TwoTo(s) * half, s + 1, m) = Rev(j, s, m) + half * TwoTo(m - (1 + s))
<1> DEFINE i2 == j + TwoTo(s) * half
           f == RevTerms(j, m)
           g == RevTerms(i2, m)
<1>1. j \in Int /\ i2 \in Int /\ s \in Nat
  <2>1. s \in Nat /\ TwoTo(s) \in Nat
    BY TwoToDoubles
  <2> QED BY <2>1
<1>2. \A t \in 0..s - 1 : Bit(i2, t) = Bit(j, t)
  BY <1>1, BitsOfHalves
<1>3. Bit(i2, s) = half
  BY <1>1, BitsOfHalves
<1> HIDE DEF i2
<1>4. g \in [Nat -> Int]
  <2>1. g \in [Nat -> Nat]
    BY <1>1, RevOf
  <2> HIDE DEF g
  <2> QED BY <2>1
<1>5. \A t \in 0..s - 1 : f[t] = g[t]
  BY <1>1, <1>2 DEF RevTerms
<1>6. g[s] = half * TwoTo(m - (1 + s))
  BY <1>1, <1>3 DEF RevTerms
<1>7. Rev(j, s, m) = Sum(f, s) /\ Rev(i2, s + 1, m) = Sum(g, s + 1)
  BY DEF Rev
<1> HIDE DEF f, g
<1>8. Sum(f, s) = Sum(g, s)
  BY <1>1, <1>5, SumSame
<1>9. Sum(g, s + 1) = Sum(g, s) + g[s]
  BY <1>1, <1>4, SumStep
<1> QED BY <1>6, <1>7, <1>8, <1>9 DEF i2

LEMMA WeightsOf ==
  ASSUME NEW q \in Nat, q > 0, NEW omega \in Int, NEW m \in Nat, NEW s \in Nat
  PROVE  Weights(omega, s, m, q) \in [Nat -> Int]
<1>1. ASSUME NEW j \in Nat PROVE Power(omega, Rev(j, s, m), q) \in Int
  <2>1. Rev(j, s, m) \in Nat
    BY RevOf
  <2>2. Power(omega, Rev(j, s, m), q) \in 0..q - 1
    BY <2>1, PowerStep
  <2> QED BY <2>2
<1> QED BY <1>1 DEF Weights

\* A stage multiplies the weights of the upper half.
LEMMA WeightsOfHalves ==
  ASSUME NEW q \in Nat, q > 0, NEW omega \in Int, NEW m \in Nat, NEW s \in 0..m - 1
  PROVE  Doubled(Weights(omega, s, m, q), Weights(omega, s + 1, m, q), TwoTo(s),
                 Power(omega, TwoTo(m - (1 + s)), q), q)
<1> SUFFICES ASSUME NEW j \in 0..TwoTo(s) - 1
             PROVE  /\ Weights(omega, s + 1, m, q)[j] = Weights(omega, s, m, q)[j]
                    /\ Cong(Weights(omega, s + 1, m, q)[j + TwoTo(s)],
                            Weights(omega, s, m, q)[j] * Power(omega, TwoTo(m - (1 + s)), q), q)
  BY DEF Doubled
<1> DEFINE e == TwoTo(m - (1 + s))
<1>1. s \in Nat /\ TwoTo(s) \in Nat /\ j \in Nat /\ j \in Int /\ e \in Nat /\ j + TwoTo(s) \in Nat
  <2>1. s \in Nat /\ m - (1 + s) \in Nat
    OBVIOUS
  <2>2. TwoTo(s) \in Nat /\ e \in Nat
    BY <2>1, TwoToDoubles
  <2> QED BY <2>1, <2>2
<1>2. Rev(j, s + 1, m) = Rev(j, s, m)
  <2>1. 0 \in 0..1 /\ j + TwoTo(s) * 0 = j /\ 0 * e = 0
    BY <1>1
  <2>2. Rev(j + TwoTo(s) * 0, s + 1, m) = Rev(j, s, m) + 0 * e
    BY <2>1, RevOfHalves
  <2>3. Rev(j, s, m) \in Nat
    BY <1>1, RevOf
  <2> HIDE DEF e
  <2> QED BY <2>1, <2>2, <2>3
<1>3. Rev(j + TwoTo(s), s + 1, m) = Rev(j, s, m) + e
  <2>1. 1 \in 0..1 /\ j + TwoTo(s) * 1 = j + TwoTo(s) /\ 1 * e = e
    BY <1>1
  <2>2. Rev(j + TwoTo(s) * 1, s + 1, m) = Rev(j, s, m) + 1 * e
    BY <2>1, RevOfHalves
  <2> HIDE DEF e
  <2> QED BY <2>1, <2>2
<1>4. Cong(Power(omega, Rev(j, s, m) + e, q), Power(omega, Rev(j, s, m), q) * Power(omega, e, q), q)
  <2>1. Rev(j, s, m) \in Nat
    BY <1>1, RevOf
  <2> HIDE DEF e
  <2> QED BY <1>1, <2>1, PowerStep
<1> HIDE DEF e
<1> QED BY <1>1, <1>2, <1>3, <1>4 DEF Weights, e

-----------------------------------------------------------------------------
\* The stages of a call.
StagesFrom(staged, m, x, q, n, invert) ==
  staged = [s \in 0..m |-> IF s = 0 THEN x
                          ELSE Butterflies(staged[s - 1], TwoTo(s - 1), Factor(q, n, invert, s - 1), q)]

LEMMA StagesExist ==
  ASSUME NEW x, NEW q, NEW n, NEW invert, NEW m \in Nat
  PROVE  \E staged : StagesFrom(staged, m, x, q, n, invert)
<1> DEFINE With == {j \in Nat : \E f : StagesFrom(f, j, x, q, n, invert)}
           Next(z, s) == Butterflies(z, TwoTo(s), Factor(q, n, invert, s), q)
<1>1. 0 \in With
  <2>1. StagesFrom([s \in 0..0 |-> x], 0, x, q, n, invert)
    BY DEF StagesFrom
  <2> QED BY <2>1
<1>2. ASSUME NEW j \in Nat, j \in With PROVE j + 1 \in With
  <2>1. PICK f : StagesFrom(f, j, x, q, n, invert)
    BY <1>2
  <2> DEFINE g == [s \in 0..j + 1 |-> IF s = j + 1 THEN Next(f[j], j) ELSE f[s]]
  <2> HIDE DEF Next
  <2>2. ASSUME NEW s \in 0..j + 1
        PROVE  g[s] = IF s = 0 THEN x ELSE Next(g[s - 1], s - 1)
    <3>1. CASE s = j + 1
      <4>1. g[s] = Next(f[j], j) /\ g[j] = f[j] /\ s - 1 = j /\ s # 0
        BY <3>1
      <4> HIDE DEF g
      <4> QED BY <4>1
    <3>2. CASE s # j + 1
      <4>1. s \in 0..j /\ g[s] = f[s] /\ (s # 0 => g[s - 1] = f[s - 1])
        BY <3>2
      <4>2. f[s] = IF s = 0 THEN x ELSE Next(f[s - 1], s - 1)
        BY <2>1, <4>1 DEF StagesFrom, Next
      <4> HIDE DEF g
      <4> QED BY <4>1, <4>2
    <3> QED BY <3>1, <3>2
  <2>3. StagesFrom(g, j + 1, x, q, n, invert)
    BY <2>2 DEF StagesFrom, Next
  <2> HIDE DEF g
  <2> QED BY <2>3
<1>3. \A j \in Nat : j \in With
  <2> HIDE DEF With
  <2> QED BY <1>1, <1>2, SetInduction
<1> QED BY <1>3

\* What a polynomial is extended by.
Extended(x, n) == [j \in Nat |-> IF j < n THEN x[j] ELSE 0]

LEMMA ExtendedOf ==
  ASSUME NEW n \in Nat, NEW x \in [0..n - 1 -> Int]
  PROVE  Extended(x, n) \in [Nat -> Int] /\ \A j \in 0..n - 1 : Extended(x, n)[j] = x[j]
<1>1. \A j \in Nat : j < n => j \in 0..n - 1
  OBVIOUS
<1> QED BY <1>1 DEF Extended

LEMMA NoStageReaches ==
  ASSUME NEW q \in Nat, q > 1, NEW n \in Nat, NEW x \in [0..n - 1 -> Int], NEW omega \in Int, NEW m \in Nat
  PROVE  Reaches(x, 0, n, Weights(omega, 0, m, q), Extended(x, n), q)
<1> DEFINE w == Weights(omega, 0, m, q)
           X == Extended(x, n)
<1>1. w \in [Nat -> Int] /\ X \in [Nat -> Int] /\ TwoTo(0) = 1 /\ q > 0
  <2>1. PICK zero \in Nat : zero = 0
    OBVIOUS
  <2>2. q > 0 /\ Weights(omega, zero, m, q) \in [Nat -> Int]
    BY WeightsOf
  <2>3. X \in [Nat -> Int] /\ TwoTo(0) = 1
    BY ExtendedOf, TwoToDoubles
  <2> QED BY <2>1, <2>2, <2>3
<1>2. w[0] = 1
  <2>1. Rev(0, 0, m) = 0
    <3>1. PICK zero \in Int : zero = 0
      OBVIOUS
    <3>2. Rev(zero, 0, m) = 0
      BY RevZero
    <3> QED BY <3>1, <3>2
  <2>2. Power(omega, 0, q) = 1 % q
    BY <1>1, PowerStep
  <2>3. 1 % q = 1
    OBVIOUS
  <2> QED BY <2>1, <2>2, <2>3 DEF Weights
<1>3. ASSUME NEW c \in Nat, NEW r \in 0..TwoTo(0) - 1, r + TwoTo(0) * c < n
      PROVE  Cong(x[r + TwoTo(0) * c], H(0, Block(w, X, TwoTo(0), c), r), q)
  <2>1. r = 0 /\ r + TwoTo(0) * c = c /\ c \in 0..n - 1
    <3>1. TwoTo(0) = 1
      BY <1>1
    <3>2. r = 0
      BY <3>1
    <3>3. r + TwoTo(0) * c = c
      BY <3>1, <3>2
    <3> QED BY <1>3, <3>2, <3>3
  <2> DEFINE y == Block(w, X, 1, c)
  <2>2. y \in [Nat -> Int]
    <3>1. 1 \in Nat
      OBVIOUS
    <3> HIDE DEF w, X
    <3> QED BY <1>1, <3>1, BlockOf
  <2>3. y[0] = X[c]
    <3>1. y[0] = w[0] * X[0 + 1 * c]
      BY DEF Block
    <3>2. X[c] \in Int /\ 0 + 1 * c = c
      BY <1>1
    <3> HIDE DEF y, w, X
    <3> QED BY <1>2, <3>1, <3>2
  <2>4. H(0, y, 0) = x[c] /\ x[c] \in Int
    <3> HIDE DEF y
    <3> QED BY <2>1, <2>2, <2>3, HZero, ExtendedOf
  <2>5. Cong(x[c], H(0, y, 0), q)
    BY <2>4, CongRefl
  <2> QED BY <1>1, <2>1, <2>5
<1> QED BY <1>3 DEF Reaches

\* After all stages, what the butterflies answer is congruent to the
\* transform of the weighted coefficients.
LEMMA TransformedReaches ==
  ASSUME NEW q \in Nat, q > 1, NEW n \in Nat, NEW x \in [0..n - 1 -> Int], Length(x) = n,
         NEW m \in Nat, Stages(n) = m, TwoTo(m) = n, NEW invert, Omega(q, n, invert) \in Int
  PROVE  /\ Reaches(Transformed(x, q, invert), m, n, Weights(Omega(q, n, invert), m, m, q), Extended(x, n), q)
         /\ m > 0 => Transformed(x, q, invert) \in [0..n - 1 -> 0..q - 1]
<1> DEFINE omega == Omega(q, n, invert)
           X == Extended(x, n)
           staged == CHOOSE staged : StagesFrom(staged, m, x, q, n, invert)
           w(s) == Weights(omega, s, m, q)
           S == {s \in Nat : s <= m => /\ Reaches(staged[s], s, n, w(s), X, q)
                                       /\ s > 0 => staged[s] \in [0..n - 1 -> 0..q - 1]}
<1>1. Transformed(x, q, invert) = staged[m]
  BY DEF Transformed, StagesFrom
<1>2. StagesFrom(staged, m, x, q, n, invert)
  BY StagesExist
<1> HIDE DEF staged, omega
<1>3. omega \in Int /\ q > 0
  BY DEF omega
<1>4. X \in [Nat -> Int] /\ \A s \in Nat : w(s) \in [Nat -> Int]
  BY <1>3, WeightsOf, ExtendedOf
<1>5. 0 \in S
  <2>1. staged[0] = x
    BY <1>2 DEF StagesFrom
  <2>2. Reaches(x, 0, n, w(0), X, q)
    BY <1>3, NoStageReaches
  <2> HIDE DEF X, w
  <2> QED BY <2>1, <2>2
<1> HIDE DEF X
<1>6. ASSUME NEW s \in Nat, s \in S PROVE s + 1 \in S
  <2> SUFFICES ASSUME s + 1 <= m
               PROVE  /\ Reaches(staged[s + 1], s + 1, n, w(s + 1), X, q)
                      /\ staged[s + 1] \in [0..n - 1 -> 0..q - 1]
    OBVIOUS
  <2> DEFINE F == Factor(q, n, invert, s)
             d == TwoTo(m - (1 + s))
  <2>1. s \in 0..m - 1 /\ m - (1 + s) \in Nat /\ s + 1 \in Nat /\ (s + 1) + (m - (1 + s)) = m
    OBVIOUS
  <2>2. d \in Nat /\ n = TwoTo(s + 1) * d /\ TwoTo(s + 1) \in Nat /\ TwoTo(s + 1) > 0
    <3>1. PICK a \in Nat, b \in Nat : a = s + 1 /\ b = m - (1 + s)
      BY <2>1
    <3>2. TwoTo(a + b) = TwoTo(a) * TwoTo(b) /\ TwoTo(b) \in Nat /\ TwoTo(a) \in Nat /\ TwoTo(a) > 0
      BY <3>1, TwoToAdds, TwoToDoubles
    <3>3. a + b = m
      BY <3>1
    <3> QED BY <3>1, <3>2, <3>3
  <2>3. staged[s + 1] = Butterflies(staged[s], TwoTo(s), F, q)
    <3>1. s + 1 \in 0..m /\ s + 1 # 0 /\ (s + 1) - 1 = s
      BY <2>1
    <3> QED BY <1>2, <3>1 DEF StagesFrom
  <2>4. F = Power(omega, d, q)
    <3>1. TwoTo(s + 1) = 2 * TwoTo(s)
      BY TwoToDoubles
    <3>2. n \div (2 * TwoTo(s)) = d
      <4> DEFINE T == 2 * TwoTo(s)
      <4>1. T \in Nat /\ T > 0 /\ 0 \in 0..T - 1 /\ d \in Int
        BY <2>2, <3>1, SMTT(30)
      <4>2. n = 0 + T * d
        BY <2>2, <3>1, <4>1
      <4> HIDE DEF T, d
      <4>3. (0 + T * d) \div T = d
        BY <4>1, QuotientUnique
      <4> QED BY <4>2, <4>3 DEF T
    <3> QED BY <3>2 DEF Factor, omega
  <2>5. F \in Int
    <3>1. Power(omega, d, q) \in 0..q - 1
      BY <1>3, <2>2, PowerStep
    <3> QED BY <2>4, <3>1
  <2>6. Reaches(staged[s], s, n, w(s), X, q)
    BY <1>6
  <2>7. Doubled(w(s), w(s + 1), TwoTo(s), F, q)
    BY <1>3, <2>1, <2>4, WeightsOfHalves
  <2>8. Fits(n, TwoTo(s), d)
    <3>1. TwoTo(s + 1) = 2 * TwoTo(s)
      BY TwoToDoubles
    <3> QED BY <2>2, <3>1 DEF Fits
  <2> DEFINE u == w(s)
             v == w(s + 1)
             z == staged[s]
  <2>9. Reaches(z, s, n, u, X, q) /\ Doubled(u, v, TwoTo(s), F, q)
    BY <2>6, <2>7
  <2>10. u \in [Nat -> Int] /\ v \in [Nat -> Int]
    BY <1>4, <2>1
  <2> HIDE DEF F, d, u, v, z
  <2>11. /\ Butterflies(z, TwoTo(s), F, q) \in [0..n - 1 -> 0..q - 1]
         /\ Reaches(Butterflies(z, TwoTo(s), F, q), s + 1, n, v, X, q)
    BY <1>3, <1>4, <2>2, <2>5, <2>8, <2>9, <2>10, ButterfliesReach
  <2> QED BY <2>3, <2>11 DEF z, v
<1>7. m \in S
  <2> HIDE DEF S
  <2> QED BY <1>5, <1>6, SetInduction
<1> QED BY <1>1, <1>7 DEF omega, X

-----------------------------------------------------------------------------
\* The reference sums over the same terms.
LEMMA SignOf ==
  ASSUME NEW n \in Nat, NEW m \in Nat, Stages(n) = m, NEW j, NEW k
  PROVE  Sign(j, k, n) = Sg(j, k, m)
<1> DEFINE f == [s \in 0..m - 1 |-> Bit(j, s) * Bit(k, s)]
           g == [t \in Nat |-> Bit(j, t) * Bit(k, t)]
<1>1. \A t \in 0..m - 1 : f[t] = g[t]
  OBVIOUS
<1>2. Sum(f, m) = Sum(g, m)
  <2> HIDE DEF f, g
  <2> QED BY <1>1, SumSame
<1> QED BY <1>2 DEF Sign, Sg, Common

LEMMA WeightOf ==
  ASSUME NEW n \in Nat, NEW m \in Nat, Stages(n) = m, NEW j \in Nat, NEW q, NEW invert
  PROVE  Weight(q, n, invert, j) = Weights(Omega(q, n, invert), m, m, q)[j]
<1> DEFINE f == [s \in 0..m - 1 |-> Bit(j, s) * TwoTo(m - 1 - s)]
           g == RevTerms(j, m)
<1>1. \A t \in 0..m - 1 : f[t] = g[t]
  <2> SUFFICES ASSUME NEW t \in 0..m - 1 PROVE f[t] = g[t]
    OBVIOUS
  <2>1. t \in Nat /\ t < m /\ m - 1 - t = m - (1 + t)
    OBVIOUS
  <2> QED BY <2>1 DEF RevTerms
<1>2. Sum(f, m) = Sum(g, m)
  <2> HIDE DEF f, g
  <2> QED BY <1>1, SumSame
<1> QED BY <1>2 DEF Weight, Reversed, Weights, Rev

\* The coefficients, each times its weight.
Weighted(x, q, n, m, invert) ==
  [j \in Nat |-> Weights(Omega(q, n, invert), m, m, q)[j] * Extended(x, n)[j]]

LEMMA WeightedReached ==
  ASSUME NEW q \in Nat, q > 1, NEW n \in Nat, NEW x \in [0..n - 1 -> Int], Length(x) = n,
         NEW m \in Nat, Stages(n) = m, TwoTo(m) = n, NEW invert, Omega(q, n, invert) \in Int
  PROVE  /\ Weighted(x, q, n, m, invert) \in [Nat -> Int]
         /\ \A k \in 0..n - 1 : Cong(Transformed(x, q, invert)[k], H(m, Weighted(x, q, n, m, invert), k), q)
<1> DEFINE w == Weights(Omega(q, n, invert), m, m, q)
           X == Extended(x, n)
           z == Transformed(x, q, invert)
<1>1. Reaches(z, m, n, w, X, q) /\ w \in [Nat -> Int] /\ X \in [Nat -> Int]
  <2>1. q > 0
    OBVIOUS
  <2> QED BY <2>1, TransformedReaches, WeightsOf, ExtendedOf
<1> HIDE DEF w, X, z
<1>2. PICK zero \in Nat : zero = 0
  OBVIOUS
<1>3. \A j \in Nat : j + n * zero = j
  BY <1>2
<1>4. Block(w, X, n, zero) = [j \in Nat |-> w[j] * X[j]]
  BY <1>3 DEF Block
<1>5. Block(w, X, n, zero) \in [Nat -> Int]
  BY <1>1, BlockOf
<1>6. ASSUME NEW k \in 0..n - 1 PROVE Cong(z[k], H(m, Block(w, X, n, zero), k), q)
  <2>1. k + n * zero = k /\ k < n
    BY <1>2
  <2> QED BY <1>1, <2>1 DEF Reaches
<1> QED BY <1>4, <1>5, <1>6 DEF Weighted, w, X, z

LEMMA WalshReached ==
  ASSUME NEW q \in Nat, q > 1, NEW n \in Nat, NEW x \in [0..n - 1 -> Int], Length(x) = n,
         NEW m \in Nat, Stages(n) = m, TwoTo(m) = n, NEW invert, Omega(q, n, invert) \in Int,
         NEW k \in 0..n - 1
  PROVE  Walsh(x, q, invert, k) = H(m, Weighted(x, q, n, m, invert), k) % q
<1> DEFINE w == Weights(Omega(q, n, invert), m, m, q)
           X == Extended(x, n)
           y == Weighted(x, q, n, m, invert)
           f == [j \in 0..n - 1 |-> Sign(j, k, n) * (Weight(q, n, invert, j) * x[j] % q)]
           g == [j \in Nat |-> IF j < n THEN Sg(j, k, m) * ((w[j] * X[j]) % q) ELSE 0]
           h == Terms(m, y, k)
<1>1. /\ y = [l \in Nat |-> w[l] * X[l]] /\ y \in [Nat -> Int] /\ w \in [Nat -> Int] /\ X \in [Nat -> Int]
      /\ q > 0 /\ k \in Int
  <2>1. q > 0
    OBVIOUS
  <2>2. w \in [Nat -> Int]
    BY <2>1, WeightsOf
  <2>3. X \in [Nat -> Int] /\ k \in Int
    BY ExtendedOf
  <2>4. y \in [Nat -> Int]
    BY WeightedReached
  <2>5. y = [l \in Nat |-> w[l] * X[l]]
    BY DEF Weighted
  <2> QED BY <2>1, <2>2, <2>3, <2>4, <2>5
<1>2. Walsh(x, q, invert, k) = Sum(f, n) % q
  BY DEF Walsh
<1>3. \A j \in 0..n - 1 : x[j] = X[j]
  BY ExtendedOf
<1>4. ASSUME NEW j \in 0..n - 1 PROVE f[j] = Sg(j, k, m) * ((w[j] * X[j]) % q)
  <2>1. j \in Nat
    OBVIOUS
  <2>2. Weight(q, n, invert, j) = w[j]
    BY <2>1, WeightOf
  <2>3. Sign(j, k, n) = Sg(j, k, m)
    BY SignOf
  <2> HIDE DEF w, X
  <2> QED BY <1>3, <2>2, <2>3
<1> HIDE DEF w, X, y
<1>5. ASSUME NEW j \in Nat
      PROVE  /\ Sg(j, k, m) \in Int /\ w[j] * X[j] \in Int /\ (w[j] * X[j]) % q \in Int
             /\ Sg(j, k, m) * ((w[j] * X[j]) % q) \in Int
             /\ Cong(Sg(j, k, m) * (w[j] * X[j]), Sg(j, k, m) * ((w[j] * X[j]) % q), q)
  <2>1. Sg(j, k, m) \in Int
    BY <1>1, CommonOf
  <2>2. w[j] * X[j] \in Int
    <3>1. w[j] \in Int /\ X[j] \in Int
      BY <1>1
    <3> QED BY <3>1
  <2>3. (w[j] * X[j]) % q \in Int /\ Cong(w[j] * X[j], (w[j] * X[j]) % q, q)
    BY <1>1, <2>2, CongMod
  <2>4. Cong(Sg(j, k, m) * (w[j] * X[j]), Sg(j, k, m) * ((w[j] * X[j]) % q), q)
    BY <2>1, <2>2, <2>3, CongTimes
  <2>5. Sg(j, k, m) * ((w[j] * X[j]) % q) \in Int
    BY <2>1, <2>3
  <2> QED BY <2>1, <2>2, <2>3, <2>4, <2>5
<1>6. g \in [Nat -> Int] /\ h \in [Nat -> Int]
  <2>1. g \in [Nat -> Int]
    BY <1>5
  <2> QED BY <1>1, <2>1, TermsOf
<1>7. \A j \in 0..n - 1 : Cong(h[j], g[j], q) /\ f[j] = g[j]
  <2> SUFFICES ASSUME NEW j \in 0..n - 1 PROVE Cong(h[j], g[j], q) /\ f[j] = g[j]
    OBVIOUS
  <2>1. j \in Nat /\ j < n
    OBVIOUS
  <2>2. g[j] = Sg(j, k, m) * ((w[j] * X[j]) % q)
    BY <2>1
  <2>3. h[j] = Sg(j, k, m) * (w[j] * X[j])
    BY <1>1, <2>1 DEF Terms
  <2> HIDE DEF f, g, h
  <2> QED BY <1>4, <1>5, <2>1, <2>2, <2>3
<1>8. H(m, y, k) = Sum(h, n)
  BY DEF H
<1> HIDE DEF f, g, h
<1>9. Sum(f, n) = Sum(g, n)
  BY <1>7, SumSame
<1>10. Cong(Sum(h, n), Sum(g, n), q)
  BY <1>6, <1>7, SumCong
<1>11. Sum(h, n) \in Int /\ Sum(g, n) \in Int
  BY <1>6, SumStep
<1>12. Sum(h, n) % q = Sum(g, n) % q
  BY <1>1, <1>10, <1>11, CongEqual
<1> QED BY <1>2, <1>8, <1>9, <1>12 DEF y

-----------------------------------------------------------------------------
\* Fermat's theorem for two: by a factorial, as the doubles of the numbers up
\* to q - 1 are the even ones and, modulo q, the odd ones.
Prime(q) == q \in Nat /\ q > 1 /\ \A d \in 2..(q - 1) : q % d # 0

LEMMA CongDivides ==
  ASSUME NEW q \in Nat, NEW a \in Int, NEW b \in Int
  PROVE  Cong(a, b, q) <=> Cong(a - b, 0, q)
<1>1. (a - b) - 0 = a - b
  OBVIOUS
<1> QED BY <1>1 DEF Cong

\* A factor less than a prime can be left out.
LEMMA Euclid ==
  ASSUME NEW q, Prime(q), NEW j \in 1..q - 1, NEW y \in Int, Cong(j * y, 0, q)
  PROVE  Cong(y, 0, q)
<1> q \in Nat /\ q > 1
  BY DEF Prime
<1> DEFINE S == {e \in Nat : e \in 1..q - 1 /\ Cong(e * y, 0, q)}
<1> SUFFICES ASSUME ~Cong(y, 0, q) PROVE FALSE
  OBVIOUS
<1>1. j \in S
  OBVIOUS
<1>2. PICK e \in S : \A k \in Nat : k < e => k \notin S
  BY <1>1, LeastExists
<1>3. e \in Nat /\ e \in 1..q - 1 /\ Cong(e * y, 0, q)
  BY <1>2
<1>4. e # 1
  <2> SUFFICES ASSUME e = 1 PROVE FALSE
    OBVIOUS
  <2>1. e * y = y
    OBVIOUS
  <2> QED BY <1>3, <2>1
<1> DEFINE r == q % e
           l == q \div e
<1>5. e > 0 /\ r \in 0..e - 1 /\ l \in Nat /\ q = r + e * l
  BY <1>3, Division
<1>6. r # 0
  <2>1. e \in 2..(q - 1)
    BY <1>3, <1>4
  <2> QED BY <2>1 DEF Prime
<1> HIDE DEF r, l
<1>7. PICK k \in Int : e * y = q * k
  <2>1. PICK k \in Int : e * y - 0 = q * k
    BY <1>3 DEF Cong
  <2>2. e * y - 0 = e * y
    BY <1>3
  <2> QED BY <2>1, <2>2
<1>8. r * y = q * (y - l * k)
  <2>1. r * y = q * y - l * (e * y)
    <3>1. r = q - e * l
      BY <1>3, <1>5
    <3>2. (q - e * l) * y = q * y - l * (e * y)
      BY <1>3, <1>5
    <3> QED BY <3>1, <3>2
  <2>2. l * (e * y) = q * (l * k)
    <3>1. l * (q * k) = q * (l * k)
      BY <1>5, <1>7
    <3> QED BY <1>7, <3>1
  <2>3. q * y - q * (l * k) = q * (y - l * k)
    BY <1>5, <1>7
  <2> QED BY <2>1, <2>2, <2>3
<1>9. Cong(r * y, 0, q)
  <2>1. y - l * k \in Int
    BY <1>5, <1>7
  <2>2. r * y - 0 = r * y
    BY <1>5
  <2> QED BY <1>8, <2>1, <2>2 DEF Cong
<1>10. r \in S /\ r < e /\ r \in Nat
  BY <1>3, <1>5, <1>6, <1>9
<1> QED BY <1>2, <1>10

\* The products of the first numbers, of the first even ones and odd ones.
Product(f, term) == f \in [Nat -> Nat] /\ f[0] = 1 /\ \A k \in Nat : f[k + 1] = f[k] * term[k]

LEMMA ProductExists ==
  ASSUME NEW term \in [Nat -> Nat]
  PROVE  \E f : Product(f, term)
<1> DEFINE Step == [k \in Nat |-> [v \in Nat |-> v * term[k]]]
<1>1. Step \in [Nat -> [Nat -> Nat]]
  <2>1. \A k, v \in Nat : v * term[k] \in Nat
    <3> SUFFICES ASSUME NEW k \in Nat, NEW v \in Nat PROVE v * term[k] \in Nat
      OBVIOUS
    <3>1. term[k] \in Nat
      OBVIOUS
    <3> QED BY <3>1
  <2> QED BY <2>1
<1>2. 1 \in Nat
  OBVIOUS
<1>3. PICK f \in [Nat -> Nat] : Iterates(f, 1, Step)
  <2> HIDE DEF Step
  <2> QED BY <1>1, <1>2, Recursion
<1>4. Product(f, term)
  BY <1>3 DEF Product, Iterates
<1> QED BY <1>4

Numbers == [k \in Nat |-> k + 1]
Evens == [k \in Nat |-> 2 * (k + 1)]
Odds == [k \in Nat |-> 2 * k + 1]

LEMMA FactorialHalves ==
  ASSUME NEW F, Product(F, Numbers), NEW E, Product(E, Evens), NEW O, Product(O, Odds)
  PROVE  \A k \in Nat : F[2 * k] = E[k] * O[k] /\ E[k] = TwoTo(k) * F[k]
<1> DEFINE S == {k \in Nat : F[2 * k] = E[k] * O[k] /\ E[k] = TwoTo(k) * F[k]}
<1>1. \A k \in Nat : /\ F[k] \in Nat /\ E[k] \in Nat /\ O[k] \in Nat
                     /\ F[k + 1] = F[k] * (k + 1)
                     /\ E[k + 1] = E[k] * (2 * (k + 1))
                     /\ O[k + 1] = O[k] * (2 * k + 1)
  BY DEF Product, Numbers, Evens, Odds
<1>2. 0 \in S
  BY TwoToDoubles DEF Product
<1>3. ASSUME NEW k \in Nat, k \in S PROVE k + 1 \in S
  <2>1. F[2 * (k + 1)] = E[k + 1] * O[k + 1]
    <3>1. 2 * k \in Nat /\ 2 * k + 1 \in Nat /\ (2 * k + 1) + 1 = 2 * (k + 1)
      OBVIOUS
    <3>2. F[(2 * k) + 1] = F[2 * k] * (2 * k + 1)
      BY <1>1, <3>1
    <3>3. F[(2 * k + 1) + 1] = F[2 * k + 1] * ((2 * k + 1) + 1)
      BY <1>1, <3>1
    <3>4. F[2 * (k + 1)] = ((E[k] * O[k]) * (2 * k + 1)) * (2 * (k + 1))
      BY <1>3, <3>1, <3>2, <3>3
    <3>5. E[k] \in Nat /\ O[k] \in Nat
      BY <1>1
    <3>6. ((E[k] * O[k]) * (2 * k + 1)) * (2 * (k + 1)) = (E[k] * (2 * (k + 1))) * (O[k] * (2 * k + 1))
      BY <3>5
    <3> QED BY <1>1, <3>4, <3>6
  <2>2. E[k + 1] = TwoTo(k + 1) * F[k + 1]
    <3>1. TwoTo(k + 1) = 2 * TwoTo(k) /\ TwoTo(k) \in Nat /\ F[k] \in Nat
      BY <1>1, TwoToDoubles
    <3>2. (TwoTo(k) * F[k]) * (2 * (k + 1)) = (2 * TwoTo(k)) * (F[k] * (k + 1))
      BY <3>1
    <3> QED BY <1>1, <1>3, <3>1, <3>2
  <2> QED BY <2>1, <2>2
<1>4. \A k \in Nat : k \in S
  <2> HIDE DEF S
  <2> QED BY <1>2, <1>3, SetInduction
<1> QED BY <1>4

\* Modulo q = 2h + 1, the even numbers after 2h are the odd ones from one.
LEMMA EvensAreOdds ==
  ASSUME NEW h \in Nat, NEW q \in Nat, q = 2 * h + 1, NEW E, Product(E, Evens), NEW O, Product(O, Odds)
  PROVE  \A k \in Nat : Cong(E[h + k], E[h] * O[k], q)
<1> DEFINE S == {k \in Nat : Cong(E[h + k], E[h] * O[k], q)}
<1>1. \A k \in Nat : /\ E[k] \in Nat /\ O[k] \in Nat
                     /\ E[k + 1] = E[k] * (2 * (k + 1))
                     /\ O[k + 1] = O[k] * (2 * k + 1)
  BY DEF Product, Evens, Odds
<1>2. 0 \in S
  <2>1. E[h] \in Int /\ O[0] = 1 /\ h + 0 = h
    BY <1>1 DEF Product
  <2>2. E[h] * O[0] = E[h]
    BY <2>1
  <2> QED BY <2>1, <2>2, CongRefl
<1>3. ASSUME NEW k \in Nat, k \in S PROVE k + 1 \in S
  <2> DEFINE a == E[h + k]
             b == E[h] * O[k]
             c == 2 * ((h + k) + 1)
             d == 2 * k + 1
  <2>1. a \in Int /\ b \in Int /\ c \in Int /\ d \in Int
    <3>1. h + k \in Nat
      OBVIOUS
    <3>2. E[h + k] \in Nat /\ E[h] \in Nat /\ O[k] \in Nat
      BY <1>1, <3>1
    <3> QED BY <3>2
  <2>2. Cong(c, d, q)
    <3>1. c - d = q * 1
      OBVIOUS
    <3> QED BY <3>1 DEF Cong
  <2>3. Cong(a * c, b * d, q)
    <3>1. Cong(a, b, q)
      BY <1>3
    <3> HIDE DEF a, b, c, d
    <3> QED BY <2>1, <2>2, <3>1, CongProduct
  <2>4. E[h + (k + 1)] = a * c
    <3>1. h + k \in Nat /\ (h + k) + 1 = h + (k + 1)
      OBVIOUS
    <3> QED BY <1>1, <3>1
  <2>5. E[h] * O[k + 1] = b * d
    <3>1. E[h] \in Nat /\ O[k] \in Nat /\ O[k + 1] = O[k] * d
      BY <1>1
    <3>2. E[h] * (O[k] * d) = (E[h] * O[k]) * d
      BY <3>1
    <3> QED BY <3>1, <3>2
  <2> QED BY <2>3, <2>4, <2>5
<1>4. \A k \in Nat : k \in S
  <2> HIDE DEF S
  <2> QED BY <1>2, <1>3, SetInduction
<1> QED BY <1>4

\* A factorial of less than a prime can be left out.
LEMMA FactorialCancels ==
  ASSUME NEW q, Prime(q), NEW F, Product(F, Numbers), NEW y \in Int
  PROVE  \A k \in 0..q - 1 : Cong(F[k] * y, 0, q) => Cong(y, 0, q)
<1> q \in Nat /\ q > 1
  BY DEF Prime
<1> DEFINE S == {k \in Nat : k <= q - 1 /\ Cong(F[k] * y, 0, q) => Cong(y, 0, q)}
<1>1. \A k \in Nat : F[k] \in Nat /\ F[k + 1] = F[k] * (k + 1)
  BY DEF Product, Numbers
<1>2. 0 \in S
  <2>1. F[0] * y = y
    BY DEF Product
  <2> QED BY <2>1
<1>3. ASSUME NEW k \in Nat, k \in S PROVE k + 1 \in S
  <2> SUFFICES ASSUME k + 1 <= q - 1, Cong(F[k + 1] * y, 0, q) PROVE Cong(y, 0, q)
    OBVIOUS
  <2> DEFINE z == F[k] * y
  <2>1. F[k] \in Nat /\ z \in Int
    BY <1>1
  <2>2. F[k + 1] * y = (k + 1) * z
    <3>1. (F[k] * (k + 1)) * y = (k + 1) * (F[k] * y)
      BY <2>1
    <3> QED BY <1>1, <3>1
  <2> HIDE DEF z
  <2>3. PICK j \in 1..q - 1 : j = k + 1
    OBVIOUS
  <2>4. Cong(j * z, 0, q)
    BY <2>2, <2>3
  <2>5. Cong(z, 0, q)
    BY <2>1, <2>4, Euclid
  <2> QED BY <1>3, <2>5 DEF z
<1>4. \A k \in Nat : k \in S
  <2> HIDE DEF S
  <2> QED BY <1>2, <1>3, SetInduction
<1> QED BY <1>4

LEMMA FermatForTwo ==
  ASSUME NEW q, Prime(q), NEW h \in Nat, q = 2 * h + 1
  PROVE  Cong(TwoTo(2 * h), 1, q)
<1> q \in Nat /\ q > 1
  BY DEF Prime
<1>1. PICK F : Product(F, Numbers)
  <2>1. Numbers \in [Nat -> Nat]
    BY DEF Numbers
  <2> QED BY <2>1, ProductExists
<1>2. PICK E : Product(E, Evens)
  <2>1. Evens \in [Nat -> Nat]
    BY DEF Evens
  <2> QED BY <2>1, ProductExists
<1>3. PICK O : Product(O, Odds)
  <2>1. Odds \in [Nat -> Nat]
    BY DEF Odds
  <2> QED BY <2>1, ProductExists
<1> DEFINE f == F[2 * h]
           t == TwoTo(2 * h)
<1>4. f \in Nat /\ t \in Nat /\ 2 * h \in Nat
  BY <1>1, TwoToDoubles DEF Product
<1>5. f = E[h] * O[h] /\ E[2 * h] = t * f
  BY <1>1, <1>2, <1>3, <1>4, FactorialHalves
<1>6. Cong(E[h + h], E[h] * O[h], q)
  BY <1>2, <1>3, EvensAreOdds
<1>7. Cong(t * f, f, q)
  <2>1. h + h = 2 * h
    OBVIOUS
  <2> QED BY <1>5, <1>6, <2>1
<1>8. Cong(f * (t - 1), 0, q)
  <2>1. t * f - f = f * (t - 1) /\ t * f \in Int /\ f \in Int
    BY <1>4
  <2> QED BY <1>7, <2>1, CongDivides
<1>9. 2 * h \in 0..q - 1 /\ t - 1 \in Int
  BY <1>4
<1>10. Cong(t - 1, 0, q)
  BY <1>1, <1>8, <1>9, FactorialCancels
<1> HIDE DEF t
<1>11. 1 \in Int /\ t \in Int
  BY <1>4
<1> QED BY <1>10, <1>11, CongDivides DEF t

\* A power of two to the power of a number is a power of two.
LEMMA PowersOfTwoTo ==
  ASSUME NEW q \in Nat, q > 0, NEW m \in Nat
  PROVE  \A e \in Nat : Cong(Power(TwoTo(m), e, q), TwoTo(m * e), q)
<1> DEFINE b == TwoTo(m)
           S == {e \in Nat : Cong(Power(b, e, q), TwoTo(m * e), q)}
<1>1. b \in Nat /\ b \in Int
  BY TwoToDoubles
<1>2. /\ Power(b, 0, q) = 1 % q
      /\ \A e \in Nat : Power(b, e, q) \in 0..q - 1 /\ Power(b, e + 1, q) = (Power(b, e, q) * b) % q
  <2> HIDE DEF b
  <2> QED BY <1>1, PowerStep
<1>3. 0 \in S
  <2>1. PICK one \in Int : one = 1
    OBVIOUS
  <2>2. Cong(one % q, one, q)
    BY CongMod
  <2>3. m * 0 = 0 /\ TwoTo(0) = 1
    BY TwoToDoubles
  <2> HIDE DEF b
  <2> QED BY <1>2, <2>1, <2>2, <2>3
<1>4. ASSUME NEW e \in Nat, e \in S PROVE e + 1 \in S
  <2> DEFINE p == Power(b, e, q)
             t == TwoTo(m * e)
  <2>1. p \in Int /\ t \in Int /\ m * e \in Nat
    <3>1. m * e \in Nat
      OBVIOUS
    <3>2. t \in Nat
      BY <3>1, TwoToDoubles
    <3>3. p \in 0..q - 1
      BY <1>2
    <3> QED BY <3>1, <3>2, <3>3
  <2>2. TwoTo(m * (e + 1)) = t * b
    <3>1. m * (e + 1) = (m * e) + m
      OBVIOUS
    <3>2. TwoTo((m * e) + m) = TwoTo(m * e) * TwoTo(m)
      BY <2>1, TwoToAdds
    <3> QED BY <3>1, <3>2
  <2>3. Power(b, e + 1, q) = (p * b) % q
    BY <1>2
  <2>4. Cong(p, t, q)
    BY <1>4
  <2> HIDE DEF p, t, b
  <2>5. Cong(p * b, t * b, q) /\ p * b \in Int /\ t * b \in Int
    <3>1. p * b \in Int /\ t * b \in Int
      BY <1>1, <2>1
    <3>2. Cong(p * b, t * b, q)
      BY <1>1, <2>1, <2>4, CongTimes
    <3> QED BY <3>1, <3>2
  <2>6. Cong((p * b) % q, p * b, q) /\ (p * b) % q \in Int
    BY <2>5, CongMod
  <2>7. Cong((p * b) % q, t * b, q)
    BY <2>5, <2>6, CongTransitive
  <2>8. Cong(Power(b, e + 1, q), TwoTo(m * (e + 1)), q)
    BY <2>2, <2>3, <2>7
  <2> QED BY <2>8 DEF b
<1>5. \A e \in Nat : e \in S
  <2> HIDE DEF S
  <2> QED BY <1>3, <1>4, SetInduction
<1> QED BY <1>5

LEMMA PowersOfOne ==
  ASSUME NEW q \in Nat, NEW e \in Nat, Cong(TwoTo(e), 1, q)
  PROVE  \A m \in Nat : Cong(TwoTo(m * e), 1, q)
<1> DEFINE S == {m \in Nat : Cong(TwoTo(m * e), 1, q)}
<1>0. PICK one \in Int : one = 1
  OBVIOUS
<1>1. 0 \in S
  <2>1. 0 * e = 0 /\ TwoTo(0) = one
    BY <1>0, TwoToDoubles
  <2>2. Cong(one, one, q)
    BY CongRefl
  <2> QED BY <1>0, <2>1, <2>2
<1>2. ASSUME NEW m \in Nat, m \in S PROVE m + 1 \in S
  <2> DEFINE a == TwoTo(m * e)
             b == TwoTo(e)
  <2>1. m * e \in Nat /\ (m + 1) * e = (m * e) + e
    OBVIOUS
  <2>2. TwoTo((m * e) + e) = a * b /\ a \in Int /\ b \in Int
    <3>1. PICK c \in Nat : c = m * e
      BY <2>1
    <3>2. TwoTo(c + e) = TwoTo(c) * TwoTo(e)
      BY TwoToAdds
    <3>3. TwoTo(c) \in Nat /\ TwoTo(e) \in Nat
      BY TwoToDoubles
    <3> QED BY <3>1, <3>2, <3>3
  <2>3. Cong(a, one, q) /\ Cong(b, one, q)
    BY <1>0, <1>2
  <2> HIDE DEF a, b
  <2>4. Cong(a * b, one * one, q)
    BY <2>2, <2>3, CongProduct
  <2>5. one * one = one
    BY <1>0
  <2> QED BY <1>0, <2>1, <2>2, <2>4, <2>5
<1>3. \A m \in Nat : m \in S
  <2> HIDE DEF S
  <2> QED BY <1>1, <1>2, SetInduction
<1> QED BY <1>3

\* Dividing by the length: the power that the inverse transform multiplies by
\* is the inverse of the length, unless the modulus divides it.
LEMMA InverseOfLength ==
  ASSUME NEW q, Prime(q), NEW m \in Nat, NEW n, n = TwoTo(m), n % q # 0
  PROVE  Power(n, q - 2, q) \in Int /\ Cong(n * Power(n, q - 2, q), 1, q)
<1> q \in Nat /\ q > 1
  BY DEF Prime
<1>1. n \in Nat /\ n \in Int /\ q - 2 \in Nat /\ q > 0
  BY TwoToDoubles
<1>2. PICK e \in Nat : e = q - 2
  BY <1>1
<1>3. Cong(TwoTo(m * (e + 1)), 1, q)
  <2>1. CASE m = 0
    <3>1. m * (e + 1) = 0 /\ TwoTo(0) = 1
      BY <1>2, <2>1, TwoToDoubles
    <3>2. PICK one \in Int : one = 1
      OBVIOUS
    <3>3. Cong(one, one, q)
      BY CongRefl
    <3> QED BY <3>1, <3>2, <3>3
  <2>2. CASE m # 0
    <3>1. q # 2
      <4>1. m - 1 \in Nat /\ (m - 1) + 1 = m
        BY <2>2
      <4>2. n = 2 * TwoTo(m - 1) /\ TwoTo(m - 1) \in Nat
        BY <4>1, TwoToDoubles
      <4>3. n % 2 = 0
        BY <4>2
      <4> QED BY <4>3
    <3>2. 2 \in 2..(q - 1)
      BY <3>1
    <3>3. q % 2 # 0
      BY <3>2 DEF Prime
    <3>4. PICK h \in Nat : q = 2 * h + 1
      <4>1. q \div 2 \in Nat /\ q = 2 * (q \div 2) + 1
        BY <3>3
      <4> QED BY <4>1
    <3>5. 2 * h = e + 1
      BY <1>2, <3>4
    <3>6. Cong(TwoTo(2 * h), 1, q)
      BY <3>4, FermatForTwo
    <3>7. e + 1 \in Nat /\ Cong(TwoTo(e + 1), 1, q)
      BY <3>5, <3>6
    <3> QED BY <3>7, PowersOfOne
  <2> QED BY <2>1, <2>2
<1> DEFINE p == Power(n, e, q)
           t == TwoTo(m * e)
<1>4. p \in Int
  <2>1. p \in 0..q - 1
    BY <1>1, PowerStep
  <2> QED BY <2>1
<1>5. Cong(p, t, q) /\ t \in Int /\ m * e \in Nat
  <2>1. m * e \in Nat
    OBVIOUS
  <2>2. Cong(p, t, q)
    BY <1>1, PowersOfTwoTo
  <2>3. t \in Nat
    BY <2>1, TwoToDoubles
  <2> QED BY <2>1, <2>2, <2>3
<1>6. n * t = TwoTo(m * (e + 1))
  <2>1. m * (e + 1) = m + (m * e)
    OBVIOUS
  <2>2. TwoTo(m + (m * e)) = TwoTo(m) * t
    BY <1>5, TwoToAdds
  <2> QED BY <2>1, <2>2
<1> HIDE DEF p, t
<1>7. Cong(n * p, n * t, q) /\ n * p \in Int /\ n * t \in Int
  <2>1. n * p \in Int /\ n * t \in Int
    BY <1>1, <1>4, <1>5
  <2>2. Cong(n * p, n * t, q)
    BY <1>1, <1>4, <1>5, CongTimes
  <2> QED BY <2>1, <2>2
<1>8. PICK one \in Int : one = 1
  OBVIOUS
<1>9. Cong(n * p, one, q)
  <2>1. Cong(n * t, one, q)
    BY <1>3, <1>6, <1>8
  <2> QED BY <1>7, <1>8, <2>1, CongTransitive
<1> QED BY <1>2, <1>4, <1>8, <1>9 DEF p

-----------------------------------------------------------------------------
\* A transform without weights undoes itself, up to the length.
HAll(s, y) == [j \in Nat |-> H(s, y, j)]

LEMMA HAllOf ==
  ASSUME NEW s \in Nat, NEW y \in [Nat -> Int]
  PROVE  HAll(s, y) \in [Nat -> Int] /\ Upper(s, y) \in [Nat -> Int]
<1>1. HAll(s, y) \in [Nat -> Int]
  BY TermsOf DEF HAll
<1>2. TwoTo(s) \in Nat
  BY TwoToDoubles
<1>3. \A j \in Nat : j + TwoTo(s) \in Nat
  BY <1>2
<1> QED BY <1>1, <1>3 DEF Upper

\* The transform of both halves, in the words of their own transforms.
LEMMA HOfHalves ==
  ASSUME NEW s \in Nat, NEW y \in [Nat -> Int], NEW j \in 0..TwoTo(s) - 1
  PROVE  /\ H(s + 1, y, j) = H(s, y, j) + H(s, Upper(s, y), j)
         /\ H(s + 1, y, j + TwoTo(s)) = H(s, y, j) - H(s, Upper(s, y), j)
<1>1. TwoTo(s) \in Nat /\ j \in Int
  BY TwoToDoubles
<1>2. H(s, y, j) \in Int /\ H(s, Upper(s, y), j) \in Int
  BY <1>1, HAllOf, TermsOf
<1>3. PICK half \in 0..1 : half = 0
  OBVIOUS
<1>4. PICK other \in 0..1 : other = 1
  OBVIOUS
<1>5. H(s + 1, y, j + TwoTo(s) * half) = H(s, y, j) + H(s, Upper(s, y), j)
  BY <1>3, HHalves
<1>6. H(s + 1, y, j + TwoTo(s) * other) = H(s, y, j) + (-H(s, Upper(s, y), j))
  BY <1>4, HHalves
<1>7. j + TwoTo(s) * half = j /\ j + TwoTo(s) * other = j + TwoTo(s)
  BY <1>1, <1>3, <1>4
<1> QED BY <1>2, <1>5, <1>6, <1>7

\* An index of twice as many is one of the lower or of the upper half.
LEMMA IndexHalves ==
  ASSUME NEW s \in Nat, NEW r \in 0..TwoTo(s + 1) - 1
  PROVE  r \in 0..TwoTo(s) - 1 \/ \E j \in 0..TwoTo(s) - 1 : r = j + TwoTo(s)
<1>1. TwoTo(s) \in Nat /\ TwoTo(s + 1) = 2 * TwoTo(s)
  BY TwoToDoubles
<1>2. CASE r < TwoTo(s)
  BY <1>1, <1>2
<1>3. CASE r >= TwoTo(s)
  <2>1. r - TwoTo(s) \in 0..TwoTo(s) - 1 /\ r = (r - TwoTo(s)) + TwoTo(s)
    BY <1>1, <1>3
  <2> QED BY <2>1
<1> QED BY <1>1, <1>2, <1>3

SumAndDifference(f, g, a, b, len) == \A j \in 0..len - 1 : f[j] = a[j] + b[j] /\ g[j] = a[j] - b[j]

LEMMA HOfSums ==
  ASSUME NEW s \in Nat, NEW a \in [Nat -> Int], NEW b \in [Nat -> Int],
         NEW f \in [Nat -> Int], NEW g \in [Nat -> Int], SumAndDifference(f, g, a, b, TwoTo(s)), NEW r \in Int
  PROVE  H(s, f, r) = H(s, a, r) + H(s, b, r) /\ H(s, g, r) = H(s, a, r) - H(s, b, r)
<1>1. PICK one \in Int : one = 1
  OBVIOUS
<1>2. PICK minus \in Int : minus = -1
  OBVIOUS
<1>3. TwoTo(s) \in Nat /\ \A j \in 0..TwoTo(s) - 1 : a[j] \in Int /\ b[j] \in Int
  <2>1. TwoTo(s) \in Nat
    BY TwoToDoubles
  <2> QED BY <2>1
<1>4. Combines(f, one, a, one, b, TwoTo(s))
  BY <1>1, <1>3 DEF Combines, SumAndDifference
<1>5. Combines(g, one, a, minus, b, TwoTo(s))
  BY <1>1, <1>2, <1>3 DEF Combines, SumAndDifference
<1>6. H(s, f, r) = one * H(s, a, r) + one * H(s, b, r)
  BY <1>4, HLinear
<1>7. H(s, g, r) = one * H(s, a, r) + minus * H(s, b, r)
  BY <1>5, HLinear
<1>8. H(s, a, r) \in Int /\ H(s, b, r) \in Int
  BY TermsOf
<1> QED BY <1>1, <1>2, <1>6, <1>7, <1>8

LEMMA HUndone ==
  \A s \in Nat : \A y \in [Nat -> Int] : \A r \in 0..TwoTo(s) - 1 : H(s, HAll(s, y), r) = TwoTo(s) * y[r]
<1> DEFINE Undone(s) == \A y \in [Nat -> Int] : \A r \in 0..TwoTo(s) - 1 : H(s, HAll(s, y), r) = TwoTo(s) * y[r]
           S == {s \in Nat : Undone(s)}
<1>1. 0 \in S
  <2> SUFFICES ASSUME NEW y \in [Nat -> Int], NEW r \in 0..TwoTo(0) - 1 PROVE H(0, HAll(0, y), r) = TwoTo(0) * y[r]
    OBVIOUS
  <2>1. TwoTo(0) = 1 /\ r = 0
    BY TwoToDoubles
  <2>2. HAll(0, y) \in [Nat -> Int]
    <3>1. PICK zero \in Nat : zero = 0
      OBVIOUS
    <3>2. HAll(zero, y) \in [Nat -> Int]
      BY HAllOf
    <3> QED BY <3>1, <3>2
  <2>3. H(0, HAll(0, y), 0) = HAll(0, y)[0] /\ H(0, y, 0) = y[0] /\ y[0] \in Int
    BY <2>2, HZero
  <2>4. HAll(0, y)[0] = H(0, y, 0)
    BY DEF HAll
  <2> QED BY <2>1, <2>3, <2>4
<1>2. ASSUME NEW s \in Nat, s \in S PROVE s + 1 \in S
  <2> SUFFICES ASSUME NEW y \in [Nat -> Int], NEW r \in 0..TwoTo(s + 1) - 1
               PROVE  H(s + 1, HAll(s + 1, y), r) = TwoTo(s + 1) * y[r]
    OBVIOUS
  <2> DEFINE T == TwoTo(s)
             u == Upper(s, y)
             a == HAll(s, y)
             b == HAll(s, u)
             f == HAll(s + 1, y)
             g == Upper(s, f)
  <2>1. T \in Nat /\ TwoTo(s + 1) = 2 * T /\ s + 1 \in Nat
    BY TwoToDoubles
  <2>2. u \in [Nat -> Int] /\ a \in [Nat -> Int] /\ f \in [Nat -> Int]
    BY <2>1, HAllOf
  <2>3. b \in [Nat -> Int] /\ g \in [Nat -> Int]
    <3> HIDE DEF u, f
    <3> QED BY <2>1, <2>2, HAllOf
  <2>4. SumAndDifference(f, g, a, b, T)
    <3> SUFFICES ASSUME NEW j \in 0..T - 1 PROVE f[j] = a[j] + b[j] /\ g[j] = a[j] - b[j]
      BY DEF SumAndDifference
    <3>1. j \in Nat /\ j + T \in Nat
      BY <2>1
    <3>2. f[j] = H(s + 1, y, j) /\ g[j] = H(s + 1, y, j + T) /\ a[j] = H(s, y, j) /\ b[j] = H(s, u, j)
      BY <3>1 DEF HAll, Upper
    <3> QED BY <3>2, HOfHalves
  <2> HIDE DEF a, b, g
  <2>5. ASSUME NEW j \in 0..T - 1
        PROVE  /\ H(s, f, j) = T * y[j] + T * u[j]
               /\ H(s, g, j) = T * y[j] - T * u[j]
               /\ y[j] \in Int /\ u[j] \in Int /\ u[j] = y[j + T]
    <3>1. H(s, a, j) = T * y[j] /\ H(s, b, j) = T * u[j]
      BY <1>2, <2>2 DEF a, b
    <3>2. j \in Int /\ j \in Nat
      BY <2>1
    <3> HIDE DEF f
    <3>3. H(s, f, j) = H(s, a, j) + H(s, b, j) /\ H(s, g, j) = H(s, a, j) - H(s, b, j)
      BY <2>2, <2>3, <2>4, <3>2, HOfSums
    <3>4. u[j] = y[j + T]
      BY <3>2 DEF Upper
    <3> HIDE DEF u
    <3> QED BY <2>2, <3>1, <3>2, <3>3, <3>4
  <2> HIDE DEF f
  <2>6. CASE r \in 0..T - 1
    <3>1. H(s + 1, f, r) = H(s, f, r) + H(s, g, r)
      BY <2>2, <2>6, HOfHalves DEF g
    <3>2. T * y[r] \in Int /\ T * u[r] \in Int /\ (2 * T) * y[r] = T * y[r] + T * y[r]
      BY <2>1, <2>5, <2>6
    <3>3. H(s + 1, f, r) = T * y[r] + T * y[r]
      BY <2>5, <2>6, <3>1, <3>2
    <3> QED BY <2>1, <3>2, <3>3 DEF f
  <2>7. CASE \E j \in 0..T - 1 : r = j + T
    <3>1. PICK j \in 0..T - 1 : r = j + T
      BY <2>7
    <3>2. H(s + 1, f, j + T) = H(s, f, j) - H(s, g, j)
      BY <2>2, HOfHalves DEF g
    <3>3. T * y[j] \in Int /\ T * u[j] \in Int /\ (2 * T) * u[j] = T * u[j] + T * u[j]
      BY <2>1, <2>5
    <3>4. H(s + 1, f, j + T) = T * u[j] + T * u[j]
      BY <2>5, <3>2, <3>3
    <3>5. u[j] = y[r]
      BY <2>5, <3>1
    <3> QED BY <2>1, <3>1, <3>3, <3>4, <3>5 DEF f
  <2> QED BY <2>6, <2>7, IndexHalves
<1>3. \A s \in Nat : s \in S
  <2> HIDE DEF S
  <2> QED BY <1>1, <1>2, SetInduction
<1> QED BY <1>3

-----------------------------------------------------------------------------
\* Dyadic convolution: the product, number by number, of two transforms is the
\* transform of the convolution of what they transform.
XorTerms(j, k) == [t \in Nat |-> TwoTo(t) * ((Bit(j, t) + Bit(k, t)) % 2)]
XorOf(j, k, s) == Sum(XorTerms(j, k), s)
ConvTerms(s, a, b, k) == [j \in Nat |-> a[j] * b[XorOf(j, k, s)]]
Conv(s, a, b, k) == Sum(ConvTerms(s, a, b, k), TwoTo(s))
ConvAll(s, a, b) == [k \in Nat |-> Conv(s, a, b, k)]

LEMMA XorTermsOf ==
  ASSUME NEW j \in Int, NEW k \in Int
  PROVE  XorTerms(j, k) \in [Nat -> Nat] /\ \A s \in Nat : XorOf(j, k, s) \in Nat
<1>1. ASSUME NEW t \in Nat PROVE TwoTo(t) * ((Bit(j, t) + Bit(k, t)) % 2) \in Nat
  <2>1. Bit(j, t) \in 0..1 /\ Bit(k, t) \in 0..1 /\ TwoTo(t) \in Nat
    BY BitOf, TwoToDoubles
  <2>2. (Bit(j, t) + Bit(k, t)) % 2 \in Nat
    BY <2>1
  <2> QED BY <2>1, <2>2
<1>2. XorTerms(j, k) \in [Nat -> Nat]
  BY <1>1 DEF XorTerms
<1> QED BY <1>2, SumNat DEF XorOf

LEMMA XorOfHalves ==
  ASSUME NEW s \in Nat, NEW j \in 0..TwoTo(s) - 1, NEW k \in 0..TwoTo(s) - 1,
         NEW half \in 0..1, NEW other \in 0..1
  PROVE  XorOf(j + TwoTo(s) * half, k + TwoTo(s) * other, s + 1)
           = IF half = other THEN XorOf(j, k, s) ELSE XorOf(j, k, s) + TwoTo(s)
<1> DEFINE j2 == j + TwoTo(s) * half
           k2 == k + TwoTo(s) * other
           f == XorTerms(j, k)
           g == XorTerms(j2, k2)
<1>1. j \in Int /\ k \in Int /\ j2 \in Int /\ k2 \in Int /\ TwoTo(s) \in Nat
  <2>1. TwoTo(s) \in Nat
    BY TwoToDoubles
  <2> QED BY <2>1
<1>2. \A t \in 0..s - 1 : Bit(j2, t) = Bit(j, t) /\ Bit(k2, t) = Bit(k, t)
  BY BitsOfHalves
<1>3. Bit(j2, s) = half /\ Bit(k2, s) = other
  BY BitsOfHalves
<1> HIDE DEF j2, k2
<1>4. g \in [Nat -> Int]
  <2>1. g \in [Nat -> Nat]
    BY <1>1, XorTermsOf
  <2> HIDE DEF g
  <2> QED BY <2>1
<1>5. \A t \in 0..s - 1 : f[t] = g[t]
  BY <1>2 DEF XorTerms
<1>6. g[s] = TwoTo(s) * ((half + other) % 2)
  BY <1>3 DEF XorTerms
<1>7. g[s] = IF half = other THEN 0 ELSE TwoTo(s)
  BY <1>1, <1>6
<1>8. XorOf(j, k, s) = Sum(f, s) /\ XorOf(j2, k2, s + 1) = Sum(g, s + 1)
  BY DEF XorOf
<1>9. XorOf(j, k, s) \in Nat
  BY <1>1, XorTermsOf
<1> HIDE DEF f, g
<1>10. Sum(f, s) = Sum(g, s)
  BY <1>5, SumSame
<1>11. Sum(g, s + 1) = Sum(g, s) + g[s]
  BY <1>4, SumStep
<1> QED BY <1>1, <1>7, <1>8, <1>9, <1>10, <1>11 DEF j2, k2

LEMMA XorBelow ==
  \A s \in Nat : \A j, k \in 0..TwoTo(s) - 1 : XorOf(j, k, s) \in 0..TwoTo(s) - 1
<1> DEFINE S == {s \in Nat : \A j, k \in 0..TwoTo(s) - 1 : XorOf(j, k, s) \in 0..TwoTo(s) - 1}
<1>1. 0 \in S
  <2> SUFFICES ASSUME NEW j \in 0..TwoTo(0) - 1, NEW k \in 0..TwoTo(0) - 1 PROVE XorOf(j, k, 0) \in 0..TwoTo(0) - 1
    OBVIOUS
  <2>1. TwoTo(0) = 1 /\ j \in Int /\ k \in Int
    BY TwoToDoubles
  <2>2. XorTerms(j, k) \in [Nat -> Int]
    <3>1. XorTerms(j, k) \in [Nat -> Nat]
      BY <2>1, XorTermsOf
    <3> QED BY <3>1
  <2>3. XorOf(j, k, 0) = 0
    BY <2>2, SumStep DEF XorOf
  <2> QED BY <2>1, <2>3
<1>2. ASSUME NEW s \in Nat, s \in S PROVE s + 1 \in S
  <2> SUFFICES ASSUME NEW j \in 0..TwoTo(s + 1) - 1, NEW k \in 0..TwoTo(s + 1) - 1
               PROVE  XorOf(j, k, s + 1) \in 0..TwoTo(s + 1) - 1
    OBVIOUS
  <2> DEFINE T == TwoTo(s)
  <2>1. T \in Nat /\ TwoTo(s + 1) = 2 * T
    BY TwoToDoubles
  <2>2. PICK j1 \in 0..T - 1, half \in 0..1 : j = j1 + T * half
    <3>1. PICK zero \in 0..1, one \in 0..1 : zero = 0 /\ one = 1
      OBVIOUS
    <3>2. \A l \in 0..T - 1 : l = l + T * zero /\ l + T = l + T * one
      BY <2>1, <3>1
    <3> QED BY <3>2, IndexHalves
  <2>3. PICK k1 \in 0..T - 1, other \in 0..1 : k = k1 + T * other
    <3>1. PICK zero \in 0..1, one \in 0..1 : zero = 0 /\ one = 1
      OBVIOUS
    <3>2. \A l \in 0..T - 1 : l = l + T * zero /\ l + T = l + T * one
      BY <2>1, <3>1
    <3> QED BY <3>2, IndexHalves
  <2>4. XorOf(j1, k1, s) \in 0..T - 1
    BY <1>2
  <2>5. XorOf(j, k, s + 1) = IF half = other THEN XorOf(j1, k1, s) ELSE XorOf(j1, k1, s) + T
    BY <2>2, <2>3, XorOfHalves
  <2> QED BY <2>1, <2>4, <2>5
<1>3. \A s \in Nat : s \in S
  <2> HIDE DEF S
  <2> QED BY <1>1, <1>2, SetInduction
<1> QED BY <1>3

LEMMA ConvTermsOf ==
  ASSUME NEW s \in Nat, NEW a \in [Nat -> Int], NEW b \in [Nat -> Int], NEW k \in Int
  PROVE  ConvTerms(s, a, b, k) \in [Nat -> Int] /\ Conv(s, a, b, k) \in Int
<1>1. ASSUME NEW j \in Nat PROVE a[j] * b[XorOf(j, k, s)] \in Int
  <2>1. XorOf(j, k, s) \in Nat
    BY XorTermsOf
  <2>2. a[j] \in Int /\ b[XorOf(j, k, s)] \in Int
    BY <2>1
  <2> QED BY <2>2
<1>2. ConvTerms(s, a, b, k) \in [Nat -> Int]
  BY <1>1 DEF ConvTerms
<1>3. TwoTo(s) \in Nat
  BY TwoToDoubles
<1> QED BY <1>2, <1>3, SumStep DEF Conv

\* The half of the sum that an index in one half of a adds.
LEMMA ConvOfHalves ==
  ASSUME NEW s \in Nat, NEW a \in [Nat -> Int], NEW b \in [Nat -> Int],
         NEW k \in 0..TwoTo(s) - 1, NEW other \in 0..1
  PROVE  Conv(s + 1, a, b, k + TwoTo(s) * other)
           = IF other = 1 THEN Conv(s, a, Upper(s, b), k) + Conv(s, Upper(s, a), b, k)
             ELSE Conv(s, a, b, k) + Conv(s, Upper(s, a), Upper(s, b), k)
<1> DEFINE T == TwoTo(s)
           k2 == k + T * other
           same == IF other = 1 THEN Upper(s, b) ELSE b
           cross == IF other = 1 THEN b ELSE Upper(s, b)
           u == Upper(s, a)
           f == ConvTerms(s + 1, a, b, k2)
           low == ConvTerms(s, a, same, k)
           high == ConvTerms(s, u, cross, k)
           rest == [j \in Nat |-> f[T + j]]
<1>1. T \in Nat /\ TwoTo(s + 1) = T + T /\ k \in Int /\ k2 \in Int /\ s + 1 \in Nat
  <2>1. T \in Nat /\ TwoTo(s + 1) = T + T
    BY TwoToDoubles
  <2> QED BY <2>1
<1>2. u \in [Nat -> Int] /\ same \in [Nat -> Int] /\ cross \in [Nat -> Int]
  BY HAllOf
<1>3. f \in [Nat -> Int]
  <2> HIDE DEF k2
  <2> QED BY <1>1, ConvTermsOf
<1>4. \A j \in 0..T - 1 : f[j] = low[j]
  <2> SUFFICES ASSUME NEW j \in 0..T - 1 PROVE f[j] = low[j]
    OBVIOUS
  <2> DEFINE e == XorOf(j, k, s)
  <2>1. PICK half \in 0..1 : half = 0
    OBVIOUS
  <2>2. j + T * half = j /\ j \in Nat
    BY <1>1, <2>1
  <2>3. XorOf(j + T * half, k2, s + 1) = IF half = other THEN e ELSE e + T
    BY XorOfHalves
  <2>4. e \in Nat
    BY <1>1, <2>2, XorTermsOf
  <2> HIDE DEF e, k2
  <2>5. f[j] = a[j] * b[XorOf(j, k2, s + 1)]
    BY <2>2 DEF ConvTerms
  <2>6. low[j] = a[j] * same[e]
    BY <2>2 DEF ConvTerms, e
  <2>7. b[XorOf(j, k2, s + 1)] = same[e]
    BY <2>1, <2>2, <2>3, <2>4 DEF Upper
  <2> QED BY <2>5, <2>6, <2>7
<1>5. \A j \in 0..T - 1 : rest[j] = high[j]
  <2> SUFFICES ASSUME NEW j \in 0..T - 1 PROVE rest[j] = high[j]
    OBVIOUS
  <2> DEFINE e == XorOf(j, k, s)
  <2>1. PICK half \in 0..1 : half = 1
    OBVIOUS
  <2>2. j + T * half = T + j /\ j \in Nat /\ T + j \in Nat /\ j + T = T + j
    BY <1>1, <2>1
  <2>3. XorOf(j + T * half, k2, s + 1) = IF half = other THEN e ELSE e + T
    BY XorOfHalves
  <2>4. e \in Nat
    BY <1>1, <2>2, XorTermsOf
  <2> HIDE DEF e, k2
  <2>5. rest[j] = a[T + j] * b[XorOf(T + j, k2, s + 1)]
    BY <2>2 DEF ConvTerms
  <2>6. high[j] = u[j] * cross[e] /\ u[j] = a[T + j]
    BY <2>2 DEF ConvTerms, e, Upper
  <2>7. b[XorOf(T + j, k2, s + 1)] = cross[e]
    BY <2>1, <2>2, <2>3, <2>4 DEF Upper
  <2> HIDE DEF u, cross, rest, high
  <2> QED BY <2>5, <2>6, <2>7
<1>6. Conv(s + 1, a, b, k2) = Sum(f, T + T) /\ Conv(s, a, same, k) = Sum(low, T) /\ Conv(s, u, cross, k) = Sum(high, T)
  BY <1>1 DEF Conv
<1>7. Sum(f, T + T) = Sum(f, T) + Sum(rest, T)
  <2> HIDE DEF f, T
  <2> QED BY <1>1, <1>3, SumSplit
<1> HIDE DEF f, low, rest, high
<1>8. Sum(f, T) = Sum(low, T) /\ Sum(rest, T) = Sum(high, T)
  BY <1>1, <1>4, <1>5, SumSame
<1>9. Conv(s + 1, a, b, k2) = Conv(s, a, same, k) + Conv(s, u, cross, k)
  BY <1>6, <1>7, <1>8
<1> QED BY <1>9

LEMMA ConvAllOf ==
  ASSUME NEW s \in Nat, NEW a \in [Nat -> Int], NEW b \in [Nat -> Int]
  PROVE  ConvAll(s, a, b) \in [Nat -> Int]
<1>1. ASSUME NEW k \in Nat PROVE Conv(s, a, b, k) \in Int
  <2>1. k \in Int
    OBVIOUS
  <2> QED BY <2>1, ConvTermsOf
<1> QED BY <1>1 DEF ConvAll

LEMMA ConvUpper ==
  ASSUME NEW s \in Nat, NEW a \in [Nat -> Int], NEW b \in [Nat -> Int], NEW k \in 0..TwoTo(s) - 1
  PROVE  /\ ConvAll(s + 1, a, b)[k] = Conv(s, a, b, k) + Conv(s, Upper(s, a), Upper(s, b), k)
         /\ Upper(s, ConvAll(s + 1, a, b))[k] = Conv(s, a, Upper(s, b), k) + Conv(s, Upper(s, a), b, k)
<1>1. TwoTo(s) \in Nat /\ k \in Nat
  BY TwoToDoubles
<1>2. PICK zero \in 0..1, one \in 0..1 : zero = 0 /\ one = 1
  OBVIOUS
<1>3. k + TwoTo(s) * zero = k /\ k + TwoTo(s) * one = k + TwoTo(s) /\ k + TwoTo(s) \in Nat
  BY <1>1, <1>2
<1>4. Conv(s + 1, a, b, k) = Conv(s, a, b, k) + Conv(s, Upper(s, a), Upper(s, b), k)
  <2>1. Conv(s + 1, a, b, k + TwoTo(s) * zero) = Conv(s, a, b, k) + Conv(s, Upper(s, a), Upper(s, b), k)
    BY <1>2, ConvOfHalves
  <2> QED BY <1>3, <2>1
<1>5. Conv(s + 1, a, b, k + TwoTo(s)) = Conv(s, a, Upper(s, b), k) + Conv(s, Upper(s, a), b, k)
  <2>1. Conv(s + 1, a, b, k + TwoTo(s) * one) = Conv(s, a, Upper(s, b), k) + Conv(s, Upper(s, a), b, k)
    BY <1>2, ConvOfHalves
  <2> QED BY <1>3, <2>1
<1> QED BY <1>1, <1>3, <1>4, <1>5 DEF ConvAll, Upper

SumOfTwo(f, a, b, len) == \A j \in 0..len - 1 : f[j] = a[j] + b[j]

LEMMA HOfSum ==
  ASSUME NEW s \in Nat, NEW a \in [Nat -> Int], NEW b \in [Nat -> Int],
         NEW f \in [Nat -> Int], SumOfTwo(f, a, b, TwoTo(s)), NEW r \in Int
  PROVE  H(s, f, r) = H(s, a, r) + H(s, b, r)
<1>1. PICK one \in Int : one = 1
  OBVIOUS
<1>2. TwoTo(s) \in Nat /\ \A j \in 0..TwoTo(s) - 1 : a[j] \in Int /\ b[j] \in Int
  <2>1. TwoTo(s) \in Nat
    BY TwoToDoubles
  <2> QED BY <2>1
<1>3. Combines(f, one, a, one, b, TwoTo(s))
  BY <1>1, <1>2 DEF Combines, SumOfTwo
<1>4. H(s, f, r) = one * H(s, a, r) + one * H(s, b, r)
  BY <1>3, HLinear
<1>5. H(s, a, r) \in Int /\ H(s, b, r) \in Int
  BY TermsOf
<1> QED BY <1>1, <1>4, <1>5

LEMMA HOfConv ==
  \A s \in Nat : \A a, b \in [Nat -> Int] : \A r \in 0..TwoTo(s) - 1 :
    H(s, ConvAll(s, a, b), r) = H(s, a, r) * H(s, b, r)
<1> DEFINE Converts(s) == \A a, b \in [Nat -> Int] : \A r \in 0..TwoTo(s) - 1 :
                            H(s, ConvAll(s, a, b), r) = H(s, a, r) * H(s, b, r)
           S == {s \in Nat : Converts(s)}
<1>1. 0 \in S
  <2> SUFFICES ASSUME NEW a \in [Nat -> Int], NEW b \in [Nat -> Int], NEW r \in 0..TwoTo(0) - 1
               PROVE  H(0, ConvAll(0, a, b), r) = H(0, a, r) * H(0, b, r)
    OBVIOUS
  <2>1. TwoTo(0) = 1 /\ r = 0
    BY TwoToDoubles
  <2>2. PICK zero \in Nat : zero = 0
    OBVIOUS
  <2> DEFINE c == ConvAll(zero, a, b)
             f == ConvTerms(zero, a, b, zero)
  <2>3. c \in [Nat -> Int] /\ f \in [Nat -> Int]
    <3>1. c \in [Nat -> Int]
      BY ConvAllOf
    <3>2. zero \in Int
      BY <2>2
    <3>3. f \in [Nat -> Int]
      BY <3>2, ConvTermsOf
    <3> QED BY <3>1, <3>3
  <2>4. c[0] = Sum(f, 1)
    BY <2>1, <2>2 DEF ConvAll, Conv
  <2>5. XorOf(0, 0, 0) = 0
    <3>1. zero \in 0..TwoTo(zero) - 1
      BY <2>1, <2>2
    <3>2. XorOf(zero, zero, zero) \in 0..TwoTo(zero) - 1
      BY <3>1, XorBelow
    <3> QED BY <2>1, <2>2, <3>2
  <2>6. f[0] = a[0] * b[0]
    BY <2>2, <2>5 DEF ConvTerms
  <2> HIDE DEF f
  <2>7. Sum(f, 0 + 1) = Sum(f, 0) + f[0] /\ Sum(f, 0) = 0 /\ f[0] \in Int
    BY <2>3, SumStep
  <2>8. c[0] = a[0] * b[0]
    BY <2>4, <2>6, <2>7
  <2> HIDE DEF c
  <2>9. H(0, c, 0) = c[0] /\ H(0, a, 0) = a[0] /\ H(0, b, 0) = b[0]
    BY <2>3, HZero
  <2> QED BY <2>1, <2>2, <2>8, <2>9 DEF c
<1>2. ASSUME NEW s \in Nat, s \in S PROVE s + 1 \in S
  <2> SUFFICES ASSUME NEW a \in [Nat -> Int], NEW b \in [Nat -> Int], NEW r \in 0..TwoTo(s + 1) - 1
               PROVE  H(s + 1, ConvAll(s + 1, a, b), r) = H(s + 1, a, r) * H(s + 1, b, r)
    OBVIOUS
  <2> DEFINE T == TwoTo(s)
             ua == Upper(s, a)
             ub == Upper(s, b)
             c == ConvAll(s + 1, a, b)
             uc == Upper(s, c)
             c1 == ConvAll(s, a, b)
             c2 == ConvAll(s, ua, ub)
             c3 == ConvAll(s, a, ub)
             c4 == ConvAll(s, ua, b)
  <2>1. T \in Nat /\ s + 1 \in Nat
    BY TwoToDoubles
  <2>2. ua \in [Nat -> Int] /\ ub \in [Nat -> Int]
    BY HAllOf
  <2>3. c \in [Nat -> Int]
    BY <2>1, ConvAllOf
  <2>4. uc \in [Nat -> Int]
    <3> HIDE DEF c
    <3> QED BY <2>3, HAllOf
  <2>5. c1 \in [Nat -> Int] /\ c2 \in [Nat -> Int] /\ c3 \in [Nat -> Int] /\ c4 \in [Nat -> Int]
    <3> HIDE DEF ua, ub
    <3> QED BY <2>2, ConvAllOf
  <2>6. SumOfTwo(c, c1, c2, T) /\ SumOfTwo(uc, c3, c4, T)
    <3> SUFFICES ASSUME NEW j \in 0..T - 1 PROVE c[j] = c1[j] + c2[j] /\ uc[j] = c3[j] + c4[j]
      BY DEF SumOfTwo
    <3>1. j \in Nat
      OBVIOUS
    <3>2. c1[j] = Conv(s, a, b, j) /\ c2[j] = Conv(s, ua, ub, j) /\ c3[j] = Conv(s, a, ub, j) /\ c4[j] = Conv(s, ua, b, j)
      BY <3>1 DEF ConvAll
    <3> QED BY <3>2, ConvUpper
  <2> HIDE DEF ua, ub, c, uc, c1, c2, c3, c4
  <2>7. ASSUME NEW j \in 0..T - 1
        PROVE  LET p == H(s, a, j)
                   v == H(s, ua, j)
                   x == H(s, b, j)
                   y == H(s, ub, j)
               IN  /\ H(s, c, j) = p * x + v * y
                   /\ H(s, uc, j) = p * y + v * x
                   /\ p \in Int /\ v \in Int /\ x \in Int /\ y \in Int
                   /\ H(s + 1, a, j) = p + v /\ H(s + 1, a, j + T) = p - v
                   /\ H(s + 1, b, j) = x + y /\ H(s + 1, b, j + T) = x - y
                   /\ H(s + 1, c, j) = H(s, c, j) + H(s, uc, j)
                   /\ H(s + 1, c, j + T) = H(s, c, j) - H(s, uc, j)
    <3>1. j \in Int
      OBVIOUS
    <3>2. H(s, c, j) = H(s, c1, j) + H(s, c2, j) /\ H(s, uc, j) = H(s, c3, j) + H(s, c4, j)
      BY <2>3, <2>4, <2>5, <2>6, <3>1, HOfSum
    <3>3. /\ H(s, c1, j) = H(s, a, j) * H(s, b, j) /\ H(s, c2, j) = H(s, ua, j) * H(s, ub, j)
          /\ H(s, c3, j) = H(s, a, j) * H(s, ub, j) /\ H(s, c4, j) = H(s, ua, j) * H(s, b, j)
      BY <1>2, <2>2 DEF c1, c2, c3, c4
    <3>4. H(s, a, j) \in Int /\ H(s, ua, j) \in Int /\ H(s, b, j) \in Int /\ H(s, ub, j) \in Int
      BY <2>2, <3>1, TermsOf
    <3>5. /\ H(s + 1, a, j) = H(s, a, j) + H(s, ua, j) /\ H(s + 1, a, j + T) = H(s, a, j) - H(s, ua, j)
          /\ H(s + 1, b, j) = H(s, b, j) + H(s, ub, j) /\ H(s + 1, b, j + T) = H(s, b, j) - H(s, ub, j)
      BY HOfHalves DEF ua, ub
    <3>6. H(s + 1, c, j) = H(s, c, j) + H(s, uc, j) /\ H(s + 1, c, j + T) = H(s, c, j) - H(s, uc, j)
      BY <2>3, HOfHalves DEF uc
    <3> QED BY <3>2, <3>3, <3>4, <3>5, <3>6
  <2>8. \A p, v, x, y \in Int : /\ (p + v) * (x + y) = (p * x + v * y) + (p * y + v * x)
                                /\ (p - v) * (x - y) = (p * x + v * y) - (p * y + v * x)
    OBVIOUS
  <2>9. CASE r \in 0..T - 1
    BY <2>7, <2>8, <2>9 DEF c
  <2>10. CASE \E j \in 0..T - 1 : r = j + T
    <3>1. PICK j \in 0..T - 1 : r = j + T
      BY <2>10
    <3> QED BY <2>7, <2>8, <3>1 DEF c
  <2> QED BY <2>9, <2>10, IndexHalves
<1>3. \A s \in Nat : s \in S
  <2> HIDE DEF S
  <2> QED BY <1>1, <1>2, SetInduction
<1> QED BY <1>3

-----------------------------------------------------------------------------
\* A call.
LEMMA StagesOf ==
  ASSUME NEW n \in Nat, n > 0, IsPowerOfTwo(n)
  PROVE  Stages(n) \in Nat /\ TwoTo(Stages(n)) = n /\ (n > 1 => Stages(n) > 0)
<1>1. \E s \in 0..n : TwoTo(s) = n
  BY DEF IsPowerOfTwo
<1>2. Stages(n) \in 0..n /\ TwoTo(Stages(n)) = n
  BY <1>1 DEF Stages
<1>3. n > 1 => Stages(n) # 0
  BY <1>2, TwoToDoubles
<1> QED BY <1>2, <1>3

LEMMA OmegaOf ==
  ASSUME NEW q, Prime(q), NEW n \in Nat, n > 0, NEW invert \in BOOLEAN
  PROVE  Omega(q, n, invert) \in Int
<1>1. q \in Nat /\ q > 0 /\ q - 2 \in Nat
  BY DEF Prime
<1> DEFINE omega == IF q = 3329 THEN 1729 ELSE IF q = 7681 THEN 2667 ELSE Power(2, (q - 1) \div n, q)
<1>2. Power(2, (q - 1) \div n, q) \in Int
  <2>1. PICK two \in Int : two = 2
    OBVIOUS
  <2>2. (q - 1) \div n \in Nat
    BY <1>1
  <2>3. Power(two, (q - 1) \div n, q) \in 0..q - 1
    BY <1>1, <2>2, PowerStep
  <2> QED BY <1>1, <2>1, <2>3
<1>3. omega \in Int
  BY <1>2
<1> HIDE DEF omega
<1>4. Power(omega, q - 2, q) \in Int
  <2>1. Power(omega, q - 2, q) \in 0..q - 1
    BY <1>1, <1>3, PowerStep
  <2> QED BY <1>1, <2>1
<1> QED BY <1>3, <1>4 DEF Omega, omega

\* The transform is the Walsh transform of the weighted coefficients,
LEMMA ForwardIsWalsh ==
  ASSUME NEW q, Prime(q), NEW n \in Nat, n > 1, IsPowerOfTwo(n),
         NEW x \in [0..n - 1 -> Int], Length(x) = n, NEW k \in 0..n - 1
  PROVE  Ntt(x, q, FALSE)[k] = Walsh(x, q, FALSE, k)
<1> DEFINE m == Stages(n)
           z == Transformed(x, q, FALSE)
           h == H(m, Weighted(x, q, n, m, FALSE), k)
<1>1. q \in Nat /\ q > 1 /\ q > 0 /\ n > 0 /\ k \in Int
  BY DEF Prime
<1>2. m \in Nat /\ TwoTo(m) = n /\ m > 0 /\ Stages(n) = m
  BY <1>1, StagesOf
<1>3. Omega(q, n, FALSE) \in Int
  BY <1>1, OmegaOf
<1>4. Ntt(x, q, FALSE)[k] = z[k]
  <2>1. Length(x) # 0
    BY <1>1
  <2>2. Ntt(x, q, FALSE) = z
    BY <2>1, Zenon DEF Ntt
  <2> QED BY <2>2
<1> HIDE DEF m
<1>5. z \in [0..n - 1 -> 0..q - 1]
  BY <1>1, <1>2, <1>3, TransformedReaches
<1>6. Cong(z[k], h, q) /\ h \in Int
  <2>1. Weighted(x, q, n, m, FALSE) \in [Nat -> Int] /\ Cong(z[k], h, q)
    BY <1>1, <1>2, <1>3, WeightedReached
  <2> QED BY <1>1, <1>2, <2>1, TermsOf
<1>7. Walsh(x, q, FALSE, k) = h % q
  <2>1. \A invert : Omega(q, n, invert) \in Int =>
          Walsh(x, q, invert, k) = H(m, Weighted(x, q, n, m, invert), k) % q
    BY <1>1, <1>2, WalshReached
  <2> QED BY <1>3, <2>1, Zenon
<1> HIDE DEF z, h
<1>8. z[k] \in 0..q - 1 /\ z[k] \in Int
  BY <1>1, <1>5
<1>9. Cong(h, z[k], q)
  BY <1>1, <1>6, <1>8, CongSymmetric
<1>10. z[k] = h % q
  BY <1>1, <1>6, <1>8, <1>9, CongResidue
<1> QED BY <1>4, <1>7, <1>10

\* Times the length, the last step of the inverse transform is undone.
LEMMA LengthTimes ==
  ASSUME NEW q, Prime(q), NEW n \in Nat, n > 0, IsPowerOfTwo(n), n % q # 0,
         NEW x \in [0..n - 1 -> Int], Length(x) = n, NEW k \in 0..n - 1,
         Transformed(x, q, TRUE)[k] \in Int
  PROVE  /\ Ntt(x, q, TRUE)[k] \in 0..q - 1
         /\ Cong(n * Ntt(x, q, TRUE)[k], Transformed(x, q, TRUE)[k], q)
         /\ Cong(Ntt(x, q, TRUE)[k], Transformed(x, q, TRUE)[k] * Power(n, q - 2, q), q)
         /\ Power(n, q - 2, q) \in Int
<1> DEFINE z == Transformed(x, q, TRUE)[k]
           p == Power(n, q - 2, q)
           y == Ntt(x, q, TRUE)[k]
<1>1. q \in Nat /\ q > 0
  BY DEF Prime
<1>2. p \in Int /\ Cong(n * p, 1, q)
  <2>1. Stages(n) \in Nat /\ n = TwoTo(Stages(n))
    BY StagesOf
  <2> QED BY <2>1, InverseOfLength
<1>3. y = (z * p) % q
  <2>1. k \in DOMAIN x /\ n # 0
    OBVIOUS
  <2> QED BY <2>1 DEF Ntt
<1> HIDE DEF z, p, y
<1>4. z \in Int
  BY DEF z
<1>5. z * p \in Int /\ n * p \in Int
  BY <1>2, <1>4
<1>6. Cong(y, z * p, q) /\ y \in 0..q - 1 /\ y \in Int
  BY <1>1, <1>3, <1>5, CongMod
<1>7. Cong(n * y, n * (z * p), q)
  <2> DEFINE zp == z * p
  <2>1. zp \in Int /\ Cong(y, zp, q) /\ n \in Int
    BY <1>5, <1>6
  <2> HIDE DEF zp
  <2>2. Cong(n * y, n * zp, q)
    BY <1>1, <1>6, <2>1, CongTimes
  <2> QED BY <2>2 DEF zp
<1>8. PICK one \in Int : one = 1
  OBVIOUS
<1>9. Cong(z * (n * p), z * one, q)
  BY <1>1, <1>2, <1>4, <1>5, <1>8, CongTimes
<1>10. n * (z * p) = z * (n * p) /\ z * one = z
  BY <1>2, <1>4, <1>8
<1>11. Cong(n * y, z, q)
  <2>1. n * y \in Int /\ n * (z * p) \in Int
    BY <1>5, <1>6
  <2>2. Cong(n * (z * p), z, q)
    BY <1>9, <1>10
  <2> QED BY <1>1, <1>4, <1>7, <2>1, <2>2, CongTransitive
<1> QED BY <1>2, <1>6, <1>11 DEF y, z, p

\* and, divided by the length, so is the inverse one.
LEMMA InverseIsWalsh ==
  ASSUME NEW q, Prime(q), NEW n \in Nat, n > 1, IsPowerOfTwo(n), n % q # 0,
         NEW x \in [0..n - 1 -> Int], Length(x) = n, NEW k \in 0..n - 1
  PROVE  (n * Ntt(x, q, TRUE)[k]) % q = Walsh(x, q, TRUE, k)
<1> DEFINE m == Stages(n)
           z == Transformed(x, q, TRUE)
           y == Ntt(x, q, TRUE)[k]
           h == H(m, Weighted(x, q, n, m, TRUE), k)
<1>1. q \in Nat /\ q > 1 /\ q > 0 /\ n > 0 /\ k \in Int
  BY DEF Prime
<1>2. m \in Nat /\ TwoTo(m) = n /\ m > 0 /\ Stages(n) = m
  BY <1>1, StagesOf
<1> HIDE DEF m
<1>3. Omega(q, n, TRUE) \in Int
  BY <1>1, OmegaOf
<1>4. z \in [0..n - 1 -> 0..q - 1]
  BY <1>1, <1>2, <1>3, TransformedReaches
<1>5. z[k] \in Int
  <2> HIDE DEF z
  <2>1. z[k] \in 0..q - 1
    BY <1>4
  <2> QED BY <1>1, <2>1
<1>6. Cong(z[k], h, q) /\ h \in Int
  <2>1. Weighted(x, q, n, m, TRUE) \in [Nat -> Int] /\ Cong(z[k], h, q)
    BY <1>1, <1>2, <1>3, WeightedReached
  <2> QED BY <1>1, <1>2, <2>1, TermsOf
<1>7. Walsh(x, q, TRUE, k) = h % q
  <2>1. \A invert : Omega(q, n, invert) \in Int =>
          Walsh(x, q, invert, k) = H(m, Weighted(x, q, n, m, invert), k) % q
    BY <1>1, <1>2, WalshReached
  <2> QED BY <1>3, <2>1, Zenon
<1>8. y \in 0..q - 1 /\ Cong(n * y, z[k], q)
  BY <1>1, <1>5, LengthTimes
<1> HIDE DEF z, h, y
<1>9. n * y \in Int
  <2>1. y \in Int
    BY <1>1, <1>8
  <2> QED BY <2>1
<1>10. Cong(n * y, h, q)
  BY <1>1, <1>5, <1>6, <1>8, <1>9, CongTransitive
<1>11. (n * y) % q = h % q
  BY <1>1, <1>6, <1>9, <1>10, CongEqual
<1> QED BY <1>7, <1>11 DEF y

-----------------------------------------------------------------------------
\* Where all factors are 1.
LEMMA PowerOfOne ==
  ASSUME NEW q \in Nat, q > 1
  PROVE  \A e \in Nat : Power(1, e, q) = 1
<1> DEFINE S == {e \in Nat : Power(1, e, q) = 1}
<1>1. PICK one \in Int : one = 1
  OBVIOUS
<1>2. q > 0 /\ 1 % q = 1
  OBVIOUS
<1>3. 0 \in S
  <2>1. Power(one, 0, q) = 1 % q
    BY <1>2, PowerStep
  <2> QED BY <1>1, <1>2, <2>1
<1>4. ASSUME NEW e \in Nat, e \in S PROVE e + 1 \in S
  <2>1. Power(one, e + 1, q) = (Power(one, e, q) * one) % q
    BY <1>2, PowerStep
  <2>2. Power(one, e, q) = 1
    BY <1>1, <1>4
  <2>3. Power(one, e + 1, q) = 1
    BY <1>1, <1>2, <2>1, <2>2
  <2> QED BY <1>1, <2>3
<1>5. \A e \in Nat : e \in S
  <2> HIDE DEF S
  <2> QED BY <1>3, <1>4, SetInduction
<1> QED BY <1>5

LEMMA OmegaIsOne ==
  ASSUME NEW q, Prime(q), NEW n, OneFactor(q, n), NEW invert \in BOOLEAN
  PROVE  Omega(q, n, invert) = 1
<1>1. Omega(q, n, FALSE) = 1
  BY DEF OneFactor
<1>2. Omega(q, n, TRUE) = Power(Omega(q, n, FALSE), q - 2, q)
  BY DEF Omega
<1>3. Power(1, q - 2, q) = 1
  <2>1. q \in Nat /\ q > 1 /\ q - 2 \in Nat
    BY DEF Prime
  <2> QED BY <2>1, PowerOfOne
<1>4. CASE invert = TRUE
  BY <1>1, <1>2, <1>3, <1>4
<1>5. CASE invert = FALSE
  BY <1>1, <1>5
<1> QED BY <1>4, <1>5

LEMMA Unweighted ==
  ASSUME NEW q, Prime(q), NEW n \in Nat, OneFactor(q, n), NEW x \in [0..n - 1 -> Int], NEW m \in Nat,
         NEW invert \in BOOLEAN
  PROVE  Weighted(x, q, n, m, invert) = Extended(x, n)
<1> DEFINE X == Extended(x, n)
<1>1. q \in Nat /\ q > 1
  BY DEF Prime
<1>2. Omega(q, n, invert) = 1
  BY OmegaIsOne
<1>3. ASSUME NEW j \in Nat PROVE Weights(Omega(q, n, invert), m, m, q)[j] * X[j] = X[j]
  <2>0. j \in Int
    OBVIOUS
  <2>1. Rev(j, m, m) \in Nat
    BY <2>0, RevOf
  <2>2. Power(1, Rev(j, m, m), q) = 1
    BY <1>1, <2>1, PowerOfOne
  <2>3. Weights(Omega(q, n, invert), m, m, q)[j] = 1
    BY <1>2, <2>2 DEF Weights
  <2>4. X[j] \in Int
    BY ExtendedOf
  <2> HIDE DEF X
  <2> QED BY <2>3, <2>4
<1>4. X = [j \in Nat |-> X[j]]
  BY DEF Extended
<1> HIDE DEF X
<1>5. Weighted(x, q, n, m, invert) = [j \in Nat |-> Weights(Omega(q, n, invert), m, m, q)[j] * X[j]]
  BY DEF Weighted, X
<1> QED BY <1>3, <1>4, <1>5 DEF X

LEMMA LengthOf ==
  ASSUME NEW n \in Nat, NEW x, DOMAIN x = 0..n - 1
  PROVE  Length(x) = n
<1>1. Cardinality(0..n - 1) = IF 0 > n - 1 THEN 0 ELSE (n - 1) - 0 + 1
  <2>1. PICK zero \in Int : zero = 0
    OBVIOUS
  <2>2. n - 1 \in Int
    OBVIOUS
  <2>3. Cardinality(zero..n - 1) = IF zero > n - 1 THEN 0 ELSE (n - 1) - zero + 1
    BY <2>2, FS_Interval
  <2> QED BY <2>1, <2>3
<1> QED BY <1>1 DEF Length

\* What a transform with factors of 1 reaches.
Reached(p, m, C, q) == \A j \in 0..TwoTo(m) - 1 : Cong(p[j], H(m, C, j), q)

LEMMA ReachedByTransform ==
  ASSUME NEW q, Prime(q), NEW n \in Nat, n > 1, IsPowerOfTwo(n), OneFactor(q, n),
         NEW x \in [0..n - 1 -> Int], NEW invert \in BOOLEAN
  PROVE  /\ Transformed(x, q, invert) \in [0..n - 1 -> 0..q - 1]
         /\ Reached(Transformed(x, q, invert), Stages(n), Extended(x, n), q)
         /\ Extended(x, n) \in [Nat -> Int]
         /\ Ntt(x, q, FALSE) = Transformed(x, q, FALSE)
<1> DEFINE m == Stages(n)
<1>1. q \in Nat /\ q > 1 /\ n > 0
  BY DEF Prime
<1>2. m \in Nat /\ TwoTo(m) = n /\ m > 0 /\ Stages(n) = m
  BY <1>1, StagesOf
<1> HIDE DEF m
<1>3. Omega(q, n, invert) \in Int
  BY <1>1, OmegaOf
<1>4. Length(x) = n
  BY LengthOf
<1>5. Transformed(x, q, invert) \in [0..n - 1 -> 0..q - 1]
  BY <1>1, <1>2, <1>3, <1>4, TransformedReaches
<1>6. Reached(Transformed(x, q, invert), m, Extended(x, n), q)
  <2>1. \A k \in 0..n - 1 : Cong(Transformed(x, q, invert)[k], H(m, Weighted(x, q, n, m, invert), k), q)
    BY <1>1, <1>2, <1>3, <1>4, WeightedReached
  <2>2. Weighted(x, q, n, m, invert) = Extended(x, n)
    BY <1>2, Unweighted
  <2> QED BY <1>2, <2>1, <2>2 DEF Reached
<1>7. Ntt(x, q, FALSE) = Transformed(x, q, FALSE)
  <2>1. Length(x) # 0
    BY <1>1, <1>4
  <2> QED BY <2>1, Zenon DEF Ntt
<1> QED BY <1>2, <1>5, <1>6, <1>7, ExtendedOf

LEMMA NttReaches ==
  ASSUME NEW q, Prime(q), NEW n \in Nat, n > 1, IsPowerOfTwo(n), OneFactor(q, n), NEW x \in [0..n - 1 -> Int]
  PROVE  /\ Ntt(x, q, FALSE) \in [0..n - 1 -> 0..q - 1]
         /\ Reached(Ntt(x, q, FALSE), Stages(n), Extended(x, n), q)
<1>1. \A invert \in BOOLEAN : /\ Transformed(x, q, invert) \in [0..n - 1 -> 0..q - 1]
                             /\ Reached(Transformed(x, q, invert), Stages(n), Extended(x, n), q)
  BY ReachedByTransform
<1>2. Ntt(x, q, FALSE) = Transformed(x, q, FALSE)
  BY ReachedByTransform
<1>3. FALSE \in BOOLEAN
  OBVIOUS
<1> QED BY <1>1, <1>2, <1>3, Zenon

\* The inverse transform of what a transform reaches.
LEMMA InverseOf ==
  ASSUME NEW q, Prime(q), NEW n \in Nat, n > 1, IsPowerOfTwo(n), OneFactor(q, n), n % q # 0,
         NEW p \in [0..n - 1 -> Int], NEW C \in [Nat -> Int], Reached(p, Stages(n), C, q)
  PROVE  Ntt(p, q, TRUE) = [k \in 0..n - 1 |-> C[k] % q]
<1> DEFINE m == Stages(n)
           z == Transformed(p, q, TRUE)
           P == Extended(p, n)
           y == Ntt(p, q, TRUE)
           over == Power(n, q - 2, q)
<1>1. q \in Nat /\ q > 1 /\ q > 0 /\ n > 0 /\ Length(p) = n
  BY LengthOf DEF Prime
<1>2. m \in Nat /\ TwoTo(m) = n /\ m > 0 /\ Stages(n) = m
  BY <1>1, StagesOf
<1>3. z \in [0..n - 1 -> 0..q - 1] /\ Reached(z, m, P, q) /\ P \in [Nat -> Int]
  BY ReachedByTransform
<1>4. \A k \in 0..n - 1 : P[k] = p[k]
  BY ExtendedOf
<1>5. DOMAIN y = 0..n - 1
  <2>1. Length(p) # 0 /\ DOMAIN p = 0..n - 1
    BY <1>1
  <2> QED BY <2>1 DEF Ntt
<1> HIDE DEF m, z, P, y, over
<1>6. ASSUME NEW k \in 0..n - 1 PROVE y[k] = C[k] % q
  <2> DEFINE c == C[k]
             zk == z[k]
             yk == y[k]
  <2>1. k \in Nat /\ k \in Int /\ c \in Int /\ zk \in Int
    <3>1. zk \in 0..q - 1
      BY <1>3
    <3> QED BY <1>1, <3>1
  <2>2. Cong(zk, n * c, q)
    <3>1. HAll(m, C) \in [Nat -> Int]
      BY <1>2, HAllOf
    <3>2. ASSUME NEW j \in 0..TwoTo(m) - 1 PROVE Cong(P[j], HAll(m, C)[j], q)
      <4>1. j \in Nat /\ HAll(m, C)[j] = H(m, C, j)
        BY <1>2 DEF HAll
      <4>2. Cong(p[j], H(m, C, j), q)
        BY <1>2, <3>2 DEF Reached, m
      <4> QED BY <1>2, <1>4, <4>1, <4>2
    <3>3. Cong(H(m, P, k), H(m, HAll(m, C), k), q)
      BY <1>1, <1>2, <1>3, <2>1, <3>1, <3>2, HCong
    <3>4. H(m, HAll(m, C), k) = n * c
      BY <1>2, HUndone
    <3>5. Cong(zk, H(m, P, k), q)
      BY <1>2, <1>3 DEF Reached
    <3>6. H(m, P, k) \in Int /\ n * c \in Int
      <4>1. H(m, P, k) \in Int
        BY <1>2, <1>3, <2>1, TermsOf
      <4>2. n * c \in Int
        BY <2>1
      <4> QED BY <4>1, <4>2
    <3> DEFINE nc == n * c
    <3>7. nc \in Int /\ Cong(H(m, P, k), nc, q)
      BY <3>3, <3>4, <3>6
    <3> HIDE DEF nc, c, zk
    <3>8. Cong(zk, nc, q)
      BY <1>1, <2>1, <3>5, <3>6, <3>7, CongTransitive
    <3> QED BY <3>8 DEF nc
  <2>3. yk \in 0..q - 1 /\ Cong(yk, zk * over, q) /\ over \in Int
    BY <1>1, <2>1, LengthTimes DEF z, y, over
  <2>4. Cong(n * over, 1, q)
    BY <1>2, InverseOfLength DEF over
  <2> HIDE DEF c, zk, yk
  <2>5. PICK one \in Int : one = 1
    OBVIOUS
  <2> DEFINE first == zk * over
             second == (n * c) * over
             third == c * (n * over)
  <2>6. n * c \in Int /\ n * over \in Int /\ first \in Int /\ second \in Int /\ third \in Int
    <3>1. n * c \in Int /\ n * over \in Int
      BY <2>1, <2>3
    <3> QED BY <2>1, <2>3, <3>1
  <2>7. Cong(first, second, q)
    BY <1>1, <2>1, <2>2, <2>3, <2>6, CongTimes
  <2>8. second = third
    BY <2>1, <2>3
  <2>9. Cong(third, c * one, q) /\ c * one = c
    <3>1. Cong(n * over, one, q)
      BY <2>4, <2>5
    <3>2. Cong(third, c * one, q)
      BY <1>1, <2>1, <2>5, <2>6, <3>1, CongTimes
    <3> QED BY <2>1, <2>5, <3>2
  <2> HIDE DEF first, second, third
  <2>10. Cong(first, c, q)
    <3>1. Cong(second, c, q)
      BY <2>8, <2>9
    <3> QED BY <1>1, <2>1, <2>6, <2>7, <3>1, CongTransitive
  <2>11. yk \in Int /\ Cong(yk, first, q)
    BY <1>1, <2>3 DEF first
  <2>12. Cong(yk, c, q)
    BY <1>1, <2>1, <2>6, <2>10, <2>11, CongTransitive
  <2>13. Cong(c, yk, q)
    BY <1>1, <2>1, <2>11, <2>12, CongSymmetric
  <2>14. yk = c % q
    BY <1>1, <2>1, <2>3, <2>13, CongResidue
  <2> QED BY <2>14 DEF yk, c
<1>7. y = [k \in 0..n - 1 |-> y[k]]
  <2>1. y = [k \in DOMAIN y |-> y[k]]
    <3>1. Length(p) # 0
      BY <1>1
    <3> QED BY <3>1 DEF Ntt, y
  <2> QED BY <1>5, <2>1
<1> QED BY <1>6, <1>7 DEF y

\* The inverse transform undoes the transform,
LEMMA RoundTrip ==
  ASSUME NEW q, Prime(q), NEW n \in Nat, n > 1, IsPowerOfTwo(n), OneFactor(q, n), n % q # 0,
         NEW x \in [0..n - 1 -> Int]
  PROVE  Ntt(Ntt(x, q, FALSE), q, TRUE) = [k \in DOMAIN x |-> x[k] % q]
<1> DEFINE p == Ntt(x, q, FALSE)
           X == Extended(x, n)
<1>1. p \in [0..n - 1 -> 0..q - 1] /\ Reached(p, Stages(n), X, q) /\ X \in [Nat -> Int]
  BY NttReaches, ExtendedOf
<1>2. p \in [0..n - 1 -> Int]
  <2>1. \A v \in 0..q - 1 : v \in Int
    BY DEF Prime
  <2> HIDE DEF p
  <2> QED BY <1>1, <2>1
<1>3. \A k \in 0..n - 1 : X[k] = x[k]
  BY ExtendedOf
<1> HIDE DEF p, X
<1>4. Ntt(p, q, TRUE) = [k \in 0..n - 1 |-> X[k] % q]
  BY <1>1, <1>2, InverseOf
<1> QED BY <1>3, <1>4 DEF p

\* and the product of two transforms that of the dyadic convolution.
LEMMA ProductIsConvolution ==
  ASSUME NEW q, Prime(q), NEW n \in Nat, n > 1, IsPowerOfTwo(n), OneFactor(q, n), n % q # 0,
         NEW a \in [0..n - 1 -> Int], NEW b \in [0..n - 1 -> Int], NEW k \in 0..n - 1
  PROVE  PointwiseNttMul(a, b, q)[k] = Sum([j \in 0..n - 1 |-> a[j] * b[Xor(j, k, n)]], n) % q
<1> DEFINE m == Stages(n)
           u == Ntt(a, q, FALSE)
           v == Ntt(b, q, FALSE)
           A == Extended(a, n)
           B == Extended(b, n)
           C == ConvAll(m, A, B)
           p == [l \in 0..n - 1 |-> u[l] * v[l] % q]
           f == [j \in 0..n - 1 |-> a[j] * b[Xor(j, k, n)]]
           g == ConvTerms(m, A, B, k)
<1>1. q \in Nat /\ q > 1 /\ q > 0 /\ n > 0
  BY DEF Prime
<1>2. m \in Nat /\ TwoTo(m) = n /\ Stages(n) = m
  BY <1>1, StagesOf
<1>3. /\ u \in [0..n - 1 -> 0..q - 1] /\ Reached(u, m, A, q) /\ A \in [Nat -> Int]
      /\ v \in [0..n - 1 -> 0..q - 1] /\ Reached(v, m, B, q) /\ B \in [Nat -> Int]
  BY NttReaches, ExtendedOf
<1>4. (\A l \in 0..n - 1 : A[l] = a[l]) /\ (\A l \in 0..n - 1 : B[l] = b[l])
  BY ExtendedOf
<1>5. PointwiseNttMul(a, b, q) = Ntt(p, q, TRUE)
  <2>1. Length(a) = n /\ Length(b) = n
    BY LengthOf
  <2>2. Longer(a, b) = n
    BY <2>1 DEF Longer
  <2>3. Pad(a, n) = a /\ Pad(b, n) = b
    BY DEF Pad
  <2>4. DOMAIN a = 0..n - 1
    OBVIOUS
  <2> QED BY <2>2, <2>3, <2>4 DEF PointwiseNttMul
<1> HIDE DEF m, u, v, A, B
<1>6. C \in [Nat -> Int]
  BY <1>2, <1>3, ConvAllOf
<1>7. ASSUME NEW l \in 0..n - 1 PROVE p[l] \in Int /\ Cong(p[l], H(m, C, l), q)
  <2> DEFINE x == u[l]
             y == v[l]
             s == H(m, A, l)
             t == H(m, B, l)
  <2>1. x \in Int /\ y \in Int /\ s \in Int /\ t \in Int
    <3>1. x \in 0..q - 1 /\ y \in 0..q - 1
      <4>1. u \in [0..n - 1 -> 0..q - 1] /\ v \in [0..n - 1 -> 0..q - 1]
        BY <1>3
      <4> QED BY <1>7, <4>1
    <3>2. s \in Int /\ t \in Int
      <4>1. l \in Int
        OBVIOUS
      <4> QED BY <1>2, <1>3, <4>1, TermsOf
    <3>3. \A w \in 0..q - 1 : w \in Int
      BY <1>1
    <3> HIDE DEF x, y, s, t
    <3> QED BY <3>1, <3>2, <3>3
  <2>2. Cong(x, s, q) /\ Cong(y, t, q)
    BY <1>2, <1>3 DEF Reached
  <2>3. H(m, C, l) = s * t
    BY <1>2, <1>3, HOfConv
  <2>4. p[l] = (x * y) % q
    OBVIOUS
  <2> HIDE DEF x, y, s, t, C, p
  <2>5. x * y \in Int /\ s * t \in Int /\ Cong(x * y, s * t, q)
    <3>1. x * y \in Int /\ s * t \in Int
      BY <2>1
    <3> QED BY <1>1, <2>1, <2>2, <3>1, CongProduct
  <2>6. (x * y) % q \in Int /\ Cong((x * y) % q, x * y, q)
    BY <1>1, <2>5, CongMod
  <2>7. Cong((x * y) % q, s * t, q)
    BY <1>1, <2>5, <2>6, CongTransitive
  <2> QED BY <2>3, <2>4, <2>6, <2>7
<1>8. p \in [0..n - 1 -> Int]
  <2> SUFFICES ASSUME NEW l \in 0..n - 1 PROVE u[l] * v[l] % q \in Int
    OBVIOUS
  <2> QED BY <1>7
<1> HIDE DEF C, p, f, g
<1>9. Ntt(p, q, TRUE)[k] = C[k] % q
  <2>1. Reached(p, Stages(n), C, q)
    BY <1>2, <1>7 DEF Reached
  <2>2. Ntt(p, q, TRUE) = [l \in 0..n - 1 |-> C[l] % q]
    BY <1>6, <1>8, <2>1, InverseOf
  <2> QED BY <2>2
<1>10. C[k] = Sum(g, n)
  <2>1. k \in Nat
    OBVIOUS
  <2> QED BY <1>2, <2>1 DEF C, ConvAll, Conv, g
<1>11. ASSUME NEW j \in 0..n - 1 PROVE g[j] = f[j]
  <2>1. Xor(j, k, n) = XorOf(j, k, m)
    <3> DEFINE low == [s \in 0..m - 1 |-> TwoTo(s) * ((Bit(j, s) + Bit(k, s)) % 2)]
               all == XorTerms(j, k)
    <3>1. Xor(j, k, n) = Sum(low, m)
      BY <1>2 DEF Xor
    <3>2. \A s \in 0..m - 1 : low[s] = all[s]
      BY DEF XorTerms
    <3> HIDE DEF low, all
    <3>3. Sum(low, m) = Sum(all, m)
      BY <1>2, <3>2, SumSame
    <3> QED BY <3>1, <3>3 DEF all, XorOf
  <2>2. XorOf(j, k, m) \in 0..n - 1
    BY <1>2, XorBelow
  <2>3. j \in Nat /\ g[j] = A[j] * B[XorOf(j, k, m)]
    BY DEF g, ConvTerms
  <2>4. A[j] = a[j] /\ B[XorOf(j, k, m)] = b[XorOf(j, k, m)]
    BY <1>4, <2>2
  <2>5. f[j] = a[j] * b[Xor(j, k, n)]
    BY DEF f
  <2> QED BY <2>1, <2>3, <2>4, <2>5
<1>12. Sum(g, n) = Sum(f, n)
  BY <1>11, SumSame
<1> QED BY <1>5, <1>9, <1>10, <1>12 DEF f

LEMMA CallIsOfPolynomials ==
  ASSUME NEW x \in Polynomials
  PROVE  Length(x) \in Nat /\ x \in [0..Length(x) - 1 -> Int]
<1>1. IsFiniteSet(DOMAIN x) /\ x \in [0..Length(x) - 1 -> Int]
  BY PolynomialsAssumption
<1>2. Length(x) \in Nat
  BY <1>1, FS_CardinalityType DEF Length
<1> QED BY <1>1, <1>2

LEMMA CallNttIsWalsh ==
  ASSUME NEW x \in Polynomials, NEW q \in Moduli, NEW invert \in BOOLEAN, CallNtt(x, q, invert)
  PROVE  TransformIsWalsh'
<1> DEFINE n == Length(x)
           y == Ntt(x, q, invert)
<1>1. Prime(q)
  BY PrimeAssumption DEF Prime
<1>2. n \in Nat /\ x \in [0..n - 1 -> Int] /\ Length(x) = n
  BY CallIsOfPolynomials
<1>3. /\ nttCall'.function = "ntt" /\ nttCall'.data = x /\ nttCall'.modulus = q /\ nttCall'.invert = invert
      /\ nttCall'.raises = (~IsPowerOfTwo(Length(x)))
      /\ nttCall'.answer = IF IsPowerOfTwo(Length(x)) THEN Ntt(x, q, invert) ELSE x
  BY DEF CallNtt
<1>4. nttCall'.function # "mul"
  BY <1>3
<1> SUFFICES ASSUME ~nttCall'.raises, Length(nttCall'.data) > 1
             PROVE  /\ ~invert => \A k \in DOMAIN x : y[k] = Walsh(x, q, FALSE, k)
                    /\ invert /\ n % q # 0 => \A k \in DOMAIN x : (n * y[k]) % q = Walsh(x, q, TRUE, k)
                    /\ ~invert /\ OneFactor(q, n) /\ n % q # 0 => Ntt(y, q, TRUE) = [k \in DOMAIN x |-> x[k] % q]
  <2> HIDE DEF n, y
  <2> QED BY <1>3, <1>4 DEF TransformIsWalsh, n, y
<1>5. IsPowerOfTwo(n) /\ n > 1
  BY <1>3
<1>6. DOMAIN x = 0..n - 1
  BY <1>2
<1> HIDE DEF n
<1>7. ASSUME ~invert, NEW k \in DOMAIN x PROVE y[k] = Walsh(x, q, FALSE, k)
  <2>1. y = Ntt(x, q, FALSE)
    BY <1>7, Zenon
  <2>2. Ntt(x, q, FALSE)[k] = Walsh(x, q, FALSE, k)
    BY <1>1, <1>2, <1>5, <1>6, ForwardIsWalsh
  <2> QED BY <2>1, <2>2, Zenon
<1>8. ASSUME invert, n % q # 0, NEW k \in DOMAIN x PROVE (n * y[k]) % q = Walsh(x, q, TRUE, k)
  <2>1. y = Ntt(x, q, TRUE)
    BY <1>8, Zenon
  <2>2. (n * Ntt(x, q, TRUE)[k]) % q = Walsh(x, q, TRUE, k)
    BY <1>1, <1>2, <1>5, <1>6, <1>8, InverseIsWalsh
  <2> QED BY <2>1, <2>2, Zenon
<1>9. ASSUME ~invert, OneFactor(q, n), n % q # 0 PROVE Ntt(y, q, TRUE) = [k \in DOMAIN x |-> x[k] % q]
  <2>1. y = Ntt(x, q, FALSE)
    BY <1>9, Zenon
  <2>2. Ntt(Ntt(x, q, FALSE), q, TRUE) = [k \in DOMAIN x |-> x[k] % q]
    BY <1>1, <1>2, <1>5, <1>9, RoundTrip
  <2> QED BY <2>1, <2>2, Zenon
<1> QED BY <1>7, <1>8, <1>9

LEMMA CallMulIsConvolution ==
  ASSUME NEW a \in Polynomials, NEW b \in Polynomials, NEW q \in Moduli, CallMul(a, b, q)
  PROVE  TransformIsWalsh'
<1> DEFINE n == Length(a)
           y == PointwiseNttMul(a, b, q)
<1>1. Prime(q)
  BY PrimeAssumption DEF Prime
<1>2. n \in Nat /\ a \in [0..n - 1 -> Int] /\ b \in [0..Length(b) - 1 -> Int]
  BY CallIsOfPolynomials
<1>3. /\ nttCall'.function = "mul" /\ nttCall'.a = a /\ nttCall'.b = b /\ nttCall'.modulus = q
      /\ nttCall'.raises = MulRaises(a, b)
      /\ nttCall'.answer = IF MulRaises(a, b) THEN a ELSE PointwiseNttMul(a, b, q)
  BY DEF CallMul
<1>4. nttCall'.function # "ntt"
  BY <1>3
<1> SUFFICES ASSUME ~nttCall'.raises, n > 1, Length(b) = n, OneFactor(q, n), n % q # 0, NEW k \in DOMAIN a
             PROVE  y[k] = Sum([j \in 0..n - 1 |-> a[j] * b[Xor(j, k, n)]], n) % q
  <2> HIDE DEF n, y
  <2> QED BY <1>3, <1>4 DEF TransformIsWalsh, n, y
<1>5. IsPowerOfTwo(n)
  BY <1>3 DEF MulRaises
<1>6. k \in 0..n - 1 /\ b \in [0..n - 1 -> Int]
  BY <1>2
<1> HIDE DEF n
<1> QED BY <1>1, <1>2, <1>5, <1>6, ProductIsConvolution

\* The transform of hdf5_loader.py is a Walsh transform, whatever the prime
\* modulus and the polynomials: of the coefficients weighted with the powers
\* of omega to the reversed indices, divided by the length in an inverse call,
\* and where all factors are 1 undone by the inverse call and multiplied by
\* dyadic convolution.  One call is all a behavior makes, so that the
\* property is shown of the call itself.
THEOREM TransformsAreWalsh == NttSpec => []TransformIsWalsh
<1>1. NttInit => TransformIsWalsh
  <2> SUFFICES ASSUME NttInit PROVE TransformIsWalsh
    OBVIOUS
  <2>1. nttCall.function = "none"
    BY DEF NttInit
  <2>2. nttCall.function # "ntt" /\ nttCall.function # "mul"
    BY <2>1
  <2> QED BY <2>2 DEF TransformIsWalsh
<1>2. TransformIsWalsh /\ [NttNext]_nttCall => TransformIsWalsh'
  <2> SUFFICES ASSUME TransformIsWalsh, [NttNext]_nttCall PROVE TransformIsWalsh'
    OBVIOUS
  <2>1. CASE \E x \in Polynomials, q \in Moduli, invert \in BOOLEAN : CallNtt(x, q, invert)
    BY <2>1, CallNttIsWalsh
  <2>2. CASE \E a, b \in Polynomials, q \in Moduli : CallMul(a, b, q)
    BY <2>2, CallMulIsConvolution
  <2>3. CASE UNCHANGED nttCall
    BY <2>3 DEF TransformIsWalsh
  <2> QED BY <2>1, <2>2, <2>3 DEF NttNext
<1> QED BY <1>1, <1>2, PTL DEF NttSpec
=============================================================================
