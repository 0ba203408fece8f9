# Verification of the PQC bench

TLA+ models, TLC runs and TLAPS proofs for the core of *Post-Quantum
Cryptography & ML*: a Python platform that simulates a hybrid TLS handshake,
streams and evaluates side-channel traces, serves inference, limits and
authenticates gateway requests, and measures, audits and reports on
post-quantum implementations.  Source paths below are relative to
`src/src/pqc_bench/`.

Contents: [inventory](#inventory) · [modules](#modules-and-their-code) ·
[runs](#runs) · [proofs](#proofs) · [what stays with TLC](#only-model-checked) ·
[not modelled](#not-modelled) · [plan](#plan)

## Inventory

| component | state | operations | interacts with | hard behaviour | correct when |
|---|---|---|---|---|---|
| Hybrid TLS handshake `tls_simulator.py` | per peer: state name, transcript of wires, key schedule, traffic secrets, two private keys | seven message operations, `traffic_secrets`, `simulate_handshake` | peers through wires | messages replayed, reordered, altered, mixed between sessions; a call out of order | the peers that complete agree; failure is terminal and leaves no key |
| Alert engine `telemetry_alerts.py` | lock, last clock reading, last attempt per source and metric | `evaluate` | trace stream; HTTPS webhook | threads race for a cooldown; the clock regresses; the webhook fails or hangs | attempts a cooldown apart, nothing lost, nobody blocked |
| Trace stream `api/trace_stream.py` | active request, index, alert policy and engine of a connection | control messages, frame timer | alert engine; WebSocket client | timer against messages; pauses inside an alert scope | frames follow the controls, a playback ends, cooldowns hold |
| Local telemetry `api/local_telemetry.py` | inference lock, three Prometheus metrics | infer, scrape | the CNN model | busy answers, failures halfway, scrapes during an inference | one inference at a time, metrics match answers |
| Rate limiter `gateway/ratelimit.py` | buckets, tenant and IP limits | check, set limits, reset | wall clock | the clock set back, limits changed while a bucket is in use | no more than burst and rate; a retry time that is honest where there can be one |
| Gateway authentication `gateway/auth.py` | tenants with roles, keys, users; JWT secret | register, add key, authenticate, issue and verify a token, check permission | wall clock | tokens and keys that outlive a role | permissions follow what was granted |
| Training and serving `models/train_side_channel.py`, `api/main.py` | checkpoints, metrics file, the server's cached model | train, predict, metrics, health | file system | crash between artifacts, half-written checkpoint, racing loads | what is served and reported was written whole |
| HDF5 loader `hardware/hdf5_loader.py` | file handle, arrays, counts, metadata | open, close, accessors, SNR | API endpoints | open twice, open fails, use after close | a handle per open is closed; accessors match the file |
| Number theoretic transform `hardware/hdf5_loader.py` | none | `ntt`, `pointwise_ntt_mul` | none | stage factors, boundary lengths | every coefficient as the stages define it |
| Binary auditor `constant_time/binary_auditor.py` | descriptors, instruction budget | read, section scan, decode | file system | file changes while read, budget exhausted | complete only if all bytes were decoded |
| CBOM pipeline `cbom/` | artifact files | generate, evaluate, export | file system, API | stages read versions of one another | statuses follow the inventory |
| Memory zeroizer `security/memory_zeroizer.py` | a memory region | overwrite, checksum, validate | none | regions above the checksum cap | passed only if all of it was zero |
| C accelerator `cffi/nuts_accelerator.py` | library handle, global instance | process, integrity scores | C library | failure and fallback | result and score match |
| GPU allocator `gpu/gpu_allocator.py` | none | allocate | vendor tools | no device is large enough | memory granted exists |
| Fuzzer and report `fuzzing/` | result lists, report files | fuzz, analyse, report | the tested function | every iteration raises | the counts add up and reach the matrix |
| Hybrid certificates `pki/hybrid_certs.py` | none | issue, verify | none | parts of several chains | valid exactly as issued |
| Leaderboard `waveform_leaderboard.py` | none | evaluate, rank | none | ties, any order of results | competition ranks |
| FIPS evidence `fips_evidence.py` | none | normalise, classify | documents | conflicting and missing evidence | a gap goes only with evidence for it |
| Toy LWE `lwe_toy.py` | none | modular arithmetic, instance, bit ranges | none | estimates out of range, overflow | answers in their range |
| QEMU feasibility, executive report, readiness scores | none | render, weigh | artifacts | none | fixed tables and text |
| Side-channel lab, estimates, networks, measurements, client | none that outlives a call | numeric helpers | none | floating point | outside this method |

Only the alert engine, the local telemetry service and the API server are used
by several threads by design, and the zeroizer's buffer may be; the handshake peers and the trace stream are driven by
messages; everything else is sequential code whose hazards are sequences of
legal calls, failures halfway and changes of what lies outside (clock, files).
`PROJECT.json` lists every hazard at its line with the properties that cover it.

## Modules and their code

Data are abstracted to what the properties tell apart, control is kept: one
action per operation or per section of an operation that others can interleave
with.  A comment that begins with `Mutant:` marks a plausible faulty variant of
the definition that follows it; the property it is paired with fails if the
variant takes its place.

**TLSHandshake** (`tls_simulator.py`).  Variables are the fields of `_Peer`,
indexed by peer (`state`, `transcript`, `schedule`, `traffic`, and whether `_x`
and `_kem` still hold a key), and `network`, all that was ever sent.  Each public operation is an
action: `SendClientHello`, `ReceiveClientHello`, `ReceiveServerHello`,
`SendServerFinished`, `ReceiveServerFinished`, `SendClientFinished`,
`ReceiveClientFinished`; `OutOfOrder` is any of them in a state `_expect`
refuses; the failure branch of each is `Refuse`.  The network delivers anything
it has seen to anyone, any number of times, and hellos of `Altered` it made up.
Cryptography is symbolic; implicit rejection of ML-KEM and the refusal of
X25519 points of low order are kept, since they decide which call fails.  The
random and the context of a hello are one field.  The wire encoding is left
out except that some wires do not decode (`Malformed`).

**HandshakeAgreement** is what the handshake promises, without keys or
transcripts: servers offer sessions nobody has, each session is accepted by at
most one client and only if offered, a server finishes only after the client of
its session confirmed, giving up drops the secret.  `TLSHandshake!Abstract` is
the refinement mapping, `ImplementsAgreement` the claim.

**TLSSimulation** (`simulate_handshake`) runs the peers' operations in the
order of the function, several calls at once, with the wires handed over
directly.

**AlertEngine** (`telemetry_alerts.py`).  `pc` follows one `evaluate` call per
thread: `Validate`, `Acquire`, `ReadClock`, `Decide` (which releases the lock),
`Deliver`.  `lock`, `last_clock`, `last_attempt` are the engine's fields.  The
transport is the outcome it has (sent, failed, or never an answer).

**TraceStream** (`websocket_traces`).  `active`, `index`, `alert_policy` and
`alert_engine` are the coroutine's locals; `Tick` is the timeout branch of the
wait, `Receive` and `ReceiveInvalid` its message branch, each with the frame
that branch sends; `log` records the messages for the properties.  The engine
it uses is the decision of AlertEngine on a monotonic clock, where one
coroutine has no contention.

**LocalTelemetry** (`create_local_telemetry_app`).  `pc` follows each request;
`inference_lock` does not know its holder, as a `threading.Lock` does not.  The
metrics are incremented in separate steps, and a scrape reads them in separate
steps in the order they are registered.

**RateLimiter** (`gateway/ratelimit.py`) is one identifier's bucket and its two
custom limits.  `CheckRateLimit` is the whole of `check_rate_limit` with each
of its up to three clock readings; `SetTenantLimit`, `SetIpLimit` and `Reset`
the rest.  `spent`, `asked`, `granted` and `promise` are history for the
properties.  Numbers are integers: with integer rates and times the code's
floats hold the same values.  `RetryAfter` is the one quotient, kept as a
numerator and a denominator, and 0 for a bucket that is never refilled.

**ModelTraining** (`models/train_side_channel.py`).  One run of `main()` after
another: per model the epochs with their validation accuracies and the copy of
the best weights, then the checkpoint, then the other model, then the metrics.
Each file is opened (which empties it) and written in separate steps, and
`Crash` or an exception may end a run between any two.  Weights are named after
run and epoch; accuracies are counts of correct predictions.  The run that was
started last is the only one at work: the script is started by hand.

**ModelServing** (`api/main.py`) extends it with the server that reads those
files.  `get_side_channel_model` is followed from its test of the global
through `Exists`, `Load` and `Assign` to `Return`, which reads the global
again; each predict handler does so in a thread of its own, without a lock.
`Report` is the metrics handler, with its test for the file and its read apart.
`Restart` empties the global and drops the requests; `seen` is history: all the
checkpoint file has held since the server started.

**LocalRead** (`_read_local` of `constant_time/binary_auditor.py`).  `Open`,
`Read` and `Check` are the first `fstat`, one `os.read` and the second `fstat`
with the comparison; `Modify` is everyone else, who overwrites, cuts, extends
or touches the file and gets the file system's time stamps for it.  `held` is
history: every content since the first `fstat`.

**BinaryReview** (`_elf_sections` and `audit_binary`).  `CheckTable` and
`CheckSection` are the walk over the section headers, one step per header, with
the rejections of the code collected in `SectionValid` and `ExecutableValid`;
`Instruction` and `Stop` are the decoding loop, with what the decoder yields
chosen freely.  No byte is decoded twice (`SectionsApart`), so free choice is
the same as arbitrary code.  `divisions` and `stuck` are history.

**GatewayAuth** (`gateway/auth.py`).  `roles`, `api_keys` and `users` are the
tenants' dictionaries, `tokens` what was issued, `time` the wall clock in parts of
a second.  `RegisterTenant`, `AddApiKey` and `GenerateJwt` are the operations
that change something; `AuthenticateApiKey`, `VerifyJwt` and `CheckPermission`
are operators, since they only read.  `claims` is history: the roles given to
users since their tenant was registered last.

**Hdf5Loader** (`hardware/hdf5_loader.py`, and two handlers of `api/main.py`).  Each
field of a loader holds the file it was filled from.  `Open` and `Close` of a
program come in any order; `LoadCoreArrays` keeps what was assigned before a
part that cannot be read.  `Begin`, `Snr` and `Summary` are the handlers, which
open the path again halfway, and `Replace` is whoever writes there.
`SnrComputed` says which arguments do not raise.

**NumberTheoreticTransform** (same file) and **ToyLwe** (`lwe_toy.py`) are pure: a
behaviour is one call.  `Transformed` is the loop over the stages and `Ntt` adds
the early return and the division by the length; the reference, `Walsh`, is a sum
over all coefficients.  Logarithms in ToyLwe are comparisons of
powers of four, from a table, with pi squared to four digits: no checked case is nearer to a
boundary than that.

**MemoryZeroizer** (`security/memory_zeroizer.py`).  `WriteChunk` is one `memmove`,
`EndPass` the loop over the passes, then the checksum and its comparison;
`OtherThread` writes between any two.

**Accelerator** (`cffi/nuts_accelerator.py`).  The C function returns any array of
C ints as long as its argument (`CArrays`), or fails; `Process` is what the core
makes of it, with the fallback to a copy (`Copy`, which is empty for data that is
no list), and `Outcomes` what the four benchmarks answer.  `instance` is the global
core, `library` what lies at its path.

**GpuAllocator** (`gpu/gpu_allocator.py`).  `CheckCuda` and `CheckRocm` are the two
probes of an allocation, `Answer` its result and, in `get_optimal_configuration`,
the start of the second one; `Change` is the machine.

**FuzzReport** (`fuzzing/`).  `Succeed` and `Raise` are one call of the function
under test, `Store` the end of one implementation, `Finish` the report that was
asked for, with operators for the analysis and its marker of what could not be
assessed (`Marker`), the edge case report and the anomaly matrix.

**CbomPipeline** (`cbom/`, and two handlers).  `ScanFile` reads one file of the tree
while `EditFile` changes others; an artifact is opened (which empties it) and
written in separate steps; the evaluation reads the bill four times.  The
readers are `GetCbomData` and `ComplianceAudit`.

**HybridCertificates** (`pki/hybrid_certs.py`).  A signature is what it is over and
the key that made it.  `GenerateChain` keeps its keys to itself; `Presented` is
every pair of envelopes issued, one of which may hold parts of another or any
field edited.

**Leaderboard** and **FipsEvidence** (`waveform_leaderboard.py`, `fips_evidence.py`)
are pure: one board per behaviour, and requests that grow by a document, so that
`GapsPersist` can compare a matrix with the next.

The composites **MCAlerts**, **MCGateway**, **MCAudit**, **MCMeasurement** and
**MCEvidence** hold several components side by side.  A variable `subject`,
chosen by the initial state, says which of them runs; the others keep one fixed
state.  The components of a composite share no state in the code, so that this
checks each of them in full without the product of their states.

## Runs

| run | what it asks | bounds |
|---|---|---|
| `tls_two_clients` | do servers agree with clients, are keys dropped, is no MAC key used twice | two clients, one server, every single-field alteration of their hellos; clients interchangeable |
| `tls_two_servers` | does the client agree with exactly one server; do the peers implement the abstract handshake | one client, two servers, the same alterations |
| `tls_simulation` | does every `simulate_handshake` with valid contexts return | three calls at once |
| `alerts` | engine: spacing, cover, no blocking. Stream: order, completeness and spacing of what a client sees; playbacks end | three calls, two keys, clock 0..3, cooldown 2. `MaxChunks` 2, `MaxTime` 2, `MaxLog` 8 messages; two policies with cooldowns 1 and 2 |
| `local_telemetry` | exclusion, accounting, consistent scrapes, all answered | three inferences, one scrape |
| `gateway` | limiter: conformance, what a refusal's retry time is worth. Authentication: nobody let in but as granted, key and token agree | clock 0..2 both ways, three limits (fast, slow, never refilled), `MaxSpent` 3, `MaxDebt` 3. Two tenants, keys and users, two role tables, half seconds 0..4, `MaxTokens` 1 |
| `model_serving` | is the best epoch saved, do metrics match what is on disk, is only what was whole served, does the loading race settle | `MaxRuns` 2, `MaxEpochs` 2, `MaxAcc` 1; two predictions (interchangeable), one metrics request |
| `audit` | read: is a file that changed while it was read rejected, and no other. Review: is a complete report complete, an incomplete one explained, are the budgets kept | files of up to four blocks of two values, limit of two, three modifications, each with a time stamp of its own. Nine bytes, tables of up to three sections, instructions of one and two bytes, budgets of four bytes, three instructions, one finding |
| `measurement` | do loader, transform, toy LWE, zeroizer, accelerator and allocator answer what they should | nine shapes of files, six handler calls; polynomials of up to eight coefficients, four primes; regions of up to six bytes, chunks of 2, a cap of 4, `MaxWrites` 1; C ints -4..3, for lists in and out of that range, with a float, and for data that is no list; five outputs of nvidia-smi |
| `evidence` | do reports, bills, chains, boards and matrices hold what they are made from | two files, four contents; three times and three calls per implementation; `MaxChains` 2, times 1..5; lists of up to four of seven results, and one above `MAX_RESULTS` 4; seven documents, `MAX_DOCUMENTS` 4 |
| `local_read_coarse` (violation) | the read of `audit` where modifications share a time stamp | files of up to two blocks, one clock tick |
| `fuzz_report_returns` (violation) | does the comprehensive report return | one implementation of one family or of each |

A type invariant is either a theorem of its own (`TypeCorrect`) or part of the
first property of its component in the table, which is one: `AdmittedAsGranted`,
`RejectedIfChanged`, `SectionsApart`, `StreamAnswersControls`, `LoadedWhole`,
`PassedMeansZero`, `ScoreIsHonest`.

Why these bounds are enough to meet the interesting cases.  *Handshake*: a
confusion of sessions needs two peers of one role and one of the other; an
altered field is either accepted or not on the first message, and alterations
of both hellos are in the set.  *Alert engine*: two attempts and a suppressed
call between them are three calls; a clock of twice the cooldown has readings
before, at and after expiry.  *Trace stream*: eight messages hold a playback
interrupted by pause, error and another policy, and the frames after it; the
clock reaches the expiry of both cooldowns.  *Local telemetry*: a running, a
failing and a busy inference are three.  *Rate limiter*: three clock values
include a clock that goes forth and back, `MaxSpent` 3 is the largest capacity,
`MaxDebt` bounds the tokens below zero that repeated regressions can produce.
*Authentication*: a key moves between two users and a user between two keys and
two roles; a token lives longer and shorter than the clock runs.
*Serving*: a race that matters needs two loading threads and a file that
changes between them, so two runs; two epochs and two accuracies have improving,
equal and worsening courses; a model that never predicts anything right saves
nothing.
*Binary auditor*: a mixed read needs two blocks, and each rejection for size one
block more; three sections can overlap out of order, and three instructions run
out in, between and after them.
*Loader*: for each part that cannot be read there is a file, and files that
differ in every part to be mixed up with it.  *Transform*: eight coefficients
have three stages, the first at which factors of different stages differ
pairwise; 2, 5 and 7 take the default root of unity, 3329 has its own, and 2
divides every length.  *Zeroizer*:
sizes below, at and above one chunk, two chunks and the cap.  *Accelerator*: every
array over eight values is among the answers for up to three elements, the doubled
data that `data_integrity` expects too.  *Fuzzing*: three calls have returned,
raised and slow ones in every order.  *Bill*: two files name an algorithm both,
one or none, a hybrid's terms in one file or apart, and an edit takes a bill from
transitional to partial or compliant.  *Certificates*: parts can
be exchanged between two chains, and validity is checked at, before and after
both ends.  *Boards*: four results have two pairs of ties.  *FIPS*: six ids for four
documents, so that a request is also refused for their number.
`MaxSpent`, `MaxDebt`, `MaxTime`, `MaxLength`, `MaxLog`, `MaxChunks`, `MaxRuns`,
`MaxEpochs`, `MaxAcc`, `MaxTokens`, `MaxWrites`, `MaxChains` and the two `LastTime`
appear in guards of actions or in the ranges they choose from; no behaviour
below them is cut.

Deadlock is checked except where the system really stops: requests that were
all answered, calls that returned, an audit, a measurement or a report that is
over.

Fairness.  A thread that can take a step takes it eventually, because the
operating system schedules threads: `TLSSimulation` assumes it of every call,
`AlertEngine` of the steps around the lock only (`Locked`), so that a hanging
webhook is possible, `LocalTelemetry` of every step but the forward pass, which
may hang.  `TraceStream` assumes that the timer of `wait_for` fires and nothing
of the client.  All other components state safety only.

What the runs show: the code keeps every property of the passing runs.  Not obvious
beforehand were that a clock set back cannot be used to exceed a rate
(`RateConforms` holds because a regression takes tokens away), that a client
which pauses cannot escape an alert's cooldown (`AlertsSpaced`), and that a
server which has derived its application secrets early never holds different
ones from the client that accepts its Finished.  Loading without a lock lets
threads replace the shared model while others already answer from it, but
`Settled` shows that this ends with the last loading thread, and
`ServedSinceStart` that a checkpoint caught half-written is never kept.

Where a property says less than one would wish, the code does less, and the
comment of the property says so.

- Limiter: a bucket whose rate is 0 answers `retry_after` 0.0 (`ratelimit.py:86`)
  and refuses again for ever; above its capacity, any bucket computes a time
  after which it refuses again.  `RetryAfterHonest` states both.
- Fuzzing: the comment at `ct_fuzzer.py:204-206` wants an implementation with a
  single measurement marked as potentially unsafe.  The code marks it in an
  `error` field and reports it as safe (`:213`), as it does one without any
  measurement (`:197`); the anomaly matrix does not read the field.
  `ReportsAccount` states that exactly these are marked, and reported as safe.
  Every implementation that was analysed is an anomaly.
- Zeroizer: it never confirms a region above its cap, and rejects a `bytearray`.
- Transform: the inverse undoes the forward one, and the product is a
  convolution (a dyadic one), only where all stage factors are 1.  The docstrings
  (`hdf5_loader.py:56`, `:143`) promise an inverse NTT and a convolution in
  general; nothing is claimed of the other cases.
- Toy LWE: a bit estimate outside of 1..6 is answered with 1 to 6.
- Accelerator: the mock is "valid" only on zeros, since the integrity check
  expects doubled data; data that is no list comes back empty, and "valid".
- Loader: a stored sample rate makes the trace handler fail; a loader whose open
  raised keeps its handle.
- Authentication: a user's older key stays valid with its role; a token outlives
  the registration of its tenant.
- Allocator: the memory an allocation reports may exceed its device's if none is
  large enough.
- Bill of materials: a policy report whose reads saw two bills may contradict
  itself, and `StandardsAgree` asks nothing of it; the compliance audit claims
  full readiness whatever the bill says.

`local_read_coarse` and `fuzz_report_returns` are disagreements with the
documentation.
`docs/binary_timing_review.md:45` promises that files changed during reading are
rejected.  The code compares size, modification and change time of two `fstat`
calls (`binary_auditor.py:86`).  File systems that stamp with a coarse clock
(Linux before multigrain time stamps stamps with the timer tick, some
milliseconds) give a write during the read the stamps of the one just before it,
and the read returns blocks of two versions.  Where every modification has a
time stamp of its own, `audit` shows that the promise holds, also if a
writer restores the modification time or the content.

The docstring of `generate_comprehensive_report` (`fuzzing_report.py:62-63`) promises a
dictionary.  `_create_integration_summary` divides by the number of
implementations and then adds the values of two dictionaries (`:138`), which
Python does not do: the call ends in ZeroDivisionError for no implementation and,
as the run shows, in TypeError for any, after everything was fuzzed and before
anything is saved.

## Proofs

Every safety property of a passing run is a theorem, and so are the three action
properties (`RetryAfterHonest`, `GapsPersist` and the refinement
`ImplementsAgreement`).  The theorems hold for every value of
the constants that meets the named assumptions of the modules: there is no
bound on peers, threads, files, documents or messages.  No module imports an
unproved fact.  Each bullet names a module of proofs, its theorems and the
invariant that makes them inductive.

- `TLSHandshake_proofs`, about the handshake peers.
  - `TypeCorrect` and `KeysDropped`.  `TypeOK` alone is not inductive, since
    what a peer computes is typed only if its transcript so far is; `Stage` says
    which messages a transcript holds in each state.
  - `ClientsAgree` and `ServersAgree`.  `AgreementInv` says how long each
    transcript is in each state (`Positions`), that a peer's own hello carries
    its own random (`OriginAt`), that its secrets come from its two hellos
    (`KeyedAt`, `DerivedAt`), that every Finished on the network was sent by a
    peer of the role its secret's label names, over that peer's transcript
    (`Authentic`), and that what a peer accepted is what such a peer sent
    (`ClientAcceptedAt`, `ServerAcceptedAt`).  A verified MAC then names the
    hellos of its sender, and the random in them names the sender: at most one
    peer of the other role can match.
  - `MacKeysUsedOnce`, from the same invariant and `SecretsOverHellos`: every
    Finished on the network is under a secret of the two hellos it is over.
  - `PeersImplementHandshake`, the refinement of HandshakeAgreement, one lemma
    per action.  A refusal is `GiveUp`, the hellos stutter, `SendServerFinished`
    is `Offer`, `ReceiveServerFinished` is `Accept`, `SendClientFinished` is
    `Confirm`, `ReceiveClientFinished` is `Finish`.  It rests on `AcceptanceInv`:
    the agreement, `KeyLifetime`, and that a session derived is typed.
  - `PeersAreTerminal`: failure is final, completion can only be followed by
    failure, transcripts grow at their end.
- `Alerts_proofs`, about the alert engine and the trace stream.
  - `TypeCorrect`, `AttemptsSpaced`, `SuppressionsCovered`, `AttemptsAccounted`.
    `EngineInv`: exactly the holder of the lock is between its acquisition and
    its decision; its reading is the engine's last clock; and no attempt is
    later than that clock or than the last attempt for its key.
  - `StreamAnswers`.  `StreamInv`: the log so far is well formed; while a
    request is active, the end of the log is the frames streamed for it and
    `index` is their number; while none is, the last control message was
    answered completely.
  - `AlertsAreSpaced`.  `AlertsInv` adds `ScopeOk`: the policy in force is the
    one asked for last (`PolicyKept`), alerts are sent only under a policy
    (`AlertsGoverned`), and the engine remembers the latest alert since its
    policy was asked for (`AlertsRemembered`), through pauses and errors.
- `LocalTelemetry_proofs`: `TypeCorrect`, `OneAtATime`, `ScrapesConsistent`,
  `BusyMeansRunning`, `MetricsAccount`.  `TelemetryInv` says that durations are
  at most one ahead of successes, and exactly then some request is about to
  count.  `AccountInv` counts answers together with the requests between their
  counter and their answer; that those are finitely many is part of it, since
  there may be infinitely many requests.
- `Gateway_proofs`, about the rate limiter and authentication.
  - `TypeCorrect`, `GrantsConform`, `CapacityHolds`.  The potential of a request
    is the tokens left plus those granted since it; `BucketInv` bounds it by what
    the window up to the last refill allows, and a refill moves both sides
    alike, in either direction of the clock.
  - `RetryHonest`, an action property.  `PromiseInv`: the retry time of a refusal
    is still that of the tokens missing from the bucket, which has fewer than
    were asked for.  With a positive rate they are there once that time is over
    (`Yielded`); with none, or above the capacity, never (`NeverMore`).
  - `AdmissionsGranted`, `KeysAndTokensAgree`.  `AuthInv`: a token was issued to
    someone entitled and expires that many seconds after the second of its
    issue (`TokenInv`); and in each tenant keys and users hold roles that are
    defined and were granted, and a user's key on record exists and has the
    user's role if it still is that user's (`TenantInv`).
- `ModelServing_proofs`: `TypeCorrect`, `BestSaved`, `MetricsTruthful`,
  `ServesSinceStart`, `ReportsOfSaved`, `ModelSettles`.  `TrainInv`: the best
  weights are the earliest best epoch so far (`BestOf`), a checkpoint of the
  current run is its best model and exists once the run has gone on
  (`SavedInv`), and metrics of the current run mean that the run is over
  (`MetricsInv`).  `IInv` adds that a model reaches memory only through a whole
  file (`PredictInv`) and that what a report told stays true (`ReportInv`).
- `Audit_proofs`, about the binary auditor.
  - `ChangedIsRejected`, where every modification has a time stamp of its own
    (`~Coarse`; without it the property fails, see `local_read_coarse`).
    `ReadInv`: a file touched since the first `fstat` has a later change time,
    and while it is not, what was read is the beginning of its only content.
  - `SectionsAreApart`, `CompleteIsReviewed`.  `ReviewInv`: the sections taken
    are in the order of their headers and pairwise disjoint (`SectionsInv`), all
    headers before the present one that must be taken are (`ProgressInv`), the
    counts are within their budgets and findings are missing only where a
    result or a flag says so (`CountInv`), and each result tells what ended its
    section (`ResultsInv`).
- `Measurement_proofs`, about the HDF5 loader, zeroizer, accelerator, allocator,
  toy LWE and the transform.
  - `LoadedIsWhole`, `ClosedIsForgotten`.  `LoaderInv`: what a loader keeps is of
    files it opened, nothing of them once it is closed, and all of one file that
    can be read in full unless its open raised; and a handler that answered or
    failed holds no file but one whose open raised.
  - `PassedIsZero`.  `ZeroInv`: as long as no other thread wrote, what this pass
    has reached is zero under a pattern of zeros, and what was hashed is still
    there or was overwritten by that thread.
  - `ScoresAreHonest`: the property, with the types it asserts, is inductive as
    it stands.
  - `AllocationsAreHonest`.  `GpuInv`: what each of the two probes leaves
    behind, and which requests follow which.
  - `CallsInRange`: `AnswersInRange` is inductive.  The rounded estimate is
    unique because estimates fall as bits grow (`AtLeastFalls`); the inner
    product, a recursive function, is an integer by the least row position at
    which it would not be.
  - `TransformsAreWalsh`, for every prime modulus and all polynomials, from
    these lemmas.  Coefficients are compared modulo the prime (`Cong`).
    `TransformedReaches`: after s stages each block of 2^s coefficients is the
    Walsh transform, weighted with powers of omega, of the block it came from
    (`Reaches`); `ButterfliesReach` is the step, in which a butterfly joins the
    halves of a block and its factor turns the weights of s stages into those of
    s + 1 (`Doubled`, from `PowerStep`: repeated squaring adds exponents).
    `WalshReached`: the reference is the last block.  `InverseOfLength`: the power
    the inverse call multiplies by is the inverse of the length, since 2^(q-1) is
    1 modulo an odd prime q (`FermatForTwo`, from the factorial of q-1, and
    Euclid's lemma).  `HUndone` and `HOfConv`: without weights the transform
    undoes itself up to the length and takes dyadic convolution to the product
    of transforms; with `InverseOf` they give the round trip (`RoundTrip`) and
    the multiplication (`ProductIsConvolution`).
- `Evidence_proofs`, about what turns results into evidence.
  - `GapsRemain`, an action property.  `FipsInv`: the matrix is the one of the
    documents so far, which are finitely many.
  - `BillCoversScan`, `StandardsOfOneBill`.  `ScanInv`: the files scanned and
    left are all files, each once, and what was detected covers the texts seen
    (`Covers`).  `EvaluationInv` adds that a review holds as many readings of
    the bill as it made (`Reviewing`) and a report is of two readings
    (`Reported`).
  - `OnlyIssuedAccepted`.  `CertInv`: the n-th chain issued has the form of the
    profile and is signed with two keys that sign nothing else (`ChainsInv`), and
    every signature presented is one of an issued envelope (`Verifying`).
  - `ReportsAreAccounts`.  `FuzzInv`: each account kept is complete and each
    parameter set of the job has one or is still to be fuzzed (`FamilyInv`), and
    an account has a shortest and a longest time once it has any (`Extremes`).
  - `BoardsAreRanked`.  Any finite set of comparable results has exactly the
    sorted sequence the board is made of (`SortedExists`, by inserting one
    result), and the recursive ranks are the positions of the first row with
    that score (`RankedExists`, `RanksAreFirst`).

Induction over data that these proofs need, about recursive functions or sizes
of sets, is done by the least counterexample, or with a set in place of the
predicate (`SetInduction`) and a table in place of the step of a recursion
(`Recursion`): the provers cannot instantiate the library's induction theorems.

Three proofs changed the models.  `TransformIsWalsh` was false of inverse calls
modulo 2, which divides every length but one, so that there is nothing to
multiply by; the run had no such modulus and now has it.  The type invariant of
the accelerator had been inside the scope of an implication, where it was never
asserted; and the toy LWE's rounded estimate had no value below -6, which is now
the single value -1 that gives the same range.  Powers, sums and sorted boards
are defined in terms the provers can expand.

## Only model-checked

Liveness (`SimulationReturns`, `DecidedDespiteTransport`, `PlaybackEnds`,
`AllAnswered`): fairness is outside the prover's logic.

Some theorems state properties that no run lists, because a run's other
property or the proof covers them: the type invariants, `TerminalPeers`,
`AttemptsAreAlerts`, `BusyOnlyWhileRunning`, `WithinCapacity`, `ReportsSaved`.

## Not modelled

Numerical code (networks, attacks, lattice and quantum estimates, statistics of
the side-channel lab): its correctness is about real numbers.  Of modelled
files: `check_residual_data` (a scan for byte patterns), zeroizing a ctypes array
whose elements are wider than a byte (`memory_zeroizer.py:110` and `:311` take its
number of elements for its number of bytes), `_erfinv_approx`, the
constants of `get_performance_stats`, the compliance matrix and consistency
check of the fuzzing report (never reached), JSON parsing of a FIPS request with
its limits of text lengths and services.
QEMU feasibility, the readiness score and the executive report are fixed tables
and text over excerpts their caller supplies.  Text, JSON and HTML rendering, the
dashboard, Prometheus' exposition format, deployment files: layout.  The
strength of the cryptography, and what an observer learns from timing: the
models take ideal primitives.  Data races inside CPython: list and dictionary
operations are atomic under its interpreter lock.

## Plan

1. Done: the components that several actors touch (handshake, alerts, stream,
   telemetry, limiter, training and serving, auditor), then protocols over files
   and handles (loader, bill of materials, zeroizer, accelerator, allocator,
   authentication), then pure functions (transform, toy LWE, fuzzing accounts,
   certificates, boards, FIPS evidence).
2. Done: theorems for every safety property of the passing runs, and the
   refinement of HandshakeAgreement.
3. Next: abstract specifications of the rate limiter and of the lazily loaded
   model, with their refinements; more of the handlers of `api/main.py`.
