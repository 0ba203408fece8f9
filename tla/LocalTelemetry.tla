--------------------------- MODULE LocalTelemetry ---------------------------
(***************************************************************************)
(* create_local_telemetry_app of src/pqc_bench/api/local_telemetry.py:     *)
(* POST /synthetic/infer runs in threads that try an inference lock        *)
(* without waiting and account for what they did in three metrics, which   *)
(* GET /metrics reads one after the other while inferences go on.          *)
(***************************************************************************)
EXTENDS Naturals, FiniteSets

CONSTANTS Infers,      \* one POST /synthetic/infer each
          Scrapes      \* one GET /metrics each

ASSUME RequestsAssumption == Infers \cap Scrapes = {}

Requests == Infers \cup Scrapes
Metrics == {"duration", "successes", "failures"}

VARIABLES pc,               \* where each request is, its HTTP status in the end
          inference_lock,   \* a threading.Lock: held or not, by whom it does not know
          metric,           \* the count of each metric in the registry
          scraped           \* the counts each scrape has read so far

vars == <<pc, inference_lock, metric, scraped>>

Status == {"200", "400", "403", "409", "500"}
Running == {"measure", "observe", "count", "release", "fail", "release_failed"}
Scraping == {"scrape_successes", "scrape_failures"}

TypeOK == /\ pc \in [Requests -> {"arrive", "handle"} \cup Running \cup Scraping \cup Status]
          /\ inference_lock \in BOOLEAN
          /\ metric \in [Metrics -> Nat]
          /\ scraped \in [Scrapes -> [Metrics -> Nat]]

Init == /\ pc = [r \in Requests |-> "arrive"]
        /\ inference_lock = FALSE
        /\ metric = [m \in Metrics |-> 0]
        /\ scraped = [s \in Scrapes |-> [m \in Metrics |-> 0]]

Goto(r, step) == pc' = [pc EXCEPT ![r] = step]
Answer(r, status) == Goto(r, status)
Inc(m) == metric' = [metric EXCEPT ![m] = @ + 1]

\* local_only: a client that is not loopback, a query or a body is refused.
LocalOnly(r) == /\ pc[r] = "arrive"
                /\ \/ Goto(r, "handle")
                   \/ \E status \in {"403", "400"} : Answer(r, status)
                /\ UNCHANGED <<inference_lock, metric, scraped>>

\* Mutant: the lock is tried inside the try block, so a busy answer releases it.
BusyReleases(r) == /\ pc[r] = "handle" /\ inference_lock
                   /\ Answer(r, "409")
                   /\ inference_lock' = FALSE
                   /\ UNCHANGED <<metric, scraped>>

\* Mutant: a busy inference is waited for.
WaitWhenBusy(r) == pc[r] = "handle" /\ inference_lock /\ UNCHANGED vars

\* acquire(blocking=False) failed; nothing is counted.
Busy(r) == /\ pc[r] = "handle" /\ inference_lock
           /\ Answer(r, "409")
           /\ UNCHANGED <<inference_lock, metric, scraped>>

Acquire(r) == /\ pc[r] = "handle" /\ ~inference_lock
              /\ inference_lock' = TRUE
              /\ Goto(r, "measure")
              /\ UNCHANGED <<metric, scraped>>

\* The forward pass gives finite logits in a finite time, or it fails.
Measure(r) == /\ pc[r] = "measure"
              /\ Goto(r, "observe") \/ Goto(r, "fail")
              /\ UNCHANGED <<inference_lock, metric, scraped>>

Observe(r) == /\ pc[r] = "observe"
              /\ Inc("duration")
              /\ Goto(r, "count")
              /\ UNCHANGED <<inference_lock, scraped>>

Count(r) == /\ pc[r] = "count"
            /\ Inc("successes")
            /\ Goto(r, "release")
            /\ UNCHANGED <<inference_lock, scraped>>

\* Mutant: a failed inference also leaves a duration behind.
CountFailureTwice(r) == /\ pc[r] = "fail"
                        /\ metric' = [metric EXCEPT !["failures"] = @ + 1, !["duration"] = @ + 1]
                        /\ Goto(r, "release_failed")
                        /\ UNCHANGED <<inference_lock, scraped>>

CountFailure(r) == /\ pc[r] = "fail"
                   /\ Inc("failures")
                   /\ Goto(r, "release_failed")
                   /\ UNCHANGED <<inference_lock, scraped>>

\* The finally clause, on success and on failure.
Release(r) == /\ \/ pc[r] = "release" /\ Answer(r, "200")
                 \/ pc[r] = "release_failed" /\ Answer(r, "500")
              /\ inference_lock' = FALSE
              /\ UNCHANGED <<metric, scraped>>

Infer(r) == \/ Busy(r) \/ Acquire(r) \/ Measure(r) \/ Observe(r) \/ Count(r)
            \/ CountFailure(r) \/ Release(r)

Read(s, m) == scraped' = [scraped EXCEPT ![s][m] = metric[m]]

\* Mutant: the registry yields the successes before the durations.
ScrapeReordered(s) == /\ \/ pc[s] = "handle" /\ Read(s, "successes") /\ Goto(s, "scrape_successes")
                         \/ pc[s] = "scrape_successes" /\ Read(s, "duration") /\ Goto(s, "scrape_failures")
                         \/ pc[s] = "scrape_failures" /\ Read(s, "failures") /\ Answer(s, "200")
                      /\ UNCHANGED <<inference_lock, metric>>

\* generate_latest collects the metrics in the order they were registered,
\* without a lock around them.
Scrape(s) == /\ \/ pc[s] = "handle" /\ Read(s, "duration") /\ Goto(s, "scrape_successes")
                \/ pc[s] = "scrape_successes" /\ Read(s, "successes") /\ Goto(s, "scrape_failures")
                \/ pc[s] = "scrape_failures" /\ Read(s, "failures") /\ Answer(s, "200")
             /\ UNCHANGED <<inference_lock, metric>>

Handle(r) == LocalOnly(r) \/ (r \in Infers /\ Infer(r)) \/ (r \in Scrapes /\ Scrape(r))
Next == \E r \in Requests : Handle(r)

\* Every thread is scheduled, but a forward pass may hang.
Spec == Init /\ [][Next]_vars /\ \A r \in Requests : WF_vars(pc[r] # "measure" /\ Handle(r))

-----------------------------------------------------------------------------
(* Properties.                                                             *)

Holding == {r \in Infers : pc[r] \in Running}

\* The shared model never runs for two requests at once, and the lock is
\* held exactly while one of them runs, however it ends.
OneInference == /\ \A q, r \in Holding : q = r
                /\ inference_lock <=> Holding # {}

With(status) == Cardinality({r \in Infers : pc[r] = status})

\* Whenever no inference is under way the metrics account for exactly the
\* answers: a duration and a success per 200, a failure per 500, none per 409.
MetricsMatchAnswers ==
  Holding = {} => /\ metric["successes"] = With("200")
                  /\ metric["duration"] = With("200")
                  /\ metric["failures"] = With("500")

\* A scrape that races inferences never shows two durations without success.
ScrapeConsistent ==
  \A s \in Scrapes : pc[s] \in {"200", "scrape_failures"} =>
    scraped[s]["duration"] <= scraped[s]["successes"] + 1

\* Every request is answered, even while the model hangs in another one:
\* nobody waits for the inference lock.
AllAnswered == \A r \in Requests : <>(pc[r] \in Status \/ pc[r] = "measure")

\* An inference is refused as busy only while another one is under way.
BusyOnlyWhileRunning ==
  [][\A r \in Infers : pc[r] # "409" /\ pc'[r] = "409" =>
       \E q \in Holding \ {r} : pc'[q] = pc[q]]_vars
=============================================================================
