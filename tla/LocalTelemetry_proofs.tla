------------------------ MODULE LocalTelemetry_proofs ------------------------
(***************************************************************************)
(* One inference at a time, and what a scrape that races it may show, for  *)
(* any number of requests.  A scrape is consistent because the only moment *)
(* at which the durations lead the successes belongs to the one request    *)
(* that holds the inference lock.                                          *)
(***************************************************************************)
EXTENDS LocalTelemetry, FiniteSetTheorems, TLAPS

\* The durations lead the successes between a request's two increments only.
CountInv ==
  metric["duration"] = metric["successes"] + IF \E r \in Infers : pc[r] = "count" THEN 1 ELSE 0

\* What a scrape has read stays a lower bound of the durations.
ScrapeInv ==
  \A s \in Scrapes : pc[s] = "scrape_successes" => scraped[s]["duration"] <= metric["duration"]

TelemetryInv == TypeOK /\ OneInference /\ CountInv /\ ScrapeInv /\ ScrapeConsistent

LEMMA TelemetryInit == Init => TelemetryInv
<1> SUFFICES ASSUME Init PROVE TelemetryInv
  OBVIOUS
<1>1. TypeOK
  BY DEF Init, TypeOK, Metrics
<1>2. \A r \in Requests : pc[r] = "arrive"
  BY DEF Init
<1>3. OneInference
  BY <1>2 DEF Init, OneInference, Holding, Running, Requests
<1>4. CountInv
  BY <1>2 DEF Init, CountInv, Metrics, Requests
<1>5. ScrapeInv /\ ScrapeConsistent
  BY <1>2 DEF ScrapeInv, ScrapeConsistent, Requests
<1> QED BY <1>1, <1>3, <1>4, <1>5 DEF TelemetryInv

\* A request that neither runs nor counts moves on without an effect.
LEMMA Idle ==
  ASSUME TelemetryInv, NEW r \in Requests, NEW to,
         to \in {"handle"} \cup Status,
         pc[r] \in {"arrive", "handle"}, to = "200" => FALSE,
         pc' = [pc EXCEPT ![r] = to],
         UNCHANGED <<inference_lock, metric, scraped>>
  PROVE  TelemetryInv'
<1>1. TypeOK'
  BY DEF TelemetryInv, TypeOK
<1>2. Holding' = Holding
  BY DEF TelemetryInv, TypeOK, Holding, Running, Status, Requests
<1>3. OneInference'
  BY <1>2 DEF TelemetryInv, OneInference
<1>4. \A q \in Requests : pc'[q] = "count" <=> pc[q] = "count"
  BY DEF TelemetryInv, TypeOK, Status
<1>5. CountInv'
  BY <1>4 DEF TelemetryInv, CountInv, Requests
<1>6. ScrapeInv' /\ ScrapeConsistent'
  BY DEF TelemetryInv, TypeOK, ScrapeInv, ScrapeConsistent, Status
<1> QED BY <1>1, <1>3, <1>5, <1>6 DEF TelemetryInv

\* The request that runs is the only one.
LEMMA OnlyOne ==
  ASSUME TelemetryInv, NEW r \in Infers, pc[r] \in Running
  PROVE  /\ r \in Requests /\ r \notin Scrapes /\ inference_lock
         /\ \A q \in Infers \ {r} : pc[q] \notin Running
BY RequestsAssumption DEF TelemetryInv, OneInference, Holding, Requests

\* A request that goes on running keeps the lock to itself.
LEMMA StaysRunning ==
  ASSUME TelemetryInv, NEW r \in Infers, pc[r] \in Running, NEW to \in Running,
         pc' = [pc EXCEPT ![r] = to], UNCHANGED <<inference_lock, scraped>>,
         metric' \in [Metrics -> Nat],
         \A m \in Metrics : metric[m] <= metric'[m],
         CountInv'
  PROVE  TelemetryInv'
<1>1. /\ r \in Requests /\ r \notin Scrapes
      /\ \A q \in Infers \ {r} : pc[q] \notin Running
  BY OnlyOne
<1>2. TypeOK'
  BY <1>1 DEF TelemetryInv, TypeOK
<1>3. Holding' = Holding
  BY <1>1 DEF TelemetryInv, TypeOK, Holding, Requests
<1>4. OneInference'
  BY <1>3 DEF TelemetryInv, OneInference
<1>5. \A s \in Scrapes : pc'[s] = pc[s] /\ s \in Requests
  BY <1>1 DEF TelemetryInv, TypeOK, Requests
<1>6. ScrapeInv'
  <2>1. \A s \in Scrapes : scraped[s]["duration"] \in Nat
    BY DEF TelemetryInv, TypeOK, Metrics
  <2>2. /\ metric["duration"] \in Nat /\ metric'["duration"] \in Nat
        /\ metric["duration"] <= metric'["duration"]
    BY DEF TelemetryInv, TypeOK, Metrics
  <2> QED BY <1>5, <2>1, <2>2 DEF TelemetryInv, ScrapeInv
<1>7. ScrapeConsistent'
  BY <1>5 DEF TelemetryInv, ScrapeConsistent
<1> QED BY <1>2, <1>4, <1>6, <1>7 DEF TelemetryInv

LEMMA InferStep ==
  ASSUME TelemetryInv, NEW r \in Infers, Infer(r)
  PROVE  TelemetryInv'
<1>0. /\ r \in Requests /\ r \notin Scrapes
      /\ pc \in [Requests -> {"arrive", "handle"} \cup Running \cup Scraping \cup Status]
      /\ metric \in [Metrics -> Nat]
      /\ {"duration", "successes", "failures"} = Metrics
      /\ Infers \subseteq Requests
  BY RequestsAssumption DEF TelemetryInv, TypeOK, Requests, Metrics
<1>1. CASE Busy(r)
  BY <1>0, <1>1, Idle DEF Busy, Answer, Goto, Status
<1>2. CASE Acquire(r)
  <2>1. /\ pc[r] = "handle" /\ ~inference_lock /\ inference_lock' = TRUE
        /\ pc' = [pc EXCEPT ![r] = "measure"] /\ UNCHANGED <<metric, scraped>>
    BY <1>2 DEF Acquire, Goto
  <2>2. \A q \in Infers : pc[q] \notin Running
    BY <2>1 DEF TelemetryInv, OneInference, Holding
  <2>3. TypeOK'
    BY <1>0, <2>1 DEF TelemetryInv, TypeOK, Running
  <2>4. Holding' = {r}
    BY <1>0, <2>1, <2>2 DEF Holding, Running
  <2>5. OneInference'
    BY <2>1, <2>4 DEF OneInference
  <2>6. \A q \in Infers : pc'[q] = "count" <=> pc[q] = "count"
    BY <1>0, <2>1
  <2>7. CountInv'
    BY <2>1, <2>6 DEF TelemetryInv, CountInv
  <2>8. ScrapeInv' /\ ScrapeConsistent'
    BY <1>0, <2>1 DEF TelemetryInv, ScrapeInv, ScrapeConsistent, Requests
  <2> QED BY <2>3, <2>5, <2>7, <2>8 DEF TelemetryInv
<1>3. CASE Measure(r)
  <2>1. PICK to \in {"observe", "fail"} : pc' = [pc EXCEPT ![r] = to]
    BY <1>3 DEF Measure, Goto
  <2>2. pc[r] = "measure" /\ UNCHANGED <<inference_lock, metric, scraped>>
    BY <1>3 DEF Measure
  <2>3. CountInv'
    <3>1. \A q \in Infers : pc'[q] = "count" <=> pc[q] = "count"
      BY <1>0, <2>1, <2>2
    <3> QED BY <2>2, <3>1 DEF TelemetryInv, CountInv
  <2>4. pc[r] \in Running /\ to \in Running
    BY <2>2 DEF Running
  <2>5. metric' \in [Metrics -> Nat] /\ \A m \in Metrics : metric[m] <= metric'[m]
    BY <1>0, <2>2
  <2> QED BY <2>1, <2>2, <2>3, <2>4, <2>5, StaysRunning
<1>4. CASE Observe(r)
  <2>1. /\ pc[r] = "observe" /\ pc' = [pc EXCEPT ![r] = "count"]
        /\ metric' = [metric EXCEPT !["duration"] = @ + 1]
        /\ UNCHANGED <<inference_lock, scraped>>
    BY <1>4 DEF Observe, Goto, Inc
  <2>2. pc[r] \in Running /\ "count" \in Running
    BY <2>1 DEF Running
  <2>3. CountInv'
    <3>1. \A q \in Infers : pc[q] # "count"
      BY <2>1, <2>2, OnlyOne DEF Running
    <3>2. \E q \in Infers : pc'[q] = "count"
      BY <1>0, <2>1
    <3>3. metric["duration"] = metric["successes"]
      BY <1>0, <3>1 DEF TelemetryInv, CountInv
    <3>4. metric'["duration"] = metric["duration"] + 1 /\ metric'["successes"] = metric["successes"]
      BY <1>0, <2>1
    <3> QED BY <1>0, <3>2, <3>3, <3>4 DEF CountInv
  <2>4. metric' \in [Metrics -> Nat] /\ \A m \in Metrics : metric[m] <= metric'[m]
    BY <1>0, <2>1
  <2> QED BY <2>1, <2>2, <2>3, <2>4, StaysRunning
<1>5. CASE Count(r)
  <2>1. /\ pc[r] = "count" /\ pc' = [pc EXCEPT ![r] = "release"]
        /\ metric' = [metric EXCEPT !["successes"] = @ + 1]
        /\ UNCHANGED <<inference_lock, scraped>>
    BY <1>5 DEF Count, Goto, Inc
  <2>2. pc[r] \in Running /\ "release" \in Running
    BY <2>1 DEF Running
  <2>3. CountInv'
    <3>1. \A q \in Infers \ {r} : pc[q] # "count"
      BY <2>1, <2>2, OnlyOne DEF Running
    <3>2. \A q \in Infers : pc'[q] # "count"
      BY <1>0, <2>1, <3>1
    <3>3. metric["duration"] = metric["successes"] + 1
      BY <2>1 DEF TelemetryInv, CountInv
    <3>4. metric'["duration"] = metric["duration"] /\ metric'["successes"] = metric["successes"] + 1
      BY <1>0, <2>1
    <3> QED BY <1>0, <3>2, <3>3, <3>4 DEF CountInv
  <2>4. metric' \in [Metrics -> Nat] /\ \A m \in Metrics : metric[m] <= metric'[m]
    BY <1>0, <2>1
  <2> QED BY <2>1, <2>2, <2>3, <2>4, StaysRunning
<1>6. CASE CountFailure(r)
  <2>1. /\ pc[r] = "fail" /\ pc' = [pc EXCEPT ![r] = "release_failed"]
        /\ metric' = [metric EXCEPT !["failures"] = @ + 1]
        /\ UNCHANGED <<inference_lock, scraped>>
    BY <1>6 DEF CountFailure, Goto, Inc
  <2>2. pc[r] \in Running /\ "release_failed" \in Running
    BY <2>1 DEF Running
  <2>3. CountInv'
    <3>1. \A q \in Infers : pc'[q] = "count" <=> pc[q] = "count"
      BY <1>0, <2>1
    <3>2. metric'["duration"] = metric["duration"] /\ metric'["successes"] = metric["successes"]
      BY <1>0, <2>1
    <3> QED BY <3>1, <3>2 DEF TelemetryInv, CountInv
  <2>4. metric' \in [Metrics -> Nat] /\ \A m \in Metrics : metric[m] <= metric'[m]
    BY <1>0, <2>1
  <2> QED BY <2>1, <2>2, <2>3, <2>4, StaysRunning
<1>7. CASE Release(r)
  <2>1. PICK to \in {"200", "500"} : pc' = [pc EXCEPT ![r] = to]
    BY <1>7 DEF Release, Answer, Goto
  <2>2. /\ pc[r] \in {"release", "release_failed"}
        /\ inference_lock' = FALSE /\ UNCHANGED <<metric, scraped>>
    BY <1>7 DEF Release
  <2>3. \A q \in Infers \ {r} : pc[q] \notin Running
    BY <2>2, OnlyOne DEF Running
  <2>4. TypeOK'
    BY <1>0, <2>1, <2>2 DEF TelemetryInv, TypeOK, Status
  <2>5. Holding' = {}
    BY <1>0, <2>1, <2>3 DEF Holding, Running
  <2>6. OneInference'
    BY <2>2, <2>5 DEF OneInference
  <2>7. CountInv'
    <3>1. \A q \in Infers : pc'[q] = "count" <=> pc[q] = "count"
      BY <1>0, <2>1, <2>2
    <3> QED BY <2>2, <3>1 DEF TelemetryInv, CountInv
  <2>8. ScrapeInv' /\ ScrapeConsistent'
    BY <1>0, <2>1, <2>2 DEF TelemetryInv, ScrapeInv, ScrapeConsistent, Requests
  <2> QED BY <2>4, <2>6, <2>7, <2>8 DEF TelemetryInv
<1> QED BY <1>1, <1>2, <1>3, <1>4, <1>5, <1>6, <1>7 DEF Infer

LEMMA ScrapeStep ==
  ASSUME TelemetryInv, NEW s \in Scrapes, Scrape(s)
  PROVE  TelemetryInv'
<1>0. /\ s \in Requests /\ s \notin Infers /\ Infers \subseteq Requests
      /\ pc \in [Requests -> {"arrive", "handle"} \cup Running \cup Scraping \cup Status]
      /\ metric \in [Metrics -> Nat]
      /\ scraped \in [Scrapes -> [Metrics -> Nat]]
      /\ {"duration", "successes", "failures"} = Metrics
  BY RequestsAssumption DEF TelemetryInv, TypeOK, Requests, Metrics
<1>1. UNCHANGED <<inference_lock, metric>>
  BY DEF Scrape
<1>2. PICK m \in Metrics, to \in Scraping \cup {"200"} :
         /\ pc' = [pc EXCEPT ![s] = to]
         /\ scraped' = [scraped EXCEPT ![s][m] = metric[m]]
         /\ \/ pc[s] = "handle" /\ m = "duration" /\ to = "scrape_successes"
            \/ pc[s] = "scrape_successes" /\ m = "successes" /\ to = "scrape_failures"
            \/ pc[s] = "scrape_failures" /\ m = "failures" /\ to = "200"
  BY <1>0 DEF Scrape, Read, Goto, Answer, Scraping
<1>3. /\ scraped'[s] = [scraped[s] EXCEPT ![m] = metric[m]]
      /\ pc'[s] = to
      /\ \A q \in Requests \ {s} : pc'[q] = pc[q]
      /\ \A q \in Scrapes \ {s} : scraped'[q] = scraped[q]
  BY <1>0, <1>2
<1>4. TypeOK'
  BY <1>0, <1>1, <1>2 DEF TelemetryInv, TypeOK, Status
<1>5. Holding' = Holding /\ \A q \in Infers : pc'[q] = pc[q]
  BY <1>0, <1>3 DEF Holding
<1>6. OneInference' /\ CountInv'
  BY <1>1, <1>5 DEF TelemetryInv, OneInference, CountInv
<1>7. scraped[s] \in [Metrics -> Nat]
  BY <1>0
<1>8. ASSUME m = "duration", to = "scrape_successes"
      PROVE  ScrapeInv' /\ ScrapeConsistent'
  <2>1. scraped'[s]["duration"] = metric["duration"]
    BY <1>0, <1>3, <1>7, <1>8
  <2>2. metric["duration"] \in Nat
    BY <1>0
  <2>3. ScrapeInv'
    BY <1>0, <1>1, <1>3, <2>1, <2>2 DEF TelemetryInv, ScrapeInv, Requests
  <2>4. ScrapeConsistent'
    BY <1>3, <1>8 DEF TelemetryInv, ScrapeConsistent, Requests
  <2> QED BY <2>3, <2>4
<1>9. ASSUME pc[s] = "scrape_successes", m = "successes", to = "scrape_failures"
      PROVE  ScrapeInv' /\ ScrapeConsistent'
  <2>1. /\ scraped'[s]["duration"] = scraped[s]["duration"]
        /\ scraped'[s]["successes"] = metric["successes"]
    BY <1>0, <1>3, <1>7, <1>9
  <2>2. scraped[s]["duration"] <= metric["duration"]
    BY <1>9 DEF TelemetryInv, ScrapeInv
  <2>3. metric["duration"] <= metric["successes"] + 1
    BY <1>0 DEF TelemetryInv, CountInv
  <2>4. /\ scraped[s]["duration"] \in Nat
        /\ metric["duration"] \in Nat /\ metric["successes"] \in Nat
    BY <1>0, <1>7
  <2>5. scraped'[s]["duration"] <= scraped'[s]["successes"] + 1
    BY <2>1, <2>2, <2>3, <2>4
  <2>6. ScrapeInv'
    BY <1>1, <1>3, <1>9 DEF TelemetryInv, ScrapeInv, Requests
  <2>7. ScrapeConsistent'
    BY <1>3, <2>5 DEF TelemetryInv, ScrapeConsistent, Requests
  <2> QED BY <2>6, <2>7
<1>10. ASSUME pc[s] = "scrape_failures", m = "failures", to = "200"
       PROVE  ScrapeInv' /\ ScrapeConsistent'
  <2>1. /\ scraped'[s]["duration"] = scraped[s]["duration"]
        /\ scraped'[s]["successes"] = scraped[s]["successes"]
    BY <1>0, <1>3, <1>7, <1>10
  <2>2. scraped[s]["duration"] <= scraped[s]["successes"] + 1
    BY <1>10 DEF TelemetryInv, ScrapeConsistent
  <2>3. ScrapeInv'
    BY <1>1, <1>3, <1>10 DEF TelemetryInv, ScrapeInv, Requests
  <2>4. ScrapeConsistent'
    BY <1>3, <2>1, <2>2 DEF TelemetryInv, ScrapeConsistent, Requests
  <2> QED BY <2>3, <2>4
<1> QED BY <1>2, <1>4, <1>6, <1>8, <1>9, <1>10 DEF TelemetryInv

LEMMA TelemetryStep == TelemetryInv /\ [Next]_vars => TelemetryInv'
<1> SUFFICES ASSUME TelemetryInv, [Next]_vars PROVE TelemetryInv'
  OBVIOUS
<1>1. ASSUME NEW r \in Requests, LocalOnly(r) PROVE TelemetryInv'
  <2>1. PICK to \in {"handle", "403", "400"} : pc' = [pc EXCEPT ![r] = to]
    BY <1>1 DEF LocalOnly, Goto, Answer
  <2> QED BY <1>1, <2>1, Idle DEF LocalOnly, Status
<1>2. CASE UNCHANGED vars
  BY <1>2 DEF vars, TelemetryInv, TypeOK, OneInference, Holding, CountInv, ScrapeInv,
              ScrapeConsistent
<1> QED BY <1>1, <1>2, InferStep, ScrapeStep DEF Next, Handle

LEMMA TelemetryAlways == Spec => []TelemetryInv
BY TelemetryInit, TelemetryStep, PTL DEF Spec

\* The requests, the lock, the metrics and the scrapes of the app are typed.
THEOREM TypeCorrect == Spec => []TypeOK
<1>1. TelemetryInv => TypeOK
  BY DEF TelemetryInv
<1> QED BY <1>1, TelemetryAlways, PTL

\* infer() runs the shared model for one request at a time and holds the
\* lock exactly while it does, whether the inference succeeds or fails.
THEOREM OneAtATime == Spec => []OneInference
<1>1. TelemetryInv => OneInference
  BY DEF TelemetryInv
<1> QED BY <1>1, TelemetryAlways, PTL

\* A scrape that races any number of inferences shows at most one duration
\* more than successes (metrics() reads without a lock).
THEOREM ScrapesConsistent == Spec => []ScrapeConsistent
<1>1. TelemetryInv => ScrapeConsistent
  BY DEF TelemetryInv
<1> QED BY <1>1, TelemetryAlways, PTL

\* A 409 is answered only while another request is running and goes on.
THEOREM BusyMeansRunning == Spec => BusyOnlyWhileRunning
<1> DEFINE Refused(r) == pc[r] # "409" /\ pc'[r] = "409"
<1>1. ASSUME TelemetryInv, [Next]_vars, NEW r \in Infers, Refused(r)
      PROVE  \E q \in Holding \ {r} : pc'[q] = pc[q]
  <2>0. pc \in [Requests -> {"arrive", "handle"} \cup Running \cup Scraping \cup Status]
        /\ r \in Requests /\ Infers \subseteq Requests
    BY <1>1 DEF TelemetryInv, TypeOK, Requests
  <2>1. PICK p \in Requests : Handle(p)
    BY <1>1 DEF Next, vars
  <2>2. PICK to : pc' = [pc EXCEPT ![p] = to]
    BY <2>1 DEF Handle, LocalOnly, Infer, Busy, Acquire, Measure, Observe, Count,
                CountFailure, Release, Scrape, Goto, Answer
  <2>3. p = r /\ to = "409"
    BY <1>1, <2>0, <2>2
  <2>4. r \notin Scrapes
    BY RequestsAssumption
  <2>5. pc[r] = "handle" /\ inference_lock
    <3>1. ASSUME NEW step, Goto(r, step) PROVE step = "409"
      BY <1>1, <2>0, <3>1 DEF Goto
    <3>2. ~LocalOnly(r)
      BY <3>1 DEF LocalOnly, Answer
    <3>3. Infer(r)
      BY <2>1, <2>3, <2>4, <3>2 DEF Handle
    <3> QED BY <3>1, <3>3 DEF Infer, Busy, Acquire, Measure, Observe, Count,
                              CountFailure, Release, Answer
  <2>6. PICK q \in Holding : TRUE
    BY <1>1, <2>5 DEF TelemetryInv, OneInference
  <2>7. q # r /\ q \in Requests
    BY <2>0, <2>5, <2>6 DEF Holding, Running
  <2> QED BY <2>0, <2>2, <2>3, <2>6, <2>7
<1>2. TelemetryInv /\ [Next]_vars =>
        [\A r \in Infers : Refused(r) => \E q \in Holding \ {r} : pc'[q] = pc[q]]_vars
  BY <1>1
<1> QED BY <1>2, TelemetryAlways, PTL DEF Spec, BusyOnlyWhileRunning

-----------------------------------------------------------------------------
(* The metrics and the answers.  A success is counted one step before its  *)
(* answer, so that the inductive invariant counts the requests between the *)
(* two as well.  There may be infinitely many requests: those that were    *)
(* counted are finitely many at any time.                                  *)

At(steps) == {r \in Infers : pc[r] \in steps}
Succeeded == At({"release", "200"})
Failed == At({"release_failed", "500"})

AccountInv == /\ IsFiniteSet(Succeeded) /\ metric["successes"] = Cardinality(Succeeded)
              /\ IsFiniteSet(Failed) /\ metric["failures"] = Cardinality(Failed)

LEMMA AccountInit == Init => AccountInv
<1> SUFFICES ASSUME Init PROVE AccountInv
  OBVIOUS
<1>1. Succeeded = {} /\ Failed = {}
  BY DEF Init, Succeeded, Failed, At, Requests
<1>2. metric["successes"] = 0 /\ metric["failures"] = 0
  BY DEF Init, Metrics
<1> QED BY <1>1, <1>2, FS_EmptySet DEF AccountInv

\* A step that counts nothing neither adds to nor takes from what was counted.
LEMMA AccountFrame ==
  ASSUME AccountInv, NEW r \in Infers, NEW to,
         pc \in [Requests -> {"arrive", "handle"} \cup Running \cup Scraping \cup Status],
         pc' = [pc EXCEPT ![r] = to],
         pc[r] \in {"release", "200"} <=> to \in {"release", "200"},
         pc[r] \in {"release_failed", "500"} <=> to \in {"release_failed", "500"},
         metric'["successes"] = metric["successes"],
         metric'["failures"] = metric["failures"]
  PROVE  AccountInv'
<1>1. \A q \in Infers : /\ pc'[q] \in {"release", "200"} <=> pc[q] \in {"release", "200"}
                        /\ pc'[q] \in {"release_failed", "500"} <=> pc[q] \in {"release_failed", "500"}
  BY DEF Requests
<1>2. Succeeded' = Succeeded /\ Failed' = Failed
  BY <1>1 DEF Succeeded, Failed, At
<1> QED BY <1>2 DEF AccountInv

LEMMA AccountInfer ==
  ASSUME TelemetryInv, AccountInv, NEW r \in Infers, Infer(r)
  PROVE  AccountInv'
<1>0. /\ r \in Requests /\ Infers \subseteq Requests
      /\ pc \in [Requests -> {"arrive", "handle"} \cup Running \cup Scraping \cup Status]
      /\ metric \in [Metrics -> Nat]
      /\ {"duration", "successes", "failures"} = Metrics
  BY DEF TelemetryInv, TypeOK, Requests, Metrics
<1>1. CASE Busy(r) \/ Acquire(r) \/ Measure(r) \/ Release(r)
  <2>1. UNCHANGED metric
    BY <1>1 DEF Busy, Acquire, Measure, Release
  <2>2. PICK to : /\ pc' = [pc EXCEPT ![r] = to]
                  /\ pc[r] \in {"release", "200"} <=> to \in {"release", "200"}
                  /\ pc[r] \in {"release_failed", "500"} <=> to \in {"release_failed", "500"}
    BY <1>1 DEF Busy, Acquire, Measure, Release, Answer, Goto
  <2> QED BY <1>0, <2>1, <2>2, AccountFrame
<1>2. CASE Observe(r)
  <2>1. /\ pc[r] = "observe" /\ pc' = [pc EXCEPT ![r] = "count"]
        /\ metric'["successes"] = metric["successes"] /\ metric'["failures"] = metric["failures"]
    BY <1>0, <1>2 DEF Observe, Goto, Inc
  <2> QED BY <1>0, <2>1, AccountFrame
<1>3. CASE Count(r)
  <2>1. /\ pc[r] = "count" /\ pc' = [pc EXCEPT ![r] = "release"]
        /\ metric'["successes"] = metric["successes"] + 1
        /\ metric'["failures"] = metric["failures"]
    BY <1>0, <1>3 DEF Count, Goto, Inc
  <2>2. r \notin Succeeded /\ Succeeded' = Succeeded \cup {r} /\ Failed' = Failed
    BY <1>0, <2>1 DEF Succeeded, Failed, At
  <2> QED BY <2>1, <2>2, FS_AddElement DEF AccountInv
<1>4. CASE CountFailure(r)
  <2>1. /\ pc[r] = "fail" /\ pc' = [pc EXCEPT ![r] = "release_failed"]
        /\ metric'["failures"] = metric["failures"] + 1
        /\ metric'["successes"] = metric["successes"]
    BY <1>0, <1>4 DEF CountFailure, Goto, Inc
  <2>2. r \notin Failed /\ Failed' = Failed \cup {r} /\ Succeeded' = Succeeded
    BY <1>0, <2>1 DEF Succeeded, Failed, At
  <2> QED BY <2>1, <2>2, FS_AddElement DEF AccountInv
<1> QED BY <1>1, <1>2, <1>3, <1>4 DEF Infer

LEMMA AccountStep == TelemetryInv /\ AccountInv /\ [Next]_vars => AccountInv'
<1> SUFFICES ASSUME TelemetryInv, AccountInv, [Next]_vars PROVE AccountInv'
  OBVIOUS
<1>0. pc \in [Requests -> {"arrive", "handle"} \cup Running \cup Scraping \cup Status]
  BY DEF TelemetryInv, TypeOK
<1>1. ASSUME NEW r \in Requests, LocalOnly(r) PROVE AccountInv'
  <2>1. PICK to \in {"handle", "403", "400"} : pc' = [pc EXCEPT ![r] = to]
    BY <1>1 DEF LocalOnly, Goto, Answer
  <2>2. pc[r] = "arrive" /\ UNCHANGED metric
    BY <1>1 DEF LocalOnly
  <2>3. Succeeded' = Succeeded /\ Failed' = Failed
    BY <1>0, <2>1, <2>2 DEF Succeeded, Failed, At, Requests
  <2> QED BY <2>2, <2>3 DEF AccountInv
<1>2. ASSUME NEW s \in Scrapes, Scrape(s) PROVE AccountInv'
  <2>1. UNCHANGED metric /\ \E to : pc' = [pc EXCEPT ![s] = to]
    BY <1>2 DEF Scrape, Goto, Answer
  <2>2. \A q \in Infers : pc'[q] = pc[q]
    BY <1>0, <2>1, RequestsAssumption DEF Requests
  <2> QED BY <2>1, <2>2 DEF AccountInv, Succeeded, Failed, At
<1>3. CASE UNCHANGED vars
  BY <1>3 DEF vars, AccountInv, Succeeded, Failed, At
<1> QED BY <1>1, <1>2, <1>3, AccountInfer DEF Next, Handle

\* Whenever no inference is under way, the three metrics of the registry
\* account for the answers exactly: a success and a duration per 200, a
\* failure per 500 and nothing for a 409, for any number of requests.
THEOREM MetricsAccount == Spec => []MetricsMatchAnswers
<1>1. TelemetryInv /\ AccountInv => MetricsMatchAnswers
  <2> SUFFICES ASSUME TelemetryInv, AccountInv, Holding = {} PROVE MetricsMatchAnswers
    BY DEF MetricsMatchAnswers
  <2>1. \A r \in Infers : pc[r] \notin {"release", "release_failed", "count"}
    BY DEF Holding, Running
  <2>2. /\ Succeeded = {r \in Infers : pc[r] = "200"}
        /\ Failed = {r \in Infers : pc[r] = "500"}
    BY <2>1 DEF Succeeded, Failed, At
  <2>3. metric["successes"] = With("200") /\ metric["failures"] = With("500")
    BY <2>2 DEF AccountInv, With
  <2>4. metric["duration"] = metric["successes"]
    BY <2>1 DEF TelemetryInv, TypeOK, Metrics, CountInv
  <2> QED BY <2>3, <2>4 DEF MetricsMatchAnswers
<1>2. Spec => []AccountInv
  BY AccountInit, AccountStep, TelemetryAlways, PTL DEF Spec
<1> QED BY <1>1, <1>2, TelemetryAlways, PTL
=============================================================================
