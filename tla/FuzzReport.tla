----------------------------- MODULE FuzzReport -----------------------------
(***************************************************************************)
(* fuzzing/ct_fuzzer.py and fuzzing/fuzzing_report.py: an implementation   *)
(* is called again and again with odd ciphertexts, the calls are accounted *)
(* for, and reports judge the implementations from the accounts.           *)
(*                                                                         *)
(* A call takes one of the times in Elapsed or raises.  A job is a call of *)
(* a public function: method "edge" fuzzes and makes the two edge case     *)
(* reports, "anomaly" is generate_anomaly_matrix, "comprehensive" and      *)
(* "export" are generate_comprehensive_report and                          *)
(* export_for_security_estimation.  The text of the reports is left out.   *)
(***************************************************************************)
EXTENDS Integers, Sequences, FiniteSets

CONSTANTS Jobs,       \* records [method, kem, dsa, iterations, output_format]
          Elapsed,    \* elapsed_ns of a call that returns
          THRESHOLD   \* threshold_ns = 1000
ASSUME FuzzAssumption ==
  /\ Elapsed \subseteq Nat /\ THRESHOLD \in Nat
  /\ \A j \in Jobs : /\ j.iterations \in Nat
                     /\ j.kem \in Seq({j.kem[i] : i \in DOMAIN j.kem})
                     /\ j.dsa \in Seq({j.dsa[i] : i \in DOMAIN j.dsa})

VARIABLES job,
          todo,       \* the parameter sets still to be fuzzed
          current,    \* the results of constant_time_fuzz so far
          results,    \* what fuzz_kem_ and fuzz_dsa_implementation return
          outcome,    \* "running", "returned" or the exception
          saved       \* the files written
fuzzVars == <<job, todo, current, results, outcome, saved>>

Families == {"kem", "dsa"}
Fresh == [timing_data |-> <<>>, exceptions |-> 0]
Count(r) == Len(r.timing_data) + r.exceptions

FuzzInit == /\ job \in Jobs
            /\ todo = [i \in 1..Len(job.kem) |-> [family |-> "kem", params |-> job.kem[i]]]
                      \o [i \in 1..Len(job.dsa) |-> [family |-> "dsa", params |-> job.dsa[i]]]
            /\ current = Fresh /\ results = [f \in Families |-> [x \in {} |-> Fresh]]
            /\ outcome = "running" /\ saved = {}

-----------------------------------------------------------------------------
(* constant_time_fuzz and its callers.                                     *)

Fuzzing == todo # <<>> /\ Count(current) < job.iterations

Succeed(elapsed) == /\ Fuzzing
                    /\ current' = [current EXCEPT !.timing_data = Append(@, elapsed)]
                    /\ UNCHANGED <<job, todo, results, outcome, saved>>

Raise == /\ Fuzzing
         /\ current' = [current EXCEPT !.exceptions = @ + 1]
         /\ UNCHANGED <<job, todo, results, outcome, saved>>

\* results[kem] = ...: a name that comes twice is fuzzed twice and kept once.
Store == /\ todo # <<>> /\ Count(current) = job.iterations
         /\ LET f == Head(todo).family
                p == Head(todo).params
            IN  results' = [results EXCEPT ![f] =
                  [x \in DOMAIN @ \cup {p} |-> IF x = p THEN current ELSE @[x]]]
         /\ todo' = Tail(todo) /\ current' = Fresh
         /\ UNCHANGED <<job, outcome, saved>>

-----------------------------------------------------------------------------
(* analyze_timing_variance and generate_edge_case_report.                  *)

Times(r) == {r.timing_data[i] : i \in 1..Len(r.timing_data)}
Least(S) == CHOOSE x \in S : \A y \in S : x <= y
Greatest(S) == CHOOSE x \in S : \A y \in S : x >= y

\* Mutant: the variance between the first and the last measurement.
FirstToLast(r) == IF Len(r.timing_data) < 2 THEN 0
                  ELSE LET d == r.timing_data[Len(r.timing_data)] - r.timing_data[1]
                       IN  IF d < 0 THEN -d ELSE d

\* No measurement and a single one have variance 0.
Variance(r) == IF Len(r.timing_data) < 2 THEN 0 ELSE Greatest(Times(r)) - Least(Times(r))

\* "error": the only mark of an implementation that could not be assessed.
Marker(r) == CASE Len(r.timing_data) = 0 -> "NoTimingData"
               [] Len(r.timing_data) = 1 -> "InsufficientTimingData"
               [] OTHER -> "none"

Exceeds(r) == Variance(r) > THRESHOLD
Safe(r) == Variance(r) <= THRESHOLD
Analysis(r) == [variance_ns |-> Variance(r), safe |-> Safe(r), error |-> Marker(r)]
Passed(r) == r.exceptions = 0

\* Of a family: p names the implementations.
TotalExceptions(rs) ==
  LET sum[P \in SUBSET DOMAIN rs] ==
        IF P = {} THEN 0 ELSE LET p == CHOOSE p \in P : TRUE
                              IN  rs[p].exceptions + sum[P \ {p}]
  IN  sum[DOMAIN rs]

Recommendations(rs) ==
  {"Review and fix" : p \in {p \in DOMAIN rs : ~Passed(rs[p])}}
  \cup {"High timing variance" : p \in {p \in DOMAIN rs : Exceeds(rs[p])}}
  \cup (IF TotalExceptions(rs) > 2 * Cardinality(DOMAIN rs) THEN {"Excessive exceptions"} ELSE {})

EdgeCaseReport(rs) == [tested |-> Cardinality(DOMAIN rs),
                       passed |-> Cardinality({p \in DOMAIN rs : Passed(rs[p])}),
                       failed |-> Cardinality({p \in DOMAIN rs : ~Passed(rs[p])}),
                       exceptions |-> TotalExceptions(rs),
                       timing |-> [p \in DOMAIN rs |-> Analysis(rs[p])],
                       exception_count |-> [p \in DOMAIN rs |-> rs[p].exceptions],
                       recommendations |-> Recommendations(rs)]

-----------------------------------------------------------------------------
(* FuzzingSecurityReporter.                                                *)

\* _extract_anomalies; every implementation that was analysed "failed", and
\* the marker is not looked at.
Anomalies(report, p) ==
  {[type |-> "timing_variance", severity |-> "HIGH"] : x \in {v \in {report.timing[p].variance_ns} : v > THRESHOLD}}
  \cup {[type |-> "exceptions", severity |-> IF n <= 2 THEN "MEDIUM" ELSE "HIGH"]
          : n \in {n \in {report.exception_count[p]} : n > 0}}
  \cup {[type |-> "implementation_status", severity |-> "HIGH"]}

\* The pairs whose variances differ by more than half of the larger one.
CrossAnomalies(kem, dsa) ==
  LET Differ(v, w) == IF v > w THEN v - w ELSE w - v
      Larger(v, w) == IF v > w THEN v ELSE w
      Apart(k, d, tenths) == LET v == kem.timing[k].variance_ns
                                 w == dsa.timing[d].variance_ns
                             IN  10 * Differ(v, w) > tenths * Larger(v, w)
  IN  {[kem |-> x[1], dsa |-> x[2], severity |-> IF Apart(x[1], x[2], 7) THEN "MEDIUM" ELSE "LOW"]
       : x \in {x \in (DOMAIN kem.timing) \X (DOMAIN dsa.timing) : Apart(x[1], x[2], 5)}}

\* _create_integration_summary divides by the number of implementations and
\* then adds the values of one dictionary to those of another: dict_values
\* have no +, so that it returns for no results.
IntegrationSummary(kem, dsa) ==
  IF kem.tested + dsa.tested = 0 THEN "ZeroDivisionError" ELSE "TypeError"

SaveAnomalyMatrix == (IF job.output_format \in {"json", "both"} THEN {"anomaly_matrix.json"} ELSE {})
                     \cup (IF job.output_format \in {"markdown", "both"} THEN {"anomaly_matrix.md"} ELSE {})

ReportOf(family) == EdgeCaseReport(results[family])

Finish == /\ todo = <<>> /\ outcome = "running"
          /\ outcome' = CASE job.method = "edge" -> "returned"
                          [] job.method = "anomaly" -> "returned"
                          [] OTHER -> IntegrationSummary(ReportOf("kem"), ReportOf("dsa"))
          /\ saved' = IF job.method = "anomaly" THEN SaveAnomalyMatrix ELSE {}
          /\ UNCHANGED <<job, todo, current, results>>

FuzzNext == (\E e \in Elapsed : Succeed(e)) \/ Raise \/ Store \/ Finish
FuzzSpec == FuzzInit /\ [][FuzzNext]_fuzzVars

-----------------------------------------------------------------------------
(* Properties.                                                             *)

\* The reports account for every call of an implementation's last fuzzing: the
\* totals add up however often a parameter set was listed; one is unsafe just
\* when two calls that returned took times further apart than the threshold;
\* calls that raised count against it only as failures; and a pair of a
\* constant and a varying one is MEDIUM.  One that could not be assessed, since
\* all its calls but at most one raised, carries a marker, and exactly those
\* do.  The comment at ct_fuzzer.py:204-206 calls such a one potentially
\* unsafe; the code reports it as safe all the same, the anomaly matrix drops
\* the marker, and beside a varying one it passes for a constant one.
ReportsAccount ==
  outcome = "returned" =>
    /\ \A f \in Families :
         LET rs == results[f]
             report == ReportOf(f)
         IN  /\ report.passed + report.failed = Cardinality({job[f][i] : i \in DOMAIN job[f]})
             /\ \A p \in DOMAIN rs :
                  LET varies == \E i, j \in DOMAIN rs[p].timing_data :
                                  rs[p].timing_data[i] - rs[p].timing_data[j] > THRESHOLD
                      marked == report.timing[p].error # "none"
                  IN  /\ Count(rs[p]) = job.iterations
                      /\ ~report.timing[p].safe <=> varies
                      /\ marked <=> rs[p].exceptions >= job.iterations - 1
                      /\ marked => report.timing[p].safe
                      /\ varies <=> [type |-> "timing_variance", severity |-> "HIGH"] \in Anomalies(report, p)
                      /\ varies => "High timing variance" \in report.recommendations
                      /\ rs[p].exceptions = 0 <=> \A a \in Anomalies(report, p) : a.type # "exceptions"
    /\ \A k \in DOMAIN results["kem"], d \in DOMAIN results["dsa"] :
         (Cardinality(Times(results["kem"][k])) < 2 /\ Cardinality(Times(results["dsa"][d])) > 1) =>
           [kem |-> k, dsa |-> d, severity |-> "MEDIUM"] \in CrossAnomalies(ReportOf("kem"), ReportOf("dsa"))

\* generate_comprehensive_report and export_for_security_estimation return
\* their report, as their docstrings say.  The code contradicts it.
ReportReturned == job.method \in {"comprehensive", "export"} => outcome \in {"running", "returned"}
=============================================================================
