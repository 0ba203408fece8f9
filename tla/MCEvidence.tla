----------------------------- MODULE MCEvidence -----------------------------
(***************************************************************************)
(* The parts of the bench that turn results into evidence, side by side:   *)
(* they share no state, Init picks the one that runs, and the others stay  *)
(* as they are.                                                            *)
(***************************************************************************)
EXTENDS FuzzReport, CbomPipeline, FipsEvidence, HybridCertificates, Leaderboard

Job(method, kem, dsa, iterations, output_format) ==
  [method |-> method, kem |-> kem, dsa |-> dsa, iterations |-> iterations, output_format |-> output_format]
MCJobs == {Job(method, <<"a">>, <<"b">>, 3, "both") : method \in {"edge", "anomaly", "export"}}
          \cup {Job("anomaly", <<"a", "a">>, <<"b">>, 2, "json"), Job("edge", <<"a", "c">>, <<>>, 2, "both"),
                Job("anomaly", <<>>, <<"b">>, 1, "markdown"), Job("comprehensive", <<>>, <<>>, 3, "both"),
                Job("edge", <<"a">>, <<>>, 0, "both"), Job("comprehensive", <<"a">>, <<>>, 1, "both")}

\* A bill is transitional to begin with, for one algorithm of one file; an edit
\* of the other file adds a recommended one, or a hybrid and signatures.
MCFileOrder == <<"one.py", "two.py">>
Kem512 == {"ml-kem-512"}
Kem768 == {"ml-kem-768"}
Mixed == {"hybrid", "ml-kem-512", "ml-kem-768", "ml-dsa-65", "ml-dsa", "slhdsa", "slh-dsa-simple"}
MCInitialTree == [f \in {"one.py", "two.py"} |-> IF f = "two.py" THEN Kem512 ELSE {}]
MCEdits == {Mixed, Kem768, Unreadable}

Target(m, v, s) == [module_id |-> m, version |-> v, services |-> s]
MCTargets == {Target("x", "1", {"a"}), Target("x", Null, Null), Target(Null, Null, Null), Target("x", Unknown, {}),
              Target("x", "1", Unknown)}
Doc(id, m, v, s, standard, status, c) ==
  [id |-> id, fields |-> [module_id |-> m, version |-> v, services |-> s, certificate_standard |-> standard,
                          certificate_status |-> status, certificate_reference |-> c]]
MCDocuments == {Doc("d1", "x", "1", {"a", "b"}, "FIPS 140-3", "active", "c1"),
                Doc("d2", "y", Unknown, Null, "FIPS 140-2", "revoked", "c1"),
                Doc("d3", Null, "1", {"b"}, Unknown, "historical", Null),
                Doc("d4", Null, Null, Null, Null, Null, Null),
                Doc("d1", "x", "2", {"a"}, "FIPS 140-3", Unknown, "c2"),
                Doc("d5", "x", "2", {}, "FIPS 140-3", "active", "c2"),
                Doc("d6", "x", "1", Null, "FIPS 140-3", "pending", "c2")}
MCAllowed == [certificate_standard |-> {"FIPS 140-3", "FIPS 140-2"},
              certificate_status |-> {"active", "historical", "revoked"}]

Split(name, targets) == [name |-> name, targets |-> targets]
Small == Split("small", <<0, 1, 2>>)
Large == Split("large", <<0, 1, 2, 2>>)
NoNoise == Split("no noise", <<0, 1, 1>>)
Eval(id, status, split, predictions) ==
  [model_id |-> id, training_status |-> status, split |-> split, predictions |-> predictions]
MCEvaluations ==
  <<Eval(1, "trained", Large, <<0, 1, 2, 2>>), Eval(2, "trained", Large, <<0, 1, 1, 2>>),
    Eval(3, "trained", Large, <<1, 1, 2, 2>>), Eval(4, "trained", Large, <<2, 2, 0, 0>>),
    Eval(5, "trained", Large, <<0, 1, 0, 0>>), Eval(1, "untrained", Large, <<0, 1, 0, 0>>),
    Eval(6, "trained", Small, <<0, 1, 2>>), Eval(7, "trained", NoNoise, <<0, 1, 1>>),
    Eval(8, "trained", Small, <<0, 1>>), Eval(9, "finished", Small, <<0, 1, 2>>)>>
MCLists == UNION {[1..n -> 1..7] : n \in 0..4} \cup {<<5, 4, 3, 2, 1>>}

VARIABLE subject
evidenceVars == <<fuzzVars, cbomVars, fipsVars, certVars, board, subject>>
EvidenceInit ==
  /\ subject \in {"fuzzing", "cbom", "fips", "certificates", "leaderboard"}
  /\ FuzzInit /\ CbomInit /\ FipsInit /\ CertInit /\ BoardInit
  /\ subject # "fuzzing" => job = Job("edge", <<"a">>, <<>>, 0, "both")
  /\ subject # "fips" => target = Target("x", Null, Null)

FuzzStep == subject = "fuzzing" /\ FuzzNext /\ UNCHANGED <<cbomVars, fipsVars, certVars, board>>
CbomStep == subject = "cbom" /\ CbomNext /\ UNCHANGED <<fuzzVars, fipsVars, certVars, board>>
FipsStep == subject = "fips" /\ FipsNext /\ UNCHANGED <<fuzzVars, cbomVars, certVars, board>>
CertStep == subject = "certificates" /\ CertNext /\ UNCHANGED <<fuzzVars, cbomVars, fipsVars, board>>
BoardStep == subject = "leaderboard" /\ BoardNext /\ UNCHANGED <<fuzzVars, cbomVars, fipsVars, certVars>>

EvidenceNext == UNCHANGED subject /\ (FuzzStep \/ CbomStep \/ FipsStep \/ CertStep \/ BoardStep)
EvidenceSpec == EvidenceInit /\ [][EvidenceNext]_evidenceVars
=============================================================================
