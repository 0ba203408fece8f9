---------------------------- MODULE CbomPipeline ----------------------------
(***************************************************************************)
(* The bill of materials of src/pqc_bench/cbom: generator.py scans a tree  *)
(* of Python files and writes artifacts/cbom.json, policy.py evaluates the *)
(* file and writes artifacts/cbom_policy_report.json, and the API serves   *)
(* both.  Each is a program of its own: the tree is edited and the BOM     *)
(* rewritten while the others run.                                         *)
(*                                                                         *)
(* A file is the set of the terms that the scan looks for in its lower     *)
(* case text, or Unreadable.  A BOM is a function from the names of its    *)
(* components to the files listed for them; the placeholder component has  *)
(* no algorithm property, so that the BOM without components stands for    *)
(* it.  An artifact is Absent, Torn after it was opened for writing, or    *)
(* whole: json.load raises on a torn one.                                  *)
(***************************************************************************)
EXTENDS Integers, Sequences, FiniteSets

CONSTANTS Files,        \* in the order in which rglob finds them
          InitialTree,  \* the tree, a function from Files
          Edits,        \* what a file is changed to
          Edited,       \* the files that are changed
          Unreadable, Absent, Torn

KEM == {"ml-kem-512", "ml-kem-768", "ml-kem-1024"}
ML_DSA == {<<"ml-dsa-44", "mldsa-44">>, <<"ml-dsa-65", "mldsa-65">>, <<"ml-dsa-87", "mldsa-87">>}  \* two spellings
SLH_DSA == {"slh-dsa-simple", "slh-dsa-medium", "slh-dsa-full"}
AlgoOrder == KEM \cup {s[1] : s \in ML_DSA} \cup SLH_DSA
HybridWords == {"hybrid", "combined", "parallel", "dual"}
Hybrid(key, first, second) == [key |-> key, terms |-> {first, second}]
Hybrids == <<Hybrid("ml-kem-768_ml-dsa-65", "ml-kem-768", "ml-dsa-65"),
             Hybrid("ml-kem-512_ml-dsa-44", "ml-kem-512", "ml-dsa-44"),
             Hybrid("ml-kem-1024_ml-dsa-87", "ml-kem-1024", "ml-dsa-87"),
             Hybrid("ml-dsa-65_slh-dsa-simple", "ml-dsa-65", "slh-dsa-simple"),
             Hybrid("ml-kem-768_slh-dsa-medium", "ml-kem-768", "slh-dsa-medium")>>

VARIABLES tree,
          cbom, policy,  \* the artifacts
          scan,          \* the generator: files left and detected; seen is what it read
          review         \* the evaluator: its reads, and the BOMs of the last two
cbomVars == <<tree, cbom, policy, scan, review>>

None == [x \in {} |-> {}]
FileSet == {Files[i] : i \in DOMAIN Files}
ASSUME FilesAssumption == /\ Files \in Seq(FileSet)
                          /\ \A i, j \in DOMAIN Files : Files[i] = Files[j] => i = j
Idle == [pc |-> "idle", left |-> <<>>, detected |-> None, seen |-> None]
Resting == [pc |-> "idle", reads |-> 0, boms |-> <<>>]

CbomInit == /\ tree = InitialTree /\ cbom = Absent /\ policy = Absent
            /\ scan = Idle /\ review = Resting

-----------------------------------------------------------------------------
(* generator.py                                                            *)

\* ML-DSA is also spelled mldsa; SLH-DSA is detected at all levels at once.
Detected(content) ==
  {k \in KEM : k \in content}
  \cup {s[1] : s \in {s \in ML_DSA : /\ content \cap {"ml-dsa", "mldsa"} # {}
                                     /\ content \cap {s[1], s[2]} # {}}}
  \cup {k \in SLH_DSA : content \cap {"slh-dsa", "slhdsa"} # {}}

\* _detect_hybrid: the first combination whose terms all occur.
DetectHybrid(content) ==
  LET fits == {i \in DOMAIN Hybrids : Hybrids[i].terms \subseteq content}
  IN  IF content \cap HybridWords = {} \/ fits = {} THEN {}
      ELSE {Hybrids[CHOOSE i \in fits : \A j \in fits : i <= j].key}

\* Mutant: an algorithm that is known already is not listed again.
FirstOnly(detected, file, content) ==
  [k \in DOMAIN detected \cup Detected(content) \cup DetectHybrid(content) |->
     IF k \in DOMAIN detected THEN detected[k] ELSE {file}]

\* A hybrid is listed with the file that showed it first.
AddFile(detected, file, content) ==
  [k \in DOMAIN detected \cup Detected(content) \cup DetectHybrid(content) |->
     IF k \notin DOMAIN detected THEN {file}
     ELSE IF k \in Detected(content) THEN detected[k] \cup {file} ELSE detected[k]]

StartScan == /\ scan.pc = "idle"
             /\ scan' = [Idle EXCEPT !.pc = "scan", !.left = Files]
             /\ UNCHANGED <<tree, cbom, policy, review>>

ScanFile == /\ scan.pc = "scan" /\ scan.left # <<>>
            /\ LET file == Head(scan.left)
                   content == tree[file]
               IN  scan' = [scan EXCEPT !.left = Tail(@), 
                      !.seen = [f \in DOMAIN @ \cup {file} |-> IF f = file THEN content ELSE @[f]],
                      !.detected = IF content = Unreadable THEN @ ELSE AddFile(@, file, content)]
            /\ UNCHANGED <<tree, cbom, policy, review>>

\* write_bom: open for writing, then the text.
OpenBom == /\ scan.pc = "scan" /\ scan.left = <<>>
           /\ cbom' = Torn /\ scan' = [scan EXCEPT !.pc = "write"]
           /\ UNCHANGED <<tree, policy, review>>

WriteBom == /\ scan.pc = "write"
            /\ cbom' = scan.detected /\ scan' = [scan EXCEPT !.pc = "idle"]
            /\ UNCHANGED <<tree, policy, review>>

EditFile(file, content) == /\ tree[file] # content
                           /\ tree' = [tree EXCEPT ![file] = content]
                           /\ UNCHANGED <<cbom, policy, scan, review>>

-----------------------------------------------------------------------------
(* policy.py                                                               *)

\* The values of the property "algorithm", lower-cased: a hybrid's title is
\* the name of no algorithm.
Algorithms(bom) == DOMAIN bom

RequiredKa == {"ml-kem-768", "ml-kem-1024"}
RequiredSignature == {"ml-dsa-65", "ml-dsa-87"}
Transitional == {"ml-kem-512", "ml-dsa-44", "slh-dsa-simple"}
Recommended == {"ml-kem-768", "ml-kem-1024", "ml-dsa-65", "ml-dsa-87", "slh-dsa-medium", "slh-dsa-full"}

\* evaluate_cnsA_2_0_compliance
Cnsa(bom) ==
  LET ka == Algorithms(bom) \cap RequiredKa
      signature == Algorithms(bom) \cap RequiredSignature
  IN  [missing_ka |-> RequiredKa \ ka, missing_signature |-> RequiredSignature \ signature,
       overall_status |-> IF ka # {} /\ signature # {} THEN "compliant"
                          ELSE IF ka # {} \/ signature # {} THEN "partial" ELSE "non-compliant"]

\* Mutant: a single recommended algorithm does not count.
MoreThanOne(bom) ==
  LET found == Cardinality(Algorithms(bom) \cap Recommended)
  IN  IF found >= 3 THEN "compliant" ELSE IF found > 1 THEN "partial"
      ELSE IF Algorithms(bom) \cap Transitional # {} THEN "transitional" ELSE "non-compliant"

NistStatus(bom) ==
  LET found == Cardinality(Algorithms(bom) \cap Recommended)
  IN  IF found >= 3 THEN "compliant" ELSE IF found >= 1 THEN "partial"
      ELSE IF Algorithms(bom) \cap Transitional # {} THEN "transitional" ELSE "non-compliant"

\* evaluate_nist_sp_800_208
Nist(bom) == [overall_status |-> NistStatus(bom),
              transitional |-> Algorithms(bom) \cap Transitional,
              recommended |-> Algorithms(bom) \cap Recommended,
              missing_recommended |-> Recommended \ Algorithms(bom),
              unclassified |-> Algorithms(bom) \ AlgoOrder]

\* main evaluates the file twice for the console, and generate_policy_report
\* twice again for the report: four reads.  An absent or torn file ends it.
StartReview == /\ review.pc = "idle" /\ review' = [Resting EXCEPT !.pc = "read"]
               /\ UNCHANGED <<tree, cbom, policy, scan>>

ReadBom == /\ review.pc = "read" /\ review.reads < 4
           /\ review' = IF cbom \in {Absent, Torn} THEN Resting
                        ELSE [review EXCEPT !.reads = @ + 1,
                                !.boms = IF review.reads < 2 THEN @ ELSE Append(@, cbom)]
           /\ UNCHANGED <<tree, cbom, policy, scan>>

OpenReport == /\ review.pc = "read" /\ review.reads = 4
              /\ policy' = Torn /\ review' = [review EXCEPT !.pc = "write"]
              /\ UNCHANGED <<tree, cbom, scan>>

\* of: the BOMs that the two halves of the report are about.
WriteReport == /\ review.pc = "write"
               /\ policy' = [cNSA_2_0 |-> Cnsa(review.boms[1]), nist_sp_800_208 |-> Nist(review.boms[2]),
                             of |-> {review.boms[1], review.boms[2]}]
               /\ review' = Resting
               /\ UNCHANGED <<tree, cbom, scan>>

CbomNext == \/ StartScan \/ ScanFile \/ OpenBom \/ WriteBom
            \/ StartReview \/ ReadBom \/ OpenReport \/ WriteReport
            \/ \E file \in Edited, content \in Edits : EditFile(file, content)
CbomSpec == CbomInit /\ [][CbomNext]_cbomVars

-----------------------------------------------------------------------------
(* The readers: GET /api/v1/cbom and generate_compliance_audit_report.     *)

\* A BOM without components has the placeholder.
Components(bom) == IF bom = None THEN 1 ELSE Cardinality(DOMAIN bom)

\* The bill and the report beside it, at one moment: the handler opens one
\* after the other, but only a report of the bill that is served is judged.
GetCbomData == IF cbom = Absent THEN [status |-> 404]
               ELSE IF Torn \in {cbom, policy} THEN [status |-> 500]
               ELSE [status |-> 200, cbom |-> cbom, policy_evaluation |-> policy]

\* The audit reads both, and the metrics that the training program writes; it
\* counts the components and claims the rest whatever it reads.
ComplianceAudit(training) ==
  IF Torn \in {cbom, policy, training} THEN [status |-> 500]
  ELSE [status |-> 200, quantum_readiness_score |-> "100% (CNSA 2.0 Compliant)",
        total_cryptographic_components |-> IF cbom = Absent THEN 0 ELSE Components(cbom)]

-----------------------------------------------------------------------------
(* Properties.                                                             *)

\* A BOM that is being written has exactly the algorithms that the
\* scanned texts mention, each with every file that mentions it, whatever the
\* order of the files and of edits during the scan; a hybrid has one file.
BomCoversScan ==
  scan.pc = "write" =>
    LET texts == {f \in FileSet : scan.seen[f] # Unreadable}
        bom == scan.detected
    IN  /\ DOMAIN bom = UNION {Detected(scan.seen[f]) \cup DetectHybrid(scan.seen[f]) : f \in texts}
        /\ \A k \in DOMAIN bom :
             IF k \in AlgoOrder THEN bom[k] = {f \in texts : k \in Detected(scan.seen[f])}
             ELSE \E f \in texts : bom[k] = {f} /\ k \in DetectHybrid(scan.seen[f])

\* The two standards of a report whose reads saw one BOM do not contradict each
\* other: what CNSA 2.0 accepts in part is known to SP 800-208, and nothing that
\* one reports missing is in the BOM served beside it, if that is the one.
StandardsAgree ==
  (policy \notin {Absent, Torn} /\ Cardinality(policy.of) = 1) =>
    LET cnsa == policy.cNSA_2_0
        nist == policy.nist_sp_800_208
        served == GetCbomData
    IN  /\ cnsa.overall_status # "non-compliant" => nist.overall_status \in {"partial", "compliant"}
        /\ cnsa.missing_ka \cup cnsa.missing_signature \subseteq nist.missing_recommended
        /\ nist.overall_status = "non-compliant" => nist.recommended = {} /\ nist.transitional = {}
        /\ (served.status = 200 /\ policy.of = {served.cbom}) =>
             /\ (nist.missing_recommended \cup cnsa.missing_ka) \cap DOMAIN served.cbom = {}
             /\ \A training \in {Absent, Torn, None} :
                  LET audit == ComplianceAudit(training)
                  IN  audit.status = 200 => audit.total_cryptographic_components >=
                        Cardinality(nist.recommended \cup nist.transitional \cup nist.unclassified)
=============================================================================
