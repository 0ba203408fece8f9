---------------------------- MODULE FipsEvidence ----------------------------
(***************************************************************************)
(* fips_evidence.py: a request names the module it is about (the target)   *)
(* and carries documents; build_matrix lists, per field, what they assert  *)
(* and which gaps remain.  A review is a sequence of such requests: here   *)
(* each one has a document more than the last.                             *)
(*                                                                         *)
(* A document asserts of each field a value, Unknown or Null.  The value   *)
(* of Services is a set, any other one a single value.                     *)
(***************************************************************************)
EXTENDS Naturals, FiniteSets

CONSTANTS FIELDS, TARGET_FIELDS,
          ModuleId, Services, Standard, Status,  \* the fields with rules of their own
          Scope,        \* the fields that bind a document to a module
          Targets,      \* what a request is about
          Documents,    \* [id, fields]
          Current,      \* "FIPS 140-3"
          MAX_DOCUMENTS,
          Allowed,      \* the enumerated values of Standard and of Status
          Null, Unknown
ASSUME FipsAssumption == /\ TARGET_FIELDS \cup Scope \cup {Standard, Status} \subseteq FIELDS
                         /\ {ModuleId, Services} \subseteq TARGET_FIELDS /\ Standard \notin TARGET_FIELDS
                         /\ Standard # Status /\ Services \notin {Standard, Status}
                         /\ "missing_evidence" \notin FIELDS /\ MAX_DOCUMENTS \in Nat

VARIABLES target, documents, matrix
fipsVars == <<target, documents, matrix>>

\* _value: the enumerated fields take no other value, and services are a
\* nonempty list, which "unknown" is not.
ValidValue(field, value) == \/ value = Null
                            \/ field = Services /\ value # Unknown /\ value # {}
                            \/ field \in {Standard, Status} /\ value \in Allowed[field] \cup {Unknown}
                            \/ field \notin {Services, Standard, Status}

\* _normalize: no document twice, not too many, and a target that names a module.
Normalized(t, docs) == /\ Cardinality(docs) <= MAX_DOCUMENTS
                       /\ t[ModuleId] # Null /\ \A f \in TARGET_FIELDS : ValidValue(f, t[f])
                       /\ \A d, e \in docs : d.id = e.id => d = e
                       /\ \A d \in docs, f \in FIELDS : ValidValue(f, d.fields[f])

Usable(docs, f) == {d.fields[f] : d \in docs} \ {Null, Unknown}

Matches(f, desired, value) == IF f = Services THEN desired \subseteq value ELSE desired = value

Codes(t, docs, f) ==
  LET usable == Usable(docs, f)
      scoped == f \in TARGET_FIELDS
      open == scoped /\ (t[f] = Null \/ t[f] = Unknown)
  IN {c \in {"missing_evidence", "conflicting_evidence", "missing_target_scope", "target_scope_mismatch",
             "wrong_standard", "certificate_historical", "certificate_revoked"} :
        \/ c = "missing_evidence" /\ usable = {}
        \/ c = "conflicting_evidence" /\ Cardinality(usable) > 1
        \/ c = "missing_target_scope" /\ open
        \/ c = "target_scope_mismatch" /\ scoped /\ ~open /\ \E v \in usable : ~Matches(f, t[f], v)
        \/ c = "wrong_standard" /\ f = Standard /\ usable \ {Current} # {}
        \/ c = "certificate_historical" /\ f = Status /\ "historical" \in usable
        \/ c = "certificate_revoked" /\ f = Status /\ "revoked" \in usable}

FieldGaps(t, docs) == UNION {{<<f, c>> : c \in Codes(t, docs, f)} : f \in FIELDS}

\* A document that says anything must name its module, version, environment
\* and certificate.
Unbound(docs) == UNION {{<<d.id, f>> : f \in {g \in Scope : d.fields[g] \in {Null, Unknown}}}
                          : d \in {e \in docs : \E g \in FIELDS : e.fields[g] # Null}}

\* Mutant: any assertion makes a field not_verified, "unknown" too.
AnyAssertion(docs, f) == IF {d.fields[f] : d \in docs} \ {Null} # {} THEN "not_verified" ELSE "unknown"

RowStatus(docs, f) == IF Usable(docs, f) # {} THEN "not_verified" ELSE "unknown"

Review == {<<"review", c>> : c \in {"authenticity", "current_cmvp_status", "runtime_mode"}}

BuildMatrix(t, docs) ==
  IF ~Normalized(t, docs) THEN [made |-> FALSE]
  ELSE [made |-> TRUE, status |-> [f \in FIELDS |-> RowStatus(docs, f)],
        gaps |-> FieldGaps(t, docs) \cup Unbound(docs) \cup Review]

-----------------------------------------------------------------------------

FipsInit == target \in Targets /\ documents = {} /\ matrix = BuildMatrix(target, documents)

\* One more document, and the matrix of the request that now carries it.
AddDocument(d) == /\ documents' = documents \cup {d} /\ matrix' = BuildMatrix(target, documents')
                  /\ UNCHANGED target
FipsNext == \E d \in Documents \ documents : AddDocument(d)
FipsSpec == FipsInit /\ [][FipsNext]_fipsVars

\* A document can only supply what was missing: every other gap stays, whatever
\* is added after it, a field without usable evidence is "unknown" and has that
\* as its gap, and a refused request stays refused.
GapsPersist ==
  [][/\ ~matrix.made => ~matrix'.made
     /\ (matrix.made /\ matrix'.made) =>
          /\ \A g \in matrix.gaps \ matrix'.gaps : g[2] = "missing_evidence"
          /\ \A f \in FIELDS : /\ matrix'.status[f] = "unknown" => matrix.status[f] = "unknown"
                              /\ matrix'.status[f] = "unknown" <=> <<f, "missing_evidence">> \in matrix'.gaps
          /\ Review \subseteq matrix'.gaps]_fipsVars
=============================================================================
