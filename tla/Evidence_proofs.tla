-------------------------- MODULE Evidence_proofs --------------------------
(***************************************************************************)
(* Proofs about the parts of the bench that turn results into evidence.    *)
(* They share no state; each is proved about its own specification.        *)
(***************************************************************************)
EXTENDS FuzzReport, FipsEvidence, CbomPipeline, HybridCertificates, Leaderboard,
        FiniteSetTheorems, SequenceTheorems, WellFoundedInduction, TLAPS

-----------------------------------------------------------------------------
(* FIPS evidence.  A request has finitely many documents, and its matrix is*)
(* the one of its documents; what is usable in them only grows.            *)

FipsInv == /\ IsFiniteSet(documents)
           /\ matrix = BuildMatrix(target, documents)

LEMMA FipsAlways == FipsSpec => []FipsInv
<1>1. FipsInit => FipsInv
  BY FS_EmptySet DEF FipsInit, FipsInv
<1>2. FipsInv /\ [FipsNext]_fipsVars => FipsInv'
  <2> SUFFICES ASSUME FipsInv, [FipsNext]_fipsVars PROVE FipsInv'
    OBVIOUS
  <2>1. CASE UNCHANGED fipsVars
    BY <2>1 DEF fipsVars, FipsInv
  <2>2. ASSUME NEW d \in Documents \ documents, AddDocument(d) PROVE FipsInv'
    BY <2>2, FS_AddElement DEF AddDocument, FipsInv
  <2> QED BY <2>1, <2>2 DEF FipsNext
<1> QED BY <1>1, <1>2, PTL DEF FipsSpec

\* What documents assert of a field, they assert with another one beside them.
LEMMA UsableGrows ==
  ASSUME NEW docs, NEW d, NEW f
  PROVE  Usable(docs, f) \subseteq Usable(docs \cup {d}, f)
BY DEF Usable

LEMMA UsableFinite ==
  ASSUME NEW docs, IsFiniteSet(docs), NEW f
  PROVE  IsFiniteSet(Usable(docs, f))
<1> DEFINE all == {d.fields[f] : d \in docs}
           assertion == [d \in docs |-> d.fields[f]]
<1>1. assertion \in Surjection(docs, all)
  BY DEF Surjection
<1>2. IsFiniteSet(all)
  BY <1>1, FS_Surjection
<1> QED BY <1>2, FS_Subset DEF Usable

\* Every gap but missing evidence stays when a document is added.
LEMMA CodesStay ==
  ASSUME NEW t, NEW docs, NEW d, IsFiniteSet(docs), NEW f,
         NEW c \in Codes(t, docs, f), c # "missing_evidence"
  PROVE  c \in Codes(t, docs \cup {d}, f)
<1> DEFINE U == Usable(docs, f)
           V == Usable(docs \cup {d}, f)
<1>1. U \subseteq V
  BY UsableGrows
<1>2. IsFiniteSet(V)
  BY FS_AddElement, UsableFinite
<1>3. Cardinality(U) > 1 => Cardinality(V) > 1
  <2>1. Cardinality(U) <= Cardinality(V) /\ IsFiniteSet(U)
    BY <1>1, <1>2, FS_Subset
  <2>2. Cardinality(U) \in Nat /\ Cardinality(V) \in Nat
    BY <1>2, <2>1, FS_CardinalityType
  <2> QED BY <2>1, <2>2
<1> HIDE DEF U, V
<1> QED BY <1>1, <1>3 DEF Codes, U, V

LEMMA MissingIsUnusable ==
  ASSUME NEW t, NEW docs, NEW f
  PROVE  "missing_evidence" \in Codes(t, docs, f) <=> Usable(docs, f) = {}
BY DEF Codes

LEMMA MatrixParts ==
  ASSUME NEW t, NEW docs, Normalized(t, docs)
  PROVE  /\ BuildMatrix(t, docs).gaps = FieldGaps(t, docs) \cup Unbound(docs) \cup Review
         /\ BuildMatrix(t, docs).status = [f \in FIELDS |-> RowStatus(docs, f)]
         /\ BuildMatrix(t, docs).made = TRUE
<1> DEFINE G == FieldGaps(t, docs) \cup Unbound(docs) \cup Review
           S == [f \in FIELDS |-> RowStatus(docs, f)]
<1>1. BuildMatrix(t, docs) = [made |-> TRUE, status |-> S, gaps |-> G]
  BY DEF BuildMatrix
<1> HIDE DEF G, S
<1>2. /\ BuildMatrix(t, docs).gaps = G /\ BuildMatrix(t, docs).status = S
      /\ BuildMatrix(t, docs).made = TRUE
  BY <1>1
<1> QED BY <1>2 DEF G, S

\* The evidence gap of a field is no gap of another kind.
LEMMA MissingGap ==
  ASSUME NEW t, NEW docs, NEW f \in FIELDS, Normalized(t, docs)
  PROVE  <<f, "missing_evidence">> \in BuildMatrix(t, docs).gaps <=> Usable(docs, f) = {}
<1>1. BuildMatrix(t, docs).gaps = FieldGaps(t, docs) \cup Unbound(docs) \cup Review
  BY MatrixParts
<1>2. <<f, "missing_evidence">> \in FieldGaps(t, docs) <=> "missing_evidence" \in Codes(t, docs, f)
  BY DEF FieldGaps
<1>3. <<f, "missing_evidence">> \notin Unbound(docs)
  BY FipsAssumption DEF Unbound
<1>4. <<f, "missing_evidence">> \notin Review
  BY DEF Review
<1> QED BY <1>1, <1>2, <1>3, <1>4, MissingIsUnusable

LEMMA GapsStay ==
  ASSUME NEW t, NEW docs, NEW d, IsFiniteSet(docs),
         Normalized(t, docs), Normalized(t, docs \cup {d}),
         NEW g \in BuildMatrix(t, docs).gaps, g \notin BuildMatrix(t, docs \cup {d}).gaps
  PROVE  g[2] = "missing_evidence"
<1> DEFINE more == docs \cup {d}
<1>1. /\ g \in FieldGaps(t, docs) \cup Unbound(docs) \cup Review
      /\ g \notin FieldGaps(t, more) \cup Unbound(more) \cup Review
  BY MatrixParts
<1>2. Unbound(docs) \subseteq Unbound(more)
  BY DEF Unbound
<1>3. PICK f \in FIELDS : \E c \in Codes(t, docs, f) : g = <<f, c>>
  BY <1>1, <1>2 DEF FieldGaps
<1>4. PICK c \in Codes(t, docs, f) : g = <<f, c>>
  BY <1>3
<1>5. c \notin Codes(t, more, f)
  BY <1>1, <1>4 DEF FieldGaps
<1> QED BY <1>4, <1>5, CodesStay

\* A document can only supply what was missing: whatever is added to a
\* request, every other gap of its matrix stays (build_matrix, _normalize),
\* for any fields, targets and documents.
THEOREM GapsRemain == FipsSpec => GapsPersist
<1>1. FipsInv /\ [FipsNext]_fipsVars =>
        [/\ ~matrix.made => ~matrix'.made
         /\ (matrix.made /\ matrix'.made) =>
              /\ \A g \in matrix.gaps \ matrix'.gaps : g[2] = "missing_evidence"
              /\ \A f \in FIELDS : /\ matrix'.status[f] = "unknown" => matrix.status[f] = "unknown"
                                  /\ matrix'.status[f] = "unknown" <=> <<f, "missing_evidence">> \in matrix'.gaps
              /\ Review \subseteq matrix'.gaps]_fipsVars
  <2> SUFFICES ASSUME FipsInv, NEW d \in Documents \ documents, AddDocument(d)
               PROVE  /\ ~matrix.made => ~matrix'.made
                      /\ (matrix.made /\ matrix'.made) =>
                           /\ \A g \in matrix.gaps \ matrix'.gaps : g[2] = "missing_evidence"
                           /\ \A f \in FIELDS :
                                /\ matrix'.status[f] = "unknown" => matrix.status[f] = "unknown"
                                /\ matrix'.status[f] = "unknown" <=> <<f, "missing_evidence">> \in matrix'.gaps
                           /\ Review \subseteq matrix'.gaps
    BY DEF FipsNext
  <2> DEFINE more == documents \cup {d}
  <2>1. /\ matrix = BuildMatrix(target, documents)
        /\ matrix' = BuildMatrix(target, more)
        /\ IsFiniteSet(documents)
    BY DEF FipsInv, AddDocument
  <2>2. /\ matrix.made <=> Normalized(target, documents)
        /\ matrix'.made <=> Normalized(target, more)
    BY <2>1 DEF BuildMatrix
  <2>3. Normalized(target, more) => Normalized(target, documents)
    <3>1. IsFiniteSet(more) /\ documents \subseteq more
      BY <2>1, FS_AddElement
    <3>2. IsFiniteSet(documents) /\ Cardinality(documents) <= Cardinality(more)
      BY <3>1, FS_Subset
    <3>3. Cardinality(documents) \in Nat /\ Cardinality(more) \in Nat /\ MAX_DOCUMENTS \in Nat
      BY <3>1, <3>2, FS_CardinalityType, FipsAssumption
    <3>4. Cardinality(more) <= MAX_DOCUMENTS => Cardinality(documents) <= MAX_DOCUMENTS
      BY <3>2, <3>3
    <3> QED BY <3>1, <3>4 DEF Normalized
  <2>4. ASSUME Normalized(target, documents), Normalized(target, more)
        PROVE  /\ \A g \in matrix.gaps \ matrix'.gaps : g[2] = "missing_evidence"
               /\ \A f \in FIELDS :
                    /\ matrix'.status[f] = "unknown" => matrix.status[f] = "unknown"
                    /\ matrix'.status[f] = "unknown" <=> <<f, "missing_evidence">> \in matrix'.gaps
               /\ Review \subseteq matrix'.gaps
    <3>1. /\ matrix.status = [f \in FIELDS |-> RowStatus(documents, f)]
          /\ matrix'.status = [f \in FIELDS |-> RowStatus(more, f)]
      BY <2>1, <2>4, MatrixParts, ZenonT(60)
    <3>2. matrix'.gaps = FieldGaps(target, more) \cup Unbound(more) \cup Review
      BY <2>1, <2>4, MatrixParts
    <3>3. \A g \in matrix.gaps \ matrix'.gaps : g[2] = "missing_evidence"
      BY <2>1, <2>4, GapsStay
    <3>4. ASSUME NEW f \in FIELDS
          PROVE  /\ matrix'.status[f] = "unknown" <=> Usable(more, f) = {}
                 /\ matrix.status[f] = "unknown" <=> Usable(documents, f) = {}
      BY <3>1 DEF RowStatus
    <3>5. ASSUME NEW f \in FIELDS
          PROVE  /\ Usable(documents, f) \subseteq Usable(more, f)
                 /\ Usable(more, f) = {} <=> <<f, "missing_evidence">> \in matrix'.gaps
      BY <2>1, <2>4, UsableGrows, MissingGap
    <3>6. Review \subseteq matrix'.gaps
      BY <3>2
    <3> HIDE DEF more
    <3> QED BY <3>3, <3>4, <3>5, <3>6
  <2> QED BY <2>2, <2>3, <2>4
<1> QED BY <1>1, FipsAlways, PTL DEF FipsSpec, GapsPersist

-----------------------------------------------------------------------------
(* The bill of materials.  The scan has covered the files it has read, and *)
(* these are the ones that are not left.                                   *)

Named(content) == Detected(content) \cup DetectHybrid(content)

Covers(detected, seen) ==
  LET texts == {f \in DOMAIN seen : seen[f] # Unreadable}
  IN  /\ DOMAIN detected = UNION {Named(seen[f]) : f \in texts}
      /\ \A k \in DOMAIN detected :
           IF k \in AlgoOrder THEN detected[k] = {f \in texts : k \in Detected(seen[f])}
           ELSE \E f \in texts : detected[k] = {f} /\ k \in DetectHybrid(seen[f])

Left == {scan.left[i] : i \in 1..Len(scan.left)}

ScanInv ==
  /\ scan = [pc |-> scan.pc, left |-> scan.left, detected |-> scan.detected, seen |-> scan.seen]
  /\ scan.left \in Seq(FileSet)
  /\ IsFiniteSet(DOMAIN scan.detected)
  /\ scan.pc = "write" => scan.left = <<>>
  /\ scan.pc \in {"scan", "write"} =>
       /\ \A i, j \in 1..Len(scan.left) : scan.left[i] = scan.left[j] => i = j
       /\ DOMAIN scan.seen \cup Left = FileSet
       /\ DOMAIN scan.seen \cap Left = {}
       /\ Covers(scan.detected, scan.seen)

LEMMA LeastOf ==
  ASSUME NEW S \in SUBSET Nat, S # {}
  PROVE  \E i \in S : \A j \in S : i <= j
<1>1. \E x \in S : \A y \in S : <<y, x>> \notin OpToRel(<, Nat)
  BY NatLessThanWellFounded, WFMin
<1>2. PICK x \in S : \A y \in S : ~(y < x)
  BY <1>1 DEF OpToRel
<1>3. \A y \in S : x <= y
  BY <1>2
<1> QED BY <1>3

LEMMA ThreeAreFinite ==
  ASSUME NEW a, NEW b, NEW c
  PROVE  IsFiniteSet({a, b, c})
<1>1. IsFiniteSet({a}) /\ IsFiniteSet({a} \cup {b})
  BY FS_Singleton, FS_AddElement
<1>2. IsFiniteSet(({a} \cup {b}) \cup {c})
  BY <1>1, FS_AddElement
<1>3. ({a} \cup {b}) \cup {c} = {a, b, c}
  OBVIOUS
<1> QED BY <1>2, <1>3

\* Algorithms are listed under the names of AlgoOrder, hybrids under others.
LEMMA NamesApart ==
  ASSUME NEW content
  PROVE  /\ Detected(content) \subseteq AlgoOrder
         /\ DetectHybrid(content) \cap AlgoOrder = {}
         /\ IsFiniteSet(Named(content))
<1>1. Detected(content) \subseteq AlgoOrder
  BY DEF Detected, AlgoOrder
<1>2. DetectHybrid(content) \subseteq {Hybrids[i].key : i \in 1..5}
  <2> DEFINE fits == {i \in DOMAIN Hybrids : Hybrids[i].terms \subseteq content}
  <2>1. DOMAIN Hybrids = 1..5
    BY DEF Hybrids
  <2>2. CASE content \cap HybridWords = {} \/ fits = {}
    BY <2>2 DEF DetectHybrid
  <2>3. CASE ~(content \cap HybridWords = {} \/ fits = {})
    <3>1. \E i \in fits : \A j \in fits : i <= j
      BY <2>1, <2>3, LeastOf
    <3>2. (CHOOSE i \in fits : \A j \in fits : i <= j) \in 1..5
      BY <2>1, <3>1
    <3> QED BY <2>3, <3>2 DEF DetectHybrid
  <2> QED BY <2>2, <2>3
<1>3. \A i \in 1..5 : Hybrids[i].key \in
        {"ml-kem-768_ml-dsa-65", "ml-kem-512_ml-dsa-44", "ml-kem-1024_ml-dsa-87",
         "ml-dsa-65_slh-dsa-simple", "ml-kem-768_slh-dsa-medium"}
  BY DEF Hybrids, Hybrid
<1>4. AlgoOrder = {"ml-kem-512", "ml-kem-768", "ml-kem-1024", "ml-dsa-44", "ml-dsa-65", "ml-dsa-87",
                   "slh-dsa-simple", "slh-dsa-medium", "slh-dsa-full"}
  BY DEF AlgoOrder, KEM, ML_DSA, SLH_DSA
<1>5. DetectHybrid(content) \cap AlgoOrder = {}
  BY <1>2, <1>3, <1>4
<1>6. IsFiniteSet(AlgoOrder)
  <2>1. /\ IsFiniteSet(KEM) /\ IsFiniteSet(SLH_DSA)
        /\ IsFiniteSet({"ml-dsa-44", "ml-dsa-65", "ml-dsa-87"})
    BY ThreeAreFinite DEF KEM, SLH_DSA
  <2>2. {s[1] : s \in ML_DSA} = {"ml-dsa-44", "ml-dsa-65", "ml-dsa-87"}
    BY DEF ML_DSA
  <2> QED BY <2>1, <2>2, FS_Union DEF AlgoOrder
<1>7. IsFiniteSet({Hybrids[i].key : i \in 1..5})
  <2> DEFINE keys == {Hybrids[i].key : i \in 1..5}
             key == [i \in 1..5 |-> Hybrids[i].key]
  <2>1. key \in Surjection(1..5, keys)
    BY DEF Surjection
  <2>2. IsFiniteSet(1..5)
    <3>1. \A n \in Nat : IsFiniteSet(1..n)
      BY FS_Interval
    <3> QED BY <3>1
  <2> HIDE DEF keys, key
  <2>3. IsFiniteSet(keys)
    BY <2>1, <2>2, FS_Surjection
  <2> QED BY <2>3 DEF keys
<1>8. IsFiniteSet(Named(content))
  <2>1. IsFiniteSet(Detected(content)) /\ IsFiniteSet(DetectHybrid(content))
    BY <1>1, <1>2, <1>6, <1>7, FS_Subset
  <2> QED BY <2>1, FS_Union DEF Named
<1> QED BY <1>1, <1>5, <1>8

\* One more text that could be read.
LEMMA AddCovers ==
  ASSUME NEW detected, NEW seen, NEW file, NEW content, NEW more,
         Covers(detected, seen), file \notin DOMAIN seen, content # Unreadable,
         more = [f \in DOMAIN seen \cup {file} |-> IF f = file THEN content ELSE seen[f]]
  PROVE  Covers(AddFile(detected, file, content), more)
<1> DEFINE old == {f \in DOMAIN seen : seen[f] # Unreadable}
           new == {f \in DOMAIN more : more[f] # Unreadable}
           added == AddFile(detected, file, content)
<1>1. new = old \cup {file} /\ file \notin old /\ more[file] = content
      /\ \A f \in old : more[f] = seen[f]
  OBVIOUS
<1>2. /\ DOMAIN detected = UNION {Named(seen[f]) : f \in old}
      /\ \A k \in DOMAIN detected :
           IF k \in AlgoOrder THEN detected[k] = {f \in old : k \in Detected(seen[f])}
           ELSE \E f \in old : detected[k] = {f} /\ k \in DetectHybrid(seen[f])
  BY DEF Covers
<1>3. DOMAIN added = DOMAIN detected \cup Named(content)
  BY DEF AddFile, Named
<1>4. \A k \in DOMAIN added : added[k] = IF k \notin DOMAIN detected THEN {file}
        ELSE IF k \in Detected(content) THEN detected[k] \cup {file} ELSE detected[k]
  BY DEF AddFile
<1> HIDE DEF old, new, added
<1>5. DOMAIN added = UNION {Named(more[f]) : f \in new}
  <2>1. ASSUME NEW k
        PROVE  k \in DOMAIN detected <=> \E f \in old : k \in Named(seen[f])
    BY <1>2
  <2>2. ASSUME NEW k
        PROVE  (\E f \in new : k \in Named(more[f]))
                 <=> k \in Named(content) \/ \E f \in old : k \in Named(seen[f])
    BY <1>1
  <2>3. \A k : k \in DOMAIN added <=> k \in UNION {Named(more[f]) : f \in new}
    BY <1>3, <2>1, <2>2, ZenonT(60)
  <2> QED BY <2>3
<1>6. ASSUME NEW k \in DOMAIN added, k \in AlgoOrder
      PROVE  added[k] = {f \in new : k \in Detected(more[f])}
  <2>1. CASE k \notin DOMAIN detected
    <3>1. k \in Detected(content)
      BY <1>3, <1>6, <2>1, NamesApart DEF Named
    <3>2. \A f \in old : k \notin Detected(seen[f])
      BY <1>2, <2>1 DEF Named
    <3> QED BY <1>1, <1>4, <2>1, <3>1, <3>2
  <2>2. CASE k \in DOMAIN detected
    <3>1. detected[k] = {f \in old : k \in Detected(seen[f])}
      BY <1>2, <1>6, <2>2
    <3> QED BY <1>1, <1>4, <2>2, <3>1
  <2> QED BY <2>1, <2>2
<1>7. ASSUME NEW k \in DOMAIN added, k \notin AlgoOrder
      PROVE  \E f \in new : added[k] = {f} /\ k \in DetectHybrid(more[f])
  <2>1. k \notin Detected(content)
    BY <1>7, NamesApart
  <2>2. CASE k \notin DOMAIN detected
    BY <1>1, <1>3, <1>4, <2>1, <2>2 DEF Named
  <2>3. CASE k \in DOMAIN detected
    BY <1>1, <1>2, <1>4, <1>7, <2>1, <2>3
  <2> QED BY <2>2, <2>3
<1> QED BY <1>5, <1>6, <1>7 DEF Covers, new, added

\* One more file that could not.
LEMMA SkipCovers ==
  ASSUME NEW detected, NEW seen, NEW file, NEW content, NEW more,
         Covers(detected, seen), file \notin DOMAIN seen, content = Unreadable,
         more = [f \in DOMAIN seen \cup {file} |-> IF f = file THEN content ELSE seen[f]]
  PROVE  Covers(detected, more)
<1>1. {f \in DOMAIN more : more[f] # Unreadable} = {f \in DOMAIN seen : seen[f] # Unreadable}
  OBVIOUS
<1>2. \A f \in DOMAIN seen : more[f] = seen[f]
  OBVIOUS
<1> QED BY <1>1, <1>2 DEF Covers

LEMMA ScanInitInv == CbomInit => ScanInv
BY FS_EmptySet DEF CbomInit, ScanInv, Idle, None

LEMMA ScanStart ==
  ASSUME StartScan
  PROVE  ScanInv'
<1>1. scan' = [pc |-> "scan", left |-> Files, detected |-> None, seen |-> None]
  BY DEF StartScan, Idle
<1>2. /\ scan'.pc = "scan" /\ scan'.left = Files /\ scan'.detected = None /\ scan'.seen = None
  BY <1>1
<1>3. Left' = FileSet
  BY <1>2, FilesAssumption DEF Left, FileSet
<1>4. DOMAIN None = {} /\ Covers(None, None)
  BY DEF None, Covers
<1>5. \A i, j \in 1..Len(Files) : Files[i] = Files[j] => i = j
  BY FilesAssumption
<1> QED BY <1>1, <1>2, <1>3, <1>4, <1>5, FS_EmptySet, FilesAssumption DEF ScanInv

\* The file that comes next is new, and the ones after it stay left.
LEMMA NextFile ==
  ASSUME NEW s \in Seq(FileSet), s # <<>>,
         \A i, j \in 1..Len(s) : s[i] = s[j] => i = j
  PROVE  LET rest == {Tail(s)[i] : i \in 1..Len(Tail(s))}
         IN  /\ Tail(s) \in Seq(FileSet)
             /\ \A i, j \in 1..Len(Tail(s)) : Tail(s)[i] = Tail(s)[j] => i = j
             /\ {s[i] : i \in 1..Len(s)} = rest \cup {Head(s)}
             /\ Head(s) \notin rest
<1> DEFINE n == Len(s)
<1>1. n \in Nat /\ n > 0 /\ Head(s) = s[1]
  OBVIOUS
<1>2. Tail(s) \in Seq(FileSet) /\ Len(Tail(s)) = n - 1 /\ \A i \in 1..n-1 : Tail(s)[i] = s[i+1]
  OBVIOUS
<1> HIDE DEF n
<1>3. \A i \in 1..n : i = 1 \/ (i - 1 \in 1..n-1 /\ s[i] = Tail(s)[i-1])
  BY <1>1, <1>2
<1>4. \A i \in 1..n-1 : i + 1 \in 1..n /\ i + 1 # 1
  BY <1>1
<1>5. 1 \in 1..n
  BY <1>1
<1>6. \A i, j \in 1..n : s[i] = s[j] => i = j
  BY DEF n
<1>7. {s[i] : i \in 1..n} = {Tail(s)[i] : i \in 1..n-1} \cup {s[1]}
  BY <1>2, <1>3, <1>4, <1>5
<1>8. s[1] \notin {Tail(s)[i] : i \in 1..n-1}
  BY <1>2, <1>4, <1>5, <1>6
<1>9. \A i, j \in 1..n-1 : Tail(s)[i] = Tail(s)[j] => i = j
  <2> SUFFICES ASSUME NEW i \in 1..n-1, NEW j \in 1..n-1, Tail(s)[i] = Tail(s)[j] PROVE i = j
    OBVIOUS
  <2>1. i + 1 = j + 1
    BY <1>2, <1>4, <1>6
  <2> QED BY <1>1, <2>1
<1> QED BY <1>1, <1>2, <1>7, <1>8, <1>9 DEF n

LEMMA ScanNextFile ==
  ASSUME ScanInv, ScanFile
  PROVE  ScanInv'
<1> DEFINE file == Head(scan.left)
           content == tree[file]
           detected == IF content = Unreadable THEN scan.detected ELSE AddFile(scan.detected, file, content)
           seen == [f \in DOMAIN scan.seen \cup {file} |-> IF f = file THEN content ELSE scan.seen[f]]
           rest == {Tail(scan.left)[i] : i \in 1..Len(Tail(scan.left))}
<1>1. /\ scan.left \in Seq(FileSet) /\ scan.left # <<>>
      /\ \A i, j \in 1..Len(scan.left) : scan.left[i] = scan.left[j] => i = j
      /\ DOMAIN scan.seen \cup Left = FileSet /\ DOMAIN scan.seen \cap Left = {}
      /\ Covers(scan.detected, scan.seen) /\ IsFiniteSet(DOMAIN scan.detected)
  BY DEF ScanInv, ScanFile
<1>2. scan' = [pc |-> "scan", left |-> Tail(scan.left), detected |-> detected, seen |-> seen]
  BY DEF ScanInv, ScanFile
<1>3. /\ Tail(scan.left) \in Seq(FileSet)
      /\ \A i, j \in 1..Len(Tail(scan.left)) : Tail(scan.left)[i] = Tail(scan.left)[j] => i = j
      /\ Left = rest \cup {file} /\ file \notin rest
  BY <1>1, NextFile DEF Left
<1>4. file \notin DOMAIN scan.seen
  BY <1>1, <1>3
<1>5. Covers(detected, seen)
  <2>1. CASE content = Unreadable
    <3>1. Covers(scan.detected, seen)
      BY <1>1, <1>4, <2>1, SkipCovers
    <3> QED BY <2>1, <3>1
  <2>2. CASE content # Unreadable
    <3>1. Covers(AddFile(scan.detected, file, content), seen)
      BY <1>1, <1>4, <2>2, AddCovers
    <3> QED BY <2>2, <3>1
  <2> QED BY <2>1, <2>2
<1>6. IsFiniteSet(DOMAIN detected)
  <2>1. content # Unreadable => DOMAIN detected = DOMAIN scan.detected \cup Named(content)
    BY DEF AddFile, Named
  <2>2. IsFiniteSet(DOMAIN scan.detected \cup Named(content))
    BY <1>1, NamesApart, FS_Union
  <2> QED BY <1>1, <2>1, <2>2
<1>7. DOMAIN seen = DOMAIN scan.seen \cup {file}
  OBVIOUS
<1> HIDE DEF detected, seen, content, file
<1>8. scan'.pc = "scan" /\ scan'.left = Tail(scan.left) /\ scan'.detected = detected /\ scan'.seen = seen
  BY <1>2
<1>9. Left' = rest
  BY <1>8 DEF Left
<1> QED BY <1>1, <1>2, <1>3, <1>4, <1>5, <1>6, <1>7, <1>8, <1>9 DEF ScanInv

LEMMA ScanStep ==
  ASSUME ScanInv, [CbomNext]_cbomVars
  PROVE  ScanInv'
<1>1. CASE scan' = scan
  BY <1>1 DEF ScanInv, Left
<1>2. CASE StartScan
  BY <1>2, ScanStart
<1>3. CASE ScanFile
  BY <1>3, ScanNextFile
<1>4. ASSUME NEW pc \in {"write", "idle"}, scan' = [scan EXCEPT !.pc = pc],
             pc = "write" => scan.pc = "scan" /\ scan.left = <<>>
      PROVE  ScanInv'
  <2>1. scan' = [pc |-> pc, left |-> scan.left, detected |-> scan.detected, seen |-> scan.seen]
    BY <1>4 DEF ScanInv
  <2>2. /\ scan'.pc = pc /\ scan'.left = scan.left
        /\ scan'.detected = scan.detected /\ scan'.seen = scan.seen
    BY <2>1
  <2> QED BY <1>4, <2>1, <2>2 DEF ScanInv, Left
<1> QED BY <1>1, <1>2, <1>3, <1>4
        DEF CbomNext, OpenBom, WriteBom, StartReview, ReadBom, OpenReport, WriteReport, EditFile, cbomVars

LEMMA ScanAlways == CbomSpec => []ScanInv
BY ScanInitInv, ScanStep, PTL DEF CbomSpec

\* A bill that is about to be written has exactly the algorithms and files
\* that the scanned texts show, however the tree is edited during the scan
\* (detect_pqc_components, write_bom), for any files and contents.
THEOREM BillCoversScan == CbomSpec => []BomCoversScan
<1>1. ScanInv => BomCoversScan
  <2> SUFFICES ASSUME ScanInv, scan.pc = "write"
               PROVE  LET texts == {f \in FileSet : scan.seen[f] # Unreadable}
                          bom == scan.detected
                      IN  /\ DOMAIN bom = UNION {Detected(scan.seen[f]) \cup DetectHybrid(scan.seen[f]) : f \in texts}
                          /\ \A k \in DOMAIN bom :
                               IF k \in AlgoOrder THEN bom[k] = {f \in texts : k \in Detected(scan.seen[f])}
                               ELSE \E f \in texts : bom[k] = {f} /\ k \in DetectHybrid(scan.seen[f])
    BY DEF BomCoversScan
  <2>1. Left = {}
    BY DEF ScanInv, Left
  <2>2. DOMAIN scan.seen = FileSet /\ Covers(scan.detected, scan.seen)
    BY <2>1 DEF ScanInv
  <2> QED BY <2>2 DEF Covers, Named
<1> QED BY <1>1, ScanAlways, PTL

(* The evaluation.  A bill is a function on finitely many names, and a     *)
(* report is about two of them, which may be one.                          *)

Bom(b) == IsFiniteSet(DOMAIN b)

Reviewing ==
  /\ review = [pc |-> review.pc, reads |-> review.reads, boms |-> review.boms]
  /\ review.reads \in 0..4
  /\ review.reads < 3 => review.boms = <<>>
  /\ review.reads = 3 => \E b : Bom(b) /\ review.boms = <<b>>
  /\ review.reads = 4 => \E b, c : Bom(b) /\ Bom(c) /\ review.boms = <<b, c>>
  /\ review.pc = "write" => review.reads = 4

Reported ==
  policy \notin {Absent, Torn} =>
       \E b, c : /\ Bom(b) /\ Bom(c)
                 /\ policy = [cNSA_2_0 |-> Cnsa(b), nist_sp_800_208 |-> Nist(c), of |-> {b, c}]

EvaluationInv ==
  /\ ScanInv
  /\ cbom \notin {Absent, Torn} => Bom(cbom)
  /\ Reviewing
  /\ Reported

LEMMA EvaluationInit == CbomInit => EvaluationInv
BY ScanInitInv DEF CbomInit, EvaluationInv, Reviewing, Reported, Resting

LEMMA RestingInv ==
  ASSUME EvaluationInv, ScanInv', review' = Resting, UNCHANGED <<cbom, policy>>
  PROVE  EvaluationInv'
<1>1. review' = [pc |-> "idle", reads |-> 0, boms |-> <<>>]
  BY DEF Resting
<1>2. review'.pc = "idle" /\ review'.reads = 0 /\ review'.boms = <<>>
  BY <1>1
<1>3. Reviewing'
  BY <1>1, <1>2 DEF Reviewing
<1> QED BY <1>3 DEF EvaluationInv, Reported

LEMMA AppendToNone == ASSUME NEW b PROVE Append(<<>>, b) = <<b>>
OBVIOUS

LEMMA AppendToOne == ASSUME NEW b, NEW c PROVE Append(<<b>>, c) = <<b, c>>
<1> DEFINE s == <<b>>
           pair == <<b, c>>
           longer == Append(s, c)
<1>1. s \in Seq({b, c}) /\ Len(s) = 1 /\ s[1] = b
  OBVIOUS
<1>2. pair \in Seq({b, c}) /\ Len(pair) = 2 /\ pair[1] = b /\ pair[2] = c
  OBVIOUS
<1> HIDE DEF s, pair
<1>3. longer \in Seq({b, c}) /\ Len(longer) = 2 /\ longer[1] = b /\ longer[2] = c
  <2>1. c \in {b, c}
    OBVIOUS
  <2>2. /\ longer \in Seq({b, c}) /\ Len(longer) = Len(s) + 1
        /\ \A i \in 1..Len(s) : longer[i] = s[i]
        /\ longer[Len(s) + 1] = c
    BY <1>1, <2>1, AppendProperties, ZenonT(60)
  <2> HIDE DEF longer
  <2> QED BY <1>1, <2>2
<1> HIDE DEF longer
<1>4. \A i \in 1..2 : longer[i] = pair[i]
  BY <1>2, <1>3
<1>5. longer = pair
  BY <1>2, <1>3, <1>4, SeqEqual
<1> QED BY <1>5 DEF longer, s, pair

LEMMA EvaluationStep ==
  ASSUME EvaluationInv, [CbomNext]_cbomVars
  PROVE  EvaluationInv'
<1>1. ScanInv'
  BY ScanStep DEF EvaluationInv
<1>2. CASE UNCHANGED <<cbom, policy, review>>
  BY <1>1, <1>2 DEF EvaluationInv, Reviewing, Reported
<1>3. CASE OpenBom
  BY <1>1, <1>3 DEF OpenBom, EvaluationInv, Reviewing, Reported
<1>4. CASE WriteBom
  <2>1. Bom(scan.detected)
    BY DEF EvaluationInv, ScanInv, Bom
  <2> QED BY <1>1, <1>4, <2>1 DEF WriteBom, EvaluationInv, Reviewing, Reported
<1>5. CASE StartReview
  <2>1. review' = [pc |-> "read", reads |-> 0, boms |-> <<>>]
    BY <1>5 DEF StartReview, Resting
  <2>2. review'.pc = "read" /\ review'.reads = 0 /\ review'.boms = <<>>
    BY <2>1
  <2>3. Reviewing'
    BY <2>1, <2>2 DEF Reviewing
  <2> QED BY <1>1, <1>5, <2>3 DEF StartReview, EvaluationInv, Reported
<1>6. CASE ReadBom
  <2>1. CASE cbom \in {Absent, Torn}
    BY <1>1, <1>6, <2>1, RestingInv DEF ReadBom
  <2>2. CASE cbom \notin {Absent, Torn}
    <3> DEFINE boms == IF review.reads < 2 THEN review.boms ELSE Append(review.boms, cbom)
    <3>1. review' = [pc |-> "read", reads |-> review.reads + 1, boms |-> boms]
      BY <1>6, <2>2 DEF ReadBom, EvaluationInv, Reviewing
    <3> HIDE DEF boms
    <3>2. review'.pc = "read" /\ review'.reads = review.reads + 1 /\ review'.boms = boms
      BY <3>1
    <3>3. Bom(cbom) /\ review.reads \in 0..3
      BY <1>6, <2>2 DEF EvaluationInv, Reviewing, ReadBom
    <3>4. review.reads < 2 => boms = <<>>
      BY DEF EvaluationInv, Reviewing, boms
    <3>5. review.reads = 2 => boms = <<cbom>>
      <4>1. ASSUME review.reads = 2 PROVE review.boms = <<>> /\ boms = Append(review.boms, cbom)
        BY <4>1 DEF EvaluationInv, Reviewing, boms
      <4> QED BY <4>1, AppendToNone
    <3>6. review.reads = 3 => \E b : Bom(b) /\ boms = <<b, cbom>>
      <4>1. ASSUME review.reads = 3
            PROVE  boms = Append(review.boms, cbom) /\ \E b : Bom(b) /\ review.boms = <<b>>
        BY <4>1 DEF EvaluationInv, Reviewing, boms
      <4> QED BY <4>1, AppendToOne
    <3>7. UNCHANGED <<cbom, policy>>
      BY <1>6 DEF ReadBom
    <3>8. Reviewing'
      BY <3>1, <3>2, <3>3, <3>4, <3>5, <3>6 DEF Reviewing
    <3> QED BY <1>1, <3>7, <3>8 DEF EvaluationInv, Reported
  <2> QED BY <2>1, <2>2
<1>7. CASE OpenReport
  <2>1. review' = [pc |-> "write", reads |-> review.reads, boms |-> review.boms]
    BY <1>7 DEF OpenReport, EvaluationInv, Reviewing
  <2>2. review'.pc = "write" /\ review'.reads = review.reads /\ review'.boms = review.boms
    BY <2>1
  <2>3. Reviewing'
    BY <1>7, <2>1, <2>2 DEF OpenReport, EvaluationInv, Reviewing
  <2> QED BY <1>1, <1>7, <2>3 DEF OpenReport, EvaluationInv, Reported
<1>8. CASE WriteReport
  <2>1. PICK b, c : Bom(b) /\ Bom(c) /\ review.boms = <<b, c>>
    BY <1>8 DEF WriteReport, EvaluationInv, Reviewing
  <2>2. policy' = [cNSA_2_0 |-> Cnsa(b), nist_sp_800_208 |-> Nist(c), of |-> {b, c}]
    BY <1>8, <2>1 DEF WriteReport
  <2>3. Reported'
    BY <2>1, <2>2 DEF Reported
  <2>4. review' = [pc |-> "idle", reads |-> 0, boms |-> <<>>]
    BY <1>8 DEF WriteReport, Resting
  <2>5. review'.pc = "idle" /\ review'.reads = 0 /\ review'.boms = <<>>
    BY <2>4
  <2>6. Reviewing'
    BY <2>4, <2>5 DEF Reviewing
  <2> QED BY <1>1, <1>8, <2>3, <2>6 DEF WriteReport, EvaluationInv
<1> QED BY <1>1, <1>2, <1>3, <1>4, <1>5, <1>6, <1>7, <1>8
        DEF CbomNext, StartScan, ScanFile, EditFile, cbomVars

LEMMA EvaluationAlways == CbomSpec => []EvaluationInv
BY EvaluationInit, EvaluationStep, PTL DEF CbomSpec

\* What the two standards say of one bill.
LEMMA CnsaParts ==
  ASSUME NEW b
  PROVE  /\ Cnsa(b).missing_ka = RequiredKa \ DOMAIN b
         /\ Cnsa(b).missing_signature = RequiredSignature \ DOMAIN b
         /\ Cnsa(b).overall_status # "non-compliant" => DOMAIN b \cap (RequiredKa \cup RequiredSignature) # {}
BY DEF Cnsa, Algorithms

LEMMA NistParts ==
  ASSUME NEW b, Bom(b)
  PROVE  /\ Nist(b).recommended = DOMAIN b \cap Recommended
         /\ Nist(b).transitional = DOMAIN b \cap Transitional
         /\ Nist(b).missing_recommended = Recommended \ DOMAIN b
         /\ Nist(b).unclassified = DOMAIN b \ AlgoOrder
         /\ DOMAIN b \cap Recommended # {} => Nist(b).overall_status \in {"partial", "compliant"}
         /\ Nist(b).overall_status = "non-compliant" =>
              DOMAIN b \cap Recommended = {} /\ DOMAIN b \cap Transitional = {}
<1> DEFINE found == DOMAIN b \cap Recommended
<1>1. IsFiniteSet(found) /\ Cardinality(found) \in Nat /\ (Cardinality(found) = 0 <=> found = {})
  <2>1. IsFiniteSet(found)
    BY FS_Intersection DEF Bom
  <2> QED BY <2>1, FS_CardinalityType, FS_EmptySet
<1>2. NistStatus(b) = IF Cardinality(found) >= 3 THEN "compliant" ELSE IF Cardinality(found) >= 1 THEN "partial"
                      ELSE IF DOMAIN b \cap Transitional # {} THEN "transitional" ELSE "non-compliant"
  BY DEF NistStatus, Algorithms
<1>3. /\ found # {} => NistStatus(b) \in {"partial", "compliant"}
      /\ NistStatus(b) = "non-compliant" => found = {} /\ DOMAIN b \cap Transitional = {}
  <2> HIDE DEF found
  <2> QED BY <1>1, <1>2
<1> QED BY <1>3 DEF Nist, Algorithms

\* The two standards of a report about one bill do not contradict each other,
\* nor the bill served beside it (generate_policy_report, get_cbom_data,
\* generate_compliance_audit_report), for any files, contents and edits.
THEOREM StandardsOfOneBill == CbomSpec => []StandardsAgree
<1>1. EvaluationInv => StandardsAgree
  <2> SUFFICES ASSUME EvaluationInv, policy \notin {Absent, Torn}, Cardinality(policy.of) = 1
               PROVE  LET cnsa == policy.cNSA_2_0
                          nist == policy.nist_sp_800_208
                          served == GetCbomData
                      IN  /\ cnsa.overall_status # "non-compliant" => nist.overall_status \in {"partial", "compliant"}
                          /\ cnsa.missing_ka \cup cnsa.missing_signature \subseteq nist.missing_recommended
                          /\ nist.overall_status = "non-compliant" => nist.recommended = {} /\ nist.transitional = {}
                          /\ (served.status = 200 /\ policy.of = {served.cbom}) =>
                               /\ (nist.missing_recommended \cup cnsa.missing_ka) \cap DOMAIN served.cbom = {}
                               /\ \A training \in {Absent, Torn, None} :
                                    LET audit == ComplianceAudit(training)
                                    IN  audit.status = 200 => audit.total_cryptographic_components >=
                                          Cardinality(nist.recommended \cup nist.transitional \cup nist.unclassified)
    BY DEF StandardsAgree
  <2>1. PICK b, c : /\ Bom(b) /\ Bom(c)
                    /\ policy = [cNSA_2_0 |-> Cnsa(b), nist_sp_800_208 |-> Nist(c), of |-> {b, c}]
    BY DEF EvaluationInv, Reported
  <2>2. policy.cNSA_2_0 = Cnsa(b) /\ policy.nist_sp_800_208 = Nist(c) /\ policy.of = {b, c}
    BY <2>1
  <2>3. b = c
    <3>1. IsFiniteSet({b, c})
      <4>1. IsFiniteSet({b} \cup {c})
        BY FS_Singleton, FS_AddElement
      <4> QED BY <4>1
    <3>2. \E x : {b, c} = {x}
      BY <2>2, <3>1, FS_Singleton
    <3> QED BY <3>2
  <2>4. RequiredKa \cup RequiredSignature \subseteq Recommended
    BY DEF RequiredKa, RequiredSignature, Recommended
  <2>5. /\ Cnsa(b).overall_status # "non-compliant" => Nist(b).overall_status \in {"partial", "compliant"}
        /\ Cnsa(b).missing_ka \cup Cnsa(b).missing_signature \subseteq Nist(b).missing_recommended
        /\ Nist(b).overall_status = "non-compliant" => Nist(b).recommended = {} /\ Nist(b).transitional = {}
    <3>1. /\ Nist(b).missing_recommended = Recommended \ DOMAIN b
          /\ Nist(b).recommended = DOMAIN b \cap Recommended
          /\ Nist(b).transitional = DOMAIN b \cap Transitional
          /\ DOMAIN b \cap Recommended # {} => Nist(b).overall_status \in {"partial", "compliant"}
          /\ Nist(b).overall_status = "non-compliant" =>
               DOMAIN b \cap Recommended = {} /\ DOMAIN b \cap Transitional = {}
      BY <2>1, NistParts
    <3> QED BY <2>4, <3>1, CnsaParts
  <2>6. ASSUME GetCbomData.status = 200, policy.of = {GetCbomData.cbom},
               NEW training, ComplianceAudit(training).status = 200
        PROVE  ComplianceAudit(training).total_cryptographic_components >=
                 Cardinality(Nist(b).recommended \cup Nist(b).transitional \cup Nist(b).unclassified)
    <3>1. cbom \notin {Absent, Torn} /\ policy # Torn /\ GetCbomData.cbom = cbom
      BY <2>6 DEF GetCbomData
    <3>2. cbom = b
      BY <2>2, <2>6, <3>1
    <3>4. ComplianceAudit(training).total_cryptographic_components = Components(b)
      BY <2>6, <3>1, <3>2 DEF ComplianceAudit
    <3>5. Nist(b).recommended \cup Nist(b).transitional \cup Nist(b).unclassified \in SUBSET DOMAIN b
      BY <2>1, NistParts
    <3> DEFINE listed == Nist(b).recommended \cup Nist(b).transitional \cup Nist(b).unclassified
    <3>6. /\ IsFiniteSet(DOMAIN b) /\ IsFiniteSet(listed) /\ Cardinality(listed) <= Cardinality(DOMAIN b)
      BY <2>1, <3>5, FS_Subset DEF Bom
    <3>7. Cardinality(listed) \in Nat /\ Cardinality(DOMAIN b) \in Nat
      BY <3>6, FS_CardinalityType
    <3>8. CASE b = None
      <4>1. DOMAIN b = {} /\ Cardinality(DOMAIN b) = 0
        BY <3>8, FS_EmptySet DEF None
      <4>2. Components(b) = 1
        BY <3>8 DEF Components
      <4> HIDE DEF listed
      <4>3. Components(b) >= Cardinality(listed)
        BY <3>6, <3>7, <4>1, <4>2
      <4> QED BY <3>4, <4>3 DEF listed
    <3>9. CASE b # None
      <4>1. Components(b) = Cardinality(DOMAIN b)
        BY <3>9 DEF Components
      <4> HIDE DEF listed
      <4>2. Components(b) >= Cardinality(listed)
        BY <3>6, <3>7, <4>1
      <4> QED BY <3>4, <4>2 DEF listed
    <3> QED BY <3>8, <3>9
  <2>7. ASSUME GetCbomData.status = 200, policy.of = {GetCbomData.cbom}
        PROVE  (Nist(b).missing_recommended \cup Cnsa(b).missing_ka) \cap DOMAIN GetCbomData.cbom = {}
    <3>1. GetCbomData.cbom = b
      BY <2>2, <2>7
    <3> QED BY <2>1, <3>1, NistParts, CnsaParts
  <2> QED BY <2>2, <2>3, <2>5, <2>6, <2>7
<1> QED BY <1>1, EvaluationAlways, PTL

-----------------------------------------------------------------------------
(* Certificates.  The n-th chain is signed with the keys 2n - 1, which      *)
(* sign nothing else: a signature tells what it is over and whose it is.   *)

Chain(n, chain) ==
  LET root == chain[1]
      leaf == chain[2]
      rc == root.certificate.tbs
      lc == leaf.certificate.tbs
  IN  /\ rc.rsa = 2*n - 1 /\ rc.pq = 2*n - 1 /\ lc.rsa = 2*n /\ lc.pq = 2*n
      /\ root = Envelope(rc, 2*n - 1, 2*n - 1) /\ leaf = Envelope(lc, 2*n - 1, 2*n - 1)
      /\ rc.ca = TRUE /\ lc.ca = FALSE /\ rc.form = "profile" /\ lc.form = "profile"
      /\ rc.issuer = rc.subject /\ lc.issuer = rc.subject /\ lc.subject # rc.subject
      /\ BadName \notin {rc.subject, lc.subject} /\ rc.serial # lc.serial
      /\ rc.start = lc.start /\ rc.end = lc.end
      /\ rc.end - rc.start \in 1..MAX_DAYS /\ rc.start <= rc.end

ChainsInv ==
  /\ issued \in Seq(Envelopes \X Envelopes)
  /\ \A n \in 1..Len(issued) : Chain(n, issued[n])

\* What is presented has the signature of an envelope that was issued.
Moved(x) ==
  /\ x = [certificate |-> x.certificate, pq_signature |-> x.pq_signature]
  /\ \/ x.pq_signature = BadLength
     \/ \E n \in 1..Len(issued), j \in 1..2 : x.pq_signature = issued[n][j].pq_signature

Verifying(chain, pin) ==
  /\ chain = <<chain[1], chain[2]>> /\ Moved(chain[1]) /\ Moved(chain[2])
  /\ \E n \in 1..Len(issued), j \in 1..2 : pin = issued[n][j].certificate

CertInv ==
  /\ ChainsInv
  /\ verdict.call = "verify" =>
       /\ Verifying(verdict.chain, verdict.pin)
       /\ verdict.ok <=> Accepts(verdict.chain, verdict.pin, verdict.at)

LEMMA EnvelopeType ==
  ASSUME NEW tbs \in Profiled, NEW rsa \in Nat, NEW pq \in Nat
  PROVE  Envelope(tbs, rsa, pq) \in Envelopes
<1>1. Sign(rsa, tbs) \in [by : Nat, of : Profiled]
  BY DEF Sign
<1>2. [tbs |-> tbs, signature |-> Sign(rsa, tbs)] \in Certificates
  BY <1>1 DEF Certificates
<1>3. Sign(pq, [tbs |-> tbs, signature |-> Sign(rsa, tbs)]) \in [by : Nat, of : Certificates]
  BY <1>2 DEF Sign
<1> QED BY <1>2, <1>3 DEF Envelope, Envelopes

LEMMA ChainMade ==
  ASSUME ChainsInv, NEW root_cn \in Names \cup {BadName}, NEW leaf_cn \in Names \cup {BadName},
         NEW start \in Starts, NEW days \in Days, NEW serials \in Serials \X Serials,
         GenerateChain(root_cn, leaf_cn, start, days, serials)
  PROVE  ChainsInv'
<1> DEFINE k == 2 * Len(issued) + 1
           root == Tbs(root_cn, root_cn, k, k, serials[1], start, days, TRUE)
           leaf == Tbs(leaf_cn, root_cn, k + 1, k + 1, serials[2], start, days, FALSE)
           chain == <<Envelope(root, k, k), Envelope(leaf, k, k)>>
           ok == /\ BadName \notin {root_cn, leaf_cn} /\ root_cn # leaf_cn
                 /\ days \in 1..MAX_DAYS /\ Time(start) /\ Time(start + days)
<1>1. CASE ~ok
  <2>1. issued' = issued
    BY <1>1 DEF GenerateChain
  <2> QED BY <2>1 DEF ChainsInv
<1>2. CASE ok
  <2>1. issued' = Append(issued, chain)
    BY <1>2 DEF GenerateChain
  <2>2. /\ start \in Nat /\ days \in Nat /\ days \in 1..MAX_DAYS /\ k \in Nat /\ k + 1 \in Nat
        /\ root_cn \in Names /\ leaf_cn \in Names
    BY <1>2, CertAssumption DEF ChainsInv
  <2>3. serials[1] \in Serials /\ serials[2] \in Serials /\ serials[1] # serials[2]
    BY DEF GenerateChain
  <2> HIDE DEF k
  <2>4. root \in Profiled /\ leaf \in Profiled
    BY <2>2, <2>3 DEF Tbs, Profiled
  <2>5. /\ root.rsa = k /\ root.pq = k /\ leaf.rsa = k + 1 /\ leaf.pq = k + 1
        /\ root.subject = root_cn /\ leaf.subject = leaf_cn /\ root.issuer = root_cn /\ leaf.issuer = root_cn
        /\ root.serial = serials[1] /\ leaf.serial = serials[2] /\ root.start = start /\ leaf.start = start
        /\ root.end = start + days /\ leaf.end = start + days /\ root.ca = TRUE /\ leaf.ca = FALSE
        /\ root.form = "profile" /\ leaf.form = "profile"
    BY DEF Tbs
  <2> HIDE DEF root, leaf
  <2>6. chain \in Envelopes \X Envelopes
    BY <2>2, <2>4, EnvelopeType
  <2>7. /\ chain[1] = Envelope(root, k, k) /\ chain[2] = Envelope(leaf, k, k)
        /\ chain[1].certificate.tbs = root /\ chain[2].certificate.tbs = leaf
    <3>1. chain[1] = Envelope(root, k, k) /\ chain[2] = Envelope(leaf, k, k)
      OBVIOUS
    <3>2. Envelope(root, k, k).certificate.tbs = root /\ Envelope(leaf, k, k).certificate.tbs = leaf
      BY DEF Envelope
    <3> QED BY <3>1, <3>2
  <2> HIDE DEF chain
  <2>8. /\ issued' \in Seq(Envelopes \X Envelopes) /\ Len(issued') = Len(issued) + 1
        /\ \A n \in 1..Len(issued) : issued'[n] = issued[n]
        /\ issued'[Len(issued) + 1] = chain
    BY <2>1, <2>6, AppendProperties DEF ChainsInv
  <2>9. ASSUME NEW n \in 1..Len(issued) PROVE Chain(n, issued'[n])
    BY <2>8 DEF ChainsInv
  <2>10. Chain(Len(issued) + 1, chain)
    <3> DEFINE n == Len(issued) + 1
    <3>1. n \in Nat /\ 2*n - 1 = k /\ 2*n = k + 1
      BY DEF k, ChainsInv
    <3>2. (start + days) - start = days /\ start <= start + days
      BY <2>2
    <3> HIDE DEF n
    <3>3. Chain(n, chain)
      BY <1>2, <2>2, <2>3, <2>5, <2>7, <3>1, <3>2 DEF Chain
    <3> QED BY <3>3 DEF n
  <2>11. \A n \in 1..Len(issued') : n \in 1..Len(issued) \/ n = Len(issued) + 1
    BY <2>8 DEF ChainsInv
  <2> QED BY <2>8, <2>9, <2>10, <2>11 DEF ChainsInv
<1> QED BY <1>1, <1>2

LEMMA AlteredMoved ==
  ASSUME ChainsInv, NEW item \in Items, NEW x \in Altered(item) \cup {item}
  PROVE  Moved(x)
<1>1. \A o \in Items : /\ o \in Envelopes
                       /\ \E n \in 1..Len(issued), j \in 1..2 : o.pq_signature = issued[n][j].pq_signature
  BY DEF ChainsInv, Items
<1>2. /\ item = [certificate |-> item.certificate, pq_signature |-> item.pq_signature]
      /\ item.certificate = [tbs |-> item.certificate.tbs, signature |-> item.certificate.signature]
  BY <1>1 DEF Envelopes, Certificates
<1>3. CASE x = item
  BY <1>1, <1>2, <1>3 DEF Moved
<1>4. ASSUME NEW s \in {o.pq_signature : o \in Items} \cup {BadLength}, x = [item EXCEPT !.pq_signature = s]
      PROVE  Moved(x)
  <2>1. x = [certificate |-> item.certificate, pq_signature |-> s]
    BY <1>2, <1>4
  <2> QED BY <1>1, <2>1 DEF Moved
<1>5. ASSUME NEW c, x = [item EXCEPT !.certificate = c]
      PROVE  Moved(x)
  <2>1. x = [certificate |-> c, pq_signature |-> item.pq_signature]
    BY <1>2, <1>5, SMTT(30)
  <2> QED BY <1>1, <2>1 DEF Moved
<1>6. x # item => (\E s \in {o.pq_signature : o \in Items} \cup {BadLength} : x = [item EXCEPT !.pq_signature = s])
                  \/ \E c : x = [item EXCEPT !.certificate = c]
  BY DEF Altered
<1> QED BY <1>3, <1>4, <1>5, <1>6

LEMMA PresentedMoved ==
  ASSUME ChainsInv, NEW chain \in Presented, NEW pin \in {item.certificate : item \in Items}
  PROVE  Verifying(chain, pin)
<1>1. /\ chain = <<chain[1], chain[2]>>
      /\ \A j \in 1..2 : \E item \in Items : chain[j] \in Altered(item) \cup {item}
  BY DEF Presented
<1>2. Moved(chain[1]) /\ Moved(chain[2])
  BY <1>1, AlteredMoved
<1>3. \E n \in 1..Len(issued), j \in 1..2 : pin = issued[n][j].certificate
  BY DEF Items, ChainsInv
<1> QED BY <1>1, <1>2, <1>3 DEF Verifying

LEMMA CertAlways == CertSpec => []CertInv
<1>1. CertInit => CertInv
  BY DEF CertInit, CertInv, ChainsInv
<1>2. CertInv /\ [CertNext]_certVars => CertInv'
  <2> SUFFICES ASSUME CertInv, [CertNext]_certVars PROVE CertInv'
    OBVIOUS
  <2>1. CASE UNCHANGED certVars
    BY <2>1 DEF certVars, CertInv, ChainsInv, Verifying, Moved
  <2>2. ASSUME NEW root_cn \in Names \cup {BadName}, NEW leaf_cn \in Names \cup {BadName},
               NEW start \in Starts, NEW days \in Days, NEW serials \in Serials \X Serials,
               GenerateChain(root_cn, leaf_cn, start, days, serials)
        PROVE  CertInv'
    <3>1. verdict'.call = "generate"
      BY <2>2 DEF GenerateChain
    <3> QED BY <2>2, <3>1, ChainMade DEF CertInv
  <2>3. ASSUME NEW chain \in Presented, NEW pin \in {item.certificate : item \in Items}, NEW at \in CheckTimes,
               VerifyChain(chain, pin, at)
        PROVE  CertInv'
    <3>1. verdict'.chain = chain /\ verdict'.pin = pin /\ (verdict'.ok <=> Accepts(chain, pin, at)) /\ verdict'.at = at
      BY <2>3 DEF VerifyChain
    <3>2. issued' = issued
      BY <2>3 DEF VerifyChain
    <3>3. ChainsInv'
      BY <3>2 DEF CertInv, ChainsInv
    <3>4. Verifying(chain, pin)'
      <4>1. ChainsInv
        BY DEF CertInv
      <4>2. Verifying(chain, pin)
        BY <4>1, PresentedMoved
      <4> QED BY <3>2, <4>2 DEF Verifying, Moved
    <3> QED BY <3>1, <3>3, <3>4 DEF CertInv
  <2> QED BY <2>1, <2>2, <2>3 DEF CertNext
<1> QED BY <1>1, <1>2, PTL DEF CertSpec


\* What the pinned root signed with its post-quantum key is its own chain.
LEMMA AcceptedChain ==
  ASSUME ChainsInv, NEW chain, NEW pin, NEW at, Verifying(chain, pin), Accepts(chain, pin, at)
  PROVE  \E n \in DOMAIN issued :
           /\ chain = issued[n] /\ pin = issued[n][1].certificate /\ Time(at)
           /\ issued[n][2].certificate.tbs.start <= at /\ at <= issued[n][2].certificate.tbs.end
<1> DEFINE rc == chain[1].certificate.tbs
           lc == chain[2].certificate.tbs
<1>1. /\ Time(at) /\ chain[1].certificate = pin
      /\ rc.ca = TRUE /\ lc.ca = FALSE
      /\ lc.start <= at /\ at <= lc.end
      /\ Signed(chain[1], rc) /\ Signed(chain[2], rc)
  BY DEF Accepts, Profile
<1>2. \A n \in 1..Len(issued) : Chain(n, issued[n]) /\ issued[n] \in Envelopes \X Envelopes
  BY DEF ChainsInv
<1>3. PICK n \in 1..Len(issued), j \in 1..2 : pin = issued[n][j].certificate
  BY DEF Verifying
<1>4. pin = issued[n][1].certificate /\ rc.pq = 2*n - 1
  <2>1. Chain(n, issued[n])
    BY <1>2
  <2>2. pin.tbs.ca = TRUE
    BY <1>1
  <2> QED BY <1>1, <1>3, <2>1, <2>2 DEF Chain
<1>5. ASSUME NEW x, Moved(x), Signed(x, rc)
      PROVE  \E i \in 1..2 : x = issued[n][i]
  <2>1. /\ x = [certificate |-> x.certificate, pq_signature |-> x.pq_signature]
        /\ x.pq_signature # BadLength
        /\ x.pq_signature = Sign(2*n - 1, x.certificate)
    BY <1>4, <1>5 DEF Moved, Signed, Verified
  <2>2. PICK m \in 1..Len(issued), i \in 1..2 : x.pq_signature = issued[m][i].pq_signature
    BY <1>5, <2>1 DEF Moved
  <2>3. issued[m][i].pq_signature = Sign(2*m - 1, issued[m][i].certificate)
    <3>1. Chain(m, issued[m])
      BY <1>2
    <3>2. PICK tbs : issued[m][i] = Envelope(tbs, 2*m - 1, 2*m - 1)
      BY <3>1 DEF Chain
    <3> QED BY <3>2 DEF Envelope
  <2>4. 2*n - 1 = 2*m - 1 /\ x.certificate = issued[m][i].certificate
    <3>1. Sign(2*n - 1, x.certificate) = Sign(2*m - 1, issued[m][i].certificate)
      BY <2>1, <2>2, <2>3
    <3> QED BY <3>1 DEF Sign
  <2>5. n = m
    BY <2>4 DEF ChainsInv
  <2>6. issued[m][i] \in Envelopes
    BY <1>2
  <2>7. x = issued[m][i]
    BY <2>1, <2>2, <2>4, <2>6 DEF Envelopes
  <2> QED BY <2>5, <2>7
<1>6. PICK i \in 1..2 : chain[1] = issued[n][i]
  BY <1>1, <1>5 DEF Verifying
<1>7. PICK k \in 1..2 : chain[2] = issued[n][k]
  BY <1>1, <1>5 DEF Verifying
<1>8. chain[1] = issued[n][1] /\ chain[2] = issued[n][2]
  <2>1. issued[n][1].certificate.tbs.ca = TRUE /\ issued[n][2].certificate.tbs.ca = FALSE
    BY <1>2 DEF Chain
  <2> QED BY <1>1, <1>6, <1>7, <2>1
<1>9. chain = issued[n]
  BY <1>2, <1>8 DEF Verifying
<1> QED BY <1>1, <1>4, <1>8, <1>9 DEF ChainsInv

\* What was issued verifies within its validity.
LEMMA IssuedChain ==
  ASSUME ChainsInv, NEW n \in DOMAIN issued, NEW at, Time(at),
         issued[n][2].certificate.tbs.start <= at, at <= issued[n][2].certificate.tbs.end
  PROVE  Accepts(issued[n], issued[n][1].certificate, at)
<1> DEFINE chain == issued[n]
           rc == chain[1].certificate.tbs
           lc == chain[2].certificate.tbs
<1>1. n \in 1..Len(issued) /\ Chain(n, chain) /\ chain \in Envelopes \X Envelopes
  BY DEF ChainsInv
<1>2. Len(chain) = 2
  BY <1>1
<1>3. /\ rc.start = lc.start /\ rc.end = lc.end
      /\ rc.start \in Nat /\ rc.end \in Nat
  BY <1>1, CertAssumption DEF Chain, Envelopes, Certificates, Profiled
<1>4. Profile(rc, TRUE, at) /\ Profile(lc, FALSE, at)
  BY <1>1, <1>3 DEF Profile, Chain
<1>5. rc.rsa # lc.rsa /\ rc.pq # lc.pq
  BY <1>1 DEF Chain
<1>6. rc.start <= lc.start /\ lc.end <= rc.end
  BY <1>3
<1>7. ASSUME NEW item \in {chain[1], chain[2]}
      PROVE  Signed(item, rc)
  <2>1. item = Envelope(item.certificate.tbs, rc.rsa, rc.pq) /\ item \in Envelopes
    BY <1>1 DEF Chain
  <2>2. item.pq_signature \in [by : Nat, of : Certificates]
    BY <2>1 DEF Envelopes
  <2>3. /\ item.certificate.signature = Sign(rc.rsa, item.certificate.tbs)
        /\ item.pq_signature = Sign(rc.pq, item.certificate)
    BY <2>1 DEF Envelope
  <2> QED BY <2>2, <2>3, CertAssumption DEF Signed, Verified
<1> QED BY <1>1, <1>2, <1>4, <1>5, <1>6, <1>7 DEF Accepts, Chain

\* A chain is accepted exactly when generate_chain made it, as it is, under
\* the root that is pinned and within its validity (verify_chain): parts of
\* two chains and edited fields never verify, for any chains that are issued.
THEOREM OnlyIssuedAccepted == CertSpec => []AcceptedIsIssued
<1>1. CertInv => AcceptedIsIssued
  BY AcceptedChain, IssuedChain DEF CertInv, AcceptedIsIssued
<1> QED BY <1>1, CertAlways, PTL

-----------------------------------------------------------------------------
(* Fuzzing.  Every account that is kept is complete, the implementations   *)
(* that have one and those still to be fuzzed are those of the job, and an *)
(* account has a shortest and a longest time once it has any.              *)

Params == {j.kem[i] : j \in Jobs, i \in Nat} \cup {j.dsa[i] : j \in Jobs, i \in Nat}
Tasks == [family : Families, params : Params]
Account == [timing_data : Seq(Elapsed), exceptions : Nat]
Asked(f) == {job[f][i] : i \in DOMAIN job[f]}

Bounded(times) ==
  times # <<>> => \E i, j \in 1..Len(times) : \A k \in 1..Len(times) :
                    times[i] <= times[k] /\ times[k] <= times[j]
Extremes(r) == Bounded(r.timing_data)

FamilyInv(f) ==
  /\ results[f] = [p \in DOMAIN results[f] |-> results[f][p]]
  /\ \A p \in DOMAIN results[f] :
       results[f][p] \in Account /\ Count(results[f][p]) = job.iterations /\ Extremes(results[f][p])
  /\ DOMAIN results[f] \subseteq Asked(f)
  /\ \A p \in Asked(f) :
       p \in DOMAIN results[f] \/ \E i \in 1..Len(todo) : todo[i] = [family |-> f, params |-> p]

FuzzInv ==
  /\ job \in Jobs
  /\ todo \in Seq(Tasks)
  /\ \A i \in 1..Len(todo) : todo[i].params \in Asked(todo[i].family)
  /\ current \in Account /\ Count(current) <= job.iterations /\ Extremes(current)
  /\ results = [f \in Families |-> results[f]]
  /\ \A f \in Families : FamilyInv(f)
  /\ outcome # "running" => todo = <<>>

LEMMA FreshAccount == Fresh \in Account /\ Count(Fresh) = 0 /\ Extremes(Fresh)
BY DEF Fresh, Account, Count, Extremes, Bounded

LEMMA FuzzInitInv == FuzzInit => FuzzInv
<1> SUFFICES ASSUME FuzzInit PROVE FuzzInv
  OBVIOUS
<1> DEFINE K == [i \in 1..Len(job.kem) |-> [family |-> "kem", params |-> job.kem[i]]]
           D == [i \in 1..Len(job.dsa) |-> [family |-> "dsa", params |-> job.dsa[i]]]
<1>1. job \in Jobs /\ job.iterations \in Nat /\ todo = K \o D
  BY FuzzAssumption DEF FuzzInit
<1>2. /\ Len(job.kem) \in Nat /\ DOMAIN job.kem = 1..Len(job.kem)
      /\ Len(job.dsa) \in Nat /\ DOMAIN job.dsa = 1..Len(job.dsa)
  BY <1>1, FuzzAssumption
<1>3. /\ \A i \in 1..Len(job.kem) : job.kem[i] \in Params /\ job.kem[i] \in Asked("kem")
      /\ \A i \in 1..Len(job.dsa) : job.dsa[i] \in Params /\ job.dsa[i] \in Asked("dsa")
  BY <1>1, <1>2 DEF Params, Asked
<1>4. K \in Seq(Tasks) /\ D \in Seq(Tasks)
  BY <1>2, <1>3 DEF Tasks, Families
<1>5. /\ Len(K) = Len(job.kem) /\ \A i \in 1..Len(K) : K[i] = [family |-> "kem", params |-> job.kem[i]]
      /\ Len(D) = Len(job.dsa) /\ \A i \in 1..Len(D) : D[i] = [family |-> "dsa", params |-> job.dsa[i]]
  BY <1>2
<1> HIDE DEF K, D
<1>6. /\ todo \in Seq(Tasks) /\ Len(todo) = Len(K) + Len(D)
      /\ \A i \in 1..Len(todo) : todo[i] = IF i <= Len(K) THEN K[i] ELSE D[i - Len(K)]
  BY <1>1, <1>4, ConcatProperties
<1> DEFINE n == Len(K)
           m == Len(D)
<1>7. n \in Nat /\ m \in Nat
  BY <1>2, <1>5
<1>8. /\ \A i \in 1..n : i \in 1..Len(todo) /\ todo[i] = K[i]
      /\ \A i \in 1..m : i + n \in 1..Len(todo) /\ todo[i + n] = D[i]
  <2> HIDE DEF n, m
  <2>1. \A i \in 1..m : i + n \in 1..n + m /\ ~(i + n <= n) /\ (i + n) - n = i
    BY <1>7
  <2> QED BY <1>6, <1>7, <2>1 DEF n, m
<1>9. \A i \in 1..Len(todo) : todo[i].params \in Asked(todo[i].family)
  <2> SUFFICES ASSUME NEW i \in 1..Len(todo) PROVE todo[i].params \in Asked(todo[i].family)
    OBVIOUS
  <2>1. CASE i <= n
    <3>1. i \in 1..n /\ todo[i] = K[i]
      BY <1>6, <1>7, <2>1
    <3>2. todo[i] = [family |-> "kem", params |-> job.kem[i]]
      BY <1>5, <3>1
    <3>3. todo[i].family = "kem" /\ todo[i].params = job.kem[i]
      BY <3>2
    <3> QED BY <1>3, <1>5, <3>1, <3>3
  <2>2. CASE ~(i <= n)
    <3>1. i - n \in 1..m
      <4> HIDE DEF n, m
      <4>1. i \in 1..n + m
        BY <1>6 DEF n, m
      <4> QED BY <1>7, <2>2, <4>1
    <3>2. todo[i] = [family |-> "dsa", params |-> job.dsa[i - n]]
      BY <1>5, <1>6, <2>2, <3>1
    <3>3. todo[i].family = "dsa" /\ todo[i].params = job.dsa[i - n]
      BY <3>2
    <3> QED BY <1>3, <1>5, <3>1, <3>3
  <2> QED BY <2>1, <2>2
<1>10. ASSUME NEW f \in Families PROVE FamilyInv(f)
  <2>1. results[f] = [x \in {} |-> Fresh] /\ DOMAIN results[f] = {}
    BY DEF FuzzInit
  <2>2. ASSUME NEW p \in Asked(f)
        PROVE  \E i \in 1..Len(todo) : todo[i] = [family |-> f, params |-> p]
    <3>1. CASE f = "kem"
      <4>1. PICK i \in 1..n : p = job.kem[i]
        BY <1>2, <1>5, <2>2, <3>1 DEF Asked
      <4> QED BY <1>5, <1>8, <3>1, <4>1
    <3>2. CASE f = "dsa"
      <4>1. PICK i \in 1..m : p = job.dsa[i]
        BY <1>2, <1>5, <2>2, <3>2 DEF Asked
      <4> QED BY <1>5, <1>8, <3>2, <4>1
    <3> QED BY <3>1, <3>2 DEF Families
  <2> QED BY <2>1, <2>2 DEF FamilyInv
<1>11. results = [f \in Families |-> results[f]] /\ outcome = "running" /\ current = Fresh
  BY DEF FuzzInit
<1> QED BY <1>1, <1>6, <1>9, <1>10, <1>11, FreshAccount DEF FuzzInv

LEMMA AccountParts ==
  ASSUME NEW r \in Account
  PROVE  /\ r = [timing_data |-> r.timing_data, exceptions |-> r.exceptions]
         /\ r.timing_data \in Seq(Elapsed) /\ r.exceptions \in Nat
         /\ Len(r.timing_data) \in Nat
         /\ \A i \in 1..Len(r.timing_data) : r.timing_data[i] \in Nat
<1>1. /\ r = [timing_data |-> r.timing_data, exceptions |-> r.exceptions]
      /\ r.timing_data \in Seq(Elapsed) /\ r.exceptions \in Nat
  BY DEF Account
<1> DEFINE t == r.timing_data
<1>2. t \in Seq(Elapsed)
  BY <1>1
<1> HIDE DEF t
<1>3. Len(t) \in Nat /\ \A i \in 1..Len(t) : t[i] \in Elapsed
  BY <1>2
<1>4. \A i \in 1..Len(t) : t[i] \in Nat
  BY <1>3, FuzzAssumption
<1> QED BY <1>1, <1>3, <1>4 DEF t

\* A call that returns is the shortest or longest so far, or neither.
LEMMA SucceedAccount ==
  ASSUME NEW r \in Account, Extremes(r), NEW e \in Elapsed,
         NEW s, s = [r EXCEPT !.timing_data = Append(@, e)]
  PROVE  s \in Account /\ Count(s) = Count(r) + 1 /\ Extremes(s)
<1> DEFINE t == r.timing_data
           n == Len(t)
           u == Append(t, e)
<1>1. t \in Seq(Elapsed) /\ r.exceptions \in Nat /\ n \in Nat /\ e \in Nat
      /\ \A i \in 1..n : t[i] \in Nat
  BY AccountParts, FuzzAssumption
<1>2. s = [timing_data |-> u, exceptions |-> r.exceptions]
  BY AccountParts, SMTT(30)
<1>3. u \in Seq(Elapsed) /\ Len(u) = n + 1 /\ (\A i \in 1..n : u[i] = t[i]) /\ u[n + 1] = e
  BY <1>1, AppendProperties
<1>4. t = <<>> <=> n = 0
  BY <1>1
<1>5. t # <<>> => \E i, j \in 1..n : \A k \in 1..n : t[i] <= t[k] /\ t[k] <= t[j]
  BY DEF Extremes, Bounded
<1> HIDE DEF t, n, u
<1>6. s.timing_data = u /\ s.exceptions = r.exceptions
  BY <1>2
<1>7. s \in Account
  <2>1. [timing_data |-> u, exceptions |-> r.exceptions] \in Account
    BY <1>1, <1>3 DEF Account
  <2> QED BY <1>2, <2>1
<1>8. Count(s) = Count(r) + 1
  BY <1>1, <1>3, <1>6 DEF Count, t, n
<1>9. \E i, j \in 1..n + 1 : \A k \in 1..n + 1 : u[i] <= u[k] /\ u[k] <= u[j]
  <2>1. \A k \in 1..n + 1 : k \in 1..n \/ k = n + 1
    BY <1>1
  <2>2. n + 1 \in 1..n + 1 /\ \A k \in 1..n : k \in 1..n + 1
    BY <1>1
  <2>3. CASE n = 0
    BY <1>1, <1>3, <2>1, <2>2, <2>3
  <2>4. CASE n # 0
    <3>1. PICK i \in 1..n, j \in 1..n : \A k \in 1..n : t[i] <= t[k] /\ t[k] <= t[j]
      BY <1>4, <1>5, <2>4
    <3>2. \A k \in 1..n : u[i] <= u[k] /\ u[k] <= u[j]
      BY <1>3, <3>1
    <3>3. u[i] \in Nat /\ u[j] \in Nat /\ (\A k \in 1..n : u[k] \in Nat) /\ u[n + 1] = e
      BY <1>1, <1>3
    <3> DEFINE low == IF e < u[i] THEN n + 1 ELSE i
               high == IF e > u[j] THEN n + 1 ELSE j
    <3>4. low \in 1..n + 1 /\ high \in 1..n + 1
      BY <2>2
    <3>5. \A k \in 1..n : u[low] <= u[k] /\ u[k] <= u[high]
      BY <1>1, <3>2, <3>3
    <3>6. u[low] <= e /\ e <= u[high]
      BY <1>1, <3>3
    <3> HIDE DEF low, high
    <3>7. \A k \in 1..n + 1 : u[low] <= u[k] /\ u[k] <= u[high]
      BY <2>1, <3>3, <3>5, <3>6
    <3> QED BY <3>4, <3>7
  <2> QED BY <2>3, <2>4
<1>10. Extremes(s)
  <2>1. \E i, j \in 1..Len(u) : \A k \in 1..Len(u) : u[i] <= u[k] /\ u[k] <= u[j]
    BY <1>3, <1>9
  <2>2. Bounded(u)
    BY <2>1 DEF Bounded
  <2> QED BY <1>6, <2>2 DEF Extremes
<1> QED BY <1>7, <1>8, <1>10

LEMMA RaiseAccount ==
  ASSUME NEW r \in Account, Extremes(r), NEW s, s = [r EXCEPT !.exceptions = @ + 1]
  PROVE  s \in Account /\ Count(s) = Count(r) + 1 /\ Extremes(s)
<1>1. s = [timing_data |-> r.timing_data, exceptions |-> r.exceptions + 1]
  BY AccountParts
<1>2. s.timing_data = r.timing_data /\ s.exceptions = r.exceptions + 1
  BY <1>1
<1> QED BY <1>1, <1>2, AccountParts DEF Account, Count, Extremes

LEMMA StoreStep ==
  ASSUME FuzzInv, Store
  PROVE  FuzzInv'
<1> DEFINE f == Head(todo).family
           p == Head(todo).params
           kept == [x \in DOMAIN results[f] \cup {p} |-> IF x = p THEN current ELSE results[f][x]]
<1>1. /\ todo \in Seq(Tasks) /\ todo # <<>>
      /\ current \in Account /\ Count(current) = job.iterations /\ Extremes(current)
      /\ results = [g \in Families |-> results[g]]
  BY DEF FuzzInv, Store
<1>2. /\ Head(todo) = todo[1] /\ todo[1] \in Tasks /\ Len(todo) \in Nat /\ Len(todo) > 0
      /\ Tail(todo) \in Seq(Tasks) /\ Len(Tail(todo)) = Len(todo) - 1
      /\ \A i \in 1..Len(todo) - 1 : Tail(todo)[i] = todo[i + 1]
  BY <1>1
<1>3. f \in Families /\ todo[1] = [family |-> f, params |-> p] /\ p \in Asked(f)
  <2>1. 1 \in 1..Len(todo)
    BY <1>2
  <2>2. todo[1].params \in Asked(todo[1].family)
    BY <2>1 DEF FuzzInv
  <2> QED BY <1>2, <2>2 DEF Tasks
<1>4. results' = [results EXCEPT ![f] = kept]
  BY DEF Store
<1>5. /\ todo' = Tail(todo) /\ current' = Fresh /\ job' = job /\ outcome' = outcome
  BY DEF Store
<1> HIDE DEF f, p
<1>6. results'[f] = kept /\ \A g \in Families : g # f => results'[g] = results[g]
  BY <1>1, <1>3, <1>4
<1>7. results' = [g \in Families |-> results'[g]]
  BY <1>1, <1>4
<1>8. \A g : Asked(g)' = Asked(g)
  BY <1>5 DEF Asked
<1>9. \A i \in 2..Len(todo) : i - 1 \in 1..Len(todo') /\ todo'[i - 1] = todo[i]
  <2> SUFFICES ASSUME NEW i \in 2..Len(todo)
               PROVE  i - 1 \in 1..Len(todo') /\ todo'[i - 1] = todo[i]
    OBVIOUS
  <2>1. i - 1 \in 1..Len(todo) - 1 /\ (i - 1) + 1 = i
    BY <1>2
  <2> QED BY <1>2, <1>5, <2>1
<1>10. \A i \in 1..Len(todo') : i + 1 \in 1..Len(todo) /\ todo'[i] = todo[i + 1]
  BY <1>2, <1>5
<1>11. ASSUME NEW g \in Families PROVE FamilyInv(g)'
  <2>1. FamilyInv(g)
    BY DEF FuzzInv
  <2>2. CASE g = f
    <3>1. DOMAIN kept = DOMAIN results[f] \cup {p}
      OBVIOUS
    <3>2. \A x \in DOMAIN kept : kept[x] = IF x = p THEN current ELSE results[f][x]
      OBVIOUS
    <3>3. kept = [x \in DOMAIN kept |-> kept[x]]
      OBVIOUS
    <3> HIDE DEF kept
    <3>4. \A x \in DOMAIN kept : kept[x] \in Account /\ Count(kept[x]) = job.iterations /\ Extremes(kept[x])
      BY <1>1, <2>1, <2>2, <3>1, <3>2 DEF FamilyInv
    <3>5. DOMAIN kept \subseteq Asked(f)
      BY <1>3, <2>1, <2>2, <3>1 DEF FamilyInv
    <3>6. ASSUME NEW x \in Asked(f), x \notin DOMAIN kept
          PROVE  \E i \in 1..Len(todo') : todo'[i] = [family |-> f, params |-> x]
      <4>1. PICK i \in 1..Len(todo) : todo[i] = [family |-> f, params |-> x]
        BY <2>1, <2>2, <3>1, <3>6 DEF FamilyInv
      <4>2. i # 1
        <5>1. x # p
          BY <3>1, <3>6
        <5>2. [family |-> f, params |-> x].params = x /\ [family |-> f, params |-> p].params = p
          OBVIOUS
        <5> QED BY <1>3, <4>1, <5>1, <5>2
      <4>3. i \in 2..Len(todo)
        BY <1>2, <4>2
      <4> QED BY <1>9, <4>1, <4>3
    <3> QED BY <1>5, <1>6, <1>8, <2>2, <3>3, <3>4, <3>5, <3>6 DEF FamilyInv
  <2>3. CASE g # f
    <3>1. results'[g] = results[g]
      BY <1>6, <2>3
    <3>2. ASSUME NEW x \in Asked(g), x \notin DOMAIN results[g]
          PROVE  \E i \in 1..Len(todo') : todo'[i] = [family |-> g, params |-> x]
      <4>1. PICK i \in 1..Len(todo) : todo[i] = [family |-> g, params |-> x]
        BY <2>1, <3>2 DEF FamilyInv
      <4>2. i # 1
        <5>1. [family |-> g, params |-> x].family = g /\ [family |-> f, params |-> p].family = f
          OBVIOUS
        <5> QED BY <1>3, <2>3, <4>1, <5>1
      <4>3. i \in 2..Len(todo)
        BY <1>2, <4>2
      <4> QED BY <1>9, <4>1, <4>3
    <3> QED BY <1>5, <1>8, <2>1, <3>1, <3>2 DEF FamilyInv
  <2> QED BY <2>2, <2>3
<1>12. (\A i \in 1..Len(todo) : todo[i].params \in Asked(todo[i].family))'
  <2>1. \A i \in 1..Len(todo) : todo[i].params \in Asked(todo[i].family)
    BY DEF FuzzInv
  <2> QED BY <1>5, <1>10, <2>1 DEF Asked
<1>13. job.iterations \in Nat
  BY FuzzAssumption DEF FuzzInv
<1>14. outcome' # "running" => todo' = <<>>
  BY <1>1, <1>5 DEF FuzzInv
<1> QED BY <1>2, <1>5, <1>7, <1>11, <1>12, <1>13, <1>14, FreshAccount DEF FuzzInv

LEMMA FuzzStep ==
  ASSUME FuzzInv, [FuzzNext]_fuzzVars
  PROVE  FuzzInv'
<1>0. job.iterations \in Nat
  BY FuzzAssumption DEF FuzzInv
<1>1. ASSUME UNCHANGED <<job, todo, results, outcome>>,
             current' \in Account, Count(current') <= job.iterations, Extremes(current')
      PROVE  FuzzInv'
  BY <1>1 DEF FuzzInv, FamilyInv, Asked
<1>2. CASE UNCHANGED fuzzVars
  BY <1>1, <1>2 DEF fuzzVars, FuzzInv
<1>3. ASSUME NEW e \in Elapsed, Succeed(e) PROVE FuzzInv'
  <2>1. current' \in Account /\ Count(current') = Count(current) + 1 /\ Extremes(current')
    BY <1>3, SucceedAccount DEF FuzzInv, Succeed
  <2>2. Count(current) \in Nat /\ Count(current) < job.iterations
    BY <1>3, AccountParts DEF FuzzInv, Succeed, Fuzzing, Count
  <2> QED BY <1>0, <1>1, <1>3, <2>1, <2>2 DEF Succeed
<1>4. CASE Raise
  <2>1. current' \in Account /\ Count(current') = Count(current) + 1 /\ Extremes(current')
    BY <1>4, RaiseAccount DEF FuzzInv, Raise
  <2>2. Count(current) \in Nat /\ Count(current) < job.iterations
    BY <1>4, AccountParts DEF FuzzInv, Raise, Fuzzing, Count
  <2> QED BY <1>0, <1>1, <1>4, <2>1, <2>2 DEF Raise
<1>5. CASE Store
  BY <1>5, StoreStep
<1>6. CASE Finish
  BY <1>6 DEF Finish, FuzzInv, FamilyInv, Asked
<1> QED BY <1>2, <1>3, <1>4, <1>5, <1>6 DEF FuzzNext

LEMMA FuzzAlways == FuzzSpec => []FuzzInv
BY FuzzInitInv, FuzzStep, PTL DEF FuzzSpec

(* What the reports make of an account.                                    *)

\* The variance is the largest difference of two times, and 0 without two.
LEMMA VarianceOfAccount ==
  ASSUME NEW r \in Account, Extremes(r)
  PROVE  /\ Variance(r) \in Nat
         /\ \A i, j \in 1..Len(r.timing_data) : r.timing_data[i] - r.timing_data[j] <= Variance(r)
         /\ Variance(r) > 0 => \E i, j \in 1..Len(r.timing_data) :
                                 r.timing_data[i] - r.timing_data[j] = Variance(r)
<1> DEFINE t == r.timing_data
           n == Len(t)
<1>1. n \in Nat /\ (\A i \in 1..n : t[i] \in Nat) /\ t \in Seq(Elapsed)
  BY AccountParts
<1>2. Times(r) = {t[i] : i \in 1..n}
  BY DEF Times
<1>3. Variance(r) = IF n < 2 THEN 0 ELSE Greatest(Times(r)) - Least(Times(r))
  BY DEF Variance
<1>4. t # <<>> => \E i, j \in 1..n : \A k \in 1..n : t[i] <= t[k] /\ t[k] <= t[j]
  BY DEF Extremes, Bounded
<1>5. n >= 1 => t # <<>>
  BY <1>1
<1> HIDE DEF t, n
<1>6. CASE n < 2
  <2>1. \A i, j \in 1..n : i = j
    BY <1>1, <1>6
  <2>2. \A i, j \in 1..n : t[i] - t[j] = 0
    <3> SUFFICES ASSUME NEW i \in 1..n, NEW j \in 1..n PROVE t[i] - t[j] = 0
      OBVIOUS
    <3>1. i = j /\ t[i] \in Nat
      BY <1>1, <2>1
    <3>2. t[i] - t[i] = 0
      BY <3>1
    <3> QED BY <3>1, <3>2
  <2> QED BY <1>1, <1>3, <1>6, <2>2 DEF t, n
<1>7. CASE ~(n < 2)
  <2>1. PICK i \in 1..n, j \in 1..n : \A k \in 1..n : t[i] <= t[k] /\ t[k] <= t[j]
    BY <1>1, <1>4, <1>5, <1>7
  <2>2. /\ t[i] \in Times(r) /\ \A x \in Times(r) : t[i] <= x
        /\ t[j] \in Times(r) /\ \A x \in Times(r) : t[j] >= x
        /\ \A x \in Times(r) : x \in Nat
    BY <1>1, <1>2, <2>1
  <2>3. Least(Times(r)) = t[i]
    <3>1. /\ Least(Times(r)) \in Times(r) /\ \A x \in Times(r) : Least(Times(r)) <= x
      BY <2>2 DEF Least
    <3>2. Least(Times(r)) \in Nat /\ t[i] \in Nat /\ Least(Times(r)) <= t[i] /\ t[i] <= Least(Times(r))
      BY <2>2, <3>1
    <3> QED BY <3>2
  <2>4. Greatest(Times(r)) = t[j]
    <3>1. /\ Greatest(Times(r)) \in Times(r) /\ \A x \in Times(r) : Greatest(Times(r)) >= x
      BY <2>2 DEF Greatest
    <3>2. Greatest(Times(r)) \in Nat /\ t[j] \in Nat /\ Greatest(Times(r)) >= t[j] /\ t[j] >= Greatest(Times(r))
      BY <2>2, <3>1
    <3> QED BY <3>2
  <2>5. Variance(r) = t[j] - t[i]
    BY <1>3, <1>7, <2>3, <2>4
  <2>6. Variance(r) \in Nat
    BY <1>1, <2>1, <2>5
  <2>7. \A k, l \in 1..n : t[k] - t[l] <= t[j] - t[i]
    BY <1>1, <2>1
  <2> QED BY <2>5, <2>6, <2>7 DEF t, n
<1> QED BY <1>6, <1>7

LEMMA VariesExceeds ==
  ASSUME NEW r \in Account, Extremes(r)
  PROVE  Variance(r) > THRESHOLD <=>
           \E i, j \in DOMAIN r.timing_data : r.timing_data[i] - r.timing_data[j] > THRESHOLD
<1> DEFINE t == r.timing_data
<1>1. /\ DOMAIN t = 1..Len(t) /\ THRESHOLD \in Nat /\ Variance(r) \in Nat
      /\ \A i \in 1..Len(t) : t[i] \in Nat
  BY AccountParts, VarianceOfAccount, FuzzAssumption
<1>2. ASSUME Variance(r) > THRESHOLD
      PROVE  \E i, j \in 1..Len(t) : t[i] - t[j] > THRESHOLD
  <2>1. Variance(r) > 0
    BY <1>1, <1>2
  <2>2. \E i, j \in 1..Len(t) : t[i] - t[j] = Variance(r)
    BY <2>1, VarianceOfAccount
  <2> HIDE DEF t
  <2> QED BY <1>2, <2>2
<1>3. ASSUME NEW i \in 1..Len(t), NEW j \in 1..Len(t), t[i] - t[j] > THRESHOLD
      PROVE  Variance(r) > THRESHOLD
  <2>1. t[i] - t[j] <= Variance(r)
    BY VarianceOfAccount
  <2>2. t[i] \in Nat /\ t[j] \in Nat
    BY <1>1
  <2> HIDE DEF t
  <2> QED BY <1>1, <1>3, <2>1, <2>2
<1> QED BY <1>1, <1>2, <1>3

LEMMA TimesFinite ==
  ASSUME NEW r \in Account
  PROVE  IsFiniteSet(Times(r))
<1> DEFINE n == Len(r.timing_data)
           times == [i \in 1..n |-> r.timing_data[i]]
<1>1. n \in Nat
  BY AccountParts
<1>2. IsFiniteSet(1..n)
  BY <1>1, FS_Interval
<1>3. times \in Surjection(1..n, Times(r))
  BY DEF Times, Surjection
<1> HIDE DEF times, n
<1> QED BY <1>2, <1>3, FS_Surjection

\* Times that differ are two, and two times differ.
LEMMA VarianceOfTimes ==
  ASSUME NEW r \in Account, Extremes(r)
  PROVE  Variance(r) > 0 <=> Cardinality(Times(r)) > 1
<1> DEFINE t == r.timing_data
           n == Len(t)
<1>1. n \in Nat /\ (\A i \in 1..n : t[i] \in Nat) /\ Times(r) = {t[i] : i \in 1..n}
  BY AccountParts DEF Times
<1>2. /\ Variance(r) \in Nat
      /\ \A i, j \in 1..n : t[i] - t[j] <= Variance(r)
      /\ Variance(r) > 0 => \E i, j \in 1..n : t[i] - t[j] = Variance(r)
  BY VarianceOfAccount
<1>3. IsFiniteSet(Times(r)) /\ Cardinality(Times(r)) \in Nat
  BY TimesFinite, FS_CardinalityType
<1> HIDE DEF t, n
<1>4. ASSUME Variance(r) > 0 PROVE Cardinality(Times(r)) > 1
  <2>1. PICK i \in 1..n, j \in 1..n : t[i] - t[j] = Variance(r)
    BY <1>2, <1>4
  <2>2. t[i] # t[j] /\ t[i] \in Times(r) /\ t[j] \in Times(r)
    BY <1>1, <1>4, <2>1
  <2>3. Cardinality(Times(r)) # 0
    BY <1>3, <2>2, FS_EmptySet
  <2>4. Cardinality(Times(r)) # 1
    BY <1>3, <2>2, FS_Singleton
  <2> QED BY <1>3, <2>3, <2>4
<1>5. ASSUME ~(Variance(r) > 0) PROVE ~(Cardinality(Times(r)) > 1)
  <2>1. \A i, j \in 1..n : t[i] = t[j]
    <3> SUFFICES ASSUME NEW i \in 1..n, NEW j \in 1..n PROVE t[i] = t[j]
      OBVIOUS
    <3>1. t[i] - t[j] <= 0 /\ t[j] - t[i] <= 0
      BY <1>2, <1>5
    <3> QED BY <1>1, <3>1
  <2>2. CASE n = 0
    <3>1. Times(r) = {}
      BY <1>1, <2>2
    <3> QED BY <3>1, FS_EmptySet
  <2>3. CASE n # 0
    <3>1. 1 \in 1..n
      BY <1>1, <2>3
    <3>2. Times(r) = {t[1]}
      BY <1>1, <2>1, <3>1
    <3> QED BY <3>2, FS_Singleton
  <2> QED BY <2>2, <2>3
<1> QED BY <1>4, <1>5

LEMMA ReportParts ==
  ASSUME NEW rs
  PROVE  /\ EdgeCaseReport(rs).passed = Cardinality({p \in DOMAIN rs : Passed(rs[p])})
         /\ EdgeCaseReport(rs).failed = Cardinality({p \in DOMAIN rs : ~Passed(rs[p])})
         /\ EdgeCaseReport(rs).timing = [p \in DOMAIN rs |-> Analysis(rs[p])]
         /\ EdgeCaseReport(rs).exception_count = [p \in DOMAIN rs |-> rs[p].exceptions]
         /\ EdgeCaseReport(rs).recommendations = Recommendations(rs)
BY DEF EdgeCaseReport

LEMMA AnomalyTypes ==
  ASSUME NEW report, NEW p
  PROVE  /\ [type |-> "timing_variance", severity |-> "HIGH"] \in Anomalies(report, p)
              <=> report.timing[p].variance_ns > THRESHOLD
         /\ (\A a \in Anomalies(report, p) : a.type # "exceptions") <=> ~(report.exception_count[p] > 0)
<1> DEFINE V == [type |-> "timing_variance", severity |-> "HIGH"]
           S == [type |-> "implementation_status", severity |-> "HIGH"]
           E(n) == [type |-> "exceptions", severity |-> IF n <= 2 THEN "MEDIUM" ELSE "HIGH"]
<1>1. V.type = "timing_variance" /\ S.type = "implementation_status" /\ \A n : E(n).type = "exceptions"
  OBVIOUS
<1>2. \A a : a \in Anomalies(report, p) <=>
        \/ a = V /\ report.timing[p].variance_ns > THRESHOLD
        \/ a = E(report.exception_count[p]) /\ report.exception_count[p] > 0
        \/ a = S
  BY DEF Anomalies
<1> HIDE DEF V, S, E
<1>3. V \in Anomalies(report, p) <=> report.timing[p].variance_ns > THRESHOLD
  BY <1>1, <1>2
<1>4. (\A a \in Anomalies(report, p) : a.type # "exceptions") <=> ~(report.exception_count[p] > 0)
  BY <1>1, <1>2
<1> QED BY <1>3, <1>4 DEF V

\* What is finite may be counted in the two parts a condition splits it into.
LEMMA PassedAndFailed ==
  ASSUME NEW rs, IsFiniteSet(DOMAIN rs)
  PROVE  EdgeCaseReport(rs).passed + EdgeCaseReport(rs).failed = Cardinality(DOMAIN rs)
<1> DEFINE P == {p \in DOMAIN rs : Passed(rs[p])}
           F == {p \in DOMAIN rs : ~Passed(rs[p])}
<1>1. P \cup F = DOMAIN rs /\ P \cap F = {} /\ P \subseteq DOMAIN rs /\ F \subseteq DOMAIN rs
  OBVIOUS
<1>2. EdgeCaseReport(rs).passed = Cardinality(P) /\ EdgeCaseReport(rs).failed = Cardinality(F)
  BY ReportParts
<1> HIDE DEF P, F
<1>3. IsFiniteSet(P) /\ IsFiniteSet(F)
  BY <1>1, FS_Subset
<1>4. Cardinality(P) \in Nat /\ Cardinality(F) \in Nat
  BY <1>3, FS_CardinalityType
<1>5. Cardinality(P \cup F) = Cardinality(P) + Cardinality(F) - Cardinality({})
  BY <1>1, <1>3, FS_Union
<1>6. Cardinality({}) = 0
  BY FS_EmptySet
<1> QED BY <1>1, <1>2, <1>4, <1>5, <1>6

LEMMA AskedFinite ==
  ASSUME FuzzInv, NEW f \in Families
  PROVE  IsFiniteSet(Asked(f))
<1> DEFINE names == job[f]
           n == Len(names)
<1>1. n \in Nat /\ DOMAIN names = 1..n
  BY FuzzAssumption DEF FuzzInv, Families
<1>2. IsFiniteSet(1..n)
  BY <1>1, FS_Interval
<1>3. [i \in 1..n |-> names[i]] \in Surjection(1..n, Asked(f))
  BY <1>1 DEF Asked, Surjection
<1> HIDE DEF n, names
<1> QED BY <1>2, <1>3, FS_Surjection

\* A constant implementation and a varying one differ by all of the larger.
LEMMA ConstantAndVarying ==
  ASSUME NEW ks, NEW ds, NEW k \in DOMAIN ks, NEW d \in DOMAIN ds,
         Variance(ks[k]) = 0, Variance(ds[d]) \in Nat, Variance(ds[d]) > 0
  PROVE  [kem |-> k, dsa |-> d, severity |-> "MEDIUM"]
           \in CrossAnomalies(EdgeCaseReport(ks), EdgeCaseReport(ds))
<1> DEFINE kem == EdgeCaseReport(ks)
           dsa == EdgeCaseReport(ds)
           Differ(v, w) == IF v > w THEN v - w ELSE w - v
           Larger(v, w) == IF v > w THEN v ELSE w
           Far(v, w, tenths) == 10 * Differ(v, w) > tenths * Larger(v, w)
           Apart(a, b, tenths) == Far(kem.timing[a].variance_ns, dsa.timing[b].variance_ns, tenths)
<1>1. /\ kem.timing[k].variance_ns = 0 /\ dsa.timing[d].variance_ns = Variance(ds[d])
      /\ k \in DOMAIN kem.timing /\ d \in DOMAIN dsa.timing
  <2>1. kem.timing = [p \in DOMAIN ks |-> Analysis(ks[p])] /\ dsa.timing = [p \in DOMAIN ds |-> Analysis(ds[p])]
    BY ReportParts
  <2>2. Analysis(ks[k]).variance_ns = Variance(ks[k]) /\ Analysis(ds[d]).variance_ns = Variance(ds[d])
    BY DEF Analysis
  <2> HIDE DEF kem, dsa
  <2> QED BY <2>1, <2>2
<1>2. Far(0, Variance(ds[d]), 5) /\ Far(0, Variance(ds[d]), 7)
  <2> DEFINE v == Variance(ds[d])
  <2>1. v \in Nat /\ v > 0
    OBVIOUS
  <2> HIDE DEF v
  <2>2. Differ(0, v) = v /\ Larger(0, v) = v
    BY <2>1
  <2>3. 10 * v > 5 * v /\ 10 * v > 7 * v
    BY <2>1
  <2> QED BY <2>2, <2>3 DEF v
<1> HIDE DEF Far
<1>3. Apart(k, d, 5) /\ Apart(k, d, 7)
  BY <1>1, <1>2
<1>4. CrossAnomalies(kem, dsa) =
        {[kem |-> x[1], dsa |-> x[2], severity |-> IF Apart(x[1], x[2], 7) THEN "MEDIUM" ELSE "LOW"]
         : x \in {x \in (DOMAIN kem.timing) \X (DOMAIN dsa.timing) : Apart(x[1], x[2], 5)}}
  BY DEF CrossAnomalies, Far
<1>5. <<k, d>> \in (DOMAIN kem.timing) \X (DOMAIN dsa.timing) /\ <<k, d>>[1] = k /\ <<k, d>>[2] = d
  BY <1>1
<1> HIDE DEF Apart
<1> QED BY <1>3, <1>4, <1>5

\* An account is marked when fewer than two calls returned.
LEMMA MarkerMeans ==
  ASSUME NEW r \in Account
  PROVE  Marker(r) # "none" <=> Len(r.timing_data) < 2
<1> DEFINE n == Len(r.timing_data)
<1>1. n \in Nat
  BY AccountParts
<1>2. /\ n = 0 => Marker(r) = "NoTimingData"
      /\ n = 1 => Marker(r) = "InsufficientTimingData"
      /\ n \notin {0, 1} => Marker(r) = "none"
  BY DEF Marker
<1> HIDE DEF n
<1>3. n = 0 \/ n = 1 \/ (n \notin {0, 1} /\ ~(n < 2))
  BY <1>1
<1>4. CASE n = 0
  <2>1. Marker(r) # "none" /\ n < 2
    BY <1>2, <1>4
  <2> QED BY <2>1 DEF n
<1>5. CASE n = 1
  <2>1. Marker(r) # "none" /\ n < 2
    BY <1>2, <1>5
  <2> QED BY <2>1 DEF n
<1>6. CASE n \notin {0, 1} /\ ~(n < 2)
  <2>1. Marker(r) = "none"
    BY <1>2, <1>6
  <2> QED BY <1>6, <2>1 DEF n
<1> QED BY <1>3, <1>4, <1>5, <1>6

\* The report of an account says what the account does.
LEMMA AccountReported ==
  ASSUME NEW rs, NEW p \in DOMAIN rs, rs[p] \in Account, Extremes(rs[p])
  PROVE  LET report == EdgeCaseReport(rs)
             varies == \E i, j \in DOMAIN rs[p].timing_data :
                         rs[p].timing_data[i] - rs[p].timing_data[j] > THRESHOLD
             marked == report.timing[p].error # "none"
         IN  /\ ~report.timing[p].safe <=> varies
             /\ marked <=> rs[p].exceptions >= Count(rs[p]) - 1
             /\ marked => report.timing[p].safe
             /\ varies <=> [type |-> "timing_variance", severity |-> "HIGH"] \in Anomalies(report, p)
             /\ varies => "High timing variance" \in report.recommendations
             /\ rs[p].exceptions = 0 <=> \A a \in Anomalies(report, p) : a.type # "exceptions"
<1> DEFINE report == EdgeCaseReport(rs)
           varies == \E i, j \in DOMAIN rs[p].timing_data :
                       rs[p].timing_data[i] - rs[p].timing_data[j] > THRESHOLD
<1>1. Variance(rs[p]) > THRESHOLD <=> varies
  BY VariesExceeds
<1>2. Variance(rs[p]) \in Nat /\ THRESHOLD \in Nat /\ rs[p].exceptions \in Nat
  BY VarianceOfAccount, AccountParts, FuzzAssumption
<1>3. /\ report.timing[p] = Analysis(rs[p])
      /\ report.exception_count[p] = rs[p].exceptions
      /\ report.recommendations = Recommendations(rs)
  <2>1. /\ report.timing = [q \in DOMAIN rs |-> Analysis(rs[q])]
        /\ report.exception_count = [q \in DOMAIN rs |-> rs[q].exceptions]
        /\ report.recommendations = Recommendations(rs)
    BY ReportParts
  <2> HIDE DEF report
  <2> QED BY <2>1
<1> HIDE DEF report, varies
<1>3a. /\ report.timing[p].variance_ns = Variance(rs[p])
       /\ report.timing[p].safe = Safe(rs[p])
       /\ report.timing[p].error = Marker(rs[p])
  BY <1>3 DEF Analysis
<1>4. ~report.timing[p].safe <=> varies
  <2>1. Safe(rs[p]) <=> ~(Variance(rs[p]) > THRESHOLD)
    BY <1>2 DEF Safe
  <2> QED BY <1>1, <1>3a, <2>1
<1>4a. report.timing[p].error # "none" <=> Len(rs[p].timing_data) < 2
  BY <1>3a, MarkerMeans
<1>4b. report.timing[p].error # "none" <=> rs[p].exceptions >= Count(rs[p]) - 1
  <2>1. Len(rs[p].timing_data) \in Nat /\ Count(rs[p]) = Len(rs[p].timing_data) + rs[p].exceptions
    BY AccountParts DEF Count
  <2> QED BY <1>2, <1>4a, <2>1
<1>4c. report.timing[p].error # "none" => report.timing[p].safe
  <2>1. Len(rs[p].timing_data) < 2 => Variance(rs[p]) = 0
    BY DEF Variance
  <2>2. Variance(rs[p]) = 0 => Safe(rs[p])
    BY <1>2 DEF Safe
  <2> QED BY <1>3a, <1>4a, <2>1, <2>2
<1>5. varies <=> [type |-> "timing_variance", severity |-> "HIGH"] \in Anomalies(report, p)
  BY <1>1, <1>3a, AnomalyTypes
<1>6. varies => "High timing variance" \in Recommendations(rs)
  BY <1>1 DEF Recommendations, Exceeds
<1>7. rs[p].exceptions = 0 <=> \A a \in Anomalies(report, p) : a.type # "exceptions"
  <2>1. rs[p].exceptions = 0 <=> ~(report.exception_count[p] > 0)
    BY <1>2, <1>3
  <2> QED BY <2>1, AnomalyTypes
<1> QED BY <1>3, <1>4, <1>4b, <1>4c, <1>5, <1>6, <1>7 DEF report, varies

\* Once a report is returned it accounts for every call of each parameter
\* set's last fuzzing (constant_time_fuzz, analyze_timing_variance,
\* generate_edge_case_report, _extract_anomalies), and marks those that could
\* not be assessed: whatever the jobs, the times the calls take and which of
\* them raise.
THEOREM ReportsAreAccounts == FuzzSpec => []ReportsAccount
<1>1. FuzzInv => ReportsAccount
  <2> SUFFICES ASSUME FuzzInv, outcome = "returned" PROVE ReportsAccount
    BY DEF ReportsAccount
  <2>1. todo = <<>> /\ Len(todo) = 0
    BY DEF FuzzInv
  <2>2. ASSUME NEW f \in Families
        PROVE  /\ DOMAIN results[f] = Asked(f)
               /\ \A p \in DOMAIN results[f] : /\ results[f][p] \in Account
                                               /\ Count(results[f][p]) = job.iterations
                                               /\ Extremes(results[f][p])
    <3>1. FamilyInv(f)
      BY DEF FuzzInv
    <3>2. ~ \E i \in 1..Len(todo) : TRUE
      BY <2>1
    <3> QED BY <3>1, <3>2 DEF FamilyInv
  <2>3. ASSUME NEW f \in Families
        PROVE  ReportOf(f).passed + ReportOf(f).failed = Cardinality({job[f][i] : i \in DOMAIN job[f]})
    <3>1. IsFiniteSet(DOMAIN results[f])
      BY <2>2, AskedFinite
    <3>2. ReportOf(f).passed + ReportOf(f).failed = Cardinality(DOMAIN results[f])
      BY <3>1, PassedAndFailed DEF ReportOf
    <3> QED BY <2>2, <3>2 DEF Asked
  <2>4. ASSUME NEW f \in Families, NEW p \in DOMAIN results[f]
        PROVE  LET rs == results[f]
                   report == ReportOf(f)
                   varies == \E i, j \in DOMAIN rs[p].timing_data :
                               rs[p].timing_data[i] - rs[p].timing_data[j] > THRESHOLD
                   marked == report.timing[p].error # "none"
               IN  /\ Count(rs[p]) = job.iterations
                   /\ ~report.timing[p].safe <=> varies
                   /\ marked <=> rs[p].exceptions >= job.iterations - 1
                   /\ marked => report.timing[p].safe
                   /\ varies <=> [type |-> "timing_variance", severity |-> "HIGH"] \in Anomalies(report, p)
                   /\ varies => "High timing variance" \in report.recommendations
                   /\ rs[p].exceptions = 0 <=> \A a \in Anomalies(report, p) : a.type # "exceptions"
    BY <2>2, <2>4, AccountReported DEF ReportOf
  <2>5. ASSUME NEW k \in DOMAIN results["kem"], NEW d \in DOMAIN results["dsa"],
               Cardinality(Times(results["kem"][k])) < 2, Cardinality(Times(results["dsa"][d])) > 1
        PROVE  [kem |-> k, dsa |-> d, severity |-> "MEDIUM"] \in CrossAnomalies(ReportOf("kem"), ReportOf("dsa"))
    <3> DEFINE a == results["kem"][k]
               b == results["dsa"][d]
    <3>1. a \in Account /\ Extremes(a) /\ b \in Account /\ Extremes(b)
      BY <2>2 DEF Families
    <3> HIDE DEF a, b
    <3>2. Variance(a) \in Nat /\ Variance(b) \in Nat
      BY <3>1, VarianceOfAccount
    <3>3. Cardinality(Times(a)) \in Nat
      BY <3>1, TimesFinite, FS_CardinalityType
    <3>4. Variance(a) = 0 /\ Variance(b) > 0
      <4>1. ~(Cardinality(Times(a)) > 1) /\ Cardinality(Times(b)) > 1
        BY <2>5, <3>3 DEF a, b
      <4>2. ~(Variance(a) > 0) /\ Variance(b) > 0
        BY <3>1, <4>1, VarianceOfTimes
      <4> QED BY <3>2, <4>2
    <3> QED BY <3>2, <3>4, ConstantAndVarying DEF a, b, ReportOf
  <2> QED BY <2>3, <2>4, <2>5 DEF ReportsAccount
<1> QED BY <1>1, FuzzAlways, PTL

-----------------------------------------------------------------------------
(* The leaderboard.  A finite set with a total strict order has a sorted   *)
(* sequence; the ranks down a sequence of falling scores count the better  *)
(* ones.                                                                   *)

InOrder(s, n, R) == \A p, q \in 1..n : p < q => <<s[p], s[q]>> \in R

\* An element goes before the first that it precedes.
LEMMA Inserted ==
  ASSUME NEW R, NEW T, NEW x \in T, NEW m \in Nat \ {0}, NEW f \in [1..m - 1 -> T \ {x}],
         InOrder(f, m - 1, R),
         \A a, b, c \in T : <<a, b>> \in R /\ <<b, c>> \in R => <<a, c>> \in R,
         \A a, b \in T : a # b => <<a, b>> \in R \/ <<b, a>> \in R
  PROVE  \E g \in [1..m -> T] : InOrder(g, m, R)
<1> DEFINE After == {k \in 1..m - 1 : <<x, f[k]>> \in R} \cup {m}
<1>1. PICK p \in After : \A k \in After : p <= k
  <2>1. (\A k \in After : k \in Nat) /\ m \in After
    OBVIOUS
  <2>2. After \in SUBSET Nat /\ After # {}
    BY <2>1
  <2> HIDE DEF After
  <2> QED BY <2>2, LeastOf
<1>2. /\ p \in 1..m
      /\ \A k \in 1..m - 1 : k < p => <<f[k], x>> \in R
      /\ p < m => <<x, f[p]>> \in R
  <2>1. \A k \in 1..m - 1 : f[k] \in T /\ f[k] # x
    OBVIOUS
  <2>2. \A k \in 1..m - 1 : k < p => <<x, f[k]>> \notin R
    BY <1>1
  <2>3. p = m \/ (p \in 1..m - 1 /\ <<x, f[p]>> \in R)
    OBVIOUS
  <2>4. p \in 1..m /\ (p < m => <<x, f[p]>> \in R)
    BY <2>3
  <2> QED BY <2>1, <2>2, <2>4
<1> HIDE DEF After
<1> DEFINE g == [k \in 1..m |-> IF k < p THEN f[k] ELSE IF k = p THEN x ELSE f[k - 1]]
<1>3. \A k \in 1..m : /\ k < p => k \in 1..m - 1 /\ g[k] = f[k]
                      /\ k = p => g[k] = x
                      /\ k > p => k - 1 \in 1..m - 1 /\ p <= k - 1 /\ g[k] = f[k - 1]
  BY <1>2
<1>4. g \in [1..m -> T]
  <2>1. \A k \in 1..m : g[k] \in T
    BY <1>2, <1>3
  <2> QED BY <2>1
<1> HIDE DEF g
<1>5. ASSUME NEW k \in 1..m, NEW l \in 1..m, k < l
      PROVE  <<g[k], g[l]>> \in R
  <2>1. CASE l < p
    BY <1>2, <1>3, <1>5, <2>1 DEF InOrder
  <2>2. CASE l = p
    BY <1>2, <1>3, <1>5, <2>2
  <2>3. CASE l > p /\ k < p
    <3>1. k < l - 1
      BY <1>2, <2>3
    <3> QED BY <1>3, <2>3, <3>1 DEF InOrder
  <2>4. CASE l > p /\ k = p
    <3>1. p < m /\ <<x, f[p]>> \in R /\ p \in 1..m - 1 /\ f[p] \in T
      BY <1>2, <2>4
    <3>2. l - 1 \in 1..m - 1 /\ g[l] = f[l - 1] /\ g[k] = x /\ f[l - 1] \in T /\ p <= l - 1
      BY <1>3, <2>4
    <3>3. p = l - 1 \/ <<f[p], f[l - 1]>> \in R
      BY <1>2, <3>1, <3>2 DEF InOrder
    <3> QED BY <3>1, <3>2, <3>3, SMTT(30)
  <2>5. CASE k > p
    <3>1. l > p /\ k - 1 < l - 1
      BY <1>2, <1>5, <2>5
    <3>2. /\ k - 1 \in 1..m - 1 /\ g[k] = f[k - 1]
          /\ l - 1 \in 1..m - 1 /\ g[l] = f[l - 1]
      BY <1>3, <2>5, <3>1
    <3> QED BY <3>1, <3>2 DEF InOrder
  <2> QED BY <1>2, <1>5, <2>1, <2>2, <2>3, <2>4, <2>5
<1>6. InOrder(g, m, R)
  BY <1>5 DEF InOrder
<1> QED BY <1>4, <1>6

LEMMA SortedExists ==
  ASSUME NEW S, IsFiniteSet(S), NEW R,
         \A a, b, c \in S : <<a, b>> \in R /\ <<b, c>> \in R => <<a, c>> \in R,
         \A a, b \in S : a # b => <<a, b>> \in R \/ <<b, a>> \in R
  PROVE  \E s \in [1..Cardinality(S) -> S] : InOrder(s, Cardinality(S), R)
<1> DEFINE Can(T) == \E s \in [1..Cardinality(T) -> T] : InOrder(s, Cardinality(T), R)
           Bad == {n \in Nat : \E T \in SUBSET S : Cardinality(T) = n /\ ~Can(T)}
<1> SUFFICES ASSUME ~Can(S) PROVE FALSE
  OBVIOUS
<1>1. Cardinality(S) \in Bad
  BY FS_CardinalityType
<1>2. PICK m \in Bad : \A n \in Bad : m <= n
  <2>1. Bad \in SUBSET Nat /\ Bad # {}
    BY <1>1
  <2> HIDE DEF Bad
  <2> QED BY <2>1, LeastOf
<1>3. PICK T \in SUBSET S : Cardinality(T) = m /\ ~Can(T)
  OBVIOUS
<1>4. m \in Nat /\ IsFiniteSet(T)
  BY FS_Subset
<1>5. T # {}
  <2> SUFFICES ASSUME T = {} PROVE FALSE
    OBVIOUS
  <2>1. m = 0
    BY <1>3, FS_EmptySet
  <2>2. [k \in 1..0 |-> k] \in [1..0 -> T]
    OBVIOUS
  <2>3. InOrder([k \in 1..0 |-> k], 0, R)
    BY DEF InOrder
  <2>4. Can(T)
    BY <1>3, <2>1, <2>2, <2>3
  <2> QED BY <1>3, <2>4
<1>6. PICK x \in T : TRUE
  BY <1>5
<1>7. IsFiniteSet(T \ {x}) /\ Cardinality(T \ {x}) = m - 1
  BY <1>3, <1>4, FS_RemoveElement
<1>8. m - 1 \in Nat
  BY <1>7, FS_CardinalityType
<1>9. Can(T \ {x})
  <2>1. m - 1 \notin Bad
    BY <1>2, <1>4, <1>8
  <2> QED BY <1>7, <1>8, <2>1
<1>10. PICK f \in [1..m - 1 -> T \ {x}] : InOrder(f, m - 1, R)
  BY <1>7, <1>9
<1>11. \E g \in [1..m -> T] : InOrder(g, m, R)
  <2>1. m \in Nat \ {0}
    BY <1>4, <1>8
  <2>2. /\ \A a, b, c \in T : <<a, b>> \in R /\ <<b, c>> \in R => <<a, c>> \in R
        /\ \A a, b \in T : a # b => <<a, b>> \in R \/ <<b, a>> \in R
    OBVIOUS
  <2> HIDE DEF Can, Bad
  <2> QED BY <1>10, <2>1, <2>2, Inserted
<1> QED BY <1>3, <1>11

\* f is the ranks of the first n rows.
Ranked(o, n, f) == f = [p \in 0..n |-> IF p = 0 THEN 0
                                      ELSE NextRank(f[p - 1], p, p = 1 \/ ~Same(o[p], o[p - 1]))]

LEMMA RankedExists ==
  ASSUME NEW o, NEW n \in Nat
  PROVE  \E f : Ranked(o, n, f)
<1> DEFINE Without == {k \in Nat : ~ \E f : Ranked(o, k, f)}
<1> SUFFICES ASSUME Without # {} PROVE FALSE
  OBVIOUS
<1>1. PICK m \in Without : \A k \in Without : m <= k
  BY LeastOf
<1>2. m # 0
  <2> DEFINE f == [p \in 0..0 |-> 0]
  <2>1. Ranked(o, 0, f)
    BY DEF Ranked
  <2> QED BY <2>1
<1>3. m - 1 \in Nat /\ m \in Nat /\ m - 1 \notin Without
  BY <1>1, <1>2
<1>4. PICK f : Ranked(o, m - 1, f)
  BY <1>3
<1> DEFINE new(p) == p = 1 \/ ~Same(o[p], o[p - 1])
           g == [p \in 0..m |-> IF p = m THEN NextRank(f[m - 1], m, new(m)) ELSE f[p]]
<1>5. ASSUME NEW p \in 0..m
      PROVE  g[p] = IF p = 0 THEN 0 ELSE NextRank(g[p - 1], p, new(p))
  <2>1. CASE p = m
    <3>1. m - 1 \in 0..m /\ m - 1 # m
      BY <1>3
    <3>2. g[m - 1] = f[m - 1]
      BY <3>1
    <3> QED BY <1>2, <2>1, <3>2
  <2>2. CASE p # m
    <3>1. p \in 0..m - 1
      BY <1>3, <2>2
    <3>2. f[p] = IF p = 0 THEN 0 ELSE NextRank(f[p - 1], p, new(p))
      BY <1>4, <3>1 DEF Ranked
    <3>3. g[p] = f[p] /\ (p # 0 => g[p - 1] = f[p - 1])
      BY <1>3, <2>2, <3>1
    <3> QED BY <3>2, <3>3
  <2> QED BY <2>1, <2>2
<1>6. Ranked(o, m, g)
  BY <1>5 DEF Ranked
<1> QED BY <1>1, <1>6

\* The rank is the position of the first row with the same score.
LEMMA RanksAreFirst ==
  ASSUME NEW n \in Nat, NEW c \in [1..n -> Nat], \A p, q \in 1..n : p < q => c[p] >= c[q],
         NEW rank, \A p \in 1..n : rank[p] = IF p = 1 \/ c[p] # c[p - 1] THEN p ELSE rank[p - 1]
  PROVE  \A p \in 1..n : rank[p] \in 1..p /\ \A q \in 1..n : q < rank[p] <=> c[q] > c[p]
<1> DEFINE First(p) == rank[p] \in 1..p /\ \A q \in 1..n : q < rank[p] <=> c[q] > c[p]
           Bad == {p \in 1..n : ~First(p)}
<1> SUFFICES ASSUME Bad # {} PROVE FALSE
  OBVIOUS
<1>1. PICK p \in Bad : \A q \in Bad : p <= q
  <2>1. Bad \in SUBSET Nat
    OBVIOUS
  <2> QED BY <2>1, LeastOf
<1>2. p \in 1..n /\ rank[p] = (IF p = 1 \/ c[p] # c[p - 1] THEN p ELSE rank[p - 1]) /\ \A q \in 1..n : c[q] \in Nat
  OBVIOUS
<1>3. CASE p = 1
  <2>1. \A q \in 1..n : ~(q < 1) /\ ~(c[q] > c[1])
    BY <1>2, <1>3
  <2> QED BY <1>2, <1>3, <2>1
<1>4. CASE p # 1
  <2>1. p - 1 \in 1..n /\ p - 1 \notin Bad
    BY <1>1, <1>2, <1>4, SMTT(30)
  <2>2. First(p - 1)
    BY <2>1
  <2>3. CASE c[p] = c[p - 1]
    <3>1. rank[p] = rank[p - 1]
      BY <1>2, <1>4, <2>3
    <3>2. First(p)
      BY <1>2, <2>1, <2>2, <2>3, <3>1
    <3> QED BY <3>2
  <2>4. CASE c[p] # c[p - 1]
    <3>1. rank[p] = p
      BY <1>2, <2>4
    <3>2. c[p - 1] > c[p]
      <4>1. p - 1 < p
        BY <1>2
      <4>2. c[p - 1] >= c[p]
        BY <1>2, <2>1, <4>1
      <4> QED BY <1>2, <2>1, <2>4, <4>2
    <3>3. ASSUME NEW q \in 1..n PROVE q < p <=> c[q] > c[p]
      <4>1. CASE q < p
        <5>1. q = p - 1 \/ q < p - 1
          BY <1>2, <4>1
        <5>2. c[q] >= c[p - 1]
          BY <1>2, <2>1, <5>1
        <5> QED BY <1>2, <2>1, <3>2, <4>1, <5>2
      <4>2. CASE ~(q < p)
        <5>1. q = p \/ p < q
          BY <1>2, <4>2
        <5>2. c[p] >= c[q]
          BY <1>2, <5>1
        <5> QED BY <1>2, <4>2, <5>2
      <4> QED BY <4>1, <4>2
    <3>4. First(p)
      BY <1>2, <3>1, <3>3, SMTT(30)
    <3> QED BY <3>4
  <2> QED BY <2>3, <2>4
<1> QED BY <1>3, <1>4

Scored(r) == /\ r.model_id \in Nat /\ r.predictions \in Seq(Nat) /\ r.split.targets \in Seq(Nat)
             /\ ValidResult(r)

LEMMA CorrectIsNat ==
  ASSUME NEW r, Scored(r)
  PROVE  Correct(r) \in Nat /\ Len(r.predictions) \in Nat /\ Len(r.predictions) > 0
<1> DEFINE t == r.predictions
           hits == {k \in DOMAIN t : t[k] = r.split.targets[k]}
<1>1. t \in Seq(Nat) /\ Len(t) = Len(r.split.targets) /\ Len(r.split.targets) \in 3..256
  BY DEF Scored, ValidResult, ValidSplit
<1>2. Correct(r) = Cardinality(hits) /\ hits \in SUBSET DOMAIN t
  BY DEF Correct
<1> HIDE DEF hits
<1>3. IsFiniteSet(1..Len(t)) /\ DOMAIN t = 1..Len(t)
  BY <1>1, FS_Interval
<1>4. IsFiniteSet(hits)
  BY <1>2, <1>3, FS_Subset
<1>5. Cardinality(hits) \in Nat
  BY <1>4, FS_CardinalityType
<1>6. Len(t) \in Nat /\ Len(t) > 0
  <2>1. \A k \in 3..256 : k \in Nat /\ k > 0
    OBVIOUS
  <2> HIDE DEF t
  <2> QED BY <1>1, <2>1
<1> QED BY <1>2, <1>5, <1>6

\* Results of one split are ordered by their correct predictions, then names.
Outranks(r, s) == Correct(r) > Correct(s) \/ (Correct(r) = Correct(s) /\ r.model_id < s.model_id)

LEMMA BeforeOutranks ==
  ASSUME NEW r, NEW s, Scored(r), Scored(s), r.split = s.split
  PROVE  /\ Better(r, s) <=> Correct(r) > Correct(s)
         /\ Same(r, s) <=> Correct(r) = Correct(s)
         /\ Before(r, s) <=> Outranks(r, s)
<1> DEFINE a == Correct(r)
           b == Correct(s)
           l == Len(r.predictions)
<1>1. a \in Nat /\ b \in Nat /\ l \in Nat /\ l > 0
  BY CorrectIsNat
<1>2. Len(s.predictions) = l
  BY DEF Scored, ValidResult
<1>3. /\ Better(r, s) <=> a * l > b * l
      /\ Better(s, r) <=> b * l > a * l
  BY <1>2 DEF Better
<1> HIDE DEF a, b, l
<1>4. \A x, y \in Nat : x > y <=> x * l > y * l
  BY <1>1
<1>5. (Better(r, s) <=> a > b) /\ (Better(s, r) <=> b > a)
  BY <1>1, <1>3, <1>4
<1> QED BY <1>1, <1>5 DEF Same, Before, Outranks, a, b

\* What the property says of row p of a board b, and of the board.
RowOf(b, p, i) ==
  LET row == b.rows[p]
      r == b.results[i]
  IN /\ r.model_id = row.model_id /\ row.correct = Correct(r)
     /\ row.rank = 1 + Cardinality({j \in DOMAIN b.results : Correct(b.results[j]) > Correct(r)})
     /\ \A q \in 1..p - 1 : /\ b.rows[q].rank <= row.rank
                            /\ b.rows[q].rank = row.rank => b.rows[q].model_id < row.model_id
Competition(b) ==
  /\ Len(b.rows) = Len(b.results)
  /\ \A p \in DOMAIN b.rows : \E i \in DOMAIN b.results : RowOf(b, p, i)
  /\ Len(b.rows) <= MAX_RESULTS
  /\ \A i, j \in DOMAIN b.results : /\ b.results[i].split = b.results[j].split
                                    /\ b.results[i].training_status = b.results[j].training_status

\* A board has every result once, sorted, and ranks count the better ones.
LEMMA BoardRanked ==
  ASSUME NEW given, NEW n \in Nat, DOMAIN given = 1..n, Len(given) = n,
         \A k \in 1..n : Scored(given[k]), Comparable(given),
         NEW b, b = BuildLeaderboard(given)
  PROVE  Competition(b)
<1> DEFINE S == Range(given)
           R == {x \in S \X S : Before(x[1], x[2])}
           o == Sorted(S)
<1>1. /\ S = {given[k] : k \in 1..n}
      /\ \A r \in S : Scored(r) /\ Correct(r) \in Nat /\ r.model_id \in Nat
      /\ \A r, s \in S : r.split = s.split
      /\ \A k, l \in 1..n : k # l => given[k].model_id # given[l].model_id
  <2>1. S = {given[k] : k \in 1..n}
    BY DEF Range
  <2>2. \A r \in S : Scored(r)
    BY <2>1
  <2>3. \A r \in S : Correct(r) \in Nat /\ r.model_id \in Nat
    BY <2>2, CorrectIsNat DEF Scored
  <2>4. /\ \A k, l \in 1..n : given[k].split = given[l].split
        /\ \A k, l \in 1..n : k # l => given[k].model_id # given[l].model_id
    BY DEF Comparable
  <2> HIDE DEF S
  <2> QED BY <2>1, <2>2, <2>3, <2>4
<1>2. IsFiniteSet(S) /\ Cardinality(S) = n
  <2> DEFINE id == [k \in 1..n |-> given[k]]
  <2>1. id \in Surjection(1..n, S) /\ id \in Injection(1..n, S)
    BY <1>1 DEF Surjection, Injection, IsInjective
  <2>2. IsFiniteSet(1..n) /\ Cardinality(1..n) = n
    BY FS_Interval
  <2> HIDE DEF id, S
  <2> QED BY <2>1, <2>2, FS_Surjection
<1>3. /\ \A r, s \in S : /\ Same(r, s) <=> Correct(r) = Correct(s)
                         /\ <<r, s>> \in R <=> Outranks(r, s)
      /\ \A r, s \in S : Before(r, s) <=> Outranks(r, s)
      /\ \A r, s \in S : r.model_id = s.model_id => r = s
  <2>1. \A r, s \in S : Before(r, s) <=> <<r, s>> \in R
    OBVIOUS
  <2> HIDE DEF R
  <2> QED BY <1>1, <2>1, BeforeOutranks, SMTT(30)
<1> HIDE DEF S, R
<1> DEFINE score == [r \in S |-> Correct(r)]
<1>3a. /\ \A r \in S : score[r] \in Nat /\ score[r] = Correct(r) /\ r.model_id \in Nat
       /\ \A r, s \in S : Outranks(r, s) <=>
            score[r] > score[s] \/ (score[r] = score[s] /\ r.model_id < s.model_id)
  BY <1>1 DEF Outranks
<1> HIDE DEF score
<1>3b. /\ \A r \in S : ~Outranks(r, r)
       /\ \A r, s, t \in S : Outranks(r, s) /\ Outranks(s, t) => Outranks(r, t)
       /\ \A r, s \in S : r # s => Outranks(r, s) \/ Outranks(s, r)
  <2>1. \A r, s \in S : score[r] = score[s] /\ r # s => r.model_id < s.model_id \/ s.model_id < r.model_id
    BY <1>3, <1>3a
  <2> QED BY <1>3a, <2>1
<1>4. PICK s \in [1..n -> S] : InOrder(s, n, R)
  <2>1. \A r, s, t \in S : <<r, s>> \in R /\ <<s, t>> \in R => <<r, t>> \in R
    BY <1>3, <1>3b
  <2>2. \A r, s \in S : r # s => <<r, s>> \in R \/ <<s, r>> \in R
    BY <1>3, <1>3b
  <2> QED BY <1>2, <2>1, <2>2, SortedExists, SMTT(30)
<1>5. o \in [1..n -> S] /\ \A p, q \in 1..n : p < q => Outranks(o[p], o[q])
  <2> DEFINE P(f) == \A p, q \in DOMAIN f : p < q => Before(f[p], f[q])
  <2>1. o = CHOOSE f \in [1..n -> S] : P(f)
    BY <1>2 DEF Sorted
  <2>2. P(s)
    BY <1>3, <1>4 DEF InOrder
  <2> HIDE DEF o
  <2>3. o \in [1..n -> S] /\ P(o)
    BY <1>4, <2>1, <2>2
  <2> QED BY <1>3, <2>3
<1> HIDE DEF o
<1>6. DOMAIN o = 1..n /\ Len(o) = n /\ \A p \in 1..n : o[p] \in S
  BY <1>5
<1>7. \A r \in S : \E p \in 1..n : o[p] = r
  <2>1. o \in Injection(1..n, S)
    <3>1. ASSUME NEW p \in 1..n, NEW q \in 1..n, p # q PROVE o[p] # o[q]
      <4>1. p < q \/ q < p
        BY <3>1
      <4>2. Outranks(o[p], o[q]) \/ Outranks(o[q], o[p])
        BY <1>5, <4>1
      <4> QED BY <1>3b, <1>6, <4>2
    <3> QED BY <1>5, <3>1 DEF Injection, IsInjective
  <2>2. IsFiniteSet(1..n) /\ Cardinality(1..n) = n
    BY FS_Interval
  <2>3. o \in Surjection(1..n, S)
    BY <1>2, <2>1, <2>2, FS_Injection
  <2> QED BY <2>3 DEF Surjection
<1> DEFINE rank == CHOOSE f : Ranked(o, n, f)
           c == [p \in 1..n |-> Correct(o[p])]
<1>8. \A p \in 1..n : rank[p] = IF p = 1 \/ c[p] # c[p - 1] THEN p ELSE rank[p - 1]
  <2>1. Ranked(o, n, rank)
    BY RankedExists
  <2> HIDE DEF rank
  <2>2. \A p \in 1..n : rank[p] = IF p = 1 \/ ~Same(o[p], o[p - 1]) THEN p ELSE rank[p - 1]
    BY <2>1 DEF Ranked, NextRank
  <2>3. ASSUME NEW p \in 1..n, p # 1 PROVE Same(o[p], o[p - 1]) <=> c[p] = c[p - 1]
    <3>1. p - 1 \in 1..n
      BY <2>3
    <3>2. o[p] \in S /\ o[p - 1] \in S
      BY <1>6, <3>1
    <3>3. c[p] = Correct(o[p]) /\ c[p - 1] = Correct(o[p - 1])
      BY <3>1
    <3>4. Same(o[p], o[p - 1]) <=> Correct(o[p]) = Correct(o[p - 1])
      BY <1>3, <3>2, ZenonT(60)
    <3> QED BY <3>3, <3>4
  <2> QED BY <2>2, <2>3
<1>9. Ranks(o) = [p \in 1..n |-> rank[p]]
  BY <1>6 DEF Ranks, Ranked
<1> HIDE DEF rank
<1>10. c \in [1..n -> Nat] /\ (\A p, q \in 1..n : p < q => c[p] >= c[q]) /\ \A p \in 1..n : c[p] = Correct(o[p])
  <2>1. \A p \in 1..n : c[p] = Correct(o[p]) /\ c[p] = score[o[p]] /\ c[p] \in Nat
    BY <1>3a, <1>6
  <2>2. c \in [1..n -> Nat]
    BY <2>1
  <2> HIDE DEF c
  <2>3. ASSUME NEW p \in 1..n, NEW q \in 1..n, p < q PROVE c[p] >= c[q]
    <3>1. o[p] \in S /\ o[q] \in S /\ Outranks(o[p], o[q])
      BY <1>5, <1>6, <2>3
    <3>2. score[o[p]] \in Nat /\ score[o[q]] \in Nat /\ (score[o[p]] > score[o[q]] \/ score[o[p]] = score[o[q]])
      BY <1>3a, <3>1
    <3> QED BY <2>1, <3>2
  <2> QED BY <2>1, <2>2, <2>3
<1> HIDE DEF c
<1>11. \A p \in 1..n : rank[p] \in 1..p /\ \A q \in 1..n : q < rank[p] <=> c[q] > c[p]
  BY <1>8, <1>10, RanksAreFirst, ZenonT(60)
<1> DEFINE rows == [p \in 1..n |-> [rank |-> rank[p], model_id |-> o[p].model_id, correct |-> Correct(o[p])]]
<1>12. b.results = given /\ b.rows = rows
  <2> DEFINE ranks == Ranks(o)
  <2>1. b = [made |-> "board", results |-> given,
             rows |-> [p \in DOMAIN o |-> [rank |-> ranks[p], model_id |-> o[p].model_id, correct |-> Correct(o[p])]]]
    BY DEF BuildLeaderboard, o, S
  <2>2. b.results = given
        /\ b.rows = [p \in DOMAIN o |-> [rank |-> ranks[p], model_id |-> o[p].model_id, correct |-> Correct(o[p])]]
    BY <2>1
  <2>3. DOMAIN o = 1..n /\ \A p \in 1..n : ranks[p] = rank[p]
    BY <1>6, <1>9
  <2> HIDE DEF ranks
  <2> QED BY <2>2, <2>3
<1>13. /\ DOMAIN rows = 1..n /\ Len(rows) = n
       /\ \A p \in 1..n : rows[p].rank = rank[p] /\ rows[p].model_id = o[p].model_id /\ rows[p].correct = c[p]
  BY <1>10
<1> HIDE DEF rows
<1>14. ASSUME NEW p \in 1..n
       PROVE  rank[p] = 1 + Cardinality({j \in 1..n : Correct(given[j]) > c[p]})
  <2> DEFINE better == {j \in 1..n : Correct(given[j]) > c[p]}
             at == [q \in 1..rank[p] - 1 |-> CHOOSE j \in 1..n : given[j] = o[q]]
  <2>1. rank[p] \in 1..n /\ \A q \in 1..rank[p] - 1 : q \in 1..n /\ c[q] > c[p]
    BY <1>11
  <2>2. \A q \in 1..rank[p] - 1 : at[q] \in 1..n /\ given[at[q]] = o[q]
    <3>1. \A q \in 1..rank[p] - 1 : \E j \in 1..n : given[j] = o[q]
      BY <1>1, <1>6, <2>1
    <3> QED BY <3>1
  <2>3. \A q \in 1..rank[p] - 1 : at[q] \in better
    <3> SUFFICES ASSUME NEW q \in 1..rank[p] - 1 PROVE at[q] \in better
      OBVIOUS
    <3>1. at[q] \in 1..n /\ given[at[q]] = o[q] /\ q \in 1..n /\ c[q] > c[p]
      BY <2>1, <2>2
    <3>2. Correct(given[at[q]]) = c[q]
      BY <1>10, <3>1
    <3> QED BY <3>1, <3>2
  <2>4. \A j \in better : \E q \in 1..rank[p] - 1 : at[q] = j
    <3> SUFFICES ASSUME NEW j \in better PROVE \E q \in 1..rank[p] - 1 : at[q] = j
      OBVIOUS
    <3>1. PICK q \in 1..n : o[q] = given[j]
      BY <1>1, <1>7
    <3>2. q \in 1..rank[p] - 1
      <4>1. c[q] > c[p]
        BY <1>10, <3>1
      <4>2. q < rank[p]
        BY <1>11, <4>1
      <4> QED BY <2>1, <4>2
    <3>3. at[q] \in 1..n /\ given[at[q]] = given[j]
      BY <2>2, <3>1, <3>2
    <3>4. at[q] = j
      BY <1>1, <3>3
    <3> QED BY <3>2, <3>4
  <2>5. at \in Surjection(1..rank[p] - 1, better)
    <3>1. at \in [1..rank[p] - 1 -> better]
      BY <2>3
    <3> QED BY <2>4, <3>1 DEF Surjection
  <2>6. at \in Injection(1..rank[p] - 1, better)
    <3>1. at \in [1..rank[p] - 1 -> better]
      BY <2>3
    <3>2. ASSUME NEW q \in 1..rank[p] - 1, NEW k \in 1..rank[p] - 1, at[q] = at[k] PROVE q = k
      <4>1. o[q] = o[k] /\ q \in 1..n /\ k \in 1..n
        BY <2>1, <2>2, <3>2
      <4>2. ~Outranks(o[q], o[k]) /\ ~Outranks(o[k], o[q])
        BY <1>3b, <1>6, <4>1
      <4> QED BY <1>5, <4>1, <4>2
    <3> QED BY <3>1, <3>2 DEF Injection, IsInjective
  <2>7. IsFiniteSet(1..rank[p] - 1) /\ Cardinality(1..rank[p] - 1) = rank[p] - 1
    <3>1. \A k \in Nat : IsFiniteSet(1..k) /\ Cardinality(1..k) = k
      BY FS_Interval
    <3>2. rank[p] - 1 \in Nat
      BY <2>1
    <3> QED BY <3>1, <3>2
  <2> HIDE DEF better, at
  <2>8. Cardinality(better) = rank[p] - 1
    BY <2>5, <2>6, <2>7, FS_Surjection
  <2> QED BY <2>1, <2>8 DEF better
<1>15. ASSUME NEW p \in 1..n, NEW q \in 1..p - 1
       PROVE  rank[q] <= rank[p] /\ (rank[q] = rank[p] => o[q].model_id < o[p].model_id)
  <2>1. q \in 1..n /\ q < p /\ Outranks(o[q], o[p])
    BY <1>5
  <2>2. rank[p] \in 1..n /\ rank[q] \in 1..q
    BY <1>11, <2>1
  <2>3. CASE c[q] > c[p]
    BY <1>11, <2>1, <2>2, <2>3
  <2>4. CASE ~(c[q] > c[p])
    <3>1. c[q] = c[p] /\ o[q].model_id < o[p].model_id
      BY <1>10, <2>1, <2>4 DEF Outranks
    <3>2. ~(rank[p] < rank[q])
      <4> SUFFICES ASSUME rank[p] < rank[q] PROVE FALSE
        OBVIOUS
      <4>1. c[rank[p]] > c[q]
        BY <1>11, <2>1, <2>2
      <4>2. c[rank[p]] > c[p]
        BY <3>1, <4>1
      <4>3. rank[p] < rank[p]
        BY <1>11, <2>2, <4>2
      <4> QED BY <2>2, <4>3
    <3> QED BY <2>2, <3>1, <3>2
  <2> QED BY <2>3, <2>4
<1>16. ASSUME NEW p \in 1..n PROVE \E k \in 1..n : RowOf(b, p, k)
  <2>1. PICK k \in 1..n : given[k] = o[p]
    BY <1>1, <1>6
  <2>2. Correct(given[k]) = c[p]
    BY <1>10, <2>1
  <2>3. \A q \in 1..p - 1 : q \in 1..n
    OBVIOUS
  <2>4. {j \in 1..n : Correct(given[j]) > c[p]} = {j \in DOMAIN b.results : Correct(b.results[j]) > Correct(b.results[k])}
    BY <1>12, <2>2
  <2>5. rank[p] = 1 + Cardinality({j \in DOMAIN b.results : Correct(b.results[j]) > Correct(b.results[k])})
    BY <1>14, <2>4
  <2>6. b.results[k].model_id = b.rows[p].model_id /\ b.rows[p].correct = Correct(b.results[k]) /\ b.rows[p].rank = rank[p]
    BY <1>12, <1>13, <2>1, <2>2
  <2>7. \A q \in 1..p - 1 : /\ b.rows[q].rank <= b.rows[p].rank
                            /\ b.rows[q].rank = b.rows[p].rank => b.rows[q].model_id < b.rows[p].model_id
    BY <1>12, <1>13, <1>15, <2>3
  <2> QED BY <2>5, <2>6, <2>7 DEF RowOf
<1>17. \A k, l \in DOMAIN b.results : /\ b.results[k].split = b.results[l].split
                                       /\ b.results[k].training_status = b.results[l].training_status
  BY <1>12 DEF Comparable
<1>18. Len(b.rows) = Len(b.results) /\ DOMAIN b.rows = 1..n /\ DOMAIN b.results = 1..n
       /\ Len(b.rows) <= MAX_RESULTS
  BY <1>12, <1>13 DEF Comparable
<1> QED BY <1>16, <1>17, <1>18 DEF Competition

\* A board has every result handed over once; its rank is one more than the
\* number of strictly better ones, ties are in the order of names, and only
\* results of one split and training status share a board, no more than its
\* limit (build_leaderboard), for any results.
THEOREM BoardsAreRanked == BoardSpec => []RanksAreCompetition
<1>1. BoardInit => RanksAreCompetition
  BY DEF BoardInit, RanksAreCompetition
<1>2. RanksAreCompetition /\ [BoardNext]_board => RanksAreCompetition'
  <2> SUFFICES ASSUME RanksAreCompetition, [BoardNext]_board PROVE RanksAreCompetition'
    OBVIOUS
  <2>1. CASE UNCHANGED board
    BY <2>1, ZenonT(60) DEF RanksAreCompetition
  <2>2. ASSUME NEW r, Evaluate(r) PROVE RanksAreCompetition'
    <3>1. board'.made # "board"
      BY <2>2 DEF Evaluate
    <3> QED BY <3>1 DEF RanksAreCompetition
  <2>3. ASSUME NEW list \in Lists, Build(list) PROVE RanksAreCompetition'
    <3> DEFINE given == [k \in DOMAIN list |-> Evaluations[list[k]]]
               n == Len(list)
    <3>1. board' = BuildLeaderboard(given) /\ \A k \in DOMAIN list : ValidResult(Evaluations[list[k]])
      BY <2>3 DEF Build
    <3>2. n \in Nat /\ DOMAIN given = 1..n /\ Len(given) = n /\ \A k \in 1..n : Scored(given[k])
      <4>1. list \in Seq(DOMAIN Evaluations)
        BY LeaderboardAssumption
      <4>2. n \in Nat /\ DOMAIN list = 1..n /\ \A k \in 1..n : list[k] \in DOMAIN Evaluations
        BY <4>1
      <4> QED BY <3>1, <4>2, LeaderboardAssumption DEF Scored
    <3> HIDE DEF given, n
    <3>3. CASE ~Comparable(given)
      <4>1. board'.made = "ValueError"
        BY <3>1, <3>3 DEF BuildLeaderboard
      <4> QED BY <4>1 DEF RanksAreCompetition
    <3>4. CASE Comparable(given)
      <4>1. Competition(board')
        BY <3>1, <3>2, <3>4, BoardRanked
      <4> QED BY <4>1 DEF Competition, RowOf, RanksAreCompetition
    <3> QED BY <3>3, <3>4
  <2> QED BY <2>1, <2>2, <2>3 DEF BoardNext
<1> QED BY <1>1, <1>2, PTL DEF BoardSpec
=============================================================================
