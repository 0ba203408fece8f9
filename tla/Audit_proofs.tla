---------------------------- MODULE Audit_proofs ----------------------------
(***************************************************************************)
(* Proofs about the binary auditor: how _read_local reads a file that      *)
(* others may write, and how audit_binary reviews the bytes it read.       *)
(***************************************************************************)
EXTENDS LocalRead, BinaryReview, SequenceTheorems, TLAPS

-----------------------------------------------------------------------------
(* Reading.  What makes the second fstat enough is that the clock of the   *)
(* file system moves on with each modification: a file modified since the  *)
(* first fstat has a later change time, whatever its content and length    *)
(* are by then and whatever utime made of the modification time.           *)

ReadInv ==
  /\ TypeOK
  /\ before.st_ctime <= st_ctime /\ st_ctime <= now
  /\ touched => before.st_ctime < st_ctime
  /\ ~touched => fstat = before /\ held = {content}
  /\ pc = "open" => data = <<>>
  /\ pc \in {"read", "stat"} => before.st_size <= MAX_FILE_BYTES
  /\ pc \in {"open", "read", "stat"} /\ ~touched =>
       Len(data) <= Len(content) /\ \A n \in 1..Len(data) : data[n] = content[n]
  /\ pc = "stat" /\ ~touched => Len(data) = Len(content)
  /\ pc = "returned" => held = {data}
  /\ pc = "rejected" => touched \/ before.st_size > MAX_FILE_BYTES

\* A content is a sequence.
LEMMA ContentsAreSequences ==
  ASSUME NEW c \in Contents
  PROVE  /\ c \in Seq(Blocks) /\ Len(c) \in 0..MaxLength
         /\ c \in [1..Len(c) -> Blocks]
<1>1. PICK n \in 0..MaxLength : c \in [1..n -> Blocks]
  BY DEF Contents
<1>2. n \in Nat /\ MaxLength \in Nat
  BY FileAssumption
<1>3. c \in Seq(Blocks) /\ Len(c) = n
  BY <1>1, <1>2
<1> HIDE DEF Contents
<1> QED BY <1>1, <1>2, <1>3

\* So is one with a block more, within the bound.
LEMMA AppendedContent ==
  ASSUME NEW c \in Contents, NEW b \in Blocks, Len(c) < MaxLength
  PROVE  Append(c, b) \in Contents /\ Len(Append(c, b)) = Len(c) + 1
<1>1. c \in Seq(Blocks) /\ Len(c) \in Nat /\ MaxLength \in Nat
  BY ContentsAreSequences, FileAssumption
<1>2. Append(c, b) \in [1..Len(c) + 1 -> Blocks] /\ Len(Append(c, b)) = Len(c) + 1
  <2>1. Append(c, b) \in Seq(Blocks) /\ Len(Append(c, b)) = Len(c) + 1
    BY <1>1, AppendProperties
  <2> QED BY <2>1, LenProperties
<1>3. Len(c) + 1 \in 0..MaxLength
  BY <1>1
<1> QED BY <1>2, <1>3 DEF Contents

LEMMA ReadInit == Init => ReadInv
<1> SUFFICES ASSUME Init PROVE ReadInv
  OBVIOUS
<1>1. Len(content) \in Nat /\ <<>> \in Contents /\ MaxLength \in Nat /\ MaxTime \in Nat /\ MAX_FILE_BYTES \in Nat
  <2>1. <<>> \in [1..0 -> Blocks] /\ 0 \in 0..MaxLength /\ {MaxLength, MaxTime, MAX_FILE_BYTES} \subseteq Nat
    BY FileAssumption
  <2> QED BY <2>1, ContentsAreSequences DEF Init, Contents
<1>2. fstat \in Stat
  BY <1>1 DEF Init, fstat, Stat
<1>3. TypeOK
  <2>1. 0 \in 0..MaxTime /\ Len(<<>>) <= MAX_FILE_BYTES + 1 /\ {content} \subseteq Contents
    BY <1>1 DEF Init
  <2> QED BY <1>1, <1>2, <2>1 DEF Init, TypeOK
<1>4. before.st_ctime = 0
  BY DEF Init, fstat
<1> QED BY <1>1, <1>3, <1>4 DEF Init, ReadInv

LEMMA ReadModify == ASSUME ~Coarse PROVE ReadInv /\ Modify => ReadInv'
<1> SUFFICES ASSUME ReadInv, Modify PROVE ReadInv'
  OBVIOUS
<1>1. /\ now' \in Nat /\ now' > now /\ now' <= MaxTime /\ st_ctime' = now'
      /\ now \in Nat /\ st_ctime \in Nat /\ before.st_ctime \in Nat
  BY FileAssumption DEF ReadInv, TypeOK, Modify, Stat
<1>2. TypeOK'
  <2>1. content' \in Contents /\ st_mtime' \in 0..MaxTime
    BY <1>1, FileAssumption DEF ReadInv, TypeOK, Modify
  <2> QED BY <1>1, <2>1, FileAssumption DEF ReadInv, TypeOK, Modify, readVars
<1>3. before' = before /\ pc' = pc /\ data' = data /\ touched'
  BY DEF Modify, readVars
<1>4. before'.st_ctime < st_ctime'
  BY <1>1, <1>3 DEF ReadInv
<1> QED BY <1>1, <1>2, <1>3, <1>4, FileAssumption DEF ReadInv, Modify, Stat, TypeOK

LEMMA ReadOpen == ReadInv /\ Open => ReadInv'
<1> SUFFICES ASSUME ReadInv, Open PROVE ReadInv'
  OBVIOUS
<1>1. /\ UNCHANGED <<content, st_mtime, st_ctime, now, data>> /\ data = <<>>
      /\ held' = {content} /\ touched' = FALSE /\ before' = fstat /\ fstat' = fstat
      /\ pc' = IF Len(content) > MAX_FILE_BYTES THEN "rejected" ELSE "read"
  BY DEF ReadInv, Open, fileVars, fstat
<1>2. fstat \in Stat /\ fstat.st_size = Len(content) /\ fstat.st_ctime = st_ctime /\ Len(content) \in Nat
  BY ContentsAreSequences DEF ReadInv, TypeOK, fstat, Stat
<1>3. TypeOK'
  <2>1. pc' \in {"read", "rejected"} /\ held' \subseteq Contents
    BY <1>1 DEF ReadInv, TypeOK
  <2> QED BY <1>1, <1>2, <2>1 DEF ReadInv, TypeOK
<1> QED BY <1>1, <1>2, <1>3, FileAssumption DEF ReadInv, TypeOK

LEMMA ReadRead == ReadInv /\ Read => ReadInv'
<1> SUFFICES ASSUME ReadInv, Read PROVE ReadInv'
  OBVIOUS
<1>1. /\ UNCHANGED <<content, st_mtime, st_ctime, now, before, held, touched>> /\ fstat' = fstat
      /\ pc = "read"
  BY DEF Read, fileVars, fstat
<1>2. /\ Len(data) \in Nat /\ Len(content) \in Nat /\ Len(content) <= MaxLength
      /\ MAX_FILE_BYTES \in Nat /\ MaxLength \in Nat /\ before.st_size \in Nat
      /\ content \in [1..Len(content) -> Blocks] /\ data \in Seq(Blocks)
  BY ContentsAreSequences, FileAssumption DEF ReadInv, TypeOK, Stat
<1>3. ~touched => before.st_size = Len(content)
  BY DEF ReadInv, fstat
<1>4. CASE Len(data) = MAX_FILE_BYTES + 1 \/ Len(data) >= Len(content)
  <2>1. pc' = "stat" /\ data' = data
    BY <1>4 DEF Read
  <2>2. ~touched => Len(data) = Len(content)
    BY <1>1, <1>2, <1>3, <1>4 DEF ReadInv
  <2>3. TypeOK'
    BY <1>1, <2>1 DEF ReadInv, TypeOK
  <2> QED BY <1>1, <2>1, <2>2, <2>3 DEF ReadInv
<1>5. CASE ~(Len(data) = MAX_FILE_BYTES + 1 \/ Len(data) >= Len(content))
  <2>1. pc' = pc /\ data' = Append(data, content[Len(data) + 1])
    BY <1>5 DEF Read
  <2>2. content[Len(data) + 1] \in Blocks /\ Len(data) + 1 <= Len(content) /\ Len(data) + 1 <= MAX_FILE_BYTES + 1
    BY <1>2, <1>5 DEF ReadInv, TypeOK
  <2>3. data' \in Contents /\ Len(data') = Len(data) + 1
    BY <1>2, <2>1, <2>2, AppendedContent DEF ReadInv, TypeOK
  <2>4. TypeOK'
    BY <1>1, <2>1, <2>2, <2>3 DEF ReadInv, TypeOK
  <2>5. ~touched => \A n \in 1..Len(data') : data'[n] = content[n]
    BY <1>1, <1>2, <2>1, <2>3 DEF ReadInv
  <2> QED BY <1>1, <2>1, <2>2, <2>3, <2>4, <2>5 DEF ReadInv
<1> QED BY <1>4, <1>5

LEMMA ReadCheck == ReadInv /\ Check => ReadInv'
<1> SUFFICES ASSUME ReadInv, Check PROVE ReadInv'
  OBVIOUS
<1>1. /\ UNCHANGED <<content, st_mtime, st_ctime, now, before, data, held, touched>> /\ fstat' = fstat
      /\ pc = "stat" /\ pc' = IF Len(data) <= MAX_FILE_BYTES /\ Same THEN "returned" ELSE "rejected"
  BY DEF Check, fileVars, fstat
<1>2. TypeOK'
  BY <1>1 DEF ReadInv, TypeOK
<1>3. /\ data \in [1..Len(data) -> Blocks] /\ content \in [1..Len(content) -> Blocks]
      /\ before.st_ctime \in Nat /\ st_ctime \in Nat
  BY ContentsAreSequences, FileAssumption DEF ReadInv, TypeOK, Stat
<1>4. ~touched => data = content
  BY <1>1, <1>3 DEF ReadInv
<1>5. Same => ~touched
  BY <1>3 DEF ReadInv, Same, fstat
<1>6. ~touched /\ before.st_size <= MAX_FILE_BYTES => Len(data) <= MAX_FILE_BYTES /\ Same
  BY <1>4 DEF ReadInv, Same, fstat
<1> QED BY <1>1, <1>2, <1>4, <1>5, <1>6 DEF ReadInv

\* What is reviewed is the file: one that is modified between the two fstats
\* is rejected, and one that is not is not unless it is too large
\* (_read_local), for any blocks, limits and modifications, where each
\* modification has a change time of its own.
THEOREM ChangedIsRejected == ASSUME ~Coarse PROVE Spec => []RejectedIfChanged
<1>1. ReadInv /\ [Next]_vars => ReadInv'
  <2> SUFFICES ASSUME ReadInv, [Next]_vars PROVE ReadInv'
    OBVIOUS
  <2>1. CASE UNCHANGED vars
    BY <2>1 DEF vars, fileVars, readVars, ReadInv, TypeOK, fstat
  <2> QED BY <2>1, ReadModify, ReadOpen, ReadRead, ReadCheck DEF Next, Reading
<1>2. ReadInv => RejectedIfChanged
  BY DEF ReadInv, RejectedIfChanged
<1> QED BY <1>1, <1>2, ReadInit, PTL DEF Spec

-----------------------------------------------------------------------------
(* Reviewing.  The sections taken are in the order of their headers, so    *)
(* that none is taken twice; results are those of the sections before the  *)
(* present one.                                                            *)

Last == Len(executable)
Taken(k) == headers[executable[k]]
Covered(n) == \A i \in 1..n : headers[i].exec => \E k \in 1..Last : executable[k] = i
Listed == {findings[n] : n \in 1..Len(findings)}
OutOfBudget(k) == results[k].incomplete_reason = "instruction_limit"

InPlace(h) == /\ HeaderSize <= h.start /\ End(h) <= Length
              /\ ~Overlap(h.start, End(h), table_offset, TableEnd)
Apart(h, e) == ~Overlap(h.start, End(h), e.start, End(e))

SectionsInv ==
  /\ headers \in Seq(Header) /\ table_offset \in Nat /\ header_ok \in BOOLEAN
  /\ executable \in Seq(1..Len(headers)) /\ Last <= Len(headers)
  /\ total_bytes \in 0..MAX_EXECUTABLE_BYTES
  /\ \A k \in 1..Last : InPlace(Taken(k))
  /\ \A k \in 1..Last : \A j \in 1..k - 1 : executable[j] < executable[k] /\ Apart(Taken(k), Taken(j))

ProgressInv ==
  /\ stage \in {"parse", "scan", "report", "rejected"} /\ index \in 0..Len(headers) + 1
  /\ stage = "parse" => /\ executable = <<>> \/ Last < index
                        /\ \A k \in 1..Last : executable[k] < index
                        /\ Covered(index - 1)
  /\ stage \in {"parse", "rejected"} => results = <<>> /\ stuck = {} /\ decoded = 0
  /\ stage \in {"scan", "report"} => /\ Covered(Len(headers))
                                     /\ index = Len(results) + 1 /\ Len(results) <= Last
  /\ stage = "report" => Len(results) = Last

CountInv ==
  /\ instruction_count \in 0..MAX_INSTRUCTIONS /\ section_instructions \in 0..instruction_count
  /\ {decoded, finding_count} \subseteq Nat /\ (Scanning => decoded <= Size)
  /\ findings \in Seq(Place) /\ Len(findings) <= MAX_FINDINGS /\ divisions \subseteq Place
  /\ Listed \subseteq divisions /\ Len(findings) <= finding_count
  /\ divisions = Listed \/ findings_truncated \/ \E k \in 1..Len(results) : OutOfBudget(k)

Explained(k) == LET i == executable[k]
                    r == results[k]
                IN  /\ r.incomplete_reason = None <=> r.decoded_bytes = headers[i].size
                    /\ r.incomplete_reason = "decode_stopped" <=> i \in stuck
                    /\ r.incomplete_reason = "instruction_limit" => instruction_count = MAX_INSTRUCTIONS

ResultsInv ==
  /\ results \in Seq(Result) /\ stuck \subseteq {executable[k] : k \in 1..Len(results)}
  /\ \A k \in 1..Len(results) : Explained(k)

ReviewInv == SectionsInv /\ ProgressInv /\ CountInv /\ ResultsInv

\* The numbers are numbers.
LEMMA AuditNumbers ==
  {Length, HeaderSize, MaxSize, MAX_SECTIONS, MAX_EXECUTABLE_BYTES, MAX_INSTRUCTIONS, MAX_FINDINGS} \subseteq Nat
BY NumbersAssumption DEF Budgets

\* The header of a section taken is a header.
LEMMA TakenHeader ==
  ASSUME SectionsInv, NEW k \in 1..Last
  PROVE  executable[k] \in 1..Len(headers) /\ Taken(k) \in Header /\ Taken(k).size \in Nat
<1>1. executable[k] \in 1..Len(headers)
  BY DEF SectionsInv, Last
<1>2. Taken(k) \in Header
  BY <1>1 DEF SectionsInv, Taken
<1> QED BY <1>1, <1>2 DEF Header

\* The indices of the sections taken differ.
LEMMA TakenOnce ==
  ASSUME SectionsInv, NEW j \in 1..Last, NEW k \in 1..Last, executable[j] = executable[k]
  PROVE  j = k
<1>1. executable[j] \in Int /\ executable[k] \in Int /\ Last \in Nat
  BY TakenHeader DEF SectionsInv, Last
<1>2. CASE j < k
  <2>1. j \in 1..k - 1
    BY <1>2
  <2>2. executable[j] < executable[k]
    BY <2>1 DEF SectionsInv
  <2> QED BY <1>1, <2>2
<1>3. CASE k < j
  <2>1. k \in 1..j - 1
    BY <1>3
  <2>2. executable[k] < executable[j]
    BY <2>1 DEF SectionsInv
  <2> QED BY <1>1, <2>2
<1> QED BY <1>2, <1>3

LEMMA ReviewInitInv == ReviewInit => ReviewInv
<1> SUFFICES ASSUME ReviewInit PROVE ReviewInv
  OBVIOUS
<1>1. headers \in Seq(Header) /\ Len(headers) \in Nat /\ table_offset \in Nat
  BY TablesAssumption, AuditNumbers DEF ReviewInit
<1>2. /\ executable = <<>> /\ results = <<>> /\ findings = <<>> /\ divisions = {} /\ stuck = {}
      /\ stage = "parse" /\ index = 0 /\ total_bytes = 0 /\ decoded = 0 /\ section_instructions = 0
      /\ instruction_count = 0 /\ finding_count = 0 /\ header_ok \in BOOLEAN
  BY DEF ReviewInit
<1>3. SectionsInv
  BY <1>1, <1>2, AuditNumbers DEF SectionsInv, Last
<1>4. ProgressInv
  BY <1>1, <1>2 DEF ProgressInv, Covered, Last
<1>5. CountInv
  BY <1>1, <1>2, AuditNumbers DEF CountInv, Scanning, Listed
<1>6. ResultsInv
  BY <1>2 DEF ResultsInv
<1> QED BY <1>3, <1>4, <1>5, <1>6 DEF ReviewInv

\* Rejecting changes the stage alone.
LEMMA ReviewReject == ReviewInv /\ stage = "parse" /\ Reject => ReviewInv'
<1> SUFFICES ASSUME ReviewInv, stage = "parse", Reject PROVE ReviewInv'
  OBVIOUS
<1>1. /\ UNCHANGED <<headers, table_offset, header_ok, index, executable, total_bytes, decoded,
                     section_instructions, instruction_count, finding_count, findings, divisions, results, stuck>>
      /\ stage' = "rejected"
  BY DEF Reject, elfVars, parseVars, scanVars, sectionVars, countVars
<1>2. SectionsInv'
  BY <1>1 DEF ReviewInv, SectionsInv, Last, Taken, InPlace, Apart, TableEnd
<1>3. ProgressInv'
  BY <1>1 DEF ReviewInv, ProgressInv
<1>4. CountInv'
  BY <1>1 DEF ReviewInv, CountInv, Scanning, Listed, findings_truncated, OutOfBudget
<1>5. ResultsInv'
  BY <1>1 DEF ReviewInv, ResultsInv, Explained
<1> QED BY <1>2, <1>3, <1>4, <1>5 DEF ReviewInv

LEMMA ReviewCheckTable == ReviewInv /\ CheckTable => ReviewInv'
<1> SUFFICES ASSUME ReviewInv, CheckTable, TableValid PROVE ReviewInv'
  BY ReviewReject DEF CheckTable
<1>1. /\ UNCHANGED <<headers, table_offset, header_ok, stage, executable, total_bytes, decoded,
                     section_instructions, instruction_count, finding_count, findings, divisions, results, stuck>>
      /\ index = 0 /\ index' = 1 /\ stage = "parse"
  BY DEF CheckTable, elfVars, parseVars, scanVars, sectionVars, countVars
<1>2. SectionsInv'
  BY <1>1 DEF ReviewInv, SectionsInv, Last, Taken, InPlace, Apart, TableEnd
<1>3. executable = <<>> /\ Len(headers) \in Nat /\ Last = 0
  BY <1>1 DEF ReviewInv, SectionsInv, ProgressInv, Last
<1>4. ProgressInv'
  BY <1>1, <1>3 DEF ReviewInv, ProgressInv, Covered, Last
<1>5. CountInv'
  BY <1>1 DEF ReviewInv, CountInv, Scanning, Listed, findings_truncated, OutOfBudget
<1>6. ResultsInv'
  BY <1>1 DEF ReviewInv, ResultsInv, Explained
<1> QED BY <1>2, <1>4, <1>5, <1>6 DEF ReviewInv

\* The next header is passed, and taken if it is an executable section's.
LEMMA ReviewCheckSection == ReviewInv /\ CheckSection => ReviewInv'
<1> DEFINE h == headers[index]
<1> SUFFICES ASSUME ReviewInv, CheckSection, SectionValid(h), ~h.exec \/ ExecutableValid(h) PROVE ReviewInv'
  BY ReviewReject DEF CheckSection
<1>1. /\ stage = "parse" /\ index \in 1..Len(headers) /\ index \in Nat /\ Len(headers) \in Nat /\ Last \in Nat
      /\ h \in Header /\ headers \in Seq(Header)
  BY DEF CheckSection, ReviewInv, SectionsInv, Last
<1>2. /\ UNCHANGED <<headers, table_offset, header_ok, stage, decoded, section_instructions, instruction_count,
                     finding_count, findings, divisions, results, stuck>>
      /\ index' = index + 1
  BY DEF CheckSection, elfVars, parseVars, scanVars, sectionVars, countVars
<1>3. CountInv'
  BY <1>1, <1>2 DEF ReviewInv, CountInv, Scanning, Listed, findings_truncated, OutOfBudget
<1>4. ResultsInv' /\ results = <<>> /\ stuck = {} /\ decoded = 0
  BY <1>1, <1>2 DEF ReviewInv, ResultsInv, ProgressInv, Explained
<1>5. CASE ~h.exec
  <2>1. UNCHANGED <<executable, total_bytes>> /\ Last' = Last
    BY <1>5 DEF CheckSection, parseVars, Last
  <2>2. SectionsInv'
    BY <1>2, <2>1 DEF ReviewInv, SectionsInv, Taken, InPlace, Apart, TableEnd
  <2>3. Covered(index - 1)
    BY <1>1 DEF ReviewInv, ProgressInv
  <2>4. Covered(index)
    <3>1. \A i \in 1..index : i = index \/ i \in 1..index - 1
      BY <1>1
    <3> QED BY <1>5, <2>3, <3>1 DEF Covered
  <2>5. \A i \in 1..index' - 1 : headers'[i].exec => \E k \in 1..Last' : executable'[k] = i
    <3>1. index' - 1 = index
      BY <1>1, <1>2
    <3> QED BY <1>2, <2>1, <2>4, <3>1 DEF Covered
  <2>6. \A k \in 1..Last' : executable'[k] < index'
    BY <1>1, <1>2, <2>1, TakenHeader DEF ReviewInv, ProgressInv
  <2>7. index' \in 0..Len(headers)' + 1 /\ stage' = "parse" /\ (executable' = <<>> \/ Last' < index')
    BY <1>1, <1>2, <2>1 DEF ReviewInv, ProgressInv
  <2>8. ProgressInv'
    BY <1>2, <1>4, <2>5, <2>6, <2>7 DEF ProgressInv, Covered
  <2> QED BY <1>3, <1>4, <2>2, <2>8 DEF ReviewInv
<1>6. CASE h.exec
  <2>1. /\ executable' = Append(executable, index) /\ total_bytes' = total_bytes + h.size
        /\ ExecutableValid(h)
    BY <1>6 DEF CheckSection
  <2>2. /\ executable' \in Seq(1..Len(headers)) /\ Last' = Last + 1
        /\ \A k \in 1..Last : executable'[k] = executable[k]
        /\ executable'[Last'] = index
    BY <1>1, <2>1, AppendProperties DEF ReviewInv, SectionsInv, Last
  <2>3. \A k \in 1..Last' : k \in 1..Last \/ k = Last'
    BY <1>1, <2>2
  <2>4. \A k \in 1..Last : executable[k] < index
    BY <1>1 DEF ReviewInv, ProgressInv
  <2>5. total_bytes' \in 0..MAX_EXECUTABLE_BYTES
    <3>1. total_bytes \in Nat /\ h.size \in Nat /\ MAX_EXECUTABLE_BYTES \in Nat
      BY <1>1, AuditNumbers, SMTT(30) DEF ReviewInv, SectionsInv, Header
    <3> QED BY <2>1, <3>1 DEF ExecutableValid, WithinLimit
  <2>6. Last' <= index' - 1 /\ Last' <= Len(headers)
    <3>1. executable = <<>> => Last = 0
      BY DEF Last
    <3> QED BY <1>1, <1>2, <2>2, <3>1 DEF ReviewInv, ProgressInv
  <2> DEFINE Later(k) == headers[executable'[k]]
  <2>7. Later(Last') = h /\ \A k \in 1..Last : Later(k) = Taken(k)
    BY <2>2 DEF Taken
  <2>8. InPlace(h) /\ \A j \in 1..Last : Apart(h, Taken(j))
    BY <2>1 DEF ExecutableValid, InPlace, ApartFromTaken, Apart, Taken, Last
  <2>9. \A k \in 1..Last' : InPlace(Later(k))
    BY <2>3, <2>7, <2>8 DEF ReviewInv, SectionsInv
  <2>10. \A k \in 1..Last' : \A j \in 1..k - 1 : executable'[j] < executable'[k] /\ Apart(Later(k), Later(j))
    <3> SUFFICES ASSUME NEW k \in 1..Last', NEW j \in 1..k - 1
                 PROVE  executable'[j] < executable'[k] /\ Apart(Later(k), Later(j))
      OBVIOUS
    <3>1. j \in 1..Last
      BY <1>1, <2>2
    <3>2. CASE k \in 1..Last
      BY <2>2, <2>7, <3>1, <3>2 DEF ReviewInv, SectionsInv
    <3>3. CASE k = Last'
      BY <2>2, <2>4, <2>7, <2>8, <3>1, <3>3
    <3> QED BY <2>3, <3>2, <3>3
  <2>11. SectionsInv'
    BY <1>1, <1>2, <2>2, <2>5, <2>6, <2>9, <2>10
       DEF ReviewInv, SectionsInv, Taken, InPlace, Apart, TableEnd, Last
  <2>12. \A i \in 1..index' - 1 : headers'[i].exec => \E k \in 1..Last' : executable'[k] = i
    <3> SUFFICES ASSUME NEW i \in 1..index' - 1, headers[i].exec PROVE \E k \in 1..Last' : executable'[k] = i
      BY <1>2
    <3>1. CASE i = index
      BY <1>1, <2>2, <3>1
    <3>2. CASE i \in 1..index - 1
      <4>1. PICK k \in 1..Last : executable[k] = i
        BY <1>1, <3>2 DEF ReviewInv, ProgressInv, Covered
      <4>2. k \in 1..Last' /\ executable'[k] = i
        BY <1>1, <2>2, <4>1
      <4> QED BY <4>2
    <3> QED BY <1>1, <1>2, <3>1, <3>2
  <2>13. \A k \in 1..Last' : executable'[k] < index'
    <3> SUFFICES ASSUME NEW k \in 1..Last' PROVE executable'[k] < index'
      OBVIOUS
    <3>1. CASE k = Last'
      BY <1>1, <1>2, <2>2, <3>1
    <3>2. CASE k \in 1..Last
      <4>1. executable[k] \in Int
        BY <3>2, TakenHeader DEF ReviewInv
      <4>2. executable[k] < index
        BY <1>1, <3>2 DEF ReviewInv, ProgressInv
      <4>3. executable'[k] = executable[k]
        BY <2>2, <3>2
      <4> QED BY <1>1, <1>2, <4>1, <4>2, <4>3
    <3> QED BY <2>3, <3>1, <3>2
  <2>14. index' \in 0..Len(headers)' + 1 /\ stage' = "parse" /\ Last' < index'
    BY <1>1, <1>2, <2>2, <2>6
  <2>15. ProgressInv'
    BY <1>2, <1>4, <2>12, <2>13, <2>14 DEF ProgressInv, Covered
  <2> QED BY <1>3, <1>4, <2>11, <2>15 DEF ReviewInv
<1> QED BY <1>5, <1>6

LEMMA ReviewParsed == ReviewInv /\ Parsed => ReviewInv'
<1> SUFFICES ASSUME ReviewInv, Parsed, executable # <<>> PROVE ReviewInv'
  BY ReviewReject DEF Parsed
<1>1. /\ UNCHANGED <<headers, table_offset, header_ok, executable, total_bytes, decoded, section_instructions,
                     instruction_count, finding_count, findings, divisions, results, stuck>>
      /\ stage = "parse" /\ stage' = "scan" /\ index = Len(headers) + 1 /\ index' = 1
  BY DEF Parsed, elfVars, parseVars, scanVars, sectionVars, countVars
<1>2. results = <<>> /\ decoded = 0 /\ Len(headers) \in Nat /\ Last \in Nat
  BY <1>1 DEF ReviewInv, SectionsInv, ProgressInv, Last
<1>3. SectionsInv'
  BY <1>1 DEF ReviewInv, SectionsInv, Last, Taken, InPlace, Apart, TableEnd
<1>4. Covered(Len(headers))
  BY <1>1, <1>2 DEF ReviewInv, ProgressInv
<1>5. ProgressInv'
  BY <1>1, <1>2, <1>4 DEF ProgressInv, Covered, Last
<1>6. Scanning' => 0 <= Size'
  <2> SUFFICES ASSUME 1 <= Last PROVE 0 <= Size'
    BY <1>1 DEF Scanning, Last
  <2>1. Taken(1).size \in Nat
    BY <1>2, TakenHeader DEF ReviewInv
  <2> QED BY <1>1, <2>1 DEF Size, Taken
<1>7. CountInv'
  BY <1>1, <1>2, <1>6 DEF ReviewInv, CountInv, Listed, findings_truncated, OutOfBudget
<1>8. ResultsInv'
  BY <1>1 DEF ReviewInv, ResultsInv, Explained
<1> QED BY <1>3, <1>5, <1>7, <1>8 DEF ReviewInv

\* While sections are decoded, the present one comes after those done.
LEMMA Present ==
  ASSUME ReviewInv, Scanning
  PROVE  /\ index \in 1..Last /\ index = Len(results) + 1 /\ Len(results) \in Nat /\ Last \in Nat
         /\ executable[index] \in 1..Len(headers) /\ Size \in Nat /\ decoded \in Nat /\ decoded <= Size
         /\ Here \in Place
<1>1. index = Len(results) + 1 /\ Len(results) \in Nat /\ Last \in Nat /\ index \in 1..Last
  BY DEF ReviewInv, SectionsInv, ProgressInv, ResultsInv, Scanning, Last
<1>2. executable[index] \in 1..Len(headers) /\ Size \in Nat
  BY <1>1, TakenHeader DEF ReviewInv, Taken, Size
<1>3. decoded \in Nat /\ decoded <= Size
  BY DEF ReviewInv, CountInv
<1>4. Here \in Place
  <2>1. executable[index] \in Nat
    BY <1>2
  <2> QED BY <1>3, <2>1 DEF Here, Place
<1> QED BY <1>1, <1>2, <1>3, <1>4

\* A section that is over, with a reason that is right, adds to the results.
LEMMA ReviewFinish ==
  ASSUME ReviewInv, Scanning, NEW reason \in Reasons, Finish(reason),
         UNCHANGED <<elfVars, stage, parseVars, instruction_count, finding_count, findings>>,
         stuck \subseteq stuck', stuck' \subseteq stuck \cup {executable[index]},
         reason = None <=> decoded = Size,
         reason = "decode_stopped" <=> executable[index] \in stuck',
         reason = "instruction_limit" => instruction_count = MAX_INSTRUCTIONS,
         divisions \subseteq divisions', divisions' \subseteq divisions \cup {Here},
         divisions' = divisions \/ reason = "instruction_limit"
  PROVE  ReviewInv'
<1>1. /\ UNCHANGED <<headers, table_offset, header_ok, stage, executable, total_bytes,
                     instruction_count, finding_count, findings>>
      /\ index' = index + 1 /\ decoded' = 0 /\ section_instructions' = 0
      /\ results' = Append(results, [decoded_bytes |-> decoded, incomplete_reason |-> reason])
      /\ stage = "scan"
  BY DEF Finish, elfVars, parseVars, Scanning
<1>2. SectionsInv' /\ Last' = Last
  BY <1>1 DEF ReviewInv, SectionsInv, Last, Taken, InPlace, Apart, TableEnd
<1> DEFINE result == [decoded_bytes |-> decoded, incomplete_reason |-> reason]
<1>3. result \in Result
  BY Present DEF Result
<1>4. /\ results' \in Seq(Result) /\ Len(results') = Len(results) + 1
      /\ \A k \in 1..Len(results) : results'[k] = results[k]
      /\ results'[index] = result
  BY <1>1, <1>3, Present, AppendProperties DEF ReviewInv, ResultsInv
<1>5. \A k \in 1..Len(results') : k \in 1..Len(results) \/ k = index
  BY <1>4, Present
<1>6. ProgressInv'
  BY <1>1, <1>2, <1>4, Present DEF ReviewInv, SectionsInv, ProgressInv, Covered, Last
<1>7. ResultsInv'
  <2>1. stuck' \subseteq {executable[k] : k \in 1..Len(results')}
    BY <1>4, Present DEF ReviewInv, ResultsInv
  <2>2. \A k \in 1..Len(results) : executable[k] # executable[index]
    BY Present, TakenOnce DEF ReviewInv
  <2>3. \A k \in 1..Len(results) : Explained(k)'
    BY <1>1, <1>4, <2>2 DEF ReviewInv, ResultsInv, Explained
  <2>4. ASSUME NEW k \in 1..Last, k = index PROVE Explained(k)'
    <3>1. results'[k].incomplete_reason = reason /\ results'[k].decoded_bytes = decoded
      BY <1>4, <2>4
    <3>2. executable'[k] = executable[index] /\ headers'[executable[index]].size = Size
      BY <1>1, <2>4 DEF Size
    <3> QED BY <1>1, <3>1, <3>2 DEF Explained
  <2>5. \A k \in 1..Len(results') : Explained(k)'
    BY <1>5, <2>3, <2>4, Present
  <2> QED BY <1>1, <1>4, <2>1, <2>5 DEF ResultsInv
<1>8. CountInv'
  <2>1. Scanning' => 0 <= Size'
    <3> SUFFICES ASSUME index + 1 <= Last PROVE 0 <= Size'
      BY <1>1 DEF Scanning, Last
    <3>1. Taken(index + 1).size \in Nat
      BY Present, TakenHeader DEF ReviewInv
    <3> QED BY <1>1, <3>1 DEF Size, Taken
  <2>2. divisions' = Listed' \/ findings_truncated' \/ \E k \in 1..Len(results') : OutOfBudget(k)'
    <3>1. CASE reason = "instruction_limit"
      BY <1>1, <1>4, <3>1, Present DEF OutOfBudget
    <3>2. CASE reason # "instruction_limit"
      <4>1. \A k \in 1..Len(results) : OutOfBudget(k) => OutOfBudget(k)' /\ k \in 1..Len(results')
        BY <1>4, Present DEF OutOfBudget
      <4> QED BY <1>1, <3>2, <4>1 DEF ReviewInv, CountInv, Listed, findings_truncated
    <3> QED BY <3>1, <3>2
  <2>3. divisions' \subseteq Place /\ Listed' \subseteq divisions'
    BY <1>1, Present DEF ReviewInv, CountInv, Listed
  <2>4. 0 \in 0..instruction_count
    BY AuditNumbers DEF ReviewInv, CountInv
  <2> QED BY <1>1, <2>1, <2>2, <2>3, <2>4 DEF ReviewInv, CountInv
<1> QED BY <1>2, <1>6, <1>7, <1>8 DEF ReviewInv

\* What was explained stays so: the budget is used up but never given back.
LEMMA ReviewInstruction ==
  ASSUME ReviewInv, NEW size \in 1..MaxSize, NEW division \in BOOLEAN, Instruction(size, division)
  PROVE  ReviewInv'
<1>1. /\ Scanning /\ decoded + size <= Size /\ size \in Nat /\ size > 0
      /\ UNCHANGED <<headers, table_offset, header_ok, stage, executable, total_bytes, stuck>>
      /\ divisions' = IF division THEN divisions \cup {Here} ELSE divisions
      /\ instruction_count \in 0..MAX_INSTRUCTIONS /\ section_instructions \in 0..instruction_count
      /\ MAX_INSTRUCTIONS \in Nat
  BY AuditNumbers DEF Instruction, elfVars, parseVars, Met, ReviewInv, CountInv
<1>2. CASE instruction_count >= MAX_INSTRUCTIONS
  <2>1. /\ Finish("instruction_limit") /\ UNCHANGED <<instruction_count, finding_count, findings>>
        /\ instruction_count = MAX_INSTRUCTIONS
    BY <1>1, <1>2 DEF Instruction
  <2>2. decoded # Size /\ executable[index] \notin stuck
    <3>1. \A k \in 1..Len(results) : executable[k] # executable[index]
      BY <1>1, Present, TakenOnce DEF ReviewInv
    <3> QED BY <1>1, <3>1, Present DEF ReviewInv, ResultsInv
  <2> QED BY <1>1, <2>1, <2>2, ReviewFinish, NoneAssumption DEF Reasons, elfVars, parseVars
<1>3. CASE ~(instruction_count >= MAX_INSTRUCTIONS)
  <2>1. /\ instruction_count' = instruction_count + 1 /\ section_instructions' = section_instructions + 1
        /\ decoded' = decoded + size /\ UNCHANGED <<index, results>> /\ Count(division)
    BY <1>3 DEF Instruction
  <2>2. SectionsInv'
    BY <1>1 DEF ReviewInv, SectionsInv, Last, Taken, InPlace, Apart, TableEnd
  <2>3. ProgressInv'
    BY <1>1, <2>1 DEF ReviewInv, ProgressInv, Covered, Last, Scanning
  <2>4. ResultsInv'
    <3>1. \A k \in 1..Len(results) : Explained(k)'
      BY <1>1, <1>3, <2>1 DEF ReviewInv, ResultsInv, Explained
    <3> QED BY <1>1, <2>1, <3>1 DEF ReviewInv, ResultsInv
  <2>5. decoded' \in Nat /\ (Scanning' => decoded' <= Size')
    BY <1>1, <2>1, Present DEF Size
  <2>6. instruction_count' \in 0..MAX_INSTRUCTIONS /\ section_instructions' \in 0..instruction_count'
    BY <1>1, <1>3, <2>1
  <2>7. /\ findings' \in Seq(Place) /\ finding_count' \in Nat
        /\ Len(findings') <= MAX_FINDINGS /\ Len(findings') <= finding_count'
        /\ Listed' \subseteq divisions' /\ divisions' \subseteq Place
        /\ divisions' = Listed' \/ findings_truncated' \/ \E k \in 1..Len(results') : OutOfBudget(k)'
    <3>1. /\ findings \in Seq(Place) /\ finding_count \in Nat /\ Len(findings) \in Nat /\ MAX_FINDINGS \in Nat
          /\ Len(findings) <= MAX_FINDINGS /\ Len(findings) <= finding_count
          /\ Listed \subseteq divisions /\ divisions \subseteq Place
          /\ divisions = Listed \/ findings_truncated \/ \E k \in 1..Len(results) : OutOfBudget(k)
      BY AuditNumbers DEF ReviewInv, CountInv
    <3>2. \A k \in 1..Len(results) : OutOfBudget(k)' <=> OutOfBudget(k)
      BY <2>1 DEF OutOfBudget
    <3>3. CASE ~division
      <4>1. UNCHANGED <<findings, finding_count, divisions, results>>
        BY <1>1, <2>1, <3>3 DEF Count
      <4> QED BY <3>1, <3>2, <4>1 DEF Listed, findings_truncated
    <3>4. CASE division /\ Len(findings) < MAX_FINDINGS
      <4>1. findings' = Append(findings, Here) /\ finding_count' = finding_count + 1
            /\ divisions' = divisions \cup {Here}
        BY <1>1, <2>1, <3>4 DEF Count
      <4>2. findings' \in Seq(Place) /\ Len(findings') = Len(findings) + 1
            /\ Listed' = Listed \cup {Here}
        <5>1. /\ findings' \in Seq(Place) /\ Len(findings') = Len(findings) + 1
              /\ \A n \in 1..Len(findings) : findings'[n] = findings[n]
              /\ findings'[Len(findings) + 1] = Here
          BY <1>1, <3>1, <4>1, Present, AppendProperties
        <5>2. \A n \in 1..Len(findings') : n \in 1..Len(findings) \/ n = Len(findings) + 1
          BY <3>1, <5>1
        <5> QED BY <3>1, <5>1, <5>2, SMTT(30) DEF Listed
      <4> QED BY <1>1, <2>1, <3>1, <3>2, <3>4, <4>1, <4>2, Present, SMTT(30) DEF findings_truncated
    <3>5. CASE division /\ ~(Len(findings) < MAX_FINDINGS)
      <4>1. findings' = findings /\ finding_count' = finding_count + 1 /\ divisions' = divisions \cup {Here}
        BY <1>1, <2>1, <3>5 DEF Count
      <4>2. Listed' = Listed
        BY <4>1 DEF Listed
      <4> QED BY <1>1, <3>1, <4>1, <4>2, Present DEF findings_truncated
    <3> QED BY <3>3, <3>4, <3>5
  <2>8. CountInv'
    BY <2>5, <2>6, <2>7 DEF CountInv
  <2> QED BY <2>2, <2>3, <2>4, <2>8 DEF ReviewInv
<1> QED BY <1>2, <1>3

LEMMA ReviewStop == ReviewInv /\ Stop => ReviewInv'
<1> SUFFICES ASSUME ReviewInv, Stop PROVE ReviewInv'
  OBVIOUS
<1>1. /\ Scanning /\ FinishDecoded /\ UNCHANGED <<elfVars, stage, parseVars, countVars>>
      /\ \/ (decoded = Size \/ section_instructions = Batch) /\ stuck' = stuck
         \/ decoded < Size /\ stuck' = stuck \cup {executable[index]}
  BY DEF Stop
<1>2. section_instructions # Batch
  <2>1. /\ instruction_count \in Nat /\ MAX_INSTRUCTIONS \in Nat /\ section_instructions \in Nat
        /\ instruction_count <= MAX_INSTRUCTIONS
    BY AuditNumbers DEF ReviewInv, CountInv
  <2> QED BY <2>1 DEF Batch
<1>3. executable[index] \notin stuck
  <2>1. \A k \in 1..Len(results) : executable[k] # executable[index]
    BY <1>1, Present, TakenOnce DEF ReviewInv
  <2> QED BY <1>1, <2>1, Present DEF ReviewInv, ResultsInv
<1>4. UNCHANGED <<instruction_count, finding_count, findings, divisions>>
  BY <1>1 DEF countVars
<1>5. CASE decoded = Size
  <2>1. Finish(None) /\ stuck' = stuck
    BY <1>1, <1>5, Present DEF FinishDecoded
  <2> QED BY <1>1, <1>3, <1>4, <1>5, <2>1, ReviewFinish, NoneAssumption DEF Reasons
<1>6. CASE decoded # Size
  <2>1. Finish("decode_stopped") /\ stuck' = stuck \cup {executable[index]}
    BY <1>1, <1>2, <1>6 DEF FinishDecoded
  <2> QED BY <1>1, <1>4, <1>6, <2>1, ReviewFinish, NoneAssumption DEF Reasons
<1> QED BY <1>5, <1>6

LEMMA ReviewReport == ReviewInv /\ Report => ReviewInv'
<1> SUFFICES ASSUME ReviewInv, Report PROVE ReviewInv'
  OBVIOUS
<1>1. /\ UNCHANGED <<headers, table_offset, header_ok, index, executable, total_bytes, decoded,
                     section_instructions, instruction_count, finding_count, findings, divisions, results, stuck>>
      /\ stage = "scan" /\ stage' = "report" /\ index = Last + 1
  BY DEF Report, elfVars, parseVars, scanVars, sectionVars, countVars, Last
<1>2. SectionsInv'
  BY <1>1 DEF ReviewInv, SectionsInv, Last, Taken, InPlace, Apart, TableEnd
<1>3. Len(results) = Last
  <2>1. Len(results) \in Nat /\ Last \in Nat
    BY DEF ReviewInv, SectionsInv, ResultsInv, Last
  <2> QED BY <1>1, <2>1 DEF ReviewInv, ProgressInv
<1>4. ProgressInv'
  BY <1>1, <1>3 DEF ReviewInv, ProgressInv, Covered, Last
<1>5. CountInv'
  BY <1>1 DEF ReviewInv, CountInv, Scanning, Listed, findings_truncated, OutOfBudget
<1>6. ResultsInv'
  BY <1>1 DEF ReviewInv, ResultsInv, Explained
<1> QED BY <1>2, <1>4, <1>5, <1>6 DEF ReviewInv

LEMMA ReviewAlways == ReviewSpec => []ReviewInv
<1>1. ReviewInv /\ [ReviewNext]_reviewVars => ReviewInv'
  <2> SUFFICES ASSUME ReviewInv, [ReviewNext]_reviewVars PROVE ReviewInv'
    OBVIOUS
  <2>1. CASE UNCHANGED reviewVars
    <3>1. UNCHANGED <<headers, table_offset, header_ok, stage, index, executable, total_bytes, decoded,
                      section_instructions, instruction_count, finding_count, findings, divisions, results, stuck>>
      BY <2>1 DEF reviewVars, elfVars, parseVars, scanVars, sectionVars, countVars
    <3>2. SectionsInv' /\ ProgressInv'
      BY <3>1 DEF ReviewInv, SectionsInv, ProgressInv, Covered, Last, Taken, InPlace, Apart, TableEnd
    <3>3. CountInv' /\ ResultsInv'
      BY <3>1 DEF ReviewInv, CountInv, ResultsInv, Explained, Scanning, Size, Listed, findings_truncated, OutOfBudget
    <3> QED BY <3>2, <3>3 DEF ReviewInv
  <2> QED BY <2>1, ReviewCheckTable, ReviewCheckSection, ReviewParsed, ReviewInstruction, ReviewStop, ReviewReport
          DEF ReviewNext
<1> QED BY <1>1, ReviewInitInv, PTL DEF ReviewSpec

\* No byte is reviewed as code of two sections, or as code and as a header,
\* and the budgets hold over all sections together (_elf_sections,
\* audit_binary), for any section tables and budgets.
THEOREM SectionsAreApart == ReviewSpec => []SectionsApart
<1>1. ReviewInv => SectionsApart
  <2> SUFFICES ASSUME ReviewInv PROVE SectionsApart
    OBVIOUS
  <2>1. ReviewTypeOK
    <3>1. table_offset \in Nat /\ header_ok \in BOOLEAN /\ executable \in Seq(1..Len(headers))
          /\ total_bytes \in 0..MAX_EXECUTABLE_BYTES
      BY DEF ReviewInv, SectionsInv
    <3>2. stage \in {"parse", "scan", "report", "rejected"} /\ index \in 0..Len(headers) + 1
      BY DEF ReviewInv, ProgressInv
    <3>3. stuck \subseteq 1..Len(headers) /\ results \in Seq(Result)
      <4>1. \A k \in 1..Len(results) : k \in 1..Last
        BY DEF ReviewInv, SectionsInv, ProgressInv, ResultsInv, Last
      <4> QED BY <4>1, TakenHeader DEF ReviewInv, ResultsInv
    <3> QED BY <3>1, <3>2, <3>3 DEF ReviewInv, CountInv, ReviewTypeOK
  <2> QED BY <2>1 DEF ReviewInv, SectionsInv, SectionsApart, Last, Taken, InPlace, Apart
<1> QED BY <1>1, ReviewAlways, PTL

\* A complete report leaves nothing out, and an incomplete section is explained
\* by what stopped it (audit_binary), for any section tables, code and budgets.
THEOREM CompleteIsReviewed == ReviewSpec => []CompleteMeansReviewed
<1>1. ReviewInv => CompleteMeansReviewed
  <2> SUFFICES ASSUME ReviewInv PROVE CompleteMeansReviewed
    OBVIOUS
  <2>1. ASSUME stage = "report", scan_complete, ~findings_truncated
        PROVE  /\ stuck = {}
               /\ \A i \in 1..Len(headers) : headers[i].exec =>
                    \E k \in 1..Last : executable[k] = i /\ results[k].decoded_bytes = headers[i].size
               /\ divisions = Listed
    <3>1. \A k \in 1..Last : results[k].decoded_bytes = Taken(k).size /\ results[k].incomplete_reason = None
      BY <2>1 DEF ReviewInv, ProgressInv, ResultsInv, Explained, scan_complete, Last, Taken
    <3>2. Len(results) = Last
      BY <2>1 DEF ReviewInv, ProgressInv
    <3>3. stuck = {}
      BY <3>1, <3>2, NoneAssumption DEF ReviewInv, ResultsInv, Explained
    <3>4. divisions = Listed
      BY <2>1, <3>1, <3>2, NoneAssumption DEF ReviewInv, CountInv, OutOfBudget
    <3> QED BY <2>1, <3>1, <3>3, <3>4 DEF ReviewInv, ProgressInv, Covered, Taken
  <2>2. stage = "report" /\ status = "complete" => scan_complete /\ ~findings_truncated
    BY DEF status
  <2>3. \A k \in 1..Len(results) : Explained(k)
    BY DEF ReviewInv, ResultsInv
  <2> QED BY <2>1, <2>2, <2>3 DEF CompleteMeansReviewed, Explained, Listed, Last
<1> QED BY <1>1, ReviewAlways, PTL
=============================================================================
