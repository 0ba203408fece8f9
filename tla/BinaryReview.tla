---------------------------- MODULE BinaryReview ----------------------------
(***************************************************************************)
(* audit_binary of src/pqc_bench/constant_time/binary_auditor.py on bytes  *)
(* that were read (LocalRead): _elf_sections walks the section headers and *)
(* takes or rejects each, then the sections taken are decoded one after    *)
(* the other under the budgets.                                            *)
(*                                                                         *)
(* Of a header we keep where the section is, whether it is executable, its *)
(* kind, and in `valid' whether its name, flags, address and alignment     *)
(* pass; of the file header whether it passes, and where the table is.  An *)
(* entry of the table takes one byte.  Any instruction may be found where  *)
(* none was decoded yet, which stands for arbitrary code as long as no     *)
(* byte is decoded twice: see SectionsApart.                               *)
(***************************************************************************)
EXTENDS Naturals, Sequences

CONSTANTS Length,                \* len(data)
          HeaderSize,
          Tables,                \* the section tables files may have
          MAX_SECTIONS,
          MAX_EXECUTABLE_BYTES,
          MAX_INSTRUCTIONS,
          MAX_FINDINGS,
          MaxSize,               \* the bytes of the longest instruction
          None                   \* Python's None

Header == [start : Nat, size : Nat, exec : BOOLEAN, valid : BOOLEAN,
           kind : {"null", "nobits", "progbits", "other"}]
Budgets == {MAX_SECTIONS, MAX_EXECUTABLE_BYTES, MAX_INSTRUCTIONS, MAX_FINDINGS}

ASSUME TablesAssumption == Tables \subseteq Seq(Header)
ASSUME NumbersAssumption == {Length, HeaderSize, MaxSize} \cup Budgets \subseteq Nat
ASSUME NoneAssumption == None \notin {"instruction_limit", "decode_stopped"}

VARIABLES headers, table_offset, header_ok,  \* the file
          stage,               \* parse, scan, report or rejected
          index,               \* of the header or of the section that comes next
          executable,          \* the indices of the sections taken so far
          total_bytes,
          decoded, section_instructions,  \* of the section being decoded
          instruction_count, finding_count, findings,
          results,             \* what is known of the sections already decoded
          divisions,           \* every division instruction the decoder met
          stuck                \* the sections with bytes it could not decode

elfVars == <<headers, table_offset, header_ok>>
parseVars == <<executable, total_bytes>>
sectionVars == <<decoded, section_instructions>>
countVars == <<instruction_count, finding_count, findings, divisions>>
scanVars == <<sectionVars, countVars, results, stuck>>
reviewVars == <<elfVars, stage, index, parseVars, scanVars>>

Reasons == {"instruction_limit", "decode_stopped", None}
Place == [section : Nat, offset : Nat]
Result == [decoded_bytes : Nat, incomplete_reason : Reasons]

Scanning == stage = "scan" /\ index <= Len(executable)
Size == headers[executable[index]].size

\* The budgets hold over all sections together.
ReviewTypeOK == /\ table_offset \in Nat /\ header_ok \in BOOLEAN
                /\ stage \in {"parse", "scan", "report", "rejected"}
                /\ index \in 0..Len(headers) + 1
                /\ executable \in Seq(1..Len(headers))
                /\ total_bytes \in 0..MAX_EXECUTABLE_BYTES
                /\ instruction_count \in 0..MAX_INSTRUCTIONS /\ section_instructions \in 0..instruction_count
                /\ {decoded, finding_count} \subseteq Nat
                /\ findings \in Seq(Place) /\ Len(findings) <= MAX_FINDINGS /\ divisions \subseteq Place
                /\ results \in Seq(Result)
                /\ stuck \subseteq 1..Len(headers)
                /\ Scanning => decoded <= Size

ReviewInit == /\ headers \in Tables
              /\ table_offset \in 0..Length
              /\ header_ok \in BOOLEAN
              /\ stage = "parse" /\ index = 0
              /\ executable = <<>> /\ total_bytes = 0
              /\ decoded = 0 /\ section_instructions = 0
              /\ instruction_count = 0 /\ finding_count = 0 /\ findings = <<>>
              /\ results = <<>> /\ divisions = {} /\ stuck = {}

-----------------------------------------------------------------------------
(* _elf_sections.                                                          *)

End(h) == h.start + h.size
TableEnd == table_offset + Len(headers)
Overlap(start1, end1, start2, end2) == start1 < end2 /\ start2 < end1

Reject == stage' = "rejected" /\ UNCHANGED <<elfVars, index, parseVars, scanVars>>

TableValid == /\ header_ok
              /\ Len(headers) \in 1..MAX_SECTIONS
              /\ table_offset >= HeaderSize /\ TableEnd <= Length
              /\ headers[1].kind = "null"

CheckTable == /\ stage = "parse" /\ index = 0
              /\ IF TableValid
                 THEN index' = 1 /\ UNCHANGED <<elfVars, stage, parseVars, scanVars>>
                 ELSE Reject

\* What is asked of every section.
SectionValid(h) == /\ h.valid
                   /\ h.kind \notin {"null", "nobits"} => End(h) <= Length

\* Mutant: sections are compared with their neighbour only.
ApartFromLast(h) ==
  executable # <<>> =>
    LET last == headers[executable[Len(executable)]]
    IN  ~Overlap(h.start, End(h), last.start, End(last))

ApartFromTaken(h) == \A k \in 1..Len(executable) :
                       LET e == headers[executable[k]] IN ~Overlap(h.start, End(h), e.start, End(e))

WithinLimit(h) == total_bytes + h.size <= MAX_EXECUTABLE_BYTES

\* What is asked of an executable one.
ExecutableValid(h) == /\ index # 1
                      /\ h.kind = "progbits"
                      /\ h.size > 0
                      /\ h.start >= HeaderSize /\ End(h) <= Length
                      /\ ~Overlap(h.start, End(h), table_offset, TableEnd)
                      /\ ApartFromTaken(h)
                      /\ WithinLimit(h)

CheckSection ==
  /\ stage = "parse" /\ index \in 1..Len(headers)
  /\ LET h == headers[index]
     IN  CASE ~SectionValid(h) \/ (h.exec /\ ~ExecutableValid(h)) -> Reject
           [] SectionValid(h) /\ h.exec /\ ExecutableValid(h) ->
                /\ index' = index + 1
                /\ executable' = Append(executable, index)
                /\ total_bytes' = total_bytes + h.size
                /\ UNCHANGED <<elfVars, stage, scanVars>>
           [] SectionValid(h) /\ ~h.exec ->
                index' = index + 1 /\ UNCHANGED <<elfVars, stage, parseVars, scanVars>>

Parsed == /\ stage = "parse" /\ index = Len(headers) + 1
          /\ IF executable = <<>> THEN Reject
             ELSE /\ stage' = "scan" /\ index' = 1
                  /\ UNCHANGED <<elfVars, parseVars, scanVars>>

-----------------------------------------------------------------------------
(* The scan of audit_binary.                                               *)

\* The instructions asked of the decoder: the budget left at the start of
\* the section and one more, which shows that the budget was too small.
Batch == (MAX_INSTRUCTIONS - (instruction_count - section_instructions)) + 1

Here == [section |-> executable[index], offset |-> decoded]

\* The section is over, and the next one starts.
Finish(reason) ==
  /\ results' = Append(results, [decoded_bytes |-> decoded, incomplete_reason |-> reason])
  /\ index' = index + 1
  /\ decoded' = 0 /\ section_instructions' = 0

Met(division) == divisions' = IF division THEN divisions \cup {Here} ELSE divisions

\* Mutant: findings beyond the limit are not counted.
CountRetained(division) ==
  LET kept == division /\ Len(findings) < MAX_FINDINGS
  IN  /\ finding_count' = IF kept THEN finding_count + 1 ELSE finding_count
      /\ findings' = IF kept THEN Append(findings, Here) ELSE findings

Count(division) ==
  /\ finding_count' = IF division THEN finding_count + 1 ELSE finding_count
  /\ findings' = IF division /\ Len(findings) < MAX_FINDINGS THEN Append(findings, Here) ELSE findings

\* The decoder yields an instruction.
Instruction(size, division) ==
  /\ Scanning /\ section_instructions < Batch
  /\ decoded + size <= Size
  /\ Met(division)
  /\ IF instruction_count >= MAX_INSTRUCTIONS
     THEN /\ Finish("instruction_limit")
          /\ UNCHANGED <<instruction_count, finding_count, findings>>
     ELSE /\ instruction_count' = instruction_count + 1
          /\ section_instructions' = section_instructions + 1
          /\ Count(division)
          /\ decoded' = decoded + size
          /\ UNCHANGED <<index, results>>
  /\ UNCHANGED <<elfVars, stage, parseVars, stuck>>

FinishDecoded == Finish(IF decoded # Size THEN "decode_stopped" ELSE None)

\* The decoder yields no more: at the end of the section, at bytes it cannot
\* decode, or at the end of its batch.
Stop == /\ Scanning
        /\ \/ (decoded = Size \/ section_instructions = Batch) /\ UNCHANGED stuck
           \/ decoded < Size /\ stuck' = stuck \cup {executable[index]}
        /\ FinishDecoded
        /\ UNCHANGED <<elfVars, stage, parseVars, countVars>>

Report == /\ stage = "scan" /\ index = Len(executable) + 1
          /\ stage' = "report"
          /\ UNCHANGED <<elfVars, index, parseVars, scanVars>>

ReviewNext == \/ CheckTable \/ CheckSection \/ Parsed
              \/ \E size \in 1..MaxSize, division \in BOOLEAN : Instruction(size, division)
              \/ Stop \/ Report

ReviewSpec == ReviewInit /\ [][ReviewNext]_reviewVars

\* The report.
scan_complete == \A k \in 1..Len(executable) : results[k].decoded_bytes = headers[executable[k]].size
findings_truncated == finding_count > Len(findings)
status == IF scan_complete /\ ~findings_truncated THEN "complete" ELSE "incomplete"

-----------------------------------------------------------------------------
(* Properties.                                                             *)

\* No byte is reviewed as code of two sections, or as code and as a header,
\* and the budgets of ReviewTypeOK hold over all sections together.
SectionsApart == ReviewTypeOK /\
  \A k \in 1..Len(executable) :
    LET h == headers[executable[k]]
    IN  /\ HeaderSize <= h.start /\ End(h) <= Length
        /\ ~Overlap(h.start, End(h), table_offset, TableEnd)
        /\ \A j \in 1..k - 1 : LET e == headers[executable[j]]
                               IN  ~Overlap(h.start, End(h), e.start, End(e))

\* A complete report leaves out nothing: every executable section of the
\* file is decoded to its end, and every division found is listed.  An
\* incomplete section is explained: the budget is said to be exhausted only if
\* it is, the bytes to be no code only if they are not.
CompleteMeansReviewed ==
  /\ stage = "report" /\ status = "complete" =>
       /\ stuck = {}
       /\ \A i \in 1..Len(headers) : headers[i].exec =>
            \E k \in 1..Len(executable) : executable[k] = i /\ results[k].decoded_bytes = headers[i].size
       /\ divisions = {findings[n] : n \in 1..Len(findings)}
  /\ \A k \in 1..Len(results) :
       LET i == executable[k]
           r == results[k]
       IN  /\ r.incomplete_reason = None <=> r.decoded_bytes = headers[i].size
           /\ r.incomplete_reason = "decode_stopped" <=> i \in stuck
           /\ r.incomplete_reason = "instruction_limit" => instruction_count = MAX_INSTRUCTIONS
=============================================================================
