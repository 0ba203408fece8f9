------------------------------ MODULE MCAudit ------------------------------
(* How a local file is read, and how the bytes of one are reviewed, side   *)
(* by side: Init picks which of the two runs.  Two block values, which     *)
(* files of up to four blocks can swap and restore; two sections after the *)
(* null one, anywhere in a file of nine bytes, and tables that are empty,  *)
(* too long, or begin with another section.                                *)
EXTENDS LocalRead, BinaryReview, TLC

NullSection == [start |-> 0, size |-> 0, exec |-> FALSE, valid |-> TRUE, kind |-> "null"]
Code(start, size) == [start |-> start, size |-> size, exec |-> TRUE, valid |-> TRUE, kind |-> "progbits"]
Odd == {[Code(2, 1) EXCEPT !.valid = FALSE], [Code(2, 1) EXCEPT !.kind = "nobits"],
        [Code(1, 3) EXCEPT !.exec = FALSE], [Code(7, 3) EXCEPT !.exec = FALSE]}

SectionHeaders == {Code(start, size) : start \in 0..6, size \in 0..3} \cup Odd
Threes == {<<NullSection, Code(a, 2), Code(b, 1), Code(c, 1)>> : a, b, c \in 1..4}
Empty == <<>>
MCTables == {<<NullSection, s, t>> : s, t \in SectionHeaders} \cup Threes
            \cup {Empty, <<NullSection>>, <<Code(1, 1)>>, <<[Code(1, 1) EXCEPT !.kind = "null"]>>}
            \cup {<<NullSection, NullSection, NullSection, NullSection, NullSection>>}

Symmetry == Permutations(Blocks)

VARIABLE subject
\* While the reader runs, the review keeps one file it never looks at.
AuditInit == /\ subject \in {"read", "review"} /\ Init /\ ReviewInit
             /\ subject = "read" => headers = Empty /\ table_offset = 0 /\ header_ok
             /\ subject = "review" => content = Empty /\ now = 0
AuditNext == \/ subject = "read" /\ Next /\ UNCHANGED <<reviewVars, subject>>
             \/ subject = "review" /\ ReviewNext /\ UNCHANGED <<vars, subject>>
AuditSpec == AuditInit /\ [][AuditNext]_<<vars, reviewVars, subject>>
=============================================================================
