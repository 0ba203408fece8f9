----------------------------- MODULE LocalRead ------------------------------
(***************************************************************************)
(* _read_local of src/pqc_bench/constant_time/binary_auditor.py once it    *)
(* has opened the file, next to whoever else writes that file.  Content is *)
(* a sequence of blocks, one for each read.                                *)
(*                                                                         *)
(* The time stamps are those the file system sets.  Its clock is a coarse  *)
(* one on many systems: modifications may then share a stamp.              *)
(***************************************************************************)
EXTENDS Naturals, Sequences

CONSTANTS Blocks,          \* what a block can hold
          MAX_FILE_BYTES,  \* in blocks
          MaxLength,       \* bound of the blocks of a file
          MaxTime,         \* bound of the file system's clock
          Coarse           \* whether modifications may share a time stamp

ASSUME FileAssumption == {MAX_FILE_BYTES, MaxLength, MaxTime} \subseteq Nat /\ Coarse \in BOOLEAN

VARIABLES content, st_mtime, st_ctime,  \* the file
          now,                          \* the clock of the file system
          pc,                           \* where _read_local is
          before,                       \* the first fstat
          data,                         \* what was read
          held,                         \* every content since the first fstat
          touched                       \* whether the file was modified since

fileVars == <<content, st_mtime, st_ctime, now>>
readVars == <<pc, before, data>>
vars == <<fileVars, readVars, held, touched>>

Contents == UNION {[1..n -> Blocks] : n \in 0..MaxLength}
Stat == [st_size : Nat, st_mtime : 0..MaxTime, st_ctime : 0..MaxTime]
fstat == [st_size |-> Len(content), st_mtime |-> st_mtime, st_ctime |-> st_ctime]

TypeOK == /\ content \in Contents
          /\ {st_mtime, st_ctime, now} \subseteq 0..MaxTime
          /\ pc \in {"open", "read", "stat", "returned", "rejected"}
          /\ before \in Stat
          /\ data \in Contents /\ Len(data) <= MAX_FILE_BYTES + 1
          /\ held \subseteq Contents
          /\ touched \in BOOLEAN

Init == /\ content \in Contents
        /\ now = 0 /\ st_mtime = 0 /\ st_ctime = 0
        /\ pc = "open"
        /\ before = fstat
        /\ data = <<>>
        /\ held = {content}
        /\ touched = FALSE

-----------------------------------------------------------------------------
(* The other processes, while they matter: any modification sets the change*)
(* time, a write the modification time too, which utime sets to anything.  *)

Modify == /\ pc \notin {"returned", "rejected"}
          /\ now' \in {t \in now..MaxTime : Coarse \/ t > now}
          /\ st_ctime' = now'
          /\ \/ content' \in Contents /\ st_mtime' = now'
             \/ st_mtime' \in 0..MaxTime /\ UNCHANGED content
          /\ held' = held \cup {content'}
          /\ touched' = TRUE
          /\ UNCHANGED readVars

-----------------------------------------------------------------------------
(* _read_local.                                                            *)

Open == /\ pc = "open"
        /\ before' = fstat
        /\ pc' = IF Len(content) > MAX_FILE_BYTES THEN "rejected" ELSE "read"
        /\ held' = {content}
        /\ touched' = FALSE
        /\ UNCHANGED <<fileVars, data>>

\* One os.read, which returns nothing at the end of the file; one block
\* more than the limit is asked for.
Read == /\ pc = "read"
        /\ IF Len(data) = MAX_FILE_BYTES + 1 \/ Len(data) >= Len(content)
           THEN pc' = "stat" /\ UNCHANGED data
           ELSE data' = Append(data, content[Len(data) + 1]) /\ UNCHANGED pc
        /\ UNCHANGED <<fileVars, before, held, touched>>

\* Mutant: the change time is not compared.
SameModified == /\ Len(data) = before.st_size
                /\ fstat.st_size = before.st_size /\ fstat.st_mtime = before.st_mtime

Same == Len(data) = before.st_size /\ fstat = before

Check == /\ pc = "stat"
         /\ pc' = IF Len(data) <= MAX_FILE_BYTES /\ Same THEN "returned" ELSE "rejected"
         /\ UNCHANGED <<fileVars, before, data, held, touched>>

Reading == Open \/ Read \/ Check
Next == Modify \/ Reading

Spec == Init /\ [][Next]_vars

-----------------------------------------------------------------------------
(* Properties.                                                             *)

\* What is reviewed is the file: one that was written, cut, extended or
\* touched between the two stats is rejected, however the writes fall between
\* the reads, and one that was not is not, unless it is too large.
RejectedIfChanged ==
  /\ TypeOK
  /\ pc = "returned" => held = {data}
  /\ pc = "rejected" => touched \/ before.st_size > MAX_FILE_BYTES

\* What is reviewed was in the file at one time, not one half of it before
\* and the other after a write: a file changed during reading is rejected.
ReadIsWhole == pc = "returned" => data \in held
=============================================================================
