--------------------------- MODULE MemoryZeroizer ---------------------------
(***************************************************************************)
(* security/memory_zeroizer.py: a region is overwritten chunk by chunk, in *)
(* several passes, and judged by the checksum of what is there then.       *)
(*                                                                         *)
(* Memory goes beyond the region.  A checksum is the sequence of the bytes *)
(* that were hashed: SHA-256 is taken to be injective.  The region belongs *)
(* to a buffer of the calling program, so that another thread may write to *)
(* it between any two of the calls into C.                                 *)
(***************************************************************************)
EXTENDS Integers, Sequences

CONSTANTS Calls,      \* arguments: [entry, size, overwrite_passes, pattern_idx]
          CHUNK,      \* chunk = 64
          CAP,        \* 1024 * 1024, the bytes that a checksum reads at most
          LastByte,   \* memory is 1..LastByte, the region starts at 1
          MaxWrites   \* of the other thread
ASSUME ZeroizerAssumption == /\ {CHUNK, CAP} \subseteq Nat \ {0} /\ {LastByte, MaxWrites} \subseteq Nat
                             /\ \A c \in Calls : /\ {c.size, c.pattern_idx} \subseteq Int /\ c.size <= LastByte
                                                 /\ c.overwrite_passes \in Nat

ZERO_PATTERNS == <<0, 255, 170, 85>>
Secret == 1
Other == 2

VARIABLES call, memory,
          stage,      \* "start", "overwrite", "compare", "done" or the exception
          pass, i,    \* passes left, and the offset in the present one
          checksum, passed,
          writes      \* of the other thread
zeroVars == <<call, memory, stage, pass, i, checksum, passed, writes>>

Least2(a, b) == IF a < b THEN a ELSE b

ZeroizerTypeOK == /\ call \in Calls /\ memory \in [1..LastByte -> 0..255]
                  /\ stage \in {"start", "overwrite", "compare", "done", "AttributeError", "ValueError"}
                  /\ pass \in Nat /\ i \in Nat /\ passed \in BOOLEAN /\ writes \in 0..MaxWrites

ZeroizerInit == /\ call \in Calls /\ memory = [a \in 1..LastByte |-> Secret]
                /\ stage = "start" /\ pass = call.overwrite_passes /\ i = 0
                /\ checksum = <<>> /\ passed = FALSE /\ writes = 0

\* compute_region_checksum: the region up to the cap.
Checksum == [a \in 1..Least2(call.size, CAP) |-> memory[a]]

\* _get_buffer_address asks a bytearray for its attribute buffer, which it has
\* not; a negative size is no length of a ctypes array.
Start == /\ stage = "start"
         /\ stage' = IF call.entry = "bytearray" THEN "AttributeError"
                     ELSE IF call.size < 0 THEN "ValueError" ELSE "overwrite"
         /\ UNCHANGED <<call, memory, pass, i, checksum, passed, writes>>

\* Mutant: the last chunk is written in full.
FullChunk == CHUNK

ChunkLength == Least2(CHUNK, call.size - i)

\* One memmove of zero_memory.
WriteChunk ==
  /\ stage = "overwrite" /\ pass > 0 /\ i < call.size
  /\ LET pattern == ZERO_PATTERNS[1 + (call.pattern_idx % Len(ZERO_PATTERNS))]
     IN  memory' = [a \in DOMAIN memory |-> IF a \in i + 1..i + ChunkLength THEN pattern ELSE memory[a]]
  /\ i' = i + CHUNK
  /\ UNCHANGED <<call, stage, pass, checksum, passed, writes>>

EndPass == /\ stage = "overwrite" /\ pass > 0 /\ i >= call.size
           /\ pass' = pass - 1 /\ i' = 0
           /\ UNCHANGED <<call, memory, stage, checksum, passed, writes>>

PostChecksum == /\ stage = "overwrite" /\ pass = 0
                /\ checksum' = Checksum /\ stage' = "compare"
                /\ UNCHANGED <<call, memory, pass, i, passed, writes>>

\* The expected checksum is that of size zero bytes, also above the cap.
Compare == /\ stage = "compare" /\ stage' = "done"
           /\ passed' = (checksum = [a \in 1..call.size |-> 0])
           /\ UNCHANGED <<call, memory, pass, i, checksum, writes>>

OtherThread(a) == /\ writes < MaxWrites /\ stage \in {"start", "overwrite", "compare"}
                  /\ memory' = [memory EXCEPT ![a] = Other] /\ writes' = writes + 1
                  /\ UNCHANGED <<call, stage, pass, i, checksum, passed>>

ZeroizerNext == \/ Start \/ WriteChunk \/ EndPass \/ PostChecksum \/ Compare
                \/ \E a \in 1..LastByte : OtherThread(a)

ZeroizerSpec == ZeroizerInit /\ [][ZeroizerNext]_zeroVars

\* Passed means that all of the region, no part of it cut off by the cap, was
\* zero when it was hashed, so that only what another thread wrote later is
\* there; and a region up to the cap that was overwritten with zeros and left
\* alone passes.  Bytes beyond the region are never overwritten.
PassedMeansZero ==
  /\ ZeroizerTypeOK
  /\ stage = "done" =>
       /\ passed => /\ call.size <= CAP
                    /\ \A a \in 1..call.size : memory[a] = 0 \/ (memory[a] = Other /\ writes > 0)
       /\ (/\ call.size <= CAP /\ call.overwrite_passes > 0 /\ writes = 0
           /\ call.pattern_idx % Len(ZERO_PATTERNS) = 0) => passed
  /\ \A a \in 1..LastByte : a > call.size => memory[a] \in {Secret, Other}
=============================================================================
