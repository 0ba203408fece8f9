----------------------------- MODULE Accelerator -----------------------------
(***************************************************************************)
(* cffi/nuts_accelerator.py: a core keeps the library it found when it was *)
(* made (the C library, or the mock); the global core is made at its first *)
(* use and kept until reset_accelerator; the module's benchmark functions  *)
(* make a core of their own for each call.  The C function is not in the   *)
(* repository: it returns any array of C ints, or fails.  The clock is the *)
(* wall clock, which may stand still.                                      *)
(*                                                                         *)
(* The data of a call is [list |-> whether it is a Python list, items |->  *)
(* its elements]; a tuple and a string are none.  An element is [int |->   *)
(* whether it is a Python int, v |-> its value]; Python compares an int    *)
(* and a float by value.                                                   *)
(***************************************************************************)
EXTENDS Integers, Sequences, FiniteSets

CONSTANTS Batches,   \* the data of a call
          CValues,   \* what a C int may hold, for the answers of the C function
          Elapsed,   \* the readings of the clock between the two ends of a call
          None
ASSUME AcceleratorAssumption == /\ CValues \subseteq Int /\ Elapsed \subseteq Nat
                                /\ Batches \subseteq [list : BOOLEAN, items : Seq([int : BOOLEAN, v : Int])]

VARIABLES library,   \* what lies at _lib_path: "absent", "broken" or "loads"
          instance,  \* _accelerator_instance: None, or the kind of its _lib
          answer     \* of the last call
accelVars == <<library, instance, answer>>

AccelTypeOK == /\ library \in {"absent", "broken", "loads"}
               /\ instance \in {None, "CDLL", "Mock"}
               /\ answer # None => answer.lib \in {"CDLL", "Mock"} /\ answer.data \in Batches
AccelInit == library \in {"absent", "broken", "loads"} /\ instance = None /\ answer = None

\* __init__: a file that is no library leaves the mock, like no file.
NewCore == IF library = "loads" THEN "CDLL" ELSE "Mock"

Number(v) == [int |-> TRUE, v |-> v]
Equal(a, b) == a.v = b.v
LesserOf(m, n) == IF m < n THEN m ELSE n

\* ctypes.c_int takes any int and refuses everything else.
AllInts(items) == \A i \in DOMAIN items : items[i].int

\* _process_python: a copy of a list, and nothing for what is no list.
Copy(data) == IF data.list THEN data.items ELSE <<>>

\* What the C function may return: as many C ints as it was given, any ones.
CArrays(items) == [DOMAIN items -> {Number(c) : c \in CValues}]

\* process: the results a core may give; a failure on the way to the C
\* function, in it or in reading its answer falls back to the copy.
Process(lib, data) ==
  {Copy(data)} \cup (IF lib = "CDLL" /\ data.items # <<>> /\ AllInts(data.items)
                     THEN CArrays(data.items) ELSE {})

\* Mutant: the matches are counted over the shorter list and divided by it,
\* with no test for an empty one.
RatioOfShorter(items, result) ==
  LET n == LesserOf(Len(items), Len(result)) IN <<Cardinality({i \in 1..n : Equal(items[i], result[i])}), n>>

\* _calculate_integrity, a fraction <<matches, elements>>.
Integrity(items, result) ==
  IF items = <<>> \/ result = <<>> THEN <<0, 1>>
  ELSE <<Cardinality({i \in 1..LesserOf(Len(items), Len(result)) : Equal(items[i], result[i])}), Len(items)>>

\* data_integrity expects twice the input, of a process that returns its input.
IsValid(items, result) ==
  \A i \in 1..LesserOf(Len(items), Len(result)) : result[i].v = 2 * items[i].v

\* memory_efficiency divides by the time the call took when there is data;
\* benchmark_api tests for it.
Error(op, data, elapsed) ==
  IF op = "memory_efficiency" /\ data.items # <<>> /\ elapsed = 0 THEN "ZeroDivisionError" ELSE "none"

Operations == {"process_with_metrics", "benchmark_api", "memory_efficiency", "data_integrity"}
Outcomes(lib, op, data) ==
  {[op |-> op, lib |-> lib, data |-> data, result |-> result, score |-> Integrity(data.items, result), elapsed |-> t,
    valid |-> op = "data_integrity" /\ IsValid(data.items, result), error |-> Error(op, data, t)]
     : result \in Process(lib, data), t \in Elapsed}

-----------------------------------------------------------------------------

\* Environment: the library is built, replaced or removed.
Build == library' \in {"absent", "broken", "loads"} \ {library} /\ answer' = None /\ UNCHANGED instance

GetAccelerator == /\ instance' = IF instance = None THEN NewCore ELSE instance
                  /\ answer' = None /\ UNCHANGED library
ResetAccelerator == instance' = None /\ answer' = None /\ UNCHANGED library

\* get_accelerator().op(data)
CallInstance(op, data) ==
  LET lib == IF instance = None THEN NewCore ELSE instance
  IN /\ instance' = lib /\ answer' \in Outcomes(lib, op, data) /\ UNCHANGED library

\* benchmark_api, benchmark_memory_efficiency and benchmark_data_integrity.
CallGlobal(op, data) == /\ op # "process_with_metrics"
                        /\ answer' \in Outcomes(NewCore, op, data) /\ UNCHANGED <<library, instance>>

\* One call, and what is done to the library and the instance before it.
AccelNext == /\ answer = None
             /\ \/ Build \/ GetAccelerator \/ ResetAccelerator
                \/ \E op \in Operations, data \in Batches : CallInstance(op, data) \/ CallGlobal(op, data)

AccelSpec == AccelInit /\ [][AccelNext]_accelVars

\* Whatever array the C function returns, the score is full exactly when every
\* element came back, and never above one.  An answer is as long as the data or
\* empty; without the C library it is the list that was given, and nothing for
\* what is no list.  Two answers need care: the mock calls a list "valid" only
\* if it is all zeros, since data_integrity expects the doubled data, and where
\* nothing came back there is nothing to compare, so that the data of a string
\* or a tuple is "valid" with the score 0.
ScoreIsHonest ==
  /\ AccelTypeOK
  /\ answer # None =>
       LET r == answer.result
           d == answer.data.items
           full == answer.score[1] = answer.score[2]
       IN /\ answer.score[2] > 0 /\ answer.score[1] \in 0..answer.score[2]
          /\ r = <<>> \/ Len(r) = Len(d)
          /\ full <=> (d # <<>> /\ Len(r) = Len(d) /\ \A i \in DOMAIN d : Equal(r[i], d[i]))
          /\ answer.lib = "Mock" => r = Copy(answer.data)
          /\ answer.valid /\ full => \A i \in DOMAIN d : d[i].v = 0
          /\ answer.valid /\ answer.score[1] = 0 => r = <<>> \/ \A i \in DOMAIN d : d[i].v # 0
          /\ answer.op = "data_integrity" /\ r = <<>> => answer.valid /\ answer.score[1] = 0
=============================================================================
