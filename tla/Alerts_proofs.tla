------------------------- MODULE Alerts_proofs ------------------------------
(***************************************************************************)
(* The cooldown of an AlertEngine holds for any number of threads and any  *)
(* clock.  The lock matters: the reading of the call that is about to      *)
(* reserve is the engine's last clock, hence no older than any attempt.    *)
(*                                                                         *)
(* A trace stream answers its client and spaces its alerts for any policy  *)
(* and requests: the first from what its log shows of the request being    *)
(* streamed, the second from what the engine in force remembers of the     *)
(* alerts sent since its policy was asked for.                             *)
(***************************************************************************)
EXTENDS AlertEngine, TraceStream, SequenceTheorems, TLAPS

\* Only the holder of the lock is inside the locked block.
LockInv == \A c \in Calls : pc[c] \in {"clock", "decide"} <=> lock = c

\* What a call knows once it is past validation and past the clock.
CallInv ==
  \A c \in Calls :
    /\ pc[c] \in {"acquire", "clock", "decide", "deliver", "suppressed", "sent", "failed",
                  "disabled"} => sample[c] \in Sample
    /\ pc[c] \in {"decide", "deliver", "suppressed", "sent", "failed", "disabled"} =>
         now[c] \in Readings
    /\ pc[c] = "decide" => now[c] = last_clock

\* An attempt is no later than the last clock reading, and no earlier than
\* any attempt for the same key.
AttemptInv ==
  /\ \A k \in Keys : last_attempt[k] # None =>
       last_clock # None /\ last_attempt[k] <= last_clock
  /\ \A c \in Reserved : /\ last_attempt[KeyOf(sample[c])] # None
                         /\ now[c] <= last_attempt[KeyOf(sample[c])]

EngineInv == /\ TypeOK /\ LockInv /\ CallInv /\ AttemptInv
             /\ CooldownSpacing /\ SuppressedIsCovered /\ AttemptsAreAlerts

\* Conditions that only read the calls that reserved.
History == CooldownSpacing /\ SuppressedIsCovered /\ AttemptsAreAlerts

\* The key of a sample is a key.
LEMMA KeyType == \A s \in Sample : KeyOf(s) \in Keys
BY DEF Sample, Keys, KeyOf

LEMMA EngineInit == Init => EngineInv
<1> SUFFICES ASSUME Init PROVE EngineInv
  OBVIOUS
<1>1. TypeOK /\ LockInv /\ CallInv
  BY NoneAssumption DEF Init, TypeOK, LockInv, CallInv
<1>2. Reserved = {}
  BY DEF Init, Reserved
<1> QED BY <1>1, <1>2 DEF Init, EngineInv, AttemptInv, CooldownSpacing,
                          SuppressedIsCovered, AttemptsAreAlerts

\* A step of call c that neither reserves nor suppresses leaves history alone.
LEMMA HistoryFrame ==
  ASSUME EngineInv, NEW c \in Calls, NEW to,
         c \in Reserved <=> to \in {"deliver", "sent", "failed", "disabled"},
         to # "suppressed",
         pc' = [pc EXCEPT ![c] = to],
         \A d \in Calls : d \in Reserved \/ pc[d] = "suppressed" =>
                            sample'[d] = sample[d] /\ now'[d] = now[d],
         UNCHANGED last_attempt
  PROVE  History'
<1>1. pc \in [Calls -> {"call", "acquire", "clock", "decide", "deliver"} \cup Returned]
  BY DEF EngineInv, TypeOK
<1>2. Reserved' = Reserved
  BY <1>1 DEF Reserved
<1>3. \A d \in Reserved : sample'[d] = sample[d] /\ now'[d] = now[d] /\ d \in Calls
  BY DEF Reserved
<1>4. \A d \in Calls : pc'[d] = "suppressed" =>
        pc[d] = "suppressed" /\ sample'[d] = sample[d] /\ now'[d] = now[d]
  BY <1>1
<1>5. CooldownSpacing'
  BY <1>2, <1>3 DEF EngineInv, CooldownSpacing
<1>6. SuppressedIsCovered'
  BY <1>2, <1>3, <1>4 DEF EngineInv, SuppressedIsCovered
<1>7. AttemptsAreAlerts'
  BY <1>2, <1>3 DEF EngineInv, AttemptsAreAlerts
<1> QED BY <1>5, <1>6, <1>7 DEF History

LEMMA EngineValidate ==
  ASSUME EngineInv, NEW c \in Calls, NEW s \in Sample \cup {Invalid}, Validate(c, s)
  PROVE  EngineInv'
<1> DEFINE to == IF s = Invalid THEN "invalid" ELSE "acquire"
<1>1. /\ pc[c] = "call"
      /\ pc' = [pc EXCEPT ![c] = to]
      /\ sample' = [sample EXCEPT ![c] = s]
      /\ UNCHANGED <<now, lock, last_clock, last_attempt>>
  BY DEF Validate, Goto
<1>2. \/ to = "invalid"
      \/ to = "acquire" /\ s \in Sample
  BY DEF Sample
<1> HIDE DEF to
<1>3. TypeOK'
  BY <1>1, <1>2 DEF EngineInv, TypeOK, Returned
<1>4. LockInv'
  BY <1>1, <1>2 DEF EngineInv, TypeOK, LockInv
<1>5. CallInv'
  BY <1>1, <1>2 DEF EngineInv, TypeOK, CallInv
<1>6. Reserved' = Reserved /\ c \notin Reserved
  BY <1>1, <1>2 DEF EngineInv, TypeOK, Reserved
<1>7. AttemptInv'
  BY <1>1, <1>6 DEF EngineInv, TypeOK, AttemptInv, Reserved
<1>8. History'
  BY <1>1, <1>2, <1>6, HistoryFrame DEF EngineInv, TypeOK, Reserved
<1> QED BY <1>3, <1>4, <1>5, <1>7, <1>8 DEF EngineInv, History

LEMMA EngineAcquire ==
  ASSUME EngineInv, NEW c \in Calls, Acquire(c)
  PROVE  EngineInv'
<1>1. /\ pc[c] = "acquire" /\ lock = None /\ lock' = c
      /\ pc' = [pc EXCEPT ![c] = "clock"]
      /\ UNCHANGED <<sample, now, last_clock, last_attempt>>
  BY DEF Acquire, Goto
<1>2. TypeOK'
  BY <1>1 DEF EngineInv, TypeOK
<1>3. LockInv'
  BY <1>1, NoneAssumption DEF EngineInv, TypeOK, LockInv
<1>4. CallInv'
  BY <1>1 DEF EngineInv, TypeOK, CallInv
<1>5. Reserved' = Reserved /\ c \notin Reserved
  BY <1>1 DEF EngineInv, TypeOK, Reserved
<1>6. AttemptInv'
  BY <1>1, <1>5 DEF EngineInv, AttemptInv
<1>7. History'
  BY <1>1, <1>5, HistoryFrame
<1> QED BY <1>2, <1>3, <1>4, <1>6, <1>7 DEF EngineInv, History

LEMMA EngineReadClock ==
  ASSUME EngineInv, NEW c \in Calls, NEW r \in Readings \cup {Nonfinite}, ReadClock(c, r)
  PROVE  EngineInv'
<1>1. pc[c] = "clock" /\ lock = c /\ c \notin Reserved
  BY DEF ReadClock, EngineInv, LockInv, Reserved
<1>2. \A d \in Calls \ {c} : pc[d] \notin {"clock", "decide"}
  BY <1>1 DEF EngineInv, LockInv
<1>3. CASE Rejected(r)
  <2>1. /\ pc' = [pc EXCEPT ![c] = "clock_rejected"] /\ lock' = None
        /\ UNCHANGED <<sample, now, last_clock, last_attempt>>
    BY <1>3 DEF ReadClock, Goto
  <2>2. TypeOK'
    BY <2>1 DEF EngineInv, TypeOK, Returned
  <2>3. LockInv'
    BY <1>2, <2>1, NoneAssumption DEF EngineInv, TypeOK, LockInv
  <2>4. CallInv'
    BY <2>1 DEF EngineInv, TypeOK, CallInv
  <2>5. Reserved' = Reserved
    BY <1>1, <2>1 DEF EngineInv, TypeOK, Reserved
  <2>6. AttemptInv'
    BY <2>1, <2>5 DEF EngineInv, AttemptInv
  <2>7. History'
    BY <1>1, <2>1, HistoryFrame
  <2> QED BY <2>2, <2>3, <2>4, <2>6, <2>7 DEF EngineInv, History
<1>4. CASE ~Rejected(r)
  <2>1. /\ pc' = [pc EXCEPT ![c] = "decide"]
        /\ now' = [now EXCEPT ![c] = r]
        /\ last_clock' = r
        /\ UNCHANGED <<sample, lock, last_attempt>>
    BY <1>4 DEF ReadClock, Goto
  <2>2. r \in Readings /\ r \in Nat /\ r # None
    BY <1>4, NumbersAssumption, NoneAssumption DEF Rejected
  <2>3. last_clock # None => last_clock \in Nat /\ last_clock <= r
    BY <1>4, <2>2, NumbersAssumption DEF Rejected, EngineInv, TypeOK
  <2>4. TypeOK'
    BY <2>1, <2>2 DEF EngineInv, TypeOK
  <2>5. LockInv'
    BY <1>1, <2>1 DEF EngineInv, TypeOK, LockInv
  <2>6. CallInv'
    BY <1>1, <1>2, <2>1, <2>2 DEF EngineInv, TypeOK, CallInv
  <2>7. Reserved' = Reserved
    BY <1>1, <2>1 DEF EngineInv, TypeOK, Reserved
  <2>8. AttemptInv'
    <3>1. ASSUME NEW k \in Keys, last_attempt[k] # None
          PROVE  last_attempt[k] <= r
      <4>1. last_clock # None /\ last_attempt[k] <= last_clock /\ last_attempt[k] \in Nat
        BY <3>1, NumbersAssumption DEF EngineInv, TypeOK, AttemptInv
      <4> QED BY <2>2, <2>3, <4>1
    <3>2. \A d \in Reserved : now'[d] = now[d]
      BY <1>1, <2>1 DEF EngineInv, TypeOK, Reserved
    <3> QED BY <2>1, <2>2, <2>7, <3>1, <3>2 DEF EngineInv, AttemptInv
  <2>9. History'
    <3>1. \A d \in Calls : d \in Reserved \/ pc[d] = "suppressed" =>
            sample'[d] = sample[d] /\ now'[d] = now[d]
      BY <1>1, <2>1 DEF EngineInv, TypeOK, Reserved
    <3> QED BY <1>1, <2>1, <3>1, HistoryFrame
  <2> QED BY <2>4, <2>5, <2>6, <2>8, <2>9 DEF EngineInv, History
<1> QED BY <1>3, <1>4

LEMMA EngineDeliver ==
  ASSUME EngineInv, NEW c \in Calls, Deliver(c)
  PROVE  EngineInv'
<1>1. PICK to \in {"sent", "failed", "disabled"} : pc' = [pc EXCEPT ![c] = to]
  BY HasTransportAssumption DEF Deliver, Goto
<1>2. pc[c] = "deliver" /\ UNCHANGED <<sample, now, lock, last_clock, last_attempt>>
  BY DEF Deliver
<1>3. TypeOK'
  BY <1>1, <1>2 DEF EngineInv, TypeOK, Returned
<1>4. LockInv'
  BY <1>1, <1>2 DEF EngineInv, TypeOK, LockInv
<1>5. CallInv'
  BY <1>1, <1>2 DEF EngineInv, TypeOK, CallInv
<1>6. Reserved' = Reserved /\ c \in Reserved
  BY <1>1, <1>2 DEF EngineInv, TypeOK, Reserved
<1>7. AttemptInv'
  BY <1>2, <1>6 DEF EngineInv, AttemptInv
<1>8. History'
  BY <1>1, <1>2, <1>6, HistoryFrame
<1> QED BY <1>3, <1>4, <1>5, <1>7, <1>8 DEF EngineInv, History

\* A call that decides holds the lock, so its reading is the last one.
LEMMA DecidingCall ==
  ASSUME EngineInv, NEW c \in Calls, pc[c] = "decide"
  PROVE  /\ lock = c /\ c \notin Reserved
         /\ sample[c] \in Sample /\ KeyOf(sample[c]) \in Keys
         /\ now[c] \in Nat /\ now[c] # None /\ now[c] \in Readings /\ now[c] = last_clock
         /\ \A d \in Calls \ {c} : pc[d] \notin {"clock", "decide"}
<1>1. lock = c /\ c \notin Reserved /\ sample[c] \in Sample /\ now[c] = last_clock
      /\ now[c] \in Readings
  BY DEF EngineInv, LockInv, CallInv, Reserved
<1>2. now[c] \in Nat /\ now[c] # None
  BY <1>1, NumbersAssumption, NoneAssumption
<1>3. \A d \in Calls \ {c} : pc[d] \notin {"clock", "decide"}
  BY <1>1 DEF EngineInv, LockInv
<1> QED BY <1>1, <1>2, <1>3, KeyType

LEMMA EngineDecide ==
  ASSUME EngineInv, NEW c \in Calls, Decide(c)
  PROVE  EngineInv'
<1> DEFINE k == KeyOf(sample[c])
<1>1. /\ lock = c /\ c \notin Reserved
      /\ sample[c] \in Sample /\ k \in Keys
      /\ now[c] \in Nat /\ now[c] # None /\ now[c] \in Readings /\ now[c] = last_clock
      /\ \A d \in Calls \ {c} : pc[d] \notin {"clock", "decide"}
  BY DecidingCall DEF Decide
<1>2. pc[c] = "decide" /\ lock' = None /\ UNCHANGED <<sample, now, last_clock>>
  BY DEF Decide
<1>3. ASSUME NEW to, to \in {"below_threshold", "suppressed", "deliver"},
             pc' = [pc EXCEPT ![c] = to]
      PROVE  LockInv' /\ CallInv'
  <2>1. LockInv'
    BY <1>1, <1>2, <1>3, NoneAssumption DEF EngineInv, TypeOK, LockInv
  <2>2. CallInv'
    BY <1>1, <1>2, <1>3 DEF EngineInv, TypeOK, CallInv
  <2> QED BY <2>1, <2>2
<1>4. CASE ~Exceeds(sample[c])
  <2>1. pc' = [pc EXCEPT ![c] = "below_threshold"] /\ UNCHANGED last_attempt
    BY <1>4 DEF Decide, Goto
  <2>2. TypeOK'
    BY <1>2, <2>1 DEF EngineInv, TypeOK, Returned
  <2>3. Reserved' = Reserved
    BY <1>1, <2>1 DEF EngineInv, TypeOK, Reserved
  <2>4. AttemptInv'
    BY <1>2, <2>1, <2>3 DEF EngineInv, AttemptInv
  <2>5. History'
    BY <1>1, <1>2, <2>1, HistoryFrame
  <2> QED BY <1>3, <2>1, <2>2, <2>4, <2>5 DEF EngineInv, History
<1>5. CASE Exceeds(sample[c]) /\ Cooling(k, now[c])
  <2>1. pc' = [pc EXCEPT ![c] = "suppressed"] /\ UNCHANGED last_attempt
    BY <1>5 DEF Decide, Goto
  <2>2. TypeOK'
    BY <1>2, <2>1 DEF EngineInv, TypeOK, Returned
  <2>3. Reserved' = Reserved
    BY <1>1, <2>1 DEF EngineInv, TypeOK, Reserved
  <2>4. AttemptInv'
    BY <1>2, <2>1, <2>3 DEF EngineInv, AttemptInv
  <2>5. CooldownSpacing' /\ AttemptsAreAlerts'
    BY <1>2, <2>1, <2>3 DEF EngineInv, CooldownSpacing, AttemptsAreAlerts
  <2>6. PICK d \in Reserved : KeyOf(sample[d]) = k /\ now[d] = last_attempt[k]
    BY <1>1, <1>5 DEF Cooling, EngineInv, AttemptsAreAlerts
  <2>7. now[d] <= now[c] /\ now[c] < now[d] + Cooldown
    BY <1>1, <1>5, <2>6 DEF Cooling, EngineInv, AttemptInv
  <2>8. SuppressedIsCovered'
    <3>1. \A e \in Calls \ {c} : pc'[e] = pc[e]
      BY <2>1 DEF EngineInv, TypeOK
    <3> QED BY <1>2, <2>3, <2>6, <2>7, <3>1 DEF EngineInv, SuppressedIsCovered
  <2> QED BY <1>3, <2>1, <2>2, <2>4, <2>5, <2>8 DEF EngineInv
<1>6. CASE Exceeds(sample[c]) /\ ~Cooling(k, now[c])
  <2>1. /\ pc' = [pc EXCEPT ![c] = "deliver"]
        /\ last_attempt' = [last_attempt EXCEPT ![k] = now[c]]
    BY <1>6 DEF Decide, Goto
  <2>2. TypeOK'
    BY <1>1, <1>2, <2>1 DEF EngineInv, TypeOK, Returned
  <2>3. Reserved' = Reserved \cup {c}
    BY <1>1, <2>1 DEF EngineInv, TypeOK, Reserved
  <2>4. last_attempt'[k] = now[c] /\ \A l \in Keys \ {k} : last_attempt'[l] = last_attempt[l]
    BY <1>1, <2>1 DEF EngineInv, TypeOK
  <2>5. \A d \in Reserved : /\ sample[d] \in Sample /\ KeyOf(sample[d]) \in Keys
                            /\ now[d] \in Nat /\ d \in Calls
    BY KeyType, NumbersAssumption DEF EngineInv, CallInv, Reserved
  <2>6. \A l \in Keys : last_attempt[l] # None => last_attempt[l] \in Nat /\ last_attempt[l] <= now[c]
    BY <1>1, NumbersAssumption DEF EngineInv, TypeOK, AttemptInv
  <2>7. \A d \in Reserved : KeyOf(sample[d]) = k => now[d] + Cooldown <= now[c]
    <3> SUFFICES ASSUME NEW d \in Reserved, KeyOf(sample[d]) = k
                 PROVE  now[d] + Cooldown <= now[c]
      OBVIOUS
    <3>1. last_attempt[k] # None /\ now[d] <= last_attempt[k]
      BY DEF EngineInv, AttemptInv
    <3>2. last_attempt[k] + Cooldown <= now[c]
      BY <1>1, <1>6, <2>6, <3>1, NumbersAssumption DEF Cooling
    <3> QED BY <1>1, <2>5, <2>6, <3>1, <3>2, NumbersAssumption
  <2>8. AttemptInv'
    <3>1. \A l \in Keys : last_attempt'[l] # None =>
            last_clock' # None /\ last_attempt'[l] <= last_clock'
      BY <1>1, <1>2, <2>4, <2>6
    <3>2. \A d \in Reserved : KeyOf(sample[d]) = k => now[d] <= now[c]
      BY <1>1, <2>5, <2>7, NumbersAssumption
    <3>3. \A d \in Reserved' : /\ last_attempt'[KeyOf(sample'[d])] # None
                               /\ now'[d] <= last_attempt'[KeyOf(sample'[d])]
      BY <1>1, <1>2, <2>3, <2>4, <2>5, <3>2 DEF EngineInv, AttemptInv
    <3> QED BY <3>1, <3>3 DEF AttemptInv
  <2>9. CooldownSpacing'
    BY <1>2, <2>3, <2>7 DEF EngineInv, CooldownSpacing
  <2>10. SuppressedIsCovered'
    <3>1. \A d \in Calls : pc'[d] = "suppressed" => pc[d] = "suppressed"
      BY <2>1 DEF EngineInv, TypeOK
    <3> QED BY <1>2, <2>3, <3>1 DEF EngineInv, SuppressedIsCovered
  <2>11. AttemptsAreAlerts'
    <3>1. ASSUME NEW l \in Keys, last_attempt'[l] # None
          PROVE  \E d \in Reserved' : KeyOf(sample'[d]) = l /\ now'[d] = last_attempt'[l]
      <4>1. CASE l = k
        BY <1>2, <2>3, <2>4, <4>1
      <4>2. CASE l # k
        BY <1>2, <2>3, <2>4, <3>1, <4>2 DEF EngineInv, AttemptsAreAlerts
      <4> QED BY <4>1, <4>2
    <3> QED BY <3>1 DEF AttemptsAreAlerts
  <2> QED BY <1>3, <2>1, <2>2, <2>8, <2>9, <2>10, <2>11 DEF EngineInv
<1> QED BY <1>4, <1>5, <1>6

LEMMA EngineStep == EngineInv /\ [Next]_vars => EngineInv'
<1> SUFFICES ASSUME EngineInv, [Next]_vars PROVE EngineInv'
  OBVIOUS
<1>1. ASSUME NEW c \in Calls, Evaluate(c) PROVE EngineInv'
  BY <1>1, EngineValidate, EngineAcquire, EngineReadClock, EngineDecide, EngineDeliver
     DEF Evaluate, Locked
<1>2. CASE UNCHANGED vars
  <2>1. TypeOK' /\ LockInv' /\ CallInv'
    BY <1>2 DEF vars, EngineInv, TypeOK, LockInv, CallInv
  <2>2. Reserved' = Reserved
    BY <1>2 DEF vars, Reserved
  <2>3. AttemptInv' /\ CooldownSpacing' /\ SuppressedIsCovered' /\ AttemptsAreAlerts'
    BY <1>2, <2>2 DEF vars, EngineInv, AttemptInv, CooldownSpacing, SuppressedIsCovered,
                      AttemptsAreAlerts
  <2> QED BY <2>1, <2>3 DEF EngineInv
<1> QED BY <1>1, <1>2 DEF Next, AllReturned

LEMMA EngineAlways == Spec => []EngineInv
BY EngineInit, EngineStep, PTL DEF Spec

\* AlertEngine keeps its state, and each call its locals, well typed.
THEOREM TypeCorrect == Spec => []TypeOK
<1>1. EngineInv => TypeOK
  BY DEF EngineInv
<1> QED BY <1>1, EngineAlways, PTL

\* Attempts for one source and metric are a cooldown apart (evaluate's
\* reservation under the lock), for any number of threads and any clock.
THEOREM AttemptsSpaced == Spec => []CooldownSpacing
<1>1. EngineInv => CooldownSpacing
  BY DEF EngineInv
<1> QED BY <1>1, EngineAlways, PTL

\* Every suppressed exceedance is within a cooldown of an attempt for its key.
THEOREM SuppressionsCovered == Spec => []SuppressedIsCovered
<1>1. EngineInv => SuppressedIsCovered
  BY DEF EngineInv
<1> QED BY <1>1, EngineAlways, PTL

\* Calls that raise or stay below the threshold never start a cooldown.
THEOREM AttemptsAccounted == Spec => []AttemptsAreAlerts
<1>1. EngineInv => AttemptsAreAlerts
  BY DEF EngineInv
<1> QED BY <1>1, EngineAlways, PTL
-----------------------------------------------------------------------------
(* The trace stream.  What a log says is stated of any log g: message i is *)
(* the control message that message j answers, and message a the request   *)
(* that decides the alert policy in force at message j.                    *)

Message == Requests \cup {InvalidMessage, Paused, Error} \cup Frame
PolicyRequests == {r \in Requests : r.trace_type # "pause"}

Latest(g, i, j, S) == i \in 1..j /\ g[i] \in S /\ \A k \in (i + 1)..j : g[k] \notin S
Asks(g, i, j) == Latest(g, i, j, Controls)
Governs(g, a, j) == Latest(g, a, j, PolicyRequests)

\* A frame, d messages after the request it answers.
FrameOk(request, m, d) ==
  /\ request \in PolicyRequests /\ m.chunk_index = d - 1
  /\ request.trace_type = "synthetic" => d = 1
  /\ request.trace_type = "playback" => m.chunk_index < request.n_chunks

\* Every message follows a control message, and every frame the right one.
LogOk(g) ==
  \A j \in 1..Len(g) : \E i \in 1..j : Asks(g, i, j) /\ (IsFrame(g[j]) => FrameOk(g[i], g[j], j - i))

\* Of a log, what the stream goes on with, or what it completed.
Streams(g, request, n) ==
  \E i \in 1..Len(g) : /\ Asks(g, i, Len(g)) /\ g[i] = request /\ request \in Requests /\ n = Len(g) - i /\ n > 0
                       /\ request.trace_type \in {"playback", "live"}
                       /\ request.trace_type = "playback" => n < request.n_chunks
Complete(g) ==
  g # <<>> => \E i \in 1..Len(g) :
    LET answers == Len(g) - i
    IN  /\ Asks(g, i, Len(g))
        /\ IF g[i] = InvalidMessage THEN answers = 1
           ELSE /\ g[i] \in Requests /\ g[i].trace_type # "live"
                /\ g[i].trace_type = "playback" => answers = g[i].n_chunks
                /\ g[i].trace_type # "playback" => answers = 1

StreamInv == /\ StreamTypeOK /\ LogOk(log)
             /\ active # Unset => Streams(log, active, index)
             /\ active = Unset => Complete(log)

\* What a frame of the engine may alert, and what that leaves of the engine.
Sends(m, i, engine, left) ==
  /\ m \in Frame /\ m.chunk_index = i /\ left \in Engine \cup {Unset}
  /\ \/ m.alert = Unset /\ left = engine
     \/ /\ m.alert \in Time /\ engine \in Engine /\ left = [engine EXCEPT !.last_attempt = m.alert]
        /\ engine.last_attempt # Unset =>
             m.alert >= engine.last_attempt + ScopeCooldown[engine.policy]

\* At most one message is the latest of a kind.
LEMMA LatestUnique ==
  ASSUME NEW g, NEW S, NEW i, NEW k, NEW j \in Nat, Latest(g, i, j, S), Latest(g, k, j, S)
  PROVE  i = k
<1>1. i \in 1..j /\ k \in 1..j /\ g[i] \in S /\ g[k] \in S
  BY DEF Latest
<1>2. ~(i < k)
  <2>1. i < k => k \in (i + 1)..j
    BY <1>1
  <2> QED BY <1>1, <2>1 DEF Latest
<1>3. ~(k < i)
  <2>1. k < i => i \in (k + 1)..j
    BY <1>1
  <2> QED BY <1>1, <2>1 DEF Latest
<1> QED BY <1>1, <1>2, <1>3

\* A message more changes nothing before it; it is itself the latest of its
\* kind, and what was the latest of another kind stays so.
LEMMA LatestAppend ==
  ASSUME NEW M, NEW g \in Seq(M), NEW m \in M, NEW S
  PROVE  LET h == Append(g, m)
         IN  /\ h \in Seq(M) /\ Len(g) \in Nat /\ Len(h) = Len(g) + 1 /\ h[Len(g) + 1] = m
             /\ \A k \in 1..Len(g) : h[k] = g[k]
             /\ \A j \in 1..Len(g) : \A i : Latest(h, i, j, S) <=> Latest(g, i, j, S)
             /\ m \in S => Latest(h, Len(h), Len(h), S)
             /\ m \notin S => \A i : Latest(h, i, Len(h), S) <=> Latest(g, i, Len(g), S)
<1> DEFINE h == Append(g, m)
           n == Len(g)
<1>1. h \in Seq(M) /\ n \in Nat /\ Len(h) = n + 1 /\ h[n + 1] = m /\ \A k \in 1..n : h[k] = g[k]
  BY AppendProperties
<1> HIDE DEF h, n
<1>2. ASSUME NEW j \in 1..n, NEW i PROVE Latest(h, i, j, S) <=> Latest(g, i, j, S)
  <2>1. i \in 1..j => i \in 1..n /\ \A k \in (i + 1)..j : k \in 1..n
    BY <1>1
  <2> QED BY <1>1, <2>1 DEF Latest
<1>3. m \in S => Latest(h, n + 1, n + 1, S)
  BY <1>1 DEF Latest
<1>4. ASSUME m \notin S, NEW i PROVE Latest(h, i, n + 1, S) <=> Latest(g, i, n, S)
  <2>1. ASSUME Latest(h, i, n + 1, S) PROVE Latest(g, i, n, S)
    <3>1. i \in 1..n + 1 /\ h[i] \in S
      BY <2>1 DEF Latest
    <3>2. i # n + 1
      BY <1>1, <1>4, <3>1
    <3>3. i \in 1..n /\ \A k \in (i + 1)..n : k \in (i + 1)..n + 1 /\ k \in 1..n
      BY <1>1, <3>1, <3>2
    <3> QED BY <1>1, <2>1, <3>3 DEF Latest
  <2>2. ASSUME Latest(g, i, n, S) PROVE Latest(h, i, n + 1, S)
    <3>1. i \in 1..n /\ g[i] \in S
      BY <2>2 DEF Latest
    <3>2. i \in 1..n + 1 /\ \A k \in (i + 1)..n + 1 : k = n + 1 \/ (k \in (i + 1)..n /\ k \in 1..n)
      BY <1>1, <3>1
    <3> QED BY <1>1, <1>4, <2>2, <3>1, <3>2 DEF Latest
  <2> QED BY <2>1, <2>2
<1> QED BY <1>1, <1>2, <1>3, <1>4 DEF h, n

\* Messages that are sent are no control messages.
LEMMA SentMessages ==
  /\ Frame \cap (Controls \cup {Paused, Error}) = {} /\ {Paused, Error} \cap Controls = {}
  /\ Controls \subseteq Message /\ Frame \subseteq Message /\ {Paused, Error} \subseteq Message
  /\ InvalidMessage \notin Requests /\ Unset \notin Requests
<1>1. Requests \subseteq WsTraceRequest
  BY RequestsAssumption
<1>2. ASSUME NEW m \in Frame PROVE m \notin WsTraceRequest
  <2>1. "trace_type" \notin DOMAIN m
    BY DEF Frame
  <2>2. \A r \in WsTraceRequest : "trace_type" \in DOMAIN r
    BY DEF WsTraceRequest
  <2> QED BY <2>1, <2>2
<1>3. /\ {InvalidMessage, Paused, Error} \cap (WsTraceRequest \cup Frame) = {}
      /\ InvalidMessage \notin {Paused, Error} /\ Unset \notin WsTraceRequest
  BY MessagesAssumption, NoRequestAssumption
<1> QED BY <1>1, <1>2, <1>3 DEF Controls, Message

\* A control message after any log.
LEMMA LogControl ==
  ASSUME NEW g \in Seq(Message), LogOk(g), NEW m \in Controls
  PROVE  LET h == Append(g, m) IN h \in Seq(Message) /\ LogOk(h) /\ Asks(h, Len(h), Len(h)) /\ h[Len(h)] = m
                                  /\ Len(h) = Len(g) + 1
<1> DEFINE h == Append(g, m)
<1>1. /\ h \in Seq(Message) /\ Len(g) \in Nat /\ Len(h) = Len(g) + 1 /\ h[Len(g) + 1] = m
      /\ \A k \in 1..Len(g) : h[k] = g[k]
      /\ \A j \in 1..Len(g) : \A i : Asks(h, i, j) <=> Asks(g, i, j)
      /\ Asks(h, Len(h), Len(h))
  BY LatestAppend, SentMessages DEF Asks
<1> HIDE DEF h
<1>2. ~IsFrame(m)
  BY DEF IsFrame
<1>3. ASSUME NEW j \in 1..Len(h)
      PROVE  \E i \in 1..j : Asks(h, i, j) /\ (IsFrame(h[j]) => FrameOk(h[i], h[j], j - i))
  <2>1. CASE j = Len(h)
    BY <1>1, <1>2, <2>1
  <2>2. CASE j \in 1..Len(g)
    <3>1. PICK i \in 1..j : Asks(g, i, j) /\ (IsFrame(g[j]) => FrameOk(g[i], g[j], j - i))
      BY <2>2 DEF LogOk
    <3>2. i \in 1..Len(g)
      BY <1>1, <2>2
    <3> QED BY <1>1, <2>2, <3>1, <3>2
  <2> QED BY <1>1, <2>1, <2>2
<1> QED BY <1>1, <1>3 DEF LogOk, h

\* An answer to the control message at i.
LEMMA LogAnswer ==
  ASSUME NEW g \in Seq(Message), LogOk(g), NEW m \in Frame \cup {Paused, Error},
         NEW i, Asks(g, i, Len(g)), m \in Frame => FrameOk(g[i], m, Len(g) + 1 - i)
  PROVE  LET h == Append(g, m) IN h \in Seq(Message) /\ LogOk(h) /\ Asks(h, i, Len(h)) /\ Len(h) = Len(g) + 1
                                  /\ i \in 1..Len(g) /\ h[i] = g[i]
<1> DEFINE h == Append(g, m)
<1>0. m \notin Controls /\ m \in Message /\ (IsFrame(m) => m \in Frame)
  BY SentMessages DEF IsFrame
<1>1. /\ h \in Seq(Message) /\ Len(g) \in Nat /\ Len(h) = Len(g) + 1 /\ h[Len(g) + 1] = m
      /\ \A k \in 1..Len(g) : h[k] = g[k]
      /\ \A j \in 1..Len(g) : \A k : Asks(h, k, j) <=> Asks(g, k, j)
      /\ Asks(h, i, Len(h))
  BY <1>0, LatestAppend DEF Asks
<1> HIDE DEF h
<1>2. i \in 1..Len(g)
  BY DEF Asks, Latest
<1>3. ASSUME NEW j \in 1..Len(h)
      PROVE  \E k \in 1..j : Asks(h, k, j) /\ (IsFrame(h[j]) => FrameOk(h[k], h[j], j - k))
  <2>1. CASE j = Len(h)
    <3>1. i \in 1..j /\ Asks(h, i, j) /\ h[j] = m /\ h[i] = g[i] /\ j = Len(g) + 1
      BY <1>1, <1>2, <2>1
    <3> QED BY <1>0, <3>1
  <2>2. CASE j \in 1..Len(g)
    <3>1. PICK k \in 1..j : Asks(g, k, j) /\ (IsFrame(g[j]) => FrameOk(g[k], g[j], j - k))
      BY <2>2 DEF LogOk
    <3>2. k \in 1..Len(g)
      BY <1>1, <2>2
    <3> QED BY <1>1, <2>2, <3>1, <3>2
  <2> QED BY <1>1, <2>1, <2>2
<1> QED BY <1>1, <1>2, <1>3 DEF LogOk, h

\* A frame is sent whatever the clock and the score are.
LEMMA FrameSent ==
  ASSUME StreamTypeOK, NEW i \in Nat, NEW engine \in Engine \cup {Unset}, NEW prefix,
         SendFrame(i, engine, prefix)
  PROVE  /\ clock' \in Time
         /\ \E m \in Frame : log' = Append(prefix, m) /\ Sends(m, i, engine, alert_engine')
<1> PICK at \in clock..MaxTime, exceeds \in BOOLEAN :
      LET alerts == exceeds /\ Alerts(engine, at)
      IN  /\ clock' = at
          /\ alert_engine' = IF alerts THEN [engine EXCEPT !.last_attempt = at] ELSE engine
          /\ log' = Append(prefix, [chunk_index |-> i, alert |-> IF alerts THEN at ELSE Unset])
  BY DEF SendFrame
<1> DEFINE alerts == exceeds /\ Alerts(engine, at)
           m == [chunk_index |-> i, alert |-> IF alerts THEN at ELSE Unset]
<1>1. at \in Time /\ clock' = at /\ log' = Append(prefix, m)
  BY BoundsAssumption DEF StreamTypeOK, Time
<1>2. m \in Frame /\ m.chunk_index = i
  BY <1>1 DEF Frame
<1>3. CASE ~alerts
  <2>1. m.alert = Unset /\ alert_engine' = engine
    BY <1>3
  <2> QED BY <1>1, <1>2, <2>1 DEF Sends
<1>4. CASE alerts
  <2>1. m.alert = at /\ alert_engine' = [engine EXCEPT !.last_attempt = at]
    BY <1>4
  <2>2. engine \in Engine
    BY <1>4 DEF Alerts
  <2>3. alert_engine' \in Engine
    BY <1>1, <2>1, <2>2 DEF Engine
  <2>4. engine.last_attempt # Unset => at >= engine.last_attempt + ScopeCooldown[engine.policy]
    BY <1>4 DEF Alerts
  <2> QED BY <1>1, <1>2, <2>1, <2>2, <2>3, <2>4 DEF Sends
<1> QED BY <1>3, <1>4

LEMMA StreamStarts == StreamInit => StreamInv
<1> SUFFICES ASSUME StreamInit PROVE StreamInv
  OBVIOUS
<1>1. log = <<>> /\ log \in Seq(Message) /\ Len(log) = 0
  BY EmptySeq DEF StreamInit
<1>2. StreamTypeOK
  <2>1. 0 \in Time
    BY BoundsAssumption DEF Time
  <2>2. log \in Seq(Requests \cup {InvalidMessage, Paused, Error} \cup Frame)
    BY <1>1 DEF Message
  <2> QED BY <2>1, <2>2 DEF StreamInit, StreamTypeOK
<1>3. LogOk(log)
  BY <1>1 DEF LogOk
<1> QED BY <1>1, <1>2, <1>3 DEF StreamInit, StreamInv, Complete

\* The frame of a request that goes on streams it further, or completes it.
LEMMA FrameAnswers ==
  ASSUME NEW g \in Seq(Message), LogOk(g), NEW i, Asks(g, i, Len(g)),
         NEW request \in PolicyRequests, g[i] = request,
         NEW n \in Nat, n = Len(g) - i,
         request.trace_type = "synthetic" => n = 0,
         request.trace_type = "playback" => n < request.n_chunks,
         NEW m \in Frame, m.chunk_index = n
  PROVE  LET h == Append(g, m) IN
         /\ h \in Seq(Message) /\ LogOk(h)
         /\ request.trace_type # "synthetic" /\ ~Finished(request, n + 1) => Streams(h, request, n + 1)
         /\ request.trace_type = "synthetic" \/ Finished(request, n + 1) => Complete(h)
<1> DEFINE h == Append(g, m)
<1>1. i \in 1..Len(g) /\ Len(g) \in Nat
  BY LenProperties DEF Asks, Latest
<1>2. request \in WsTraceRequest /\ request \in Requests /\ request.trace_type # "pause"
  BY RequestsAssumption DEF PolicyRequests
<1>3. request.n_chunks \in Nat /\ request.trace_type \in {"synthetic", "playback", "live", "pause"}
  BY <1>2, BoundsAssumption DEF WsTraceRequest
<1>4. FrameOk(g[i], m, Len(g) + 1 - i)
  BY <1>1 DEF FrameOk
<1>5. h \in Seq(Message) /\ LogOk(h) /\ Asks(h, i, Len(h)) /\ Len(h) = Len(g) + 1 /\ h[i] = request
  BY <1>4, LogAnswer
<1> HIDE DEF h
<1>6. i \in 1..Len(h) /\ Len(h) - i = n + 1 /\ request # InvalidMessage
  BY <1>1, <1>2, <1>5, SentMessages
<1>7. ASSUME request.trace_type # "synthetic", ~Finished(request, n + 1)
      PROVE  Streams(h, request, n + 1)
  BY <1>2, <1>3, <1>5, <1>6, <1>7 DEF Streams, Finished
<1>8. ASSUME request.trace_type = "synthetic" \/ Finished(request, n + 1)
      PROVE  Complete(h)
  <2>1. /\ request.trace_type # "live"
        /\ request.trace_type = "playback" => n + 1 = request.n_chunks
        /\ request.trace_type # "playback" => n + 1 = 1
    <3>1. CASE request.trace_type = "synthetic"
      BY <3>1
    <3>2. CASE request.trace_type = "playback" /\ n + 1 >= request.n_chunks
      BY <1>3, <3>2
    <3> QED BY <1>8, <3>1, <3>2 DEF Finished
  <2> QED BY <1>2, <1>5, <1>6, <2>1 DEF Complete
<1> QED BY <1>5, <1>7, <1>8 DEF h

LEMMA StreamTick == StreamInv /\ Tick => StreamInv'
<1> SUFFICES ASSUME StreamInv, Tick PROVE StreamInv'
  OBVIOUS
<1>1. /\ StreamTypeOK /\ LogOk(log) /\ active # Unset /\ Streams(log, active, index)
      /\ log \in Seq(Message)
  BY DEF StreamInv, StreamTypeOK, Tick, Message
<1>2. PICK i \in 1..Len(log) :
        /\ Asks(log, i, Len(log)) /\ log[i] = active /\ active \in Requests /\ index = Len(log) - i
        /\ index > 0 /\ active.trace_type \in {"playback", "live"}
        /\ active.trace_type = "playback" => index < active.n_chunks
  BY <1>1 DEF Streams
<1>3. PICK m \in Frame : log' = Append(log, m) /\ Sends(m, index, alert_engine, alert_engine')
  BY <1>1, FrameSent DEF Tick, StreamTypeOK
<1>4. active \in PolicyRequests /\ m.chunk_index = index /\ index \in Nat
  BY <1>1, <1>2, <1>3 DEF PolicyRequests, Sends, StreamTypeOK
<1>5. /\ log' \in Seq(Message) /\ LogOk(log')
      /\ ~Finished(active, index + 1) => Streams(log', active, index + 1)
      /\ Finished(active, index + 1) => Complete(log')
  BY <1>1, <1>2, <1>3, <1>4, FrameAnswers
<1>6. /\ index' = index + 1 /\ active' = IF Finished(active, index + 1) THEN Unset ELSE active
      /\ UNCHANGED <<alert_policy, closed>> /\ clock' \in Time
  BY <1>1, FrameSent DEF Tick, StreamTypeOK
<1>7. StreamTypeOK'
  BY <1>1, <1>3, <1>4, <1>5, <1>6 DEF StreamTypeOK, Message, Sends
<1> QED BY <1>1, <1>5, <1>6, <1>7 DEF StreamInv

\* An invalid message and a pause get one answer each and end the stream.
Ends(m, answer) == /\ m \in Controls /\ answer \in {Paused, Error}
                   /\ m = InvalidMessage \/ (m \in Requests /\ m.trace_type = "pause")

LEMMA AnswerEnds ==
  ASSUME NEW g \in Seq(Message), LogOk(g), NEW m, NEW answer, Ends(m, answer),
         NEW h, h = Append(Append(g, m), answer)
  PROVE  h \in Seq(Message) /\ LogOk(h) /\ Complete(h)
<1> DEFINE f == Append(g, m)
<1>1. f \in Seq(Message) /\ LogOk(f) /\ Asks(f, Len(f), Len(f)) /\ f[Len(f)] = m /\ Len(f) = Len(g) + 1
  BY LogControl DEF Ends
<1> HIDE DEF f
<1>2. answer \in {Paused, Error} /\ answer \notin Frame
  BY SentMessages DEF Ends
<1>3. /\ h \in Seq(Message) /\ LogOk(h) /\ Asks(h, Len(f), Len(h)) /\ Len(h) = Len(f) + 1
      /\ Len(f) \in 1..Len(f) /\ h[Len(f)] = m
  <2>1. h = Append(f, answer)
    BY DEF f
  <2> QED BY <1>1, <1>2, <2>1, LogAnswer
<1>4. Len(f) \in 1..Len(h) /\ Len(h) - Len(f) = 1
  BY <1>1, <1>3, LenProperties
<1>5. Complete(h)
  BY <1>3, <1>4 DEF Complete, Ends
<1> QED BY <1>3, <1>5

LEMMA StreamReceiveInvalid == StreamInv /\ ReceiveInvalid => StreamInv'
<1> SUFFICES ASSUME StreamInv, ReceiveInvalid PROVE StreamInv'
  OBVIOUS
<1>1. StreamTypeOK /\ LogOk(log) /\ log \in Seq(Message)
  BY DEF StreamInv, StreamTypeOK, Message
<1>2. /\ active' = Unset /\ UNCHANGED <<index, alert_policy, alert_engine, clock, closed>>
      /\ log' = log \o <<InvalidMessage, Error>>
  BY DEF ReceiveInvalid
<1>3. InvalidMessage \in Message /\ Error \in Message /\ InvalidMessage \in Controls
  BY DEF Message, Controls
<1>4. log' = Append(Append(log, InvalidMessage), Error)
  BY <1>1, <1>2, <1>3
<1>5. log' \in Seq(Message) /\ LogOk(log') /\ Complete(log')
  <2>1. Ends(InvalidMessage, Error)
    BY <1>3 DEF Ends
  <2> QED BY <1>1, <1>4, <2>1, AnswerEnds
<1>6. StreamTypeOK'
  BY <1>1, <1>2, <1>5 DEF StreamTypeOK, Message
<1> QED BY <1>2, <1>5, <1>6 DEF StreamInv

\* The engine that evaluates the frames of request r.
EngineFor(r) == IF ChangesPolicy(r) THEN NewEngine(r.alerts) ELSE alert_engine

LEMMA EngineType ==
  ASSUME StreamTypeOK, NEW r \in Requests
  PROVE  EngineFor(r) \in Engine \cup {Unset} /\ r.alerts \in Policies \cup {Unset}
<1>1. r \in WsTraceRequest
  BY RequestsAssumption
<1>2. r.alerts \in Policies \cup {Unset}
  BY <1>1 DEF WsTraceRequest
<1>3. NewEngine(r.alerts) \in Engine \cup {Unset}
  BY <1>2 DEF NewEngine, Engine
<1> QED BY <1>2, <1>3 DEF EngineFor, StreamTypeOK

LEMMA StreamReceive ==
  ASSUME StreamInv, NEW r \in Requests, Receive(r) PROVE StreamInv'
<1> DEFINE handled == Append(log, r)
<1>1. /\ StreamTypeOK /\ LogOk(log) /\ log \in Seq(Message) /\ index \in Nat /\ clock \in Time
      /\ alert_policy \in Policies \cup {Unset} /\ closed \in BOOLEAN
  BY DEF StreamInv, StreamTypeOK, Message
<1>2. r \in Controls /\ EngineFor(r) \in Engine \cup {Unset} /\ r.alerts \in Policies \cup {Unset}
  BY <1>1, EngineType DEF Controls
<1>3. /\ handled \in Seq(Message) /\ LogOk(handled) /\ Asks(handled, Len(handled), Len(handled))
      /\ handled[Len(handled)] = r
  BY <1>1, <1>2, LogControl
<1>4. alert_policy' \in Policies \cup {Unset} /\ closed' \in BOOLEAN
  BY <1>1, <1>2 DEF Receive
<1>5. CASE r.trace_type = "pause"
  <2>1. /\ active' = Unset /\ alert_engine' = EngineFor(r) /\ log' = Append(handled, Paused)
        /\ UNCHANGED <<index, clock>>
    BY <1>5 DEF Receive, EngineFor
  <2>2. log' \in Seq(Message) /\ LogOk(log') /\ Complete(log')
    <3>1. Ends(r, Paused)
      BY <1>2, <1>5 DEF Ends
    <3> QED BY <1>1, <2>1, <3>1, AnswerEnds
  <2>3. StreamTypeOK'
    BY <1>1, <1>2, <1>4, <2>1, <2>2 DEF StreamTypeOK, Message
  <2> QED BY <2>1, <2>2, <2>3 DEF StreamInv
<1>6. CASE r.trace_type # "pause"
  <2>1. SendFrame(0, EngineFor(r), handled)
    BY <1>6 DEF Receive, EngineFor
  <2>2. PICK m \in Frame : log' = Append(handled, m) /\ Sends(m, 0, EngineFor(r), alert_engine')
    BY <1>1, <1>2, <2>1, FrameSent
  <2>3. clock' \in Time /\ alert_engine' \in Engine \cup {Unset} /\ m.chunk_index = 0
    <3>1. clock' \in Time
      BY <1>1, <1>2, <2>1, FrameSent
    <3> QED BY <2>2, <3>1 DEF Sends
  <2>4. r \in PolicyRequests /\ r.n_chunks \in Nat \ {0} /\ Len(handled) - Len(handled) = 0
    BY <1>3, <1>6, RequestsAssumption, BoundsAssumption, LenProperties DEF PolicyRequests, WsTraceRequest
  <2> HIDE DEF handled
  <2>5. /\ log' \in Seq(Message) /\ LogOk(log')
        /\ r.trace_type # "synthetic" /\ ~Finished(r, 0 + 1) => Streams(log', r, 0 + 1)
        /\ r.trace_type = "synthetic" \/ Finished(r, 0 + 1) => Complete(log')
    <3>1. /\ r.trace_type = "synthetic" => 0 = 0
          /\ r.trace_type = "playback" => 0 < r.n_chunks
      BY <2>4
    <3> QED BY <1>3, <2>2, <2>3, <2>4, <3>1, FrameAnswers
  <2>6. CASE r.trace_type = "synthetic"
    <3>1. active' = Unset /\ index' = index
      BY <2>6 DEF Receive
    <3>2. StreamTypeOK'
      BY <1>1, <1>4, <2>3, <2>5, <3>1 DEF StreamTypeOK, Message
    <3> QED BY <2>5, <2>6, <3>1, <3>2 DEF StreamInv
  <2>7. CASE r.trace_type # "synthetic"
    <3>1. active' = (IF Finished(r, 1) THEN Unset ELSE r) /\ index' = 1
      BY <1>6, <2>7 DEF Receive
    <3>2. StreamTypeOK'
      BY <1>1, <1>4, <2>3, <2>5, <3>1 DEF StreamTypeOK, Message
    <3>3. r # Unset
      BY SentMessages
    <3> QED BY <2>5, <2>7, <3>1, <3>2, <3>3 DEF StreamInv
  <2> QED BY <2>6, <2>7
<1> QED BY <1>5, <1>6

LEMMA StreamStep == StreamInv /\ [StreamNext]_streamVars => StreamInv'
<1> SUFFICES ASSUME StreamInv, [StreamNext]_streamVars PROVE StreamInv'
  OBVIOUS
<1>1. CASE Disconnect \/ UNCHANGED streamVars
  <2>1. UNCHANGED <<active, index, alert_policy, alert_engine, clock, log>> /\ closed' \in BOOLEAN
    BY <1>1 DEF Disconnect, streamVars, StreamInv, StreamTypeOK
  <2>2. StreamTypeOK'
    BY <2>1 DEF StreamInv, StreamTypeOK
  <2> QED BY <2>1, <2>2 DEF StreamInv
<1> QED BY <1>1, StreamTick, StreamReceiveInvalid, StreamReceive DEF StreamNext

LEMMA StreamAlways == StreamSpec => []StreamInv
BY StreamStarts, StreamStep, PTL DEF StreamSpec

\* Answered(j) is the control message at i.
LEMMA AnsweredIsAsked ==
  ASSUME StreamInv, NEW j \in 1..Len(log), NEW i, Asks(log, i, j)
  PROVE  Answered(j) = i
<1>1. j \in Nat /\ i \in 1..j
  BY DEF Asks, Latest
<1> DEFINE P(k) == log[k] \in Controls /\ \A l \in (k + 1)..j : log[l] \notin Controls
<1>2. P(i)
  BY DEF Asks, Latest
<1>3. \A k \in 1..j : P(k) => k = i
  BY <1>1, LatestUnique DEF Asks, Latest
<1> QED BY <1>1, <1>2, <1>3 DEF Answered

\* What a client of websocket_traces is sent is what it asked for: every frame
\* answers the latest control message, in order and no more of them than it
\* asks for, and an idle server has answered the last one completely.
THEOREM StreamAnswers == StreamSpec => []StreamAnswersControls
<1>1. StreamInv => StreamAnswersControls
  <2> SUFFICES ASSUME StreamInv PROVE StreamAnswersControls
    OBVIOUS
  <2>1. StreamTypeOK /\ LogOk(log) /\ log \in Seq(Message) /\ Len(log) \in Nat
    BY LenProperties DEF StreamInv, StreamTypeOK, Message
  <2>2. ASSUME NEW j \in 1..Len(log), IsFrame(log[j])
        PROVE  LET i == Answered(j)
                   request == log[i]
               IN  /\ request \in Requests
                   /\ log[j].chunk_index = j - i - 1
                   /\ CASE request.trace_type = "synthetic" -> log[j].chunk_index = 0
                        [] request.trace_type = "playback" -> log[j].chunk_index < request.n_chunks
                        [] OTHER -> request.trace_type = "live"
    <3>1. PICK i \in 1..j : Asks(log, i, j) /\ FrameOk(log[i], log[j], j - i)
      BY <2>1, <2>2 DEF LogOk
    <3>2. Answered(j) = i
      BY <3>1, AnsweredIsAsked
    <3>3. log[i] \in WsTraceRequest /\ log[i] \in Requests /\ log[i].trace_type # "pause"
      BY <3>1, RequestsAssumption DEF FrameOk, PolicyRequests
    <3>4. log[i].trace_type \in {"synthetic", "playback", "live"}
      BY <3>3 DEF WsTraceRequest
    <3>5. /\ log[j].chunk_index = j - i - 1
          /\ log[i].trace_type = "synthetic" => log[j].chunk_index = 0
          /\ log[i].trace_type = "playback" => log[j].chunk_index < log[i].n_chunks
      BY <2>1, <3>1 DEF FrameOk
    <3> QED BY <3>2, <3>3, <3>4, <3>5
  <2>3. ASSUME active = Unset, log # <<>>
        PROVE  LET i == Answered(Len(log))
                   answers == Len(log) - i
               IN  IF log[i] = InvalidMessage THEN answers = 1
                   ELSE CASE log[i].trace_type = "playback" -> answers = log[i].n_chunks
                          [] OTHER -> log[i].trace_type \in {"synthetic", "pause"} /\ answers = 1
    <3>1. PICK i \in 1..Len(log) :
            /\ Asks(log, i, Len(log))
            /\ IF log[i] = InvalidMessage THEN Len(log) - i = 1
               ELSE /\ log[i] \in Requests /\ log[i].trace_type # "live"
                    /\ log[i].trace_type = "playback" => Len(log) - i = log[i].n_chunks
                    /\ log[i].trace_type # "playback" => Len(log) - i = 1
      BY <2>3 DEF StreamInv, Complete
    <3>2. Answered(Len(log)) = i
      BY <2>1, <3>1, AnsweredIsAsked
    <3>3. log[i] \in Requests => log[i].trace_type \in {"synthetic", "playback", "live", "pause"}
      BY RequestsAssumption DEF WsTraceRequest
    <3> QED BY <3>1, <3>2, <3>3
  <2> QED BY <2>1, <2>2, <2>3 DEF StreamAnswersControls, FramesFollowControls, IdleMeansComplete
<1> QED BY <1>1, StreamAlways, PTL

-----------------------------------------------------------------------------
(* The cooldown of a stream's alerts.  The engine knows of an alert as long *)
(* as the policy stays the one it was sent under.                           *)

Alerted(g, i) == i \in 1..Len(g) /\ IsFrame(g[i]) /\ g[i].alert # Unset

\* One policy p is in force from message i to message j.
OnePolicy(g, i, j, p) == \A k \in i..j : \A a : Governs(g, a, k) => g[a].alerts = p

PolicyKept(g, policy, engine) ==
  /\ \A a : Governs(g, a, Len(g)) => g[a].alerts = policy
  /\ policy = Unset => engine = Unset
  /\ policy # Unset => engine \in Engine /\ engine.policy = policy

AlertsGoverned(g) ==
  \A i : Alerted(g, i) => g[i].alert \in Nat /\ \E a : Governs(g, a, i) /\ g[a].alerts \in Policies

AlertsRemembered(g, policy, engine) ==
  \A i : \A p \in Policies :
    Alerted(g, i) /\ OnePolicy(g, i, Len(g), p) =>
      /\ policy = p /\ engine.last_attempt \in Time /\ g[i].alert <= engine.last_attempt

Spaced(g) ==
  \A i, j : \A p \in Policies :
    Alerted(g, i) /\ Alerted(g, j) /\ i < j /\ OnePolicy(g, i, j, p) =>
      g[j].alert >= g[i].alert + ScopeCooldown[p]

ScopeOk(g, policy, engine) == /\ PolicyKept(g, policy, engine) /\ AlertsGoverned(g)
                              /\ AlertsRemembered(g, policy, engine) /\ Spaced(g)

\* What a message more leaves of the alerts and policies before it.
LEMMA AlertedBefore ==
  ASSUME NEW g \in Seq(Message), NEW m \in Message
  PROVE  LET h == Append(g, m)
         IN  /\ h \in Seq(Message) /\ Len(g) \in Nat /\ Len(h) = Len(g) + 1 /\ h[Len(h)] = m
             /\ \A k \in 1..Len(g) : h[k] = g[k]
             /\ \A i \in 1..Len(g) : Alerted(h, i) <=> Alerted(g, i)
             /\ \A i \in 1..Len(g) : \A a : Governs(h, a, i) <=> Governs(g, a, i)
             /\ \A i, j \in 1..Len(g) : \A p : OnePolicy(h, i, j, p) <=> OnePolicy(g, i, j, p)
             /\ \A i \in 1..Len(g) : \A p : OnePolicy(h, i, Len(h), p) => OnePolicy(g, i, Len(g), p)
<1> DEFINE h == Append(g, m)
           n == Len(g)
<1>1. /\ h \in Seq(Message) /\ n \in Nat /\ Len(h) = n + 1 /\ h[n + 1] = m
      /\ \A k \in 1..n : h[k] = g[k]
      /\ \A i \in 1..n : \A a : Governs(h, a, i) <=> Governs(g, a, i)
  BY LatestAppend DEF Governs
<1> HIDE DEF h, n
<1>2. \A i \in 1..n : Alerted(h, i) <=> Alerted(g, i)
  <2>1. \A i \in 1..n : i \in 1..Len(h) /\ i \in 1..Len(g)
    BY <1>1 DEF n
  <2> QED BY <1>1, <2>1 DEF Alerted
<1>3. ASSUME NEW i \in 1..n, NEW k \in i..n
      PROVE  k \in 1..n /\ \A a : Governs(h, a, k) => h[a] = g[a]
  <2>1. k \in 1..n
    BY <1>1
  <2>2. \A a \in 1..k : a \in 1..n
    BY <1>1
  <2> QED BY <1>1, <2>1, <2>2 DEF Governs, Latest
<1>4. ASSUME NEW i \in 1..n, NEW j \in 1..n, NEW p PROVE OnePolicy(h, i, j, p) <=> OnePolicy(g, i, j, p)
  <2>1. \A k \in i..j : k \in i..n
    BY <1>1
  <2> QED BY <1>1, <1>3, <2>1 DEF OnePolicy
<1>5. ASSUME NEW i \in 1..n, NEW p, OnePolicy(h, i, Len(h), p) PROVE OnePolicy(g, i, n, p)
  <2>1. \A k \in i..n : k \in i..Len(h)
    BY <1>1
  <2> QED BY <1>1, <1>3, <1>5, <2>1 DEF OnePolicy
<1> QED BY <1>1, <1>2, <1>4, <1>5 DEF h, n

\* A pause, an invalid message, an answer and a frame without an alert.
LEMMA ScopeSilent ==
  ASSUME NEW g \in Seq(Message), NEW policy, NEW engine, ScopeOk(g, policy, engine),
         NEW m \in Message, m \notin PolicyRequests, IsFrame(m) => m.alert = Unset
  PROVE  ScopeOk(Append(g, m), policy, engine)
<1> DEFINE h == Append(g, m)
           n == Len(g)
<1>1. /\ h \in Seq(Message) /\ n \in Nat /\ Len(h) = n + 1 /\ h[Len(h)] = m
      /\ \A k \in 1..n : h[k] = g[k]
      /\ \A i \in 1..n : Alerted(h, i) <=> Alerted(g, i)
      /\ \A i \in 1..n : \A a : Governs(h, a, i) <=> Governs(g, a, i)
      /\ \A i, j \in 1..n : \A p : OnePolicy(h, i, j, p) <=> OnePolicy(g, i, j, p)
      /\ \A i \in 1..n : \A p : OnePolicy(h, i, Len(h), p) => OnePolicy(g, i, n, p)
  BY AlertedBefore
<1>2. \A a : Governs(h, a, Len(h)) <=> Governs(g, a, n)
  BY LatestAppend DEF Governs
<1>3. \A i : \A a : Governs(g, a, i) /\ i \in 1..n => a \in 1..n
  BY <1>1 DEF Governs, Latest
<1>4. n \in Nat /\ \A a : Governs(g, a, n) => a \in 1..n
  BY <1>1 DEF Governs, Latest
<1> HIDE DEF h, n
<1>5. \A i : Alerted(h, i) => i \in 1..n /\ Alerted(g, i) /\ h[i] = g[i]
  <2> SUFFICES ASSUME NEW i, Alerted(h, i) PROVE i \in 1..n
    BY <1>1
  <2>1. i \in 1..n + 1 /\ i # n + 1
    BY <1>1 DEF Alerted
  <2> QED BY <1>1, <2>1
<1>6. PolicyKept(h, policy, engine)
  BY <1>1, <1>2, <1>4 DEF ScopeOk, PolicyKept, n
<1>7. AlertsGoverned(h)
  BY <1>1, <1>3, <1>5 DEF ScopeOk, AlertsGoverned
<1>8. AlertsRemembered(h, policy, engine)
  BY <1>1, <1>5 DEF ScopeOk, AlertsRemembered, n
<1>9. Spaced(h)
  BY <1>1, <1>5 DEF ScopeOk, Spaced
<1> QED BY <1>6, <1>7, <1>8, <1>9 DEF ScopeOk, h

\* A request that keeps the policy keeps the engine; another starts a new one.
LEMMA ScopeRequest ==
  ASSUME NEW g \in Seq(Message), NEW policy, NEW engine, ScopeOk(g, policy, engine),
         NEW r \in PolicyRequests
  PROVE  ScopeOk(Append(g, r), r.alerts, IF r.alerts # policy THEN NewEngine(r.alerts) ELSE engine)
<1> DEFINE h == Append(g, r)
           n == Len(g)
           left == IF r.alerts # policy THEN NewEngine(r.alerts) ELSE engine
<1>0. r \in Message /\ ~IsFrame(r) /\ r.alerts \in Policies \cup {Unset}
  BY RequestsAssumption, SentMessages DEF PolicyRequests, IsFrame, Controls, WsTraceRequest
<1>1. /\ h \in Seq(Message) /\ n \in Nat /\ Len(h) = n + 1 /\ h[Len(h)] = r
      /\ \A k \in 1..n : h[k] = g[k]
      /\ \A i \in 1..n : Alerted(h, i) <=> Alerted(g, i)
      /\ \A i \in 1..n : \A a : Governs(h, a, i) <=> Governs(g, a, i)
      /\ \A i, j \in 1..n : \A p : OnePolicy(h, i, j, p) <=> OnePolicy(g, i, j, p)
      /\ \A i \in 1..n : \A p : OnePolicy(h, i, Len(h), p) => OnePolicy(g, i, n, p)
  BY <1>0, AlertedBefore
<1>2. Governs(h, Len(h), Len(h))
  BY <1>0, LatestAppend DEF Governs
<1>3. \A i : \A a : Governs(g, a, i) /\ i \in 1..n => a \in 1..n
  BY <1>1 DEF Governs, Latest
<1>4. \A a : Governs(h, a, Len(h)) => a = Len(h)
  BY <1>1, <1>2, LatestUnique DEF Governs
<1> HIDE DEF h, n
<1>5. \A i : Alerted(h, i) => i \in 1..n /\ Alerted(g, i) /\ h[i] = g[i]
  <2> SUFFICES ASSUME NEW i, Alerted(h, i) PROVE i \in 1..n
    BY <1>1
  <2>1. i \in 1..n + 1 /\ i # n + 1
    BY <1>0, <1>1 DEF Alerted
  <2> QED BY <1>1, <2>1
<1>6. PolicyKept(h, r.alerts, left)
  BY <1>0, <1>1, <1>4 DEF ScopeOk, PolicyKept, NewEngine, Engine
<1>7. AlertsGoverned(h)
  BY <1>1, <1>3, <1>5 DEF ScopeOk, AlertsGoverned
<1>8. AlertsRemembered(h, r.alerts, left)
  <2> SUFFICES ASSUME NEW i, NEW p \in Policies, Alerted(h, i), OnePolicy(h, i, Len(h), p)
               PROVE  r.alerts = p /\ left.last_attempt \in Time /\ h[i].alert <= left.last_attempt
    BY DEF AlertsRemembered
  <2>1. /\ Alerted(g, i) /\ OnePolicy(g, i, n, p) /\ h[i] = g[i] /\ i \in 1..n
    BY <1>1, <1>5
  <2>2. policy = p /\ engine.last_attempt \in Time /\ g[i].alert <= engine.last_attempt
    BY <2>1 DEF ScopeOk, AlertsRemembered, n
  <2>3. Len(h) \in i..Len(h)
    BY <1>1, <2>1
  <2>4. r.alerts = p
    BY <1>1, <1>2, <2>3 DEF OnePolicy
  <2> QED BY <2>1, <2>2, <2>4
<1>9. Spaced(h)
  BY <1>1, <1>5 DEF ScopeOk, Spaced
<1> HIDE DEF left
<1>10. ScopeOk(h, r.alerts, left)
  BY <1>6, <1>7, <1>8, <1>9 DEF ScopeOk
<1> QED BY <1>10 DEF h, left

\* A frame that alerts, with the cooldown of the engine's policy behind it.
LEMMA ScopeAlert ==
  ASSUME NEW g \in Seq(Message), NEW policy, NEW engine, ScopeOk(g, policy, engine),
         NEW m \in Frame, m.alert # Unset, NEW asked, Asks(g, asked, Len(g)), g[asked] \in PolicyRequests,
         NEW i0, NEW left, Sends(m, i0, engine, left)
  PROVE  ScopeOk(Append(g, m), policy, left)
<1> DEFINE h == Append(g, m)
           n == Len(g)
<1>0. m \in Message /\ m \notin PolicyRequests /\ m.alert \in Time
  BY SentMessages DEF PolicyRequests, Controls, Frame
<1>1. /\ h \in Seq(Message) /\ n \in Nat /\ Len(h) = n + 1 /\ h[Len(h)] = m
      /\ \A k \in 1..n : h[k] = g[k]
      /\ \A i \in 1..n : Alerted(h, i) <=> Alerted(g, i)
      /\ \A i \in 1..n : \A a : Governs(h, a, i) <=> Governs(g, a, i)
      /\ \A i, j \in 1..n : \A p : OnePolicy(h, i, j, p) <=> OnePolicy(g, i, j, p)
      /\ \A i \in 1..n : \A p : OnePolicy(h, i, Len(h), p) => OnePolicy(g, i, n, p)
  BY <1>0, AlertedBefore
<1>2. \A a : Governs(h, a, Len(h)) <=> Governs(g, a, n)
  BY <1>0, LatestAppend DEF Governs
<1>3. \A i : \A a : Governs(g, a, i) /\ i \in 1..n => a \in 1..n
  BY <1>1 DEF Governs, Latest
<1>4. Governs(g, asked, n) /\ asked \in 1..n
  <2>1. PolicyRequests \subseteq Controls
    BY DEF PolicyRequests, Controls
  <2> QED BY <2>1 DEF Asks, Governs, Latest
<1>5. g[asked].alerts = policy
  BY <1>4 DEF ScopeOk, PolicyKept
<1>6. /\ engine \in Engine /\ left = [engine EXCEPT !.last_attempt = m.alert]
      /\ engine.last_attempt # Unset => m.alert >= engine.last_attempt + ScopeCooldown[engine.policy]
  BY DEF Sends
<1>7. /\ policy \in Policies /\ engine.policy = policy /\ left \in Engine /\ left.policy = policy
      /\ left.last_attempt = m.alert /\ policy # Unset
  <2>1. Unset \notin Engine
    BY NoEngineAssumption
  <2>2. policy # Unset /\ engine.policy = policy
    BY <1>6, <2>1 DEF ScopeOk, PolicyKept
  <2> QED BY <1>0, <1>6, <2>2 DEF Engine
<1>8. Time \subseteq Nat /\ Unset \notin Time /\ ScopeCooldown[policy] \in Nat
  BY <1>7, BoundsAssumption, NoRequestAssumption, ScopeCooldownAssumption DEF Time
<1> HIDE DEF h, n
<1>9. \A i : Alerted(h, i) => i = Len(h) \/ (i \in 1..n /\ Alerted(g, i) /\ h[i] = g[i] /\ g[i].alert \in Nat)
  <2> SUFFICES ASSUME NEW i, Alerted(h, i), i # Len(h) PROVE i \in 1..n /\ g[i].alert \in Nat
    BY <1>1
  <2>1. i \in 1..n
    BY <1>1 DEF Alerted
  <2> QED BY <1>1, <2>1 DEF ScopeOk, AlertsGoverned
<1>10. PolicyKept(h, policy, left)
  BY <1>1, <1>2, <1>3, <1>4, <1>7 DEF ScopeOk, PolicyKept, n
<1>11. AlertsGoverned(h)
  <2> SUFFICES ASSUME NEW i, Alerted(h, i)
               PROVE  h[i].alert \in Nat /\ \E a : Governs(h, a, i) /\ h[a].alerts \in Policies
    BY DEF AlertsGoverned
  <2>1. CASE i = Len(h)
    <3>1. Governs(h, asked, i) /\ h[asked].alerts \in Policies
      BY <1>1, <1>2, <1>4, <1>5, <1>7, <2>1
    <3> QED BY <1>0, <1>1, <1>8, <2>1, <3>1
  <2>2. CASE i # Len(h)
    BY <1>1, <1>3, <1>9, <2>2 DEF ScopeOk, AlertsGoverned
  <2> QED BY <2>1, <2>2
<1>12. ASSUME NEW i, NEW p \in Policies, Alerted(h, i), OnePolicy(h, i, Len(h), p), i # Len(h)
       PROVE  policy = p /\ h[i].alert <= m.alert /\ m.alert >= h[i].alert + ScopeCooldown[p]
  <2>1. i \in 1..n /\ Alerted(g, i) /\ h[i] = g[i] /\ g[i].alert \in Nat /\ OnePolicy(g, i, n, p)
    BY <1>1, <1>9, <1>12
  <2>2. policy = p /\ engine.last_attempt \in Time /\ g[i].alert <= engine.last_attempt
    BY <2>1 DEF ScopeOk, AlertsRemembered, n
  <2>3. m.alert >= engine.last_attempt + ScopeCooldown[p]
    BY <1>6, <1>7, <1>8, <2>2
  <2>4. ScopeCooldown[p] \in Nat /\ engine.last_attempt \in Nat /\ m.alert \in Nat
    BY <1>0, <1>8, <2>2
  <2>5. policy = p /\ h[i].alert = g[i].alert
    BY <2>1, <2>2
  <2> QED BY <2>1, <2>2, <2>3, <2>4, <2>5
<1>13. AlertsRemembered(h, policy, left)
  <2> SUFFICES ASSUME NEW i, NEW p \in Policies, Alerted(h, i), OnePolicy(h, i, Len(h), p)
               PROVE  policy = p /\ left.last_attempt \in Time /\ h[i].alert <= left.last_attempt
    BY DEF AlertsRemembered
  <2>1. CASE i = Len(h)
    <3>1. h[i] = m /\ Len(h) \in i..Len(h)
      BY <1>1, <2>1
    <3>3. m.alert \in Nat /\ m.alert <= m.alert
      <4>1. m.alert \in Nat
        BY <1>0, <1>8
      <4> QED BY <4>1
    <3>2. Governs(h, asked, Len(h)) /\ h[asked].alerts = policy
      BY <1>1, <1>2, <1>4, <1>5
    <3> QED BY <1>0, <1>7, <3>1, <3>2, <3>3 DEF OnePolicy
  <2>2. CASE i # Len(h)
    BY <1>0, <1>7, <1>12, <2>2
  <2> QED BY <2>1, <2>2
<1>14. Spaced(h)
  <2> SUFFICES ASSUME NEW i, NEW j, NEW p \in Policies, Alerted(h, i), Alerted(h, j), i < j,
                      OnePolicy(h, i, j, p)
               PROVE  h[j].alert >= h[i].alert + ScopeCooldown[p]
    BY DEF Spaced
  <2>1. i # Len(h)
    BY <1>1 DEF Alerted
  <2>2. CASE j = Len(h)
    BY <1>1, <1>12, <2>1, <2>2
  <2>3. CASE j # Len(h)
    BY <1>1, <1>9, <2>1, <2>3 DEF ScopeOk, Spaced
  <2> QED BY <2>2, <2>3
<1> QED BY <1>10, <1>11, <1>13, <1>14 DEF ScopeOk, h

\* A frame that answers a request, with or without an alert.
LEMMA ScopeFrame ==
  ASSUME NEW g \in Seq(Message), NEW policy, NEW engine, ScopeOk(g, policy, engine),
         NEW asked, Asks(g, asked, Len(g)), g[asked] \in PolicyRequests,
         NEW m, NEW i, NEW left, Sends(m, i, engine, left)
  PROVE  ScopeOk(Append(g, m), policy, left)
<1>1. m \in Frame /\ m \in Message /\ m \notin PolicyRequests
  BY SentMessages DEF Sends, PolicyRequests, Controls
<1>2. CASE m.alert = Unset
  <2>1. left = engine
    <3>1. m.alert \notin Time
      BY <1>2, BoundsAssumption, NoRequestAssumption DEF Time
    <3> QED BY <1>2, <3>1 DEF Sends
  <2> QED BY <1>1, <1>2, <2>1, ScopeSilent
<1>3. CASE m.alert # Unset
  BY <1>1, <1>3, ScopeAlert
<1> QED BY <1>2, <1>3

AlertsInv == StreamInv /\ ScopeOk(log, alert_policy, alert_engine)

LEMMA AlertsStart == StreamInit => AlertsInv
<1> SUFFICES ASSUME StreamInit PROVE ScopeOk(log, alert_policy, alert_engine)
  BY StreamStarts DEF AlertsInv
<1>1. log = <<>> /\ Len(log) = 0 /\ alert_policy = Unset /\ alert_engine = Unset
  BY EmptySeq DEF StreamInit
<1>2. \A i : ~Alerted(log, i) /\ \A a : ~Governs(log, a, Len(log))
  BY <1>1 DEF Alerted, Governs, Latest
<1> QED BY <1>1, <1>2 DEF ScopeOk, PolicyKept, AlertsGoverned, AlertsRemembered, Spaced

LEMMA AlertsTick == AlertsInv /\ Tick => ScopeOk(log, alert_policy, alert_engine)'
<1> SUFFICES ASSUME AlertsInv, Tick PROVE ScopeOk(log, alert_policy, alert_engine)'
  OBVIOUS
<1>1. /\ StreamTypeOK /\ Streams(log, active, index) /\ ScopeOk(log, alert_policy, alert_engine)
      /\ log \in Seq(Message) /\ index \in Nat /\ alert_engine \in Engine \cup {Unset}
  BY DEF AlertsInv, StreamInv, StreamTypeOK, Tick, Message
<1>2. PICK i \in 1..Len(log) : Asks(log, i, Len(log)) /\ log[i] \in PolicyRequests
  BY <1>1 DEF Streams, PolicyRequests
<1>3. PICK m \in Frame : log' = Append(log, m) /\ Sends(m, index, alert_engine, alert_engine')
  BY <1>1, FrameSent DEF Tick
<1>4. alert_policy' = alert_policy
  BY DEF Tick
<1> QED BY <1>1, <1>2, <1>3, <1>4, ScopeFrame

LEMMA AlertsReceiveInvalid == AlertsInv /\ ReceiveInvalid => ScopeOk(log, alert_policy, alert_engine)'
<1> SUFFICES ASSUME AlertsInv, ReceiveInvalid PROVE ScopeOk(log, alert_policy, alert_engine)'
  OBVIOUS
<1>1. ScopeOk(log, alert_policy, alert_engine) /\ log \in Seq(Message)
  BY DEF AlertsInv, StreamInv, StreamTypeOK, Message
<1>2. UNCHANGED <<alert_policy, alert_engine>> /\ log' = log \o <<InvalidMessage, Error>>
  BY DEF ReceiveInvalid
<1>3. /\ {InvalidMessage, Error} \subseteq Message /\ {InvalidMessage, Error} \cap PolicyRequests = {}
      /\ ~IsFrame(InvalidMessage) /\ ~IsFrame(Error)
  BY SentMessages DEF Message, Controls, PolicyRequests, IsFrame
<1> DEFINE reported == Append(log, InvalidMessage)
<1>4. log' = Append(reported, Error)
  BY <1>1, <1>2, <1>3
<1>5. reported \in Seq(Message) /\ ScopeOk(reported, alert_policy, alert_engine)
  BY <1>1, <1>3, ScopeSilent
<1> HIDE DEF reported
<1>6. ScopeOk(Append(reported, Error), alert_policy, alert_engine)
  BY <1>3, <1>5, ScopeSilent
<1> QED BY <1>2, <1>4, <1>6

LEMMA AlertsReceive ==
  ASSUME AlertsInv, NEW r \in Requests, Receive(r) PROVE ScopeOk(log, alert_policy, alert_engine)'
<1> DEFINE handled == Append(log, r)
<1>1. /\ StreamTypeOK /\ LogOk(log) /\ log \in Seq(Message)
      /\ ScopeOk(log, alert_policy, alert_engine)
  BY DEF AlertsInv, StreamInv, StreamTypeOK, Message
<1>2. r \in Controls /\ r \in Message /\ ~IsFrame(r) /\ EngineFor(r) \in Engine \cup {Unset}
  BY <1>1, EngineType DEF Controls, Message, IsFrame
<1>3. /\ handled \in Seq(Message) /\ Asks(handled, Len(handled), Len(handled))
      /\ handled[Len(handled)] = r
  BY <1>1, <1>2, LogControl
<1>4. CASE r.trace_type = "pause"
  <2>1. r \notin PolicyRequests /\ ~ChangesPolicy(r)
    BY <1>4 DEF PolicyRequests, ChangesPolicy
  <2>2. UNCHANGED <<alert_policy, alert_engine>> /\ log' = Append(handled, Paused)
    BY <1>4, <2>1 DEF Receive
  <2>3. ScopeOk(handled, alert_policy, alert_engine)
    BY <1>1, <1>2, <2>1, ScopeSilent
  <2> HIDE DEF handled
  <2>4. Paused \in Message /\ ~IsFrame(Paused) /\ Paused \notin PolicyRequests
    BY SentMessages DEF Message, IsFrame, PolicyRequests, Controls
  <2>5. ScopeOk(Append(handled, Paused), alert_policy, alert_engine)
    BY <1>3, <2>3, <2>4, ScopeSilent
  <2> QED BY <2>2, <2>5
<1>5. CASE r.trace_type # "pause"
  <2>1. r \in PolicyRequests /\ (ChangesPolicy(r) <=> r.alerts # alert_policy)
    BY <1>5 DEF PolicyRequests, ChangesPolicy
  <2>2. alert_policy' = r.alerts
    BY <2>1 DEF Receive
  <2>3. SendFrame(0, EngineFor(r), handled)
    BY <1>5 DEF Receive, EngineFor
  <2>4. PICK m \in Frame : log' = Append(handled, m) /\ Sends(m, 0, EngineFor(r), alert_engine')
    BY <1>1, <1>2, <2>3, FrameSent
  <2>5. EngineFor(r) = IF r.alerts # alert_policy THEN NewEngine(r.alerts) ELSE alert_engine
    BY <2>1 DEF EngineFor
  <2>6. ScopeOk(handled, r.alerts, EngineFor(r))
    BY <1>1, <2>1, <2>5, ScopeRequest
  <2> HIDE DEF handled
  <2>7. ScopeOk(Append(handled, m), r.alerts, alert_engine')
    BY <1>3, <2>1, <2>4, <2>6, ScopeFrame
  <2> QED BY <2>2, <2>4, <2>7
<1> QED BY <1>4, <1>5

LEMMA AlertsStep == AlertsInv /\ [StreamNext]_streamVars => AlertsInv'
<1> SUFFICES ASSUME AlertsInv, [StreamNext]_streamVars PROVE ScopeOk(log, alert_policy, alert_engine)'
  BY StreamStep DEF AlertsInv
<1>1. CASE Disconnect \/ UNCHANGED streamVars
  BY <1>1 DEF Disconnect, streamVars, AlertsInv
<1> QED BY <1>1, AlertsTick, AlertsReceiveInvalid, AlertsReceive DEF StreamNext

\* The policy in force at message j, as the property names it.
LEMMA GovernorAsked ==
  ASSUME StreamInv, NEW j \in Nat, NEW a, Governs(log, a, j)
  PROVE  a \in AskedAt(j)
<1> DEFINE asks == {i \in 1..j : log[i] \in Requests /\ log[i].trace_type # "pause"}
<1>1. a \in asks /\ a \in Int
  BY DEF Governs, Latest, PolicyRequests
<1>2. ASSUME NEW k \in asks PROVE k <= a
  <2>1. k \in 1..j /\ log[k] \in PolicyRequests
    BY DEF PolicyRequests
  <2>2. k \notin (a + 1)..j
    BY <2>1 DEF Governs, Latest
  <2> QED BY <1>1, <2>1, <2>2
<1> QED BY <1>1, <1>2 DEF AskedAt

\* Within the stretch of a connection in which the client asks for one
\* policy, two alerts are a cooldown apart (the engine scoped to the
\* connection and its policy), whatever pauses, errors, requests and
\* streams lie between them.
THEOREM AlertsAreSpaced == StreamSpec => []AlertsSpaced
<1>1. AlertsInv => AlertsSpaced
  <2> SUFFICES ASSUME AlertsInv, NEW i \in 1..Len(log), NEW j \in 1..Len(log),
                      i < j, IsFrame(log[i]), IsFrame(log[j]),
                      log[i].alert # Unset, log[j].alert # Unset,
                      NEW scope, scope = {log[a].alerts : a \in UNION {AskedAt(k) : k \in i..j}},
                      \A p, q \in scope : p = q
               PROVE  \A p \in scope : log[j].alert >= log[i].alert + ScopeCooldown[p]
    BY DEF AlertsSpaced
  <2>1. StreamInv /\ log \in Seq(Message) /\ AlertsGoverned(log) /\ Spaced(log) /\ Len(log) \in Nat
    BY LenProperties DEF AlertsInv, StreamInv, StreamTypeOK, Message, ScopeOk
  <2>2. Alerted(log, i) /\ Alerted(log, j)
    BY DEF Alerted
  <2>3. ASSUME NEW k \in i..j, NEW a, Governs(log, a, k) PROVE log[a].alerts \in scope
    <3>1. k \in Nat
      BY <2>1
    <3> QED BY <2>1, <2>3, <3>1, GovernorAsked
  <2>4. PICK a : Governs(log, a, i) /\ log[a].alerts \in Policies
    BY <2>1, <2>2 DEF AlertsGoverned
  <2>5. i \in i..j
    BY <2>1
  <2>6. log[a].alerts \in scope
    BY <2>3, <2>4, <2>5
  <2>7. \A p \in scope : p \in Policies
    BY <2>4, <2>6
  <2>8. ASSUME NEW p \in scope PROVE OnePolicy(log, i, j, p)
    BY <2>3 DEF OnePolicy
  <2> QED BY <2>1, <2>2, <2>7, <2>8 DEF Spaced
<1> QED BY <1>1, AlertsStart, AlertsStep, PTL DEF StreamSpec
=============================================================================
