---------------------------- MODULE AlertEngine ----------------------------
(***************************************************************************)
(* AlertEngine.evaluate of src/pqc_bench/telemetry_alerts.py, called from  *)
(* any number of threads on one engine: the sample is validated, the clock *)
(* is read and the cooldown of the sample's source and metric is reserved  *)
(* under the lock, and the transport runs after the lock is released.      *)
(*                                                                         *)
(* The clock is any callable, so a reading may regress, repeat or be no    *)
(* finite number (a clock that raises is one of those).  Readings,         *)
(* thresholds and values are naturals where the code has finite floats.    *)
(***************************************************************************)
EXTENDS Naturals

CONSTANTS Calls,          \* one evaluate() call each, each on its own thread
          Sources, Metrics,
          Values,         \* the scalar readings samples carry
          Threshold,      \* AlertPolicy: a threshold per metric
          Cooldown,       \* AlertPolicy.cooldown_seconds
          Readings,       \* finite clock readings
          HasTransport,   \* whether the engine has a transport
          None,           \* Python's None
          Invalid,        \* a sample that TelemetrySample rejects
          Nonfinite       \* a clock reading that _finite_number rejects

ASSUME NumbersAssumption == /\ Values \subseteq Nat
                            /\ Readings \subseteq Nat
                            /\ Threshold \in [Metrics -> Nat]
                            /\ Cooldown \in Nat
ASSUME NonfiniteAssumption == Nonfinite \notin Readings
ASSUME NoneAssumption == None \notin Nat \cup Calls
ASSUME HasTransportAssumption == HasTransport \in BOOLEAN
ASSUME InvalidAssumption ==
  Invalid \notin [source : Sources, metric : Metrics, value : Values]

Sample == [source : Sources, metric : Metrics, value : Values]
Keys == Sources \X Metrics
KeyOf(s) == <<s.source, s.metric>>

VARIABLES pc,             \* where each call is
          sample,         \* its argument
          now,            \* its clock reading
          lock,           \* the call that holds _lock
          last_clock,     \* _last_clock
          last_attempt    \* _last_attempt, None for an absent key

vars == <<pc, sample, now, lock, last_clock, last_attempt>>

Returned == {"invalid", "clock_rejected", "below_threshold", "suppressed",
             "sent", "failed", "disabled"}

TypeOK == /\ pc \in [Calls -> {"call", "acquire", "clock", "decide", "deliver"} \cup Returned]
          /\ sample \in [Calls -> Sample \cup {Invalid, None}]
          /\ now \in [Calls -> Readings \cup {None}]
          /\ lock \in Calls \cup {None}
          /\ last_clock \in Readings \cup {None}
          /\ last_attempt \in [Keys -> Readings \cup {None}]

Init == /\ pc = [c \in Calls |-> "call"]
        /\ sample = [c \in Calls |-> None]
        /\ now = [c \in Calls |-> None]
        /\ lock = None
        /\ last_clock = None
        /\ last_attempt = [k \in Keys |-> None]

Goto(c, to) == pc' = [pc EXCEPT ![c] = to]

\* TelemetrySample.model_validate raises before anything is locked.
Validate(c, s) == /\ pc[c] = "call"
                  /\ sample' = [sample EXCEPT ![c] = s]
                  /\ Goto(c, IF s = Invalid THEN "invalid" ELSE "acquire")
                  /\ UNCHANGED <<now, lock, last_clock, last_attempt>>

\* Mutant: the transport is called with the lock held.
AcquireUndelivered(c) == /\ pc[c] = "acquire"
                         /\ lock = None /\ \A d \in Calls : pc[d] # "deliver"
                         /\ lock' = c
                         /\ Goto(c, "clock")
                         /\ UNCHANGED <<sample, now, last_clock, last_attempt>>

Acquire(c) == /\ pc[c] = "acquire"
              /\ lock = None
              /\ lock' = c
              /\ Goto(c, "clock")
              /\ UNCHANGED <<sample, now, last_clock, last_attempt>>

Rejected(reading) == \/ reading = Nonfinite
                     \/ last_clock # None /\ reading < last_clock

\* Under the lock; a rejected reading raises, which releases it.
ReadClock(c, reading) ==
  /\ pc[c] = "clock"
  /\ IF Rejected(reading)
     THEN /\ Goto(c, "clock_rejected")
          /\ lock' = None
          /\ UNCHANGED <<now, last_clock>>
     ELSE /\ now' = [now EXCEPT ![c] = reading]
          /\ last_clock' = reading
          /\ Goto(c, "decide")
          /\ UNCHANGED lock
  /\ UNCHANGED <<sample, last_attempt>>

Exceeds(s) == s.value > Threshold[s.metric]

\* Mutant: the cooldown still runs at its exact expiry.
CoolingAtExpiry(k, at) == last_attempt[k] # None /\ at <= last_attempt[k] + Cooldown

Cooling(k, at) == last_attempt[k] # None /\ at < last_attempt[k] + Cooldown

\* Mutant: a reading below the threshold ends the cooldown of its key.
DecidesAndRearms(c) ==
  LET k == KeyOf(sample[c])
  IN  /\ pc[c] = "decide"
      /\ lock' = None
      /\ CASE ~Exceeds(sample[c]) -> /\ Goto(c, "below_threshold")
                                     /\ last_attempt' = [last_attempt EXCEPT ![k] = None]
           [] Exceeds(sample[c]) /\ Cooling(k, now[c]) -> /\ Goto(c, "suppressed")
                                                          /\ UNCHANGED last_attempt
           [] OTHER -> /\ last_attempt' = [last_attempt EXCEPT ![k] = now[c]]
                       /\ Goto(c, "deliver")
      /\ UNCHANGED <<sample, now, last_clock>>

\* The end of the locked block: the attempt is reserved before any transport.
Decide(c) ==
  LET k == KeyOf(sample[c])
  IN  /\ pc[c] = "decide"
      /\ lock' = None
      /\ CASE ~Exceeds(sample[c]) -> /\ Goto(c, "below_threshold")
                                     /\ UNCHANGED last_attempt
           [] Exceeds(sample[c]) /\ Cooling(k, now[c]) -> /\ Goto(c, "suppressed")
                                                          /\ UNCHANGED last_attempt
           [] OTHER -> /\ last_attempt' = [last_attempt EXCEPT ![k] = now[c]]
                       /\ Goto(c, "deliver")
      /\ UNCHANGED <<sample, now, last_clock>>

\* One POST, no retry; any exception of the transport is a failed delivery.
Deliver(c) == /\ pc[c] = "deliver"
              /\ \E delivery \in IF HasTransport THEN {"sent", "failed"} ELSE {"disabled"} :
                   Goto(c, delivery)
              /\ UNCHANGED <<sample, now, lock, last_clock, last_attempt>>

Locked(c) == Acquire(c) \/ (\E r \in Readings \cup {Nonfinite} : ReadClock(c, r)) \/ Decide(c)
Evaluate(c) == (\E s \in Sample \cup {Invalid} : Validate(c, s)) \/ Locked(c) \/ Deliver(c)

AllReturned == (\A c \in Calls : pc[c] \in Returned) /\ UNCHANGED vars
Next == (\E c \in Calls : Evaluate(c)) \/ AllReturned

\* Threads are scheduled; nothing is assumed of the transport, which may hang.
Spec == Init /\ [][Next]_vars /\ \A c \in Calls : WF_vars(Locked(c))

-----------------------------------------------------------------------------
(* Properties.                                                             *)

\* The calls that reserved an attempt, whatever became of the delivery.
Reserved == {c \in Calls : pc[c] \in {"deliver", "sent", "failed", "disabled"}}

\* Two attempts for one source and metric are never closer than the
\* cooldown, whichever threads made them and however the clock jumps.
CooldownSpacing ==
  \A c, d \in Reserved :
    c # d /\ KeyOf(sample[c]) = KeyOf(sample[d]) =>
      now[c] + Cooldown <= now[d] \/ now[d] + Cooldown <= now[c]

\* No exceedance is lost: a suppressed call follows, by less than the
\* cooldown, an attempt for its own source and metric.
SuppressedIsCovered ==
  \A c \in Calls : pc[c] = "suppressed" =>
    \E d \in Reserved : /\ KeyOf(sample[d]) = KeyOf(sample[c])
                        /\ now[d] <= now[c] /\ now[c] < now[d] + Cooldown

\* What raised or stayed below the threshold reserved nothing: each key's
\* last attempt is the reading of a call that went on to alert for it.
AttemptsAreAlerts ==
  \A k \in Keys : last_attempt[k] # None =>
    \E c \in Reserved : KeyOf(sample[c]) = k /\ now[c] = last_attempt[k]

\* A call that waits for the lock is decided even if the transport of every
\* other call hangs and clocks are rejected.
DecidedDespiteTransport ==
  \A c \in Calls : pc[c] = "acquire" ~> pc[c] \in Returned \cup {"deliver"}
=============================================================================
