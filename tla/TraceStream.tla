---------------------------- MODULE TraceStream ----------------------------
(***************************************************************************)
(* websocket_traces of src/pqc_bench/api/trace_stream.py: one connection's *)
(* loop, which waits for a control message for one frame period, sends a   *)
(* frame when none came, and evaluates each frame with an alert engine     *)
(* scoped to the connection and its alert policy.                          *)
(*                                                                         *)
(* A frame keeps its index and its alert; whether its score exceeds the    *)
(* threshold is chosen by the noise of the generator.  A control message   *)
(* keeps what the loop reads.  The alert engine is that of AlertEngine,    *)
(* used by one coroutine on the monotonic clock.                           *)
(***************************************************************************)
EXTENDS Naturals, Sequences, FiniteSets

CONSTANTS Policies,      \* AlertPolicy values a client may ask for
          ScopeCooldown, \* the cooldown_seconds of each
          Requests,      \* valid control messages the client may send
          MaxChunks,     \* bound of n_chunks
          MaxTime,       \* bound of the clock
          MaxLog,        \* bound of the connection's messages
          Unset,         \* Python's None
          InvalidMessage, \* a message that WsTraceRequest or JSON rejects
          Paused, Error  \* the answers to a pause and to an invalid message

WsTraceRequest == [trace_type : {"synthetic", "playback", "live", "pause"},
                   n_chunks : 1..MaxChunks, alerts : Policies \cup {Unset}]

ASSUME RequestsAssumption == Requests \subseteq WsTraceRequest
ASSUME ScopeCooldownAssumption == ScopeCooldown \in [Policies -> Nat]
ASSUME BoundsAssumption == MaxChunks \in Nat \ {0} /\ MaxTime \in Nat /\ MaxLog \in Nat
ASSUME NoRequestAssumption == Unset \notin WsTraceRequest \cup Policies \cup Nat

Time == 0..MaxTime
Frame == [chunk_index : Nat, alert : Time \cup {Unset}]

ASSUME MessagesAssumption == /\ {InvalidMessage, Paused, Error} \cap (WsTraceRequest \cup Frame) = {}
                             /\ InvalidMessage \notin {Paused, Error}

Engine == [policy : Policies, last_attempt : Time \cup {Unset}]

ASSUME NoEngineAssumption == Unset \notin Engine

VARIABLES active,         \* the request being streamed
          index,          \* the next frame's index
          alert_policy, alert_engine,
          clock,          \* time.monotonic
          closed,         \* the client disconnected
          log             \* every message handled and sent, in order

streamVars == <<active, index, alert_policy, alert_engine, clock, closed, log>>

StreamTypeOK == /\ active \in Requests \cup {Unset}
                /\ index \in Nat
                /\ alert_policy \in Policies \cup {Unset}
                /\ alert_engine \in Engine \cup {Unset}
                /\ clock \in Time
                /\ closed \in BOOLEAN
                /\ log \in Seq(Requests \cup {InvalidMessage, Paused, Error} \cup Frame)

StreamInit == /\ active = Unset
              /\ index = 0
              /\ alert_policy = Unset
              /\ alert_engine = Unset
              /\ clock = 0
              /\ closed = FALSE
              /\ log = <<>>

NewEngine(policy) == IF policy = Unset THEN Unset ELSE [policy |-> policy, last_attempt |-> Unset]

\* AlertEngine.evaluate on a frame whose score exceeds the threshold.
Alerts(engine, at) ==
  engine # Unset /\ (engine.last_attempt # Unset =>
                      at >= engine.last_attempt + ScopeCooldown[engine.policy])

\* _evaluated_frame: the frame is appended to the messages in prefix.
SendFrame(i, engine, prefix) ==
  \E at \in clock..MaxTime, exceeds \in BOOLEAN :
    LET alerts == exceeds /\ Alerts(engine, at)
    IN  /\ clock' = at
        /\ alert_engine' = IF alerts THEN [engine EXCEPT !.last_attempt = at] ELSE engine
        /\ log' = Append(prefix, [chunk_index |-> i, alert |-> IF alerts THEN at ELSE Unset])

Finished(request, n) == request.trace_type = "playback" /\ n >= request.n_chunks

\* Mutant: the timer does not end a playback that ran out of chunks.
TickWithoutEnd == /\ active # Unset /\ ~closed
                  /\ active.trace_type = "live" => Len(log) < MaxLog
                  /\ active.trace_type = "playback" => index < active.n_chunks
                  /\ SendFrame(index, alert_engine, log)
                  /\ index' = index + 1
                  /\ UNCHANGED <<active, alert_policy, closed>>

\* The wait for a control message timed out.  Live frames stop at the bound.
Tick == /\ active # Unset /\ ~closed
        /\ active.trace_type = "live" => Len(log) < MaxLog
        /\ SendFrame(index, alert_engine, log)
        /\ index' = index + 1
        /\ active' = IF Finished(active, index + 1) THEN Unset ELSE active
        /\ UNCHANGED <<alert_policy, closed>>

\* Room for a control message and every frame of a playback.
Room == ~closed /\ Len(log) + 1 + MaxChunks <= MaxLog

\* Mutant: an invalid message is reported but the stream goes on.
ReportInvalid == /\ Room
                 /\ log' = log \o <<InvalidMessage, Error>>
                 /\ UNCHANGED <<active, index, alert_policy, alert_engine, clock, closed>>

\* An invalid message ends the stream.
ReceiveInvalid == /\ Room
                  /\ active' = Unset
                  /\ log' = log \o <<InvalidMessage, Error>>
                  /\ UNCHANGED <<index, alert_policy, alert_engine, clock, closed>>

\* Mutant: a pause, which carries no policy, changes it too.
ChangesAnyPolicy(r) == r.alerts # alert_policy

\* Pause preserves deduplication; another policy starts a new scope.
ChangesPolicy(r) == r.trace_type # "pause" /\ r.alerts # alert_policy

Receive(r) ==
  LET engine == IF ChangesPolicy(r) THEN NewEngine(r.alerts) ELSE alert_engine
      handled == Append(log, r)
  IN  /\ Room
      /\ alert_policy' = IF ChangesPolicy(r) THEN r.alerts ELSE alert_policy
      /\ CASE r.trace_type = "pause" -> /\ active' = Unset
                                        /\ alert_engine' = engine
                                        /\ log' = Append(handled, Paused)
                                        /\ UNCHANGED <<index, clock>>
           [] r.trace_type = "synthetic" -> /\ active' = Unset
                                            /\ SendFrame(0, engine, handled)
                                            /\ UNCHANGED index
           [] OTHER -> /\ active' = IF Finished(r, 1) THEN Unset ELSE r
                       /\ index' = 1
                       /\ SendFrame(0, engine, handled)
      /\ UNCHANGED closed

Disconnect == /\ ~closed
              /\ closed' = TRUE
              /\ UNCHANGED <<active, index, alert_policy, alert_engine, clock, log>>

StreamNext == Tick \/ ReceiveInvalid \/ (\E r \in Requests : Receive(r)) \/ Disconnect

\* Of the connection only the timer of wait_for is certain to fire.
StreamSpec == StreamInit /\ [][StreamNext]_streamVars /\ WF_streamVars(Tick)

-----------------------------------------------------------------------------
(* Properties, on the messages the client exchanged.                       *)

Controls == Requests \cup {InvalidMessage}
IsFrame(m) == m \notin Controls \cup {Paused, Error}

\* Where the control message is that message j answers.
Answered(j) == CHOOSE i \in 1..j : /\ log[i] \in Controls
                                   /\ \A k \in (i + 1)..j : log[k] \notin Controls

\* Every frame answers the latest control message and is the next in its
\* stream: nothing is sent after a pause, an error or the end of a playback,
\* no index is skipped or repeated, and a synthetic request gets one frame.
FramesFollowControls ==
  \A j \in 1..Len(log) : IsFrame(log[j]) =>
    LET i == Answered(j)
        request == log[i]
    IN  /\ request \in Requests
        /\ log[j].chunk_index = j - i - 1
        /\ CASE request.trace_type = "synthetic" -> log[j].chunk_index = 0
             [] request.trace_type = "playback" -> log[j].chunk_index < request.n_chunks
             [] OTHER -> request.trace_type = "live"

\* While the server is idle, whatever it answered last is complete: the
\* playback had all its chunks and no live stream fell silent.
IdleMeansComplete ==
  active = Unset /\ log # <<>> =>
    LET i == Answered(Len(log))
        answers == Len(log) - i
    IN  IF log[i] = InvalidMessage THEN answers = 1
        ELSE CASE log[i].trace_type = "playback" -> answers = log[i].n_chunks
               [] OTHER -> log[i].trace_type \in {"synthetic", "pause"} /\ answers = 1

\* Both: what the client was sent is what it asked for, no more and, once the
\* server is idle, no less.
StreamAnswersControls == StreamTypeOK /\ FramesFollowControls /\ IdleMeansComplete

\* Within one scope, the stretch of a connection in which the client asks
\* for one policy, two alerts are a cooldown apart whatever pauses, errors
\* and new requests lie between them.
AskedAt(j) == LET asks == {i \in 1..j : log[i] \in Requests /\ log[i].trace_type # "pause"}
              IN  {i \in asks : \A k \in asks : k <= i}
AlertsSpaced ==
  \A i, j \in 1..Len(log) :
    LET scope == {log[a].alerts : a \in UNION {AskedAt(k) : k \in i..j}}
    IN  /\ i < j /\ IsFrame(log[i]) /\ IsFrame(log[j])
        /\ log[i].alert # Unset /\ log[j].alert # Unset
        /\ \A p, q \in scope : p = q
        => \A p \in scope : log[j].alert >= log[i].alert + ScopeCooldown[p]

\* A playback ends unless the client sends something else or disconnects.
ControlsSent == Cardinality({i \in 1..Len(log) : log[i] \in Controls})
PlaybackEnds ==
  \A n \in 1..MaxLog :
    (active # Unset /\ active.trace_type = "playback" /\ ControlsSent = n)
      ~> (active = Unset \/ closed \/ ControlsSent > n)
=============================================================================
