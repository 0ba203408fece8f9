----------------------------- MODULE MCAlerts ------------------------------
(* The alert engine under threads, and the one a trace stream has for      *)
(* itself: Init picks which of the two runs.  Three calls on two keys of   *)
(* one metric, with a cooldown shorter than the range of the clock; every  *)
(* kind of control message, with and without a policy.                     *)
EXTENDS AlertEngine, TraceStream, TLC

CONSTANTS latency_ms, brief, long
MCThreshold == latency_ms :> 0
MCCooldown == brief :> 1 @@ long :> 2
MCRequests ==
  [trace_type : {"live"}, n_chunks : {1}, alerts : {Unset, long}]
  \cup [trace_type : {"synthetic"}, n_chunks : {1}, alerts : {long}]
  \cup [trace_type : {"playback"}, n_chunks : {1, 2}, alerts : {brief, long}]
  \cup [trace_type : {"pause"}, n_chunks : {1}, alerts : {Unset}]

VARIABLE subject
EngineStep(A) == subject = "engine" /\ A /\ UNCHANGED <<streamVars, subject>>
\* A stream may be silent for ever, which is no deadlock.
StreamStep(A) == subject = "stream" /\ A /\ UNCHANGED <<vars, subject>>

AlertsInit == subject \in {"engine", "stream"} /\ Init /\ StreamInit
AlertsNext == EngineStep(Next) \/ StreamStep(StreamNext) \/ StreamStep(UNCHANGED streamVars)
allVars == <<vars, streamVars, subject>>
AlertsSpec == /\ AlertsInit /\ [][AlertsNext]_allVars
              /\ \A c \in Calls : WF_allVars(EngineStep(Locked(c)))
              /\ WF_allVars(StreamStep(Tick))
=============================================================================
