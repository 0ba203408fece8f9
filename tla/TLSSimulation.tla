--------------------------- MODULE TLSSimulation ---------------------------
(***************************************************************************)
(* simulate_handshake of src/pqc_bench/tls_simulator.py: one call owns a   *)
(* fresh client and server and hands every wire straight to the other      *)
(* peer.  Several calls run side by side, each in a thread of its own; the *)
(* peers are those of TLSHandshake, one operation at a time.               *)
(***************************************************************************)
EXTENDS TLSHandshake

CONSTANTS Calls,               \* concurrent calls of simulate_handshake
          ClientOf, ServerOf   \* the peers each call creates

ASSUME CallsAssumption ==
  /\ ClientOf \in [Calls -> Clients] /\ ServerOf \in [Calls -> Servers]
  /\ \A i, j \in Calls : i # j => ClientOf[i] # ClientOf[j] /\ ServerOf[i] # ServerOf[j]

VARIABLE pc                    \* the next operation of each call, or its outcome

SimulationInit == Init /\ pc = [i \in Calls |-> "validate"]

\* The wire an operation returned is the last one its peer appended.
Wire(p) == transcript[p][Len(transcript[p])]

\* A context longer than 256 bytes is refused before any peer exists.
Validate(i) == /\ pc[i] = "validate"
               /\ pc' \in {[pc EXCEPT ![i] = next] : next \in {"client_hello", "context_error"}}
               /\ UNCHANGED vars

\* An exception of a peer leaves simulate_handshake; nothing catches it.
Proceed(i, p, to) ==
  pc' = [pc EXCEPT ![i] = IF state'[p] = "failed" THEN "protocol_error" ELSE to]

Exchanged(i) ==
  LET c == ClientOf[i]
      s == ServerOf[i]
  IN  \/ /\ pc[i] = "client_hello"
         /\ SendClientHello(c)
         /\ Proceed(i, c, "receive_client_hello")
      \/ /\ pc[i] = "receive_client_hello"
         /\ ReceiveClientHello(s, Wire(c))
         /\ Proceed(i, s, "receive_server_hello")
      \/ /\ pc[i] = "receive_server_hello"
         /\ ReceiveServerHello(c, Wire(s))
         /\ Proceed(i, c, "server_finished")
      \/ /\ pc[i] = "server_finished"
         /\ SendServerFinished(s)
         /\ Proceed(i, s, "receive_server_finished")
      \/ /\ pc[i] = "receive_server_finished"
         /\ ReceiveServerFinished(c, Wire(s))
         /\ Proceed(i, c, "client_finished")
      \/ /\ pc[i] = "client_finished"
         /\ SendClientFinished(c)
         /\ Proceed(i, c, "receive_client_finished")
      \/ /\ pc[i] = "receive_client_finished"
         /\ ReceiveClientFinished(s, Wire(c))
         /\ Proceed(i, s, "compare")

\* traffic_secrets raises on a peer that is not complete; the digests of
\* both secrets and of the transcripts must agree.
Agreed(c, s) == /\ state[c] = "complete" /\ state[s] = "complete"
                /\ traffic[c] = traffic[s]
                /\ transcript[c] = transcript[s]

Compare(i) == /\ pc[i] = "compare"
              /\ pc' = [pc EXCEPT ![i] = IF Agreed(ClientOf[i], ServerOf[i])
                                         THEN "returned" ELSE "protocol_error"]
              /\ UNCHANGED vars

Simulate(i) == Validate(i) \/ Exchanged(i) \/ Compare(i)

SimulationNext == \E i \in Calls : Simulate(i)

\* Each call runs in a thread that keeps being scheduled.
SimulationSpec == /\ SimulationInit /\ [][SimulationNext]_<<vars, pc>>
                  /\ \A i \in Calls : WF_<<vars, pc>>(Simulate(i))

\* Every call with valid contexts returns a report of matching secrets,
\* whatever other calls do; simulate_handshake never raises ProtocolError.
SimulationReturns == \A i \in Calls : (pc[i] = "client_hello") ~> (pc[i] = "returned")
=============================================================================
