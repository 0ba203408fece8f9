-------------------------- MODULE MCTLSSimulation --------------------------
(* Three concurrent calls of simulate_handshake; call i owns client i and  *)
(* server i + 3.                                                           *)
EXTENDS TLSSimulation

MCCalls == 1..3
MCClientOf == [i \in MCCalls |-> i]
MCServerOf == [i \in MCCalls |-> i + 3]
=============================================================================
