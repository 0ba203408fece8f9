------------------------- MODULE HandshakeAgreement -------------------------
(***************************************************************************)
(* What the offline TLS 1.3-style handshake promises, without saying how.  *)
(*                                                                         *)
(* Every peer takes part in at most one session.  A server offers a        *)
(* session nobody has seen before; a client may bind itself to an offered  *)
(* session that no other client took; a client then confirms, and only a   *)
(* confirmed session can be finished by its server.  A peer may give up at *)
(* any moment, even after it is done, and then holds no secret any more.   *)
(*                                                                         *)
(* A session is identified with the secrets it derives, so two peers of    *)
(* one session hold the same secrets and peers of two sessions never do.   *)
(***************************************************************************)
CONSTANTS Clients, Servers,
          None            \* "no session" and "no secret held"

VARIABLES phase,          \* how far each peer has come
          session,        \* the session each peer ever derived; never forgotten
          secret,         \* the secrets each peer holds now
          confirmed       \* the clients that sent their confirmation

vars == <<phase, session, secret, confirmed>>

Peers == Clients \cup Servers

Init == /\ phase = [p \in Peers |-> "open"]
        /\ session = [p \in Peers |-> None]
        /\ secret = [p \in Peers |-> None]
        /\ confirmed = {}

\* Peer p derives the session it takes part in; the secrets are not usable yet.
Bind(p) == /\ phase[p] = "open"
           /\ session'[p] # None
           /\ phase' = [phase EXCEPT ![p] = "bound"]
           /\ session' = [session EXCEPT ![p] = session'[p]]
           /\ secret' = [secret EXCEPT ![p] = session'[p]]
           /\ UNCHANGED confirmed

Offer(s) == /\ Bind(s)
            /\ \A p \in Peers : session[p] # session'[s]

Accept(c) == /\ Bind(c)
             /\ \E s \in Servers : session[s] = session'[c]
             /\ \A d \in Clients : session[d] # session'[c]

Confirm(c) == /\ phase[c] = "bound"
              /\ phase' = [phase EXCEPT ![c] = "done"]
              /\ confirmed' = confirmed \cup {c}
              /\ UNCHANGED <<session, secret>>

Finish(s) == /\ phase[s] = "bound"
             /\ \E c \in confirmed : session[c] = session[s]
             /\ phase' = [phase EXCEPT ![s] = "done"]
             /\ UNCHANGED <<session, secret, confirmed>>

GiveUp(p) == /\ phase' = [phase EXCEPT ![p] = "failed"]
             /\ secret' = [secret EXCEPT ![p] = None]
             /\ UNCHANGED <<session, confirmed>>

Next == \/ \E c \in Clients : Accept(c) \/ Confirm(c)
        \/ \E s \in Servers : Offer(s) \/ Finish(s)
        \/ \E p \in Peers : GiveUp(p)

Spec == Init /\ [][Next]_vars
=============================================================================
