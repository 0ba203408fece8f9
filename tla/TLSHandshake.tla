---------------------------- MODULE TLSHandshake ----------------------------
(***************************************************************************)
(* The peers of src/pqc_bench/tls_simulator.py: single-use ClientPeer and  *)
(* ServerPeer objects that exchange four messages and derive a hybrid      *)
(* X25519 + ML-KEM-768 key schedule, connected by a network that loses,    *)
(* repeats, reorders and alters messages and mixes them between sessions.  *)
(*                                                                         *)
(* Cryptography is symbolic: keys, shares and randoms are named after the  *)
(* peer that generated them, a shared secret is the pair it is computed    *)
(* from, HKDF and HMAC results are the records of their inputs, SHA-256 of *)
(* a transcript is the transcript.  The random and the context of a hello  *)
(* are one field, for both are only bound into the transcript.             *)
(*                                                                         *)
(* The 4096-byte transcript limit of _append cannot be reached by messages *)
(* that decode: the domain (27), two hellos with 256-byte contexts (1510   *)
(* and 1414) and two Finished (37 each) are 3025 bytes.                    *)
(***************************************************************************)
EXTENDS Naturals, Sequences

CONSTANTS Clients, Servers,   \* one ClientPeer or ServerPeer object each
          None,               \* Python's None
          Junk,               \* bytes of the right length that no peer generated
          LowOrder,           \* an X25519 point whose exchange raises ValueError
          Noncanonical,       \* an ML-KEM public key that from_public_bytes rejects
          Malformed,          \* a wire that decode_message rejects
          Altered             \* hellos the network makes up besides those emitted

Peers == Clients \cup Servers

-----------------------------------------------------------------------------
(* Messages and secrets.                                                   *)

XShare == Peers \cup {Junk, LowOrder}
KemKey == Clients \cup {Junk, Noncanonical}
Encapsulated == [key : Clients \cup {Junk}, by : Servers]
Ciphertext == Encapsulated \cup {Junk}

ClientHello == [type : {"ClientHello"}, random : Peers \cup {Junk},
                x25519_public : XShare, mlkem_public : KemKey]
ServerHello == [type : {"ServerHello"}, random : Peers \cup {Junk},
                x25519_public : XShare, mlkem_ciphertext : Ciphertext]
Hello == ClientHello \cup ServerHello

KemShared == Encapsulated \cup [rejected_by : Clients, ciphertext : Ciphertext]
Ikm == [x : SUBSET (Peers \cup {Junk}), kem : KemShared]
HandshakeSecret == [label : {"c hs traffic", "s hs traffic"}, ikm : Ikm,
                    transcript : Seq(Hello)]
Schedule == [client_handshake : HandshakeSecret, server_handshake : HandshakeSecret,
             master : Ikm]

ServerMac == [secret : HandshakeSecret, transcript : Seq(Hello)]
Finished(sender, mac) == [type |-> "Finished", sender |-> sender, verify_data |-> mac]
ServerFinishedMessage == [type : {"Finished"}, sender : {"server"}, verify_data : ServerMac]
ClientMac == [secret : HandshakeSecret,
              transcript : Seq(Hello \cup ServerFinishedMessage)]
ClientFinishedMessage == [type : {"Finished"}, sender : {"client"}, verify_data : ClientMac]
Message == Hello \cup ServerFinishedMessage \cup ClientFinishedMessage

ApplicationSecret == [label : {"c ap traffic", "s ap traffic"}, master : Ikm,
                      transcript : Seq(Hello \cup ServerFinishedMessage)]
TrafficSecrets == [client_application : ApplicationSecret,
                   server_application : ApplicationSecret]

ASSUME AlteredAssumption == Altered \subseteq Hello
\* Altered Finished bytes match no MAC, and None is no derived value.
ASSUME JunkAssumption == Junk \notin ServerMac /\ Junk \notin ClientMac
ASSUME NoneAssumption == None \notin Schedule /\ None \notin TrafficSecrets
ASSUME PeersAssumption == Clients \cap Servers = {}
ASSUME BadKeyAssumption == /\ LowOrder \notin Peers \cup {Junk}
                           /\ Noncanonical \notin Clients \cup {Junk}
ASSUME MalformedAssumption == /\ Malformed \notin ServerFinishedMessage
                              /\ Malformed \notin ClientFinishedMessage

-----------------------------------------------------------------------------
(* Symbolic cryptography.                                                  *)

\* X25519 of the private key of p with a public share; defined for a share
\* of ordinary order only, the others raise ValueError.
Exchange(p, share) == {p, share}

\* Decapsulation never fails: a ciphertext for another key, or an altered
\* one, yields a pseudorandom secret (implicit rejection).
Decapsulate(c, ciphertext) ==
  IF ciphertext \in [key : {c}, by : Servers]
  THEN ciphertext
  ELSE [rejected_by |-> c, ciphertext |-> ciphertext]

\* Mutant: one handshake secret for both directions.
OneHandshakeSecret(xShared, kemShared, hellos) ==
  LET ikm == [x |-> xShared, kem |-> kemShared]
      secret == [label |-> "c hs traffic", ikm |-> ikm, transcript |-> hellos]
  IN  [client_handshake |-> secret, server_handshake |-> secret, master |-> ikm]

KeySchedule(xShared, kemShared, hellos) ==
  LET ikm == [x |-> xShared, kem |-> kemShared]
  IN  [client_handshake |-> [label |-> "c hs traffic", ikm |-> ikm, transcript |-> hellos],
       server_handshake |-> [label |-> "s hs traffic", ikm |-> ikm, transcript |-> hellos],
       master |-> ikm]

Mac(secret, hashed) == [secret |-> secret, transcript |-> hashed]

DeriveApplication(master, hashed) ==
  [client_application |-> [label |-> "c ap traffic", master |-> master, transcript |-> hashed],
   server_application |-> [label |-> "s ap traffic", master |-> master, transcript |-> hashed]]

-----------------------------------------------------------------------------
VARIABLES state,        \* _Peer._state
          transcript,   \* _Peer._transcript: the wires appended so far
          schedule,     \* _Peer._schedule
          traffic,      \* _Peer._traffic
          x, kem,       \* whether _Peer._x and _Peer._kem still hold a private key
          network       \* every message a peer ever emitted

vars == <<state, transcript, schedule, traffic, x, kem, network>>

ClientState == {"new", "await_server_hello", "await_server_finished",
                "ready_client_finished", "complete", "failed"}
ServerState == {"new", "ready_server_finished", "await_client_finished",
                "complete", "failed"}

TypeOK ==
  /\ state \in [Peers -> ClientState \cup ServerState]
  /\ \A c \in Clients : state[c] \in ClientState
  /\ \A s \in Servers : state[s] \in ServerState
  /\ transcript \in [Peers -> Seq(Message)]
  /\ schedule \in [Peers -> Schedule \cup {None}]
  /\ traffic \in [Peers -> TrafficSecrets \cup {None}]
  /\ x \in [Peers -> BOOLEAN]
  /\ kem \in [Peers -> BOOLEAN]
  /\ network \subseteq Message

Init == /\ state = [p \in Peers |-> "new"]
        /\ transcript = [p \in Peers |-> <<>>]
        /\ schedule = [p \in Peers |-> None]
        /\ traffic = [p \in Peers |-> None]
        /\ x = [p \in Peers |-> TRUE]
        /\ kem = [p \in Peers |-> p \in Clients]
        /\ network = {}

-----------------------------------------------------------------------------
(* The network hands over any message ever emitted, to any peer and any    *)
(* number of times, any hello of Altered, since hellos carry no            *)
(* authenticator, and any Finished whose MAC it saw or that is no MAC,     *)
(* under either sender byte.  It holds no private key of its own.          *)
MacsSeen == {m.verify_data : m \in {n \in network : n.type = "Finished"}}
Deliverable == network \cup Altered \cup {Malformed}
               \cup {Finished(sender, mac) : sender \in {"client", "server"},
                                            mac \in MacsSeen \cup {Junk}}

\* Mutant: a failed peer forgets its keys but keeps the application secrets.
FailKeepingTraffic(p) == /\ state' = [state EXCEPT ![p] = "failed"]
                         /\ schedule' = [schedule EXCEPT ![p] = None]
                         /\ x' = [x EXCEPT ![p] = FALSE]
                         /\ kem' = [kem EXCEPT ![p] = FALSE]
                         /\ UNCHANGED traffic

\* _fail: every failure is terminal and drops all key material; only the
\* transcript stays.
Fail(p) == /\ state' = [state EXCEPT ![p] = "failed"]
           /\ schedule' = [schedule EXCEPT ![p] = None]
           /\ traffic' = [traffic EXCEPT ![p] = None]
           /\ x' = [x EXCEPT ![p] = FALSE]
           /\ kem' = [kem EXCEPT ![p] = FALSE]

Refuse(p) == Fail(p) /\ UNCHANGED <<transcript, network>>

Enter(p, next) == state' = [state EXCEPT ![p] = next]

\* _complete: the traffic secrets are kept, what they came from is dropped.
Complete(p) == /\ schedule' = [schedule EXCEPT ![p] = None]
               /\ x' = [x EXCEPT ![p] = FALSE]
               /\ kem' = [kem EXCEPT ![p] = FALSE]
               /\ Enter(p, "complete")

\* The state each operation expects (_expect); in any other state, complete
\* included, the call makes the peer fail.
Expected(p) == IF p \in Clients
               THEN {"new", "await_server_hello", "await_server_finished",
                     "ready_client_finished"}
               ELSE {"new", "ready_server_finished", "await_client_finished"}

OutOfOrder(p) == /\ \E expected \in Expected(p) : state[p] # expected
                 /\ Refuse(p)

\* ClientPeer.client_hello
SendClientHello(c) ==
  LET hello == [type |-> "ClientHello", random |-> c,
                x25519_public |-> c, mlkem_public |-> c]
  IN  /\ state[c] = "new"
      /\ transcript' = [transcript EXCEPT ![c] = Append(@, hello)]
      /\ network' = network \cup {hello}
      /\ Enter(c, "await_server_hello")
      /\ UNCHANGED <<schedule, traffic, x, kem>>

\* ServerPeer.receive_client_hello: answers in the same call.
AcceptsClientHello(w) == /\ w \in ClientHello
                         /\ w.x25519_public # LowOrder
                         /\ w.mlkem_public # Noncanonical

ReceiveClientHello(s, w) ==
  /\ state[s] = "new"
  /\ IF AcceptsClientHello(w)
     THEN LET encapsulated == [key |-> w.mlkem_public, by |-> s]
              reply == [type |-> "ServerHello", random |-> s,
                        x25519_public |-> s, mlkem_ciphertext |-> encapsulated]
              hellos == transcript[s] \o <<w, reply>>
          IN  /\ transcript' = [transcript EXCEPT ![s] = hellos]
              /\ schedule' = [schedule EXCEPT ![s] =
                    KeySchedule(Exchange(s, w.x25519_public), encapsulated, hellos)]
              /\ network' = network \cup {reply}
              /\ x' = [x EXCEPT ![s] = FALSE]
              /\ Enter(s, "ready_server_finished")
              /\ UNCHANGED <<traffic, kem>>
     ELSE Refuse(s)

\* ClientPeer.receive_server_hello
AcceptsServerHello(w) == w \in ServerHello /\ w.x25519_public # LowOrder

ReceiveServerHello(c, w) ==
  /\ state[c] = "await_server_hello"
  /\ IF AcceptsServerHello(w)
     THEN LET hellos == Append(transcript[c], w)
          IN  /\ transcript' = [transcript EXCEPT ![c] = hellos]
              /\ schedule' = [schedule EXCEPT ![c] =
                    KeySchedule(Exchange(c, w.x25519_public),
                                Decapsulate(c, w.mlkem_ciphertext), hellos)]
              /\ x' = [x EXCEPT ![c] = FALSE]
              /\ kem' = [kem EXCEPT ![c] = FALSE]
              /\ Enter(c, "await_server_finished")
              /\ UNCHANGED <<traffic, network>>
     ELSE Refuse(c)

\* Mutant: application secrets derived before the Finished is appended.
DerivesTooEarly(s) ==
  /\ state[s] = "ready_server_finished"
  /\ LET wire == Finished("server", Mac(schedule[s].server_handshake, transcript[s]))
     IN  /\ transcript' = [transcript EXCEPT ![s] = Append(@, wire)]
         /\ traffic' = [traffic EXCEPT ![s] =
                          DeriveApplication(schedule[s].master, transcript[s])]
         /\ network' = network \cup {wire}
  /\ Enter(s, "await_client_finished")
  /\ UNCHANGED <<schedule, x, kem>>

\* ServerPeer.server_finished
SendServerFinished(s) ==
  /\ state[s] = "ready_server_finished"
  /\ LET wire == Finished("server", Mac(schedule[s].server_handshake, transcript[s]))
         hashed == Append(transcript[s], wire)
     IN  /\ transcript' = [transcript EXCEPT ![s] = hashed]
         /\ traffic' = [traffic EXCEPT ![s] = DeriveApplication(schedule[s].master, hashed)]
         /\ network' = network \cup {wire}
  /\ Enter(s, "await_client_finished")
  /\ UNCHANGED <<schedule, x, kem>>

\* Mutant: a Finished may carry the MAC of any session.
SenderOnly(w, sender, secret, hashed) ==
  w \in {Finished(sender, mac) : mac \in MacsSeen}

\* The compare_digest of _read's Finished against the peer's own MAC.
Verified(w, sender, secret, hashed) == w = Finished(sender, Mac(secret, hashed))

\* ClientPeer.receive_server_finished
ReceiveServerFinished(c, w) ==
  /\ state[c] = "await_server_finished"
  /\ IF Verified(w, "server", schedule[c].server_handshake, transcript[c])
     THEN LET hashed == Append(transcript[c], w)
          IN  /\ transcript' = [transcript EXCEPT ![c] = hashed]
              /\ traffic' = [traffic EXCEPT ![c] =
                               DeriveApplication(schedule[c].master, hashed)]
              /\ Enter(c, "ready_client_finished")
              /\ UNCHANGED <<schedule, x, kem, network>>
     ELSE Refuse(c)

\* ClientPeer.client_finished
SendClientFinished(c) ==
  /\ state[c] = "ready_client_finished"
  /\ LET wire == Finished("client", Mac(schedule[c].client_handshake, transcript[c]))
     IN  /\ transcript' = [transcript EXCEPT ![c] = Append(@, wire)]
         /\ network' = network \cup {wire}
  /\ Complete(c)
  /\ UNCHANGED traffic

\* ServerPeer.receive_client_finished
ReceiveClientFinished(s, w) ==
  /\ state[s] = "await_client_finished"
  /\ IF Verified(w, "client", schedule[s].client_handshake, transcript[s])
     THEN /\ transcript' = [transcript EXCEPT ![s] = Append(@, w)]
          /\ Complete(s)
          /\ UNCHANGED <<traffic, network>>
     ELSE Refuse(s)

ClientStep(c) == \/ SendClientHello(c) \/ SendClientFinished(c)
                 \/ \E w \in Deliverable : ReceiveServerHello(c, w) \/ ReceiveServerFinished(c, w)
ServerStep(s) == \/ SendServerFinished(s)
                 \/ \E w \in Deliverable : ReceiveClientHello(s, w) \/ ReceiveClientFinished(s, w)

Next == \/ \E c \in Clients : ClientStep(c)
        \/ \E s \in Servers : ServerStep(s)
        \/ \E p \in Peers : OutOfOrder(p)

Spec == Init /\ [][Next]_vars

-----------------------------------------------------------------------------
(* Properties.                                                             *)

\* The session a peer derived, from its transcript: the client and server
\* application secrets over the two hellos and the server Finished, under
\* the secret the Finished was computed with.  None before that Finished.
SessionOf(t) == IF Len(t) < 3 THEN None
                ELSE DeriveApplication(t[3].verify_data.secret.ikm, <<t[1], t[2], t[3]>>)

\* A peer lets go of each private key as soon as it used it, keeps the
\* handshake secrets only between the hellos and its last Finished, and
\* holds traffic secrets only from its Finished boundary on: a failure at
\* any point, the misuse of a completed peer included, leaves it with none.
KeyLifetime ==
  \A p \in Peers :
    /\ x[p] <=> state[p] \in {"new", "await_server_hello"}
    /\ kem[p] <=> p \in Clients /\ state[p] \in {"new", "await_server_hello"}
    /\ schedule[p] = None <=>
         state[p] \in {"new", "await_server_hello", "complete", "failed"}
    /\ traffic[p] # None <=>
         state[p] \in {"ready_client_finished", "await_client_finished", "complete"}

\* A client that verified a server Finished shares, with exactly one server,
\* every byte of the transcript up to it, so neither hello was altered, and
\* both traffic secrets as long as that server holds any.
ClientAgreement ==
  \A c \in Clients : Len(transcript[c]) >= 3 =>
    \E s \in Servers :
      /\ \A other \in Servers : SessionOf(transcript[other]) = SessionOf(transcript[c])
                                 <=> other = s
      /\ Len(transcript[s]) >= 3
      /\ \A i \in 1..3 : transcript[c][i] = transcript[s][i]
      /\ traffic[c] # None /\ traffic[s] # None => traffic[c] = traffic[s]

\* A server completes only after exactly one client computed the client
\* Finished of that very session; both transcripts are then identical.
ServerAgreement ==
  \A s \in Servers : state[s] = "complete" =>
    \E c \in Clients :
      /\ transcript[c] = transcript[s]
      /\ \A d \in Clients \ {c} : SessionOf(transcript[d]) # SessionOf(transcript[s])
      /\ traffic[c] # None => traffic[c] = traffic[s]

\* No handshake secret ever authenticates two different messages, whatever
\* is replayed to its owner.
MacKeySingleUse ==
  \A v, w \in {n \in network : n.type = "Finished"} :
    v.verify_data.secret = w.verify_data.secret => v = w

\* Failure is terminal and freezes the transcript, completion can only be
\* followed by failure, and a transcript only ever grows at its end.
TerminalPeers ==
  [][\A p \in Peers :
       /\ state[p] = "failed" => state'[p] = "failed"
       /\ state[p] = "complete" => state'[p] \in {"complete", "failed"}
       /\ state[p] \in {"complete", "failed"} => transcript'[p] = transcript[p]
       /\ Len(transcript'[p]) >= Len(transcript[p])
       /\ SubSeq(transcript'[p], 1, Len(transcript[p])) = transcript[p]]_vars

\* The peers implement the abstract handshake.  A peer is bound once it
\* derived its session, and its client confirmed once its Finished is out.
Abstract ==
  INSTANCE HandshakeAgreement WITH
    phase <- [p \in Peers |->
                CASE state[p] \in {"complete"} -> "done"
                  [] state[p] \in {"ready_client_finished", "await_client_finished"} -> "bound"
                  [] state[p] = "failed" -> "failed"
                  [] OTHER -> "open"],
    session <- [p \in Peers |-> SessionOf(transcript[p])],
    secret <- traffic,
    confirmed <- {c \in Clients : Len(transcript[c]) = 4}

\* Every step of the peers is a step of the abstract handshake or invisible
\* to it: agreement, no session taken twice, confirmation before completion.
ImplementsAgreement == Abstract!Spec
=============================================================================
