--------------------------- MODULE MCTLSHandshake ---------------------------
(***************************************************************************)
(* Small instances of TLSHandshake for TLC.  The network alters one field  *)
(* of a hello: the random, the X25519 share (another peer's, a valid one   *)
(* of nobody, one of low order) or the ML-KEM part (another client's, one  *)
(* of nobody, a noncanonical key; another ciphertext).                     *)
(***************************************************************************)
EXTENDS TLSHandshake, TLC

HonestClientHello == {[type |-> "ClientHello", random |-> c, x25519_public |-> c,
                       mlkem_public |-> c] : c \in Clients}
HonestServerHello == {[type |-> "ServerHello", random |-> s, x25519_public |-> s,
                       mlkem_ciphertext |-> [key |-> c, by |-> s]] : s \in Servers, c \in Clients}
HonestHello == HonestClientHello \cup HonestServerHello

MCAltered ==
       {[h EXCEPT !.random = Junk] : h \in HonestHello}
  \cup {[h EXCEPT !.x25519_public = v] : h \in HonestHello, v \in XShare}
  \cup {[h EXCEPT !.mlkem_public = v] : h \in HonestClientHello, v \in KemKey}
  \cup {[h EXCEPT !.mlkem_ciphertext = v] : h \in HonestServerHello, v \in Ciphertext}

\* Peers of one role are interchangeable.
Symmetry == Permutations(Clients) \cup Permutations(Servers)
=============================================================================
