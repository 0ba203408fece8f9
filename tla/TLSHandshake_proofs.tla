------------------------ MODULE TLSHandshake_proofs ------------------------
(***************************************************************************)
(* Machine-checked proofs about TLSHandshake, for any number of clients    *)
(* and servers and any set of altered hellos.                              *)
(***************************************************************************)
EXTENDS TLSHandshake, TLAPS

-----------------------------------------------------------------------------
(* Types of the symbolic values.                                           *)

\* Decapsulating any ciphertext, whoever altered it, yields a shared secret.
LEMMA DecapsulateType ==
  ASSUME NEW c \in Clients, NEW ct \in Ciphertext
  PROVE  Decapsulate(c, ct) \in KemShared
<1>1. CASE ct \in [key : {c}, by : Servers]
  BY <1>1 DEF Decapsulate, KemShared, Encapsulated
<1>2. CASE ct \notin [key : {c}, by : Servers]
  BY <1>2 DEF Decapsulate, KemShared
<1> QED BY <1>1, <1>2

\* The key schedule of any two shared secrets over any hellos is typed.
LEMMA KeyScheduleType ==
  ASSUME NEW xs \in SUBSET (Peers \cup {Junk}), NEW k \in KemShared, NEW t \in Seq(Hello)
  PROVE  KeySchedule(xs, k, t) \in Schedule
BY DEF KeySchedule, Schedule, HandshakeSecret, Ikm

\* Application secrets are typed, and so never None.
LEMMA DeriveType ==
  ASSUME NEW m \in Ikm, NEW t \in Seq(Hello \cup ServerFinishedMessage)
  PROVE  DeriveApplication(m, t) \in TrafficSecrets
BY DEF DeriveApplication, TrafficSecrets, ApplicationSecret

\* Server and client Finished messages are typed messages.
LEMMA ServerFinishedType ==
  ASSUME NEW h \in HandshakeSecret, NEW t \in Seq(Hello)
  PROVE  Finished("server", Mac(h, t)) \in ServerFinishedMessage
BY DEF Finished, Mac, ServerFinishedMessage, ServerMac

LEMMA ClientFinishedType ==
  ASSUME NEW h \in HandshakeSecret, NEW t \in Seq(Hello \cup ServerFinishedMessage)
  PROVE  Finished("client", Mac(h, t)) \in ClientFinishedMessage
BY DEF Finished, Mac, ClientFinishedMessage, ClientMac

\* The transcript types are nested.
LEMMA SeqNesting ==
  /\ Seq(Hello) \subseteq Seq(Hello \cup ServerFinishedMessage)
  /\ Seq(Hello \cup ServerFinishedMessage) \subseteq Seq(Message)
BY DEF Message

-----------------------------------------------------------------------------
(* Type correctness.  TypeOK alone is not inductive: what a peer computes  *)
(* is typed only if its transcript so far and its schedule are.            *)

Stage ==
  \A p \in Peers :
    /\ state[p] \in {"new", "await_server_hello", "await_server_finished",
                     "ready_server_finished"} => transcript[p] \in Seq(Hello)
    /\ state[p] \in {"ready_client_finished", "await_client_finished"} =>
         transcript[p] \in Seq(Hello \cup ServerFinishedMessage)
    /\ state[p] \in {"await_server_finished", "ready_server_finished",
                     "ready_client_finished", "await_client_finished"} =>
         schedule[p] \in Schedule

TypeInv == TypeOK /\ Stage

\* A refused call leaves every peer typed.
LEMMA RefuseType ==
  ASSUME TypeInv, NEW p \in Peers, Refuse(p)
  PROVE  TypeInv'
BY DEF TypeInv, TypeOK, Stage, Refuse, Fail, Peers, ClientState, ServerState

LEMMA TypeInit == Init => TypeInv
BY DEF Init, TypeInv, TypeOK, Stage, Peers, ClientState, ServerState

LEMMA TypeSendClientHello ==
  ASSUME TypeInv, NEW c \in Clients, SendClientHello(c)
  PROVE  TypeInv'
<1> DEFINE hello == [type |-> "ClientHello", random |-> c, x25519_public |-> c, mlkem_public |-> c]
<1>1. hello \in Hello /\ hello \in Message
  BY DEF Hello, ClientHello, Message, XShare, KemKey, Peers
<1>2. c \in Peers /\ transcript[c] \in Seq(Hello)
  BY DEF TypeInv, Stage, SendClientHello, Peers
<1>3. Append(transcript[c], hello) \in Seq(Hello) 
  BY <1>1, <1>2
<1>4. Append(transcript[c], hello) \in Seq(Message)
  BY <1>3, SeqNesting
<1> HIDE DEF hello
<1>5. /\ transcript' = [transcript EXCEPT ![c] = Append(@, hello)]
      /\ network' = network \cup {hello}
      /\ Enter(c, "await_server_hello")
      /\ UNCHANGED <<schedule, traffic, x, kem>>
  BY DEF SendClientHello, hello
<1> QED BY <1>1, <1>2, <1>3, <1>4, <1>5, PeersAssumption
        DEF TypeInv, TypeOK, Stage, Enter, Peers, ClientState, ServerState

LEMMA TypeReceiveClientHello ==
  ASSUME TypeInv, NEW s \in Servers, NEW w, ReceiveClientHello(s, w)
  PROVE  TypeInv'
<1>1. CASE AcceptsClientHello(w)
  <2> DEFINE encapsulated == [key |-> w.mlkem_public, by |-> s]
             reply == [type |-> "ServerHello", random |-> s,
                       x25519_public |-> s, mlkem_ciphertext |-> encapsulated]
             hellos == transcript[s] \o <<w, reply>>
             derived == KeySchedule(Exchange(s, w.x25519_public), encapsulated, hellos)
  <2>1. s \in Peers /\ s \notin Clients /\ transcript[s] \in Seq(Hello)
    BY PeersAssumption DEF TypeInv, Stage, ReceiveClientHello, Peers
  <2>2. w \in ClientHello /\ w.x25519_public \in Peers \cup {Junk}
        /\ w.mlkem_public \in Clients \cup {Junk}
    BY <1>1 DEF AcceptsClientHello, ClientHello, XShare, KemKey
  <2>3. encapsulated \in Encapsulated /\ encapsulated \in KemShared
    BY <2>2 DEF Encapsulated, KemShared
  <2>4. reply \in Hello /\ reply \in Message
    BY <2>1, <2>3 DEF Hello, ServerHello, Message, XShare, Ciphertext
  <2> HIDE DEF encapsulated, reply
  <2>5. hellos \in Seq(Hello) /\ hellos \in Seq(Message)
    <3>1. w \in Hello
      BY <2>2 DEF Hello
    <3>2. hellos \in Seq(Hello)
      BY <2>1, <2>4, <3>1
    <3> QED BY <3>2, SeqNesting
  <2> HIDE DEF hellos
  <2>6. derived \in Schedule
    BY <2>1, <2>2, <2>3, <2>5, KeyScheduleType DEF Exchange
  <2> HIDE DEF derived
  <2>7. /\ transcript' = [transcript EXCEPT ![s] = hellos]
        /\ schedule' = [schedule EXCEPT ![s] = derived]
        /\ network' = network \cup {reply}
        /\ x' = [x EXCEPT ![s] = FALSE]
        /\ Enter(s, "ready_server_finished")
        /\ UNCHANGED <<traffic, kem>>
    BY <1>1 DEF ReceiveClientHello, encapsulated, reply, hellos, derived
  <2> QED BY <2>1, <2>4, <2>5, <2>6, <2>7
          DEF TypeInv, TypeOK, Stage, Enter, Peers, ClientState, ServerState
<1>2. CASE ~AcceptsClientHello(w)
  BY <1>2, RefuseType DEF ReceiveClientHello, Peers
<1> QED BY <1>1, <1>2

LEMMA TypeReceiveServerHello ==
  ASSUME TypeInv, NEW c \in Clients, NEW w, ReceiveServerHello(c, w)
  PROVE  TypeInv'
<1>1. CASE AcceptsServerHello(w)
  <2> DEFINE hellos == Append(transcript[c], w)
             derived == KeySchedule(Exchange(c, w.x25519_public),
                                    Decapsulate(c, w.mlkem_ciphertext), hellos)
  <2>1. c \in Peers /\ c \notin Servers /\ transcript[c] \in Seq(Hello)
    BY PeersAssumption DEF TypeInv, Stage, ReceiveServerHello, Peers
  <2>2. w \in ServerHello /\ w.x25519_public \in Peers \cup {Junk}
        /\ w.mlkem_ciphertext \in Ciphertext
    BY <1>1 DEF AcceptsServerHello, ServerHello, XShare
  <2>3. hellos \in Seq(Hello) /\ hellos \in Seq(Message)
    <3>1. w \in Hello
      BY <2>2 DEF Hello
    <3>2. hellos \in Seq(Hello)
      BY <2>1, <3>1
    <3> QED BY <3>2, SeqNesting
  <2> HIDE DEF hellos
  <2>4. derived \in Schedule
    BY <2>1, <2>2, <2>3, KeyScheduleType, DecapsulateType DEF Exchange
  <2> HIDE DEF derived
  <2>5. /\ transcript' = [transcript EXCEPT ![c] = hellos]
        /\ schedule' = [schedule EXCEPT ![c] = derived]
        /\ x' = [x EXCEPT ![c] = FALSE]
        /\ kem' = [kem EXCEPT ![c] = FALSE]
        /\ Enter(c, "await_server_finished")
        /\ UNCHANGED <<traffic, network>>
    BY <1>1 DEF ReceiveServerHello, hellos, derived
  <2> QED BY <2>1, <2>3, <2>4, <2>5
          DEF TypeInv, TypeOK, Stage, Enter, Peers, ClientState, ServerState
<1>2. CASE ~AcceptsServerHello(w)
  BY <1>2, RefuseType DEF ReceiveServerHello, Peers
<1> QED BY <1>1, <1>2

LEMMA TypeSendServerFinished ==
  ASSUME TypeInv, NEW s \in Servers, SendServerFinished(s)
  PROVE  TypeInv'
<1> DEFINE wire == Finished("server", Mac(schedule[s].server_handshake, transcript[s]))
           hashed == Append(transcript[s], wire)
           secrets == DeriveApplication(schedule[s].master, hashed)
<1>1. /\ s \in Peers /\ s \notin Clients
      /\ transcript[s] \in Seq(Hello) /\ schedule[s] \in Schedule
  BY PeersAssumption DEF TypeInv, Stage, SendServerFinished, Peers
<1>2. schedule[s].server_handshake \in HandshakeSecret /\ schedule[s].master \in Ikm
  BY <1>1 DEF Schedule
<1>3. wire \in ServerFinishedMessage /\ wire \in Message
  BY <1>1, <1>2, ServerFinishedType DEF Message
<1> HIDE DEF wire
<1>4. hashed \in Seq(Hello \cup ServerFinishedMessage) /\ hashed \in Seq(Message)
  BY <1>1, <1>3, SeqNesting
<1> HIDE DEF hashed
<1>5. secrets \in TrafficSecrets
  BY <1>2, <1>4, DeriveType
<1> HIDE DEF secrets
<1>6. /\ transcript' = [transcript EXCEPT ![s] = hashed]
      /\ traffic' = [traffic EXCEPT ![s] = secrets]
      /\ network' = network \cup {wire}
      /\ state[s] = "ready_server_finished"
      /\ Enter(s, "await_client_finished")
      /\ UNCHANGED <<schedule, x, kem>>
  BY DEF SendServerFinished, wire, hashed, secrets
<1> QED BY <1>1, <1>3, <1>4, <1>5, <1>6
        DEF TypeInv, TypeOK, Stage, Enter, Peers, ClientState, ServerState

LEMMA TypeReceiveServerFinished ==
  ASSUME TypeInv, NEW c \in Clients, NEW w, ReceiveServerFinished(c, w)
  PROVE  TypeInv'
<1> DEFINE accepted == Verified(w, "server", schedule[c].server_handshake, transcript[c])
<1>1. CASE accepted
  <2> DEFINE hashed == Append(transcript[c], w)
             secrets == DeriveApplication(schedule[c].master, hashed)
  <2>1. /\ c \in Peers /\ c \notin Servers
        /\ transcript[c] \in Seq(Hello) /\ schedule[c] \in Schedule
    BY PeersAssumption DEF TypeInv, Stage, ReceiveServerFinished, Peers
  <2>2. schedule[c].server_handshake \in HandshakeSecret /\ schedule[c].master \in Ikm
    BY <2>1 DEF Schedule
  <2>3. w \in ServerFinishedMessage /\ w \in Message
    BY <1>1, <2>1, <2>2, ServerFinishedType DEF Message, Verified
  <2>4. hashed \in Seq(Hello \cup ServerFinishedMessage) /\ hashed \in Seq(Message)
    BY <2>1, <2>3, SeqNesting
  <2> HIDE DEF hashed
  <2>5. secrets \in TrafficSecrets
    BY <2>2, <2>4, DeriveType
  <2> HIDE DEF secrets
  <2>6. /\ transcript' = [transcript EXCEPT ![c] = hashed]
        /\ traffic' = [traffic EXCEPT ![c] = secrets]
        /\ Enter(c, "ready_client_finished")
        /\ UNCHANGED <<schedule, x, kem, network>>
    BY <1>1 DEF ReceiveServerFinished, hashed, secrets
  <2> QED BY <2>1, <2>4, <2>5, <2>6
          DEF TypeInv, TypeOK, Stage, Enter, Peers, ClientState, ServerState
<1>2. CASE ~accepted
  BY <1>2, RefuseType DEF ReceiveServerFinished, Peers
<1> QED BY <1>1, <1>2

LEMMA TypeSendClientFinished ==
  ASSUME TypeInv, NEW c \in Clients, SendClientFinished(c)
  PROVE  TypeInv'
<1> DEFINE wire == Finished("client", Mac(schedule[c].client_handshake, transcript[c]))
<1>1. /\ c \in Peers /\ c \notin Servers
      /\ transcript[c] \in Seq(Hello \cup ServerFinishedMessage) /\ schedule[c] \in Schedule
  BY PeersAssumption DEF TypeInv, Stage, SendClientFinished, Peers
<1>2. wire \in ClientFinishedMessage /\ wire \in Message
  BY <1>1, ClientFinishedType DEF Message, Schedule
<1> HIDE DEF wire
<1>3. transcript[c] \in Seq(Message) /\ Append(transcript[c], wire) \in Seq(Message)
  BY <1>1, <1>2, SeqNesting
<1>4. /\ transcript' = [transcript EXCEPT ![c] = Append(@, wire)]
      /\ network' = network \cup {wire}
      /\ Complete(c)
      /\ UNCHANGED traffic
  BY DEF SendClientFinished, wire
<1> QED BY <1>1, <1>2, <1>3, <1>4
        DEF TypeInv, TypeOK, Stage, Complete, Enter, Peers, ClientState, ServerState

LEMMA TypeReceiveClientFinished ==
  ASSUME TypeInv, NEW s \in Servers, NEW w, ReceiveClientFinished(s, w)
  PROVE  TypeInv'
<1> DEFINE accepted == Verified(w, "client", schedule[s].client_handshake, transcript[s])
<1>1. CASE accepted
  <2>1. /\ s \in Peers /\ s \notin Clients
        /\ transcript[s] \in Seq(Hello \cup ServerFinishedMessage) /\ schedule[s] \in Schedule
    BY PeersAssumption DEF TypeInv, Stage, ReceiveClientFinished, Peers
  <2>2. w \in Message
    BY <1>1, <2>1, ClientFinishedType DEF Message, Schedule, Verified
  <2>3. Append(transcript[s], w) \in Seq(Message)
    BY <2>1, <2>2, SeqNesting
  <2>4. /\ transcript' = [transcript EXCEPT ![s] = Append(@, w)]
        /\ Complete(s)
        /\ UNCHANGED <<traffic, network>>
    BY <1>1 DEF ReceiveClientFinished
  <2> QED BY <2>1, <2>3, <2>4
          DEF TypeInv, TypeOK, Stage, Complete, Enter, Peers, ClientState, ServerState
<1>2. CASE ~accepted
  BY <1>2, RefuseType DEF ReceiveClientFinished, Peers
<1> QED BY <1>1, <1>2

LEMMA TypeStep == TypeInv /\ [Next]_vars => TypeInv'
<1> SUFFICES ASSUME TypeInv, [Next]_vars PROVE TypeInv'
  OBVIOUS
<1>1. ASSUME NEW c \in Clients, ClientStep(c) PROVE TypeInv'
  BY <1>1, TypeSendClientHello, TypeSendClientFinished, TypeReceiveServerHello,
     TypeReceiveServerFinished DEF ClientStep
<1>2. ASSUME NEW s \in Servers, ServerStep(s) PROVE TypeInv'
  BY <1>2, TypeSendServerFinished, TypeReceiveClientHello, TypeReceiveClientFinished
     DEF ServerStep
<1>3. ASSUME NEW p \in Peers, OutOfOrder(p) PROVE TypeInv'
  BY <1>3, RefuseType DEF OutOfOrder
<1>4. CASE UNCHANGED vars
  BY <1>4 DEF vars, TypeInv, TypeOK, Stage
<1> QED BY <1>1, <1>2, <1>3, <1>4 DEF Next

\* Every value a peer keeps has its type in every reachable state, whatever
\* the network delivers and in whatever order the operations are called.
THEOREM TypeCorrect == Spec => []TypeOK
<1>1. TypeInv => TypeOK
  BY DEF TypeInv
<1> QED BY <1>1, TypeInit, TypeStep, PTL DEF Spec

-----------------------------------------------------------------------------
(* Key lifetime.                                                           *)

LEMMA RefuseLifetime ==
  ASSUME TypeInv, KeyLifetime, NEW p \in Peers, Refuse(p)
  PROVE  KeyLifetime'
BY DEF TypeInv, TypeOK, KeyLifetime, Refuse, Fail

LEMMA LifetimeStep == TypeInv /\ KeyLifetime /\ [Next]_vars => KeyLifetime'
<1> SUFFICES ASSUME TypeInv, KeyLifetime, [Next]_vars PROVE KeyLifetime'
  OBVIOUS
<1>0. TypeInv'
  BY TypeStep
<1>t. /\ state \in [Peers -> ClientState \cup ServerState]
      /\ schedule \in [Peers -> Schedule \cup {None}]
      /\ traffic \in [Peers -> TrafficSecrets \cup {None}]
      /\ x \in [Peers -> BOOLEAN] /\ kem \in [Peers -> BOOLEAN]
  BY DEF TypeInv, TypeOK
<1> USE <1>t
<1>1. ASSUME NEW c \in Clients, SendClientHello(c) PROVE KeyLifetime'
  BY <1>1 DEF SendClientHello, KeyLifetime, Enter, Peers
<1>2. ASSUME NEW c \in Clients, NEW w, ReceiveServerHello(c, w) PROVE KeyLifetime'
  <2>1. CASE AcceptsServerHello(w)
    <3>1. /\ state[c] = "await_server_hello"
          /\ x' = [x EXCEPT ![c] = FALSE]
          /\ kem' = [kem EXCEPT ![c] = FALSE]
          /\ state' = [state EXCEPT ![c] = "await_server_finished"]
          /\ UNCHANGED traffic
          /\ \A p \in Peers : p # c => schedule'[p] = schedule[p]
      BY <1>2, <2>1 DEF ReceiveServerHello, Enter
    <3>2. schedule'[c] # None
      BY <1>0, <3>1, NoneAssumption DEF TypeInv, Stage, Peers
    <3> QED BY <3>1, <3>2 DEF KeyLifetime, Peers
  <2>2. CASE ~AcceptsServerHello(w)
    BY <1>2, <2>2, RefuseLifetime DEF ReceiveServerHello, Peers
  <2> QED BY <2>1, <2>2
<1>3. ASSUME NEW c \in Clients, NEW w, ReceiveServerFinished(c, w) PROVE KeyLifetime'
  <2> DEFINE accepted == Verified(w, "server", schedule[c].server_handshake, transcript[c])
  <2>1. CASE accepted
    <3>1. /\ state[c] = "await_server_finished"
          /\ state' = [state EXCEPT ![c] = "ready_client_finished"]
          /\ UNCHANGED <<schedule, x, kem>>
          /\ \A p \in Peers : p # c => traffic'[p] = traffic[p]
          /\ traffic'[c] = DeriveApplication(schedule[c].master, Append(transcript[c], w))
      BY <1>3, <2>1 DEF ReceiveServerFinished, Enter, Peers
    <3>2. traffic'[c] # None
      <4>1. schedule[c] \in Schedule /\ transcript[c] \in Seq(Hello)
        BY <3>1 DEF TypeInv, Stage, Peers
      <4>2. w \in ServerFinishedMessage
        BY <2>1, <4>1, ServerFinishedType DEF Verified, Schedule
      <4>3. Append(transcript[c], w) \in Seq(Hello \cup ServerFinishedMessage)
        BY <4>1, <4>2, SeqNesting
      <4>4. schedule[c].master \in Ikm
        BY <4>1 DEF Schedule
      <4> QED BY <3>1, <4>3, <4>4, DeriveType, NoneAssumption
    <3> QED BY <3>1, <3>2 DEF KeyLifetime, Peers
  <2>2. CASE ~accepted
    BY <1>3, <2>2, RefuseLifetime DEF ReceiveServerFinished, Peers
  <2> QED BY <2>1, <2>2
<1>4. ASSUME NEW c \in Clients, SendClientFinished(c) PROVE KeyLifetime'
  BY <1>4 DEF SendClientFinished, Complete, KeyLifetime, Enter, Peers
<1>5. ASSUME NEW s \in Servers, NEW w, ReceiveClientHello(s, w) PROVE KeyLifetime'
  <2>1. CASE AcceptsClientHello(w)
    <3>1. /\ state[s] = "new"
          /\ x' = [x EXCEPT ![s] = FALSE]
          /\ state' = [state EXCEPT ![s] = "ready_server_finished"]
          /\ UNCHANGED <<traffic, kem>>
          /\ \A p \in Peers : p # s => schedule'[p] = schedule[p]
      BY <1>5, <2>1 DEF ReceiveClientHello, Enter
    <3>2. schedule'[s] # None
      BY <1>0, <3>1, NoneAssumption DEF TypeInv, Stage, Peers
    <3> QED BY <3>1, <3>2, PeersAssumption DEF KeyLifetime, Peers
  <2>2. CASE ~AcceptsClientHello(w)
    BY <1>5, <2>2, RefuseLifetime DEF ReceiveClientHello, Peers
  <2> QED BY <2>1, <2>2
<1>6. ASSUME NEW s \in Servers, SendServerFinished(s) PROVE KeyLifetime'
  <2> DEFINE hashed == Append(transcript[s], Finished("server",
                         Mac(schedule[s].server_handshake, transcript[s])))
  <2>1. /\ state[s] = "ready_server_finished"
        /\ state' = [state EXCEPT ![s] = "await_client_finished"]
        /\ UNCHANGED <<schedule, x, kem>>
        /\ \A p \in Peers : p # s => traffic'[p] = traffic[p]
        /\ traffic'[s] = DeriveApplication(schedule[s].master, hashed)
    BY <1>6 DEF SendServerFinished, Enter, Peers
  <2>2. traffic'[s] # None
    <3>1. schedule[s] \in Schedule /\ transcript[s] \in Seq(Hello)
      BY <2>1 DEF TypeInv, Stage, Peers
    <3>2. Finished("server", Mac(schedule[s].server_handshake, transcript[s]))
            \in ServerFinishedMessage
      BY <3>1, ServerFinishedType DEF Schedule
    <3>3. hashed \in Seq(Hello \cup ServerFinishedMessage)
      BY <3>1, <3>2, SeqNesting
    <3>4. schedule[s].master \in Ikm
      BY <3>1 DEF Schedule
    <3> QED BY <2>1, <3>3, <3>4, DeriveType, NoneAssumption
  <2> QED BY <2>1, <2>2 DEF KeyLifetime, Peers
<1>7. ASSUME NEW s \in Servers, NEW w, ReceiveClientFinished(s, w) PROVE KeyLifetime'
  <2> DEFINE accepted == Verified(w, "client", schedule[s].client_handshake, transcript[s])
  <2>1. CASE accepted
    BY <1>7, <2>1 DEF ReceiveClientFinished, Complete, KeyLifetime, Enter, Peers
  <2>2. CASE ~accepted
    BY <1>7, <2>2, RefuseLifetime DEF ReceiveClientFinished, Peers
  <2> QED BY <2>1, <2>2
<1>8. ASSUME NEW p \in Peers, OutOfOrder(p) PROVE KeyLifetime'
  BY <1>8, RefuseLifetime DEF OutOfOrder
<1>9. CASE UNCHANGED vars
  BY <1>9 DEF vars, KeyLifetime
<1> QED BY <1>1, <1>2, <1>3, <1>4, <1>5, <1>6, <1>7, <1>8, <1>9
        DEF Next, ClientStep, ServerStep

\* No peer ever holds a private key, a handshake secret or a traffic secret
\* outside the part of the handshake that needs it, and a failed one holds
\* none at all.
THEOREM KeysDropped == Spec => []KeyLifetime
<1>1. Init => KeyLifetime
  BY DEF Init, KeyLifetime, Peers
<1> QED BY <1>1, TypeInit, TypeStep, LifetimeStep, PTL DEF Spec
-----------------------------------------------------------------------------
(* Agreement.  The inductive invariant ties the MACs on the network to the *)
(* transcripts they were computed over.                                    *)

\* How many wires a peer has appended, by its state.
PositionAt(p) ==
  /\ Len(transcript[p]) <= 4
  /\ state[p] = "new" => Len(transcript[p]) = 0
  /\ state[p] = "await_server_hello" => Len(transcript[p]) = 1
  /\ state[p] \in {"await_server_finished", "ready_server_finished"} => Len(transcript[p]) = 2
  /\ state[p] \in {"ready_client_finished", "await_client_finished"} => Len(transcript[p]) = 3
  /\ state[p] = "complete" => Len(transcript[p]) = 4

\* A peer's own hello carries its own random.
OriginAt(p) ==
  /\ p \in Clients /\ Len(transcript[p]) >= 1 => transcript[p][1].random = p
  /\ p \in Servers /\ Len(transcript[p]) >= 2 => transcript[p][2].random = p

Hellos(t) == <<t[1], t[2]>>

\* Both handshake secrets come from the master secret and the two hellos.
KeyedAt(p) ==
  state[p] \in {"await_server_finished", "ready_server_finished",
                "ready_client_finished", "await_client_finished"} =>
    /\ schedule[p].client_handshake =
         [label |-> "c hs traffic", ikm |-> schedule[p].master,
          transcript |-> Hellos(transcript[p])]
    /\ schedule[p].server_handshake =
         [label |-> "s hs traffic", ikm |-> schedule[p].master,
          transcript |-> Hellos(transcript[p])]

\* The application secrets a peer holds are those of its transcript.
DerivedAt(p) ==
  traffic[p] # None => Len(transcript[p]) >= 3 /\ traffic[p] = SessionOf(transcript[p])

\* What a peer accepted is what a peer of the other role has in its
\* transcript at the same places.
ClientAcceptedAt(c) ==
  Len(transcript[c]) >= 3 =>
    \E s \in Servers : /\ Len(transcript[s]) >= 3
                       /\ \A i \in 1..3 : transcript[c][i] = transcript[s][i]
ServerAcceptedAt(s) ==
  Len(transcript[s]) = 4 =>
    \E c \in Clients : /\ Len(transcript[c]) = 4
                       /\ \A i \in 1..4 : transcript[c][i] = transcript[s][i]

PeerInv(p) == /\ OriginAt(p)
              /\ KeyedAt(p)
              /\ DerivedAt(p)
              /\ p \in Clients => ClientAcceptedAt(p)
              /\ p \in Servers => ServerAcceptedAt(p)

\* Finished m was sent by a server over its two hellos, or by a client over
\* its first three wires; the label of its secret tells which.
FromServer(m) ==
  \E s \in Servers : /\ Len(transcript[s]) >= 3
                     /\ transcript[s][3] = m
                     /\ m.sender = "server"
                     /\ m.verify_data.transcript = Hellos(transcript[s])
FromClient(m) ==
  \E c \in Clients : /\ Len(transcript[c]) = 4
                     /\ transcript[c][4] = m
                     /\ m.sender = "client"
                     /\ m.verify_data.transcript =
                          <<transcript[c][1], transcript[c][2], transcript[c][3]>>
AuthenticMessage(m) ==
  /\ m.verify_data.secret.label = "s hs traffic" => FromServer(m)
  /\ m.verify_data.secret.label = "c hs traffic" => FromClient(m)

Positions == \A p \in Peers : PositionAt(p)
Authentic == \A m \in network : m.type = "Finished" => AuthenticMessage(m)

AgreementInv == /\ TypeInv
                /\ Positions
                /\ Authentic
                /\ \A p \in Peers : PeerInv(p)

-----------------------------------------------------------------------------
(* Transcripts only grow.                                                  *)

Grows == \A p \in Peers : /\ Len(transcript[p]) <= Len(transcript'[p])
                          /\ \A i \in 1..Len(transcript[p]) : transcript'[p][i] = transcript[p][i]

\* Sequences of two and three wires, element by element.
LEMMA Pair ==
  ASSUME NEW t \in Seq(Message), Len(t) = 2
  PROVE  t = Hellos(t)
BY DEF Hellos

LEMMA Triple ==
  ASSUME NEW t \in Seq(Message), Len(t) = 3
  PROVE  t = <<t[1], t[2], t[3]>>
OBVIOUS

\* The handshake secrets of a fresh key schedule.
LEMMA FreshKeysNext ==
  ASSUME NEW xs, NEW k, NEW t, NEW p, t = Hellos(transcript'[p]),
         schedule'[p] = KeySchedule(xs, k, t)
  PROVE  KeyedAt(p)'
<1> DEFINE ikm == [x |-> xs, kem |-> k]
           client == [label |-> "c hs traffic", ikm |-> ikm, transcript |-> t]
           server == [label |-> "s hs traffic", ikm |-> ikm, transcript |-> t]
<1>1. schedule'[p] = [client_handshake |-> client, server_handshake |-> server, master |-> ikm]
  BY DEF KeySchedule
<1> HIDE DEF client, server, ikm
<1>2. /\ schedule'[p].master = ikm
      /\ schedule'[p].client_handshake = client
      /\ schedule'[p].server_handshake = server
  BY <1>1
<1> QED BY <1>2 DEF KeyedAt, client, server

\* Appending one message to the transcript of p.
LEMMA AppendGrows ==
  ASSUME TypeInv, NEW p \in Peers, NEW w \in Message,
         transcript' = [transcript EXCEPT ![p] = Append(@, w)]
  PROVE  /\ Grows
         /\ Len(transcript'[p]) = Len(transcript[p]) + 1
         /\ transcript'[p][Len(transcript[p]) + 1] = w
         /\ \A q \in Peers \ {p} : transcript'[q] = transcript[q]
<1>1. transcript \in [Peers -> Seq(Message)]
  BY DEF TypeInv, TypeOK
<1>2. transcript'[p] = Append(transcript[p], w)
  BY <1>1
<1>3. \A q \in Peers \ {p} : transcript'[q] = transcript[q]
  BY <1>1
<1>4. transcript[p] \in Seq(Message)
  BY <1>1
<1>5. /\ Len(transcript'[p]) = Len(transcript[p]) + 1
      /\ transcript'[p][Len(transcript[p]) + 1] = w
      /\ \A i \in 1..Len(transcript[p]) : transcript'[p][i] = transcript[p][i]
  BY <1>2, <1>4
<1>6. \A q \in Peers : Len(transcript[q]) \in Nat
  BY <1>1
<1> QED BY <1>3, <1>5, <1>6 DEF Grows

\* A message stays authentic while transcripts grow.
LEMMA StaysAuthentic ==
  ASSUME TypeInv, TypeInv', Positions, Positions', Grows, NEW m, AuthenticMessage(m)
  PROVE  AuthenticMessage(m)'
<1>0. \A p \in Peers : Len(transcript[p]) \in Nat /\ Len(transcript'[p]) \in Nat
  BY DEF TypeInv, TypeOK
<1>1. ASSUME FromServer(m) PROVE FromServer(m)'
  <2>1. PICK s \in Servers : /\ Len(transcript[s]) >= 3
                             /\ transcript[s][3] = m
                             /\ m.sender = "server"
                             /\ m.verify_data.transcript = Hellos(transcript[s])
    BY <1>1 DEF FromServer
  <2>2. s \in Peers
    BY DEF Peers
  <2>3. \A i \in 1..3 : transcript'[s][i] = transcript[s][i]
    BY <1>0, <2>1, <2>2 DEF Grows
  <2>4. Len(transcript'[s]) >= 3
    BY <1>0, <2>1, <2>2 DEF Grows
  <2> QED BY <2>1, <2>3, <2>4 DEF FromServer, Hellos
<1>2. ASSUME FromClient(m) PROVE FromClient(m)'
  <2>1. PICK c \in Clients : /\ Len(transcript[c]) = 4
                             /\ transcript[c][4] = m
                             /\ m.sender = "client"
                             /\ m.verify_data.transcript =
                                  <<transcript[c][1], transcript[c][2], transcript[c][3]>>
    BY <1>2 DEF FromClient
  <2>2. c \in Peers
    BY DEF Peers
  <2>3. \A i \in 1..4 : transcript'[c][i] = transcript[c][i]
    BY <1>0, <2>1, <2>2 DEF Grows
  <2>4. Len(transcript'[c]) = 4
    BY <1>0, <2>1, <2>2 DEF Grows, Positions, PositionAt
  <2> QED BY <2>1, <2>3, <2>4 DEF FromClient
<1> QED BY <1>1, <1>2 DEF AuthenticMessage

\* What a client accepted stays in the transcript of its server.
LEMMA ClientStaysAccepted ==
  ASSUME TypeInv, TypeInv', Grows,
         NEW c \in Clients, ClientAcceptedAt(c), transcript'[c] = transcript[c]
  PROVE  ClientAcceptedAt(c)'
<1> SUFFICES ASSUME Len(transcript[c]) >= 3 PROVE ClientAcceptedAt(c)'
  BY DEF ClientAcceptedAt
<1>0. \A p \in Peers : Len(transcript[p]) \in Nat /\ Len(transcript'[p]) \in Nat
  BY DEF TypeInv, TypeOK
<1>1. PICK s \in Servers : /\ Len(transcript[s]) >= 3
                           /\ \A i \in 1..3 : transcript[c][i] = transcript[s][i]
  BY DEF ClientAcceptedAt
<1>2. s \in Peers
  BY DEF Peers
<1>3. Len(transcript'[s]) >= 3 /\ \A i \in 1..3 : transcript'[s][i] = transcript[s][i]
  BY <1>0, <1>1, <1>2 DEF Grows
<1> QED BY <1>1, <1>3 DEF ClientAcceptedAt

\* What a server accepted stays in the transcript of its client.
LEMMA ServerStaysAccepted ==
  ASSUME TypeInv, TypeInv', Positions', Grows,
         NEW s \in Servers, ServerAcceptedAt(s), transcript'[s] = transcript[s]
  PROVE  ServerAcceptedAt(s)'
<1> SUFFICES ASSUME Len(transcript[s]) = 4 PROVE ServerAcceptedAt(s)'
  BY DEF ServerAcceptedAt
<1>0. \A p \in Peers : Len(transcript[p]) \in Nat /\ Len(transcript'[p]) \in Nat
  BY DEF TypeInv, TypeOK
<1>1. PICK c \in Clients : /\ Len(transcript[c]) = 4
                           /\ \A i \in 1..4 : transcript[c][i] = transcript[s][i]
  BY DEF ServerAcceptedAt
<1>2. c \in Peers
  BY DEF Peers
<1>3. Len(transcript'[c]) = 4 /\ \A i \in 1..4 : transcript'[c][i] = transcript[c][i]
  BY <1>0, <1>1, <1>2 DEF Grows, Positions, PositionAt
<1> QED BY <1>1, <1>3 DEF ServerAcceptedAt

-----------------------------------------------------------------------------
(* The network cannot make up a MAC.                                       *)

\* A delivered Finished that carries a real MAC carries one that was sent.
LEMMA MacWasSent ==
  ASSUME TypeInv, NEW w \in Deliverable, NEW sender \in {"client", "server"},
         NEW mac, mac \in ServerMac \/ mac \in ClientMac,
         w = Finished(sender, mac),
         w \in ServerFinishedMessage \/ w \in ClientFinishedMessage
  PROVE  \E m \in network : m.type = "Finished" /\ m.verify_data = mac
<1>1. w.type = "Finished" /\ w.verify_data = mac
  BY DEF Finished
<1>2. CASE w \in network
  BY <1>1, <1>2
<1>3. CASE w \in Altered
  BY <1>1, <1>3, AlteredAssumption DEF Hello, ClientHello, ServerHello
<1>4. CASE w = Malformed
  BY <1>4, MalformedAssumption
<1>5. CASE w \in {Finished(r, v) : r \in {"client", "server"}, v \in MacsSeen \cup {Junk}}
  <2>1. PICK r \in {"client", "server"}, v \in MacsSeen \cup {Junk} : w = Finished(r, v)
    BY <1>5
  <2>2. v = mac
    BY <1>1, <2>1 DEF Finished
  <2>3. mac # Junk
    BY JunkAssumption
  <2> QED BY <2>1, <2>2, <2>3 DEF MacsSeen
<1> QED BY <1>2, <1>3, <1>4, <1>5 DEF Deliverable

-----------------------------------------------------------------------------
(* Steps.                                                                  *)

\* A step that touches only peer p and extends its transcript preserves the
\* invariant if it does so for p and for the messages it sends.
LEMMA Frame ==
  ASSUME AgreementInv, TypeInv', Grows, NEW p \in Peers,
         \A q \in Peers \ {p} : /\ transcript'[q] = transcript[q]
                                /\ state'[q] = state[q]
                                /\ schedule'[q] = schedule[q]
                                /\ traffic'[q] = traffic[q],
         PositionAt(p)', PeerInv(p)',
         \A m \in network' \ network : m.type = "Finished" => AuthenticMessage(m)'
  PROVE  AgreementInv'
<1>1. Positions'
  BY DEF AgreementInv, Positions, PositionAt
<1>2. Authentic'
  BY <1>1, StaysAuthentic DEF AgreementInv, Authentic
<1>3. ASSUME NEW q \in Peers \ {p} PROVE PeerInv(q)'
  <2>1. PeerInv(q)
    BY DEF AgreementInv
  <2>2. OriginAt(q)'
    BY <2>1 DEF PeerInv, OriginAt
  <2>3. KeyedAt(q)'
    BY <2>1 DEF PeerInv, KeyedAt, Hellos
  <2>4. DerivedAt(q)'
    BY <2>1 DEF PeerInv, DerivedAt, SessionOf
  <2>5. q \in Clients => ClientAcceptedAt(q)'
    BY <2>1, ClientStaysAccepted DEF AgreementInv, PeerInv
  <2>6. q \in Servers => ServerAcceptedAt(q)'
    BY <1>1, <2>1, ServerStaysAccepted DEF AgreementInv, PeerInv
  <2> QED BY <2>2, <2>3, <2>4, <2>5, <2>6 DEF PeerInv
<1> QED BY <1>1, <1>2, <1>3 DEF AgreementInv

\* A refused call changes no transcript and no message.
LEMMA RefuseAgreement ==
  ASSUME AgreementInv, NEW p \in Peers, Refuse(p)
  PROVE  AgreementInv'
<1>1. TypeInv /\ TypeInv'
  BY RefuseType DEF AgreementInv
<1>2. Grows
  BY DEF Refuse, Grows, TypeInv, TypeOK
<1>3. /\ state'[p] = "failed" /\ traffic'[p] = None
      /\ transcript' = transcript /\ network' = network
  BY <1>1 DEF Refuse, Fail, TypeInv, TypeOK
<1>4. \A q \in Peers \ {p} : /\ state'[q] = state[q]
                             /\ schedule'[q] = schedule[q]
                             /\ traffic'[q] = traffic[q]
  BY <1>1 DEF Refuse, Fail, TypeInv, TypeOK
<1>5. PositionAt(p)'
  BY <1>3 DEF AgreementInv, Positions, PositionAt
<1>6. PeerInv(p)
  BY DEF AgreementInv
<1>7. PeerInv(p)'
  <2>1. OriginAt(p)' /\ KeyedAt(p)' /\ DerivedAt(p)'
    BY <1>3, <1>6 DEF PeerInv, OriginAt, KeyedAt, DerivedAt
  <2>2. p \in Clients => ClientAcceptedAt(p)'
    BY <1>3, <1>6 DEF PeerInv, ClientAcceptedAt
  <2>3. p \in Servers => ServerAcceptedAt(p)'
    BY <1>3, <1>6 DEF PeerInv, ServerAcceptedAt
  <2> QED BY <2>1, <2>2, <2>3 DEF PeerInv
<1> QED BY <1>1, <1>2, <1>3, <1>4, <1>5, <1>7, Frame

LEMMA AgreeSendClientHello ==
  ASSUME AgreementInv, NEW c \in Clients, SendClientHello(c)
  PROVE  AgreementInv'
<1> DEFINE hello == [type |-> "ClientHello", random |-> c, x25519_public |-> c, mlkem_public |-> c]
<1>1. TypeInv /\ TypeInv' /\ c \in Peers /\ c \notin Servers
  BY TypeSendClientHello, PeersAssumption DEF AgreementInv, Peers
<1>2. hello \in Message /\ hello.random = c /\ hello.type # "Finished"
  BY DEF Hello, ClientHello, Message, XShare, KemKey, Peers
<1> HIDE DEF hello
<1>3. /\ state[c] = "new"
      /\ transcript' = [transcript EXCEPT ![c] = Append(@, hello)]
      /\ network' = network \cup {hello}
      /\ state' = [state EXCEPT ![c] = "await_server_hello"]
      /\ UNCHANGED <<schedule, traffic, x, kem>>
  BY DEF SendClientHello, Enter, hello
<1>4. Len(transcript[c]) = 0
  BY <1>1, <1>3 DEF AgreementInv, Positions, PositionAt
<1>5. /\ Grows
      /\ Len(transcript'[c]) = 1 /\ transcript'[c][1] = hello
      /\ \A q \in Peers \ {c} : transcript'[q] = transcript[q]
  <2>1. /\ Grows
        /\ Len(transcript'[c]) = Len(transcript[c]) + 1
        /\ transcript'[c][Len(transcript[c]) + 1] = hello
        /\ \A q \in Peers \ {c} : transcript'[q] = transcript[q]
    BY <1>1, <1>2, <1>3, AppendGrows, ZenonT(60)
  <2> QED BY <1>4, <2>1
<1>6. /\ state'[c] = "await_server_hello"
      /\ \A q \in Peers \ {c} : state'[q] = state[q]
  BY <1>1, <1>3 DEF TypeInv, TypeOK
<1>7. PositionAt(c)'
  BY <1>5, <1>6 DEF PositionAt
<1>8. traffic[c] = None
  BY <1>1, <1>4 DEF AgreementInv, PeerInv, DerivedAt
<1>9. PeerInv(c)'
  <2>1. OriginAt(c)'
    BY <1>1, <1>2, <1>5 DEF OriginAt
  <2>2. KeyedAt(c)' /\ DerivedAt(c)'
    BY <1>3, <1>6, <1>8 DEF KeyedAt, DerivedAt
  <2>3. ClientAcceptedAt(c)'
    BY <1>5 DEF ClientAcceptedAt
  <2> QED BY <1>1, <2>1, <2>2, <2>3 DEF PeerInv
<1> QED BY <1>1, <1>2, <1>3, <1>5, <1>6, <1>7, <1>9, Frame

LEMMA AgreeReceiveClientHello ==
  ASSUME AgreementInv, NEW s \in Servers, NEW w, ReceiveClientHello(s, w)
  PROVE  AgreementInv'
<1>0. s \in Peers /\ s \notin Clients
  BY PeersAssumption DEF Peers
<1>1. CASE AcceptsClientHello(w)
  <2> DEFINE encapsulated == [key |-> w.mlkem_public, by |-> s]
             reply == [type |-> "ServerHello", random |-> s,
                       x25519_public |-> s, mlkem_ciphertext |-> encapsulated]
             hellos == transcript[s] \o <<w, reply>>
             derived == KeySchedule(Exchange(s, w.x25519_public), encapsulated, hellos)
  <2>1. TypeInv /\ TypeInv' /\ transcript \in [Peers -> Seq(Message)]
    BY TypeReceiveClientHello DEF AgreementInv, TypeInv, TypeOK
  <2>2. /\ state[s] = "new"
        /\ transcript' = [transcript EXCEPT ![s] = hellos]
        /\ schedule' = [schedule EXCEPT ![s] = derived]
        /\ network' = network \cup {reply}
        /\ state' = [state EXCEPT ![s] = "ready_server_finished"]
        /\ UNCHANGED <<traffic, kem>>
    BY <1>1 DEF ReceiveClientHello, Enter
  <2>3. transcript[s] \in Seq(Message) /\ Len(transcript[s]) = 0
    BY <1>0, <2>1, <2>2 DEF AgreementInv, Positions, PositionAt
  <2>4. hellos = <<w, reply>>
    <3>1. transcript[s] = <<>>
      BY <2>3
    <3> QED BY <3>1
  <2>5. reply.type # "Finished" /\ reply.random = s
    OBVIOUS
  <2> HIDE DEF reply, hellos
  <2>6. /\ transcript'[s] = <<w, reply>>
        /\ \A q \in Peers \ {s} : transcript'[q] = transcript[q]
        /\ schedule'[s] = derived
        /\ \A q \in Peers \ {s} : schedule'[q] = schedule[q]
        /\ state'[s] = "ready_server_finished"
        /\ \A q \in Peers \ {s} : state'[q] = state[q]
    BY <1>0, <2>1, <2>2, <2>4 DEF TypeInv, TypeOK
  <2>7. Len(transcript'[s]) = 2 /\ transcript'[s][1] = w /\ transcript'[s][2] = reply
    BY <2>6
  <2>8. Grows
    BY <2>1, <2>3, <2>6, <2>7 DEF Grows
  <2>9. PositionAt(s)'
    BY <2>6, <2>7 DEF PositionAt
  <2>10. traffic[s] = None /\ traffic'[s] = None
    BY <1>0, <2>2, <2>3 DEF AgreementInv, PeerInv, DerivedAt
  <2>11. KeyedAt(s)'
    <3>1. hellos = Hellos(transcript'[s])
      BY <2>4, <2>6, <2>7 DEF Hellos
    <3> QED BY <2>6, <3>1, FreshKeysNext
  <2>12. PeerInv(s)'
    BY <1>0, <2>5, <2>7, <2>10, <2>11 DEF PeerInv, OriginAt, DerivedAt, ServerAcceptedAt
  <2> QED BY <1>0, <2>1, <2>2, <2>5, <2>6, <2>8, <2>9, <2>12, Frame
<1>2. CASE ~AcceptsClientHello(w)
  BY <1>0, <1>2, RefuseAgreement DEF ReceiveClientHello
<1> QED BY <1>1, <1>2

LEMMA AgreeReceiveServerHello ==
  ASSUME AgreementInv, NEW c \in Clients, NEW w, ReceiveServerHello(c, w)
  PROVE  AgreementInv'
<1>0. c \in Peers /\ c \notin Servers
  BY PeersAssumption DEF Peers
<1>1. CASE AcceptsServerHello(w)
  <2> DEFINE hellos == Append(transcript[c], w)
             derived == KeySchedule(Exchange(c, w.x25519_public),
                                    Decapsulate(c, w.mlkem_ciphertext), hellos)
  <2>1. TypeInv /\ TypeInv'
    BY TypeReceiveServerHello DEF AgreementInv
  <2>2. w \in Message
    BY <1>1 DEF AcceptsServerHello, Message, Hello
  <2>3. /\ state[c] = "await_server_hello"
        /\ transcript' = [transcript EXCEPT ![c] = Append(@, w)]
        /\ schedule' = [schedule EXCEPT ![c] = derived]
        /\ state' = [state EXCEPT ![c] = "await_server_finished"]
        /\ UNCHANGED <<traffic, network>>
    BY <1>1 DEF ReceiveServerHello, Enter
  <2>4. Len(transcript[c]) = 1 /\ transcript[c] \in Seq(Message)
    BY <1>0, <2>1, <2>3 DEF AgreementInv, Positions, PositionAt, TypeInv, TypeOK
  <2>5. /\ Grows
        /\ Len(transcript'[c]) = 2
        /\ \A q \in Peers \ {c} : transcript'[q] = transcript[q]
    <3>1. /\ Grows
          /\ Len(transcript'[c]) = Len(transcript[c]) + 1
          /\ \A q \in Peers \ {c} : transcript'[q] = transcript[q]
      BY <1>0, <2>1, <2>2, <2>3, AppendGrows
    <3> QED BY <2>4, <3>1
  <2>6. hellos = transcript'[c] /\ hellos = Hellos(transcript'[c])
    <3>1. transcript'[c] = hellos /\ transcript'[c] \in Seq(Message)
      BY <1>0, <2>1, <2>3 DEF TypeInv, TypeOK
    <3> QED BY <2>5, <3>1, Pair
  <2>7. /\ schedule'[c] = derived
        /\ \A q \in Peers \ {c} : schedule'[q] = schedule[q]
        /\ state'[c] = "await_server_finished"
        /\ \A q \in Peers \ {c} : state'[q] = state[q]
    BY <1>0, <2>1, <2>3 DEF TypeInv, TypeOK
  <2>8. PositionAt(c)'
    BY <2>5, <2>7 DEF PositionAt
  <2>9. traffic[c] = None /\ traffic'[c] = None
    <3>1. DerivedAt(c)
      BY <1>0 DEF AgreementInv, PeerInv
    <3> QED BY <2>3, <2>4, <3>1 DEF DerivedAt
  <2>10. KeyedAt(c)'
    BY <2>6, <2>7, FreshKeysNext
  <2>11. OriginAt(c)'
    <3>1. OriginAt(c)
      BY <1>0 DEF AgreementInv, PeerInv
    <3>2. transcript'[c][1] = transcript[c][1]
      BY <1>0, <2>4, <2>5 DEF Grows
    <3> QED BY <1>0, <2>4, <3>1, <3>2 DEF OriginAt
  <2>12. PeerInv(c)'
    BY <1>0, <2>5, <2>9, <2>10, <2>11 DEF PeerInv, DerivedAt, ClientAcceptedAt
  <2> QED BY <1>0, <2>1, <2>3, <2>5, <2>7, <2>8, <2>12, Frame
<1>2. CASE ~AcceptsServerHello(w)
  BY <1>0, <1>2, RefuseAgreement DEF ReceiveServerHello
<1> QED BY <1>1, <1>2

\* The application secrets derived over three wires, the last of them a
\* Finished under a handshake secret of the same master, are the session's.
LEMMA DerivesSession ==
  ASSUME NEW t \in Seq(Message), Len(t) = 3
  PROVE  SessionOf(t) = DeriveApplication(t[3].verify_data.secret.ikm, t)
<1>1. t = <<t[1], t[2], t[3]>>
  BY Triple
<1>2. SessionOf(t) = DeriveApplication(t[3].verify_data.secret.ikm, <<t[1], t[2], t[3]>>)
  BY DEF SessionOf
<1> QED BY <1>1, <1>2

\* A session is that of the first three wires alone.
LEMMA SameSession ==
  ASSUME NEW t, NEW u, Len(t) \in Nat, Len(u) \in Nat, Len(t) >= 3, Len(u) >= 3,
         \A i \in 1..3 : t[i] = u[i]
  PROVE  SessionOf(t) = SessionOf(u)
<1>1. t[1] = u[1] /\ t[2] = u[2] /\ t[3] = u[3]
  OBVIOUS
<1> QED BY <1>1 DEF SessionOf

LEMMA AgreeSendServerFinished ==
  ASSUME AgreementInv, NEW s \in Servers, SendServerFinished(s)
  PROVE  AgreementInv'
<1> DEFINE h == schedule[s].server_handshake
           wire == Finished("server", Mac(h, transcript[s]))
<1>1. /\ TypeInv /\ TypeInv' /\ s \in Peers /\ s \notin Clients
      /\ PeerInv(s) /\ PositionAt(s)
  BY TypeSendServerFinished, PeersAssumption DEF AgreementInv, Positions, Peers
<1>2. /\ state[s] = "ready_server_finished"
      /\ transcript' = [transcript EXCEPT ![s] = Append(@, wire)]
      /\ traffic' = [traffic EXCEPT ![s] =
                       DeriveApplication(schedule[s].master, Append(transcript[s], wire))]
      /\ network' = network \cup {wire}
      /\ state' = [state EXCEPT ![s] = "await_client_finished"]
      /\ UNCHANGED schedule
  BY DEF SendServerFinished, Enter
<1>3. /\ Len(transcript[s]) = 2 /\ transcript[s] \in Seq(Hello) /\ transcript[s] \in Seq(Message)
      /\ schedule[s] \in Schedule
  BY <1>1, <1>2, SeqNesting DEF PositionAt, TypeInv, Stage
<1>4. h.label = "s hs traffic" /\ h.ikm = schedule[s].master /\ h \in HandshakeSecret
  <2>1. h = [label |-> "s hs traffic", ikm |-> schedule[s].master,
            transcript |-> Hellos(transcript[s])]
    BY <1>1, <1>2 DEF PeerInv, KeyedAt
  <2>2. h \in HandshakeSecret
    BY <1>3 DEF Schedule
  <2> HIDE DEF h
  <2> QED BY <2>1, <2>2
<1>5. wire \in Message
  BY <1>3, <1>4, ServerFinishedType DEF Message
<1>6. /\ wire.sender = "server" /\ wire.verify_data.transcript = transcript[s]
      /\ wire.verify_data.secret = h
  BY DEF Finished, Mac
<1>7. transcript[s] = Hellos(transcript[s])
  BY <1>3, Pair
<1> HIDE DEF wire, h
<1>8. /\ Grows
      /\ Len(transcript'[s]) = Len(transcript[s]) + 1
      /\ transcript'[s][Len(transcript[s]) + 1] = wire
      /\ \A q \in Peers \ {s} : transcript'[q] = transcript[q]
  BY <1>1, <1>2, <1>5, AppendGrows
<1>9. Len(transcript'[s]) = 3 /\ transcript'[s][3] = wire
  BY <1>3, <1>8
<1>10. Hellos(transcript'[s]) = Hellos(transcript[s])
  BY <1>1, <1>3, <1>8 DEF Grows, Hellos
<1>11. ASSUME NEW m, m = wire PROVE AuthenticMessage(m)'
  <2>1. FromServer(m)'
    BY <1>6, <1>7, <1>9, <1>10, <1>11 DEF FromServer
  <2> QED BY <1>4, <1>6, <1>11, <2>1 DEF AuthenticMessage
<1>12. /\ state'[s] = "await_client_finished"
       /\ \A q \in Peers \ {s} : state'[q] = state[q] /\ traffic'[q] = traffic[q]
       /\ traffic'[s] = DeriveApplication(schedule[s].master, transcript'[s])
       /\ transcript'[s] \in Seq(Message)
  BY <1>1, <1>2 DEF TypeInv, TypeOK
<1>13. PositionAt(s)'
  BY <1>9, <1>12 DEF PositionAt
<1>14. OriginAt(s)'
  <2>1. transcript'[s][2] = transcript[s][2]
    BY <1>1, <1>3, <1>8 DEF Grows
  <2> QED BY <1>1, <1>3, <2>1 DEF PeerInv, OriginAt
<1>15. KeyedAt(s)'
  BY <1>1, <1>2, <1>10 DEF PeerInv, KeyedAt
<1>16. DerivedAt(s)'
  <2>1. transcript'[s][3].verify_data.secret.ikm = schedule[s].master
    BY <1>4, <1>6, <1>9
  <2>2. SessionOf(transcript'[s]) = DeriveApplication(schedule[s].master, transcript'[s])
    BY <1>9, <1>12, <2>1, DerivesSession
  <2> QED BY <1>9, <1>12, <2>2 DEF DerivedAt
<1>17. PeerInv(s)'
  BY <1>1, <1>9, <1>14, <1>15, <1>16 DEF PeerInv, ServerAcceptedAt
<1> QED BY <1>1, <1>2, <1>8, <1>11, <1>12, <1>13, <1>17, Frame

LEMMA AgreeReceiveServerFinished ==
  ASSUME AgreementInv, NEW c \in Clients, NEW w \in Deliverable, ReceiveServerFinished(c, w)
  PROVE  AgreementInv'
<1>0. c \in Peers /\ c \notin Servers
  BY PeersAssumption DEF Peers
<1> DEFINE h == schedule[c].server_handshake
<1>1. CASE Verified(w, "server", h, transcript[c])
  <2>1. /\ TypeInv /\ TypeInv' /\ PeerInv(c) /\ PositionAt(c)
    BY <1>0, TypeReceiveServerFinished DEF AgreementInv, Positions
  <2>2. /\ state[c] = "await_server_finished"
        /\ transcript' = [transcript EXCEPT ![c] = Append(@, w)]
        /\ traffic' = [traffic EXCEPT ![c] =
                         DeriveApplication(schedule[c].master, Append(transcript[c], w))]
        /\ state' = [state EXCEPT ![c] = "ready_client_finished"]
        /\ UNCHANGED <<schedule, network>>
    BY <1>1 DEF ReceiveServerFinished, Enter
  <2>3. /\ Len(transcript[c]) = 2 /\ transcript[c] \in Seq(Hello) /\ transcript[c] \in Seq(Message)
        /\ schedule[c] \in Schedule
    BY <1>0, <2>1, <2>2, SeqNesting DEF PositionAt, TypeInv, Stage
  <2>4. h.label = "s hs traffic" /\ h.ikm = schedule[c].master /\ h \in HandshakeSecret
    <3>1. h = [label |-> "s hs traffic", ikm |-> schedule[c].master,
              transcript |-> Hellos(transcript[c])]
      BY <2>1, <2>2 DEF PeerInv, KeyedAt
    <3>2. h \in HandshakeSecret
      BY <2>3 DEF Schedule
    <3> HIDE DEF h
    <3> QED BY <3>1, <3>2
  <2>5. w = Finished("server", Mac(h, transcript[c]))
    BY <1>1 DEF Verified
  <2>6. w \in ServerFinishedMessage /\ w \in Message /\ Mac(h, transcript[c]) \in ServerMac
    BY <2>3, <2>4, <2>5, ServerFinishedType DEF Message, Mac, ServerMac
  <2>7. w.type = "Finished" /\ w.sender = "server" /\ w.verify_data = Mac(h, transcript[c])
    BY <2>5 DEF Finished
  <2>8. Mac(h, transcript[c]).secret = h /\ Mac(h, transcript[c]).transcript = transcript[c]
    BY DEF Mac
  <2> HIDE DEF h
  <2>9. PICK s \in Servers : /\ Len(transcript[s]) >= 3
                             /\ transcript[s][3] = w
                             /\ transcript[c] = Hellos(transcript[s])
    <3>1. PICK m \in network : m.type = "Finished" /\ m.verify_data = Mac(h, transcript[c])
      BY <2>1, <2>5, <2>6, MacWasSent
    <3>2. AuthenticMessage(m)
      BY <3>1 DEF AgreementInv, Authentic
    <3>3. FromServer(m)
      BY <2>4, <2>8, <3>1, <3>2 DEF AuthenticMessage
    <3>4. m \in Message
      BY <2>1 DEF TypeInv, TypeOK
    <3>5. m = w
      BY <2>5, <3>1, <3>3, <3>4 DEF FromServer, Message, Hello, ClientHello, ServerHello,
                             ServerFinishedMessage, ClientFinishedMessage, Finished
    <3> QED BY <2>8, <3>1, <3>3, <3>5 DEF FromServer
  <2>10. /\ Grows
         /\ Len(transcript'[c]) = Len(transcript[c]) + 1
         /\ transcript'[c][Len(transcript[c]) + 1] = w
         /\ \A q \in Peers \ {c} : transcript'[q] = transcript[q]
    BY <1>0, <2>1, <2>2, <2>6, AppendGrows
  <2>11. /\ Len(transcript'[c]) = 3 /\ transcript'[c][3] = w
         /\ transcript'[c][1] = transcript[c][1] /\ transcript'[c][2] = transcript[c][2]
    BY <1>0, <2>3, <2>10 DEF Grows
  <2>12. /\ state'[c] = "ready_client_finished"
         /\ \A q \in Peers \ {c} : state'[q] = state[q] /\ traffic'[q] = traffic[q]
         /\ traffic'[c] = DeriveApplication(schedule[c].master, transcript'[c])
         /\ transcript'[c] \in Seq(Message)
    BY <1>0, <2>1, <2>2 DEF TypeInv, TypeOK
  <2>13. PositionAt(c)'
    BY <2>11, <2>12 DEF PositionAt
  <2>14. OriginAt(c)'
    BY <1>0, <2>1, <2>3, <2>11 DEF PeerInv, OriginAt
  <2>15. KeyedAt(c)'
    BY <2>1, <2>2, <2>11 DEF PeerInv, KeyedAt, Hellos
  <2>16. DerivedAt(c)'
    <3>1. transcript'[c][3].verify_data.secret.ikm = schedule[c].master
      BY <2>4, <2>7, <2>8, <2>11
    <3>2. SessionOf(transcript'[c]) = DeriveApplication(schedule[c].master, transcript'[c])
      BY <2>11, <2>12, <3>1, DerivesSession
    <3> QED BY <2>11, <2>12, <3>2 DEF DerivedAt
  <2>17. ClientAcceptedAt(c)'
    <3>1. s # c /\ transcript'[s] = transcript[s]
      BY <1>0, <2>10 DEF Peers
    <3>2. transcript[c][1] = transcript[s][1] /\ transcript[c][2] = transcript[s][2]
      BY <2>9 DEF Hellos
    <3>3. \A i \in 1..3 : transcript'[c][i] = transcript'[s][i]
      BY <2>9, <2>11, <3>1, <3>2
    <3> QED BY <2>9, <3>1, <3>3 DEF ClientAcceptedAt
  <2>18. PeerInv(c)'
    BY <1>0, <2>14, <2>15, <2>16, <2>17 DEF PeerInv
  <2> QED BY <1>0, <2>1, <2>2, <2>10, <2>12, <2>13, <2>18, Frame
<1>2. CASE ~Verified(w, "server", h, transcript[c])
  BY <1>0, <1>2, RefuseAgreement DEF ReceiveServerFinished
<1> QED BY <1>1, <1>2

LEMMA AgreeSendClientFinished ==
  ASSUME AgreementInv, NEW c \in Clients, SendClientFinished(c)
  PROVE  AgreementInv'
<1> DEFINE h == schedule[c].client_handshake
           wire == Finished("client", Mac(h, transcript[c]))
<1>1. /\ TypeInv /\ TypeInv' /\ c \in Peers /\ c \notin Servers
      /\ PeerInv(c) /\ PositionAt(c)
  BY TypeSendClientFinished, PeersAssumption DEF AgreementInv, Positions, Peers
<1>2. /\ state[c] = "ready_client_finished"
      /\ transcript' = [transcript EXCEPT ![c] = Append(@, wire)]
      /\ network' = network \cup {wire}
      /\ schedule' = [schedule EXCEPT ![c] = None]
      /\ state' = [state EXCEPT ![c] = "complete"]
      /\ UNCHANGED traffic
  BY DEF SendClientFinished, Complete, Enter
<1>3. /\ Len(transcript[c]) = 3 /\ transcript[c] \in Seq(Hello \cup ServerFinishedMessage)
      /\ transcript[c] \in Seq(Message) /\ schedule[c] \in Schedule
  BY <1>1, <1>2, SeqNesting DEF PositionAt, TypeInv, Stage
<1>4. h.label = "c hs traffic" /\ h \in HandshakeSecret
  <2>1. h = [label |-> "c hs traffic", ikm |-> schedule[c].master,
             transcript |-> Hellos(transcript[c])]
    BY <1>1, <1>2 DEF PeerInv, KeyedAt
  <2>2. h \in HandshakeSecret
    BY <1>3 DEF Schedule
  <2> HIDE DEF h
  <2> QED BY <2>1, <2>2
<1>5. wire \in Message
  BY <1>3, <1>4, ClientFinishedType DEF Message
<1>6. /\ wire.sender = "client" /\ wire.verify_data.transcript = transcript[c]
      /\ wire.verify_data.secret = h
  BY DEF Finished, Mac
<1>7. transcript[c] = <<transcript[c][1], transcript[c][2], transcript[c][3]>>
  BY <1>3, Triple
<1> HIDE DEF wire, h
<1>8. /\ Grows
      /\ Len(transcript'[c]) = Len(transcript[c]) + 1
      /\ transcript'[c][Len(transcript[c]) + 1] = wire
      /\ \A q \in Peers \ {c} : transcript'[q] = transcript[q]
  BY <1>1, <1>2, <1>5, AppendGrows
<1>9. Len(transcript'[c]) = 4 /\ transcript'[c][4] = wire
  BY <1>3, <1>8
<1>10. \A i \in 1..3 : transcript'[c][i] = transcript[c][i]
  BY <1>1, <1>3, <1>8 DEF Grows
<1>11. ASSUME NEW m, m = wire PROVE AuthenticMessage(m)'
  <2>1. FromClient(m)'
    BY <1>6, <1>7, <1>9, <1>10, <1>11 DEF FromClient
  <2> QED BY <1>4, <1>6, <1>11, <2>1 DEF AuthenticMessage
<1>12. /\ state'[c] = "complete"
       /\ \A q \in Peers \ {c} : state'[q] = state[q] /\ schedule'[q] = schedule[q]
  BY <1>1, <1>2 DEF TypeInv, TypeOK
<1>13. PositionAt(c)'
  BY <1>9, <1>12 DEF PositionAt
<1>14. OriginAt(c)' /\ KeyedAt(c)'
  <2>1. transcript[c][1].random = c
    BY <1>1, <1>3 DEF PeerInv, OriginAt
  <2>2. transcript'[c][1] = transcript[c][1]
    BY <1>10
  <2>3. OriginAt(c)'
    BY <1>1, <2>1, <2>2 DEF OriginAt
  <2>4. KeyedAt(c)'
    BY <1>12 DEF KeyedAt
  <2> QED BY <2>3, <2>4
<1>15. DerivedAt(c)'
  <2>1. SessionOf(transcript'[c]) = SessionOf(transcript[c])
    BY <1>3, <1>9, <1>10, SameSession
  <2> QED BY <1>1, <1>2, <1>9, <2>1 DEF PeerInv, DerivedAt
<1>16. ClientAcceptedAt(c)'
  <2>1. PICK s \in Servers : /\ Len(transcript[s]) >= 3
                             /\ \A i \in 1..3 : transcript[c][i] = transcript[s][i]
    BY <1>1, <1>3 DEF PeerInv, ClientAcceptedAt
  <2>2. transcript'[s] = transcript[s]
    BY <1>1, <1>8 DEF Peers
  <2> QED BY <1>10, <2>1, <2>2 DEF ClientAcceptedAt
<1>17. PeerInv(c)'
  BY <1>1, <1>14, <1>15, <1>16 DEF PeerInv
<1> QED BY <1>1, <1>2, <1>8, <1>11, <1>12, <1>13, <1>17, Frame

LEMMA AgreeReceiveClientFinished ==
  ASSUME AgreementInv, NEW s \in Servers, NEW w \in Deliverable, ReceiveClientFinished(s, w)
  PROVE  AgreementInv'
<1>0. s \in Peers /\ s \notin Clients
  BY PeersAssumption DEF Peers
<1> DEFINE h == schedule[s].client_handshake
<1>1. CASE Verified(w, "client", h, transcript[s])
  <2>1. /\ TypeInv /\ TypeInv' /\ PeerInv(s) /\ PositionAt(s)
    BY <1>0, TypeReceiveClientFinished DEF AgreementInv, Positions
  <2>2. /\ state[s] = "await_client_finished"
        /\ transcript' = [transcript EXCEPT ![s] = Append(@, w)]
        /\ schedule' = [schedule EXCEPT ![s] = None]
        /\ state' = [state EXCEPT ![s] = "complete"]
        /\ UNCHANGED <<traffic, network>>
    BY <1>1 DEF ReceiveClientFinished, Complete, Enter
  <2>3. /\ Len(transcript[s]) = 3 /\ transcript[s] \in Seq(Hello \cup ServerFinishedMessage)
        /\ transcript[s] \in Seq(Message) /\ schedule[s] \in Schedule
    BY <1>0, <2>1, <2>2, SeqNesting DEF PositionAt, TypeInv, Stage
  <2>4. h.label = "c hs traffic" /\ h \in HandshakeSecret
    <3>1. h = [label |-> "c hs traffic", ikm |-> schedule[s].master,
               transcript |-> Hellos(transcript[s])]
      BY <2>1, <2>2 DEF PeerInv, KeyedAt
    <3>2. h \in HandshakeSecret
      BY <2>3 DEF Schedule
    <3> HIDE DEF h
    <3> QED BY <3>1, <3>2
  <2>5. w = Finished("client", Mac(h, transcript[s]))
    BY <1>1 DEF Verified
  <2>6. w \in ClientFinishedMessage /\ w \in Message /\ Mac(h, transcript[s]) \in ClientMac
    BY <2>3, <2>4, <2>5, ClientFinishedType DEF Message, Mac, ClientMac
  <2>7. w.type = "Finished" /\ w.sender = "client" /\ w.verify_data = Mac(h, transcript[s])
    BY <2>5 DEF Finished
  <2>8. Mac(h, transcript[s]).secret = h /\ Mac(h, transcript[s]).transcript = transcript[s]
    BY DEF Mac
  <2> HIDE DEF h
  <2>9. PICK c \in Clients :
           /\ Len(transcript[c]) = 4
           /\ transcript[c][4] = w
           /\ transcript[s] = <<transcript[c][1], transcript[c][2], transcript[c][3]>>
    <3>1. PICK m \in network : m.type = "Finished" /\ m.verify_data = Mac(h, transcript[s])
      BY <2>1, <2>5, <2>6, MacWasSent
    <3>2. AuthenticMessage(m)
      BY <3>1 DEF AgreementInv, Authentic
    <3>3. FromClient(m)
      BY <2>4, <2>8, <3>1, <3>2 DEF AuthenticMessage
    <3>4. m \in Message
      BY <2>1 DEF TypeInv, TypeOK
    <3>5. m = w
      BY <2>5, <3>1, <3>3, <3>4 DEF FromClient, Message, Hello, ClientHello, ServerHello,
                             ServerFinishedMessage, ClientFinishedMessage, Finished
    <3> QED BY <2>8, <3>1, <3>3, <3>5 DEF FromClient
  <2>10. /\ Grows
         /\ Len(transcript'[s]) = Len(transcript[s]) + 1
         /\ transcript'[s][Len(transcript[s]) + 1] = w
         /\ \A q \in Peers \ {s} : transcript'[q] = transcript[q]
    BY <1>0, <2>1, <2>2, <2>6, AppendGrows
  <2>11. /\ Len(transcript'[s]) = 4 /\ transcript'[s][4] = w
         /\ \A i \in 1..3 : transcript'[s][i] = transcript[s][i]
    BY <1>0, <2>3, <2>10 DEF Grows
  <2>12. /\ state'[s] = "complete"
         /\ \A q \in Peers \ {s} : state'[q] = state[q] /\ schedule'[q] = schedule[q]
    BY <1>0, <2>1, <2>2 DEF TypeInv, TypeOK
  <2>13. PositionAt(s)'
    BY <2>11, <2>12 DEF PositionAt
  <2>14. OriginAt(s)' /\ KeyedAt(s)'
    <3>1. transcript[s][2].random = s
      BY <1>0, <2>1, <2>3 DEF PeerInv, OriginAt
    <3>2. transcript'[s][2] = transcript[s][2]
      BY <2>11
    <3>3. OriginAt(s)'
      BY <1>0, <3>1, <3>2 DEF OriginAt
    <3>4. KeyedAt(s)'
      BY <2>12 DEF KeyedAt
    <3> QED BY <3>3, <3>4
  <2>15. DerivedAt(s)'
    <3>1. SessionOf(transcript'[s]) = SessionOf(transcript[s])
      BY <2>3, <2>11, SameSession
    <3> QED BY <2>1, <2>2, <2>11, <3>1 DEF PeerInv, DerivedAt
  <2>16. ServerAcceptedAt(s)'
    <3>1. c \in Peers /\ c # s /\ transcript'[c] = transcript[c]
      BY <1>0, <2>10 DEF Peers
    <3>2. \A i \in 1..3 : transcript[c][i] = transcript[s][i]
      BY <2>9
    <3>3. \A i \in 1..4 : transcript'[c][i] = transcript'[s][i]
      BY <2>9, <2>11, <3>1, <3>2
    <3> QED BY <2>9, <3>1, <3>3 DEF ServerAcceptedAt
  <2>17. PeerInv(s)'
    BY <1>0, <2>14, <2>15, <2>16 DEF PeerInv
  <2> QED BY <1>0, <2>1, <2>2, <2>10, <2>12, <2>13, <2>17, Frame
<1>2. CASE ~Verified(w, "client", h, transcript[s])
  BY <1>0, <1>2, RefuseAgreement DEF ReceiveClientFinished
<1> QED BY <1>1, <1>2

LEMMA AgreementStep == AgreementInv /\ [Next]_vars => AgreementInv'
<1> SUFFICES ASSUME AgreementInv, [Next]_vars PROVE AgreementInv'
  OBVIOUS
<1>1. ASSUME NEW c \in Clients, ClientStep(c) PROVE AgreementInv'
  BY <1>1, AgreeSendClientHello, AgreeSendClientFinished, AgreeReceiveServerHello,
     AgreeReceiveServerFinished DEF ClientStep
<1>2. ASSUME NEW s \in Servers, ServerStep(s) PROVE AgreementInv'
  BY <1>2, AgreeSendServerFinished, AgreeReceiveClientHello, AgreeReceiveClientFinished
     DEF ServerStep
<1>3. ASSUME NEW p \in Peers, OutOfOrder(p) PROVE AgreementInv'
  BY <1>3, RefuseAgreement DEF OutOfOrder
<1>4. CASE UNCHANGED vars
  <2>1. TypeInv'
    BY <1>4, TypeStep DEF AgreementInv
  <2>2. Positions' /\ Authentic'
    BY <1>4 DEF vars, AgreementInv, Positions, PositionAt, Authentic, AuthenticMessage,
                FromServer, FromClient, Hellos
  <2>3. ASSUME NEW p \in Peers PROVE PeerInv(p)'
    BY <1>4 DEF vars, AgreementInv, PeerInv, OriginAt, KeyedAt, DerivedAt,
                ClientAcceptedAt, ServerAcceptedAt, SessionOf, Hellos
  <2> QED BY <2>1, <2>2, <2>3 DEF AgreementInv
<1> QED BY <1>1, <1>2, <1>3, <1>4 DEF Next

LEMMA AgreementInit == Init => AgreementInv
<1> SUFFICES ASSUME Init PROVE AgreementInv
  OBVIOUS
<1>1. TypeInv
  BY TypeInit
<1>2. \A p \in Peers : /\ state[p] = "new" /\ transcript[p] = <<>>
                      /\ traffic[p] = None
  BY DEF Init
<1>3. Positions /\ Authentic
  BY <1>2 DEF Init, Positions, PositionAt, Authentic
<1>4. ASSUME NEW p \in Peers PROVE PeerInv(p)
  <2>1. Len(transcript[p]) = 0
    BY <1>2
  <2>2. OriginAt(p) /\ ClientAcceptedAt(p) /\ ServerAcceptedAt(p)
    BY <2>1 DEF OriginAt, ClientAcceptedAt, ServerAcceptedAt
  <2>3. KeyedAt(p)
    BY <1>2 DEF KeyedAt
  <2>4. DerivedAt(p)
    BY <1>2 DEF DerivedAt
  <2> QED BY <2>2, <2>3, <2>4 DEF PeerInv
<1> QED BY <1>1, <1>3, <1>4 DEF AgreementInv

-----------------------------------------------------------------------------
(* Sessions are never confused with the absence of one.                    *)

\* A step that leaves a peer failed does not touch its transcript.
LEMMA FailedFrozen ==
  ASSUME TypeInv, [Next]_vars, NEW p \in Peers, state'[p] = "failed"
  PROVE  transcript'[p] = transcript[p]
<1>0. state \in [Peers -> ClientState \cup ServerState] /\ transcript \in [Peers -> Seq(Message)]
  BY DEF TypeInv, TypeOK
<1>1. ASSUME NEW q \in Peers, Refuse(q) PROVE transcript'[p] = transcript[p]
  BY <1>1 DEF Refuse
<1>2. ASSUME NEW q \in Peers, NEW next, next # "failed", NEW t,
             state' = [state EXCEPT ![q] = next],
             transcript' = [transcript EXCEPT ![q] = t]
      PROVE  transcript'[p] = transcript[p]
  BY <1>0, <1>2
<1>3. ASSUME NEW c \in Clients, ClientStep(c) PROVE transcript'[p] = transcript[p]
  <2>0. c \in Peers
    BY DEF Peers
  <2>1. CASE SendClientHello(c)
    BY <1>2, <2>0, <2>1 DEF SendClientHello, Enter
  <2>2. CASE SendClientFinished(c)
    BY <1>2, <2>0, <2>2 DEF SendClientFinished, Complete, Enter
  <2>3. ASSUME NEW w, ReceiveServerHello(c, w) PROVE transcript'[p] = transcript[p]
    BY <1>1, <1>2, <2>0, <2>3 DEF ReceiveServerHello, Enter
  <2>4. ASSUME NEW w, ReceiveServerFinished(c, w) PROVE transcript'[p] = transcript[p]
    BY <1>1, <1>2, <2>0, <2>4 DEF ReceiveServerFinished, Enter
  <2> QED BY <1>3, <2>1, <2>2, <2>3, <2>4 DEF ClientStep
<1>4. ASSUME NEW s \in Servers, ServerStep(s) PROVE transcript'[p] = transcript[p]
  <2>0. s \in Peers
    BY DEF Peers
  <2>1. CASE SendServerFinished(s)
    BY <1>2, <2>0, <2>1 DEF SendServerFinished, Enter
  <2>2. ASSUME NEW w, ReceiveClientHello(s, w) PROVE transcript'[p] = transcript[p]
    BY <1>1, <1>2, <2>0, <2>2 DEF ReceiveClientHello, Enter
  <2>3. ASSUME NEW w, ReceiveClientFinished(s, w) PROVE transcript'[p] = transcript[p]
    BY <1>1, <1>2, <2>0, <2>3 DEF ReceiveClientFinished, Complete, Enter
  <2> QED BY <1>4, <2>1, <2>2, <2>3 DEF ServerStep
<1>5. CASE \E q \in Peers : OutOfOrder(q)
  BY <1>1, <1>5 DEF OutOfOrder
<1>6. CASE UNCHANGED vars
  BY <1>6 DEF vars
<1> QED BY <1>3, <1>4, <1>5, <1>6 DEF Next

\* Every transcript past the server Finished yields traffic secrets.
SessionsTyped == \A p \in Peers : Len(transcript[p]) >= 3 => SessionOf(transcript[p]) \in TrafficSecrets

AcceptanceInv == AgreementInv /\ KeyLifetime /\ SessionsTyped

LEMMA AcceptanceStep == AcceptanceInv /\ [Next]_vars => AcceptanceInv'
<1> SUFFICES ASSUME AcceptanceInv, [Next]_vars PROVE AcceptanceInv'
  OBVIOUS
<1>1. AgreementInv' /\ KeyLifetime' /\ TypeInv /\ TypeInv'
  BY AgreementStep, LifetimeStep, TypeStep DEF AcceptanceInv, AgreementInv
<1>2. ASSUME NEW p \in Peers, Len(transcript'[p]) >= 3
      PROVE  SessionOf(transcript'[p]) \in TrafficSecrets
  <2>1. CASE state'[p] \in {"ready_client_finished", "await_client_finished", "complete"}
    <3>1. traffic'[p] # None /\ traffic'[p] \in TrafficSecrets \cup {None}
      BY <1>1, <2>1 DEF KeyLifetime, TypeInv, TypeOK
    <3>2. traffic'[p] = SessionOf(transcript'[p])
      BY <1>1, <3>1 DEF AgreementInv, PeerInv, DerivedAt
    <3> QED BY <3>1, <3>2
  <2>2. CASE state'[p] = "failed"
    BY <1>1, <1>2, <2>2, FailedFrozen DEF AcceptanceInv, SessionsTyped
  <2>3. CASE state'[p] \in {"new", "await_server_hello", "await_server_finished",
                            "ready_server_finished"}
    <3>1. Len(transcript'[p]) \in Nat
      BY <1>1 DEF TypeInv, TypeOK
    <3>2. PositionAt(p)'
      BY <1>1 DEF AgreementInv, Positions
    <3> DEFINE n == Len(transcript'[p])
    <3>3. n = 0 \/ n = 1 \/ n = 2
      BY <2>3, <3>2 DEF PositionAt
    <3>4. n >= 3
      BY <1>2
    <3> HIDE DEF n
    <3>5. FALSE
      BY <3>3, <3>4
    <3> QED BY <3>5
  <2>4. state'[p] \in ClientState \cup ServerState
    BY <1>1 DEF TypeInv, TypeOK
  <2> QED BY <2>1, <2>2, <2>3, <2>4 DEF ClientState, ServerState
<1> QED BY <1>1, <1>2 DEF AcceptanceInv, SessionsTyped

LEMMA AcceptanceInit == Init => AcceptanceInv
<1>1. Init => KeyLifetime
  BY DEF Init, KeyLifetime
<1>2. Init => SessionsTyped
  BY DEF Init, SessionsTyped
<1> QED BY <1>1, <1>2, AgreementInit DEF AcceptanceInv

\* Two transcripts of one session have the same first three wires.
LEMMA SessionDetermines ==
  ASSUME NEW t, NEW u, Len(t) \in Nat, Len(u) \in Nat, Len(t) >= 3, Len(u) >= 3,
         SessionOf(t) = SessionOf(u)
  PROVE  t[1] = u[1] /\ t[2] = u[2] /\ t[3] = u[3]
<1>1. /\ SessionOf(t) = DeriveApplication(t[3].verify_data.secret.ikm, <<t[1], t[2], t[3]>>)
      /\ SessionOf(u) = DeriveApplication(u[3].verify_data.secret.ikm, <<u[1], u[2], u[3]>>)
  BY DEF SessionOf
<1>2. ASSUME NEW m, NEW h
      PROVE  DeriveApplication(m, h).client_application.transcript = h
  BY DEF DeriveApplication
<1>3. <<t[1], t[2], t[3]>> = <<u[1], u[2], u[3]>>
  <2>1. SessionOf(t).client_application.transcript = <<t[1], t[2], t[3]>>
    BY <1>1, <1>2
  <2>2. SessionOf(u).client_application.transcript = <<u[1], u[2], u[3]>>
    BY <1>1, <1>2
  <2> QED BY <2>1, <2>2
<1> QED BY <1>3

\* A peer whose session is that of a peer past the server Finished is past it
\* too, with the same wires.
LEMMA SameSessionSameWires ==
  ASSUME AcceptanceInv, NEW p \in Peers, NEW q \in Peers, Len(transcript[p]) >= 3,
         SessionOf(transcript[q]) = SessionOf(transcript[p])
  PROVE  /\ Len(transcript[q]) >= 3
         /\ transcript[q][1] = transcript[p][1]
         /\ transcript[q][2] = transcript[p][2]
<1>1. SessionOf(transcript[p]) # None
  BY NoneAssumption DEF AcceptanceInv, SessionsTyped
<1>2. Len(transcript[p]) \in Nat /\ Len(transcript[q]) \in Nat
  BY DEF AcceptanceInv, AgreementInv, TypeInv, TypeOK
<1>3. Len(transcript[q]) >= 3
  BY <1>1, <1>2 DEF SessionOf
<1> QED BY <1>2, <1>3, SessionDetermines

LEMMA ClientsAgreeNow == AcceptanceInv => ClientAgreement
<1> SUFFICES ASSUME AcceptanceInv, NEW c \in Clients, Len(transcript[c]) >= 3
             PROVE  \E s \in Servers :
               /\ \A other \in Servers : SessionOf(transcript[other]) = SessionOf(transcript[c])
                                           <=> other = s
               /\ Len(transcript[s]) >= 3
               /\ \A i \in 1..3 : transcript[c][i] = transcript[s][i]
               /\ traffic[c] # None /\ traffic[s] # None => traffic[c] = traffic[s]
  BY DEF ClientAgreement
<1>1. \A p \in Peers : PeerInv(p) /\ Len(transcript[p]) \in Nat
  BY DEF AcceptanceInv, AgreementInv, TypeInv, TypeOK
<1>2. PICK s \in Servers : /\ Len(transcript[s]) >= 3
                           /\ \A i \in 1..3 : transcript[c][i] = transcript[s][i]
  BY <1>1 DEF PeerInv, ClientAcceptedAt, Peers
<1>3. c \in Peers /\ s \in Peers
  BY DEF Peers
<1>4. SessionOf(transcript[s]) = SessionOf(transcript[c])
  BY <1>1, <1>2, <1>3, SameSession
<1>5. ASSUME NEW other \in Servers, SessionOf(transcript[other]) = SessionOf(transcript[c])
      PROVE  other = s
  <2>1. other \in Peers
    BY DEF Peers
  <2>2. Len(transcript[other]) >= 3 /\ transcript[other][2] = transcript[c][2]
    BY <1>3, <1>5, <2>1, SameSessionSameWires
  <2>3. transcript[other][2] = transcript[s][2]
    BY <1>2, <2>2
  <2>4. transcript[other][2].random = other
    BY <1>1, <2>1, <2>2 DEF PeerInv, OriginAt
  <2>5. transcript[s][2].random = s
    BY <1>1, <1>2, <1>3 DEF PeerInv, OriginAt
  <2> QED BY <2>3, <2>4, <2>5
<1>6. traffic[c] # None /\ traffic[s] # None => traffic[c] = traffic[s]
  BY <1>1, <1>3, <1>4 DEF PeerInv, DerivedAt
<1> QED BY <1>2, <1>4, <1>5, <1>6

LEMMA ServersAgreeNow == AcceptanceInv => ServerAgreement
<1> SUFFICES ASSUME AcceptanceInv, NEW s \in Servers, state[s] = "complete"
             PROVE  \E c \in Clients :
               /\ transcript[c] = transcript[s]
               /\ \A d \in Clients \ {c} : SessionOf(transcript[d]) # SessionOf(transcript[s])
               /\ traffic[c] # None => traffic[c] = traffic[s]
  BY DEF ServerAgreement
<1>1. \A p \in Peers : /\ PeerInv(p) /\ PositionAt(p)
                        /\ transcript[p] \in Seq(Message)
                        /\ Len(transcript[p]) \in Nat
  BY DEF AcceptanceInv, AgreementInv, Positions, TypeInv, TypeOK
<1>2. s \in Peers /\ Len(transcript[s]) = 4 /\ Len(transcript[s]) >= 3
  BY <1>1, SMTT(30) DEF Peers, PositionAt
<1>3. PICK c \in Clients : /\ Len(transcript[c]) = 4
                           /\ \A i \in 1..4 : transcript[c][i] = transcript[s][i]
  BY <1>1, <1>2 DEF PeerInv, ServerAcceptedAt
<1>4. c \in Peers
  BY DEF Peers
<1>5. transcript[c] = transcript[s]
  BY <1>1, <1>2, <1>3, <1>4
<1>6. ASSUME NEW d \in Clients, SessionOf(transcript[d]) = SessionOf(transcript[s])
      PROVE  d = c
  <2>1. d \in Peers
    BY DEF Peers
  <2>2. Len(transcript[d]) >= 3 /\ transcript[d][1] = transcript[s][1]
    BY <1>2, <1>6, <2>1, SameSessionSameWires
  <2>3. transcript[d][1].random = d
    BY <1>1, <2>1, <2>2 DEF PeerInv, OriginAt
  <2>4. transcript[c][1].random = c
    BY <1>1, <1>3, <1>4 DEF PeerInv, OriginAt
  <2> QED BY <1>5, <2>2, <2>3, <2>4
<1>7. traffic[c] # None => traffic[c] = traffic[s]
  <2>1. traffic[s] # None
    BY <1>2 DEF AcceptanceInv, KeyLifetime
  <2> QED BY <1>1, <1>2, <1>4, <1>5, <2>1 DEF PeerInv, DerivedAt
<1> QED BY <1>5, <1>6, <1>7

LEMMA AcceptanceAlways == Spec => []AcceptanceInv
BY AcceptanceInit, AcceptanceStep, PTL DEF Spec

\* A client that verified a server Finished agrees with exactly one server on
\* both hellos, the Finished and the traffic secrets (receive_server_finished).
THEOREM ClientsAgree == Spec => []ClientAgreement
BY AcceptanceAlways, ClientsAgreeNow, PTL

\* A completed server has the transcript and the traffic secrets of exactly
\* one client, which sent its Finished (receive_client_finished).
THEOREM ServersAgree == Spec => []ServerAgreement
BY AcceptanceAlways, ServersAgreeNow, PTL
-----------------------------------------------------------------------------
(* A handshake secret authenticates one message.  Every Finished is under a *)
(* secret of the two hellos it was computed over, which name their peers.   *)

SecretsOverHellos ==
  \A m \in network : m.type = "Finished" =>
    m.verify_data.secret.transcript = Hellos(m.verify_data.transcript)

LEMMA SecretsStep ==
  ASSUME AgreementInv, SecretsOverHellos, [Next]_vars PROVE SecretsOverHellos'
<1>1. ASSUME NEW p \in Peers, NEW sender, NEW secret,
             state[p] \in {"ready_server_finished", "ready_client_finished"},
             secret = schedule[p].server_handshake \/ secret = schedule[p].client_handshake,
             network' = network \cup {Finished(sender, Mac(secret, transcript[p]))}
      PROVE  SecretsOverHellos'
  <2>1. secret.transcript = Hellos(transcript[p])
    <3>1. KeyedAt(p)
      BY DEF AgreementInv, PeerInv
    <3> DEFINE r(l, t) == [label |-> l, ikm |-> schedule[p].master, transcript |-> t]
    <3>2. secret = r("c hs traffic", Hellos(transcript[p])) \/ secret = r("s hs traffic", Hellos(transcript[p]))
      BY <1>1, <3>1 DEF KeyedAt
    <3>3. \A l, t : r(l, t).transcript = t
      OBVIOUS
    <3> HIDE DEF r
    <3> QED BY <3>2, <3>3
  <2> DEFINE wire == Finished(sender, Mac(secret, transcript[p]))
  <2>2. wire.verify_data.secret = secret /\ wire.verify_data.transcript = transcript[p]
    BY DEF Finished, Mac
  <2> HIDE DEF wire
  <2>3. network' = network \cup {wire}
    BY <1>1 DEF wire
  <2> QED BY <2>1, <2>2, <2>3 DEF SecretsOverHellos
<1>2. ASSUME NEW m, m.type # "Finished", network' = network \cup {m} PROVE SecretsOverHellos'
  BY <1>2 DEF SecretsOverHellos
<1>3. ASSUME network' = network PROVE SecretsOverHellos'
  BY <1>3 DEF SecretsOverHellos
<1>4. ASSUME NEW c \in Clients, ClientStep(c) PROVE SecretsOverHellos'
  <2>0. c \in Peers
    BY DEF Peers
  <2>1. CASE SendClientHello(c)
    BY <1>2, <2>1 DEF SendClientHello
  <2>2. CASE SendClientFinished(c)
    BY <1>1, <2>0, <2>2 DEF SendClientFinished
  <2>3. ASSUME NEW w, ReceiveServerHello(c, w) \/ ReceiveServerFinished(c, w) PROVE network' = network
    BY <2>3 DEF ReceiveServerHello, ReceiveServerFinished, Refuse
  <2> QED BY <1>3, <1>4, <2>1, <2>2, <2>3 DEF ClientStep
<1>5. ASSUME NEW s \in Servers, ServerStep(s) PROVE SecretsOverHellos'
  <2>0. s \in Peers
    BY DEF Peers
  <2>1. CASE SendServerFinished(s)
    <3>1. /\ state[s] = "ready_server_finished"
          /\ network' = network \cup {Finished("server", Mac(schedule[s].server_handshake, transcript[s]))}
      BY <2>1 DEF SendServerFinished
    <3> QED BY <1>1, <2>0, <3>1
  <2>2. ASSUME NEW w, ReceiveClientHello(s, w) PROVE SecretsOverHellos'
    <3>1. CASE AcceptsClientHello(w)
      BY <1>2, <2>2, <3>1 DEF ReceiveClientHello
    <3>2. CASE ~AcceptsClientHello(w)
      BY <1>3, <2>2, <3>2 DEF ReceiveClientHello, Refuse
    <3> QED BY <3>1, <3>2
  <2>3. ASSUME NEW w, ReceiveClientFinished(s, w) PROVE network' = network
    BY <2>3 DEF ReceiveClientFinished, Refuse
  <2> QED BY <1>3, <1>5, <2>1, <2>2, <2>3 DEF ServerStep
<1>6. (\E p \in Peers : OutOfOrder(p)) \/ UNCHANGED vars => network' = network
  BY DEF OutOfOrder, Refuse, vars
<1> QED BY <1>3, <1>4, <1>5, <1>6 DEF Next

LEMMA SingleUseNow == AcceptanceInv /\ SecretsOverHellos => MacKeySingleUse
<1> SUFFICES ASSUME AcceptanceInv, SecretsOverHellos, NEW v \in network, NEW w \in network,
                    v.type = "Finished", w.type = "Finished",
                    v.verify_data.secret = w.verify_data.secret
             PROVE  v = w
  BY DEF MacKeySingleUse
<1>1. /\ AuthenticMessage(v) /\ AuthenticMessage(w)
      /\ \A p \in Peers : OriginAt(p) /\ Len(transcript[p]) \in Nat
      /\ v \in Message
  BY DEF AcceptanceInv, AgreementInv, Authentic, PeerInv, TypeInv, TypeOK
<1>2. Hellos(v.verify_data.transcript) = Hellos(w.verify_data.transcript)
  BY DEF SecretsOverHellos
<1>3. v.verify_data.secret.label \in {"c hs traffic", "s hs traffic"}
  <2>1. v \in ServerFinishedMessage \cup ClientFinishedMessage
    BY <1>1 DEF Message, Hello, ClientHello, ServerHello
  <2>2. v.verify_data \in ServerMac \cup ClientMac
    BY <2>1 DEF ServerFinishedMessage, ClientFinishedMessage
  <2>3. v.verify_data.secret \in HandshakeSecret
    BY <2>2 DEF ServerMac, ClientMac
  <2> QED BY <2>3 DEF HandshakeSecret
<1>4. CASE v.verify_data.secret.label = "s hs traffic"
  <2>1. PICK r \in Servers : /\ Len(transcript[r]) >= 3 /\ transcript[r][3] = v
                             /\ v.verify_data.transcript = Hellos(transcript[r])
    BY <1>1, <1>4 DEF AuthenticMessage, FromServer
  <2>2. PICK s \in Servers : /\ Len(transcript[s]) >= 3 /\ transcript[s][3] = w
                             /\ w.verify_data.transcript = Hellos(transcript[s])
    BY <1>1, <1>4 DEF AuthenticMessage, FromServer
  <2>3. transcript[r][2] = transcript[s][2]
    BY <1>2, <2>1, <2>2 DEF Hellos
  <2>4. transcript[r][2].random = r /\ transcript[s][2].random = s
    BY <1>1, <2>1, <2>2 DEF OriginAt, Peers
  <2> QED BY <2>1, <2>2, <2>3, <2>4
<1>5. CASE v.verify_data.secret.label = "c hs traffic"
  <2>1. PICK c \in Clients : /\ Len(transcript[c]) = 4 /\ transcript[c][4] = v
                             /\ v.verify_data.transcript =
                                  <<transcript[c][1], transcript[c][2], transcript[c][3]>>
    BY <1>1, <1>5 DEF AuthenticMessage, FromClient
  <2>2. PICK d \in Clients : /\ Len(transcript[d]) = 4 /\ transcript[d][4] = w
                             /\ w.verify_data.transcript =
                                  <<transcript[d][1], transcript[d][2], transcript[d][3]>>
    BY <1>1, <1>5 DEF AuthenticMessage, FromClient
  <2>3. transcript[c][1] = transcript[d][1]
    BY <1>2, <2>1, <2>2 DEF Hellos
  <2>4. transcript[c][1].random = c /\ transcript[d][1].random = d
    BY <1>1, <2>1, <2>2 DEF OriginAt, Peers
  <2> QED BY <2>1, <2>2, <2>3, <2>4
<1> QED BY <1>3, <1>4, <1>5

\* No handshake secret authenticates two messages, whatever is replayed to
\* its owner (server_finished, client_finished): a secret is one peer's.
THEOREM MacKeysUsedOnce == Spec => []MacKeySingleUse
<1>1. Init => SecretsOverHellos
  BY DEF Init, SecretsOverHellos
<1>2. AcceptanceInv /\ SecretsOverHellos /\ [Next]_vars => SecretsOverHellos'
  BY SecretsStep DEF AcceptanceInv
<1> QED BY <1>1, <1>2, AcceptanceAlways, SingleUseNow, PTL DEF Spec

-----------------------------------------------------------------------------
(* The peers implement the abstract handshake, action by action.            *)

AbsPhase == [p \in Peers |->
                CASE state[p] \in {"complete"} -> "done"
                  [] state[p] \in {"ready_client_finished", "await_client_finished"} -> "bound"
                  [] state[p] = "failed" -> "failed"
                  [] OTHER -> "open"]
AbsSession == [p \in Peers |-> SessionOf(transcript[p])]
AbsConfirmed == {c \in Clients : Len(transcript[c]) = 4}

\* A step of peer p alone.
OnlyPeer(p) == \A q \in Peers \ {p} : /\ state'[q] = state[q] /\ transcript'[q] = transcript[q]
                                      /\ traffic'[q] = traffic[q]

LEMMA OnePeerMoves ==
  ASSUME AcceptanceInv, AcceptanceInv', NEW p \in Peers, OnlyPeer(p)
  PROVE  /\ AbsPhase' = [AbsPhase EXCEPT ![p] = AbsPhase'[p]]
         /\ AbsSession' = [AbsSession EXCEPT ![p] = AbsSession'[p]]
         /\ traffic' = [traffic EXCEPT ![p] = traffic'[p]]
         /\ AbsConfirmed' \ {p} = AbsConfirmed \ {p}
<1>1. \A q \in Peers \ {p} : AbsPhase'[q] = AbsPhase[q] /\ AbsSession'[q] = AbsSession[q]
  BY DEF OnlyPeer, AbsPhase, AbsSession
<1>2. /\ traffic \in [Peers -> TrafficSecrets \cup {None}]
      /\ traffic' \in [Peers -> TrafficSecrets \cup {None}]
  BY DEF AcceptanceInv, AgreementInv, TypeInv, TypeOK
<1>3. AbsPhase' = [AbsPhase EXCEPT ![p] = AbsPhase'[p]]
  BY <1>1 DEF AbsPhase
<1>4. AbsSession' = [AbsSession EXCEPT ![p] = AbsSession'[p]]
  BY <1>1 DEF AbsSession
<1>5. traffic' = [traffic EXCEPT ![p] = traffic'[p]]
  BY <1>2 DEF OnlyPeer
<1>6. AbsConfirmed' \ {p} = AbsConfirmed \ {p}
  BY DEF OnlyPeer, AbsConfirmed, Peers
<1> QED BY <1>3, <1>4, <1>5, <1>6

\* What each peer's transcript is in the abstract handshake.
LEMMA TranscriptFacts ==
  ASSUME AcceptanceInv
  PROVE  \A p \in Peers :
           /\ Len(transcript[p]) \in Nat /\ transcript[p] \in Seq(Message)
           /\ PositionAt(p) /\ OriginAt(p) /\ DerivedAt(p)
           /\ p \in Clients => ClientAcceptedAt(p)
           /\ p \in Servers => ServerAcceptedAt(p)
           /\ AbsSession[p] = SessionOf(transcript[p])
           /\ AbsSession[p] # None <=> Len(transcript[p]) >= 3
<1> SUFFICES ASSUME NEW p \in Peers
             PROVE  /\ Len(transcript[p]) \in Nat /\ transcript[p] \in Seq(Message)
                    /\ PositionAt(p) /\ OriginAt(p) /\ DerivedAt(p)
                    /\ p \in Clients => ClientAcceptedAt(p)
                    /\ p \in Servers => ServerAcceptedAt(p)
                    /\ AbsSession[p] = SessionOf(transcript[p])
                    /\ AbsSession[p] # None <=> Len(transcript[p]) >= 3
  OBVIOUS
<1>1. Len(transcript[p]) \in Nat /\ transcript[p] \in Seq(Message)
  BY DEF AcceptanceInv, AgreementInv, TypeInv, TypeOK
<1>2. /\ PositionAt(p) /\ OriginAt(p) /\ DerivedAt(p)
      /\ p \in Clients => ClientAcceptedAt(p)
      /\ p \in Servers => ServerAcceptedAt(p)
  BY DEF AcceptanceInv, AgreementInv, Positions, PeerInv
<1>3. AbsSession[p] = SessionOf(transcript[p])
  BY DEF AbsSession
<1>4. CASE Len(transcript[p]) >= 3
  BY <1>1, <1>2, <1>3, <1>4, NoneAssumption DEF AcceptanceInv, SessionsTyped
<1>5. CASE ~(Len(transcript[p]) >= 3)
  <2>1. Len(transcript[p]) < 3
    BY <1>1, <1>5
  <2>2. SessionOf(transcript[p]) = None
    BY <2>1 DEF SessionOf
  <2> QED BY <1>1, <1>2, <1>3, <1>5, <2>2
<1> QED BY <1>4, <1>5

\* A refused call is a peer giving up.
LEMMA RefuseMaps ==
  ASSUME AcceptanceInv, AcceptanceInv', NEW p \in Peers, Refuse(p)
  PROVE  Abstract!GiveUp(p)
<1>1. /\ state' = [state EXCEPT ![p] = "failed"] /\ traffic' = [traffic EXCEPT ![p] = None]
      /\ transcript' = transcript
  BY DEF Refuse, Fail
<1>2. state \in [Peers -> ClientState \cup ServerState]
      /\ traffic \in [Peers -> TrafficSecrets \cup {None}]
  BY DEF AcceptanceInv, AgreementInv, TypeInv, TypeOK
<1>3. OnlyPeer(p) /\ state'[p] = "failed"
  BY <1>1, <1>2 DEF OnlyPeer
<1>4. AbsPhase'[p] = "failed"
  BY <1>3 DEF AbsPhase
<1>5. AbsPhase' = [AbsPhase EXCEPT ![p] = "failed"]
  BY <1>3, <1>4, OnePeerMoves
<1>6. AbsSession' = AbsSession /\ AbsConfirmed' = AbsConfirmed
  BY <1>1 DEF AbsSession, AbsConfirmed
<1> QED BY <1>1, <1>5, <1>6 DEF Abstract!GiveUp, AbsPhase, AbsSession, AbsConfirmed

\* Until it derived its session, a peer is open in the abstract handshake.
LEMMA OpenStutters ==
  ASSUME AcceptanceInv, AcceptanceInv', NEW p \in Peers, OnlyPeer(p), traffic' = traffic,
         state[p] \in {"new", "await_server_hello"},
         state'[p] \in {"await_server_hello", "await_server_finished", "ready_server_finished"}
  PROVE  UNCHANGED Abstract!vars
<1>1. AbsPhase[p] = "open" /\ AbsPhase'[p] = "open"
  BY DEF AbsPhase
<1>2. PositionAt(p) /\ PositionAt(p)' /\ Len(transcript[p]) \in Nat /\ Len(transcript'[p]) \in Nat
  BY DEF AcceptanceInv, AgreementInv, Positions, TypeInv, TypeOK
<1> DEFINE n == Len(transcript[p])
           m == Len(transcript'[p])
<1>3. n = 0 \/ n = 1
  BY <1>2 DEF PositionAt
<1>4. m = 1 \/ m = 2
  BY <1>2 DEF PositionAt
<1> HIDE DEF n, m
<1>11. n < 3 /\ m < 3 /\ n # 4 /\ m # 4
  BY <1>3, <1>4
<1>5. AbsSession[p] = None /\ AbsSession'[p] = None
  BY <1>11 DEF AbsSession, SessionOf, n, m
<1>6. p \notin AbsConfirmed /\ p \notin AbsConfirmed'
  BY <1>11 DEF AbsConfirmed, n, m
<1>7. /\ AbsPhase' = [AbsPhase EXCEPT ![p] = AbsPhase'[p]]
      /\ AbsSession' = [AbsSession EXCEPT ![p] = AbsSession'[p]]
      /\ AbsConfirmed' \ {p} = AbsConfirmed \ {p}
  BY OnePeerMoves
<1>8. AbsPhase' = AbsPhase
  BY <1>1, <1>7 DEF AbsPhase
<1>9. AbsSession' = AbsSession
  BY <1>5, <1>7 DEF AbsSession
<1>10. AbsConfirmed' = AbsConfirmed
  BY <1>6, <1>7
<1> QED BY <1>8, <1>9, <1>10 DEF Abstract!vars, AbsPhase, AbsSession, AbsConfirmed

\* With its Finished boundary a peer is bound to the session it derived.
LEMMA BindMaps ==
  ASSUME AcceptanceInv, AcceptanceInv', NEW p \in Peers, OnlyPeer(p),
         state[p] \in {"await_server_finished", "ready_server_finished"},
         state'[p] \in {"ready_client_finished", "await_client_finished"}
  PROVE  Abstract!Bind(p) /\ AbsSession[p] = None /\ Len(transcript'[p]) = 3
<1>1. AbsPhase[p] = "open" /\ AbsPhase'[p] = "bound"
  BY DEF AbsPhase
<1>2. /\ Len(transcript[p]) = 2 /\ Len(transcript'[p]) = 3 /\ DerivedAt(p)'
      /\ AbsSession[p] = None /\ AbsSession'[p] # None
      /\ AbsSession'[p] = SessionOf(transcript'[p])
  <2>1. /\ PositionAt(p) /\ PositionAt(p)' /\ DerivedAt(p)'
    BY DEF AcceptanceInv, AgreementInv, Positions, PeerInv
  <2>2. Len(transcript[p]) = 2 /\ Len(transcript'[p]) = 3
    BY <2>1 DEF PositionAt
  <2>3. SessionOf(transcript'[p]) # None
    BY <2>2, NoneAssumption DEF AcceptanceInv, SessionsTyped
  <2>4. SessionOf(transcript[p]) = None
    BY <2>2 DEF SessionOf
  <2> QED BY <2>1, <2>2, <2>3, <2>4 DEF AbsSession
<1>3. traffic'[p] = AbsSession'[p]
  <2>1. traffic'[p] # None
    BY DEF AcceptanceInv, KeyLifetime
  <2> QED BY <1>2, <2>1 DEF DerivedAt
<1>4. p \notin AbsConfirmed /\ p \notin AbsConfirmed'
  BY <1>2 DEF AbsConfirmed
<1>5. /\ AbsPhase' = [AbsPhase EXCEPT ![p] = "bound"]
      /\ AbsSession' = [AbsSession EXCEPT ![p] = AbsSession'[p]]
      /\ traffic' = [traffic EXCEPT ![p] = AbsSession'[p]]
      /\ AbsConfirmed' = AbsConfirmed
  BY <1>1, <1>3, <1>4, OnePeerMoves
<1>6. Abstract!Bind(p)
  BY <1>1, <1>2, <1>5 DEF Abstract!Bind, AbsPhase, AbsSession, AbsConfirmed
<1> QED BY <1>2, <1>6

LEMMA SendServerFinishedMaps ==
  ASSUME AcceptanceInv, AcceptanceInv', NEW s \in Servers, SendServerFinished(s)
  PROVE  Abstract!Offer(s)
<1>1. s \in Peers /\ s \notin Clients
  BY PeersAssumption DEF Peers
<1>2. /\ state[s] = "ready_server_finished" /\ state'[s] = "await_client_finished" /\ OnlyPeer(s)
  BY <1>1 DEF SendServerFinished, Enter, OnlyPeer, AcceptanceInv, AgreementInv, TypeInv, TypeOK
<1>3. Abstract!Bind(s) /\ AbsSession[s] = None /\ Len(transcript'[s]) = 3
  BY <1>1, <1>2, BindMaps
<1>4. \A p \in Peers : /\ Len(transcript'[p]) \in Nat /\ OriginAt(p)' /\ PositionAt(p)
                       /\ p \in Clients => ClientAcceptedAt(p)
                       /\ Len(transcript[p]) \in Nat
                       /\ AbsSession[p] = SessionOf(transcript[p])
                       /\ AbsSession[p] # None <=> Len(transcript[p]) >= 3
                       /\ AbsSession'[p] = SessionOf(transcript'[p])
  <2>1. \A p \in Peers : Len(transcript'[p]) \in Nat /\ OriginAt(p)'
    BY DEF AcceptanceInv, AgreementInv, TypeInv, TypeOK, PeerInv
  <2>2. \A p \in Peers : AbsSession'[p] = SessionOf(transcript'[p])
    BY DEF AbsSession
  <2> QED BY <2>1, <2>2, TranscriptFacts
<1>5. transcript'[s][2].random = s
  BY <1>1, <1>3, <1>4 DEF OriginAt
<1>6. Len(transcript[s]) = 2
  BY <1>1, <1>2, <1>4 DEF PositionAt
<1>7. ASSUME NEW p \in Peers, AbsSession[p] = AbsSession'[s] PROVE FALSE
  <2>1. AbsSession'[s] # None
    BY <1>3 DEF Abstract!Bind, AbsSession
  <2>2. p # s /\ Len(transcript[p]) >= 3 /\ transcript'[p] = transcript[p]
    BY <1>2, <1>3, <1>4, <1>7, <2>1 DEF OnlyPeer
  <2>3. transcript[p][2] = transcript'[s][2]
    <3>1. SessionOf(transcript[p]) = SessionOf(transcript'[s])
      BY <1>1, <1>4, <1>7
    <3>2. Len(transcript[p]) \in Nat /\ Len(transcript'[s]) \in Nat /\ Len(transcript'[s]) >= 3
      BY <1>1, <1>3, <1>4
    <3> QED BY <2>2, <3>1, <3>2, SessionDetermines
  <2>4. CASE p \in Servers
    BY <1>4, <1>5, <2>2, <2>3, <2>4 DEF OriginAt
  <2>5. CASE p \in Clients
    <3>1. PICK r \in Servers : Len(transcript[r]) >= 3 /\ \A i \in 1..3 : transcript[p][i] = transcript[r][i]
      BY <1>4, <2>2, <2>5 DEF ClientAcceptedAt
    <3>2. r \in Peers /\ r # s /\ transcript'[r] = transcript[r]
      BY <1>2, <1>6, <3>1 DEF OnlyPeer, Peers
    <3>3. transcript[r][2].random = r /\ transcript[r][2] = transcript[p][2]
      BY <1>4, <3>1, <3>2 DEF OriginAt
    <3> QED BY <1>5, <2>3, <3>2, <3>3
  <2> QED BY <2>4, <2>5 DEF Peers
<1> QED BY <1>3, <1>7 DEF Abstract!Offer, Abstract!Peers, Peers, AbsSession

LEMMA ReceiveServerFinishedMaps ==
  ASSUME AcceptanceInv, AcceptanceInv', NEW c \in Clients, NEW w, ReceiveServerFinished(c, w)
  PROVE  Abstract!Accept(c) \/ Abstract!GiveUp(c)
<1>1. c \in Peers /\ c \notin Servers
  BY PeersAssumption DEF Peers
<1> DEFINE verified == Verified(w, "server", schedule[c].server_handshake, transcript[c])
<1>2. CASE ~verified
  BY <1>1, <1>2, RefuseMaps DEF ReceiveServerFinished
<1>3. CASE verified
  <2>1. /\ state[c] = "await_server_finished" /\ state'[c] = "ready_client_finished" /\ OnlyPeer(c)
    BY <1>1, <1>3 DEF ReceiveServerFinished, Enter, OnlyPeer, AcceptanceInv, AgreementInv, TypeInv, TypeOK
  <2>2. Abstract!Bind(c) /\ AbsSession[c] = None /\ Len(transcript'[c]) = 3
    BY <1>1, <2>1, BindMaps
  <2>3. \A p \in Peers : /\ Len(transcript'[p]) \in Nat /\ OriginAt(p)'
                         /\ p \in Clients => ClientAcceptedAt(p)'
                         /\ Len(transcript[p]) \in Nat
                         /\ AbsSession[p] = SessionOf(transcript[p])
                         /\ AbsSession[p] # None <=> Len(transcript[p]) >= 3
                         /\ AbsSession'[p] = SessionOf(transcript'[p])
    <3>1. \A p \in Peers : /\ Len(transcript'[p]) \in Nat /\ OriginAt(p)'
                           /\ p \in Clients => ClientAcceptedAt(p)'
      BY DEF AcceptanceInv, AgreementInv, TypeInv, TypeOK, PeerInv
    <3>2. \A p \in Peers : AbsSession'[p] = SessionOf(transcript'[p])
      BY DEF AbsSession
    <3> QED BY <3>1, <3>2, TranscriptFacts
  <2>4. transcript'[c][1].random = c
    BY <1>1, <2>2, <2>3 DEF OriginAt
  <2>5. PICK s \in Servers : Len(transcript'[s]) >= 3 /\ \A i \in 1..3 : transcript'[c][i] = transcript'[s][i]
    BY <1>1, <2>2, <2>3 DEF ClientAcceptedAt
  <2>6. s \in Peers /\ s # c /\ transcript'[s] = transcript[s]
    BY <1>1, <2>1 DEF OnlyPeer, Peers
  <2>7. AbsSession[s] = AbsSession'[c]
    <3>1. SessionOf(transcript'[c]) = SessionOf(transcript'[s])
      BY <1>1, <2>2, <2>3, <2>5, <2>6, SameSession
    <3> QED BY <1>1, <2>3, <2>6, <3>1
  <2>8. ASSUME NEW d \in Clients, AbsSession[d] = AbsSession'[c] PROVE FALSE
    <3>1. d \in Peers /\ AbsSession'[c] # None
      BY <2>2 DEF Abstract!Bind, AbsSession, Peers
    <3>2. d # c /\ Len(transcript[d]) >= 3 /\ transcript'[d] = transcript[d]
      BY <2>1, <2>2, <2>3, <2>8, <3>1 DEF OnlyPeer
    <3>3. transcript[d][1] = transcript'[c][1]
      <4>1. SessionOf(transcript[d]) = SessionOf(transcript'[c])
        BY <1>1, <2>3, <2>8, <3>1
      <4>2. Len(transcript[d]) \in Nat /\ Len(transcript'[c]) \in Nat /\ Len(transcript'[c]) >= 3
        BY <1>1, <2>2, <2>3, <3>1
      <4> QED BY <3>2, <4>1, <4>2, SessionDetermines
    <3>4. transcript[d][1].random = d
      BY <2>3, <3>1, <3>2 DEF OriginAt
    <3> QED BY <2>4, <3>2, <3>3, <3>4
  <2>9. Abstract!Accept(c)
    BY <2>2, <2>6, <2>7, <2>8 DEF Abstract!Accept, AbsSession
  <2> QED BY <2>9
<1> QED BY <1>2, <1>3

\* The last wire of a transcript does not change its session.
LEMMA DoneSession ==
  ASSUME AcceptanceInv, AcceptanceInv', NEW p \in Peers, OnlyPeer(p), traffic' = traffic,
         state[p] \in {"ready_client_finished", "await_client_finished"}, state'[p] = "complete",
         NEW w, transcript' = [transcript EXCEPT ![p] = Append(@, w)]
  PROVE  /\ AbsPhase[p] = "bound" /\ AbsPhase' = [AbsPhase EXCEPT ![p] = "done"]
         /\ AbsSession' = AbsSession /\ Len(transcript[p]) = 3 /\ Len(transcript'[p]) = 4
         /\ AbsConfirmed' \ {p} = AbsConfirmed \ {p}
<1>1. AbsPhase[p] = "bound" /\ AbsPhase'[p] = "done"
  BY DEF AbsPhase
<1>2. /\ transcript \in [Peers -> Seq(Message)] /\ transcript' \in [Peers -> Seq(Message)]
      /\ Len(transcript[p]) = 3 /\ Len(transcript'[p]) = 4
  BY DEF AcceptanceInv, AgreementInv, Positions, PositionAt, TypeInv, TypeOK
<1>3. transcript'[p] = Append(transcript[p], w) /\ transcript[p] \in Seq(Message)
  BY <1>2
<1>4. \A i \in 1..3 : transcript'[p][i] = transcript[p][i]
  <2>1. transcript[p] \in Seq(Message \cup {w})
    BY <1>3
  <2> QED BY <1>2, <1>3, <2>1
<1>5. SessionOf(transcript'[p]) = SessionOf(transcript[p])
  <2>1. /\ Len(transcript[p]) \in Nat /\ Len(transcript'[p]) \in Nat
        /\ Len(transcript[p]) >= 3 /\ Len(transcript'[p]) >= 3
    BY <1>2
  <2> QED BY <1>4, <2>1, SameSession
<1>6. AbsSession'[p] = AbsSession[p]
  BY <1>5 DEF AbsSession
<1>7. /\ AbsPhase' = [AbsPhase EXCEPT ![p] = AbsPhase'[p]]
      /\ AbsSession' = [AbsSession EXCEPT ![p] = AbsSession'[p]]
      /\ AbsConfirmed' \ {p} = AbsConfirmed \ {p}
  BY OnePeerMoves
<1>8. AbsSession' = AbsSession
  BY <1>6, <1>7 DEF AbsSession
<1> QED BY <1>1, <1>2, <1>7, <1>8

LEMMA SendClientFinishedMaps ==
  ASSUME AcceptanceInv, AcceptanceInv', NEW c \in Clients, SendClientFinished(c)
  PROVE  Abstract!Confirm(c)
<1>1. c \in Peers
  BY DEF Peers
<1> DEFINE wire == Finished("client", Mac(schedule[c].client_handshake, transcript[c]))
<1>2. /\ state[c] = "ready_client_finished" /\ state'[c] = "complete" /\ OnlyPeer(c)
      /\ traffic' = traffic /\ transcript' = [transcript EXCEPT ![c] = Append(@, wire)]
  BY <1>1 DEF SendClientFinished, Complete, Enter, OnlyPeer, AcceptanceInv, AgreementInv, TypeInv, TypeOK
<1> HIDE DEF wire
<1>3. /\ AbsPhase[c] = "bound" /\ AbsPhase' = [AbsPhase EXCEPT ![c] = "done"]
      /\ AbsSession' = AbsSession /\ Len(transcript[c]) = 3 /\ Len(transcript'[c]) = 4
      /\ AbsConfirmed' \ {c} = AbsConfirmed \ {c}
  BY <1>1, <1>2, DoneSession
<1>4. AbsConfirmed' = AbsConfirmed \cup {c}
  <2>1. c \in AbsConfirmed'
    BY <1>3 DEF AbsConfirmed
  <2> QED BY <1>3, <2>1
<1> QED BY <1>2, <1>3, <1>4 DEF Abstract!Confirm, AbsPhase, AbsSession, AbsConfirmed

LEMMA ReceiveClientFinishedMaps ==
  ASSUME AcceptanceInv, AcceptanceInv', NEW s \in Servers, NEW w, ReceiveClientFinished(s, w)
  PROVE  Abstract!Finish(s) \/ Abstract!GiveUp(s)
<1>1. s \in Peers /\ s \notin Clients
  BY PeersAssumption DEF Peers
<1> DEFINE verified == Verified(w, "client", schedule[s].client_handshake, transcript[s])
<1>2. CASE ~verified
  BY <1>1, <1>2, RefuseMaps DEF ReceiveClientFinished
<1>3. CASE verified
  <2>1. /\ state[s] = "await_client_finished" /\ state'[s] = "complete" /\ OnlyPeer(s)
        /\ traffic' = traffic /\ transcript' = [transcript EXCEPT ![s] = Append(@, w)]
    BY <1>1, <1>3 DEF ReceiveClientFinished, Complete, Enter, OnlyPeer, AcceptanceInv, AgreementInv,
                      TypeInv, TypeOK
  <2>2. /\ AbsPhase[s] = "bound" /\ AbsPhase' = [AbsPhase EXCEPT ![s] = "done"]
        /\ AbsSession' = AbsSession /\ Len(transcript'[s]) = 4
        /\ AbsConfirmed' \ {s} = AbsConfirmed \ {s}
    BY <1>1, <2>1, DoneSession
  <2>3. AbsConfirmed' = AbsConfirmed
    BY <1>1, <2>2 DEF AbsConfirmed
  <2>4. PICK c \in Clients : /\ Len(transcript'[c]) = 4
                             /\ \A i \in 1..4 : transcript'[c][i] = transcript'[s][i]
    <3>1. ServerAcceptedAt(s)'
      BY <1>1 DEF AcceptanceInv, AgreementInv, PeerInv
    <3> QED BY <2>2, <3>1 DEF ServerAcceptedAt
  <2>5. c \in AbsConfirmed
    BY <2>3, <2>4 DEF AbsConfirmed
  <2>6. AbsSession[c] = AbsSession[s]
    <3>1. SessionOf(transcript'[c]) = SessionOf(transcript'[s])
      BY <2>2, <2>4, SameSession
    <3>2. AbsSession'[c] = AbsSession'[s]
      BY <1>1, <3>1 DEF AbsSession, Peers
    <3> QED BY <2>2, <3>2
  <2>7. Abstract!Finish(s)
    BY <2>1, <2>2, <2>3, <2>5, <2>6 DEF Abstract!Finish, AbsPhase, AbsSession, AbsConfirmed
  <2> QED BY <2>7
<1> QED BY <1>2, <1>3

LEMMA HellosMap ==
  ASSUME AcceptanceInv, AcceptanceInv'
  PROVE  /\ \A c \in Clients : SendClientHello(c) => UNCHANGED Abstract!vars
         /\ \A s \in Servers : \A w : ReceiveClientHello(s, w) => UNCHANGED Abstract!vars \/ Abstract!GiveUp(s)
         /\ \A c \in Clients : \A w : ReceiveServerHello(c, w) => UNCHANGED Abstract!vars \/ Abstract!GiveUp(c)
<1>0. Clients \subseteq Peers /\ Servers \subseteq Peers
  BY DEF Peers
<1>1. /\ state \in [Peers -> ClientState \cup ServerState] /\ transcript \in [Peers -> Seq(Message)]
  BY DEF AcceptanceInv, AgreementInv, TypeInv, TypeOK
<1>2. ASSUME NEW c \in Clients, SendClientHello(c) PROVE UNCHANGED Abstract!vars
  <2> DEFINE t == Append(transcript[c],
                         [type |-> "ClientHello", random |-> c, x25519_public |-> c, mlkem_public |-> c])
  <2>1. /\ state[c] = "new" /\ state' = [state EXCEPT ![c] = "await_server_hello"]
        /\ transcript' = [transcript EXCEPT ![c] = t] /\ traffic' = traffic
    BY <1>2 DEF SendClientHello, Enter
  <2> HIDE DEF t
  <2>2. c \in Peers /\ OnlyPeer(c) /\ state'[c] = "await_server_hello"
    BY <1>0, <1>1, <2>1 DEF OnlyPeer
  <2> QED BY <2>1, <2>2, OpenStutters
<1>3. ASSUME NEW s \in Servers, NEW w, ReceiveClientHello(s, w)
      PROVE  UNCHANGED Abstract!vars \/ Abstract!GiveUp(s)
  <2>1. CASE AcceptsClientHello(w)
    <3> DEFINE t == transcript[s] \o
                      <<w, [type |-> "ServerHello", random |-> s, x25519_public |-> s,
                            mlkem_ciphertext |-> [key |-> w.mlkem_public, by |-> s]]>>
    <3>1. /\ state[s] = "new" /\ state' = [state EXCEPT ![s] = "ready_server_finished"]
          /\ transcript' = [transcript EXCEPT ![s] = t] /\ traffic' = traffic
      BY <1>3, <2>1 DEF ReceiveClientHello, Enter
    <3> HIDE DEF t
    <3>2. s \in Peers /\ OnlyPeer(s) /\ state'[s] = "ready_server_finished"
      BY <1>0, <1>1, <3>1 DEF OnlyPeer
    <3> QED BY <3>1, <3>2, OpenStutters
  <2>2. CASE ~AcceptsClientHello(w)
    BY <1>0, <1>3, <2>2, RefuseMaps DEF ReceiveClientHello
  <2> QED BY <2>1, <2>2
<1>4. ASSUME NEW c \in Clients, NEW w, ReceiveServerHello(c, w)
      PROVE  UNCHANGED Abstract!vars \/ Abstract!GiveUp(c)
  <2>1. CASE AcceptsServerHello(w)
    <3> DEFINE t == Append(transcript[c], w)
    <3>1. /\ state[c] = "await_server_hello" /\ state' = [state EXCEPT ![c] = "await_server_finished"]
          /\ transcript' = [transcript EXCEPT ![c] = t] /\ traffic' = traffic
      BY <1>4, <2>1 DEF ReceiveServerHello, Enter
    <3> HIDE DEF t
    <3>2. c \in Peers /\ OnlyPeer(c) /\ state'[c] = "await_server_finished"
      BY <1>0, <1>1, <3>1 DEF OnlyPeer
    <3> QED BY <3>1, <3>2, OpenStutters
  <2>2. CASE ~AcceptsServerHello(w)
    BY <1>0, <1>4, <2>2, RefuseMaps DEF ReceiveServerHello
  <2> QED BY <2>1, <2>2
<1> QED BY <1>2, <1>3, <1>4

LEMMA StepMaps == AcceptanceInv /\ AcceptanceInv' /\ [Next]_vars => [Abstract!Next]_Abstract!vars
<1> SUFFICES ASSUME AcceptanceInv, AcceptanceInv', [Next]_vars PROVE [Abstract!Next]_Abstract!vars
  OBVIOUS
<1>0. /\ \A p \in Peers : Abstract!GiveUp(p) => Abstract!Next
      /\ \A c \in Clients : Abstract!Accept(c) \/ Abstract!Confirm(c) => Abstract!Next
      /\ \A s \in Servers : Abstract!Offer(s) \/ Abstract!Finish(s) => Abstract!Next
  BY DEF Abstract!Next, Abstract!Peers, Peers
<1>p. Clients \subseteq Peers /\ Servers \subseteq Peers
  BY DEF Peers
<1>1. ASSUME NEW c \in Clients, ClientStep(c) PROVE [Abstract!Next]_Abstract!vars
  BY <1>0, <1>p, <1>1, HellosMap, ReceiveServerFinishedMaps, SendClientFinishedMaps DEF ClientStep
<1>2. ASSUME NEW s \in Servers, ServerStep(s) PROVE [Abstract!Next]_Abstract!vars
  BY <1>0, <1>p, <1>2, HellosMap, ReceiveClientFinishedMaps, SendServerFinishedMaps DEF ServerStep
<1>3. ASSUME NEW p \in Peers, OutOfOrder(p) PROVE [Abstract!Next]_Abstract!vars
  BY <1>0, <1>3, RefuseMaps DEF OutOfOrder
<1>4. CASE UNCHANGED vars
  BY <1>4 DEF vars, Abstract!vars
<1> QED BY <1>1, <1>2, <1>3, <1>4 DEF Next

LEMMA InitMaps == Init => Abstract!Init
<1> SUFFICES ASSUME Init PROVE Abstract!Init
  OBVIOUS
<1>1. \A p \in Peers : Len(transcript[p]) = 0
  BY DEF Init
<1>2. AbsPhase = [p \in Peers |-> "open"]
  BY DEF Init, AbsPhase
<1>3. AbsSession = [p \in Peers |-> None]
  BY <1>1 DEF AbsSession, SessionOf
<1>4. AbsConfirmed = {} /\ traffic = [p \in Peers |-> None]
  BY <1>1 DEF Init, AbsConfirmed, Peers
<1> QED BY <1>2, <1>3, <1>4 DEF Abstract!Init, Abstract!Peers, Peers, AbsPhase, AbsSession, AbsConfirmed

\* The peers of tls_simulator.py implement the abstract handshake: every call
\* of theirs is a step of it or invisible to it, for any number of peers and
\* whatever the network delivers.
THEOREM PeersImplementHandshake == Spec => ImplementsAgreement
<1>1. ImplementsAgreement <=> Abstract!Init /\ [][Abstract!Next]_Abstract!vars
  BY DEF ImplementsAgreement, Abstract!Spec
<1> QED BY <1>1, InitMaps, StepMaps, AcceptanceAlways, PTL DEF Spec
-----------------------------------------------------------------------------
(* Failure and completion are final.  Each step moves one peer: it refuses, *)
(* or goes on from a state that is neither and appends to its transcript.   *)

Refuses(p) == state' = [state EXCEPT ![p] = "failed"] /\ transcript' = transcript
Advances(p, to, wires) == /\ state[p] \notin {"complete", "failed"} /\ to # "failed"
                          /\ state' = [state EXCEPT ![p] = to]
                          /\ transcript' = [transcript EXCEPT ![p] = @ \o wires]

TerminalNow(p) ==
  /\ state[p] = "failed" => state'[p] = "failed"
  /\ state[p] = "complete" => state'[p] \in {"complete", "failed"}
  /\ state[p] \in {"complete", "failed"} => transcript'[p] = transcript[p]
  /\ Len(transcript'[p]) >= Len(transcript[p])
  /\ SubSeq(transcript'[p], 1, Len(transcript[p])) = transcript[p]

LEMMA StaysTerminal ==
  ASSUME TypeInv, NEW p \in Peers, state'[p] \in {state[p], "failed"}, transcript'[p] = transcript[p]
  PROVE  TerminalNow(p)
<1>1. transcript[p] \in Seq(Message)
  BY DEF TypeInv, TypeOK
<1>2. SubSeq(transcript[p], 1, Len(transcript[p])) = transcript[p] /\ Len(transcript[p]) \in Nat
  BY <1>1
<1> QED BY <1>2 DEF TerminalNow

LEMMA RefusesTerminal == ASSUME TypeInv, NEW p \in Peers, Refuses(p) PROVE \A q \in Peers : TerminalNow(q)
<1>1. \A q \in Peers : state'[q] \in {state[q], "failed"} /\ transcript'[q] = transcript[q]
  BY DEF TypeInv, TypeOK, Refuses
<1> QED BY <1>1, StaysTerminal

LEMMA AdvancesTerminal ==
  ASSUME TypeInv, NEW p \in Peers, NEW to, NEW M, NEW wires \in Seq(M), Advances(p, to, wires)
  PROVE  \A q \in Peers : TerminalNow(q)
<1>1. \A q \in Peers \ {p} : state'[q] = state[q] /\ transcript'[q] = transcript[q]
  BY DEF TypeInv, TypeOK, Advances
<1>2. /\ state[p] \notin {"complete", "failed"} /\ transcript[p] \in Seq(Message)
      /\ transcript'[p] = transcript[p] \o wires
  BY DEF TypeInv, TypeOK, Advances
<1>3. TerminalNow(p)
  <2>1. transcript[p] \in Seq(Message \cup M) /\ wires \in Seq(Message \cup M)
    BY <1>2, SeqNesting
  <2>2. /\ Len(transcript'[p]) >= Len(transcript[p])
        /\ SubSeq(transcript'[p], 1, Len(transcript[p])) = transcript[p]
    BY <1>2, <2>1
  <2> QED BY <1>2, <2>2 DEF TerminalNow
<1> QED BY <1>1, <1>3, StaysTerminal

LEMMA TerminalStep == ASSUME TypeInv, [Next]_vars PROVE \A q \in Peers : TerminalNow(q)
<1>0. transcript \in [Peers -> Seq(Message)]
  BY DEF TypeInv, TypeOK
<1>1. ASSUME NEW p \in Peers, NEW to, NEW wire, state[p] \notin {"complete", "failed"}, to # "failed",
             state' = [state EXCEPT ![p] = to],
             transcript' = [transcript EXCEPT ![p] = Append(@, wire)]
      PROVE  \A q \in Peers : TerminalNow(q)
  <2>1. <<wire>> \in Seq({wire}) /\ transcript[p] \in Seq(Message)
    BY <1>0
  <2>2. Append(transcript[p], wire) = transcript[p] \o <<wire>>
    BY <2>1
  <2>3. Advances(p, to, <<wire>>)
    BY <1>1, <2>2 DEF Advances
  <2> QED BY <2>1, <2>3, AdvancesTerminal
<1>2. ASSUME NEW p \in Peers, Refuse(p) PROVE \A q \in Peers : TerminalNow(q)
  BY <1>2, RefusesTerminal DEF Refuse, Fail, Refuses
<1>3. ASSUME NEW c \in Clients, ClientStep(c) PROVE \A q \in Peers : TerminalNow(q)
  <2>0. c \in Peers
    BY DEF Peers
  <2>1. CASE SendClientHello(c)
    BY <1>1, <2>0, <2>1 DEF SendClientHello, Enter
  <2>2. CASE SendClientFinished(c)
    BY <1>1, <2>0, <2>2 DEF SendClientFinished, Complete, Enter
  <2>3. ASSUME NEW w, ReceiveServerHello(c, w) PROVE \A q \in Peers : TerminalNow(q)
    BY <1>1, <1>2, <2>0, <2>3 DEF ReceiveServerHello, Enter
  <2>4. ASSUME NEW w, ReceiveServerFinished(c, w) PROVE \A q \in Peers : TerminalNow(q)
    BY <1>1, <1>2, <2>0, <2>4 DEF ReceiveServerFinished, Enter
  <2> QED BY <1>3, <2>1, <2>2, <2>3, <2>4 DEF ClientStep
<1>4. ASSUME NEW s \in Servers, ServerStep(s) PROVE \A q \in Peers : TerminalNow(q)
  <2>0. s \in Peers
    BY DEF Peers
  <2>1. CASE SendServerFinished(s)
    BY <1>1, <2>0, <2>1 DEF SendServerFinished, Enter
  <2>2. ASSUME NEW w, ReceiveClientHello(s, w) PROVE \A q \in Peers : TerminalNow(q)
    <3>1. CASE AcceptsClientHello(w)
      <4> DEFINE reply == [type |-> "ServerHello", random |-> s, x25519_public |-> s,
                           mlkem_ciphertext |-> [key |-> w.mlkem_public, by |-> s]]
      <4>1. <<w, reply>> \in Seq({w, reply})
        OBVIOUS
      <4>2. transcript' = [transcript EXCEPT ![s] = transcript[s] \o <<w, reply>>]
        BY <2>2, <3>1 DEF ReceiveClientHello
      <4>3. state[s] = "new" /\ state' = [state EXCEPT ![s] = "ready_server_finished"]
        BY <2>2, <3>1 DEF ReceiveClientHello, Enter
      <4> HIDE DEF reply
      <4>4. Advances(s, "ready_server_finished", <<w, reply>>)
        BY <4>2, <4>3 DEF Advances
      <4> QED BY <2>0, <4>1, <4>4, AdvancesTerminal
    <3>2. CASE ~AcceptsClientHello(w)
      BY <1>2, <2>0, <2>2, <3>2 DEF ReceiveClientHello
    <3> QED BY <3>1, <3>2
  <2>3. ASSUME NEW w, ReceiveClientFinished(s, w) PROVE \A q \in Peers : TerminalNow(q)
    BY <1>1, <1>2, <2>0, <2>3 DEF ReceiveClientFinished, Complete, Enter
  <2> QED BY <1>4, <2>1, <2>2, <2>3 DEF ServerStep
<1>5. CASE \E p \in Peers : OutOfOrder(p)
  BY <1>2, <1>5 DEF OutOfOrder
<1>6. CASE UNCHANGED vars
  BY <1>6, StaysTerminal DEF vars
<1> QED BY <1>3, <1>4, <1>5, <1>6 DEF Next

\* Failure is terminal and freezes the transcript, a completed peer can only
\* fail, and a transcript only grows at its end (_fail, _complete, _expect):
\* a property of every step, for any peers and deliveries.
THEOREM PeersAreTerminal == Spec => TerminalPeers
<1>1. TypeInv /\ [Next]_vars => [\A p \in Peers : TerminalNow(p)]_vars
  BY TerminalStep
<1> QED BY <1>1, TypeInit, TypeStep, PTL DEF Spec, TerminalPeers, TerminalNow
=============================================================================
