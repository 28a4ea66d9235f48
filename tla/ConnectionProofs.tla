--------------------------- MODULE ConnectionProofs ---------------------------
(***************************************************************************)
(* Proofs about Connection, for any number of addresses, attempts, tokens, *)
(* sessions and restarts, with and without loss, copies, timers and        *)
(* resumption: the four safety invariants of the session table and the     *)
(* handshake, and that a session on its way out stays on it.               *)
(***************************************************************************)
EXTENDS Connection, TLAPS

-----------------------------------------------------------------------------
(* The inductive invariant.                                                *)

(* The packets a client can have made: the tokens and tickets it shows     *)
(* were given out, and it encrypts only for a session whose keys it holds. *)
Hellos ==
    [kind : {"ClientHello"}, dir : {"up"}, addr : Addrs, key : 1..MaxAttempts,
     token : 0..Len(issued), ticket : 0..Len(made)]

Secured ==
    [kind : Encrypted, dir : {"up"}, addr : Addrs, conn : finished,
     key : 1..MaxAttempts]

PlainCloses ==
    [kind : {"PlainClose"}, dir : {"up"}, addr : Addrs, conn : {0}, key : {0}]

FromClient == Hellos \cup Secured \cup PlainCloses

(* The packets a server can have made. *)
Retries ==
    [kind : {"Retry"}, dir : {"down"}, addr : Addrs, token : 1..Len(issued)]

ServerHellos ==
    [kind : {"ServerHello"}, dir : {"down"}, addr : Addrs, conn : 1..Len(made),
     key : 1..MaxAttempts, token : 0..Len(issued), ticket : 0..Len(made)]

SessionFrames ==
    [kind : {"Data", "Close", "PlainClose"}, dir : {"down"}, addr : Addrs,
     conn : 0..Len(made), key : 0..MaxAttempts]

FromServer == Retries \cup ServerHellos \cup SessionFrames

PacketsKnown ==
    /\ net \subseteq FromClient \cup FromServer
    /\ cq \subseteq FromClient
    /\ sq \subseteq [packet : FromServer, owner : 0..Len(made)]

(* A server hello, however old, tells the truth about its session if that  *)
(* session is still there. *)
Truthful(d) ==
    d.kind = "ServerHello" /\ d.conn \in DOMAIN sessions =>
        d = ServerHello(d.conn, sessions[d.conn])

HellosTruthful ==
    /\ \A d \in net : Truthful(d)
    /\ \A x \in sq : Truthful(x.packet)

(* A client that is not idle has an address and a key pair, and one that   *)
(* holds session keys has finished the handshake of its session.           *)
ClientSound ==
    /\ cl.token <= Len(issued) /\ cl.ticket <= Len(made) /\ cl.conn <= Len(made)
    /\ cl.state # "Idle" => cl.addr \in Addrs /\ cl.key # 0
    /\ cl.state = "Established" => cl.keys
    /\ cl.state = "Handshaking" => ~cl.keys
    /\ cl.keys => cl.conn \in finished

(* The tokens a session was opened with were given out before it. *)
SessionsSound ==
    \A c \in DOMAIN sessions :
        sessions[c].token <= Len(issued) /\ sessions[c].ticket <= Len(made)

(* The index has no endpoint for a session but its own. *)
IndexSound ==
    /\ IndexAgrees
    /\ \A a \in Addrs : index[a] # 0 => sessions[index[a]].addr = a

IInv ==
    /\ TypeOK /\ PacketsKnown /\ HellosTruthful /\ ClientSound /\ SessionsSound
    /\ KeyAgreement /\ EstablishedIsConfirmed /\ IndexSound /\ SessionsValidated

-----------------------------------------------------------------------------
(* The pieces actions are made of                                          *)

(* The bounds are numbers.                                                 *)
LEMMA Bounds ==
    /\ 0 \notin Addrs
    /\ MaxNet \in Nat /\ MaxAttempts \in Nat /\ MaxTokens \in Nat
    /\ MaxConns \in Nat /\ MaxRestarts \in Nat
  BY ConnectionAssumption, Zenon

(* UDP delivers what was sent, and nothing else. *)
LEMMA SentSubset ==
    ASSUME NEW n, NEW P PROVE Sent(n, P) \subseteq n \cup P
  BY Zenon DEF Sent

(* A datagram that is read leaves the network, or a copy of it stays. *)
LEMMA ReceivedSubset ==
    ASSUME NEW d, NEW n \in Received(d) PROVE n \subseteq net
  BY Zenon DEF Received

(* queue_packet puts one packet into the queue, or none. *)
LEMMA QueuedSubset ==
    ASSUME NEW p, NEW owner, NEW q \in Queued(p, owner)
    PROVE  q \subseteq sq \cup {Owned(p, owner)}
  BY Zenon DEF Queued, Enqueued

(* A token that is issued leaves the numbers of the earlier ones alone. *)
LEMMA AppendKeeps ==
    ASSUME NEW S, NEW s \in Seq(S), NEW e \in S
    PROVE  /\ Append(s, e) \in Seq(S) /\ Len(Append(s, e)) = Len(s) + 1
           /\ Len(s) \in Nat
           /\ \A i \in 1..Len(s) : Append(s, e)[i] = s[i]
  OBVIOUS

-----------------------------------------------------------------------------
(* What every step does to the things packets speak of: tokens and         *)
(* sessions are only added, and what a session was opened with is fixed.   *)
SameOrigin(s, t) ==
    s.addr = t.addr /\ s.key = t.key /\ s.token = t.token /\ s.ticket = t.ticket

Follows ==
    /\ Len(issued)' \in Nat /\ Len(issued) <= Len(issued)'
    /\ Len(made)' \in Nat /\ Len(made) <= Len(made)'
    /\ finished \subseteq finished'
    /\ \A c \in (DOMAIN sessions)' : c \in 1..Len(made) =>
            c \in DOMAIN sessions /\ SameOrigin(sessions'[c], sessions[c])

(* A packet that could have been made before such a step can have been     *)
(* made after it, and a server hello that told the truth still does.       *)
LEMMA PacketsLast ==
    ASSUME TypeOK, Follows
    PROVE  /\ FromClient \subseteq FromClient' /\ FromServer \subseteq FromServer'
           /\ \A x \in [packet : FromServer, owner : 0..Len(made)] :
                x \in [packet : FromServer', owner : 0..Len(made)']
           /\ \A d \in FromClient \cup FromServer : Truthful(d) => Truthful(d)'
  <1>1. Len(issued) \in Nat /\ Len(made) \in Nat
    BY DEF TypeOK
  <1>2. FromClient \subseteq FromClient'
    <2>1. Hellos \subseteq Hellos'
      BY <1>1 DEF Hellos, Follows
    <2>2. Secured \subseteq Secured'
      BY Zenon DEF Secured, Follows
    <2>. QED
      BY <2>1, <2>2, Zenon DEF FromClient, PlainCloses
  <1>3. FromServer \subseteq FromServer'
    <2>1. Retries \subseteq Retries'
      BY <1>1 DEF Retries, Follows
    <2>2. ServerHellos \subseteq ServerHellos'
      BY <1>1 DEF ServerHellos, Follows
    <2>3. SessionFrames \subseteq SessionFrames'
      BY <1>1 DEF SessionFrames, Follows
    <2>. QED
      BY <2>1, <2>2, <2>3, Zenon DEF FromServer
  <1>4. ASSUME NEW x \in [packet : FromServer, owner : 0..Len(made)]
        PROVE  x \in [packet : FromServer', owner : 0..Len(made)']
    BY <1>1, <1>3 DEF Follows
  <1>5. ASSUME NEW d \in FromClient \cup FromServer, Truthful(d) PROVE Truthful(d)'
    <2>. SUFFICES ASSUME d.kind = "ServerHello", d.conn \in (DOMAIN sessions)'
                  PROVE  d = ServerHello(d.conn, sessions'[d.conn])
      BY Zenon DEF Truthful
    <2>1. d \in ServerHellos
      BY Zenon DEF FromClient, Hellos, Secured, PlainCloses, Encrypted, FromServer, Retries,
             SessionFrames
    <2>2. d.conn \in 1..Len(made)
      BY <2>1, Zenon DEF ServerHellos
    <2>3. d.conn \in DOMAIN sessions /\ SameOrigin(sessions'[d.conn], sessions[d.conn])
      BY <2>2, Zenon DEF Follows
    <2>. QED
      BY <1>5, <2>3, Zenon DEF Truthful, SameOrigin, ServerHello
  <1>. QED
    BY <1>2, <1>3, <1>4, <1>5, Zenon

-----------------------------------------------------------------------------
(* The client                                                              *)

ClientType ==
    [state : States, key : 0..MaxAttempts, addr : Addrs \cup {0},
     token : 0..MaxTokens, ticket : 0..MaxConns, conn : 0..MaxConns,
     keys : BOOLEAN, sent : BOOLEAN]

(* A step of the client keeps the invariant if it keeps the client sound,  *)
(* queues and sends only packets a client can make, and agrees with the    *)
(* session it says it is connected to.                                     *)
LEMMA ClientStep ==
    ASSUME IInv, UNCHANGED <<serverVars, clockVars>>,
           cl' \in ClientType, ClientSound', KeyAgreement',
           cq' \subseteq FromClient', net' \subseteq net \cup FromClient',
           finished \subseteq finished', finished' \subseteq 1..Len(made)
    PROVE  IInv'
  <1>. USE DEF serverVars, clockVars
  <1>1. TypeOK'
    BY Zenon DEF IInv, TypeOK, ClientType
  <1>2. Follows
    BY DEF IInv, TypeOK, Follows, SameOrigin
  <1>3. /\ FromClient \subseteq FromClient' /\ FromServer \subseteq FromServer'
        /\ \A x \in [packet : FromServer, owner : 0..Len(made)] :
             x \in [packet : FromServer', owner : 0..Len(made)']
        /\ \A d \in FromClient \cup FromServer : Truthful(d) => Truthful(d)'
    BY <1>2, PacketsLast, Zenon DEF IInv
  <1>4. PacketsKnown'
    BY <1>3, Zenon DEF IInv, PacketsKnown
  <1>5. HellosTruthful'
    <2>1. \A d \in FromClient' : Truthful(d)'
      BY Zenon DEF FromClient, Hellos, Secured, PlainCloses, Encrypted, Truthful
    <2>2. ASSUME NEW d \in net PROVE Truthful(d)'
      BY <1>3, Zenon DEF IInv, PacketsKnown, HellosTruthful
    <2>3. ASSUME NEW x \in sq PROVE Truthful(x.packet)'
      BY <1>3, Zenon DEF IInv, PacketsKnown, HellosTruthful
    <2>. QED
      BY <2>1, <2>2, <2>3, Zenon DEF HellosTruthful
  <1>6. SessionsSound' /\ EstablishedIsConfirmed' /\ IndexSound' /\ SessionsValidated'
    BY Zenon
       DEF IInv, SessionsSound, EstablishedIsConfirmed, IndexSound, IndexAgrees,
           SessionsValidated
  <1>. QED
    BY <1>1, <1>4, <1>5, <1>6, Zenon DEF IInv

(* What the actions of the client start from.                              *)
LEMMA ClientFacts ==
    ASSUME IInv
    PROVE  /\ cl \in ClientType /\ ClientSound /\ KeyAgreement
           /\ cq \subseteq FromClient /\ net \subseteq FromClient \cup FromServer
           /\ Len(issued) \in 0..MaxTokens /\ Len(made) \in 0..MaxConns
           /\ finished \subseteq 1..Len(made)
           /\ IdleClient \in ClientType
  <1>1. IdleClient \in ClientType
    BY Bounds DEF ClientType, IdleClient, States
  <1>2. Len(issued) \in 0..MaxTokens /\ Len(made) \in 0..MaxConns
    BY Bounds DEF IInv, TypeOK
  <1>. QED
    BY <1>1, <1>2, Zenon DEF IInv, TypeOK, ClientType, PacketsKnown

(* send_client_hello makes a hello of a client that is connecting.         *)
LEMMA HelloSent ==
    ASSUME IInv, UNCHANGED <<serverVars, clockVars, finished>>,
           NEW c \in ClientType, NEW q, NEW n, SendClientHello(c, q, n),
           q \subseteq FromClient, n \subseteq net,
           c.state = "Handshaking", c.addr \in Addrs, c.key # 0,
           ~c.keys, c.token <= Len(issued),
           c.ticket <= Len(made), c.conn <= Len(made)
    PROVE  IInv'
  <1>. USE DEF serverVars, clockVars
  <1>1. ClientHello(c) \in FromClient
    BY ClientFacts DEF ClientType, ClientHello, OfferedTicket, FromClient, Hellos
  <1>2. FromClient' = FromClient
    BY Zenon DEF FromClient, Hellos, Secured, PlainCloses
  <1>3. cl' \in {c, [c EXCEPT !.sent = TRUE]}
    BY Zenon DEF SendClientHello
  <1>4. cq' \subseteq FromClient /\ net' \subseteq net \cup FromClient
    BY <1>1, SentSubset DEF SendClientHello
  <1>5. cl' \in ClientType /\ ClientSound' /\ KeyAgreement'
    <2>1. /\ cl' \in ClientType /\ cl'.state = "Handshaking" /\ cl'.keys = c.keys
          /\ cl'.addr = c.addr /\ cl'.key = c.key
          /\ cl'.token = c.token /\ cl'.ticket = c.ticket /\ cl'.conn = c.conn
      BY <1>3, Zenon DEF ClientType
    <2>. QED
      BY <2>1, Zenon DEF ClientSound, KeyAgreement
  <1>. QED
    BY <1>2, <1>4, <1>5, ClientFacts, ClientStep, Zenon

(* connect() and stop(), from any state.                                   *)
LEMMA ConnectKeeps ==
    ASSUME IInv, NEW a \in Addrs, Connect(a) PROVE IInv'
  <1>. DEFINE c == [IdleClient EXCEPT !.state = "Handshaking", !.addr = a,
                                      !.key = cl.key + 1, !.ticket = cl.ticket]
  <1>1. /\ c \in ClientType /\ c.state = "Handshaking" /\ c.addr \in Addrs
        /\ c.key # 0 /\ ~c.keys /\ c.token = 0 /\ c.conn = 0 /\ c.ticket = cl.ticket
    <2>1. cl.key \in 0..MaxAttempts /\ cl.key < MaxAttempts /\ cl.ticket \in 0..MaxConns
      BY ClientFacts, Zenon DEF Connect, ClientType
    <2>2. cl.key + 1 \in 0..MaxAttempts /\ cl.key + 1 # 0
      BY <2>1, Bounds
    <2>. QED
      BY <2>1, <2>2, ClientFacts, Zenon DEF ClientType, IdleClient, States
  <1>2. SendClientHello(c, {}, net) /\ UNCHANGED <<serverVars, clockVars, finished>>
    BY Zenon DEF Connect
  <1>3. c.token <= Len(issued) /\ c.ticket <= Len(made) /\ c.conn <= Len(made)
    BY <1>1, ClientFacts DEF ClientSound
  <1>. HIDE DEF c
  <1>. QED
    BY <1>1, <1>2, <1>3, HelloSent

(* stop(), or a connect() whose socket fails. *)
LEMMA StopKeeps ==
    ASSUME IInv, Stop PROVE IInv'
  <1>1. /\ cl' \in ClientType /\ cl'.state = "Idle" /\ ~cl'.keys
        /\ cl'.token = 0 /\ cl'.ticket = cl.ticket /\ cl'.conn = 0
    BY ClientFacts, Zenon DEF Stop, ClientType, IdleClient, States
  <1>2. ClientSound' /\ KeyAgreement'
    BY <1>1, ClientFacts DEF Stop, serverVars, ClientSound, KeyAgreement
  <1>. QED
    BY <1>1, <1>2, ClientFacts, ClientStep, Zenon DEF Stop

(* The end of a connection: fail_connection and the close frame.           *)
LEMMA ShutKeeps ==
    ASSUME IInv, Shut, UNCHANGED <<serverVars, clockVars, finished>>,
           net' \subseteq net, cl.state # "Idle"
    PROVE  IInv'
  <1>1. /\ cl' \in ClientType /\ cl'.state = "Closed" /\ ~cl'.keys
        /\ cl'.addr = cl.addr /\ cl'.key = cl.key
        /\ cl'.token = cl.token /\ cl'.ticket = cl.ticket /\ cl'.conn = cl.conn
    BY ClientFacts, Zenon DEF Shut, ClientType, States
  <1>2. ClientSound' /\ KeyAgreement'
    BY <1>1, ClientFacts, Zenon DEF serverVars, ClientSound, KeyAgreement
  <1>. QED
    BY <1>1, <1>2, ClientFacts, ClientStep, Zenon DEF Shut

(* An encrypted packet is made only for a session whose keys are held. *)
LEMMA ClientFrames ==
    ASSUME IInv, cl.state # "Idle"
    PROVE  /\ cl.keys => Up("Data", cl.addr, cl.conn, cl.key) \in FromClient
           /\ CloseFrame \in FromClient
  <1>1. /\ cl.addr \in Addrs /\ cl.key \in 1..MaxAttempts
        /\ cl.keys => cl.conn \in finished
    BY ClientFacts, Bounds DEF ClientSound, ClientType
  <1>2. ASSUME cl.keys, NEW kind \in Encrypted
        PROVE  Up(kind, cl.addr, cl.conn, cl.key) \in Secured
    BY <1>1, <1>2, Zenon DEF Up, Secured
  <1>3. Up("PlainClose", cl.addr, 0, 0) \in PlainCloses
    BY <1>1, Zenon DEF Up, PlainCloses
  <1>. QED
    BY <1>2, <1>3, Zenon DEF CloseFrame, FromClient, Encrypted

(* The client's socket sends, its application sends and closes.            *)
LEMMA ClientFlushKeeps ==
    ASSUME IInv, ClientFlush PROVE IInv'
  <1>1. /\ cl' \in ClientType /\ cl'.state = cl.state /\ cl'.keys = cl.keys
        /\ cl'.addr = cl.addr /\ cl'.key = cl.key
        /\ cl'.token = cl.token /\ cl'.ticket = cl.ticket /\ cl'.conn = cl.conn
    BY ClientFacts, Zenon DEF ClientFlush, ClientType
  <1>2. ClientSound' /\ KeyAgreement'
    BY <1>1, ClientFacts DEF ClientFlush, serverVars, ClientSound, KeyAgreement
  <1>3. FromClient' = FromClient
    BY Zenon DEF ClientFlush, serverVars, FromClient, Hellos, Secured, PlainCloses
  <1>4. cq' \subseteq FromClient /\ net' \subseteq net \cup FromClient
    <2>1. PICK p \in cq : net' = Sent(net, {p}) /\ cq' = cq \ {p}
      BY Zenon DEF ClientFlush
    <2>. QED
      BY <2>1, ClientFacts, SentSubset
  <1>. QED
    BY <1>1, <1>2, <1>3, <1>4, ClientFacts, ClientStep, Zenon DEF ClientFlush

(* A step that queues one frame, and at most begins to close.              *)
LEMMA FrameKeeps ==
    ASSUME IInv, UNCHANGED <<finished, serverVars, clockVars, net>>,
           cl' \in {cl, [cl EXCEPT !.state = "Closing"]}, cl.state # "Idle",
           NEW p \in FromClient, cq' \subseteq cq \cup {p}
    PROVE  IInv'
  <1>1. /\ cl' \in ClientType /\ cl'.state \in {cl.state, "Closing"}
        /\ cl'.keys = cl.keys /\ cl'.addr = cl.addr /\ cl'.key = cl.key
        /\ cl'.token = cl.token /\ cl'.ticket = cl.ticket /\ cl'.conn = cl.conn
    BY ClientFacts, Zenon DEF ClientType, States
  <1>2. ClientSound' /\ KeyAgreement'
    BY <1>1, ClientFacts, Zenon DEF serverVars, ClientSound, KeyAgreement
  <1>3. FromClient' = FromClient
    BY Zenon DEF serverVars, FromClient, Hellos, Secured, PlainCloses
  <1>. QED
    BY <1>1, <1>2, <1>3, ClientFacts, ClientStep, Zenon

(* A frame the client's application sends. *)
LEMMA ClientSendKeeps ==
    ASSUME IInv, ClientSend PROVE IInv'
  <1>1. cl.state # "Idle" /\ cl.keys
    BY ClientFacts, Zenon DEF ClientSend, ClientSound
  <1>. QED
    BY <1>1, ClientFrames, FrameKeeps, Zenon DEF ClientSend

(* The client closes, with a Close frame or without a session to close. *)
LEMMA ClientCloseKeeps ==
    ASSUME IInv, ClientClose PROVE IInv'
  <1>1. cl.state # "Idle" /\ UNCHANGED <<finished, serverVars, clockVars, net>>
    BY Zenon DEF ClientClose
  <1>2. CASE Shut
    BY <1>1, <1>2, ShutKeeps, Zenon
  <1>3. CASE cq' = cq \cup {CloseFrame} /\ cl' = [cl EXCEPT !.state = "Closing"]
    BY <1>1, <1>3, ClientFrames, FrameKeeps, Zenon
  <1>. QED
    BY <1>2, <1>3, Zenon DEF ClientClose

(* run_housekeeping of the client.                                         *)
LEMMA ClientTimersKeep ==
    ASSUME IInv, ClientHandshakeTimeout \/ ClientIdleTimeout \/ ClientDrained
    PROVE  IInv'
  <1>1. CASE ClientHandshakeTimeout \/ ClientDrained
    BY <1>1, ShutKeeps, Zenon DEF ClientHandshakeTimeout, ClientDrained
  <1>2. CASE ClientIdleTimeout
    <2>1. cl.state # "Idle" /\ cl' = [cl EXCEPT !.state = "Closing"]
      BY <1>2, Zenon DEF ClientIdleTimeout
    <2>2. cq' \subseteq cq \cup {CloseFrame}
      BY <1>2, Zenon DEF ClientIdleTimeout
    <2>3. UNCHANGED <<finished, serverVars, clockVars, net>>
      BY <1>2, Zenon DEF ClientIdleTimeout
    <2>. QED
      BY <2>1, <2>2, <2>3, ClientFrames, FrameKeeps, Zenon
  <1>. QED
    BY <1>1, <1>2, Zenon

(* A retry packet: the client takes the token and says hello again. *)
LEMMA ReceiveRetryKeeps ==
    ASSUME IInv, NEW d \in net, ClientReceive(d), ReceiveRetry(d) PROVE IInv'
  <1>1. UNCHANGED <<serverVars, clockVars, finished>> /\ cl.state # "Idle"
    BY Zenon DEF ClientReceive, ReceiveRetry
  <1>2. PICK n \in Received(d) :
            \/ /\ cl.state = "Handshaking"
               /\ SendClientHello([cl EXCEPT !.token = d.token], cq, n)
            \/ cl.state # "Handshaking" /\ Shut /\ net' = n
    BY Zenon DEF ReceiveRetry
  <1>3. n \subseteq net
    BY ReceivedSubset, Zenon
  <1>4. CASE Shut /\ net' = n
    BY <1>1, <1>3, <1>4, ShutKeeps, Zenon
  <1>5. CASE /\ cl.state = "Handshaking"
             /\ SendClientHello([cl EXCEPT !.token = d.token], cq, n)
    <2>1. d.token \in 1..Len(issued)
      <3>1. d \in Retries
        BY ClientFacts, Zenon DEF ReceiveRetry, FromClient, Hellos, Secured, PlainCloses,
                           Encrypted, FromServer, ServerHellos, SessionFrames
      <3>. QED
        BY <3>1, Zenon DEF Retries
    <2>2. d.token \in 0..MaxTokens /\ d.token <= Len(issued)
      BY <2>1, ClientFacts, Bounds
    <2>. DEFINE c == [cl EXCEPT !.token = d.token]
    <2>3. /\ c \in ClientType /\ c.state = cl.state /\ c.keys = cl.keys
          /\ c.addr = cl.addr /\ c.key = cl.key
          /\ c.token = d.token /\ c.ticket = cl.ticket /\ c.conn = cl.conn
      BY <2>2, ClientFacts, Zenon DEF ClientType
    <2>4. /\ c.addr \in Addrs /\ c.key # 0 /\ ~c.keys
          /\ c.ticket <= Len(made) /\ c.conn <= Len(made)
      BY <1>5, <2>3, ClientFacts, Zenon DEF ClientSound
    <2>. HIDE DEF c
    <2>5. SendClientHello(c, cq, n)
      BY <1>5, Zenon DEF c
    <2>. QED
      BY <1>1, <1>3, <1>5, <2>2, <2>3, <2>4, <2>5, ClientFacts, HelloSent, Zenon
  <1>. QED
    BY <1>2, <1>4, <1>5, Zenon

(* A server hello that answers the client's last one: the session it names *)
(* is the one it was made for, if the server still has it.                 *)
LEMMA ServerHelloAgrees ==
    ASSUME IInv, NEW d \in net, d.kind = "ServerHello", d.addr = cl.addr, MacMatches(d)
    PROVE  /\ d.conn \in 1..Len(made)
           /\ d.conn \in DOMAIN sessions =>
                LET s == sessions[d.conn] IN
                s.key = cl.key /\ s.addr = cl.addr /\ s.token = cl.token
  <1>1. d \in ServerHellos
    BY ClientFacts, Zenon DEF FromClient, Hellos, Secured, PlainCloses, Encrypted, FromServer,
                       Retries, SessionFrames
  <1>2. d.conn \in 1..Len(made)
    BY <1>1, Zenon DEF ServerHellos
  <1>3. ASSUME d.conn \in DOMAIN sessions
        PROVE  LET s == sessions[d.conn] IN
               s.key = cl.key /\ s.addr = cl.addr /\ s.token = cl.token
    <2>1. d = ServerHello(d.conn, sessions[d.conn])
      BY <1>3, Zenon DEF IInv, HellosTruthful, Truthful
    <2>2. /\ d.key = sessions[d.conn].key /\ d.addr = sessions[d.conn].addr
          /\ d.token = sessions[d.conn].token
      BY <2>1 DEF ServerHello
    <2>. QED
      BY <2>2, Zenon DEF MacMatches
  <1>. QED
    BY <1>2, <1>3, Zenon

(* A ServerHello with the proof of its keys: the client takes the keys. *)
LEMMA ReceiveServerHelloKeeps ==
    ASSUME IInv, NEW d \in net, ClientReceive(d), ReceiveServerHello(d) PROVE IInv'
  <1>. DEFINE ticket == IF Resumption THEN d.conn ELSE 0
  <1>1. /\ UNCHANGED <<serverVars, clockVars>> /\ cl.state # "Idle"
        /\ d.kind = "ServerHello" /\ d.addr = cl.addr
    BY Zenon DEF ClientReceive, ReceiveServerHello
  <1>2. net' \subseteq net
    BY ReceivedSubset, Zenon DEF ReceiveServerHello
  <1>3. CASE Shut /\ UNCHANGED finished
    BY <1>1, <1>2, <1>3, ShutKeeps, Zenon
  <1>4. CASE /\ MacMatches(d)
             /\ cl' = [cl EXCEPT !.state = "Established", !.conn = d.conn,
                                 !.keys = TRUE, !.ticket = ticket]
             /\ cq' = cq \cup {Up("Data", cl.addr, d.conn, cl.key)}
             /\ finished' = finished \cup {d.conn}
    <2>1. /\ d.conn \in 1..Len(made)
          /\ d.conn \in DOMAIN sessions =>
               LET s == sessions[d.conn] IN
               s.key = cl.key /\ s.addr = cl.addr /\ s.token = cl.token
      BY <1>1, <1>4, ServerHelloAgrees, Zenon
    <2>2. ticket \in 0..MaxConns /\ ticket <= Len(made) /\ d.conn \in 0..MaxConns
      BY <2>1, ClientFacts, Bounds
    <2>3. /\ cl' \in ClientType /\ cl'.state = "Established" /\ cl'.keys
          /\ cl'.addr = cl.addr /\ cl'.key = cl.key
          /\ cl'.token = cl.token /\ cl'.ticket = ticket /\ cl'.conn = d.conn
      BY <1>4, <2>2, ClientFacts, Zenon DEF ClientType, States
    <2>4. cl.addr \in Addrs /\ cl.key # 0 /\ cl.key \in 1..MaxAttempts
      BY <1>1, ClientFacts, Bounds DEF ClientSound, ClientType
    <2>5. ClientSound'
      BY <1>1, <1>4, <2>1, <2>2, <2>3, <2>4, ClientFacts DEF serverVars, ClientSound
    <2>6. KeyAgreement'
      BY <1>1, <2>1, <2>3, Zenon DEF serverVars, KeyAgreement
    <2>7. FromClient \subseteq FromClient' /\ Secured' \subseteq FromClient'
      BY <1>1, <1>4, Zenon DEF serverVars, FromClient, Hellos, Secured, PlainCloses
    <2>8. Up("Data", cl.addr, d.conn, cl.key) \in Secured'
      BY <1>4, <2>4, Zenon DEF Up, Secured, Encrypted
    <2>. QED
      BY <1>1, <1>2, <1>4, <2>1, <2>3, <2>5, <2>6, <2>7, <2>8, ClientFacts, ClientStep
  <1>5. CASE /\ MacMatches(d) /\ cl.state = "Handshaking"
             /\ cl' = [cl EXCEPT !.state = "Closed", !.conn = d.conn, !.ticket = ticket]
             /\ cq' = {}
             /\ UNCHANGED finished
    <2>1. d.conn \in 1..Len(made)
      BY <1>1, <1>5, ServerHelloAgrees, Zenon
    <2>2. ticket \in 0..MaxConns /\ ticket <= Len(made) /\ d.conn \in 0..MaxConns
      BY <2>1, ClientFacts, Bounds
    <2>3. /\ cl' \in ClientType /\ cl'.state = "Closed" /\ cl'.keys = cl.keys
          /\ cl'.addr = cl.addr /\ cl'.key = cl.key
          /\ cl'.token = cl.token /\ cl'.ticket = ticket /\ cl'.conn = d.conn
      BY <1>5, <2>2, ClientFacts, Zenon DEF ClientType, States
    <2>4. ClientSound'
      BY <1>1, <1>5, <2>1, <2>2, <2>3, ClientFacts DEF serverVars, ClientSound
    <2>5. KeyAgreement'
      BY <1>1, <2>3, Zenon DEF serverVars, KeyAgreement
    <2>. QED
      BY <1>1, <1>2, <1>5, <2>3, <2>4, <2>5, ClientFacts, ClientStep, Zenon
  <1>. QED
    BY <1>3, <1>4, <1>5, Zenon DEF ReceiveServerHello

(* Every datagram the client receives. *)
LEMMA ClientReceiveKeeps ==
    ASSUME IInv, NEW d \in net, ClientReceive(d) PROVE IInv'
  <1>1. CASE ReceiveSecure(d)
    <2>1. UNCHANGED <<serverVars, clockVars, finished>> /\ cl.state # "Idle"
      BY <1>1, Zenon DEF ClientReceive, ReceiveSecure
    <2>2. net' \subseteq net
      BY <1>1, ReceivedSubset, Zenon DEF ReceiveSecure
    <2>3. CASE UNCHANGED <<cl, cq>>
      <3>1. ClientSound' /\ KeyAgreement' /\ FromClient' = FromClient
        BY <2>1, <2>3, ClientFacts, Zenon
           DEF serverVars, ClientSound, KeyAgreement, FromClient, Hellos, Secured,
               PlainCloses
      <3>. QED
        BY <2>1, <2>2, <2>3, <3>1, ClientFacts, ClientStep, Zenon
    <2>4. CASE Shut
      BY <2>1, <2>2, <2>4, ShutKeeps, Zenon
    <2>. QED
      BY <1>1, <2>3, <2>4, Zenon DEF ReceiveSecure
  <1>. QED
    BY <1>1, ReceiveRetryKeeps, ReceiveServerHelloKeeps, Zenon DEF ClientReceive

-----------------------------------------------------------------------------
(* The server                                                              *)

TokenType == [addr : Addrs, key : 1..MaxAttempts, secret : 0..MaxRestarts]

Frame == [packet : FromServer, owner : 0..Len(made)]

(* A step of the server keeps the invariant if it keeps its tables, sends  *)
(* what was queued and queues only packets a server can make, with         *)
(* truthful server hellos.                                                 *)
LEMMA ServerStep ==
    ASSUME IInv, UNCHANGED clientVars, TypeOK', Follows,
           SessionsSound', EstablishedIsConfirmed', IndexSound', SessionsValidated',
           \A d \in net' : d \in net \/ \E x \in sq : d = x.packet,
           \A x \in sq' : x \in sq \/ (x \in Frame' /\ Truthful(x.packet)')
    PROVE  IInv'
  <1>. USE DEF clientVars
  <1>1. /\ FromClient \subseteq FromClient' /\ FromServer \subseteq FromServer'
        /\ \A x \in Frame : x \in Frame'
        /\ \A d \in FromClient \cup FromServer : Truthful(d) => Truthful(d)'
    BY PacketsLast, Zenon DEF IInv, Frame
  <1>2. /\ net \subseteq FromClient \cup FromServer /\ cq \subseteq FromClient
        /\ sq \subseteq Frame
    BY Zenon DEF IInv, PacketsKnown, Frame
  <1>3. \A x \in sq : x.packet \in FromServer
    BY <1>2, Zenon DEF Frame
  <1>4. PacketsKnown'
    BY <1>1, <1>2, <1>3, Zenon DEF PacketsKnown, Frame
  <1>5. HellosTruthful'
    <2>1. (\A d \in net : Truthful(d)) /\ (\A x \in sq : Truthful(x.packet))
      BY Zenon DEF IInv, HellosTruthful
    <2>. QED
      BY <1>1, <1>2, <1>3, <2>1, Zenon DEF HellosTruthful
  <1>6. ClientSound'
    <2>1. /\ ClientSound /\ cl.token \in Nat /\ cl.ticket \in Nat /\ cl.conn \in Nat
          /\ Len(issued) \in Nat /\ Len(made) \in Nat
      BY ClientFacts DEF ClientType
    <2>. QED
      BY <2>1 DEF ClientSound, Follows
  <1>7. KeyAgreement'
    <2>. SUFFICES ASSUME cl.state = "Established", cl.conn \in (DOMAIN sessions)'
                  PROVE  LET s == sessions'[cl.conn] IN
                         s.key = cl.key /\ s.addr = cl.addr /\ s.token = cl.token
      BY Zenon DEF KeyAgreement
    <2>1. cl.conn \in 1..Len(made)
      BY Zenon DEF IInv, TypeOK, ClientSound
    <2>2. cl.conn \in DOMAIN sessions /\ SameOrigin(sessions'[cl.conn], sessions[cl.conn])
      BY <2>1, Zenon DEF Follows
    <2>. QED
      BY <2>2, Zenon DEF IInv, KeyAgreement, SameOrigin
  <1>. QED
    BY <1>4, <1>5, <1>6, <1>7, Zenon DEF IInv

(* A step that makes no session: the sessions that stay keep what they     *)
(* were opened with.                                                       *)
Carried ==
    \A c \in (DOMAIN sessions)' :
        /\ c \in DOMAIN sessions
        /\ sessions'[c] \in Session /\ SameOrigin(sessions'[c], sessions[c])
        /\ sessions'[c].state = "Established" => c \in finished

(* What the actions of the server start from.                              *)
LEMMA ServerFacts ==
    ASSUME IInv
    PROVE  /\ Len(issued) \in 0..MaxTokens /\ Len(made) \in 0..MaxConns
           /\ issued \in Seq(TokenType) /\ made \in Seq(0..MaxRestarts)
           /\ DOMAIN sessions \subseteq 1..Len(made)
           /\ \A c \in DOMAIN sessions :
                /\ sessions[c] \in Session
                /\ sessions[c].token <= Len(issued) /\ sessions[c].ticket <= Len(made)
                /\ sessions[c].state = "Established" => c \in finished
           /\ index \in [Addrs -> 0..MaxConns] /\ IndexSound
           /\ secret \in 0..MaxRestarts /\ finished \subseteq 1..Len(made)
           /\ net \subseteq FromClient \cup FromServer
  <1>1. Len(issued) \in 0..MaxTokens /\ Len(made) \in 0..MaxConns
    BY Bounds DEF IInv, TypeOK
  <1>2. issued \in Seq(TokenType)
    BY Zenon DEF IInv, TypeOK, TokenType
  <1>3. \A c \in DOMAIN sessions :
            /\ sessions[c] \in Session
            /\ sessions[c].token <= Len(issued) /\ sessions[c].ticket <= Len(made)
            /\ sessions[c].state = "Established" => c \in finished
    BY Zenon DEF IInv, TypeOK, SessionsSound, EstablishedIsConfirmed
  <1>. QED
    BY <1>1, <1>2, <1>3, Zenon DEF IInv, TypeOK, PacketsKnown

(* A retry token or a session may have been made; the others keep their    *)
(* numbers.                                                                *)
TokenMade ==
    \/ UNCHANGED issued
    \/ \E e \in TokenType : issued' = Append(issued, e) /\ Len(issued) < MaxTokens

SessionMade ==
    \/ UNCHANGED made
    \/ made' = Append(made, secret) /\ Len(made) < MaxConns

(* The tokens that were issued stay as they were. *)
LEMMA IssuedKept ==
    ASSUME IInv, TokenMade
    PROVE  /\ issued' \in Seq(TokenType) /\ Len(issued)' \in 0..MaxTokens
           /\ Len(issued) \in Nat /\ Len(issued) <= Len(issued)'
           /\ \A i \in 1..Len(issued) : issued'[i] = issued[i]
  <1>1. issued \in Seq(TokenType) /\ Len(issued) \in 0..MaxTokens /\ MaxTokens \in Nat
    BY ServerFacts, Bounds, Zenon
  <1>2. CASE UNCHANGED issued
    BY <1>1, <1>2
  <1>3. CASE \E e \in TokenType : issued' = Append(issued, e) /\ Len(issued) < MaxTokens
    <2>1. PICK e \in TokenType : issued' = Append(issued, e) /\ Len(issued) < MaxTokens
      BY <1>3, Zenon
    <2>2. /\ Append(issued, e) \in Seq(TokenType)
          /\ Len(Append(issued, e)) = Len(issued) + 1
          /\ \A i \in 1..Len(issued) : Append(issued, e)[i] = issued[i]
      BY <1>1, AppendKeeps, Zenon
    <2>. QED
      BY <1>1, <2>1, <2>2
  <1>. QED
    BY <1>2, <1>3, Zenon DEF TokenMade

(* The connections that were made stay as they were. *)
LEMMA MadeKept ==
    ASSUME IInv, SessionMade
    PROVE  /\ made' \in Seq(0..MaxRestarts) /\ Len(made)' \in 0..MaxConns
           /\ Len(made) \in Nat /\ Len(made) <= Len(made)'
           /\ \A i \in 1..Len(made) : made'[i] = made[i]
  <1>1. /\ made \in Seq(0..MaxRestarts) /\ Len(made) \in 0..MaxConns /\ MaxConns \in Nat
        /\ secret \in 0..MaxRestarts
    BY ServerFacts, Bounds, Zenon
  <1>2. /\ Append(made, secret) \in Seq(0..MaxRestarts)
        /\ Len(Append(made, secret)) = Len(made) + 1
        /\ \A i \in 1..Len(made) : Append(made, secret)[i] = made[i]
    BY <1>1, AppendKeeps, Zenon
  <1>3. CASE UNCHANGED made
    BY <1>1, <1>3
  <1>4. CASE made' = Append(made, secret) /\ Len(made) < MaxConns
    BY <1>1, <1>2, <1>4
  <1>. QED
    BY <1>3, <1>4, Zenon DEF SessionMade

(* What a session was opened with stays valid.                             *)
LEMMA StaysValidated ==
    ASSUME IInv, TokenMade, SessionMade, UNCHANGED secret, NEW c \in DOMAIN sessions,
           NEW s, SameOrigin(s, sessions[c])
    PROVE  \/ /\ s.token # 0
              /\ issued'[s.token] = [addr |-> s.addr, key |-> s.key, secret |-> secret]
           \/ s.ticket # 0 /\ made'[s.ticket] = secret
  <1>1. LET t == sessions[c] IN
          \/ /\ t.token # 0
             /\ issued[t.token] = [addr |-> t.addr, key |-> t.key, secret |-> secret]
          \/ t.ticket # 0 /\ made[t.ticket] = secret
    BY Zenon DEF IInv, SessionsValidated
  <1>2. /\ sessions[c].token # 0 => sessions[c].token \in 1..Len(issued)
        /\ sessions[c].ticket # 0 => sessions[c].ticket \in 1..Len(made)
    BY ServerFacts DEF Session
  <1>3. /\ sessions[c].token # 0 => issued'[sessions[c].token] = issued[sessions[c].token]
        /\ sessions[c].ticket # 0 => made'[sessions[c].ticket] = made[sessions[c].ticket]
    BY <1>2, IssuedKept, MadeKept, Zenon
  <1>4. /\ s.addr = sessions[c].addr /\ s.key = sessions[c].key
        /\ s.token = sessions[c].token /\ s.ticket = sessions[c].ticket
    BY Zenon DEF SameOrigin
  <1>. QED
    BY <1>1, <1>3, <1>4, Zenon

(* A server step that leaves its sessions where they came from, queues     *)
(* frames that tell the truth and keeps the index sound.                   *)
LEMMA CarriedKeeps ==
    ASSUME IInv, UNCHANGED <<clientVars, clockVars, secret>>, Carried,
           TokenMade, SessionMade, index' \in [Addrs -> 0..MaxConns], IndexSound',
           \A d \in net' : d \in net \/ \E x \in sq : d = x.packet,
           \A x \in sq' : x \in sq \/ (x \in Frame' /\ Truthful(x.packet)')
    PROVE  IInv'
  <1>. USE DEF clientVars, clockVars
  <1>1. /\ issued' \in Seq(TokenType) /\ Len(issued)' \in 0..MaxTokens
        /\ Len(issued) \in Nat /\ Len(issued) <= Len(issued)'
    BY IssuedKept, Zenon
  <1>2. /\ made' \in Seq(0..MaxRestarts) /\ Len(made)' \in 0..MaxConns
        /\ Len(made) \in Nat /\ Len(made) <= Len(made)'
    BY MadeKept, Zenon
  <1>3. Follows
    BY <1>1, <1>2, ServerFacts DEF Follows, Carried
  <1>4. TypeOK'
    <2>1. (DOMAIN sessions)' \subseteq 1..Len(made)' /\ finished' \subseteq 1..Len(made)'
      BY <1>2, ServerFacts DEF Carried
    <2>2. staleToken' \in 0..Len(issued)' /\ staleTicket' \in 0..Len(made)'
      BY <1>1, <1>2 DEF IInv, TypeOK
    <2>3. \A c \in (DOMAIN sessions)' : sessions'[c] \in Session
      BY Zenon DEF Carried
    <2>. QED
      BY <1>1, <1>2, <2>1, <2>2, <2>3 DEF IInv, TypeOK, TokenType
  <1>5. SessionsSound' /\ EstablishedIsConfirmed'
    BY <1>1, <1>2, ServerFacts
       DEF Carried, SameOrigin, SessionsSound, EstablishedIsConfirmed, Session
  <1>6. SessionsValidated'
    BY StaysValidated, Zenon DEF Carried, SessionsValidated
  <1>. QED
    BY <1>3, <1>4, <1>5, <1>6, ServerStep, Zenon

(* A session that changes its state, or has sent something, is the session *)
(* it was.                                                                 *)
LEMMA StateChanged ==
    ASSUME NEW s \in Session, NEW state \in States \ {"Idle"}
    PROVE  /\ [s EXCEPT !.state = state] \in Session
           /\ [s EXCEPT !.state = state].state = state
           /\ SameOrigin([s EXCEPT !.state = state], s)
  BY Zenon DEF Session, SameOrigin

(* The note that a packet of the session went out changes nothing else. *)
LEMMA SentChanged ==
    ASSUME NEW s \in Session, NEW b \in BOOLEAN
    PROVE  /\ [s EXCEPT !.sent = b] \in Session
           /\ [s EXCEPT !.sent = b].state = s.state
           /\ SameOrigin([s EXCEPT !.sent = b], s)
  BY Zenon DEF Session, SameOrigin

(* Sessions that change their state keep where they came from. *)
LEMMA InStateCarries ==
    ASSUME IInv, NEW C, NEW state \in States \ {"Idle"}, sessions' = InState(C, state),
           UNCHANGED finished, state = "Established" => C \subseteq finished
    PROVE  Carried /\ (DOMAIN sessions)' = DOMAIN sessions
  <1>1. (DOMAIN sessions)' = DOMAIN sessions
    BY Zenon DEF InState
  <1>2. ASSUME NEW c \in DOMAIN sessions
        PROVE  /\ sessions'[c] \in Session /\ SameOrigin(sessions'[c], sessions[c])
               /\ sessions'[c].state = "Established" => c \in finished
    <2>1. /\ sessions[c] \in Session
          /\ sessions[c].state = "Established" => c \in finished
      BY ServerFacts, Zenon
    <2>2. CASE c \in C
      <3>1. sessions'[c] = [sessions[c] EXCEPT !.state = state]
        BY <2>2, Zenon DEF InState
      <3>. QED
        BY <2>1, <2>2, <3>1, StateChanged
    <2>3. CASE c \notin C
      BY <2>1, <2>3, Zenon DEF InState, SameOrigin
    <2>. QED
      BY <2>2, <2>3, Zenon
  <1>. QED
    BY <1>1, <1>2, Zenon DEF Carried

(* The endpoint index stays right when no session leaves ...               *)
LEMMA IndexStays ==
    ASSUME IInv, Carried, (DOMAIN sessions)' = DOMAIN sessions, UNCHANGED index
    PROVE  index' \in [Addrs -> 0..MaxConns] /\ IndexSound'
  BY ServerFacts, Zenon DEF Carried, SameOrigin, IndexSound, IndexAgrees

(* ... and when evict_session takes the entry of each that does.           *)
LEMMA IndexPruned ==
    ASSUME IInv, Carried, NEW gone \in SUBSET DOMAIN sessions,
           (DOMAIN sessions)' = DOMAIN sessions \ gone, index' = IndexWithout(gone)
    PROVE  index' \in [Addrs -> 0..MaxConns] /\ IndexSound'
  <1>1. index \in [Addrs -> 0..MaxConns] /\ IndexSound /\ 0 \in 0..MaxConns
    BY ServerFacts, Bounds
  <1>2. \A c \in DOMAIN sessions : sessions[c].addr \in Addrs
    BY ServerFacts, Zenon DEF Session
  <1>3. index' \in [Addrs -> 0..MaxConns]
    BY <1>1, Zenon DEF IndexWithout
  <1>4. ASSUME NEW c \in (DOMAIN sessions)' PROVE index'[sessions'[c].addr] = c
    <2>1. c \in DOMAIN sessions \ gone /\ sessions'[c].addr = sessions[c].addr
      BY Zenon DEF Carried, SameOrigin
    <2>2. \A e \in gone : sessions[e].addr # sessions[c].addr
      BY <1>1, <2>1 DEF IndexSound, IndexAgrees
    <2>. QED
      BY <1>1, <1>2, <2>1, <2>2, Zenon DEF IndexWithout, IndexSound, IndexAgrees
  <1>5. ASSUME NEW a \in Addrs, index'[a] # 0 
        PROVE  index'[a] \in (DOMAIN sessions)' /\ sessions'[index'[a]].addr = a
    <2>1. index'[a] = index[a] /\ \A e \in gone : sessions[e].addr # a
      BY <1>5, Zenon DEF IndexWithout
    <2>2. index[a] \in DOMAIN sessions /\ sessions[index[a]].addr = a
      BY <1>1, <1>5, <2>1, Zenon DEF IndexSound, IndexAgrees
    <2>3. index'[a] \in (DOMAIN sessions)'
      BY <2>1, <2>2, Zenon
    <2>. QED
      BY <2>1, <2>2, <2>3, Zenon DEF Carried, SameOrigin
  <1>. QED
    BY <1>3, <1>4, <1>5, Zenon DEF IndexSound, IndexAgrees

(* A packet the server reads is one a client made.                         *)
LEMMA UpPackets ==
    ASSUME IInv, NEW d \in net, d.dir = "up"
    PROVE  /\ d.kind = "ClientHello" => d \in Hellos
           /\ d.kind \in Encrypted => d \in Secured
  BY ServerFacts, Zenon DEF FromClient, Hellos, Secured, PlainCloses, Encrypted, FromServer,
                     Retries, ServerHellos, SessionFrames

(* Queueing anything but a server hello.                                   *)
LEMMA FrameQueued ==
    ASSUME NEW p, p \in FromServer', p.kind # "ServerHello", NEW owner,
           owner \in 0..Len(made)', sq' \in Queued(p, owner)
    PROVE  \A x \in sq' : x \in sq \/ (x \in Frame' /\ Truthful(x.packet)')
  <1>1. sq' \subseteq sq \cup {Owned(p, owner)}
    BY QueuedSubset, Zenon
  <1>2. Owned(p, owner) \in Frame' /\ Owned(p, owner).packet = p
    BY Zenon DEF Owned, Frame
  <1>3. Truthful(p)'
    BY Zenon DEF Truthful
  <1>. QED
    BY <1>1, <1>2, <1>3, Zenon

(* A frame of a session is a packet of the server, and no hello. *)
LEMMA DownFrame ==
    ASSUME NEW kind \in {"Data", "Close", "PlainClose"}, NEW a \in Addrs,
           NEW c \in 0..Len(made), NEW k \in 0..MaxAttempts, UNCHANGED made
    PROVE  Down(kind, a, c, k) \in FromServer' /\ Down(kind, a, c, k).kind # "ServerHello"
  <1>1. Down(kind, a, c, k) \in SessionFrames'
    BY Zenon DEF Down, SessionFrames
  <1>. QED
    BY <1>1, Zenon DEF FromServer, SessionFrames

(* Without(C) is evict_session of each of C.                               *)
LEMMA WithoutCarries ==
    ASSUME IInv, NEW C, sessions' = Without(C), UNCHANGED finished
    PROVE  Carried /\ (DOMAIN sessions)' = DOMAIN sessions \ C
  BY ServerFacts, Zenon DEF Without, Carried, SameOrigin

(* The same sessions come from where they came. *)
LEMMA UnchangedCarries ==
    ASSUME IInv, UNCHANGED <<sessions, finished>>
    PROVE  Carried /\ (DOMAIN sessions)' = DOMAIN sessions
  BY ServerFacts, Zenon DEF Carried, SameOrigin

(* A hello without a token that holds: the server only issues one. *)
LEMMA AskRetryKeeps ==
    ASSUME IInv, NEW d \in Hellos, AskRetry(d), net' \subseteq net,
           UNCHANGED <<secret, clientVars, clockVars>>
    PROVE  IInv'
  <1>. DEFINE e == [addr |-> d.addr, key |-> d.key, secret |-> secret]
  <1>1. UNCHANGED <<sessions, index, made, finished>>
    BY Zenon DEF AskRetry, clientVars
  <1>2. e \in TokenType /\ issued' = Append(issued, e) /\ Len(issued) < MaxTokens
    BY ServerFacts, Zenon DEF AskRetry, TokenType, Hellos
  <1>. HIDE DEF e
  <1>3. Len(issued)' = Len(issued) + 1 /\ Len(issued) \in Nat /\ Len(made) \in Nat
    BY <1>2, ServerFacts, AppendKeeps, Zenon
  <1>4. Retry(d.addr, Len(issued) + 1) \in Retries'
    BY <1>3 DEF Retry, Retries, Hellos
  <1>5. /\ Retry(d.addr, Len(issued) + 1) \in FromServer'
        /\ Retry(d.addr, Len(issued) + 1).kind # "ServerHello"
    BY <1>4, Zenon DEF FromServer, Retries
  <1>6. 0 \in 0..Len(made)'
    BY <1>1, <1>3
  <1>7. \A x \in sq' : x \in sq \/ (x \in Frame' /\ Truthful(x.packet)')
    BY <1>5, <1>6, FrameQueued, Zenon DEF AskRetry
  <1>8. Carried /\ (DOMAIN sessions)' = DOMAIN sessions
    BY <1>1, UnchangedCarries, Zenon
  <1>. QED
    BY <1>1, <1>2, <1>7, <1>8, IndexStays, CarriedKeeps, Zenon DEF TokenMade, SessionMade

(* A stateless answer with PlainClose, which leaves the tables in step.    *)
LEMMA PlainCloseKeeps ==
    ASSUME IInv, NEW a \in Addrs, NEW c \in 0..Len(made), net' \subseteq net,
           sq' \in Queued(Down("PlainClose", a, c, 0), 0), Carried,
           index' \in [Addrs -> 0..MaxConns], IndexSound',
           UNCHANGED <<secret, issued, made, clientVars, clockVars>>
    PROVE  IInv'
  <1>1. 0 \in 0..Len(made)' /\ 0 \in 0..MaxAttempts
    BY ServerFacts, Bounds
  <1>2. /\ Down("PlainClose", a, c, 0) \in FromServer'
        /\ Down("PlainClose", a, c, 0).kind # "ServerHello"
    BY <1>1, DownFrame, Zenon
  <1>3. \A x \in sq' : x \in sq \/ (x \in Frame' /\ Truthful(x.packet)')
    BY <1>1, <1>2, FrameQueued, Zenon
  <1>. QED
    BY <1>3, CarriedKeeps, Zenon DEF TokenMade, SessionMade

(* A hello with an expired token is answered by a plain Close. *)
LEMMA CookieExpiredKeeps ==
    ASSUME IInv, NEW d \in Hellos, CookieExpired(d), net' \subseteq net,
           UNCHANGED <<secret, clientVars, clockVars>>
    PROVE  IInv'
  <1>1. d.addr \in Addrs /\ 0 \in 0..Len(made)
    BY ServerFacts DEF Hellos
  <1>2. UNCHANGED <<sessions, index, issued, made, finished>>
    BY Zenon DEF CookieExpired, clientVars
  <1>3. Carried /\ (DOMAIN sessions)' = DOMAIN sessions
    BY <1>2, UnchangedCarries, Zenon
  <1>. QED
    BY <1>1, <1>2, <1>3, IndexStays, PlainCloseKeeps, Zenon DEF CookieExpired

(* A hello the server has no room for: only stale sessions go. *)
LEMMA RefuseKeeps ==
    ASSUME IInv, NEW d \in Hellos, NEW drained, Refuse(d, drained), net' \subseteq net,
           UNCHANGED <<secret, clientVars, clockVars>>
    PROVE  IInv'
  <1>1. d.addr \in Addrs /\ 0 \in 0..Len(made)
    BY ServerFacts DEF Hellos
  <1>2. /\ sessions' = Without(Stale(drained)) /\ index' = IndexWithout(Stale(drained))
        /\ Stale(drained) \in SUBSET DOMAIN sessions
        /\ UNCHANGED <<issued, made, finished>>
        /\ sq' \in Queued(Down("PlainClose", d.addr, 0, 0), 0)
    BY Zenon DEF Refuse, Stale, clientVars
  <1>3. Carried /\ (DOMAIN sessions)' = DOMAIN sessions \ Stale(drained)
    BY <1>2, WithoutCarries, Zenon
  <1>. QED
    BY <1>1, <1>2, <1>3, IndexPruned, PlainCloseKeeps, Zenon

(* The session a validated hello opens. *)
LEMMA NewSessionSound ==
    ASSUME IInv, NEW d \in Hellos, Validated(d)
    PROVE  LET s == NewSession(d) IN
           /\ s \in Session /\ s.state = "Handshaking" /\ s.addr = d.addr
           /\ s.token \in 0..Len(issued) /\ s.ticket \in 0..Len(made)
           /\ \/ /\ s.token # 0
                 /\ issued[s.token] = [addr |-> s.addr, key |-> s.key, secret |-> secret]
              \/ s.ticket # 0 /\ made[s.ticket] = secret
  <1>. DEFINE s == NewSession(d)
  <1>1. /\ d.addr \in Addrs /\ d.key \in 1..MaxAttempts
        /\ d.token \in 0..Len(issued) /\ d.ticket \in 0..Len(made)
        /\ Len(issued) \in 0..MaxTokens /\ Len(made) \in 0..MaxConns
    BY ServerFacts, Zenon DEF Hellos
  <1>2. /\ s.state = "Handshaking" /\ s.addr = d.addr /\ s.key = d.key
        /\ s.token = IF Resumes(d) THEN 0 ELSE d.token
        /\ s.ticket = IF Resumes(d) THEN d.ticket ELSE 0
    BY Zenon DEF NewSession
  <1>3. s.token \in 0..Len(issued) /\ s.ticket \in 0..Len(made)
    BY <1>1, <1>2
  <1>4. s \in Session
    <2>1. /\ (IF Resumes(d) THEN 0 ELSE d.token) \in 0..MaxTokens
          /\ (IF Resumes(d) THEN d.ticket ELSE 0) \in 0..MaxConns
      BY <1>1, Bounds
    <2>. QED
      BY <1>1, <2>1, Zenon DEF NewSession, Session, States
  <1>5. CASE Resumes(d)
    BY <1>1, <1>2, <1>3, <1>4, <1>5, Zenon DEF Resumes
  <1>6. CASE ~Resumes(d)
    <2>1. d.token # 0 /\ Genuine(d)
      <3>1. staleToken \in Nat
        BY DEF IInv, TypeOK
      <3>. QED
        BY <1>1, <1>6, <3>1 DEF Validated
    <2>. QED
      BY <1>2, <1>3, <1>4, <1>6, <2>1, Zenon DEF Genuine
  <1>. QED
    BY <1>5, <1>6, Zenon

(* The table with a new session in it, and the index that finds it.        *)
LEMMA AcceptedIndex ==
    ASSUME IInv, NEW a \in Addrs, NEW conn, conn = Len(made) + 1, conn \in 0..MaxConns,
           NEW gone \in SUBSET DOMAIN sessions, {index[a]} \cap DOMAIN sessions \subseteq gone,
           (DOMAIN sessions)' = (DOMAIN sessions \ gone) \cup {conn},
           \A c \in DOMAIN sessions \ gone : sessions'[c] = sessions[c],
           sessions'[conn].addr = a,
           index' = [IndexWithout(gone) EXCEPT ![a] = conn]
    PROVE  index' \in [Addrs -> 0..MaxConns] /\ IndexSound'
  <1>1. index \in [Addrs -> 0..MaxConns] /\ IndexSound /\ 0 \in 0..MaxConns
    BY ServerFacts, Bounds
  <1>2. \A c \in DOMAIN sessions : sessions[c].addr \in Addrs /\ c \in 1..Len(made)
    BY ServerFacts, Zenon DEF Session
  <1>3. conn \notin DOMAIN sessions /\ conn # 0
    BY <1>2, ServerFacts
  <1>4. IndexWithout(gone) \in [Addrs -> 0..MaxConns]
    BY <1>1, Zenon DEF IndexWithout
  <1>5. /\ index' \in [Addrs -> 0..MaxConns] /\ index'[a] = conn
        /\ \A b \in Addrs \ {a} : index'[b] = IndexWithout(gone)[b]
    BY <1>4, Zenon
  <1>6. ASSUME NEW c \in DOMAIN sessions \ gone
        PROVE  /\ sessions[c].addr # a
               /\ index'[sessions[c].addr] = c
    <2>1. index[sessions[c].addr] = c
      BY <1>1, Zenon DEF IndexSound, IndexAgrees
    <2>2. sessions[c].addr # a
      BY <2>1, Zenon
    <2>3. \A e \in gone : sessions[e].addr # sessions[c].addr
      BY <1>1, <2>1 DEF IndexSound, IndexAgrees
    <2>. QED
      BY <1>2, <1>5, <2>1, <2>2, <2>3, Zenon DEF IndexWithout
  <1>7. \A c \in (DOMAIN sessions)' : index'[sessions'[c].addr] = c
    BY <1>5, <1>6, Zenon
  <1>8. ASSUME NEW b \in Addrs, index'[b] # 0
        PROVE  index'[b] \in (DOMAIN sessions)' /\ sessions'[index'[b]].addr = b
    <2>1. CASE b = a
      BY <1>5, <2>1, Zenon
    <2>2. CASE b # a
      <3>1. index'[b] = index[b] /\ \A e \in gone : sessions[e].addr # b
        BY <1>5, <1>8, <2>2, Zenon DEF IndexWithout
      <3>2. index[b] \in DOMAIN sessions /\ sessions[index[b]].addr = b
        BY <1>1, <1>8, <3>1, Zenon DEF IndexSound, IndexAgrees
      <3>. QED
        BY <3>1, <3>2, Zenon
    <2>. QED
      BY <2>1, <2>2, Zenon
  <1>. QED
    BY <1>5, <1>7, <1>8, Zenon DEF IndexSound, IndexAgrees

(* A hello with a valid token: the new session has the key of that hello,  *)
(* and replaces what its address had.                                      *)
LEMMA AcceptKeeps ==
    ASSUME IInv, NEW d \in Hellos, NEW drained, Accept(d, drained), net' \subseteq net,
           UNCHANGED <<secret, clientVars, clockVars>>
    PROVE  IInv'
  <1>. DEFINE gone == Stale(drained) \cup Replaced(d)
              conn == Len(made) + 1
              s == NewSession(d)
  <1>. USE DEF clientVars, clockVars
  <1>1. /\ gone \in SUBSET DOMAIN sessions
        /\ {index[d.addr]} \cap DOMAIN sessions \subseteq gone
        /\ d.addr \in Addrs
    BY Zenon DEF Stale, Replaced, Hellos
  <1>2. /\ s \in Session /\ s.state = "Handshaking" /\ s.addr = d.addr
        /\ s.token \in 0..Len(issued) /\ s.ticket \in 0..Len(made)
        /\ \/ /\ s.token # 0
              /\ issued[s.token] = [addr |-> s.addr, key |-> s.key, secret |-> secret]
           \/ s.ticket # 0 /\ made[s.ticket] = secret
    BY NewSessionSound, Zenon DEF Accept
  <1>3. /\ UNCHANGED issued /\ made' = Append(made, secret) /\ Len(made) < MaxConns
        /\ TokenMade /\ SessionMade
    BY Zenon DEF Accept, TokenMade, SessionMade
  <1>4. /\ made' \in Seq(0..MaxRestarts) /\ Len(made)' = conn /\ Len(made) \in Nat
        /\ conn \in 0..MaxConns /\ \A i \in 1..Len(made) : made'[i] = made[i]
    BY <1>3, ServerFacts, AppendKeeps, Bounds
  <1>5. conn \notin DOMAIN sessions
    BY <1>4, ServerFacts
  <1>6. CASE /\ sessions' = [c \in (DOMAIN sessions \ gone) \cup {conn} |->
                                IF c = conn THEN s ELSE sessions[c]]
             /\ index' = [IndexWithout(gone) EXCEPT ![d.addr] = conn]
             /\ sq' \in Enqueued(ServerHello(conn, s), conn)
    <2>. HIDE DEF gone, conn, s
    <2>1. /\ (DOMAIN sessions)' = (DOMAIN sessions \ gone) \cup {conn}
          /\ sessions'[conn] = s
          /\ \A c \in DOMAIN sessions \ gone : sessions'[c] = sessions[c]
      BY <1>5, <1>6, Zenon
    <2>2. index' \in [Addrs -> 0..MaxConns] /\ IndexSound'
      BY <1>1, <1>2, <1>4, <1>6, <2>1, AcceptedIndex, Zenon DEF conn
    <2>3. Follows
      BY <1>3, <1>4, <1>5, <2>1, ServerFacts DEF Follows, SameOrigin, conn
    <2>4. TypeOK'
      <3>1. \A c \in (DOMAIN sessions)' : sessions'[c] \in Session
        BY <1>2, <2>1, ServerFacts, Zenon
      <3>2. (DOMAIN sessions)' \subseteq 1..Len(made)' /\ finished' \subseteq 1..Len(made)'
        BY <1>4, <2>1, ServerFacts DEF conn
      <3>3. staleTicket' \in 0..Len(made)' /\ Len(made)' <= MaxConns
        BY <1>4, Bounds DEF IInv, TypeOK, conn
      <3>. QED
        BY <1>3, <1>4, <2>2, <3>1, <3>2, <3>3, Zenon DEF IInv, TypeOK
    <2>5. SessionsSound' /\ EstablishedIsConfirmed'
      <3>1. ASSUME NEW c \in (DOMAIN sessions)'
            PROVE  /\ sessions'[c].token <= Len(issued)' /\ sessions'[c].ticket <= Len(made)'
                   /\ sessions'[c].state = "Established" => c \in finished
        <4>1. CASE c = conn
          BY <1>2, <1>3, <1>4, <2>1, <4>1 DEF conn
        <4>2. CASE c # conn
          BY <1>3, <1>4, <2>1, <4>2, ServerFacts DEF conn, Session
        <4>. QED
          BY <4>1, <4>2, Zenon
      <3>. QED
        BY <3>1, Zenon DEF SessionsSound, EstablishedIsConfirmed
    <2>6. SessionsValidated'
      <3>. SUFFICES ASSUME NEW c \in (DOMAIN sessions)'
                    PROVE  LET t == sessions'[c] IN
                      \/ /\ t.token # 0
                         /\ issued'[t.token]
                              = [addr |-> t.addr, key |-> t.key, secret |-> secret]
                      \/ t.ticket # 0 /\ made'[t.ticket] = secret
        BY Zenon DEF SessionsValidated
      <3>1. CASE c = conn
        <4>1. s.ticket # 0 => made'[s.ticket] = made[s.ticket]
          BY <1>2, <1>4
        <4>. QED
          BY <1>2, <1>3, <2>1, <3>1, <4>1, Zenon
      <3>2. CASE c # conn
        <4>1. c \in DOMAIN sessions /\ SameOrigin(sessions'[c], sessions[c])
          BY <2>1, <3>2, Zenon DEF SameOrigin
        <4>. QED
          BY <1>3, <4>1, StaysValidated, Zenon
      <3>. QED
        BY <3>1, <3>2, Zenon
    <2>7. ASSUME NEW x \in sq' PROVE x \in sq \/ (x \in Frame' /\ Truthful(x.packet)')
      <3>. SUFFICES ASSUME x = Owned(ServerHello(conn, s), conn)
                    PROVE  x \in Frame' /\ Truthful(x.packet)'
        BY <1>6, QueuedSubset, Zenon DEF Queued
      <3>1. x.packet = ServerHello(conn, s) /\ x.owner = conn
        BY Zenon DEF Owned
      <3>2. ServerHello(conn, s) \in ServerHellos'
        BY <1>2, <1>3, <1>4 DEF ServerHello, ServerHellos, Session, conn
      <3>3. x \in Frame'
        <4>1. conn \in 0..Len(made)'
          BY <1>4
        <4>. QED
          BY <3>2, <4>1, Zenon DEF Owned, Frame, FromServer
      <3>4. Truthful(x.packet)'
        BY <2>1, <3>1 DEF Truthful, ServerHello
      <3>. QED
        BY <3>3, <3>4, Zenon
    <2>. QED
      BY <2>2, <2>3, <2>4, <2>5, <2>6, <2>7, ServerStep, Zenon
  <1>7. CASE /\ sessions' = Without(gone)
             /\ index' = [IndexWithout(gone) EXCEPT ![d.addr] = 0]
             /\ UNCHANGED sq
    <2>. HIDE DEF gone, conn, s
    <2>1. Carried /\ (DOMAIN sessions)' = DOMAIN sessions \ gone
      BY <1>7, WithoutCarries, Zenon
    <2>2. index' = IndexWithout(gone)
      <3>1. IndexWithout(gone)[d.addr] = 0
        <4>1. index[d.addr] # 0 =>
                index[d.addr] \in gone /\ sessions[index[d.addr]].addr = d.addr
          BY <1>1, ServerFacts, Zenon DEF IndexSound, IndexAgrees
        <4>. QED
          BY <1>1, <4>1, Zenon DEF IndexWithout
      <3>. QED
        BY <1>1, <1>7, <3>1, Zenon DEF IndexWithout
    <2>. QED
      BY <1>1, <1>3, <1>7, <2>1, <2>2, IndexPruned, CarriedKeeps, Zenon
  <1>. QED
    BY <1>6, <1>7, Zenon DEF Accept

(* A step that changes the state of sessions and queues frames for them.   *)
LEMMA SessionStep ==
    ASSUME IInv, Carried, (DOMAIN sessions)' = DOMAIN sessions,
           UNCHANGED <<index, secret, issued, made, clientVars, clockVars>>,
           \A d \in net' : d \in net \/ \E x \in sq : d = x.packet,
           \A x \in sq' : x \in sq \/ (x \in Frame' /\ Truthful(x.packet)')
    PROVE  IInv'
  BY IndexStays, CarriedKeeps, Zenon DEF TokenMade, SessionMade

(* The frames of a session: keepalives, and its close frame.               *)
LEMMA SessionFrame ==
    ASSUME IInv, UNCHANGED made, NEW c \in DOMAIN sessions
    PROVE  /\ KeepaliveOf(c) \in FromServer' /\ KeepaliveOf(c).kind # "ServerHello"
           /\ CloseFrameOf(c) \in FromServer' /\ CloseFrameOf(c).kind # "ServerHello"
           /\ Owned(KeepaliveOf(c), c) \in Frame' /\ Owned(CloseFrameOf(c), c) \in Frame'
           /\ c \in 0..Len(made)'
  <1>1. /\ sessions[c].addr \in Addrs /\ sessions[c].key \in 0..MaxAttempts
        /\ c \in 0..Len(made)
    <2>1. sessions[c] \in Session /\ c \in 1..Len(made)
      BY ServerFacts, Zenon
    <2>. QED
      BY <2>1, Bounds DEF Session
  <1>2. /\ KeepaliveOf(c) \in FromServer' /\ KeepaliveOf(c).kind # "ServerHello"
        /\ CloseFrameOf(c) \in FromServer' /\ CloseFrameOf(c).kind # "ServerHello"
    <2>1. PICK kind \in {"Data", "Close", "PlainClose"} :
                CloseFrameOf(c) = Down(kind, sessions[c].addr, c, sessions[c].key)
      BY Zenon DEF CloseFrameOf
    <2>2. KeepaliveOf(c) = Down("Data", sessions[c].addr, c, sessions[c].key)
      BY Zenon DEF KeepaliveOf
    <2>. QED
      BY <1>1, <2>1, <2>2, DownFrame
  <1>3. Owned(KeepaliveOf(c), c) \in Frame' /\ Owned(CloseFrameOf(c), c) \in Frame'
    BY <1>1, <1>2, Zenon DEF Owned, Frame
  <1>. QED
    BY <1>1, <1>2, <1>3, Zenon

(* The first authenticated packet: whoever made it has finished the        *)
(* handshake.                                                              *)
LEMMA SessionDataKeeps ==
    ASSUME IInv, NEW d \in Secured, SessionData(d), net' \subseteq net,
           UNCHANGED <<index, issued, made, secret, clientVars, clockVars>>
    PROVE  IInv'
  <1>1. d.conn \in finished /\ UNCHANGED <<finished, sq>>
    BY Zenon DEF Secured, SessionData, clientVars
  <1>2. Carried /\ (DOMAIN sessions)' = DOMAIN sessions
    <2>1. CASE sessions' = InState({d.conn}, "Established")
      BY <1>1, <2>1, InStateCarries, Zenon DEF States
    <2>2. CASE UNCHANGED sessions
      BY <1>1, <2>2, UnchangedCarries, Zenon
    <2>. QED
      BY <2>1, <2>2, Zenon DEF SessionData
  <1>. QED
    BY <1>1, <1>2, SessionStep, Zenon

(* A Close of the peer. *)
LEMMA SessionCloseKeeps ==
    ASSUME IInv, NEW d \in Secured, SessionClose(d), net' \subseteq net,
           UNCHANGED <<index, issued, made, secret, clientVars, clockVars>>
    PROVE  IInv'
  <1>1. /\ d.conn \in DOMAIN sessions /\ d.addr \in Addrs /\ d.key \in 0..MaxAttempts
        /\ d.conn \in 0..Len(made)
    BY ServerFacts, Bounds DEF Secured, SessionClose, Known
  <1>2. Carried /\ (DOMAIN sessions)' = DOMAIN sessions
    <2>1. \E state \in {"Closing", "Closed"} : sessions' = InState({d.conn}, state)
      BY Zenon DEF SessionClose
    <2>. QED
      BY <2>1, InStateCarries, Zenon DEF States, clientVars
  <1>3. \A x \in sq' : x \in sq \/ (x \in Frame' /\ Truthful(x.packet)')
    <2>1. /\ Down("Close", d.addr, d.conn, d.key) \in FromServer'
          /\ Down("Close", d.addr, d.conn, d.key).kind # "ServerHello"
      BY <1>1, DownFrame, Zenon
    <2>2. UNCHANGED sq \/ sq' \in Queued(Down("Close", d.addr, d.conn, d.key), d.conn)
      BY Zenon DEF SessionClose
    <2>. QED
      BY <1>1, <2>1, <2>2, FrameQueued, Zenon
  <1>. QED
    BY <1>2, <1>3, SessionStep, Zenon

(* A secured packet for no session is answered by a plain Close. *)
LEMMA UnknownConnectionKeeps ==
    ASSUME IInv, NEW d \in Secured, UnknownConnection(d), net' \subseteq net,
           UNCHANGED <<index, issued, made, secret, clientVars, clockVars>>
    PROVE  IInv'
  <1>1. d.addr \in Addrs /\ d.conn \in 0..Len(made)
    BY ServerFacts DEF Secured
  <1>2. UNCHANGED <<sessions, finished>>
    BY Zenon DEF UnknownConnection, clientVars
  <1>3. Carried /\ (DOMAIN sessions)' = DOMAIN sessions
    BY <1>2, UnchangedCarries, Zenon
  <1>. QED
    BY <1>1, <1>3, IndexStays, PlainCloseKeeps, Zenon DEF UnknownConnection

(* Every datagram the server receives. *)
LEMMA ServerReceiveKeeps ==
    ASSUME IInv, NEW d \in net, ServerReceive(d) PROVE IInv'
  <1>1. net' \subseteq net /\ UNCHANGED <<secret, clientVars, clockVars>> /\ d.dir = "up"
    BY ReceivedSubset, Zenon DEF ServerReceive
  <1>2. CASE ServerReceiveHello(d)
    <2>1. d \in Hellos
      BY <1>1, <1>2, UpPackets, Zenon DEF ServerReceiveHello
    <2>. QED
      BY <1>1, <1>2, <2>1, AskRetryKeeps, CookieExpiredKeeps, RefuseKeeps, AcceptKeeps, Zenon
         DEF ServerReceiveHello
  <1>3. CASE /\ d.kind \in Encrypted
             /\ UnknownConnection(d) \/ SessionData(d) \/ SessionClose(d)
             /\ UNCHANGED <<index, issued, made>>
    <2>1. d \in Secured
      BY <1>1, <1>3, UpPackets, Zenon
    <2>. QED
      BY <1>1, <1>3, <2>1, UnknownConnectionKeeps, SessionDataKeeps, SessionCloseKeeps, Zenon
  <1>4. CASE UNCHANGED <<sessions, index, sq, issued, made>>
    BY <1>1, <1>4, UnchangedCarries, SessionStep, Zenon DEF clientVars
  <1>. QED
    BY <1>2, <1>3, <1>4, Zenon DEF ServerReceive

(* A frame the server's application sends. *)
LEMMA ServerSendKeeps ==
    ASSUME IInv, NEW c \in DOMAIN sessions, ServerSend(c) PROVE IInv'
  <1>1. UNCHANGED <<sessions, index, secret, issued, made, clientVars, clockVars, net>>
    BY Zenon DEF ServerSend
  <1>2. Carried /\ (DOMAIN sessions)' = DOMAIN sessions
    BY <1>1, UnchangedCarries, Zenon DEF clientVars
  <1>3. Owned(KeepaliveOf(c), c) \in Frame' /\ KeepaliveOf(c).kind # "ServerHello"
    BY <1>1, SessionFrame, Zenon
  <1>4. Owned(KeepaliveOf(c), c).packet = KeepaliveOf(c)
    BY Zenon DEF Owned
  <1>5. ASSUME NEW x \in sq' PROVE x \in sq \/ (x \in Frame' /\ Truthful(x.packet)')
    <2>1. x \in sq \/ (x \in Frame' /\ x.packet.kind # "ServerHello")
      BY <1>3, <1>4, Zenon DEF ServerSend
    <2>. QED
      BY <2>1, Zenon DEF Truthful
  <1>. QED
    BY <1>1, <1>2, <1>5, SessionStep, Zenon

(* close_peer. *)
LEMMA ClosePeerKeeps ==
    ASSUME IInv, NEW c \in DOMAIN sessions, ClosePeer(c) PROVE IInv'
  <1>1. /\ sessions' = InState({c}, "Closing")
        /\ UNCHANGED <<index, secret, issued, made, clientVars, clockVars, net>>
        /\ sq' \in Queued(CloseFrameOf(c), c)
    BY Zenon DEF ClosePeer
  <1>2. Carried /\ (DOMAIN sessions)' = DOMAIN sessions
    BY <1>1, InStateCarries, Zenon DEF States, clientVars
  <1>3. \A x \in sq' : x \in sq \/ (x \in Frame' /\ Truthful(x.packet)')
    BY <1>1, SessionFrame, FrameQueued, Zenon
  <1>. QED
    BY <1>1, <1>2, <1>3, SessionStep, Zenon

(* A queued packet goes out, or is thrown away without its session. *)
LEMMA ServerFlushKeeps ==
    ASSUME IInv, ServerFlush PROVE IInv'
  <1>1. PICK x \in sq :
            /\ sq' = sq \ {x}
            /\ net' = IF x.owner \in {0} \cup DOMAIN sessions
                      THEN Sent(net, {x.packet}) ELSE net
            /\ sessions' = [c \in DOMAIN sessions |->
                    [sessions[c] EXCEPT !.sent = @ \/ c = x.owner]]
    BY Zenon DEF ServerFlush
  <1>2. UNCHANGED <<index, secret, issued, made, clientVars, clockVars>>
    BY Zenon DEF ServerFlush
  <1>3. (DOMAIN sessions)' = DOMAIN sessions
    BY <1>1, Zenon
  <1>4. Carried
    <2>. SUFFICES ASSUME NEW c \in DOMAIN sessions
                  PROVE  /\ sessions'[c] \in Session
                         /\ SameOrigin(sessions'[c], sessions[c])
                         /\ sessions'[c].state = "Established" => c \in finished
      BY <1>3, Zenon DEF Carried
    <2>1. /\ sessions[c] \in Session
          /\ sessions[c].state = "Established" => c \in finished
      BY ServerFacts, Zenon
    <2>. DEFINE b == sessions[c].sent \/ c = x.owner
    <2>2. b \in BOOLEAN /\ sessions'[c] = [sessions[c] EXCEPT !.sent = b]
      BY <1>1, Zenon
    <2>. HIDE DEF b
    <2>. QED
      BY <2>1, <2>2, SentChanged
  <1>5. \A d \in net' : d \in net \/ \E y \in sq : d = y.packet
    BY <1>1, SentSubset
  <1>. QED
    BY <1>1, <1>2, <1>3, <1>4, <1>5, SessionStep, Zenon

(* run_housekeeping of the server, whether a keepalive ends it or not.     *)
LEMMA HousekeepingKeeps ==
    ASSUME IInv, NEW expired \in SUBSET DOMAIN sessions,
           NEW drained \in SUBSET DOMAIN sessions, NEW quiet \in SUBSET DOMAIN sessions,
           NEW queued \in SUBSET (Frames(expired) \cup Keepalives(quiet)),
           Housekeeping(expired, quiet, drained, queued)
    PROVE  IInv'
  <1>. DEFINE gone == Swept(expired, drained)
              over == {c \in drained : sessions[c].state = "Closing"}
              closing == InState(expired, "Closing")
  <1>1. UNCHANGED <<secret, issued, made, clientVars, clockVars, net, finished>>
    BY Zenon DEF Housekeeping, clientVars
  <1>2. ASSUME NEW x \in sq' PROVE x \in sq \/ (x \in Frame' /\ Truthful(x.packet)')
    <2>1. x \in sq \/ x \in Frames(expired) \/ x \in Keepalives(quiet)
      BY Zenon DEF Housekeeping
    <2>2. CASE x \in Frames(expired)
      <3>1. PICK c \in expired : x = Owned(CloseFrameOf(c), c)
        BY <2>2, Zenon DEF Frames
      <3>2. x \in Frame' /\ CloseFrameOf(c).kind # "ServerHello"
        BY <1>1, <3>1, SessionFrame, Zenon
      <3>3. x.packet = CloseFrameOf(c)
        BY <3>1, Zenon DEF Owned
      <3>. QED
        BY <3>2, <3>3, Zenon DEF Truthful
    <2>3. CASE x \in Keepalives(quiet)
      <3>1. PICK c \in quiet : x = Owned(KeepaliveOf(c), c)
        BY <2>3, Zenon DEF Keepalives
      <3>2. x \in Frame' /\ KeepaliveOf(c).kind # "ServerHello"
        BY <1>1, <3>1, SessionFrame, Zenon
      <3>3. x.packet = KeepaliveOf(c)
        BY <3>1, Zenon DEF Owned
      <3>. QED
        BY <3>2, <3>3, Zenon DEF Truthful
    <2>. QED
      BY <2>1, <2>2, <2>3, Zenon
  <1>3. ASSUME NEW c \in DOMAIN sessions
        PROVE  /\ closing[c] \in Session /\ SameOrigin(closing[c], sessions[c])
               /\ closing[c].state = "Established" => c \in finished
    <2>1. /\ sessions[c] \in Session
          /\ sessions[c].state = "Established" => c \in finished
      BY ServerFacts, Zenon
    <2>2. CASE c \in expired
      BY <2>1, <2>2, StateChanged, Zenon DEF InState, States
    <2>3. CASE c \notin expired
      BY <2>1, <2>3, Zenon DEF InState, SameOrigin
    <2>. QED
      BY <2>2, <2>3, Zenon
  <1>4. CASE /\ sessions' = [c \in DOMAIN sessions \ gone |-> closing[c]]
             /\ index' = IndexWithout(gone)
    <2>. HIDE DEF closing
    <2>1. gone \in SUBSET DOMAIN sessions
      BY Zenon DEF Swept
    <2>. HIDE DEF gone
    <2>2. Carried /\ (DOMAIN sessions)' = DOMAIN sessions \ gone
      BY <1>1, <1>3, <1>4, Zenon DEF Carried
    <2>. QED
      BY <1>1, <1>2, <1>4, <2>1, <2>2, IndexPruned, CarriedKeeps, Zenon
         DEF TokenMade, SessionMade
  <1>5. CASE /\ sessions' = [c \in DOMAIN sessions |->
                    IF c \in over THEN [sessions[c] EXCEPT !.state = "Closed"]
                                  ELSE closing[c]]
             /\ UNCHANGED index
    <2>. HIDE DEF closing, gone, over
    <2>1. (DOMAIN sessions)' = DOMAIN sessions
      BY <1>5, Zenon
    <2>2. ASSUME NEW c \in DOMAIN sessions
          PROVE  /\ sessions'[c] \in Session /\ SameOrigin(sessions'[c], sessions[c])
                 /\ sessions'[c].state = "Established" => c \in finished
      <3>1. sessions[c] \in Session
        BY ServerFacts, Zenon
      <3>2. CASE c \in over
        BY <1>5, <3>1, <3>2, StateChanged, Zenon DEF States
      <3>3. CASE c \notin over
        BY <1>3, <1>5, <3>3, Zenon
      <3>. QED
        BY <3>2, <3>3, Zenon
    <2>3. Carried
      BY <2>1, <2>2, Zenon DEF Carried
    <2>. QED
      BY <1>1, <1>2, <1>5, <2>1, <2>3, SessionStep, Zenon
  <1>. QED
    BY <1>4, <1>5, Zenon DEF Housekeeping

(* listen() again: no session, no token of the old secret is left to lie.  *)
LEMMA RestartKeeps ==
    ASSUME IInv, Restart PROVE IInv'
  <1>1. (DOMAIN sessions)' = {} /\ sq' = {} /\ index' = [a \in Addrs |-> 0]
    BY DEF Restart
  <1>2. UNCHANGED <<issued, made, clientVars, clockVars, net>>
    BY Zenon DEF Restart
  <1>3. Follows
    BY <1>1, <1>2, ServerFacts DEF Follows, clientVars
  <1>4. TypeOK'
    <2>1. secret' \in 0..MaxRestarts /\ index' \in [Addrs -> 0..MaxConns]
      BY <1>1, ServerFacts, Bounds DEF Restart
    <2>. QED
      BY <1>1, <1>2, <2>1, Zenon DEF IInv, TypeOK, clientVars, clockVars
  <1>5. SessionsSound' /\ EstablishedIsConfirmed' /\ IndexSound' /\ SessionsValidated'
    BY <1>1, Zenon
       DEF SessionsSound, EstablishedIsConfirmed, IndexSound, IndexAgrees, SessionsValidated
  <1>. QED
    BY <1>1, <1>2, <1>3, <1>4, <1>5, ServerStep, Zenon

(* Lost datagrams, tokens that grow old, and steps that change nothing.    *)
LEMMA EnvironmentKeeps ==
    ASSUME IInv, (\E d \in net : Lose(d)) \/ TokensExpire \/ UNCHANGED vars PROVE IInv'
  <1>1. net' \subseteq net /\ UNCHANGED <<clientVars, serverVars, calm>>
    BY Zenon DEF Lose, TokensExpire, vars, clockVars
  <1>2. staleToken' \in 0..Len(issued) /\ staleTicket' \in 0..Len(made)
    <2>1. /\ staleToken \in 0..Len(issued) /\ staleTicket \in 0..Len(made)
          /\ Len(issued) \in Nat /\ Len(made) \in Nat
      BY ServerFacts DEF IInv, TypeOK
    <2>2. staleToken' \in {staleToken, Len(issued)} /\ staleTicket' \in {staleTicket, Len(made)}
      BY Zenon DEF Lose, TokensExpire, vars, clockVars
    <2>. QED
      BY <2>1, <2>2
  <1>3. Carried /\ (DOMAIN sessions)' = DOMAIN sessions
    BY <1>1, UnchangedCarries, Zenon DEF clientVars, serverVars
  <1>4. TypeOK'
    BY <1>1, <1>2, Zenon DEF IInv, TypeOK, clientVars, serverVars
  <1>5. Follows
    BY <1>1, <1>3, ServerFacts DEF Follows, Carried, clientVars, serverVars
  <1>6. SessionsSound' /\ EstablishedIsConfirmed' /\ IndexSound' /\ SessionsValidated'
    BY <1>1, Zenon
       DEF IInv, SessionsSound, EstablishedIsConfirmed, IndexSound, IndexAgrees,
           SessionsValidated, clientVars, serverVars
  <1>. QED
    BY <1>1, <1>4, <1>5, <1>6, ServerStep, Zenon DEF serverVars

-----------------------------------------------------------------------------
(* The theorems                                                            *)

(* The invariant holds at the start and every step keeps it.               *)
LEMMA InitInvariant == Init => IInv
  <1>. SUFFICES ASSUME Init PROVE IInv
    OBVIOUS
  <1>1. DOMAIN sessions = {} /\ Len(issued) = 0 /\ Len(made) = 0
    BY DEF Init
  <1>2. TypeOK
    BY <1>1, Bounds, ConnectionAssumption DEF Init, TypeOK, IdleClient, States
  <1>. QED
    BY <1>1, <1>2
       DEF Init, IInv, PacketsKnown, HellosTruthful, ClientSound, SessionsSound,
           KeyAgreement, EstablishedIsConfirmed, IndexSound, IndexAgrees,
           SessionsValidated, IdleClient

(* Every step keeps the invariant. *)
LEMMA NextInvariant == IInv /\ [Next]_vars => IInv'
  <1>. SUFFICES ASSUME IInv, [Next]_vars PROVE IInv'
    OBVIOUS
  <1>1. CASE ServerHousekeeping
    <2>1. PICK expired \in SUBSET DOMAIN sessions, drained \in SUBSET DOMAIN sessions,
               quiet \in SUBSET DOMAIN sessions :
            \E queued \in SUBSET (Frames(expired) \cup Keepalives(quiet)) :
                Housekeeping(expired, quiet, drained, queued)
      BY <1>1, Zenon DEF ServerHousekeeping
    <2>. QED
      BY <2>1, HousekeepingKeeps, Zenon
  <1>2. CASE \E a \in Addrs : Connect(a)
    BY <1>2, ConnectKeeps, Zenon
  <1>3. CASE \E d \in net : ClientReceive(d) \/ ServerReceive(d)
    BY <1>3, ClientReceiveKeeps, ServerReceiveKeeps, Zenon
  <1>4. CASE \E c \in DOMAIN sessions : ServerSend(c) \/ ClosePeer(c)
    BY <1>4, ServerSendKeeps, ClosePeerKeeps, Zenon
  <1>5. CASE (\E d \in net : Lose(d)) \/ TokensExpire \/ UNCHANGED vars
    BY <1>5, EnvironmentKeeps, Zenon
  <1>. QED
    BY <1>1, <1>2, <1>3, <1>4, <1>5, StopKeeps, ClientFlushKeeps, ClientSendKeeps,
       ClientCloseKeeps, ClientTimersKeep, ServerFlushKeeps, RestartKeeps, Zenon
       DEF Next

(* The invariant holds in every reachable state. *)
LEMMA Invariance == Spec => []IInv
  BY InitInvariant, NextInvariant, PTL DEF Spec

(* handle_server_hello_packet: whatever is delayed, repeated, lost or left *)
(* over from earlier attempts and servers, a client that is connected to a *)
(* live session shares key, address and token with it.                     *)
THEOREM KeysAgree == Spec => []KeyAgreement
  <1>1. IInv => KeyAgreement
    BY Zenon DEF IInv
  <1>. QED
    BY <1>1, Invariance, PTL

(* handle_session_packet: the server counts no session as established      *)
(* unless a client has finished its handshake.                             *)
THEOREM EstablishedConfirmed == Spec => []EstablishedIsConfirmed
  <1>1. IInv => EstablishedIsConfirmed
    BY Zenon DEF IInv
  <1>. QED
    BY <1>1, Invariance, PTL

(* evict_session and handle_client_hello keep _endpoint_to_conn in step    *)
(* with _sessions.                                                         *)
THEOREM IndexInStep == Spec => []IndexAgrees
  <1>1. IInv => IndexAgrees
    BY Zenon DEF IInv, IndexSound
  <1>. QED
    BY <1>1, Invariance, PTL

(* validate_retry_token and validate_resumption_token: no session exists   *)
(* but for a hello with a token of the running server.                     *)
THEOREM SessionsAreValidated == Spec => []SessionsValidated
  <1>1. IInv => SessionsValidated
    BY Zenon DEF IInv
  <1>. QED
    BY <1>1, Invariance, PTL

(* What a step does to a session on its way out that stays in the table.   *)
Stays(c) == c \in DOMAIN sessions /\ c \in (DOMAIN sessions)' /\ Over(c)

(* A session whose state is unchanged stays over. *)
LEMMA SameStateStays ==
    ASSUME NEW c, Stays(c), sessions'[c].state = sessions[c].state PROVE Over(c)'
  BY Zenon DEF Stays, Over

(* Sessions that are put to Closing or Closed stay over. *)
LEMMA InStateStays ==
    ASSUME IInv, NEW C, NEW state \in {"Closing", "Closed"},
           sessions' = InState(C, state), NEW c, Stays(c)
    PROVE  Over(c)'
  <1>1. sessions[c] \in Session /\ state \in States \ {"Idle"}
    BY ServerFacts, Zenon DEF Stays, States
  <1>2. CASE c \in C
    <2>1. sessions'[c] = [sessions[c] EXCEPT !.state = state]
      BY <1>2, Zenon DEF InState, Stays
    <2>2. sessions'[c].state = state
      BY <1>1, <2>1, StateChanged, Zenon
    <2>. QED
      BY <2>2, Zenon DEF Over
  <1>3. CASE c \notin C
    BY <1>3, SameStateStays, Zenon DEF InState, Stays
  <1>. QED
    BY <1>2, <1>3, Zenon

(* No datagram brings a session back. *)
LEMMA ServerReceiveStays ==
    ASSUME IInv, NEW d \in net, ServerReceive(d), NEW c, Stays(c) PROVE Over(c)'
  <1>1. CASE UNCHANGED sessions
    BY <1>1, SameStateStays, Zenon
  <1>2. CASE \E C : sessions' = Without(C)
    BY <1>2, SameStateStays, Zenon DEF Without, Stays
  <1>3. ASSUME NEW drained, Accept(d, drained) PROVE Over(c)'
    <2>. DEFINE gone == Stale(drained) \cup Replaced(d)
                conn == Len(made) + 1
    <2>1. CASE sessions' = [e \in (DOMAIN sessions \ gone) \cup {conn} |->
                                IF e = conn THEN NewSession(d) ELSE sessions[e]]
      <3>1. c # conn
        BY ServerFacts DEF Stays
      <3>. HIDE DEF gone, conn
      <3>2. sessions'[c] = sessions[c]
        BY <2>1, <3>1, Zenon DEF Stays
      <3>. QED
        BY <3>2, SameStateStays, Zenon
    <2>2. CASE sessions' = Without(gone)
      BY <1>2, <2>2, Zenon
    <2>. QED
      BY <1>3, <2>1, <2>2, Zenon DEF Accept
  <1>4. CASE SessionData(d)
    <2>1. CASE Confirms(d.conn) /\ sessions' = InState({d.conn}, "Established")
      <3>1. c # d.conn
        BY <2>1, Zenon DEF Stays, Over, Confirms
      <3>. QED
        BY <2>1, <3>1, SameStateStays, Zenon DEF InState, Stays
    <2>. QED
      BY <1>1, <1>4, <2>1, Zenon DEF SessionData
  <1>5. CASE SessionClose(d)
    BY <1>5, InStateStays, Zenon DEF SessionClose
  <1>6. CASE ServerReceiveHello(d)
    <2>1. \/ UNCHANGED sessions
          \/ \E C : sessions' = Without(C)
          \/ \E drained : Accept(d, drained)
      BY <1>6, Zenon DEF ServerReceiveHello, AskRetry, CookieExpired, Refuse
    <2>. QED
      BY <1>1, <1>2, <1>3, <2>1, Zenon
  <1>. QED
    BY <1>1, <1>4, <1>5, <1>6, Zenon DEF ServerReceive, UnknownConnection

(* Nor does the housekeeping of tick(). *)
LEMMA HousekeepingStays ==
    ASSUME IInv, ServerHousekeeping, NEW c, Stays(c) PROVE Over(c)'
  <1>1. PICK expired \in SUBSET DOMAIN sessions, drained \in SUBSET DOMAIN sessions :
            \E quiet, queued : Housekeeping(expired, quiet, drained, queued)
    BY Zenon DEF ServerHousekeeping
  <1>2. c \notin expired
    BY <1>1, Zenon DEF Housekeeping, Stays, Over
  <1>3. InState(expired, "Closing")[c] = sessions[c] /\ sessions[c] \in Session
    BY <1>2, ServerFacts, Zenon DEF InState, Stays
  <1>4. \/ sessions'[c] = InState(expired, "Closing")[c]
        \/ sessions'[c] = [sessions[c] EXCEPT !.state = "Closed"]
    BY <1>1, Zenon DEF Housekeeping, Stays
  <1>5. CASE sessions'[c] = InState(expired, "Closing")[c]
    BY <1>3, <1>5, SameStateStays, Zenon
  <1>6. CASE sessions'[c] = [sessions[c] EXCEPT !.state = "Closed"]
    BY <1>3, <1>6, StateChanged DEF Over, States
  <1>. QED
    BY <1>4, <1>5, <1>6, Zenon

(* handle_session_packet, close_session and run_housekeeping: no packet,   *)
(* timer or call takes a session from Closing or Closed back into use.     *)
THEOREM OverStaysOver == Spec => NoRevival
  <1>1. ASSUME IInv, Next, NEW c, Stays(c) PROVE Over(c)'
    <2>1. CASE UNCHANGED sessions
      BY <1>1, <2>1, SameStateStays, Zenon
    <2>2. CASE \E e \in DOMAIN sessions : ClosePeer(e)
      BY <1>1, <2>2, InStateStays, Zenon DEF ClosePeer
    <2>3. CASE ServerFlush
      <3>1. sessions[c] \in Session
        BY <1>1, ServerFacts, Zenon DEF Stays
      <3>2. PICK b \in BOOLEAN : sessions'[c] = [sessions[c] EXCEPT !.sent = b]
        BY <1>1, <2>3, Zenon DEF ServerFlush, Stays
      <3>. QED
        BY <1>1, <3>1, <3>2, SentChanged, SameStateStays, Zenon
    <2>4. CASE Restart
      BY <1>1, <2>4 DEF Restart, Stays
    <2>5. UNCHANGED sessions \/ ServerHousekeeping \/ Restart \/ ServerFlush
          \/ (\E d \in net : ServerReceive(d)) \/ (\E e \in DOMAIN sessions : ClosePeer(e))
      BY <1>1, Zenon
         DEF Next, Connect, Stop, ClientFlush, ClientSend, ClientClose,
             ClientHandshakeTimeout, ClientIdleTimeout, ClientDrained, ClientReceive,
             Lose, ServerSend, TokensExpire, serverVars
    <2>. QED
      BY <1>1, <2>1, <2>2, <2>3, <2>4, <2>5, ServerReceiveStays, HousekeepingStays, Zenon
  <1>2. IInv /\ [Next]_vars =>
            [\A c \in DOMAIN sessions \cap DOMAIN sessions' : Over(c) => Over(c)']_vars
    BY <1>1, Zenon DEF Stays
  <1>. QED
    BY <1>2, Invariance, PTL DEF Spec, NoRevival
=============================================================================
