------------------------------- MODULE Connection -------------------------------
(***************************************************************************)
(* Opening and closing connections: one scn::Client that connects again    *)
(* and again, one scn::Server with its table of peer sessions, and UDP in  *)
(* between (client.cpp, server.cpp).                                       *)
(*                                                                         *)
(* A connect() draws a fresh key pair and nonce, a session a fresh         *)
(* connection id, key pair and nonce: each is a number.  The session keys  *)
(* of the pair <<key, conn>> are known to the two sides that computed      *)
(* them, so a MAC or an AEAD tag verifies when the numbers agree.  Retry   *)
(* and resumption tokens are numbered as they are issued; `issued' and     *)
(* `made' remember what their MACs cover.  Timers run out when they like.  *)
(* The packet queues and the network are sets: UDP may reorder and lose,   *)
(* so the order in which packets leave a queue cannot be observed.  An     *)
(* encrypted packet is taken at most once (module PacketLink).             *)
(***************************************************************************)
EXTENDS Integers, Sequences, FiniteSets

CONSTANTS
    Addrs,          \* local addresses a client socket can get, all of one host
    Resumption,     \* enable_session_resumption, on both sides
    MaxSessions,    \* the smaller of max_peer_sessions and max_sessions_per_ip
    MaxPackets,     \* max_pending_packets, on both sides
    Drops,          \* an unencrypted packet may exceed the amplification budget
    Duplicates,     \* the network may deliver a handshake packet again
    Timers,         \* timeouts may run out
    Lossy,          \* the network may lose datagrams
    Calm,           \* {FALSE, TRUE}: with behaviours without either, too
    Traffic,        \* application messages and keepalives are sent
    MaxNet,         \* bound: datagrams on their way; more than these are lost
    MaxAttempts,    \* bound: calls of connect()
    MaxTokens,      \* bound: retry tokens issued
    MaxConns,       \* bound: sessions made
    MaxRestarts     \* bound: calls of listen() after the first

ASSUME ConnectionAssumption ==
    /\ 0 \notin Addrs
    /\ {Resumption, Drops, Duplicates, Timers, Lossy, Traffic} \subseteq BOOLEAN
    /\ Calm \subseteq BOOLEAN
    /\ MaxSessions \in Nat \ {0} /\ MaxPackets \in Nat \ {0}
    /\ {MaxNet, MaxAttempts, MaxTokens, MaxConns, MaxRestarts} \subseteq Nat

States == {"Idle", "Handshaking", "Established", "Closing", "Closed"}

VARIABLES
    cl,         \* the client: _state, key pair, local address, tokens, _conn_id
    cq,         \* Client::_pending
    sessions,   \* Server::_sessions: live connection ids to PeerSession
    index,      \* Server::_endpoint_to_conn; 0: no entry
    sq,         \* Server::_pending, each packet with its owner_conn_id
    secret,     \* Server::_cookie_secret, drawn by each listen()
    issued,     \* what the MAC of each retry token covers
    made,       \* the secret behind the resumption token of each session
    staleToken, \* retry tokens up to this one have expired
    staleTicket,\* resumption tokens up to this one have expired
    net,        \* datagrams on their way
    calm,       \* the environment: nothing is lost and no timer runs out
    finished    \* history: sessions whose keys the client has come to hold

clientVars == <<cl, cq, finished>>
serverVars == <<sessions, index, sq, secret, issued, made>>
clockVars == <<staleToken, staleTicket, calm>>
vars == <<clientVars, serverVars, clockVars, net>>

-----------------------------------------------------------------------------
(* Packets.                                                                *)

Up(kind, addr, conn, key) ==
    [kind |-> kind, dir |-> "up", addr |-> addr, conn |-> conn, key |-> key]

Down(kind, addr, conn, key) ==
    [kind |-> kind, dir |-> "down", addr |-> addr, conn |-> conn, key |-> key]

(* The resumption token is offered until the server asks for a retry. *)
OfferedTicket(c) == IF c.token = 0 THEN c.ticket ELSE 0

ClientHello(c) ==
    [kind |-> "ClientHello", dir |-> "up", addr |-> c.addr, key |-> c.key,
     token |-> c.token, ticket |-> OfferedTicket(c)]

Retry(addr, token) ==
    [kind |-> "Retry", dir |-> "down", addr |-> addr, token |-> token]

(* Its transcript MAC covers the hello the session answers. *)
ServerHello(conn, s) ==
    [kind |-> "ServerHello", dir |-> "down", addr |-> s.addr, conn |-> conn,
     key |-> s.key, token |-> s.token, ticket |-> s.ticket]

Handshakes == {"ClientHello", "Retry", "ServerHello"}
Encrypted == {"Data", "Close"}

(* UDP takes the datagrams P, or loses them. *)
Sent(n, P) == IF Cardinality(n \cup P) <= MaxNet THEN n \cup P ELSE n

Lose(d) ==
    /\ Lossy /\ ~calm
    /\ net' = net \ {d}
    /\ UNCHANGED <<clientVars, serverVars, clockVars>>

(* recv: UDP may hand over a handshake packet and still hold a copy of it. *)
Received(d) ==
    {net \ {d}} \cup IF Duplicates /\ d.kind \notin Encrypted THEN {net} ELSE {}

-----------------------------------------------------------------------------
(* The client.                                                             *)

IdleClient == [state |-> "Idle", key |-> 0, addr |-> 0, token |-> 0, ticket |-> 0,
               conn |-> 0, keys |-> FALSE, sent |-> FALSE]

Init ==
    /\ cl = IdleClient
    /\ cq = {}
    /\ sessions = << >>
    /\ index = [a \in Addrs |-> 0]
    /\ sq = {}
    /\ secret = 0
    /\ issued = <<>>
    /\ made = <<>>
    /\ staleToken = 0 /\ staleTicket = 0
    /\ net = {}
    /\ calm \in Calm
    /\ finished = {}

(* A timer may have run out. *)
TimeIsUp == Timers /\ ~calm

(* send_client_hello gives up on a full queue; otherwise it ends with      *)
(* flush_pending, which a busy socket or a spent budget stops.             *)
SendClientHello(c, q, n) ==
    \/ /\ Cardinality(q) < MaxPackets
       /\ cl' = [c EXCEPT !.sent = TRUE]
       /\ cq' = {}
       /\ net' = Sent(n, q \cup {ClientHello(c)})
    \/ /\ cl' = c
       /\ cq' = IF Cardinality(q) < MaxPackets THEN q \cup {ClientHello(c)} ELSE q
       /\ net' = n

(* connect() from any state: reset_session, a new socket and key pair. *)
Connect(a) ==
    /\ cl.key < MaxAttempts
    /\ SendClientHello([IdleClient EXCEPT !.state = "Handshaking", !.addr = a,
                                          !.key = cl.key + 1, !.ticket = cl.ticket],
                       {}, net)
    /\ UNCHANGED <<finished, serverVars, clockVars>>

(* stop(), and a connect() whose socket fails. *)
Stop ==
    /\ cl.state # "Idle"
    /\ cl' = [IdleClient EXCEPT !.key = cl.key, !.ticket = cl.ticket]
    /\ cq' = {}
    /\ UNCHANGED <<finished, serverVars, clockVars, net>>

ClientQueueFull == Cardinality(cq) >= MaxPackets

ClientFlush ==
    /\ \E p \in cq : /\ net' = Sent(net, {p})
                     /\ cq' = cq \ {p}
    /\ cl' = [cl EXCEPT !.sent = TRUE]
    /\ UNCHANGED <<finished, serverVars, clockVars>>

(* fail_connection, and what a close frame or the end of the drain time    *)
(* leaves: the socket, the keys and the queue are gone.                    *)
Shut ==
    /\ cl' = [cl EXCEPT !.state = "Closed", !.keys = FALSE]
    /\ cq' = {}

(* Application traffic and keepalives. *)
ClientSend ==
    /\ Traffic /\ cl.state = "Established" /\ ~ClientQueueFull
    /\ cq' = cq \cup {Up("Data", cl.addr, cl.conn, cl.key)}
    /\ UNCHANGED <<cl, finished, serverVars, clockVars, net>>

CloseFrame == IF cl.keys THEN Up("Close", cl.addr, cl.conn, cl.key)
                         ELSE Up("PlainClose", cl.addr, 0, 0)

(* close(): a second call without session keys, or a full queue, ends in   *)
(* fail_connection.                                                        *)
ClientClose ==
    /\ cl.state \in {"Handshaking", "Established", "Closing"}
    /\ LET fails == ClientQueueFull \/ (cl.state = "Closing" /\ ~cl.keys) IN
       \/ /\ ~fails
          /\ cq' = cq \cup {CloseFrame}
          /\ cl' = [cl EXCEPT !.state = "Closing"]
       \/ fails /\ Shut
    /\ UNCHANGED <<finished, serverVars, clockVars, net>>

(* A client that takes any server hello for an answer to its own. *)
MacMatchesAny(d) == TRUE

(* The transcript MAC of handle_server_hello_packet. *)
MacMatches(d) ==
    /\ d.key = cl.key
    /\ d.token = cl.token
    /\ d.ticket = OfferedTicket(cl)

(* A client that forgets the token it has been given. *)
ReceiveRetryForgetting(d) ==
    /\ d.kind = "Retry"
    /\ \E n \in Received(d) :
        \/ /\ cl.state = "Handshaking"
           /\ SendClientHello(cl, cq, n)
        \/ cl.state # "Handshaking" /\ Shut /\ net' = n
    /\ UNCHANGED finished

ReceiveRetry(d) ==
    /\ d.kind = "Retry"
    /\ \E n \in Received(d) :
        \/ /\ cl.state = "Handshaking"
           /\ SendClientHello([cl EXCEPT !.token = d.token], cq, n)
        \/ cl.state # "Handshaking" /\ Shut /\ net' = n
    /\ UNCHANGED finished

(* The first keepalive tells the server; without room for it the           *)
(* connection fails, and only the resumption token is kept.                *)
ReceiveServerHello(d) ==
    /\ d.kind = "ServerHello"
    /\ LET answered == cl.state = "Handshaking" /\ MacMatches(d)
           ticket == IF Resumption THEN d.conn ELSE 0
       IN  \/ /\ answered /\ ~ClientQueueFull
              /\ cl' = [cl EXCEPT !.state = "Established", !.conn = d.conn,
                                  !.keys = TRUE, !.ticket = ticket]
              /\ cq' = cq \cup {Up("Data", cl.addr, d.conn, cl.key)}
              /\ finished' = finished \cup {d.conn}
           \/ /\ answered /\ ClientQueueFull
              /\ cl' = [cl EXCEPT !.state = "Closed", !.conn = d.conn, !.ticket = ticket]
              /\ cq' = {}
              /\ UNCHANGED finished
           \/ ~answered /\ Shut /\ UNCHANGED finished
    /\ net' \in Received(d)

(* Everything else: an encrypted packet of this connection is taken, any   *)
(* other one ends it.                                                      *)
Authentic(d) == cl.keys /\ d.conn = cl.conn /\ d.key = cl.key

ReceiveSecure(d) ==
    /\ d.kind \in {"Data", "Close", "PlainClose"}
    /\ \/ d.kind = "Data" /\ Authentic(d) /\ UNCHANGED <<cl, cq>>
       \/ ~(d.kind = "Data" /\ Authentic(d)) /\ Shut
    /\ net' \in Received(d)
    /\ UNCHANGED finished

ClientReceive(d) ==
    /\ d.dir = "down" /\ d.addr = cl.addr
    /\ cl.state \notin {"Idle", "Closed"}
    /\ ReceiveRetry(d) \/ ReceiveServerHello(d) \/ ReceiveSecure(d)
    /\ UNCHANGED <<serverVars, clockVars>>

(* run_housekeeping. *)
ClientHandshakeTimeout ==
    /\ TimeIsUp /\ cl.state = "Handshaking"
    /\ Shut
    /\ UNCHANGED <<finished, serverVars, clockVars, net>>

ClientIdleTimeout ==
    /\ TimeIsUp /\ cl.state = "Established"
    /\ cl' = [cl EXCEPT !.state = "Closing"]
    /\ cq' = IF ClientQueueFull THEN cq ELSE cq \cup {CloseFrame}
    /\ UNCHANGED <<finished, serverVars, clockVars, net>>

ClientDrained ==
    /\ TimeIsUp /\ cl.state = "Closing" /\ cl.sent
    /\ Shut
    /\ UNCHANGED <<finished, serverVars, clockVars, net>>

-----------------------------------------------------------------------------
(* The server.                                                             *)

(* A packet with the session it belongs to; 0: stateless. *)
Owned(p, owner) == [packet |-> p, owner |-> owner]

QueueFull == Cardinality(sq) >= MaxPackets

(* queue_packet when it reports success.  Beyond the amplification budget  *)
(* an unencrypted packet is dropped and reported as queued.                *)
Enqueued(p, owner) ==
    (IF QueueFull THEN {} ELSE {sq \cup {Owned(p, owner)}}) \cup
        IF Drops /\ p.kind \notin Encrypted THEN {sq} ELSE {}

(* queue_packet for a caller that ignores a full queue. *)
Queued(p, owner) == Enqueued(p, owner) \cup IF QueueFull THEN {sq} ELSE {}

Without(C) == [c \in DOMAIN sessions \ C |-> sessions[c]]

(* evict_session, for each of C. *)
IndexWithout(C) ==
    [a \in Addrs |-> IF \E c \in C : sessions[c].addr = a THEN 0 ELSE index[a]]

(* evict_stale_sessions, when the drain time of `drained' is over. *)
Stale(drained) ==
    {c \in DOMAIN sessions :
        \/ sessions[c].state = "Closed"
        \/ sessions[c].state = "Closing" /\ sessions[c].sent /\ c \in drained}

(* A token check that ignores which hello the token was made for. *)
GenuineAnyHello(d) == issued[d.token].secret = secret /\ issued[d.token].addr = d.addr

(* validate_retry_token: the MAC covers the endpoint and the hello. *)
Genuine(d) == issued[d.token] = [addr |-> d.addr, key |-> d.key, secret |-> secret]

Resumes(d) ==
    /\ Resumption /\ d.ticket # 0 /\ d.token = 0
    /\ d.ticket > staleTicket /\ made[d.ticket] = secret

NeedsRetry(d) == ~Resumes(d) /\ (d.token = 0 \/ (d.token > staleToken /\ ~Genuine(d)))

(* handle_client_hello without a token that holds: nothing is remembered. *)
AskRetry(d) ==
    /\ NeedsRetry(d)
    /\ Len(issued) < MaxTokens
    /\ issued' = Append(issued, [addr |-> d.addr, key |-> d.key, secret |-> secret])
    /\ sq' \in Queued(Retry(d.addr, Len(issued) + 1), 0)
    /\ UNCHANGED <<sessions, index, made>>

CookieExpired(d) ==
    /\ ~Resumes(d) /\ d.token # 0 /\ d.token <= staleToken
    /\ sq' \in Queued(Down("PlainClose", d.addr, 0, 0), 0)
    /\ UNCHANGED <<sessions, index, issued, made>>

Validated(d) == Resumes(d) \/ (d.token > staleToken /\ Genuine(d))

Room(C) == Cardinality(DOMAIN sessions \ C) < MaxSessions

(* Backpressure or RateLimited, after evict_stale_sessions. *)
Refuse(d, drained) ==
    /\ Validated(d)
    /\ LET gone == Stale(drained) IN
       /\ ~Room(gone)
       /\ sessions' = Without(gone)
       /\ index' = IndexWithout(gone)
    /\ sq' \in Queued(Down("PlainClose", d.addr, 0, 0), 0)
    /\ UNCHANGED <<issued, made>>

(* A session that counts as established before the client has answered. *)
NewSessionEager(d) ==
    [state |-> "Established", addr |-> d.addr, key |-> d.key, sent |-> FALSE,
     token |-> IF Resumes(d) THEN 0 ELSE d.token,
     ticket |-> IF Resumes(d) THEN d.ticket ELSE 0]

NewSession(d) ==
    [state |-> "Handshaking", addr |-> d.addr, key |-> d.key, sent |-> FALSE,
     token |-> IF Resumes(d) THEN 0 ELSE d.token,
     ticket |-> IF Resumes(d) THEN d.ticket ELSE 0]

(* A new hello that leaves the session of its endpoint in the table. *)
ReplacedNone(d) == {}

(* The session of the same endpoint, which the new one replaces. *)
Replaced(d) == {index[d.addr]} \cap DOMAIN sessions

Accept(d, drained) ==
    /\ Validated(d)
    /\ Len(made) < MaxConns
    /\ made' = Append(made, secret)
    /\ LET stale == Stale(drained)
           gone == stale \cup Replaced(d)
           conn == Len(made) + 1
           s == NewSession(d)
       IN  /\ Room(stale)
           /\ \/ /\ sessions' = [c \in (DOMAIN sessions \ gone) \cup {conn} |->
                                    IF c = conn THEN s ELSE sessions[c]]
                 /\ index' = [IndexWithout(gone) EXCEPT ![d.addr] = conn]
                 /\ sq' \in Enqueued(ServerHello(conn, s), conn)
              \/ (* queue_server_hello fails. *)
                 /\ QueueFull
                 /\ sessions' = Without(gone)
                 /\ index' = [IndexWithout(gone) EXCEPT ![d.addr] = 0]
                 /\ UNCHANGED sq
    /\ UNCHANGED issued

ServerReceiveHello(d) ==
    /\ d.kind = "ClientHello"
    /\ \/ AskRetry(d) \/ CookieExpired(d)
       \/ \E drained \in SUBSET DOMAIN sessions :
            /\ TimeIsUp \/ drained = {}
            /\ Refuse(d, drained) \/ Accept(d, drained)

(* close_session(send_close): its frame is encrypted once the session is   *)
(* established.                                                            *)
CloseFrameOf(c) ==
    Down(IF sessions[c].state = "Handshaking" THEN "PlainClose" ELSE "Close",
         sessions[c].addr, c, sessions[c].key)

KeepaliveOf(c) == Down("Data", sessions[c].addr, c, sessions[c].key)

Frames(C) == {Owned(CloseFrameOf(c), c) : c \in C}
Keepalives(C) == {Owned(KeepaliveOf(c), c) : c \in C}

InState(C, state) ==
    [c \in DOMAIN sessions |->
        IF c \in C THEN [sessions[c] EXCEPT !.state = state] ELSE sessions[c]]

Over(c) == sessions[c].state \in {"Closing", "Closed"}

Known(d) == d.conn \in DOMAIN sessions /\ sessions[d.conn].addr = d.addr

(* handle_packet for a session that is not, or no longer, there. *)
UnknownConnection(d) ==
    /\ ~Known(d)
    /\ sq' \in Queued(Down("PlainClose", d.addr, d.conn, 0), 0)
    /\ UNCHANGED sessions

(* A session that any late packet brings back. *)
ConfirmsOver(c) == sessions[c].state # "Established"

(* The first authenticated packet establishes the session. *)
Confirms(c) == sessions[c].state = "Handshaking"

(* handle_session_packet; the packet decrypts under the session's keys. *)
SessionData(d) ==
    /\ d.kind = "Data" /\ Known(d) /\ sessions[d.conn].key = d.key
    /\ sessions' = IF Confirms(d.conn) THEN InState({d.conn}, "Established") ELSE sessions
    /\ UNCHANGED sq

SessionClose(d) ==
    /\ d.kind = "Close" /\ Known(d) /\ sessions[d.conn].key = d.key
    /\ \/ /\ Over(d.conn)
          /\ sessions' = InState({d.conn}, "Closed")
          /\ UNCHANGED sq
       \/ /\ ~Over(d.conn)
          /\ sessions' = InState({d.conn}, "Closing")
          /\ sq' \in Queued(Down("Close", d.addr, d.conn, d.key), d.conn)

ServerReceive(d) ==
    /\ d.dir = "up"
    /\ \/ ServerReceiveHello(d)
       \/ /\ d.kind \in Encrypted
          /\ UnknownConnection(d) \/ SessionData(d) \/ SessionClose(d)
          /\ UNCHANGED <<index, issued, made>>
       \/ d.kind = "PlainClose" /\ UNCHANGED <<sessions, index, sq, issued, made>>
    /\ net' \in Received(d)
    /\ UNCHANGED <<secret, clientVars, clockVars>>

ServerSend(c) ==
    /\ Traffic /\ sessions[c].state = "Established" /\ ~QueueFull
    /\ sq' = sq \cup {Owned(KeepaliveOf(c), c)}
    /\ UNCHANGED <<sessions, index, secret, issued, made, clientVars, clockVars, net>>

ClosePeer(c) ==
    /\ sessions[c].state # "Closed"
    /\ sessions' = InState({c}, "Closing")
    /\ sq' \in Queued(CloseFrameOf(c), c)
    /\ UNCHANGED <<index, secret, issued, made, clientVars, clockVars, net>>

(* One packet of flush_pending; without its session it is thrown away. *)
ServerFlush ==
    /\ \E x \in sq :
        /\ sq' = sq \ {x}
        /\ net' = IF x.owner \in {0} \cup DOMAIN sessions THEN Sent(net, {x.packet}) ELSE net
        /\ sessions' = [c \in DOMAIN sessions |->
                [sessions[c] EXCEPT !.sent = @ \/ c = x.owner]]
    /\ UNCHANGED <<index, secret, issued, made, clientVars, clockVars>>

(* A sweep that overlooks the sessions a peer's close frame has ended. *)
SweptDraining(expired, drained) ==
    {c \in drained : sessions[c].state = "Closing"} \cup (expired \cap drained)

(* What evict_stale_sessions finds at the end of run_housekeeping. *)
Swept(expired, drained) ==
    {c \in drained : sessions[c].state = "Closing"} \cup (expired \cap drained)
        \cup {c \in DOMAIN sessions : sessions[c].state = "Closed"}

(* run_housekeeping: `expired' have run into the handshake or the idle     *)
(* timeout, `quiet' are due a keepalive, the drain time of `drained' is    *)
(* over, `queued' is what fits into the queue.  A keepalive that does not  *)
(* ends the pass before the stale sessions are evicted.                    *)
Housekeeping(expired, quiet, drained, queued) ==
    /\ \A c \in expired : sessions[c].state \in {"Handshaking", "Established"}
    /\ \A c \in quiet : sessions[c].state = "Established" /\ c \notin expired
    /\ \A c \in drained : sessions[c].sent
    /\ LET over == {c \in drained : sessions[c].state = "Closing"}
           gone == Swept(expired, drained)
           closing == InState(expired, "Closing")
           lost == (Frames(expired) \cup Keepalives(quiet)) \ (sq \cup queued)
       IN  /\ Cardinality(sq \cup queued) <= MaxPackets
           /\ \/ Cardinality(sq \cup queued) = MaxPackets
              \/ \A x \in lost : Drops /\ x.packet.kind = "PlainClose"
           /\ \/ /\ lost \cap Keepalives(quiet) = {}
                 /\ sessions' = [c \in DOMAIN sessions \ gone |-> closing[c]]
                 /\ index' = IndexWithout(gone)
              \/ /\ lost \cap Keepalives(quiet) # {}
                 /\ sessions' = [c \in DOMAIN sessions |->
                       IF c \in over THEN [sessions[c] EXCEPT !.state = "Closed"]
                                     ELSE closing[c]]
                 /\ UNCHANGED index
    /\ sq' = sq \cup queued
    /\ UNCHANGED <<secret, issued, made, clientVars, clockVars, net>>

ServerHousekeeping ==
    /\ TimeIsUp
    /\ \E expired, drained \in SUBSET DOMAIN sessions :
       \E quiet \in IF Traffic THEN SUBSET DOMAIN sessions ELSE {{}} :
       \E queued \in SUBSET (Frames(expired) \cup Keepalives(quiet)) :
            Housekeeping(expired, quiet, drained, queued)

(* stop() and listen(): every session is forgotten, the secret is new. *)
Restart ==
    /\ secret < MaxRestarts
    /\ secret' = secret + 1
    /\ sessions' = << >>
    /\ index' = [a \in Addrs |-> 0]
    /\ sq' = {}
    /\ UNCHANGED <<issued, made, clientVars, clockVars, net>>

(* RetryTokenLifetimeMs, ResumptionTokenLifetimeMs. *)
TokensExpire ==
    /\ TimeIsUp
    /\ \/ staleToken < Len(issued) /\ staleToken' = Len(issued) /\ UNCHANGED staleTicket
       \/ staleTicket < Len(made) /\ staleTicket' = Len(made) /\ UNCHANGED staleToken
    /\ UNCHANGED <<clientVars, serverVars, net, calm>>

-----------------------------------------------------------------------------
Next ==
    \/ \E a \in Addrs : Connect(a)
    \/ Stop \/ ClientFlush \/ ClientSend \/ ClientClose
    \/ ClientHandshakeTimeout \/ ClientIdleTimeout \/ ClientDrained
    \/ \E d \in net : ClientReceive(d) \/ ServerReceive(d) \/ Lose(d)
    \/ \E c \in DOMAIN sessions : ServerSend(c) \/ ClosePeer(c)
    \/ ServerFlush \/ ServerHousekeeping \/ Restart \/ TokensExpire

Spec == Init /\ [][Next]_vars

(* A pass of run_housekeeping that finds the time of session c has come. *)
HousekeepingFor(c) ==
    /\ TimeIsUp /\ c \in DOMAIN sessions
    /\ \E expired, drained \in SUBSET DOMAIN sessions :
       \E queued \in SUBSET Frames(expired) :
            /\ sessions[c].state = "Handshaking" => c \in expired
            /\ sessions[c].state = "Closing" /\ sessions[c].sent => c \in drained
            /\ Housekeeping(expired, {}, drained, queued)

(* Both event loops keep ticking: a queued packet is sent in the end, a    *)
(* datagram that is not lost is read, and timers run out.                  *)
Fairness ==
    /\ WF_vars(ClientFlush) /\ WF_vars(ServerFlush)
    /\ WF_vars(\E d \in net : ClientReceive(d)) /\ WF_vars(\E d \in net : ServerReceive(d))
    /\ WF_vars(ClientHandshakeTimeout) /\ WF_vars(ClientDrained)
    /\ \A c \in 1..MaxConns : WF_vars(HousekeepingFor(c))

FairSpec == Spec /\ Fairness

-----------------------------------------------------------------------------
Session ==
    [state : States \ {"Idle"}, addr : Addrs, key : 1..MaxAttempts, sent : BOOLEAN,
     token : 0..MaxTokens, ticket : 0..MaxConns]

(* Every variable has its type. *)
TypeOK ==
    /\ cl \in [state : States, key : 0..MaxAttempts, addr : Addrs \cup {0},
               token : 0..MaxTokens, ticket : 0..MaxConns, conn : 0..MaxConns,
               keys : BOOLEAN, sent : BOOLEAN]
    /\ DOMAIN sessions \subseteq 1..Len(made)
    /\ \A c \in DOMAIN sessions : sessions[c] \in Session
    /\ index \in [Addrs -> 0..MaxConns]
    /\ secret \in 0..MaxRestarts
    /\ issued \in Seq([addr : Addrs, key : 1..MaxAttempts, secret : 0..MaxRestarts])
    /\ Len(issued) <= MaxTokens
    /\ made \in Seq(0..MaxRestarts) /\ Len(made) <= MaxConns
    /\ staleToken \in 0..Len(issued) /\ staleTicket \in 0..Len(made)
    /\ finished \subseteq 1..Len(made) /\ calm \in BOOLEAN

(* With hellos, retries and server hellos delayed, repeated and mixed with *)
(* those of earlier attempts, a client that believes it is connected to a  *)
(* live session shares its keys, its address and its tokens with it.       *)
KeyAgreement ==
    cl.state = "Established" /\ cl.conn \in DOMAIN sessions =>
        LET s == sessions[cl.conn] IN
        s.key = cl.key /\ s.addr = cl.addr /\ s.token = cl.token

(* The server counts a session as established (and calls on_peer_ready)    *)
(* only if a client has accepted its server hello.                         *)
EstablishedIsConfirmed ==
    \A c \in DOMAIN sessions : sessions[c].state = "Established" => c \in finished

(* _endpoint_to_conn and _sessions, kept in step by hand, agree: every     *)
(* session is found by its endpoint, and no endpoint has two.              *)
IndexAgrees ==
    /\ \A c \in DOMAIN sessions : index[sessions[c].addr] = c
    /\ \A a \in Addrs : index[a] # 0 => index[a] \in DOMAIN sessions

(* "avoids allocating session state": a session exists only for a hello    *)
(* that showed a token the running server made for that endpoint and key,  *)
(* or a resumption token of the running server.                            *)
SessionsValidated ==
    \A c \in DOMAIN sessions : LET s == sessions[c] IN
        \/ s.token # 0 /\ issued[s.token] = [addr |-> s.addr, key |-> s.key, secret |-> secret]
        \/ s.ticket # 0 /\ made[s.ticket] = secret

(* A session on its way out stays on it, whatever arrives late. *)
NoRevival ==
    [][\A c \in DOMAIN sessions \cap DOMAIN sessions' :
            Over(c) => Over(c)']_vars

(* With no loss, no copies and no timeout, a connect() that neither        *)
(* application cuts short ends in Established, through the retry round     *)
(* trip.                                                                   *)
HandshakeCompletes ==
    calm /\ cl.state = "Handshaking" ~>
        \/ cl.state \in {"Established", "Closing", "Idle"}
        \/ \E c \in DOMAIN sessions : Over(c)

(* Whatever is lost, while timers run out, neither side stays half way: a  *)
(* client that is connecting or closing gets out of it (the drain timer,   *)
(* which needs a first send, gets one), and a session the server has sent  *)
(* something on is established or evicted.                                 *)
EveryoneSettles ==
    /\ ~calm /\ cl.state \in {"Handshaking", "Closing"} ~>
            cl.state \in {"Idle", "Established", "Closed"}
    /\ \A c \in 1..MaxConns :
            (~calm /\ c \in DOMAIN sessions /\ sessions[c].sent
                   /\ sessions[c].state # "Established")
                ~> (c \in DOMAIN sessions => sessions[c].state = "Established")

-----------------------------------------------------------------------------
(* Statements of the documentation that the code does not live up to.      *)

(* "Illegal packets for the current state are rejected and counted": a     *)
(* handshake packet that comes late does no harm to the connection.        *)
IllegalIsRejected ==
    [][\A d \in net :
        ClientReceive(d) /\ d.kind \in Handshakes /\ cl.state = "Established"
            => cl'.state = "Established"]_vars

(* "stays in Closing for close_drain_ms so the peer has a chance to        *)
(* observe the close": the close frame leaves the queue before the session *)
(* is evicted.                                                             *)
CloseFrameFirst ==
    [][\A c \in DOMAIN sessions \ DOMAIN sessions' :
        ~\E x \in sq' : x.owner = c /\ x.packet.kind \in {"Close", "PlainClose"}]_vars

(* "eventually evicts the session". *)
EventuallyEvicted ==
    \A c \in 1..MaxConns :
        (c \in DOMAIN sessions /\ Over(c)) ~> c \notin DOMAIN sessions

(* "replaces an existing session from the same endpoint when a new         *)
(* handshake arrives": the endpoint of a session is not refused.           *)
ReconnectReplaces ==
    [][\A d \in net, drained \in SUBSET DOMAIN sessions :
        ServerReceive(d) /\ d.kind = "ClientHello" /\ Refuse(d, drained)
            => index[d.addr] = 0]_vars
=============================================================================
