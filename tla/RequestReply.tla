----------------------------- MODULE RequestReply -----------------------------
(***************************************************************************)
(* ClientRequestTable and the request/reply envelope (request_reply.hpp)   *)
(* over the ReliableOrdered channel of one session: frames arrive in       *)
(* order, at most once, or not at all once the session has ended.  The     *)
(* k-th request has id k: RequestIdSource counts from 1 and its 64 bits do *)
(* not wrap in the life of a process.  The table belongs to the thread     *)
(* that runs the client; the application calls expire() and cancel_all(),  *)
(* and its server answers in any order.  The payload of a request, and of  *)
(* the answer to it, is the number of the request.                         *)
(***************************************************************************)
EXTENDS Integers, FiniteSets, Sequences

CONSTANTS
    QueueLimit,     \* frames each way before send() is refused
    MaxRequests,    \* bound: calls of request()
    MaxSessions     \* bound: sessions of the client

ASSUME RequestReplyAssumption ==
    QueueLimit \in Nat /\ MaxRequests \in Nat /\ MaxSessions \in Nat

Requests == 1 .. MaxRequests

(* What a promise was set to, or that it was not. *)
Values == [kind : {"response"}, payload : Requests]
Failures == {[kind |-> "error"], [kind |-> "timeout"], [kind |-> "closed"], [kind |-> "refused"]}
Waiting == [kind |-> "waiting"]

VARIABLES
    session,    \* number of the session; 0 while there is none
    sessions,   \* sessions there have been
    made,       \* calls of request(): the timeout and the session of each
    pending,    \* the ids in _pending
    future,     \* what each promise was set to
    toServer,   \* request frames in the channel
    toClient,   \* response and error frames in the channel
    unanswered, \* requests the server's application still holds, with their session
    unknown     \* history: frames dispatch() had no request for

channelVars == <<toServer, toClient>>
requestVars == <<session, sessions, made, pending, future, channelVars, unanswered, unknown>>

RequestInit ==
    /\ session = 1 /\ sessions = 1
    /\ made = <<>> /\ pending = {}
    /\ future = [k \in Requests |-> Waiting]
    /\ toServer = <<>> /\ toClient = <<>>
    /\ unanswered = {} /\ unknown = {}

(* RequestIdSource::next. *)
NextId == Len(made) + 1

(* The requests with a timeout. *)
Timed == {k \in 1 .. Len(made) : made[k].timed}

Settle(K, outcome) == future' = [k \in Requests |-> IF k \in K THEN outcome ELSE future[k]]

(* make_request_reply_frame of an answer. *)
Frame(kind, k) == [kind |-> kind, id |-> k, payload |-> k]

-----------------------------------------------------------------------------
(* The client.                                                             *)

(* client.send takes the frame. *)
Request(withTimeout) ==
    /\ Len(made) < MaxRequests
    /\ session # 0 /\ Len(toServer) < QueueLimit
    /\ made' = Append(made, [timed |-> withTimeout, session |-> session])
    /\ pending' = pending \cup {NextId}
    /\ toServer' = Append(toServer, NextId)
    /\ UNCHANGED <<session, sessions, future, toClient, unanswered, unknown>>

(* client.send fails: the entry made before the call is removed again. *)
RequestRefused ==
    /\ Len(made) < MaxRequests
    /\ session = 0 \/ Len(toServer) >= QueueLimit
    /\ made' = Append(made, [timed |-> FALSE, session |-> session])
    /\ Settle({NextId}, [kind |-> "refused"])
    /\ UNCHANGED <<session, sessions, pending, channelVars, unanswered, unknown>>

Outcome(frame) ==
    IF frame.kind = "error" THEN [kind |-> "error"]
    ELSE [kind |-> "response", payload |-> frame.payload]

(* A late answer replaces the timeout. *)
DispatchUnchecked ==
    /\ toClient # <<>>
    /\ toClient' = Tail(toClient)
    /\ LET frame == Head(toClient)
       IN /\ Settle({frame.id}, Outcome(frame))
          /\ pending' = pending \ {frame.id}
          /\ UNCHANGED unknown
    /\ UNCHANGED <<session, sessions, made, toServer, unanswered>>

(* An answer goes to the oldest request. *)
DispatchOldest ==
    /\ toClient # <<>>
    /\ toClient' = Tail(toClient)
    /\ LET frame == Head(toClient)
           oldest == {k \in pending : \A j \in pending : k <= j}
       IN /\ Settle(oldest, Outcome(frame))
          /\ pending' = pending \ oldest
          /\ UNCHANGED unknown
    /\ UNCHANGED <<session, sessions, made, toServer, unanswered>>

(* dispatch, as a route of the client; an answer that nobody waits for any *)
(* more is a failed route and no more.                                     *)
Dispatch ==
    /\ toClient # <<>>
    /\ toClient' = Tail(toClient)
    /\ LET frame == Head(toClient)
       IN IF frame.id \in pending
          THEN /\ Settle({frame.id}, Outcome(frame))
               /\ pending' = pending \ {frame.id}
               /\ UNCHANGED unknown
          ELSE /\ unknown' = unknown \cup {frame.id}
               /\ UNCHANGED <<pending, future>>
    /\ UNCHANGED <<session, sessions, made, toServer, unanswered>>

(* No timeouts without a session. *)
ExpireConnected ==
    \E K \in SUBSET (pending \cap Timed) :
        /\ K # {} /\ session # 0
        /\ Settle(K, [kind |-> "timeout"])
        /\ pending' = pending \ K
        /\ UNCHANGED <<session, sessions, made, channelVars, unanswered, unknown>>

(* expire(): the requests whose time has come. *)
Expire ==
    \E K \in SUBSET (pending \cap Timed) :
        /\ K # {}
        /\ Settle(K, [kind |-> "timeout"])
        /\ pending' = pending \ K
        /\ UNCHANGED <<session, sessions, made, channelVars, unanswered, unknown>>

CancelAll ==
    /\ pending # {}
    /\ Settle(pending, [kind |-> "closed"])
    /\ pending' = {}
    /\ UNCHANGED <<session, sessions, made, channelVars, unanswered, unknown>>

-----------------------------------------------------------------------------
(* The server's application.                                               *)

(* read_request_reply_frame in the handler of the envelope type. *)
ReceiveRequest ==
    /\ toServer # <<>>
    /\ toServer' = Tail(toServer)
    /\ unanswered' = unanswered \cup {[request |-> Head(toServer), session |-> session]}
    /\ UNCHANGED <<session, sessions, made, pending, future, toClient, unknown>>

(* send_response and send_error_response; the peer handle of an ended      *)
(* session fails, and an application that meets a full queue tries again.  *)
SendResponse(kind) ==
    \E u \in unanswered :
        /\ u.session # session \/ Len(toClient) < QueueLimit
        /\ unanswered' = unanswered \ {u}
        /\ toClient' = IF u.session = session
                       THEN Append(toClient, Frame(kind, u.request))
                       ELSE toClient
        /\ UNCHANGED <<session, sessions, made, pending, future, toServer, unknown>>

-----------------------------------------------------------------------------

(* The session ends: what is in its channel is gone, the table is not. *)
Disconnect ==
    /\ session # 0
    /\ session' = 0 /\ toServer' = <<>> /\ toClient' = <<>>
    /\ UNCHANGED <<sessions, made, pending, future, unanswered, unknown>>

Reconnect ==
    /\ session = 0 /\ sessions < MaxSessions
    /\ sessions' = sessions + 1 /\ session' = sessions'
    /\ UNCHANGED <<made, pending, future, channelVars, unanswered, unknown>>

RequestNext ==
    \/ Request(TRUE)
    \/ Request(FALSE)
    \/ RequestRefused
    \/ Dispatch
    \/ Expire
    \/ CancelAll
    \/ ReceiveRequest
    \/ SendResponse("response")
    \/ SendResponse("error")
    \/ Disconnect
    \/ Reconnect

RequestSpec == RequestInit /\ [][RequestNext]_requestVars

(* Both loops run, the server's application answers in the end, and the    *)
(* client's calls expire() in its loop.                                    *)
RequestFairSpec ==
    /\ RequestSpec
    /\ WF_requestVars(Dispatch)
    /\ WF_requestVars(Expire)
    /\ WF_requestVars(ReceiveRequest)
    /\ WF_requestVars(SendResponse("response") \/ SendResponse("error"))

-----------------------------------------------------------------------------
(* Properties.                                                             *)

Settled(k) == future[k] # Waiting

(* Every variable has its type. *)
RequestTypeOK ==
    /\ session \in 0 .. sessions /\ sessions \in 1 .. MaxSessions
    /\ Len(made) <= MaxRequests
    /\ pending \subseteq 1 .. Len(made)
    /\ future \in [Requests -> Values \cup Failures \cup {Waiting}]
    /\ Len(toServer) <= QueueLimit /\ Len(toClient) <= QueueLimit
    /\ unknown \subseteq 1 .. Len(made)

(* The value a caller gets is the answer to its own request, also when     *)
(* answers come in another order and after other requests timed out; and   *)
(* dispatch() finds no request only for an answer that came too late, to a *)
(* request that had timed out or was cancelled.                            *)
AnswerIsOwn ==
    /\ \A k \in Requests : future[k] \in Values => future[k].payload = k
    /\ \A k \in unknown : future[k].kind \in {"timeout", "closed"}

(* A promise that is set keeps its value: timeout, late answer, refusal    *)
(* and cancellation exclude each other.                                    *)
SetOnce == [][\A k \in Requests : Settled(k) => future'[k] = future[k]]_requestVars

Cut(k) == k <= Len(made) /\ ~made[k].timed /\ session # made[k].session

(* A request settles, unless it has no timeout and its session ended.      *)
RequestsSettle ==
    \A k \in Requests :
        (k <= Len(made)) ~> Settled(k) \/ Cut(k)

=============================================================================
