--------------------------- MODULE ReliableTransport ---------------------------
(***************************************************************************)
(* The two reliable channels of one established connection, in one         *)
(* direction: the sending side of scn::Client (ReliableSession of          *)
(* reliability.hpp, the pending packet queue of client.cpp), a network     *)
(* that loses, delays and reorders packets, and the receiving side of      *)
(* scn::Server (ReliableReceiveWindow, OrderedReceiveWindow), which sends  *)
(* acknowledgements back.  The opposite direction runs the same code.      *)
(*                                                                         *)
(* Time is abstracted: which timers have run out is a nondeterministic     *)
(* choice of each pump.  A packet is dispatched at most once (the replay   *)
(* window of module PacketLink), so the network carries, for each message, *)
(* the number of its transmissions that have not yet arrived.              *)
(***************************************************************************)
EXTENDS Integers, Sequences, FiniteSets, FiniteSetsExt, ReplayWindow

CONSTANTS
    Priorities,     \* SendPriority: Low < Normal < High
    Lifetimes,      \* {FALSE}: lifetime_ms = 0 only; TRUE: the message can expire
    MaxReliable,    \* bound: messages offered on the Reliable channel
    MaxOrdered,     \* bound: messages offered on the ReliableOrdered channel
    MaxCopies,      \* bound: copies of one frame in the network
    MaxPending,     \* reliability.max_pending_messages
    MaxInflight,    \* reliability.max_inflight_messages
    MaxPackets,     \* max_pending_packets
    OrderedWindow   \* reliability.ordered_receive_window

ASSUME TransportAssumption ==
    /\ Priorities \in SUBSET Nat
    /\ Lifetimes \in SUBSET BOOLEAN
    /\ MaxReliable \in Nat /\ MaxOrdered \in Nat
    /\ MaxCopies \in Nat \ {0}
    /\ MaxPending \in Nat \ {0} /\ MaxInflight \in Nat \ {0}
    /\ MaxPackets \in Nat \ {0} /\ OrderedWindow \in Nat \ {0}

Channels == {"Reliable", "ReliableOrdered"}
MaxSends(c) == IF c = "Reliable" THEN MaxReliable ELSE MaxOrdered
Ids == 1..(IF MaxReliable > MaxOrdered THEN MaxReliable ELSE MaxOrdered)
Messages == {x \in Channels \X Ids : x[2] <= MaxSends(x[1])}
Statuses == {"none", "pending", "acked", "expired", "refused"}

VARIABLES
    msgs,           \* [channel][message id]: the message and where it stands
    nextId,         \* ReliableSession::_next_message_id, per channel
    nextOrdered,    \* Client::_next_ordered_sequence
    inflight,       \* the pending messages with PendingReliableMessage::inflight
    inflightCount,  \* ReliableSession::_inflight_count, per channel
    sendCount,      \* PendingReliableMessage::send_count, up to 2
    outQ,           \* Client::_pending: one FIFO queue per priority
    net,            \* copies of each data frame on their way to the receiver
    acks,           \* copies of each ReliableAck on their way to the sender
    window,         \* ReliableSession::_received of the receiver, per channel
    nextExpected,   \* OrderedReceiveWindow::_next_expected
    buffer,         \* OrderedReceiveWindow::_buffer (its keys)
    delivered,      \* what on_message was called with, per channel
    transmitted,    \* history: times the message was queued for sending, up to 2
    accepted,       \* history: ids that accept_incoming said yes to
    overflowed      \* history: ordered numbers dropped on a full buffer

senderVars == <<msgs, nextId, nextOrdered, inflight, inflightCount, sendCount,
                outQ, transmitted>>
netVars == <<net, acks>>
receiverVars == <<window, nextExpected, buffer, delivered, accepted, overflowed>>
vars == <<senderVars, netVars, receiverVars>>

-----------------------------------------------------------------------------
(* A send that fails and leaves its message in the session. *)
PendingKept(c) == {m \in Ids : msgs[c][m].status \in {"pending", "refused"}}

(* ReliableSession::_pending. *)
Pending(c) == {m \in Ids : msgs[c][m].status = "pending"}

(* Order of ReliableSession::_pending: priority first, then age. *)
Precedes(c, k, m) ==
    \/ msgs[c][k].priority > msgs[c][m].priority
    \/ msgs[c][k].priority = msgs[c][m].priority /\ k < m

QueueLength == MapThenSumSet(LAMBDA p : Len(outQ[p]), Priorities)

(* What enqueue_pending_packet answers QueueFull to. *)
PacketQueueFull == QueueLength >= MaxPackets

Bump(n, cap) == IF n < cap THEN n + 1 ELSE n

Unsent == [status |-> "none", priority |-> 0, mortal |-> FALSE, seq |-> 0]

Init ==
    /\ msgs = [c \in Channels |-> [m \in Ids |-> Unsent]]
    /\ nextId = [c \in Channels |-> 1]
    /\ nextOrdered = 1
    /\ inflight = [c \in Channels |-> {}]
    /\ inflightCount = [c \in Channels |-> 0]
    /\ sendCount = [c \in Channels |-> [m \in Ids |-> 0]]
    /\ outQ = [p \in Priorities |-> <<>>]
    /\ net = [c \in Channels |-> [m \in Ids |-> 0]]
    /\ acks = [c \in Channels |-> [m \in Ids |-> 0]]
    /\ window = [c \in Channels |-> EmptyWindow]
    /\ nextExpected = 1
    /\ buffer = {}
    /\ delivered = [c \in Channels |-> <<>>]
    /\ transmitted = [c \in Channels |-> [m \in Ids |-> 0]]
    /\ accepted = [c \in Channels |-> {}]
    /\ overflowed = {}

-----------------------------------------------------------------------------
(* Client::send and Client::send_reliable_message.                         *)

TakesSequence(c) ==
    nextOrdered' = IF c = "ReliableOrdered" THEN nextOrdered + 1 ELSE nextOrdered

MaySend(c) ==
    /\ nextId[c] <= MaxSends(c)
    /\ c = "ReliableOrdered" => nextOrdered <= MaxOrdered

Offered(c, p, mortal, status) ==
    [status |-> status, priority |-> p, mortal |-> mortal,
     seq |-> IF c = "ReliableOrdered" THEN nextOrdered ELSE 0]

(* enqueue() fails with QueueFull: only the ordered number is used up.     *)
(* The bound leaves one number more than there are messages.               *)
SendRefused(c) ==
    /\ c = "ReliableOrdered" /\ nextOrdered <= MaxOrdered + 1
    /\ Cardinality(Pending(c)) >= MaxPending
    /\ TakesSequence(c)
    /\ UNCHANGED <<msgs, nextId, inflight, inflightCount, sendCount, outQ,
                   transmitted, netVars, receiverVars>>

(* The packet queue is full: the message is taken out of the session. *)
SendRolledBack(c, p, mortal) ==
    /\ MaySend(c)
    /\ Cardinality(Pending(c)) < MaxPending
    /\ PacketQueueFull
    /\ msgs' = [msgs EXCEPT ![c][nextId[c]] = Offered(c, p, mortal, "refused")]
    /\ nextId' = [nextId EXCEPT ![c] = nextId[c] + 1]
    /\ TakesSequence(c)
    /\ UNCHANGED <<inflight, inflightCount, sendCount, outQ, transmitted,
                   netVars, receiverVars>>

(* A note_sent that forgets the inflight limit. *)
NoteSentUnchecked(c, m) ==
    /\ inflight' = [inflight EXCEPT ![c] = inflight[c] \cup {m}]
    /\ inflightCount' = [inflightCount EXCEPT ![c] = inflightCount[c] + 1]
    /\ sendCount' = [sendCount EXCEPT ![c][m] = 1]

(* ReliableSession::note_sent: not counted when the inflight limit is met. *)
NoteSent(c, m) ==
    IF inflightCount[c] < MaxInflight
      THEN /\ inflight' = [inflight EXCEPT ![c] = inflight[c] \cup {m}]
           /\ inflightCount' = [inflightCount EXCEPT ![c] = inflightCount[c] + 1]
           /\ sendCount' = [sendCount EXCEPT ![c][m] = 1]
      ELSE UNCHANGED <<inflight, inflightCount, sendCount>>

SendQueued(c, p, mortal) ==
    /\ MaySend(c)
    /\ Cardinality(Pending(c)) < MaxPending
    /\ ~PacketQueueFull
    /\ msgs' = [msgs EXCEPT ![c][nextId[c]] = Offered(c, p, mortal, "pending")]
    /\ nextId' = [nextId EXCEPT ![c] = nextId[c] + 1]
    /\ TakesSequence(c)
    /\ outQ' = [outQ EXCEPT ![p] = Append(outQ[p], [chan |-> c, id |-> nextId[c]])]
    /\ transmitted' = [transmitted EXCEPT ![c][nextId[c]] = 1]
    /\ NoteSent(c, nextId[c])
    /\ UNCHANGED <<netVars, receiverVars>>

(* One packet of Client::flush_pending: the oldest of the highest priority. *)
Flush ==
    \E p \in Priorities :
        /\ outQ[p] # <<>>
        /\ \A q \in Priorities : q > p => outQ[q] = <<>>
        /\ LET f == Head(outQ[p]) IN
           net' = [net EXCEPT ![f.chan][f.id] = Bump(net[f.chan][f.id], MaxCopies)]
        /\ outQ' = [outQ EXCEPT ![p] = Tail(outQ[p])]
        /\ UNCHANGED <<msgs, nextId, nextOrdered, inflight, inflightCount,
                       sendCount, transmitted, acks, receiverVars>>

-----------------------------------------------------------------------------
(* Client::pump_reliable: expire_old and then resend_due for each session. *)

(* A resend_due that never retransmits what is inflight. *)
CandidatesOnce(P, I, due) == P \ I

(* What resend_due has to send when the pending messages are P, of which   *)
(* I are inflight and `due' have reached their timeout.                    *)
Candidates(P, I, due) == (P \ I) \cup due

(* The candidate at which resend_due stops after `sent', if there is one.  *)
StopsAt(c, candidates, sent) ==
    {m \in candidates \ sent :
        \A k \in candidates \ sent : k = m \/ Precedes(c, m, k)}

(* resend_due visits the candidates in order and stops at the first that   *)
(* finds the inflight limit or the packet queue, with room for `free' more *)
(* packets, full: `sent' are the candidates before that one.               *)
ResendDue(c, P, I, due, free, sent) ==
    LET candidates == Candidates(P, I, due) IN
    /\ sent \subseteq candidates
    /\ \A m \in sent, k \in candidates : Precedes(c, k, m) => k \in sent
    /\ Cardinality(sent) <= free
    /\ Cardinality(I \cup sent) <= MaxInflight
    /\ \A m \in StopsAt(c, candidates, sent) :
            \/ Cardinality(sent) = free
            \/ m \notin I /\ Cardinality(I \cup sent) = MaxInflight

(* A timed out message gives up its inflight place before its packet is    *)
(* queued, and has lapsed when the packet queue then turns it away.        *)
Lapsed(c, P, I, due, sent) == StopsAt(c, Candidates(P, I, due), sent) \cap I

(* The sequences of members of S in increasing order. *)
InOrder(S) ==
    UNION {{q \in [1..Cardinality(T) -> T] :
               \A i, j \in DOMAIN q : i < j => q[i] < q[j]} : T \in SUBSET S}

(* The messages `sent' of a session, in the order they join the queue of   *)
(* their priority.                                                         *)
Bursts(c, sent) ==
    {q \in [Priorities -> InOrder(sent)] :
        \A m \in sent, p \in Priorities :
            (\E i \in DOMAIN q[p] : q[p][i] = m) <=> msgs[c][m].priority = p}

Frames(c, q) == [i \in DOMAIN q |-> [chan |-> c, id |-> q[i]]]

Mortal(c) == {m \in Pending(c) : msgs[c][m].mortal}

(* `expired' and `due' are the messages whose lifetime, and whose          *)
(* retransmission timeout, has run out at this pump.                       *)
Pump(expired, due, sent) ==
    LET P == [c \in Channels |-> Pending(c) \ expired[c]]
        I == [c \in Channels |-> inflight[c] \ expired[c]]
        free == [c \in Channels |-> MaxPackets - QueueLength -
                   IF c = "Reliable" THEN 0 ELSE Cardinality(sent["Reliable"])]
        lapsed == [c \in Channels |-> Lapsed(c, P[c], I[c], due[c], sent[c])]
    IN  /\ \A c \in Channels : ResendDue(c, P[c], I[c], due[c], free[c], sent[c])
        /\ msgs' = [c \in Channels |-> [m \in Ids |->
                       IF m \in expired[c]
                         THEN [msgs[c][m] EXCEPT !.status = "expired"]
                         ELSE msgs[c][m]]]
        /\ inflight' = [c \in Channels |-> (I[c] \cup sent[c]) \ lapsed[c]]
        /\ inflightCount' = [c \in Channels |->
                inflightCount[c] - Cardinality(inflight[c] \cap expired[c])
                    + Cardinality(sent[c] \ I[c]) - Cardinality(lapsed[c])]
        /\ sendCount' = [c \in Channels |-> [m \in Ids |->
                IF m \in sent[c] THEN Bump(sendCount[c][m], 2) ELSE sendCount[c][m]]]
        /\ transmitted' = [c \in Channels |-> [m \in Ids |->
                IF m \in sent[c] THEN Bump(transmitted[c][m], 2) ELSE transmitted[c][m]]]
        /\ \E r \in Bursts("Reliable", sent["Reliable"]),
              o \in Bursts("ReliableOrdered", sent["ReliableOrdered"]) :
             outQ' = [p \in Priorities |->
                         outQ[p] \o Frames("Reliable", r[p])
                                 \o Frames("ReliableOrdered", o[p])]
        /\ UNCHANGED <<nextId, nextOrdered, netVars, receiverVars>>

(* A set of messages of each channel's S[c]. *)
PerChannel(S) ==
    {[c \in Channels |-> IF c = "Reliable" THEN r ELSE o] :
        r \in SUBSET S["Reliable"], o \in SUBSET S["ReliableOrdered"]}

(* A pump that finds message m of channel c not inflight, or timed out. *)
PumpFor(c, m) ==
    /\ m \in Pending(c)
    /\ \E expired \in PerChannel([d \in Channels |-> Mortal(d)]) :
       \E due \in PerChannel([d \in Channels |-> inflight[d] \ expired[d]]) :
       \E sent \in PerChannel([d \in Channels |-> Pending(d) \ expired[d]]) :
            /\ m \in inflight[c] => m \in due[c]
            /\ Pump(expired, due, sent)

PumpReliable ==
    \E expired \in PerChannel([c \in Channels |-> Mortal(c)]) :
    \E due \in PerChannel([c \in Channels |-> inflight[c] \ expired[c]]) :
    \E sent \in PerChannel([c \in Channels |-> Pending(c) \ expired[c]]) :
        Pump(expired, due, sent)

-----------------------------------------------------------------------------
(* Server::dispatch_message_frame, reliable branch.                        *)

(* An accept that leaves the run behind the expected message buffered. *)
OrderedAcceptNoDrain(seq) ==
    /\ IF seq = nextExpected
         THEN /\ nextExpected' = seq + 1
              /\ delivered' = [delivered EXCEPT !["ReliableOrdered"] = Append(@, seq)]
              /\ UNCHANGED buffer
         ELSE /\ buffer' = IF seq > nextExpected THEN buffer \cup {seq} ELSE buffer
              /\ UNCHANGED <<nextExpected, delivered>>
    /\ UNCHANGED overflowed

(* OrderedReceiveWindow::accept: deliver the expected message and the run  *)
(* buffered behind it, drop a stale one, buffer an early one or find the   *)
(* buffer full.                                                            *)
OrderedAccept(seq) ==
    \/ /\ seq = nextExpected
       /\ \E n \in (seq + 1)..(MaxOrdered + 1) :
            /\ (seq + 1)..(n - 1) \subseteq buffer
            /\ n \notin buffer
            /\ nextExpected' = n
            /\ buffer' = buffer \ (seq..(n - 1))
            /\ delivered' = [delivered EXCEPT !["ReliableOrdered"] =
                                @ \o [i \in 1..(n - seq) |-> seq + i - 1]]
       /\ UNCHANGED overflowed
    \/ /\ seq < nextExpected \/ (seq > nextExpected /\ seq \in buffer)
       /\ UNCHANGED <<nextExpected, buffer, delivered, overflowed>>
    \/ /\ seq > nextExpected /\ seq \notin buffer
       /\ Cardinality(buffer) < OrderedWindow
       /\ buffer' = buffer \cup {seq}
       /\ UNCHANGED <<nextExpected, delivered, overflowed>>
    \/ /\ seq > nextExpected /\ seq \notin buffer
       /\ Cardinality(buffer) >= OrderedWindow
       /\ overflowed' = overflowed \cup {seq}
       /\ UNCHANGED <<nextExpected, buffer, delivered>>

(* queue_control_ack: its failure on a full packet queue is ignored. *)
QueueAck(c, m) ==
    \/ acks' = [acks EXCEPT ![c][m] = Bump(acks[c][m], MaxCopies)]
    \/ UNCHANGED acks

AcceptIncoming(c, m) ==
    /\ window' = [window EXCEPT ![c] = Advance(window[c], m)]
    /\ accepted' = [accepted EXCEPT ![c] = accepted[c] \cup {m}]
    /\ IF c = "ReliableOrdered"
         THEN OrderedAccept(msgs[c][m].seq)
         ELSE /\ delivered' = [delivered EXCEPT ![c] = Append(delivered[c], m)]
              /\ UNCHANGED <<nextExpected, buffer, overflowed>>

ReceiveData(c, m) ==
    /\ net[c][m] > 0
    /\ net' = [net EXCEPT ![c][m] = net[c][m] - 1]
    /\ QueueAck(c, m)
    /\ \/ Accepts(window[c], m) /\ AcceptIncoming(c, m)
       \/ ~Accepts(window[c], m) /\ UNCHANGED receiverVars
    /\ UNCHANGED senderVars

(* Client::dispatch_message_frame, ReliableAck: ReliableSession::acknowledge. *)
ReceiveAck(c, m) ==
    /\ acks[c][m] > 0
    /\ acks' = [acks EXCEPT ![c][m] = acks[c][m] - 1]
    /\ IF m \in Pending(c)
         THEN /\ msgs' = [msgs EXCEPT ![c][m].status = "acked"]
              /\ inflight' = [inflight EXCEPT ![c] = inflight[c] \ {m}]
              /\ inflightCount' = [inflightCount EXCEPT ![c] =
                    IF m \in inflight[c] THEN @ - 1 ELSE @]
         ELSE UNCHANGED <<msgs, inflight, inflightCount>>
    /\ UNCHANGED <<nextId, nextOrdered, sendCount, outQ, transmitted, net,
                   receiverVars>>

(* The network. *)
LoseData(c, m) ==
    /\ net[c][m] > 0
    /\ net' = [net EXCEPT ![c][m] = net[c][m] - 1]
    /\ UNCHANGED <<senderVars, acks, receiverVars>>

LoseAck(c, m) ==
    /\ acks[c][m] > 0
    /\ acks' = [acks EXCEPT ![c][m] = acks[c][m] - 1]
    /\ UNCHANGED <<senderVars, net, receiverVars>>

-----------------------------------------------------------------------------
Next ==
    \/ \E c \in Channels : SendRefused(c)
    \/ \E c \in Channels, p \in Priorities, mortal \in Lifetimes :
            SendRolledBack(c, p, mortal) \/ SendQueued(c, p, mortal)
    \/ Flush
    \/ PumpReliable
    \/ \E c \in Channels, m \in Ids :
            \/ ReceiveData(c, m) \/ ReceiveAck(c, m)
            \/ LoseData(c, m) \/ LoseAck(c, m)

Spec == Init /\ [][Next]_vars

(* tick() runs flush_pending, pump_reliable and pump_receive over and over *)
(* and time passes, so every queued packet is sent in the end and every    *)
(* retransmission timeout runs out again and again.  The network is fair:  *)
(* a message transmitted again and again arrives, and so do its acks.      *)
Fairness ==
    /\ WF_vars(Flush)
    /\ \A x \in Messages : LET c == x[1]  m == x[2] IN
        /\ SF_vars(PumpFor(c, m))
        /\ SF_vars(ReceiveData(c, m) /\ acks'[c][m] > 0)
        /\ SF_vars(ReceiveAck(c, m))

FairSpec == Spec /\ Fairness

-----------------------------------------------------------------------------
Frame == [chan : Channels, id : Ids]

MessageType ==
    [status : Statuses, priority : Nat, mortal : BOOLEAN, seq : 0..MaxOrdered]

(* Every variable has its type: in particular the inflight counter never   *)
(* wraps below zero and an inflight message is still pending.              *)
TypeOK ==
    /\ msgs \in [Channels -> [Ids -> MessageType]]
    /\ nextId \in [Channels -> Nat \ {0}]
    /\ nextOrdered \in 1..(MaxOrdered + 2)
    /\ inflight \in [Channels -> SUBSET Ids]
    /\ \A c \in Channels : inflight[c] \subseteq Pending(c)
    /\ inflightCount \in [Channels -> Nat]
    /\ sendCount \in [Channels -> [Ids -> 0..2]]
    /\ outQ \in [Priorities -> Seq(Frame)]
    /\ net \in [Channels -> [Ids -> 0..MaxCopies]]
    /\ acks \in [Channels -> [Ids -> 0..MaxCopies]]
    /\ window \in [Channels -> WindowType]
    /\ nextExpected \in 1..(MaxOrdered + 1)
    /\ buffer \in SUBSET (1..MaxOrdered)
    /\ delivered \in [Channels -> Seq(Nat)]
    /\ transmitted \in [Channels -> [Ids -> 0..2]]
    /\ accepted \in [Channels -> SUBSET Ids]
    /\ overflowed \in SUBSET (1..MaxOrdered)

(* ReliableSession::_inflight_count is kept by hand in enqueue, note_sent, *)
(* acknowledge, resend_due and expire_old: it stays the number of pending  *)
(* messages flagged inflight, never above max_inflight_messages.           *)
InflightAccounting ==
    \A c \in Channels : /\ inflightCount[c] = Cardinality(inflight[c])
                        /\ inflightCount[c] <= MaxInflight

(* However often a message is retransmitted, lost, overtaken or late, the  *)
(* application sees it at most once (accept_incoming).                     *)
NoDuplicateDelivery ==
    \A c \in Channels : \A i, j \in DOMAIN delivered[c] :
        delivered[c][i] = delivered[c][j] => i = j

(* The ordered channel releases 1, 2, 3, ... with no gap, and holds back   *)
(* only numbers beyond the next one, at most ordered_receive_window.       *)
OrderedDelivery ==
    /\ Len(delivered["ReliableOrdered"]) = nextExpected - 1
    /\ \A i \in DOMAIN delivered["ReliableOrdered"] :
            delivered["ReliableOrdered"][i] = i
    /\ \A s \in buffer : s > nextExpected
    /\ Cardinality(buffer) <= OrderedWindow

Overtaken(c, m) == window[c].initialized /\ window[c].latest - m >= Window

TakenOver(c, m) ==
    \/ c = "Reliable" /\ \E i \in DOMAIN delivered[c] : delivered[c][i] = m
    \/ c = "ReliableOrdered" /\ \/ msgs[c][m].seq < nextExpected
                                \/ msgs[c][m].seq \in buffer \cup overflowed

(* The frame is acknowledged before it is looked at.  What the sender has  *)
(* forgotten as acknowledged was nevertheless taken over by the receiver,  *)
(* except for a frame that arrived too far behind the window or found the  *)
(* ordered buffer full.                                                    *)
AckedIsTakenOver ==
    \A c \in Channels, m \in Ids :
        msgs[c][m].status = "acked" => TakenOver(c, m) \/ Overtaken(c, m)

(* A message whose send() reported an error is never handed to the peer's  *)
(* application: the rollback leaves no packet of it behind.                *)
RefusedIsNotSent ==
    \A c \in Channels, m \in Ids :
        msgs[c][m].status = "refused" =>
            /\ m \notin accepted[c]
            /\ net[c][m] = 0 /\ acks[c][m] = 0

(* Every message that send() took is acknowledged or expires in the end.   *)
EventuallySettled ==
    \A x \in Messages : LET c == x[1]  m == x[2] IN
        msgs[c][m].status = "pending" ~> msgs[c][m].status # "pending"

(* Numbers of the ordered channel that no message still carries. *)
Gaps ==
    {s \in 1..(nextOrdered - 1) :
        \A m \in Ids : LET msg == msgs["ReliableOrdered"][m] IN
            msg.seq = s => msg.status \notin {"pending", "acked"}}

Delivered(c, m) ==
    \E i \in DOMAIN delivered[c] :
        delivered[c][i] = IF c = "Reliable" THEN m ELSE msgs[c][m].seq

(* A message that send() took and that has no lifetime reaches the peer's  *)
(* application, unless on the ordered channel an earlier number is missing *)
(* or was dropped on a full buffer.                                        *)
EventuallyDelivered ==
    \A x \in Messages : LET c == x[1]  m == x[2] IN
        (msgs[c][m].status = "pending" /\ ~msgs[c][m].mortal)
            ~> \/ Delivered(c, m)
               \/ /\ c = "ReliableOrdered"
                  /\ \E s \in Gaps \cup overflowed : s <= msgs[c][m].seq

-----------------------------------------------------------------------------
(* The channel this implements: a message is taken when send() succeeds,   *)
(* and is known to the application by its id or its ordered number.        *)
Sent(c, m) == msgs[c][m].status \in {"pending", "acked", "expired"}

Taken == [c \in Channels |->
    {IF c = "Reliable" THEN m ELSE msgs[c][m].seq : m \in {k \in Ids : Sent(c, k)}}]

Channel == INSTANCE MessageChannel WITH taken <- Taken, delivered <- delivered

(* With all its queues, timers, losses and retransmissions the transport   *)
(* implements the message channel: no delivery twice, out of order, or of  *)
(* a message that send() refused.                                          *)
ImplementsChannel == Channel!ChannelSpec

-----------------------------------------------------------------------------
(* Statements of the documentation that the code does not live up to.      *)

(* "updated from first-send ACK timing": a round trip is measured only on  *)
(* a message that went out once.                                           *)
RttSampledOnFirstSend ==
    \A c \in Channels, m \in Ids :
        msgs[c][m].status = "acked" /\ sendCount[c][m] = 1 => transmitted[c][m] = 1

(* "retransmitted until acknowledged": once the sender stops because of an *)
(* acknowledgement, the receiver has the message.                          *)
AckedReachesApplication ==
    \A c \in Channels, m \in Ids :
        msgs[c][m].status = "acked" =>
            \/ Delivered(c, m)
            \/ c = "ReliableOrdered" /\ msgs[c][m].seq \in buffer

(* "retransmitted and delivered in-order": an ordered message that send()  *)
(* took and that cannot expire is delivered in the end.                    *)
OrderedEventuallyDelivered ==
    \A m \in 1..MaxOrdered :
        (msgs["ReliableOrdered"][m].status = "pending" /\ ~msgs["ReliableOrdered"][m].mortal)
            ~> Delivered("ReliableOrdered", m)
=============================================================================
