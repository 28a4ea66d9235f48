------------------------------ MODULE SendBudget ------------------------------
(***************************************************************************)
(* Pacing: the pending-packet queue, the token bucket each session sends   *)
(* from and the congestion controller that sets its rate                   *)
(* (congestion_control.hpp; refill_send_budget and flush_pending of        *)
(* client.cpp and server.cpp).                                             *)
(*                                                                         *)
(* Times are kept as ages, in milliseconds since the event, so that the    *)
(* state stays finite while the clock runs for ever; an age stops at the   *)
(* bound from which on the code no longer tells it apart from a later one. *)
(* One visit of a queued packet by flush_pending is one step.  Nothing     *)
(* else runs during a flush, but the clock advances between two passes     *)
(* over the queue, when the code reads it again.                           *)
(***************************************************************************)
EXTENDS Integers, Sequences, FiniteSets

CONSTANTS
    Sessions,        \* the sessions of a server; a client uses one of them
    Client,          \* the one a client uses
    NoOwner,         \* owner_conn_id 0: a packet sent without a session
    Second,          \* 1000, the milliseconds of the rates' unit
    MaxPacketBytes,  \* NetConfig::MaxPacketBytes
    SendRate,        \* send_budget_bytes_per_second
    Enabled, MinRate, InitialRate, MaxRate, Increase,  \* CongestionControlConfig
    LossPerMille, PressurePerMille, LossCooldown, PressureCooldown,
    MaxPending,      \* max_pending_packets
    Lengths, Priorities,  \* the packets that are queued
    MaxPackets,      \* bound: packets queued over a behaviour
    MaxSince,        \* bound: age from which a refill fills any bucket
    Horizon          \* bound: milliseconds over which the bytes are counted

VARIABLES
    role,      \* "client" or "server": which flush_pending runs
    queue,     \* _pending
    flow,      \* per session: its CongestionController and its bucket
    live,      \* the sessions in _sessions
    at,        \* the packet flush_pending visits next, 0 outside it
    packets,   \* packets queued so far
    age, sent  \* for the properties: time since the sessions' start, bytes sent

vars == <<role, queue, flow, live, at, packets, age, sent>>

Least(a, b) == IF a <= b THEN a ELSE b
Most(a, b) == IF a >= b THEN a ELSE b
Clamp(x, lo, hi) == Most(lo, Least(x, hi))

(* What validate_congestion_control_config and validate_server_config      *)
(* accept (a controller that is not enabled reads none of its settings),   *)
(* and bounds large enough for the ages to stop.                           *)
ASSUME BudgetAssumption ==
    /\ Client \in Sessions /\ NoOwner \notin Sessions
    /\ Second \in Nat \ {0} /\ MaxPacketBytes \in Nat \ {0} /\ SendRate \in Nat \ {0}
    /\ Enabled \in BOOLEAN
    /\ MinRate \in Nat \ {0} /\ InitialRate \in Nat /\ MaxRate \in Nat
    /\ Increase \in Nat \ {0}
    /\ LossPerMille \in 1..1000 /\ PressurePerMille \in 1..1000
    /\ LossCooldown \in Nat \ {0} /\ PressureCooldown \in Nat \ {0}
    /\ MaxPending \in Nat \ {0} /\ MaxPackets \in Nat /\ Horizon \in Nat
    /\ Lengths \subseteq 1..MaxPacketBytes /\ Priorities \subseteq Nat
    /\ LET max == IF MaxRate = 0 THEN SendRate ELSE MaxRate IN
       /\ MinRate <= max
       /\ InitialRate # 0 => MinRate <= InitialRate /\ InitialRate <= max
    /\ MaxSince \in Nat \ {0}
    /\ \A r \in 1..(SendRate + MaxRate) :
            (r * MaxSince) \div Second >= MaxPacketBytes /\ MaxSince >= 2 * Second

Packet == [id : 1..MaxPackets, owner : Sessions \cup {NoOwner},
           len : Lengths, priority : Priorities]

-----------------------------------------------------------------------------
(* CongestionController                                                    *)

ConfiguredMaxRate == IF Enabled /\ MaxRate # 0 THEN MaxRate ELSE SendRate

ConfiguredMinRate == IF Enabled THEN Least(Most(1, MinRate), ConfiguredMaxRate)
                                ELSE SendRate

StartRate ==
    IF Enabled
    THEN Clamp(IF InitialRate # 0 THEN InitialRate
                                  ELSE Most(ConfiguredMinRate, ConfiguredMaxRate \div 2),
               ConfiguredMinRate, ConfiguredMaxRate)
    ELSE SendRate

BucketCap(rate) == Most(MaxPacketBytes, 2 * rate)

Decreased(rate, perMille) ==
    Clamp(Most(1, (rate * perMille) \div 1000), ConfiguredMinRate, ConfiguredMaxRate)

OnAck(f, retransmitted) ==
    IF Enabled /\ ~retransmitted
    THEN [f EXCEPT !.rate = Least(ConfiguredMaxRate, f.rate + Increase)]
    ELSE f

OnLoss(f) ==
    IF Enabled /\ f.lossAge >= LossCooldown
    THEN [f EXCEPT !.rate = Decreased(f.rate, LossPerMille), !.lossAge = 0]
    ELSE f

OnBackpressure(f) ==
    IF Enabled /\ f.pressureAge >= PressureCooldown
    THEN [f EXCEPT !.rate = Decreased(f.rate, PressurePerMille), !.pressureAge = 0]
    ELSE f

-----------------------------------------------------------------------------
(* The bucket                                                              *)

(* configure() or reset_runtime(), then a full second's budget. *)
FreshFlow == [rate |-> StartRate, budget |-> StartRate, since |-> 0,
              lossAge |-> LossCooldown, pressureAge |-> PressureCooldown]

CapBudget(f) == [f EXCEPT !.budget = Least(f.budget, BucketCap(f.rate))]

(* A refill that loses the time of a fraction of a byte, and one that      *)
(* counts the same time twice.                                             *)
RefillKeepsNoRemainder(f) ==
    LET refill == (f.rate * f.since) \div Second IN
    [f EXCEPT !.budget = Least(BucketCap(f.rate), f.budget + refill), !.since = 0]

RefillWithoutRestart(f) ==
    [f EXCEPT !.budget = Least(BucketCap(f.rate), f.budget + (f.rate * f.since) \div Second)]

Refill(f) ==
    LET refill == (f.rate * f.since) \div Second IN
    IF refill > 0
    THEN [f EXCEPT !.budget = Least(BucketCap(f.rate), f.budget + refill), !.since = 0]
    ELSE f

LossUncapped(f) == OnLoss(f)
LossThenCap(f) == CapBudget(OnLoss(f))
PressureThenCap(f) == CapBudget(OnBackpressure(f))

Older(f) == [f EXCEPT !.since = Least(f.since + 1, MaxSince),
                      !.lossAge = Least(f.lossAge + 1, LossCooldown),
                      !.pressureAge = Least(f.pressureAge + 1, PressureCooldown)]

-----------------------------------------------------------------------------
(* The queue                                                               *)

TypeOK ==
    /\ role \in {"client", "server"}
    /\ queue \in Seq(Packet) /\ Len(queue) <= MaxPending
    /\ flow \in [Sessions -> [rate : ConfiguredMinRate..ConfiguredMaxRate, budget : Nat,
                              since : 0..MaxSince, lossAge : 0..LossCooldown,
                              pressureAge : 0..PressureCooldown]]
    /\ live \subseteq Sessions
    /\ at \in 0..(Len(queue) + 1)
    /\ packets \in 0..MaxPackets
    /\ age \in 0..Horizon /\ sent \in [Sessions -> Nat]

Init ==
    /\ role \in {"client", "server"}
    /\ queue = <<>>
    /\ flow = [s \in Sessions |-> FreshFlow]
    /\ live = IF role = "client" THEN {Client} ELSE Sessions
    /\ at = 0
    /\ packets = 0
    /\ age = 0
    /\ sent = [s \in Sessions |-> 0]

(* enqueue_pending_packet: in front of the first packet of lower priority. *)
Enqueue(owner, len, priority) ==
    LET p == [id |-> packets + 1, owner |-> owner, len |-> len, priority |-> priority]
        ahead == {i \in DOMAIN queue : queue[i].priority >= priority}
    IN
    /\ at = 0
    /\ packets < MaxPackets
    /\ owner \in live \/ (role = "server" /\ owner = NoOwner)
    /\ Len(queue) < MaxPending
    /\ \E n \in 0..Len(queue) :
        /\ \A i \in 1..n : i \in ahead
        /\ n < Len(queue) => n + 1 \notin ahead
        /\ queue' = SubSeq(queue, 1, n) \o <<p>> \o SubSeq(queue, n + 1, Len(queue))
    /\ packets' = packets + 1
    /\ UNCHANGED <<role, flow, live, at, age, sent>>

(* An acknowledgement that removed a reliable message. *)
Ack(s, retransmitted) ==
    /\ at = 0 /\ s \in live
    /\ flow' = [flow EXCEPT ![s] = OnAck(flow[s], retransmitted)]
    /\ UNCHANGED <<role, queue, live, at, packets, age, sent>>

(* pump_reliable found that a message timed out. *)
Loss(s) ==
    /\ at = 0 /\ s \in live
    /\ flow' = [flow EXCEPT ![s] = LossThenCap(flow[s])]
    /\ UNCHANGED <<role, queue, live, at, packets, age, sent>>

(* A session of the server is evicted; its packets stay in the queue. *)
Evict(s) ==
    /\ role = "server" /\ at = 0 /\ s \in live
    /\ live' = live \ {s}
    /\ flow' = [flow EXCEPT ![s] = FreshFlow]
    /\ sent' = [sent EXCEPT ![s] = 0]
    /\ UNCHANGED <<role, queue, at, packets, age>>

(* The client's reset_session: a new session, an empty queue. *)
Reset ==
    /\ role = "client" /\ at = 0
    /\ queue' = <<>>
    /\ flow' = [flow EXCEPT ![Client] = FreshFlow]
    /\ age' = 0
    /\ sent' = [sent EXCEPT ![Client] = 0]
    /\ UNCHANGED <<role, live, at, packets>>

(* The clock. *)
Tick ==
    /\ at \in {0, 1}
    /\ flow' = [s \in Sessions |-> IF s \in live THEN Older(flow[s]) ELSE flow[s]]
    /\ age' = Least(age + 1, Horizon)
    /\ UNCHANGED <<role, queue, live, at, packets, sent>>

-----------------------------------------------------------------------------
(* flush_pending                                                           *)

BeginFlush ==
    /\ at = 0 /\ queue # <<>>
    /\ at' = 1
    /\ UNCHANGED <<role, queue, flow, live, packets, age, sent>>

Visited == queue[at]
PacketOwner == Visited.owner
Visiting == at \in DOMAIN queue
WithoutVisited == SubSeq(queue, 1, at - 1) \o SubSeq(queue, at + 1, Len(queue))

(* The session of the packet is gone: the packet is dropped. *)
DropOrphan ==
    /\ Visiting /\ PacketOwner # NoOwner /\ PacketOwner \notin live
    /\ queue' = WithoutVisited
    /\ at' = 1
    /\ UNCHANGED <<role, flow, live, packets, age, sent>>

Refilled == Refill(flow[PacketOwner])

(* A server that gives up like the client.                                 *)
ThrottleStopsAll ==
    /\ Visiting /\ PacketOwner \in live
    /\ Refilled.budget < Visited.len
    /\ flow' = [flow EXCEPT ![PacketOwner] = PressureThenCap(Refilled)]
    /\ at' = Len(queue) + 1
    /\ UNCHANGED <<role, queue, live, packets, age, sent>>

(* Too little budget: the client gives up, the server looks at the next.   *)
Throttle ==
    /\ Visiting /\ PacketOwner \in live
    /\ Refilled.budget < Visited.len
    /\ flow' = [flow EXCEPT ![PacketOwner] = PressureThenCap(Refilled)]
    /\ at' = IF role = "client" THEN 0 ELSE at + 1
    /\ UNCHANGED <<role, queue, live, packets, age, sent>>

MaySend == /\ Visiting
           /\ PacketOwner \in live \cup {NoOwner}
           /\ PacketOwner # NoOwner => Refilled.budget >= Visited.len

(* The socket takes the packet. *)
Send ==
    /\ MaySend
    /\ IF PacketOwner = NoOwner
       THEN UNCHANGED <<flow, sent>>
       ELSE /\ flow' = [flow EXCEPT ![PacketOwner] =
                            [Refilled EXCEPT !.budget = Refilled.budget - Visited.len]]
            /\ sent' = [sent EXCEPT ![PacketOwner] =
                            IF age < Horizon THEN sent[PacketOwner] + Visited.len
                                              ELSE sent[PacketOwner]]
    /\ queue' = WithoutVisited
    /\ at' = 1
    /\ UNCHANGED <<role, live, packets, age>>

(* The socket would block, or fails; flush_pending returns. *)
SocketRefuses(blocked) ==
    /\ MaySend
    /\ IF PacketOwner = NoOwner
       THEN UNCHANGED flow
       ELSE flow' = [flow EXCEPT ![PacketOwner] = IF blocked THEN PressureThenCap(Refilled)
                                                       ELSE Refilled]
    /\ at' = 0
    /\ UNCHANGED <<role, queue, live, packets, age, sent>>

(* A pass found nothing more to send. *)
FlushReturns ==
    /\ at > Len(queue)
    /\ at' = 0
    /\ UNCHANGED <<role, queue, flow, live, packets, age, sent>>

FlushStep == \/ DropOrphan \/ Throttle \/ Send \/ FlushReturns
             \/ \E blocked \in BOOLEAN : SocketRefuses(blocked)

Next ==
    \/ \E owner \in Sessions \cup {NoOwner}, len \in Lengths, priority \in Priorities :
            Enqueue(owner, len, priority)
    \/ \E s \in Sessions, retransmitted \in BOOLEAN : Ack(s, retransmitted)
    \/ \E s \in Sessions : Loss(s) \/ Evict(s)
    \/ Reset \/ Tick \/ BeginFlush \/ FlushStep

Spec == Init /\ [][Next]_vars

(* Every tick() flushes, a flush runs to its end, time passes, and the     *)
(* socket does not refuse every packet for ever.                           *)
FairSpec == Spec /\ SF_vars(Tick) /\ WF_vars(BeginFlush) /\ WF_vars(FlushStep)
                 /\ SF_vars(Send)

-----------------------------------------------------------------------------
(* Properties                                                              *)

(* A session never holds more budget than the bucket of its current rate:  *)
(* each decrease of the rate, on a loss, a throttle or a full socket, is   *)
(* followed by a cut of the budget.                                        *)
BudgetInBucket == \A s \in Sessions : flow[s].budget <= BucketCap(flow[s].rate)

(* Pacing: t milliseconds after its start a session has sent no more than  *)
(* one second's initial budget and what the highest rate allows in t.      *)
Paced ==
    age < Horizon => \A s \in Sessions :
        Second * sent[s] <= Second * StartRate + ConfiguredMaxRate * age

Short(p) == p.owner \in live /\ flow[p.owner].budget < p.len

(* No session waits for another one's budget: when the server's flush ends *)
(* of itself, each packet it leaves is too long for its own session.       *)
OwnBudgetOnly == [][role = "server" /\ FlushReturns =>
                        \A i \in DOMAIN queue' : Short(queue'[i])]_vars

Queued(n) == \E i \in DOMAIN queue : queue[i].id = n

(* Every packet in the queue is sent, or dropped with its session: the     *)
(* remainder a refill leaves behind never starves a slow session.          *)
QueueDrains == \A n \in 1..MaxPackets : Queued(n) ~> ~Queued(n)

=============================================================================
