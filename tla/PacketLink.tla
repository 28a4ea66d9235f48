------------------------------ MODULE PacketLink ------------------------------
(***************************************************************************)
(* The encrypted packets of one session in one direction: queue_packet,    *)
(* flush_pending, the replay window and the sequenced channel (client.cpp, *)
(* server.cpp, protocol.hpp, reliability.hpp).  A packet is its sequence   *)
(* number, which with the connection id is the nonce, and the number of    *)
(* the SequencedUnreliable message in it, 0 when it carries anything else. *)
(* UDP loses, repeats and reorders: what was sent once may arrive at any   *)
(* time, any number of times or never.  flush_pending leaves a packet that *)
(* is over its budget for smaller ones behind it, so packets leave the     *)
(* queue in any order, and the priorities that place them there say        *)
(* nothing more.                                                           *)
(***************************************************************************)
EXTENDS Integers, FiniteSets, Sequences, ReplayWindow

CONSTANTS
    MaxPending,     \* max_pending_packets
    MaxPackets      \* bound: packets that are sealed

ASSUME LinkAssumption == MaxPending \in Nat /\ MaxPackets \in Nat

VARIABLES
    seq,        \* _seq, send_seq
    nextNumber, \* _next_sequenced_sequence
    queued,    \* packets in the queue
    net,        \* packets that went to the network
    window,     \* _packet_window of the receiver
    handled,    \* history: packets given to the handlers, in order
    latest      \* _latest of SequencedReceiveWindow; 0 until the first

senderVars == <<seq, nextNumber, queued, net>>
receiverVars == <<window, handled, latest>>
vars == <<senderVars, receiverVars>>

Init ==
    /\ seq = 1 /\ nextNumber = 1
    /\ queued = {} /\ net = {}
    /\ window = EmptyWindow /\ handled = <<>> /\ latest = 0

-----------------------------------------------------------------------------

QueueFull == Cardinality(queued) >= MaxPending

(* A packet sealed with the number of packets in flight. *)
NonceOfQueue == Cardinality(queued) + 1

Nonce == seq

(* The number for the packet and the one for a sequenced message are taken *)
(* before the queue is tried.                                              *)
Number(sequenced) == IF sequenced THEN nextNumber ELSE 0

TakeNumbers(sequenced) ==
    /\ seq <= MaxPackets
    /\ seq' = seq + 1
    /\ nextNumber' = IF sequenced THEN nextNumber + 1 ELSE nextNumber

QueuePacket(sequenced) ==
    /\ TakeNumbers(sequenced)
    /\ ~QueueFull
    /\ queued' = queued \cup {[seq |-> Nonce, number |-> Number(sequenced)]}
    /\ UNCHANGED <<net, receiverVars>>

(* QueueFull: both numbers are used up. *)
QueueRefused(sequenced) ==
    /\ TakeNumbers(sequenced)
    /\ QueueFull
    /\ UNCHANGED <<queued, net, receiverVars>>

FlushPending(p) ==
    /\ p \in queued
    /\ queued' = queued \ {p}
    /\ net' = net \cup {p}
    /\ UNCHANGED <<seq, nextNumber, receiverVars>>

(* A message shown whatever was shown before. *)
SequencedAcceptsAny(n) == n # 0

SequencedAccepts(n) == n # 0 /\ n > latest

(* handle_established_packet, handle_session_packet.  A packet the window  *)
(* refuses changes nothing.                                                *)
ReceivePacket(p) ==
    /\ p \in net
    /\ Accepts(window, p.seq)
    /\ window' = Advance(window, p.seq)
    /\ handled' = Append(handled, p)
    /\ latest' = IF SequencedAccepts(p.number) THEN p.number ELSE latest
    /\ UNCHANGED senderVars

Next ==
    \/ \E sequenced \in BOOLEAN : QueuePacket(sequenced) \/ QueueRefused(sequenced)
    \/ \E p \in queued : FlushPending(p)
    \/ \E p \in net : ReceivePacket(p)

Spec == Init /\ [][Next]_vars

-----------------------------------------------------------------------------
(* Properties.                                                             *)

Packets == [seq : Nat, number : Nat]

Handled == {handled[i].seq : i \in DOMAIN handled}

(* Every variable has its type. *)
TypeOK ==
    /\ seq \in Nat /\ nextNumber \in Nat
    /\ queued \in SUBSET Packets /\ net \in SUBSET Packets
    /\ window \in WindowType
    /\ handled \in Seq(Packets)
    /\ latest \in Nat

(* No two packets of a session are sealed with the same sequence number,   *)
(* so no nonce is used for two plaintexts, also around refused packets.    *)
NonceUnique ==
    \A p, q \in queued \cup net : p.seq = q.seq => p = q

(* A packet that is neither a repetition nor a whole window behind the     *)
(* newest one is handled: the window refuses nothing else, however the     *)
(* arrivals before it shifted the mask.                                    *)
FreshIsHandled ==
    \A p \in net :
        p.seq \notin Handled /\ window.latest - p.seq < Window => Accepts(window, p.seq)

Link == INSTANCE BestEffortLink WITH sent <- queued \cup net, shown <- latest

(* The packets of a session are a link that handles a packet at most once  *)
(* and shows only what is newer than everything shown.                     *)
ImplementsLink == Link!LinkSpec

=============================================================================
