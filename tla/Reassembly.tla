------------------------------ MODULE Reassembly ------------------------------
(***************************************************************************)
(* Fragmentation: send_fragmented of every client and the server's         *)
(* FragmentReassembler of each peer (fragmentation.hpp, client.cpp,        *)
(* server.cpp).  The other direction is the same code with one peer and    *)
(* without the server's quota.  A fragment is a frame of its own: the      *)
(* sliding windows below hand it on at most once (module                   *)
(* ReliableTransport), on a reliable channel it arrives in the end and on  *)
(* another it may be lost.  A byte of a payload is the session and the     *)
(* position it was sent from, so that bytes of two messages never look     *)
(* alike.  Ages count from last_update_ms and stop at Timeout.             *)
(***************************************************************************)
EXTENDS Integers, FiniteSets, Sequences, FiniteSetsExt

CONSTANTS
    Peers,
    Channels,       \* the application channels in use
    Lengths,        \* payload lengths beyond the inline budget
    FragmentBytes,  \* MaxFragmentDataBytes
    SenderBytes,    \* max_reassembled_message_bytes of the clients
    MessageBytes,   \* the same of the server
    MaxConcurrent,  \* max_concurrent_reassemblies_per_peer
    PeerBytes,      \* max_total_reassembly_memory_per_peer
    ServerBytes,    \* max_total_reassembly_memory_server
    Timeout,        \* reassembly_timeout_ms, in clock steps
    MaxMessages,    \* bound: messages of all peers and sessions
    MaxSessions     \* bound: sessions of a peer

ReliableChannels == {"Reliable", "ReliableOrdered"}
AllChannels == ReliableChannels \cup {"Unreliable", "SequencedUnreliable"}

(* What validate_fragmentation_config and validate_server_config demand. *)
ASSUME ReassemblyAssumption ==
    /\ IsFiniteSet(Peers)
    /\ Channels \subseteq AllChannels
    /\ Lengths \subseteq Nat \ {0}
    /\ {FragmentBytes, MaxConcurrent, Timeout} \subseteq Nat \ {0}
    /\ SenderBytes \in Nat \ {0} /\ MessageBytes \in Nat \ {0}
    /\ PeerBytes \in Nat /\ PeerBytes >= MessageBytes
    /\ ServerBytes \in Nat /\ ServerBytes >= PeerBytes
    /\ MaxMessages \in Nat /\ MaxSessions \in Nat

VARIABLES
    session,    \* the number of the peer's session; fresh keys in each
    nextId,     \* _next_fragment_message_id of the peer's client
    sent,       \* history: the messages send_fragmented was called with
    wire,       \* fragments sent and not yet handled
    entries,    \* _entries of the peer's reassembler, by message id
    memory,     \* _memory_bytes of the peer's reassembler
    handed,     \* history: messages given to deliver_application_message
    dropped,    \* history: messages counted by reassembly_drops
    closed      \* peers closed for an invalid fragment

receiverVars == <<entries, memory, handed, dropped, closed>>
vars == <<session, nextId, sent, wire, receiverVars>>

-----------------------------------------------------------------------------
(* The layout of a fragmented payload.                                     *)

fragment_count_for_length(n) == (n + FragmentBytes - 1) \div FragmentBytes

Indices(n) == 0 .. fragment_count_for_length(n) - 1

fragment_size_for_index(n, i) ==
    IF n - i * FragmentBytes < FragmentBytes THEN n - i * FragmentBytes ELSE FragmentBytes

(* The positions of the payload that a fragment carries. *)
Slice(n, i) == i * FragmentBytes .. i * FragmentBytes + fragment_size_for_index(n, i) - 1

(* What the application handed to send(). *)
Payload(s, n) == [b \in 0 .. n - 1 |-> <<s, b>>]

-----------------------------------------------------------------------------

NoEntries == [id \in {} |-> 0]

Init ==
    /\ session = [p \in Peers |-> 1]
    /\ nextId = [p \in Peers |-> 1]
    /\ sent = {} /\ wire = {}
    /\ entries = [p \in Peers |-> NoEntries]
    /\ memory = [p \in Peers |-> 0]
    /\ handed = [p \in Peers |-> <<>>]
    /\ dropped = {} /\ closed = {}

Fragment(p, c, n, i) ==
    [peer |-> p, session |-> session[p], id |-> nextId[p], channel |-> c, length |-> n,
     index |-> i]

(* The fragments up to the last one queued, and the result of the send. *)
Sends(p, c, n, last, ok) ==
    /\ wire' = wire \cup {Fragment(p, c, n, i) : i \in 0 .. last}
    /\ nextId' = [nextId EXCEPT ![p] = @ + 1]
    /\ sent' = sent \cup {[peer |-> p, session |-> session[p], id |-> nextId[p],
                           channel |-> c, length |-> n, ok |-> ok]}
    /\ UNCHANGED <<session, receiverVars>>

(* Every fragment is queued. *)
SendFragmented(p, c, n) ==
    /\ Cardinality(sent) < MaxMessages /\ n <= SenderBytes
    /\ Sends(p, c, n, fragment_count_for_length(n) - 1, TRUE)

(* A queue is full at some fragment: send() fails, the fragments before it *)
(* stay queued and the id is used up.                                      *)
SendFragmentedPartly(p, c, n) ==
    /\ Cardinality(sent) < MaxMessages /\ n <= SenderBytes
    /\ \E k \in Indices(n) : Sends(p, c, n, k - 1, FALSE)

LoseFragment(f) ==
    /\ f \in wire /\ f.channel \notin ReliableChannels
    /\ wire' = wire \ {f}
    /\ UNCHANGED <<session, nextId, sent, receiverVars>>

-----------------------------------------------------------------------------
(* The reassembler of one peer.                                            *)

Without(e, ids) == [id \in DOMAIN e \ ids |-> e[id]]

With(e, id, x) == [k \in DOMAIN e \cup {id} |-> IF k = id THEN x ELSE e[k]]

SumOf(f, S) == MapThenSumSet(LAMBDA x : f[x], S)

Total == SumOf(memory, Peers)

Known(f) == f.id \in DOMAIN entries[f.peer]

(* The quotas a fragment of a new message meets. *)
OverQuota(f) ==
    /\ ~Known(f)
    /\ \/ Total + f.length > ServerBytes
       \/ Cardinality(DOMAIN entries[f.peer]) >= MaxConcurrent
       \/ memory[f.peer] + f.length > PeerBytes

TooLarge(f) == f.length > MessageBytes

Fresh(f) ==
    [channel |-> f.channel, length |-> f.length, received |-> {}, age |-> 0,
     payload |-> [b \in 0 .. f.length - 1 |-> <<0, 0>>]]

EntryOf(f) == IF Known(f) THEN entries[f.peer][f.id] ELSE Fresh(f)

Mismatch(f) == EntryOf(f).channel # f.channel \/ EntryOf(f).length # f.length

(* memcpy of the fragment, and the marks. *)
Stored(f) ==
    LET e == EntryOf(f)
        at == Slice(f.length, f.index)
    IN [e EXCEPT !.received = @ \cup {f.index}, !.age = 0,
                 !.payload = [b \in DOMAIN @ |-> IF b \in at THEN <<f.session, b>> ELSE @[b]]]

Charged(f) == memory[f.peer] + (IF Known(f) THEN 0 ELSE f.length)

Drop(f) ==
    /\ dropped' = dropped \cup {<<f.peer, f.session, f.id>>}
    /\ UNCHANGED <<entries, memory, handed, closed>>

Refuse(f) ==
    /\ closed' = closed \cup {f.peer}
    /\ UNCHANGED <<entries, memory, handed, dropped>>

(* The last fragment is in: the message goes up and its entry goes. *)
Complete(f) ==
    /\ handed' = [handed EXCEPT ![f.peer] =
                    Append(@, [session |-> session[f.peer], id |-> f.id, payload |-> Stored(f).payload])]
    /\ entries' = [entries EXCEPT ![f.peer] = Without(@, {f.id})]
    /\ memory' = [memory EXCEPT ![f.peer] = Charged(f) - f.length]
    /\ UNCHANGED <<dropped, closed>>

Keep(f) ==
    /\ entries' = [entries EXCEPT ![f.peer] = With(@, f.id, Stored(f))]
    /\ memory' = [memory EXCEPT ![f.peer] = Charged(f)]
    /\ UNCHANGED <<handed, dropped, closed>>

(* A fragment that is already there only renews the entry. *)
Renew(f) ==
    /\ entries' = [entries EXCEPT ![f.peer][f.id].age = 0]
    /\ UNCHANGED <<memory, handed, dropped, closed>>

Accept(f) ==
    IF OverQuota(f) \/ TooLarge(f) THEN Drop(f)
    ELSE IF Mismatch(f) THEN Refuse(f)
    ELSE IF f.index \in EntryOf(f).received THEN Renew(f)
    ELSE IF Stored(f).received = Indices(f.length) THEN Complete(f)
    ELSE Keep(f)

(* dispatch_message_frame and handle_fragment_payload. *)
HandleFragment(f) ==
    /\ f \in wire /\ f.peer \notin closed
    /\ wire' = wire \ {f}
    /\ Accept(f)
    /\ UNCHANGED <<session, nextId, sent>>

Stale(p) == {id \in DOMAIN entries[p] : entries[p][id].age = Timeout}

LengthsOf(e) == [id \in DOMAIN e |-> e[id].length]

Bytes(p, ids) == SumOf(LengthsOf(entries[p]), ids)

DropsOf(p) == {<<p, session[p], id>> : id \in Stale(p)}

(* An expired entry leaves its bytes counted. *)
ExpireOldLeaky ==
    /\ entries' = [p \in Peers |-> Without(entries[p], Stale(p))]
    /\ dropped' = dropped \cup UNION {DropsOf(p) : p \in Peers}
    /\ UNCHANGED memory

(* Expiry forgets on_expire. *)
ExpireOldSilent ==
    /\ entries' = [p \in Peers |-> Without(entries[p], Stale(p))]
    /\ memory' = [p \in Peers |-> memory[p] - Bytes(p, Stale(p))]
    /\ UNCHANGED dropped

(* Expiry ends at the first session that has nothing to expire. *)
ExpireOldTogether ==
    /\ \A p \in Peers : Stale(p) # {}
    /\ entries' = [p \in Peers |-> Without(entries[p], Stale(p))]
    /\ memory' = [p \in Peers |-> memory[p] - Bytes(p, Stale(p))]
    /\ dropped' = dropped \cup UNION {DropsOf(p) : p \in Peers}

(* expire_old of every session. *)
ExpireOld ==
    /\ entries' = [p \in Peers |-> Without(entries[p], Stale(p))]
    /\ memory' = [p \in Peers |-> memory[p] - Bytes(p, Stale(p))]
    /\ dropped' = dropped \cup UNION {DropsOf(p) : p \in Peers}

RunHousekeeping ==
    /\ \E p \in Peers : Stale(p) # {}
    /\ ExpireOld
    /\ UNCHANGED <<session, nextId, sent, wire, handed, closed>>

(* Time passes. *)
Age ==
    /\ \E p \in Peers : DOMAIN entries[p] \ Stale(p) # {}
    /\ entries' = [p \in Peers |-> [id \in DOMAIN entries[p] |->
                     [entries[p][id] EXCEPT !.age = IF @ < Timeout THEN @ + 1 ELSE @]]]
    /\ UNCHANGED <<session, nextId, sent, wire, memory, handed, dropped, closed>>

(* The client starts a session over: its ids begin again, and what is      *)
(* still in the network cannot be decrypted any more.                      *)
Restarted(p) ==
    /\ session[p] < MaxSessions
    /\ session' = [session EXCEPT ![p] = @ + 1]
    /\ nextId' = [nextId EXCEPT ![p] = 1]
    /\ wire' = {f \in wire : f.peer # p}
    /\ closed' = closed \ {p}

(* A session that inherits the reassembler of the one before. *)
NewSessionInherits(p) ==
    /\ Restarted(p)
    /\ UNCHANGED <<sent, entries, memory, handed, dropped>>

(* evict_session clears the old reassembler, configure() the new one. *)
NewSession(p) ==
    /\ Restarted(p)
    /\ entries' = [entries EXCEPT ![p] = NoEntries]
    /\ memory' = [memory EXCEPT ![p] = 0]
    /\ UNCHANGED <<sent, handed, dropped>>

Next ==
    \/ \E p \in Peers, c \in Channels, n \in Lengths :
          SendFragmented(p, c, n) \/ SendFragmentedPartly(p, c, n)
    \/ \E f \in wire : LoseFragment(f) \/ HandleFragment(f)
    \/ RunHousekeeping
    \/ Age
    \/ \E p \in Peers : NewSession(p)

Spec == Init /\ [][Next]_vars

(* Housekeeping is part of every tick and the clock runs.  A fragment on a *)
(* reliable channel is retransmitted until it is handled.                  *)
FairSpec ==
    /\ Spec
    /\ WF_vars(RunHousekeeping)
    /\ WF_vars(Age)
    /\ WF_vars(\E f \in wire : HandleFragment(f))

-----------------------------------------------------------------------------
(* Properties.                                                             *)

(* Every variable has its type. *)
TypeOK ==
    /\ session \in [Peers -> 1 .. MaxSessions]
    /\ nextId \in [Peers -> 1 .. MaxMessages + 1]
    /\ \A f \in wire : f.index \in Indices(f.length)
    /\ \A p \in Peers : \A id \in DOMAIN entries[p] :
          /\ id < nextId[p]
          /\ entries[p][id].received \subseteq Indices(entries[p][id].length)
          /\ entries[p][id].age \in 0 .. Timeout
    /\ memory \in [Peers -> Nat]
    /\ closed \subseteq Peers

(* The byte counter that FragmentReassembler keeps by hand over            *)
(* completion, expiry, quota refusals and clear() is the sum of its        *)
(* entries, and the three quotas hold for every peer and for the server.   *)
MemoryAccounting ==
    /\ \A p \in Peers :
          /\ memory[p] = Bytes(p, DOMAIN entries[p])
          /\ memory[p] <= PeerBytes
          /\ Cardinality(DOMAIN entries[p]) <= MaxConcurrent
    /\ Total <= ServerBytes

(* What goes up is byte for byte a payload that some send() of this        *)
(* session took in full: not a mixture, not a payload with a hole, and not *)
(* a message whose send() failed after some fragments were queued.  And it *)
(* goes up once: a fragment that comes after its message completed or      *)
(* expired never completes it again.                                       *)
HandedIsIntact ==
    \A p \in Peers : \A k \in 1 .. Len(handed[p]) :
        /\ \E x \in sent :
            /\ x.peer = p /\ x.ok
            /\ x.session = handed[p][k].session /\ x.id = handed[p][k].id
            /\ handed[p][k].payload = Payload(x.session, x.length)
        /\ \A j \in 1 .. k - 1 :
            <<handed[p][j].session, handed[p][j].id>> # <<handed[p][k].session, handed[p][k].id>>

(* No entry stays: it is completed or it expires, also when the rest of    *)
(* its message was never sent.                                             *)
EntriesLeave ==
    \A p \in Peers, id \in 1 .. MaxMessages :
        id \in DOMAIN entries[p] ~> id \notin DOMAIN entries[p]

Handed(x) ==
    \E k \in 1 .. Len(handed[x.peer]) :
        handed[x.peer][k].session = x.session /\ handed[x.peer][k].id = x.id

Reliably(p, s, id) ==
    \E x \in sent :
        /\ x.peer = p /\ x.session = s /\ x.id = id
        /\ x.ok /\ x.channel \in ReliableChannels

(* A message taken on a reliable channel goes up, unless its session ends  *)
(* or the receiver counted a drop for it (quota, size or timeout).         *)
HandedOrCounted ==
    \A p \in Peers, s \in 1 .. MaxSessions, id \in 1 .. MaxMessages :
        Reliably(p, s, id) ~>
            \/ Handed([peer |-> p, session |-> s, id |-> id])
            \/ session[p] # s
            \/ <<p, s, id>> \in dropped

(* "securecnet retransmits at the whole-message level on reliable          *)
(* channels": a message taken on one goes up unless its session ends.      *)
ReliableIsHanded ==
    \A p \in Peers, s \in 1 .. MaxSessions, id \in 1 .. MaxMessages :
        Reliably(p, s, id) ~>
            Handed([peer |-> p, session |-> s, id |-> id]) \/ session[p] # s

=============================================================================
