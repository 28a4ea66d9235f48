--------------------------- MODULE ReassemblyProofs ---------------------------
(***************************************************************************)
(* What the reassemblers hand up, for every number of peers and sessions,  *)
(* every fragment size, message length and quota: a payload that was sent  *)
(* in full, and each one once.                                             *)
(***************************************************************************)
EXTENDS Reassembly, TLAPS

-----------------------------------------------------------------------------
(* The layout of a payload                                                 *)

(* What the layout uses of the configuration.                              *)
LEMMA FragmentBytesType == FragmentBytes \in Nat \ {0} /\ FragmentBytes \in Nat /\ FragmentBytes > 0
  BY ReassemblyAssumption

(* The quotient and the remainder of the integer division.                 *)
LEMMA Quotient ==
    ASSUME NEW x \in Nat, NEW d \in Nat \ {0}
    PROVE  /\ x \div d \in Nat
           /\ (x \div d) * d <= x /\ x < (x \div d) * d + d
  OBVIOUS

(* Multiplication by a natural keeps the order.                            *)
LEMMA ProductMonotone ==
    ASSUME NEW x \in Nat, NEW y \in Nat, NEW d \in Nat, x <= y
    PROVE  x * d \in Nat /\ y * d \in Nat /\ x * d <= y * d
  OBVIOUS

(* fragment_count_for_length rounds up.                                    *)
LEMMA CountRoundsUp ==
    ASSUME NEW n \in Nat \ {0}
    PROVE  /\ fragment_count_for_length(n) \in Nat \ {0}
           /\ fragment_count_for_length(n) * FragmentBytes >= n
           /\ fragment_count_for_length(n) * FragmentBytes < n + FragmentBytes
  <1>. DEFINE F == FragmentBytes
              c == (n + F - 1) \div F
  <1>1. F \in Nat \ {0} /\ n + F - 1 \in Nat
    BY FragmentBytesType
  <1>2. c \in Nat /\ c * F <= n + F - 1 /\ n + F - 1 < c * F + F
    BY <1>1, Quotient
  <1>3. c # 0
    <2>. SUFFICES ASSUME c = 0 PROVE FALSE
      OBVIOUS
    <2>1. c * F = 0
      BY <1>1
    <2>. HIDE DEF c
    <2>. QED
      BY <2>1, <1>1, <1>2
  <1>4. c * F \in Nat
    BY <1>1, <1>2
  <1>. HIDE DEF c
  <1>5. c * F >= n /\ c * F < n + F
    BY <1>1, <1>2, <1>4
  <1>. QED
    BY <1>2, <1>3, <1>5 DEF c, fragment_count_for_length

(* A fragment lies within the payload.                                     *)
LEMMA SliceWithin ==
    ASSUME NEW n \in Nat \ {0}, NEW i \in Indices(n)
    PROVE  i \in Nat /\ Slice(n, i) \subseteq 0 .. n - 1
  <1>. DEFINE F == FragmentBytes
              k == i * F
  <1>1. i \in Nat /\ F \in Nat /\ k \in Nat
    BY CountRoundsUp, FragmentBytesType DEF Indices
  <1>2. Slice(n, i) = k .. k + (IF n - k < F THEN n - k ELSE F) - 1
    BY DEF Slice, fragment_size_for_index
  <1>. HIDE DEF k
  <1>3. ASSUME NEW b \in Slice(n, i) PROVE b \in 0 .. n - 1
    BY <1>1, <1>2
  <1>. QED
    BY <1>1, <1>3

(* Every byte of the payload is in one of the fragments.                   *)
LEMMA SlicesCover ==
    ASSUME NEW n \in Nat \ {0}, NEW b \in 0 .. n - 1
    PROVE  \E i \in Indices(n) : b \in Slice(n, i)
  <1>. DEFINE F == FragmentBytes
              c == fragment_count_for_length(n)
              i == b \div F
              k == i * F
  <1>1. F \in Nat /\ F > 0 /\ b \in Nat /\ b < n /\ n \in Nat
    BY FragmentBytesType
  <1>2. i \in Nat /\ k <= b /\ b < k + F
    BY <1>1, Quotient
  <1>3. c \in Nat /\ c * F >= n /\ c * F \in Nat
    BY <1>1, CountRoundsUp
  <1>4. k \in Nat
    BY <1>1, <1>2
  <1>. HIDE DEF c, i
  <1>5. i < c
    <2>. SUFFICES ASSUME c <= i PROVE FALSE
      BY <1>2, <1>3
    <2>1. c * F <= i * F
      BY <1>1, <1>2, <1>3, ProductMonotone
    <2>. HIDE DEF k
    <2>2. c * F <= k
      BY <2>1 DEF k
    <2>. QED
      BY <2>2, <1>1, <1>2, <1>3, <1>4
  <1>6. i \in Indices(n)
    BY <1>2, <1>3, <1>5 DEF Indices, c
  <1>7. Slice(n, i) = k .. k + (IF n - k < F THEN n - k ELSE F) - 1
    BY DEF Slice, fragment_size_for_index
  <1>. HIDE DEF k
  <1>8. b \in Slice(n, i)
    BY <1>1, <1>2, <1>4, <1>7
  <1>. QED
    BY <1>6, <1>8

-----------------------------------------------------------------------------
(* What the steps preserve                                                 *)

Messages ==
    [peer : Peers, session : Nat, id : Nat, channel : AllChannels, length : Nat \ {0},
     ok : BOOLEAN]

Fragments ==
    [peer : Peers, session : Nat, id : Nat, channel : AllChannels, length : Nat \ {0},
     index : Nat]

Payloads == UNION {[0 .. n - 1 -> Nat \X Nat] : n \in Nat}

EntryType ==
    [channel : AllChannels, length : Nat \ {0}, received : SUBSET Nat, age : Nat,
     payload : Payloads]

Tables == UNION {[D -> EntryType] : D \in SUBSET Nat}

HandedType == [session : Nat, id : Nat, payload : Payloads]

Types ==
    /\ session \in [Peers -> Nat] /\ nextId \in [Peers -> Nat]
    /\ sent \in SUBSET Messages /\ wire \in SUBSET Fragments
    /\ entries \in [Peers -> Tables] /\ handed \in [Peers -> Seq(HandedType)]

(* The message that an id of the peer's session belongs to. *)
Of(x, p, id) == x \in sent /\ x.peer = p /\ x.session = session[p] /\ x.id = id

LastIndex(n) == fragment_count_for_length(n) - 1

(* An id is used for one message of a session.                             *)
SentOnce ==
    /\ \A x \in sent :
          /\ x.session <= session[x.peer]
          /\ x.session = session[x.peer] => x.id < nextId[x.peer]
    /\ \A x, y \in sent :
          x.peer = y.peer /\ x.session = y.session /\ x.id = y.id => x = y

(* f is a fragment of x; the last fragment was never queued when the send  *)
(* failed.                                                                 *)
Fits(f, x) ==
    /\ f.session = x.session /\ f.channel = x.channel /\ f.length = x.length
    /\ f.index \in Indices(x.length)
    /\ ~x.ok => f.index # LastIndex(x.length)

OnWire == \A f \in wire : \E x \in sent : Of(x, f.peer, f.id) /\ Fits(f, x)

(* The entry e holds the fragments of x that it says it received.          *)
Holds(e, x) ==
    /\ e.channel = x.channel /\ e.length = x.length
    /\ e.received \subseteq Indices(x.length)
    /\ ~x.ok => LastIndex(x.length) \notin e.received
    /\ e.payload \in [0 .. x.length - 1 -> Nat \X Nat]
    /\ \A i \in e.received : \A b \in Slice(x.length, i) : e.payload[b] = <<x.session, b>>

InEntries ==
    \A p \in Peers : \A id \in DOMAIN entries[p] :
        /\ \E x \in sent : Of(x, p, id) /\ Holds(entries[p][id], x)
        /\ entries[p][id].received # Indices(entries[p][id].length)

(* What was received is no longer on its way.                              *)
Arrived ==
    \A p \in Peers : \A id \in DOMAIN entries[p] : \A f \in wire :
        f.peer = p /\ f.id = id => f.index \notin entries[p][id].received

(* Of a message that was handed up nothing is left.                        *)
Done ==
    \A p \in Peers : \A k \in 1 .. Len(handed[p]) :
        handed[p][k].session = session[p] =>
            /\ handed[p][k].id \notin DOMAIN entries[p]
            /\ \A f \in wire : f.peer = p => f.id # handed[p][k].id

Fragmented ==
    /\ Types /\ SentOnce /\ OnWire /\ InEntries /\ Arrived /\ Done
    /\ HandedIsIntact

-----------------------------------------------------------------------------
(* Steps that only lose something                                          *)

(* e is the entry d, its age apart. *)
Same(e, d) ==
    /\ e.channel = d.channel /\ e.length = d.length
    /\ e.received = d.received /\ e.payload = d.payload

(* Fragments that are lost or dropped, entries that expire or grow old:    *)
(* what remains is as sound as it was.                                     *)
LEMMA LosingKeeps ==
    ASSUME Fragmented, UNCHANGED <<session, nextId, sent, handed>>,
           wire' \subseteq wire, entries' \in [Peers -> Tables],
           \A p \in Peers : \A id \in DOMAIN entries'[p] :
              id \in DOMAIN entries[p] /\ Same(entries'[p][id], entries[p][id])
    PROVE  Fragmented'
  <1>1. Types'
    BY DEF Fragmented, Types
  <1>2. SentOnce' /\ HandedIsIntact'
    BY DEF Fragmented, SentOnce, HandedIsIntact
  <1>3. OnWire'
    BY DEF Fragmented, OnWire, Of
  <1>4. InEntries'
    <2>. SUFFICES ASSUME NEW p \in Peers, NEW id \in DOMAIN entries'[p]
                  PROVE  /\ \E x \in sent : Of(x, p, id)' /\ Holds(entries'[p][id], x)
                         /\ entries'[p][id].received # Indices(entries'[p][id].length)
      BY DEF InEntries
    <2>1. id \in DOMAIN entries[p] /\ Same(entries'[p][id], entries[p][id])
      OBVIOUS
    <2>2. PICK x \in sent : Of(x, p, id) /\ Holds(entries[p][id], x)
      BY <2>1 DEF Fragmented, InEntries
    <2>3. Of(x, p, id)' /\ Holds(entries'[p][id], x)
      BY <2>1, <2>2 DEF Same, Holds, Of
    <2>4. entries'[p][id].received # Indices(entries'[p][id].length)
      BY <2>1 DEF Fragmented, InEntries, Same
    <2>. QED
      BY <2>3, <2>4
  <1>5. Arrived'
    BY DEF Fragmented, Arrived, Same
  <1>6. Done'
    BY DEF Fragmented, Done
  <1>. QED
    BY <1>1, <1>2, <1>3, <1>4, <1>5, <1>6 DEF Fragmented

(* What is known of one entry and of one peer's table.                     *)
LEMMA TableTypes ==
    ASSUME Types, NEW p \in Peers
    PROVE  /\ entries[p] \in Tables /\ DOMAIN entries[p] \in SUBSET Nat
           /\ \A id \in DOMAIN entries[p] : entries[p][id] \in EntryType
           /\ entries[p] = [id \in DOMAIN entries[p] |-> entries[p][id]]
           /\ session[p] \in Nat /\ nextId[p] \in Nat
           /\ handed[p] \in Seq(HandedType)
  <1>1. entries[p] \in Tables
    BY DEF Types
  <1>2. PICK D \in SUBSET Nat : entries[p] \in [D -> EntryType]
    BY <1>1 DEF Tables
  <1>. QED
    BY <1>1, <1>2 DEF Types

(* A function from ids to entries is a table.                              *)
LEMMA IsTable ==
    ASSUME NEW D \in SUBSET Nat, NEW t \in [D -> EntryType]
    PROVE  t \in Tables
  BY DEF Tables

(* The network loses a fragment of an unreliable channel.                  *)
LEMMA LoseKeeps ==
    ASSUME Fragmented, NEW f \in wire, LoseFragment(f)
    PROVE  Fragmented'
  <1>1. /\ UNCHANGED <<session, nextId, sent, handed, entries>> /\ wire' \subseteq wire
        /\ entries' \in [Peers -> Tables]
    BY DEF LoseFragment, receiverVars, Fragmented, Types
  <1>2. \A p \in Peers : \A id \in DOMAIN entries'[p] :
           id \in DOMAIN entries[p] /\ Same(entries'[p][id], entries[p][id])
    BY <1>1 DEF Same
  <1>. QED
    BY <1>1, <1>2, LosingKeeps

(* expire_old of every session.                                            *)
LEMMA HousekeepingKeeps ==
    ASSUME Fragmented, RunHousekeeping
    PROVE  Fragmented'
  <1>1. /\ UNCHANGED <<session, nextId, sent, handed, wire>>
        /\ entries' = [p \in Peers |-> Without(entries[p], Stale(p))]
    BY DEF RunHousekeeping, ExpireOld
  <1>2. ASSUME NEW p \in Peers
        PROVE  /\ entries'[p] \in Tables
               /\ \A id \in DOMAIN entries'[p] :
                     id \in DOMAIN entries[p] /\ entries'[p][id] = entries[p][id]
    <2>1. entries'[p] = [id \in DOMAIN entries[p] \ Stale(p) |-> entries[p][id]]
      BY <1>1 DEF Without
    <2>2. entries'[p] \in [DOMAIN entries[p] \ Stale(p) -> EntryType]
      BY <2>1, TableTypes, Zenon DEF Fragmented
    <2>3. DOMAIN entries[p] \ Stale(p) \in SUBSET Nat
      BY TableTypes, Zenon DEF Fragmented
    <2>. QED
      BY <2>1, <2>2, <2>3, IsTable
  <1>3. entries' \in [Peers -> Tables]
    BY <1>1, <1>2
  <1>4. \A p \in Peers : \A id \in DOMAIN entries'[p] :
           id \in DOMAIN entries[p] /\ Same(entries'[p][id], entries[p][id])
    BY <1>2 DEF Same
  <1>. QED
    BY <1>1, <1>3, <1>4, LosingKeeps

(* Time passes: only the ages change.                                      *)
LEMMA AgeKeeps ==
    ASSUME Fragmented, Age
    PROVE  Fragmented'
  <1>. DEFINE Older(e) == [e EXCEPT !.age = IF e.age < Timeout THEN e.age + 1 ELSE e.age]
  <1>1. /\ UNCHANGED <<session, nextId, sent, handed, wire>>
        /\ entries' = [p \in Peers |-> [id \in DOMAIN entries[p] |-> Older(entries[p][id])]]
    BY DEF Age
  <1>2. ASSUME NEW e \in EntryType
        PROVE  Older(e) \in EntryType /\ Same(Older(e), e)
    <2>1. (IF e.age < Timeout THEN e.age + 1 ELSE e.age) \in Nat
      BY ReassemblyAssumption DEF EntryType
    <2>. QED
      BY <2>1 DEF EntryType, Same
  <1>. HIDE DEF Older
  <1>3. ASSUME NEW p \in Peers
        PROVE  /\ entries'[p] \in Tables
               /\ \A id \in DOMAIN entries'[p] :
                     id \in DOMAIN entries[p] /\ Same(entries'[p][id], entries[p][id])
    <2>1. entries'[p] = [id \in DOMAIN entries[p] |-> Older(entries[p][id])]
      BY <1>1
    <2>2. \A id \in DOMAIN entries[p] : entries[p][id] \in EntryType
      BY TableTypes, Zenon DEF Fragmented
    <2>3. entries'[p] \in [DOMAIN entries[p] -> EntryType]
      BY <1>2, <2>1, <2>2
    <2>4. DOMAIN entries[p] \in SUBSET Nat
      BY TableTypes, Zenon DEF Fragmented
    <2>. QED
      BY <1>2, <2>1, <2>2, <2>3, <2>4, IsTable
  <1>4. entries' \in [Peers -> Tables]
    BY <1>1, <1>3
  <1>. QED
    BY <1>1, <1>3, <1>4, LosingKeeps, Zenon

-----------------------------------------------------------------------------
(* send_fragmented                                                         *)

(* An id that is still to come belongs to nothing.                         *)
LEMMA NextIdIsFresh ==
    ASSUME Fragmented, NEW p \in Peers
    PROVE  /\ \A x \in sent : ~Of(x, p, nextId[p])
           /\ \A f \in wire : f.peer = p => f.id # nextId[p]
           /\ nextId[p] \notin DOMAIN entries[p]
           /\ \A k \in 1 .. Len(handed[p]) :
                 handed[p][k].session = session[p] => handed[p][k].id # nextId[p]
  <1>1. ASSUME NEW x \in sent, Of(x, p, nextId[p]) PROVE FALSE
    <2>1. x.id < nextId[p] /\ x.id = nextId[p]
      BY <1>1 DEF Of, Fragmented, SentOnce
    <2>2. nextId[p] \in Nat
      BY TableTypes, Zenon DEF Fragmented
    <2>. QED
      BY <2>1, <2>2
  <1>2. ASSUME NEW f \in wire, f.peer = p PROVE f.id # nextId[p]
    BY <1>1, <1>2 DEF Fragmented, OnWire
  <1>3. nextId[p] \notin DOMAIN entries[p]
    BY <1>1 DEF Fragmented, InEntries
  <1>4. ASSUME NEW k \in 1 .. Len(handed[p]), handed[p][k].session = session[p]
        PROVE  handed[p][k].id # nextId[p]
    <2>1. PICK x \in sent : /\ x.peer = p /\ x.session = handed[p][k].session
                            /\ x.id = handed[p][k].id
      BY DEF Fragmented, HandedIsIntact
    <2>2. Of(x, p, handed[p][k].id)
      BY <1>4, <2>1 DEF Of
    <2>. QED
      BY <1>1, <2>2
  <1>. QED
    BY <1>1, <1>2, <1>3, <1>4

(* The fragments of one message, all of them or all but the last ones.     *)
LEMMA SendsKeeps ==
    ASSUME Fragmented, NEW p \in Peers, NEW c \in Channels, NEW n \in Lengths,
           NEW last \in Int, NEW ok \in BOOLEAN, last <= LastIndex(n),
           ~ok => last < LastIndex(n), Sends(p, c, n, last, ok)
    PROVE  Fragmented'
  <1>. DEFINE m == [peer |-> p, session |-> session[p], id |-> nextId[p],
                    channel |-> c, length |-> n, ok |-> ok]
              New == {Fragment(p, c, n, i) : i \in 0 .. last}
  <1>1. /\ wire' = wire \cup New /\ sent' = sent \cup {m}
        /\ nextId' = [nextId EXCEPT ![p] = nextId[p] + 1]
        /\ UNCHANGED <<session, entries, handed>>
    BY DEF Sends, receiverVars
  <1>2. /\ session[p] \in Nat /\ nextId[p] \in Nat /\ c \in AllChannels
        /\ n \in Nat \ {0} /\ LastIndex(n) \in Nat
    <2>1. session[p] \in Nat /\ nextId[p] \in Nat
      BY TableTypes, Zenon DEF Fragmented
    <2>2. c \in AllChannels /\ n \in Nat \ {0}
      BY ReassemblyAssumption, Zenon
    <2>. QED
      BY <2>1, <2>2, CountRoundsUp DEF LastIndex
  <1>3. m \in Messages
    BY <1>2 DEF Messages
  <1>4. ASSUME NEW f \in New
        PROVE  /\ f \in Fragments /\ f.peer = p /\ f.id = nextId[p]
               /\ Fits(f, m)
    <2>1. PICK i \in 0 .. last : f = Fragment(p, c, n, i)
      OBVIOUS
    <2>2. i \in Nat /\ i <= LastIndex(n) /\ (~ok => i # LastIndex(n))
      BY <1>2
    <2>3. i \in Indices(n)
      BY <1>2, <2>2 DEF Indices, LastIndex
    <2>. QED
      BY <1>2, <2>1, <2>2, <2>3 DEF Fragment, Fragments, Fits
  <1>5. m \in sent' /\ m.peer = p /\ m.id = nextId[p] /\ m.session = session[p]
    BY <1>1
  <1>. HIDE DEF m, New
  <1>6. Types'
    BY <1>1, <1>2, <1>3, <1>4 DEF Fragmented, Types
  <1>7. SentOnce'
    <2>1. ASSUME NEW x \in sent
          PROVE  /\ x.session <= session[x.peer]
                 /\ x.session = session[x.peer] => x.id < nextId'[x.peer]
      <3>1. x.peer \in Peers /\ x.id \in Nat /\ nextId[x.peer] \in Nat
        BY DEF Fragmented, Types, Messages
      <3>2. nextId'[x.peer] >= nextId[x.peer] /\ nextId'[x.peer] \in Nat
        BY <1>1, <1>2, <3>1 DEF Fragmented, Types
      <3>3. /\ x.session <= session[x.peer]
            /\ x.session = session[x.peer] => x.id < nextId[x.peer]
        BY DEF Fragmented, SentOnce
      <3>. QED
        BY <3>1, <3>2, <3>3
    <2>2. /\ m.session <= session[m.peer]
          /\ m.id < nextId'[m.peer]
      BY <1>1, <1>2, <1>5 DEF Fragmented, Types
    <2>3. ASSUME NEW x \in sent, x.peer = m.peer, x.session = m.session, x.id = m.id
          PROVE  FALSE
      BY <1>5, <2>3, NextIdIsFresh DEF Of
    <2>4. \A x, y \in sent :
             x.peer = y.peer /\ x.session = y.session /\ x.id = y.id => x = y
      BY DEF Fragmented, SentOnce
    <2>. QED
      BY <1>1, <2>1, <2>2, <2>3, <2>4 DEF SentOnce
  <1>8. OnWire'
    <2>1. ASSUME NEW f \in wire PROVE \E x \in sent' : Of(x, f.peer, f.id)' /\ Fits(f, x)
      <3>1. PICK x \in sent : Of(x, f.peer, f.id) /\ Fits(f, x)
        BY DEF Fragmented, OnWire
      <3>2. x \in sent' /\ Of(x, f.peer, f.id)'
        BY <1>1, <3>1 DEF Of
      <3>. QED
        BY <3>1, <3>2
    <2>2. ASSUME NEW f \in New PROVE \E x \in sent' : Of(x, f.peer, f.id)' /\ Fits(f, x)
      BY <1>1, <1>4, <1>5 DEF Of
    <2>. QED
      BY <1>1, <2>1, <2>2 DEF OnWire
  <1>9. InEntries'
    <2>. SUFFICES ASSUME NEW q \in Peers, NEW id \in DOMAIN entries[q]
                  PROVE  /\ \E x \in sent' : Of(x, q, id)' /\ Holds(entries[q][id], x)
                         /\ entries[q][id].received # Indices(entries[q][id].length)
      BY <1>1 DEF InEntries
    <2>1. PICK x \in sent : Of(x, q, id) /\ Holds(entries[q][id], x)
      BY DEF Fragmented, InEntries
    <2>2. x \in sent' /\ Of(x, q, id)'
      BY <1>1, <2>1 DEF Of
    <2>. QED
      BY <2>1, <2>2 DEF Fragmented, InEntries
  <1>10. Arrived'
    <2>. SUFFICES ASSUME NEW q \in Peers, NEW id \in DOMAIN entries[q], NEW f \in wire',
                         f.peer = q, f.id = id
                  PROVE  f.index \notin entries[q][id].received
      BY <1>1 DEF Arrived
    <2>1. f \notin New
      BY <1>4, NextIdIsFresh
    <2>. QED
      BY <1>1, <2>1 DEF Fragmented, Arrived
  <1>11. Done'
    <2>. SUFFICES ASSUME NEW q \in Peers, NEW k \in 1 .. Len(handed[q]),
                         handed[q][k].session = session[q]
                  PROVE  /\ handed[q][k].id \notin DOMAIN entries[q]
                         /\ \A f \in wire' : f.peer = q => f.id # handed[q][k].id
      BY <1>1 DEF Done
    <2>1. \A f \in New : f.peer = q => f.id # handed[q][k].id
      BY <1>4, NextIdIsFresh
    <2>. QED
      BY <1>1, <2>1 DEF Fragmented, Done
  <1>12. HandedIsIntact'
    BY <1>1 DEF Fragmented, HandedIsIntact
  <1>. QED
    BY <1>6, <1>7, <1>8, <1>9, <1>10, <1>11, <1>12 DEF Fragmented

(* send_fragmented, whether or not a queue was full at some fragment.      *)
LEMMA SendKeeps ==
    ASSUME Fragmented, NEW p \in Peers, NEW c \in Channels, NEW n \in Lengths,
           SendFragmented(p, c, n) \/ SendFragmentedPartly(p, c, n)
    PROVE  Fragmented'
  <1>1. n \in Nat \ {0} /\ LastIndex(n) \in Nat
    BY CountRoundsUp, ReassemblyAssumption DEF LastIndex
  <1>2. CASE SendFragmented(p, c, n)
    <2>1. Sends(p, c, n, LastIndex(n), TRUE)
      BY <1>2, Zenon DEF SendFragmented, LastIndex
    <2>2. LastIndex(n) \in Int /\ LastIndex(n) <= LastIndex(n)
      BY <1>1
    <2>. QED
      BY <2>1, <2>2, SendsKeeps, Zenon
  <1>3. CASE SendFragmentedPartly(p, c, n)
    <2>1. PICK k \in Indices(n) : Sends(p, c, n, k - 1, FALSE)
      BY <1>3, Zenon DEF SendFragmentedPartly
    <2>2. k - 1 \in Int /\ k - 1 < LastIndex(n) /\ k - 1 <= LastIndex(n)
      BY <1>1 DEF Indices, LastIndex
    <2>. QED
      BY <2>1, <2>2, SendsKeeps, Zenon
  <1>. QED
    BY <1>2, <1>3

(* A new session: new ids, an empty reassembler and none of the fragments  *)
(* of the one before.                                                      *)
LEMMA NewSessionKeeps ==
    ASSUME Fragmented, NEW p \in Peers, NewSession(p)
    PROVE  Fragmented'
  <1>1. /\ session' = [session EXCEPT ![p] = session[p] + 1]
        /\ nextId' = [nextId EXCEPT ![p] = 1]
        /\ wire' = {f \in wire : f.peer # p}
        /\ entries' = [entries EXCEPT ![p] = NoEntries]
        /\ sent' = sent /\ handed' = handed
    BY DEF NewSession, Restarted
  <1>2. NoEntries \in Tables /\ DOMAIN NoEntries = {}
    <2>1. NoEntries \in [{} -> EntryType] /\ DOMAIN NoEntries = {}
      BY DEF NoEntries
    <2>. QED
      BY <2>1, IsTable, Zenon
  <1>3. Types'
    BY <1>1, <1>2 DEF Fragmented, Types
  <1>4. /\ session'[p] = session[p] + 1 /\ session[p] \in Nat
        /\ \A q \in Peers \ {p} : session'[q] = session[q] /\ nextId'[q] = nextId[q]
                                  /\ entries'[q] = entries[q]
        /\ DOMAIN entries'[p] = {}
    BY <1>1, <1>2 DEF Fragmented, Types
  <1>5. \A x \in sent : x.peer = p => x.session # session'[p]
    BY <1>4 DEF Fragmented, Types, SentOnce, Messages
  <1>6. SentOnce'
    <2>1. ASSUME NEW x \in sent
          PROVE  /\ x.session <= session'[x.peer]
                 /\ x.session = session'[x.peer] => x.id < nextId'[x.peer]
      <3>1. x.peer \in Peers /\ x.session \in Nat
        BY DEF Fragmented, Types, Messages
      <3>. QED
        BY <1>4, <1>5, <3>1 DEF Fragmented, SentOnce
    <2>. QED
      BY <1>1, <2>1 DEF Fragmented, SentOnce
  <1>7. OnWire'
    <2>. SUFFICES ASSUME NEW f \in wire, f.peer # p
                  PROVE  \E x \in sent : Of(x, f.peer, f.id)' /\ Fits(f, x)
      BY <1>1 DEF OnWire
    <2>1. f.peer \in Peers
      BY DEF Fragmented, Types, Fragments
    <2>. QED
      BY <1>1, <1>4, <2>1 DEF Fragmented, OnWire, Of
  <1>8. InEntries'
    <2>. SUFFICES ASSUME NEW q \in Peers, NEW id \in DOMAIN entries'[q]
                  PROVE  /\ \E x \in sent : Of(x, q, id)' /\ Holds(entries'[q][id], x)
                         /\ entries'[q][id].received # Indices(entries'[q][id].length)
      BY <1>1 DEF InEntries
    <2>1. q # p /\ entries'[q] = entries[q] /\ session'[q] = session[q]
      BY <1>4
    <2>. QED
      BY <1>1, <2>1 DEF Fragmented, InEntries, Of
  <1>9. Arrived'
    BY <1>1, <1>4 DEF Fragmented, Arrived
  <1>10. Done'
    <2>. SUFFICES ASSUME NEW q \in Peers, NEW k \in 1 .. Len(handed[q]),
                         handed[q][k].session = session'[q]
                  PROVE  /\ handed[q][k].id \notin DOMAIN entries'[q]
                         /\ \A f \in wire' : f.peer = q => f.id # handed[q][k].id
      BY <1>1 DEF Done
    <2>1. CASE q = p
      BY <1>1, <1>4, <2>1
    <2>2. CASE q # p
      BY <1>1, <1>4, <2>2 DEF Fragmented, Done
    <2>. QED
      BY <2>1, <2>2
  <1>11. HandedIsIntact'
    BY <1>1 DEF Fragmented, HandedIsIntact
  <1>. QED
    BY <1>3, <1>6, <1>7, <1>8, <1>9, <1>10, <1>11 DEF Fragmented

-----------------------------------------------------------------------------
(* FragmentReassembler::accept                                             *)

(* A new entry holds nothing yet.                                          *)
LEMMA FreshHolds ==
    ASSUME NEW f \in Fragments, NEW x \in Messages, Fits(f, x)
    PROVE  Fresh(f) \in EntryType /\ Holds(Fresh(f), x) /\ Fresh(f).received = {}
  <1>1. f.channel \in AllChannels /\ f.length \in Nat \ {0} /\ f.length = x.length
    BY DEF Fits, Fragments
  <1>2. [b \in 0 .. f.length - 1 |-> <<0, 0>>] \in [0 .. f.length - 1 -> Nat \X Nat]
    OBVIOUS
  <1>3. [b \in 0 .. f.length - 1 |-> <<0, 0>>] \in Payloads
    BY <1>1, <1>2 DEF Payloads
  <1>. QED
    BY <1>1, <1>2, <1>3 DEF Fresh, EntryType, Holds, Fits

(* The entry that a fragment on its way meets: it holds fragments of the   *)
(* same message, and not this one.                                         *)
LEMMA MetEntry ==
    ASSUME Fragmented, NEW f \in wire, NEW x \in sent, Of(x, f.peer, f.id), Fits(f, x)
    PROVE  /\ f \in Fragments /\ x \in Messages /\ f.peer \in Peers
           /\ EntryOf(f) \in EntryType /\ Holds(EntryOf(f), x)
           /\ ~Mismatch(f) /\ f.index \notin EntryOf(f).received
           /\ \A g \in wire \ {f} : g.peer = f.peer /\ g.id = f.id =>
                 /\ g.index \in Indices(x.length)
                 /\ g.index \notin EntryOf(f).received /\ g.index # f.index
  <1>1. f \in Fragments /\ x \in Messages /\ f.peer \in Peers
    BY DEF Fragmented, Types, Fragments
  <1>2. EntryOf(f) \in EntryType /\ Holds(EntryOf(f), x)
    <2>1. CASE Known(f)
      <3>1. EntryOf(f) = entries[f.peer][f.id] /\ f.id \in DOMAIN entries[f.peer]
        BY <2>1 DEF Known, EntryOf
      <3>2. PICK y \in sent : Of(y, f.peer, f.id) /\ Holds(entries[f.peer][f.id], y)
        BY <1>1, <3>1 DEF Fragmented, InEntries
      <3>3. y = x
        BY <3>2 DEF Fragmented, SentOnce, Of
      <3>4. entries[f.peer][f.id] \in EntryType
        BY <1>1, <3>1, TableTypes, Zenon DEF Fragmented
      <3>. QED
        BY <3>1, <3>2, <3>3, <3>4
    <2>2. CASE ~Known(f)
      BY <1>1, <2>2, FreshHolds DEF EntryOf
    <2>. QED
      BY <2>1, <2>2
  <1>3. ~Mismatch(f)
    BY <1>2 DEF Mismatch, Holds, Fits
  <1>4. ASSUME NEW g \in wire, g.peer = f.peer, g.id = f.id
        PROVE  g.index \notin EntryOf(f).received
    <2>1. CASE Known(f)
      BY <1>1, <1>4, <2>1 DEF Known, EntryOf, Fragmented, Arrived
    <2>2. CASE ~Known(f)
      BY <1>1, <2>2, FreshHolds DEF EntryOf
    <2>. QED
      BY <2>1, <2>2
  <1>5. ASSUME NEW g \in wire \ {f}, g.peer = f.peer, g.id = f.id
        PROVE  g.index \in Indices(x.length) /\ g.index # f.index
    <2>1. PICK y \in sent : Of(y, g.peer, g.id) /\ Fits(g, y)
      BY DEF Fragmented, OnWire
    <2>2. y = x
      BY <1>5, <2>1 DEF Fragmented, SentOnce, Of
    <2>3. g \in Fragments
      BY DEF Fragmented, Types
    <2>4. g.index = f.index => g = f
      BY <1>1, <1>5, <2>1, <2>2, <2>3 DEF Fits, Fragments
    <2>. QED
      BY <2>1, <2>2, <2>4 DEF Fits
  <1>. QED
    BY <1>1, <1>2, <1>3, <1>4, <1>5

(* memcpy of the fragment: the entry holds one more.                       *)
LEMMA StoredHolds ==
    ASSUME NEW f \in Fragments, NEW x \in Messages, Fits(f, x),
           EntryOf(f) \in EntryType, Holds(EntryOf(f), x)
    PROVE  /\ Stored(f) \in EntryType /\ Holds(Stored(f), x)
           /\ Stored(f).received = EntryOf(f).received \cup {f.index}
           /\ Stored(f).length = EntryOf(f).length
  <1>. DEFINE e == EntryOf(f)
              n == x.length
              at == Slice(f.length, f.index)
              bytes == [b \in DOMAIN e.payload |-> IF b \in at THEN <<f.session, b>> ELSE e.payload[b]]
  <1>1. Stored(f) = [e EXCEPT !.received = e.received \cup {f.index}, !.age = 0, !.payload = bytes]
    BY DEF Stored
  <1>2. /\ f.index \in Nat /\ f.index \in Indices(n) /\ f.length = n /\ n \in Nat \ {0}
        /\ f.session \in Nat /\ f.session = x.session
    BY DEF Fragments, Messages, Fits
  <1>3. bytes \in [0 .. n - 1 -> Nat \X Nat]
    BY <1>2 DEF Holds
  <1>4. bytes \in Payloads
    BY <1>2, <1>3 DEF Payloads
  <1>5. e.received \cup {f.index} \in SUBSET Nat
    BY <1>2 DEF EntryType
  <1>6. ASSUME NEW i \in e.received \cup {f.index}, NEW b \in Slice(n, i)
        PROVE  bytes[b] = <<x.session, b>>
    <2>1. i \in Indices(n)
      BY <1>2 DEF Holds
    <2>2. b \in 0 .. n - 1
      BY <1>2, <2>1, SliceWithin
    <2>3. DOMAIN e.payload = 0 .. n - 1
      BY DEF Holds
    <2>4. CASE b \in at
      BY <1>2, <2>2, <2>3, <2>4
    <2>5. CASE b \notin at
      <3>1. i \in e.received
        BY <1>2, <2>5
      <3>2. e.payload[b] = <<x.session, b>>
        BY <3>1 DEF Holds
      <3>. QED
        BY <2>2, <2>3, <2>5, <3>2
    <2>. QED
      BY <2>4, <2>5
  <1>. HIDE DEF bytes, e, at
  <1>7. /\ Stored(f) \in EntryType
        /\ Stored(f).received = e.received \cup {f.index} /\ Stored(f).payload = bytes
        /\ Stored(f).channel = e.channel /\ Stored(f).length = e.length
    <2>1. e \in EntryType /\ 0 \in Nat
      BY DEF e
    <2>2. Stored(f) \in EntryType
      BY <1>1, <1>4, <1>5, <2>1, Zenon DEF EntryType
    <2>. QED
      BY <1>1, <2>1, <2>2 DEF EntryType
  <1>8. Holds(e, x)
    BY DEF e
  <1>9. Holds(Stored(f), x)
    BY <1>2, <1>3, <1>6, <1>7, <1>8 DEF Holds, Fits
  <1>. QED
    BY <1>7, <1>9 DEF e

(* All fragments are in: the payload is the one that was sent, by a send() *)
(* that succeeded.                                                         *)
LEMMA CompleteIsIntact ==
    ASSUME NEW e \in EntryType, NEW x \in Messages, Holds(e, x),
           e.received = Indices(x.length)
    PROVE  x.ok /\ e.payload = Payload(x.session, x.length)
  <1>. DEFINE n == x.length
  <1>1. n \in Nat \ {0}
    BY DEF Messages
  <1>2. x.ok
    <2>1. LastIndex(n) \in Indices(n)
      BY <1>1, CountRoundsUp DEF LastIndex, Indices
    <2>. QED
      BY <2>1 DEF Holds
  <1>3. ASSUME NEW b \in 0 .. n - 1 PROVE e.payload[b] = <<x.session, b>>
    <2>1. PICK i \in Indices(n) : b \in Slice(n, i)
      BY <1>1, SlicesCover
    <2>. QED
      BY <2>1 DEF Holds
  <1>4. e.payload \in [0 .. n - 1 -> Nat \X Nat]
    BY DEF Holds
  <1>. QED
    BY <1>2, <1>3, <1>4, Zenon DEF Payload

(* The tables after an entry was stored and after one was taken out.       *)
IsWith(u, t, id, e) ==
    /\ u \in Tables /\ DOMAIN u = DOMAIN t \cup {id} /\ u[id] = e
    /\ \A k \in DOMAIN t \ {id} : u[k] = t[k]

LEMMA WithTable ==
    ASSUME NEW t \in Tables, NEW id \in Nat, NEW e \in EntryType, NEW u, u = With(t, id, e)
    PROVE  IsWith(u, t, id, e)
  <1>1. PICK D \in SUBSET Nat : t \in [D -> EntryType]
    BY DEF Tables
  <1>2. u \in [D \cup {id} -> EntryType] /\ D \cup {id} \in SUBSET Nat
    BY <1>1 DEF With
  <1>3. u \in Tables
    BY <1>2, IsTable, Zenon
  <1>. QED
    BY <1>1, <1>3 DEF With, IsWith

(* Taking entries out leaves the others.                                   *)
LEMMA WithoutTable ==
    ASSUME NEW t \in Tables, NEW ids
    PROVE  /\ Without(t, ids) \in Tables /\ DOMAIN Without(t, ids) = DOMAIN t \ ids
           /\ \A k \in DOMAIN t \ ids : Without(t, ids)[k] = t[k]
  <1>1. PICK D \in SUBSET Nat : t \in [D -> EntryType]
    BY DEF Tables
  <1>2. Without(t, ids) \in [D \ ids -> EntryType] /\ D \ ids \in SUBSET Nat
    BY <1>1, Zenon DEF Without
  <1>3. Without(t, ids) \in Tables
    BY <1>2, IsTable, Zenon
  <1>. QED
    BY <1>1, <1>3 DEF Without

(* A fragment that is dropped, or that closes its session, is only lost.   *)
LEMMA DropKeeps ==
    ASSUME Fragmented, NEW f \in wire, wire' = wire \ {f},
           UNCHANGED <<session, nextId, sent, entries, handed>>
    PROVE  Fragmented'
  <1>1. wire' \subseteq wire /\ entries' \in [Peers -> Tables]
    BY DEF Fragmented, Types
  <1>2. \A p \in Peers : \A id \in DOMAIN entries'[p] :
           id \in DOMAIN entries[p] /\ Same(entries'[p][id], entries[p][id])
    BY DEF Same
  <1>. QED
    BY <1>1, <1>2, LosingKeeps

(* One table changes: the entries that are new in it are sound.            *)
LEMMA TableKeeps ==
    ASSUME Fragmented, UNCHANGED <<session, nextId, sent>>, wire' \subseteq wire,
           NEW p \in Peers, NEW u \in Tables, entries' = [entries EXCEPT ![p] = u],
           \A id \in DOMAIN u :
              \/ id \in DOMAIN entries[p] /\ u[id] = entries[p][id]
              \/ /\ \E x \in sent : Of(x, p, id) /\ Holds(u[id], x)
                 /\ u[id].received # Indices(u[id].length)
                 /\ \A g \in wire' : g.peer = p /\ g.id = id => g.index \notin u[id].received
    PROVE  entries' \in [Peers -> Tables] /\ SentOnce' /\ OnWire' /\ InEntries' /\ Arrived'
  <1>1. entries \in [Peers -> Tables]
    BY DEF Fragmented, Types
  <1>2. entries' \in [Peers -> Tables] /\ entries'[p] = u /\ \A q \in Peers \ {p} : entries'[q] = entries[q]
    BY <1>1
  <1>3. SentOnce' /\ OnWire'
    BY DEF Fragmented, SentOnce, OnWire, Of
  <1>4. ASSUME NEW q \in Peers, NEW id \in DOMAIN entries'[q]
        PROVE  \/ id \in DOMAIN entries[q] /\ entries'[q][id] = entries[q][id]
               \/ /\ \E x \in sent : Of(x, q, id) /\ Holds(entries'[q][id], x)
                  /\ entries'[q][id].received # Indices(entries'[q][id].length)
                  /\ \A g \in wire' : g.peer = q /\ g.id = id => g.index \notin entries'[q][id].received
    BY <1>2
  <1>5. InEntries'
    <2>. SUFFICES ASSUME NEW q \in Peers, NEW id \in DOMAIN entries'[q]
                  PROVE  /\ \E x \in sent : Of(x, q, id)' /\ Holds(entries'[q][id], x)
                         /\ entries'[q][id].received # Indices(entries'[q][id].length)
      BY DEF InEntries
    <2>1. /\ \E x \in sent : Of(x, q, id) /\ Holds(entries'[q][id], x)
          /\ entries'[q][id].received # Indices(entries'[q][id].length)
      BY <1>4 DEF Fragmented, InEntries
    <2>2. \A x \in sent : Of(x, q, id)' <=> Of(x, q, id)
      BY DEF Of
    <2>. QED
      BY <2>1, <2>2
  <1>6. Arrived'
    <2>. SUFFICES ASSUME NEW q \in Peers, NEW id \in DOMAIN entries'[q], NEW g \in wire',
                         g.peer = q, g.id = id
                  PROVE  g.index \notin entries'[q][id].received
      BY DEF Arrived
    <2>. QED
      BY <1>4 DEF Fragmented, Arrived
  <1>. QED
    BY <1>2, <1>3, <1>5, <1>6

(* What the entry of a fragment becomes.                                   *)
LEMMA StoredEntry ==
    ASSUME Fragmented, NEW f \in wire, wire' = wire \ {f}
    PROVE  /\ f.peer \in Peers /\ f.id \in Nat /\ Stored(f) \in EntryType
           /\ Stored(f).length = f.length
           /\ \E x \in sent : Of(x, f.peer, f.id) /\ Holds(Stored(f), x) /\ x \in Messages
           /\ \A g \in wire' : g.peer = f.peer /\ g.id = f.id =>
                 g.index \notin Stored(f).received /\ g.index \in Indices(f.length)
  <1>1. PICK x \in sent : Of(x, f.peer, f.id) /\ Fits(f, x)
    BY DEF Fragmented, OnWire
  <1>2. /\ f \in Fragments /\ x \in Messages /\ f.peer \in Peers
        /\ EntryOf(f) \in EntryType /\ Holds(EntryOf(f), x)
        /\ \A g \in wire \ {f} : g.peer = f.peer /\ g.id = f.id =>
              /\ g.index \in Indices(x.length)
              /\ g.index \notin EntryOf(f).received /\ g.index # f.index
    BY <1>1, MetEntry
  <1>3. /\ Stored(f) \in EntryType /\ Holds(Stored(f), x)
        /\ Stored(f).received = EntryOf(f).received \cup {f.index}
    BY <1>1, <1>2, StoredHolds
  <1>4. f.length = x.length /\ f.id \in Nat /\ Stored(f).length = f.length
    BY <1>1, <1>2, <1>3 DEF Fits, Fragments, Holds
  <1>. QED
    BY <1>1, <1>2, <1>3, <1>4

(* A fragment that is stored and not the last one.                         *)
LEMMA KeepKeeps ==
    ASSUME Fragmented, NEW f \in wire, wire' = wire \ {f}, UNCHANGED <<session, nextId, sent>>,
           Stored(f).received # Indices(f.length), Keep(f)
    PROVE  Fragmented'
  <1>1. PICK p, id, d : p = f.peer /\ id = f.id /\ d = Stored(f)
    OBVIOUS
  <1>2. /\ p \in Peers /\ id \in Nat /\ d \in EntryType /\ d.received # Indices(d.length)
        /\ \E x \in sent : Of(x, p, id) /\ Holds(d, x)
        /\ \A g \in wire' : g.peer = p /\ g.id = id => g.index \notin d.received
    BY <1>1, StoredEntry
  <1>3. PICK t \in Tables : t = entries[p]
    BY <1>2, TableTypes DEF Fragmented, Types
  <1>4. PICK u : u = With(t, id, d)
    OBVIOUS
  <1>5. entries' = [entries EXCEPT ![p] = u] /\ handed' = handed
    BY <1>1, <1>3, <1>4 DEF Keep
  <1>6. /\ u \in Tables /\ DOMAIN u = DOMAIN t \cup {id} /\ u[id] = d
        /\ \A k \in DOMAIN t \ {id} : u[k] = t[k]
    <2>1. id \in Nat /\ d \in EntryType
      BY <1>2, Zenon
    <2>2. IsWith(u, t, id, d)
      BY <1>4, <2>1, WithTable, Zenon
    <2>. QED
      BY <2>2, Zenon DEF IsWith
  <1>7. \A k \in DOMAIN u :
              \/ k \in DOMAIN entries[p] /\ u[k] = entries[p][k]
              \/ /\ \E x \in sent : Of(x, p, k) /\ Holds(u[k], x)
                 /\ u[k].received # Indices(u[k].length)
                 /\ \A g \in wire' : g.peer = p /\ g.id = k => g.index \notin u[k].received
    BY <1>2, <1>3, <1>6
  <1>8. entries' \in [Peers -> Tables] /\ SentOnce' /\ OnWire' /\ InEntries' /\ Arrived'
    BY <1>2, <1>5, <1>6, <1>7, TableKeeps, Zenon
  <1>9. Types' /\ HandedIsIntact'
    BY <1>5, <1>8 DEF Fragmented, Types, HandedIsIntact
  <1>10. Done'
    <2>. SUFFICES ASSUME NEW q \in Peers, NEW k \in 1 .. Len(handed[q]),
                         handed[q][k].session = session[q]
                  PROVE  /\ handed[q][k].id \notin DOMAIN entries'[q]
                         /\ \A g \in wire' : g.peer = q => g.id # handed[q][k].id
      BY <1>5 DEF Done
    <2>1. /\ handed[q][k].id \notin DOMAIN entries[q]
          /\ \A g \in wire : g.peer = q => g.id # handed[q][k].id
      BY DEF Fragmented, Done
    <2>2. DOMAIN entries'[q] \subseteq DOMAIN entries[q] \cup (IF q = p THEN {id} ELSE {})
      <3>1. DOMAIN entries = Peers
        BY DEF Fragmented, Types
      <3>2. entries'[q] = IF q = p THEN u ELSE entries[q]
        BY <1>5, <3>1
      <3>. QED
        BY <1>3, <1>6, <3>2
    <2>. QED
      BY <1>1, <2>1, <2>2
  <1>. QED
    BY <1>8, <1>9, <1>10 DEF Fragmented

(* HandedIsIntact of one peer.                                             *)
From(S, p, h) ==
    \E x \in S : /\ x.peer = p /\ x.ok /\ x.session = h.session /\ x.id = h.id
                 /\ h.payload = Payload(x.session, x.length)

Differ(g, h) == <<g.session, g.id>> # <<h.session, h.id>>

Intact(S, p, s) ==
    \A k \in 1 .. Len(s) : From(S, p, s[k]) /\ \A j \in 1 .. k - 1 : Differ(s[j], s[k])

(* What HandedIsIntact says of each peer.                                  *)
LEMMA IntactOfEach ==
    /\ HandedIsIntact => \A p \in Peers : Intact(sent, p, handed[p])
    /\ (\A p \in Peers : Intact(sent', p, handed'[p])) => HandedIsIntact'
  <1>1. HandedIsIntact => \A p \in Peers : Intact(sent, p, handed[p])
    BY DEF HandedIsIntact, Intact, From, Differ
  <1>2. (\A p \in Peers : Intact(sent', p, handed'[p])) => HandedIsIntact'
    BY DEF HandedIsIntact, Intact, From, Differ
  <1>. QED
    BY <1>1, <1>2

(* A message goes up that was sent in full and did not go up before.       *)
GoesUp(S, p, s, h, t) ==
    /\ s \in Seq(HandedType) /\ h \in HandedType /\ t = Append(s, h)
    /\ Intact(S, p, s) /\ From(S, p, h) /\ \A j \in 1 .. Len(s) : Differ(s[j], h)

(* What has gone up is still intact.                                       *)
LEMMA AppendIntact ==
    ASSUME NEW S, NEW p, NEW s, NEW h, NEW t, GoesUp(S, p, s, h, t)
    PROVE  /\ t \in Seq(HandedType) /\ Intact(S, p, t)
           /\ \A k \in 1 .. Len(t) : t[k] = h \/ (k \in 1 .. Len(s) /\ t[k] = s[k])
  <1>. DEFINE K == Len(s)
  <1>1. /\ t \in Seq(HandedType) /\ Len(t) = K + 1 /\ K \in Nat
        /\ t[K + 1] = h /\ \A k \in 1 .. K : t[k] = s[k]
    BY DEF GoesUp
  <1>. HIDE DEF K
  <1>2. ASSUME NEW k \in 1 .. Len(t)
        PROVE  From(S, p, t[k]) /\ \A j \in 1 .. k - 1 : Differ(t[j], t[k])
    <2>1. CASE k = K + 1
      BY <1>1, <2>1 DEF GoesUp, K
    <2>2. CASE k \in 1 .. K
      <3>1. From(S, p, s[k]) /\ \A j \in 1 .. k - 1 : Differ(s[j], s[k])
        BY <2>2 DEF GoesUp, Intact, K
      <3>2. t[k] = s[k] /\ \A j \in 1 .. k - 1 : t[j] = s[j]
        BY <1>1, <2>2
      <3>. QED
        BY <3>1, <3>2
    <2>. QED
      BY <1>1, <2>1, <2>2
  <1>3. Intact(S, p, t)
    BY <1>2 DEF Intact
  <1>4. \A k \in 1 .. Len(t) : t[k] = h \/ (k \in 1 .. K /\ t[k] = s[k])
    BY <1>1
  <1>. QED
    BY <1>1, <1>3, <1>4 DEF K

(* The last fragment of a message: it goes up, for the first time.         *)
LEMMA CompleteKeeps ==
    ASSUME Fragmented, NEW f \in wire, wire' = wire \ {f}, UNCHANGED <<session, nextId, sent>>,
           Stored(f).received = Indices(f.length), Complete(f)
    PROVE  Fragmented'
  <1>1. PICK p, id, d : p = f.peer /\ id = f.id /\ d = Stored(f)
    OBVIOUS
  <1>2. /\ p \in Peers /\ id \in Nat /\ d \in EntryType /\ d.received = Indices(d.length)
        /\ \A g \in wire' : g.peer = p => g.id # id
    BY <1>1, StoredEntry
  <1>3. \E x \in sent : Of(x, p, id) /\ x.ok /\ d.payload = Payload(x.session, x.length)
    <2>1. PICK x \in sent : Of(x, p, id) /\ Holds(d, x) /\ x \in Messages
      BY <1>1, StoredEntry
    <2>2. d.received = Indices(x.length)
      BY <1>2, <2>1 DEF Holds
    <2>. QED
      BY <1>2, <2>1, <2>2, CompleteIsIntact
  <1>4. PICK t \in Tables : t = entries[p]
    BY <1>2, TableTypes DEF Fragmented, Types
  <1>5. PICK u, h : u = Without(t, {id})
                 /\ h = [session |-> session[p], id |-> id, payload |-> d.payload]
    BY Zenon
  <1>6. /\ entries' = [entries EXCEPT ![p] = u]
        /\ handed' = [handed EXCEPT ![p] = Append(handed[p], h)]
    BY <1>1, <1>4, <1>5 DEF Complete
  <1>7. h \in HandedType /\ h.session = session[p] /\ h.id = id /\ h.payload = d.payload
    <2>1. session[p] \in Nat /\ d.payload \in Payloads
      BY <1>2 DEF Fragmented, Types, EntryType
    <2>. QED
      BY <1>2, <1>5, <2>1 DEF HandedType
  <1>8. /\ u \in Tables /\ DOMAIN u = DOMAIN t \ {id}
        /\ \A k \in DOMAIN t \ {id} : u[k] = t[k]
    BY <1>5, WithoutTable, Zenon
  <1>9. /\ wire' \subseteq wire
        /\ \A k \in DOMAIN u :
              \/ k \in DOMAIN entries[p] /\ u[k] = entries[p][k]
              \/ /\ \E x \in sent : Of(x, p, k) /\ Holds(u[k], x)
                 /\ u[k].received # Indices(u[k].length)
                 /\ \A g \in wire' : g.peer = p /\ g.id = k => g.index \notin u[k].received
    BY <1>4, <1>8
  <1>10. entries' \in [Peers -> Tables] /\ SentOnce' /\ OnWire' /\ InEntries' /\ Arrived'
    BY <1>2, <1>6, <1>8, <1>9, TableKeeps, Zenon
  <1>11. /\ handed' \in [Peers -> Seq(HandedType)] /\ HandedIsIntact'
         /\ \A q \in Peers : \A k \in 1 .. Len(handed'[q]) :
               \/ k \in 1 .. Len(handed[q]) /\ handed'[q][k] = handed[q][k]
               \/ q = p /\ handed'[q][k] = h
    <2>1. PICK s \in Seq(HandedType) : s = handed[p]
      BY <1>2 DEF Fragmented, Types
    <2>2. From(sent, p, h)
      BY <1>3, <1>7 DEF Of, From
    <2>3. \A k \in 1 .. Len(s) : Differ(s[k], h)
      BY <1>1, <1>2, <1>7, <2>1 DEF Fragmented, Done, Differ
    <2>4. \A q \in Peers : Intact(sent, q, handed[q])
      BY IntactOfEach DEF Fragmented
    <2>5. PICK z : z = Append(s, h)
      BY Zenon
    <2>6. /\ z \in Seq(HandedType) /\ Intact(sent, p, z)
          /\ \A k \in 1 .. Len(z) : z[k] = h \/ (k \in 1 .. Len(s) /\ z[k] = s[k])
      <3>1. GoesUp(sent, p, s, h, z)
        BY <1>2, <1>7, <2>1, <2>2, <2>3, <2>4, <2>5 DEF GoesUp
      <3>. QED
        BY <3>1, AppendIntact
    <2>7. handed' = [handed EXCEPT ![p] = z] /\ handed \in [Peers -> Seq(HandedType)] /\ sent' = sent
      BY <1>6, <2>1, <2>5 DEF Fragmented, Types
    <2>8. handed'[p] = z /\ \A q \in Peers \ {p} : handed'[q] = handed[q]
      BY <2>7, <1>2
    <2>9. handed' \in [Peers -> Seq(HandedType)]
      BY <2>5, <2>6, <2>7, Zenon
    <2>10. \A q \in Peers : Intact(sent', q, handed'[q])
      BY <2>4, <2>5, <2>6, <2>7, <2>8, Zenon
    <2>11. HandedIsIntact'
      BY <2>10, IntactOfEach
    <2>. QED
      BY <2>1, <2>5, <2>6, <2>8, <2>9, <2>11, Zenon
  <1>12. Types'
    BY <1>10, <1>11 DEF Fragmented, Types
  <1>13. Done'
    <2>. SUFFICES ASSUME NEW q \in Peers, NEW k \in 1 .. Len(handed'[q]),
                         handed'[q][k].session = session[q]
                  PROVE  /\ handed'[q][k].id \notin DOMAIN entries'[q]
                         /\ \A g \in wire' : g.peer = q => g.id # handed'[q][k].id
      BY DEF Done
    <2>1. DOMAIN entries'[q] \subseteq DOMAIN entries[q] /\ (q = p => id \notin DOMAIN entries'[q])
      <3>1. DOMAIN entries = Peers
        BY DEF Fragmented, Types
      <3>2. entries'[q] = IF q = p THEN u ELSE entries[q]
        BY <1>6, <3>1
      <3>. QED
        BY <1>4, <1>8, <3>2
    <2>2. CASE q = p /\ handed'[q][k] = h
      BY <1>2, <1>7, <2>1, <2>2
    <2>3. CASE k \in 1 .. Len(handed[q]) /\ handed'[q][k] = handed[q][k]
      BY <2>1, <2>3 DEF Fragmented, Done
    <2>. QED
      BY <1>11, <2>2, <2>3
  <1>. QED
    BY <1>10, <1>11, <1>12, <1>13 DEF Fragmented

(* dispatch_message_frame and handle_fragment_payload.                     *)
LEMMA HandleKeeps ==
    ASSUME Fragmented, NEW f \in wire, HandleFragment(f)
    PROVE  Fragmented'
  <1>1. wire' = wire \ {f} /\ UNCHANGED <<session, nextId, sent>> /\ Accept(f)
    BY DEF HandleFragment
  <1>2. ~Mismatch(f) /\ f.index \notin EntryOf(f).received
    <2>1. PICK x \in sent : Of(x, f.peer, f.id) /\ Fits(f, x)
      BY DEF Fragmented, OnWire
    <2>. QED
      BY <2>1, MetEntry
  <1>3. CASE Drop(f)
    BY <1>1, <1>3, DropKeeps DEF Drop
  <1>4. CASE Stored(f).received = Indices(f.length) /\ Complete(f)
    BY <1>1, <1>4, CompleteKeeps
  <1>5. CASE Stored(f).received # Indices(f.length) /\ Keep(f)
    BY <1>1, <1>5, KeepKeeps
  <1>. QED
    BY <1>1, <1>2, <1>3, <1>4, <1>5 DEF Accept

(* Sending, losing, handling, expiring, growing old and starting over.     *)
LEMMA FragmentedHolds == Spec => []Fragmented
  <1>1. Init => Fragmented
    <2>. SUFFICES ASSUME Init PROVE Fragmented
      OBVIOUS
    <2>1. NoEntries \in [{} -> EntryType] /\ DOMAIN NoEntries = {}
      BY DEF NoEntries
    <2>2. NoEntries \in Tables
      BY <2>1, IsTable, Zenon
    <2>3. \A p \in Peers : handed[p] = <<>> /\ Len(handed[p]) = 0 /\ DOMAIN entries[p] = {}
      BY <2>1 DEF Init
    <2>4. Types
      BY <2>2 DEF Init, Types
    <2>5. SentOnce /\ OnWire
      BY DEF Init, SentOnce, OnWire
    <2>6. InEntries /\ Arrived
      BY <2>3 DEF InEntries, Arrived
    <2>7. Done /\ HandedIsIntact
      BY <2>3 DEF Done, HandedIsIntact
    <2>. QED
      BY <2>4, <2>5, <2>6, <2>7 DEF Fragmented
  <1>2. Fragmented /\ [Next]_vars => Fragmented'
    <2>. SUFFICES ASSUME Fragmented, [Next]_vars PROVE Fragmented'
      OBVIOUS
    <2>1. ASSUME NEW p \in Peers, NEW c \in Channels, NEW n \in Lengths,
                 SendFragmented(p, c, n) \/ SendFragmentedPartly(p, c, n)
          PROVE  Fragmented'
      BY <2>1, SendKeeps
    <2>2. ASSUME NEW f \in wire, LoseFragment(f) PROVE Fragmented'
      BY <2>2, LoseKeeps
    <2>3. ASSUME NEW f \in wire, HandleFragment(f) PROVE Fragmented'
      BY <2>3, HandleKeeps
    <2>4. CASE RunHousekeeping
      BY <2>4, HousekeepingKeeps
    <2>5. CASE Age
      BY <2>5, AgeKeeps
    <2>6. ASSUME NEW p \in Peers, NewSession(p) PROVE Fragmented'
      BY <2>6, NewSessionKeeps
    <2>7. CASE UNCHANGED vars
      <3>1. /\ UNCHANGED <<session, nextId, sent, handed>> /\ wire' \subseteq wire
            /\ entries' = entries /\ entries' \in [Peers -> Tables]
        BY <2>7 DEF vars, receiverVars, Fragmented, Types
      <3>2. \A p \in Peers : \A id \in DOMAIN entries'[p] :
               id \in DOMAIN entries[p] /\ Same(entries'[p][id], entries[p][id])
        BY <3>1 DEF Same
      <3>. QED
        BY <3>1, <3>2, LosingKeeps
    <2>. QED
      BY <2>1, <2>2, <2>3, <2>4, <2>5, <2>6, <2>7 DEF Next
  <1>. QED
    BY <1>1, <1>2, PTL DEF Spec

(* What deliver_application_message is given is byte for byte a payload    *)
(* that a successful send() of the session took, and no message is given   *)
(* to it twice.                                                            *)
THEOREM HandedMessagesAreIntact == Spec => []HandedIsIntact
  <1>1. Fragmented => HandedIsIntact
    BY DEF Fragmented
  <1>. QED
    BY <1>1, FragmentedHolds, PTL
=============================================================================
