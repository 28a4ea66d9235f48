------------------------ MODULE ReliableTransportProofs ------------------------
(***************************************************************************)
(* Proofs about ReliableTransport, for every window size, every limit and  *)
(* every number of messages: the inflight counter is right, every frame    *)
(* that is queued, carried, acknowledged or accepted belongs to a message  *)
(* that send() took, messages are delivered once and in order, and the     *)
(* transport implements MessageChannel.                                    *)
(***************************************************************************)
EXTENDS ReliableTransport, ReplayWindowProofs, FiniteSetTheorems, TLAPS

-----------------------------------------------------------------------------
(* Facts about finite sets and about the helpers of the model.             *)

(* Message ids are a finite set of positive numbers. *)
LEMMA IdsFinite ==
    /\ IsFiniteSet(Ids)
    /\ Ids \subseteq Nat \ {0}
    /\ \A S \in SUBSET Ids : IsFiniteSet(S) /\ Cardinality(S) \in Nat
  <1>1. IsFiniteSet(Ids)
    BY TransportAssumption, FS_Interval DEF Ids
  <1>2. Ids \subseteq Nat \ {0}
    BY TransportAssumption DEF Ids
  <1>3. ASSUME NEW S \in SUBSET Ids PROVE IsFiniteSet(S) /\ Cardinality(S) \in Nat
    BY <1>1, FS_Subset, FS_CardinalityType, Zenon
  <1>. QED
    BY <1>1, <1>2, <1>3, Zenon

(* Removing the members of T from S. *)
LEMMA CardinalityDifference ==
    ASSUME NEW S, NEW T, IsFiniteSet(S)
    PROVE  /\ IsFiniteSet(S \ T) /\ IsFiniteSet(S \cap T)
           /\ Cardinality(S \ T) = Cardinality(S) - Cardinality(S \cap T)
           /\ Cardinality(S \ T) \in Nat /\ Cardinality(S \cap T) \in Nat
           /\ Cardinality(S) \in Nat
  <1>1. IsFiniteSet(S \ T) /\ IsFiniteSet(S \cap T)
    BY FS_Subset, Zenon
  <1>2. (S \ T) \cup (S \cap T) = S /\ (S \ T) \cap (S \cap T) = {}
    OBVIOUS
  <1>3. Cardinality(S) = Cardinality(S \ T) + Cardinality(S \cap T) - Cardinality({})
    BY <1>1, <1>2, FS_Union, SMTT(30), ZenonT(30)
  <1>. QED
    BY <1>1, <1>3, FS_EmptySet, FS_CardinalityType, SMTT(30), ZenonT(30)

(* Adding the members of T to S. *)
LEMMA CardinalityUnion ==
    ASSUME NEW S, NEW T, IsFiniteSet(S), IsFiniteSet(T)
    PROVE  /\ IsFiniteSet(S \cup T)
           /\ Cardinality(S \cup T) = Cardinality(S) + Cardinality(T \ S)
  <1>1. IsFiniteSet(T \ S)
    BY FS_Subset, Zenon
  <1>2. S \cup T = S \cup (T \ S) /\ S \cap (T \ S) = {}
    OBVIOUS
  <1>3. Cardinality(S \cup T) = Cardinality(S) + Cardinality(T \ S) - Cardinality({})
    BY <1>1, <1>2, FS_Union
  <1>4. IsFiniteSet(S \cup T)
    BY FS_Union, ZenonT(60)
  <1>5. Cardinality(S) \in Nat /\ Cardinality(T \ S) \in Nat /\ Cardinality({}) = 0
    BY <1>1, FS_EmptySet, FS_CardinalityType, Zenon
  <1>. QED
    BY <1>3, <1>4, <1>5, SMTT(30), ZenonT(30)

(* A function on 1..n is a sequence. *)
LEMMA FunctionIsSeq ==
    ASSUME NEW S, NEW n \in Nat, NEW e \in [1..n -> S]
    PROVE  e \in Seq(S) /\ Len(e) = n
  OBVIOUS

(* Two queues put together. *)
LEMMA QueueConcat ==
    ASSUME NEW S, NEW s \in Seq(S), NEW t \in Seq(S)
    PROVE  s \o t \in Seq(S) /\ Len(s \o t) = Len(s) + Len(t)
  OBVIOUS

(* A queue without its first element. *)
LEMMA QueueHeadTail ==
    ASSUME NEW S, NEW s \in Seq(S), s # <<>>
    PROVE  Head(s) \in S /\ Tail(s) \in Seq(S)
  OBVIOUS

(* A choice of PerChannel stays within the given sets. *)
LEMMA PerChannelSubset ==
    ASSUME NEW S, NEW f \in PerChannel(S)
    PROVE  /\ DOMAIN f = Channels
           /\ \A c \in Channels : f[c] \subseteq S[c]
  BY DEF PerChannel, Channels

(* The frames of a burst are frames of the messages sent. *)
LEMMA FramesType ==
    ASSUME NEW c \in Channels, NEW S \in SUBSET Ids,
           NEW q \in Bursts(c, S), NEW p \in Priorities
    PROVE  /\ Frames(c, q[p]) \in Seq(Frame)
           /\ \A i \in DOMAIN Frames(c, q[p]) :
                Frames(c, q[p])[i].chan = c /\ Frames(c, q[p])[i].id \in S
  <1>1. q[p] \in InOrder(S)
    BY Zenon DEF Bursts
  <1>2. PICK U \in SUBSET S : q[p] \in [1..Cardinality(U) -> U]
    BY <1>1, Zenon DEF InOrder
  <1>3. Cardinality(U) \in Nat
    BY IdsFinite, Zenon
  <1>. DEFINE n == Cardinality(U)
              e == [i \in 1..n |-> [chan |-> c, id |-> q[p][i]]]
  <1>4. Frames(c, q[p]) = e
    BY <1>2, Zenon DEF Frames
  <1>5. \A i \in 1..n : e[i] \in Frame /\ e[i].chan = c /\ e[i].id \in S
    BY <1>2, Zenon DEF Frame
  <1>6. e \in [1..n -> Frame]
    BY <1>5, Zenon
  <1>7. e \in Seq(Frame)
    BY <1>3, <1>6, FunctionIsSeq, Zenon
  <1>. QED
    BY <1>4, <1>5, <1>7, Zenon

-----------------------------------------------------------------------------
(* Types and the inflight counter.                                         *)

(* The ids below _next_message_id are the ones that have been given out. *)
Fresh == \A c \in Channels, m \in Ids : msgs[c][m].status = "none" <=> m >= nextId[c]

(* TypeOK alone is not inductive: the counter stays a natural number only  *)
(* because it is the size of a set, and a new message is not yet in it     *)
(* only because its id is fresh.                                           *)
Counted == TypeOK /\ InflightAccounting /\ Fresh

(* A message about to be sent has an id in range. *)
LEMMA NextIdInRange ==
    ASSUME Counted, NEW c \in Channels, MaySend(c)
    PROVE  nextId[c] \in Ids
  <1>1. nextId[c] \in Nat \ {0} /\ nextId[c] <= MaxSends(c)
    BY Zenon DEF Counted, TypeOK, MaySend
  <1>. QED
    BY <1>1, TransportAssumption DEF MaxSends, Ids

(* Nothing is pending in the initial state. *)
LEMMA InitCounted == Init => Counted
  <1>. SUFFICES ASSUME Init PROVE Counted
    OBVIOUS
  <1>1. TypeOK
    BY TransportAssumption, EmptyTracks
    DEF Init, TypeOK, Unsent, MessageType, Statuses, Channels, Pending, Frame
  <1>2. InflightAccounting
    BY TransportAssumption, FS_EmptySet DEF Init, InflightAccounting
  <1>3. Fresh
    BY IdsFinite DEF Init, Fresh, Unsent
  <1>. QED
    BY <1>1, <1>2, <1>3, Zenon DEF Counted

(* Numbering one more message keeps the ids fresh. *)
LEMMA FreshStep ==
    ASSUME Counted, NEW c \in Channels, MaySend(c),
           \A d \in Channels, k \in Ids :
                d # c \/ k # nextId[c] => msgs'[d][k] = msgs[d][k],
           msgs'[c][nextId[c]].status # "none",
           nextId' = [nextId EXCEPT ![c] = nextId[c] + 1]
    PROVE  /\ Fresh'
           /\ nextId[c] \notin Pending(c) /\ nextId[c] \notin inflight[c]
  <1>. DEFINE m == nextId[c]
  <1>1. m \in Ids /\ m \in Nat
    BY NextIdInRange, IdsFinite, ZenonT(60)
  <1>2. m \notin Pending(c)
    BY <1>1 DEF Counted, Fresh, Pending
  <1>3. m \notin inflight[c]
    BY <1>2, Zenon DEF Counted, TypeOK
  <1>6. ASSUME NEW d \in Channels, NEW k \in Ids
        PROVE  msgs'[d][k].status = "none" <=> k >= nextId'[d]
    <2>1. CASE d # c
      <3>1. nextId'[d] = nextId[d] /\ msgs'[d][k] = msgs[d][k]
        BY <2>1, Zenon DEF Counted, TypeOK
      <3>. QED
        BY <3>1 DEF Counted, Fresh
    <2>2. CASE d = c /\ k # m
      <3>1. nextId'[c] = m + 1 /\ msgs'[c][k] = msgs[c][k]
        BY <2>2, Zenon DEF Counted, TypeOK
      <3>2. k >= m + 1 <=> k >= m
        BY <1>1, <2>2, IdsFinite
      <3>. QED
        BY <2>2, <3>1, <3>2, SMTT(30), ZenonT(30) DEF Counted, Fresh
    <2>3. CASE d = c /\ k = m
      <3>1. nextId'[c] = m + 1 /\ ~(m >= m + 1)
        BY <1>1 DEF Counted, TypeOK
      <3>. QED
        BY <2>3, <3>1, Zenon
    <2>. QED
      BY <2>1, <2>2, <2>3, Zenon
  <1>. QED
    BY <1>2, <1>3, <1>6, Zenon DEF Fresh

(* The record of a message that send() has just numbered is well typed. *)
LEMMA OfferedType ==
    ASSUME Counted, NEW c \in Channels, MaySend(c), NEW p \in Priorities,
           NEW mortal \in Lifetimes, NEW status \in Statuses
    PROVE  Offered(c, p, mortal, status) \in MessageType
  <1>1. p \in Nat /\ mortal \in BOOLEAN
    BY TransportAssumption, Zenon
  <1>2. c = "ReliableOrdered" => nextOrdered \in 0..MaxOrdered
    BY TransportAssumption DEF Counted, TypeOK, MaySend
  <1>3. (IF c = "ReliableOrdered" THEN nextOrdered ELSE 0) \in 0..MaxOrdered
    BY <1>2, TransportAssumption, SMTT(30), ZenonT(30)
  <1>. QED
    BY <1>1, <1>3, Zenon DEF Offered, MessageType

(* A send uses up at most one ordered number. *)
LEMMA TakesSequenceType ==
    ASSUME Counted, NEW c \in Channels, MaySend(c), TakesSequence(c)
    PROVE  nextOrdered' \in 1..(MaxOrdered + 2)
  BY TransportAssumption DEF Counted, TypeOK, MaySend, TakesSequence

(* A send refused by enqueue() leaves the session as it was. *)
LEMMA SendRefusedCounted ==
    ASSUME Counted, NEW c \in Channels, SendRefused(c) PROVE Counted'
  <1>1. nextOrdered' \in 1..(MaxOrdered + 2)
    BY TransportAssumption, SMTT(30), ZenonT(30)
    DEF Counted, TypeOK, SendRefused, TakesSequence
  <1>. QED
    BY <1>1, ZenonT(60)
    DEF Counted, TypeOK, InflightAccounting, Fresh, SendRefused, Pending, netVars,
        receiverVars

(* A send rolled back leaves nothing inflight. *)
LEMMA SendRolledBackCounted ==
    ASSUME Counted, NEW c \in Channels, NEW p \in Priorities,
           NEW mortal \in Lifetimes, SendRolledBack(c, p, mortal)
    PROVE  Counted'
  <1>1. nextId[c] \in Ids /\ Offered(c, p, mortal, "refused") \in MessageType
    BY NextIdInRange, OfferedType, Zenon DEF SendRolledBack, Statuses
  <1>2. msgs' \in [Channels -> [Ids -> MessageType]]
    BY <1>1, Zenon DEF Counted, TypeOK, SendRolledBack
  <1>6. /\ Fresh'
        /\ nextId[c] \notin inflight[c]
        /\ \A d \in Channels, k \in Ids :
                d # c \/ k # nextId[c] => msgs'[d][k] = msgs[d][k]
    <2>1. msgs' = [msgs EXCEPT ![c][nextId[c]] = Offered(c, p, mortal, "refused")]
      BY Zenon DEF SendRolledBack
    <2>2. msgs'[c][nextId[c]] = Offered(c, p, mortal, "refused")
      BY <1>1, <2>1, Zenon DEF Counted, TypeOK
    <2>3. \A d \in Channels, k \in Ids :
                d # c \/ k # nextId[c] => msgs'[d][k] = msgs[d][k]
      BY <1>1, <2>1, Zenon DEF Counted, TypeOK
    <2>4. msgs'[c][nextId[c]].status # "none"
      BY <2>2, SMTT(30), ZenonT(30) DEF Offered
    <2>. QED
      BY <2>3, <2>4, FreshStep, ZenonT(60) DEF SendRolledBack
  <1>3. \A d \in Channels : inflight'[d] \subseteq Pending(d)'
    BY <1>6, SMTT(30), ZenonT(30) DEF Counted, TypeOK, SendRolledBack, Pending
  <1>4. nextId' \in [Channels -> Nat \ {0}]
    BY DEF Counted, TypeOK, SendRolledBack
  <1>5. nextOrdered' \in 1..(MaxOrdered + 2)
    BY TakesSequenceType, Zenon DEF SendRolledBack
  <1>. QED
    BY <1>2, <1>3, <1>4, <1>5, <1>6, ZenonT(60)
    DEF Counted, TypeOK, InflightAccounting, SendRolledBack, netVars, receiverVars

(* note_sent counts a message once, and only below the limit. *)
LEMMA NoteSentCounted ==
    ASSUME Counted, NEW c \in Channels, NEW m \in Ids, m \notin inflight[c],
           NoteSent(c, m)
    PROVE  /\ inflight' \in [Channels -> SUBSET Ids]
           /\ \A d \in Channels : inflight'[d] \subseteq inflight[d] \cup {m}
           /\ \A d \in Channels : d # c => inflight'[d] = inflight[d]
           /\ inflightCount' \in [Channels -> Nat]
           /\ sendCount' \in [Channels -> [Ids -> 0..2]]
           /\ InflightAccounting'
  <1>1. CASE inflightCount[c] < MaxInflight
    <2>1. /\ inflight' = [inflight EXCEPT ![c] = inflight[c] \cup {m}]
          /\ inflightCount' = [inflightCount EXCEPT ![c] = inflightCount[c] + 1]
          /\ sendCount' = [sendCount EXCEPT ![c][m] = 1]
      BY <1>1, Zenon DEF NoteSent
    <2>2. IsFiniteSet(inflight[c])
      BY IdsFinite, Zenon DEF Counted, TypeOK
    <2>3. Cardinality(inflight[c] \cup {m}) = Cardinality(inflight[c]) + 1
      BY <2>2, FS_AddElement, Zenon
    <2>4. InflightAccounting'
      <3>1. ASSUME NEW d \in Channels, d # c
            PROVE  inflight'[d] = inflight[d] /\ inflightCount'[d] = inflightCount[d]
        BY <2>1, <3>1, Zenon DEF Counted, TypeOK
      <3>2. /\ inflightCount'[c] = inflightCount[c] + 1
            /\ inflight'[c] = inflight[c] \cup {m}
        BY <2>1, Zenon DEF Counted, TypeOK
      <3>3. inflightCount[c] \in Nat /\ inflightCount[c] + 1 <= MaxInflight
        BY <1>1, TransportAssumption, SMTT(30), ZenonT(30) DEF Counted, TypeOK
      <3>. QED
        BY <2>3, <3>1, <3>2, <3>3, ZenonT(60) DEF Counted, InflightAccounting
    <2>. QED
      BY <2>1, <2>4 DEF Counted, TypeOK
  <1>2. CASE ~(inflightCount[c] < MaxInflight)
    BY <1>2, Zenon DEF NoteSent, Counted, TypeOK, InflightAccounting
  <1>. QED
    BY <1>1, <1>2, Zenon

(* A successful send keeps the count. *)
LEMMA SendQueuedCounted ==
    ASSUME Counted, NEW c \in Channels, NEW p \in Priorities,
           NEW mortal \in Lifetimes, SendQueued(c, p, mortal)
    PROVE  Counted'
  <1>. DEFINE m == nextId[c]
  <1>1. m \in Ids /\ Offered(c, p, mortal, "pending") \in MessageType
    BY NextIdInRange, OfferedType, Zenon DEF SendQueued, Statuses
  <1>2. msgs' \in [Channels -> [Ids -> MessageType]]
    BY <1>1, Zenon DEF Counted, TypeOK, SendQueued
  <1>3. /\ nextId' \in [Channels -> Nat \ {0}]
        /\ nextOrdered' \in 1..(MaxOrdered + 2)
    <2>1. nextId' \in [Channels -> Nat \ {0}]
      BY SMTT(30), ZenonT(30) DEF Counted, TypeOK, SendQueued
    <2>2. nextOrdered' \in 1..(MaxOrdered + 2)
      BY TakesSequenceType, Zenon DEF SendQueued
    <2>. QED
      BY <2>1, <2>2, Zenon
  <1>4. Offered(c, p, mortal, "pending").status = "pending"
    BY Zenon DEF Offered
  <1>6. /\ m \notin inflight[c] /\ Fresh'
        /\ msgs'[c][m] = Offered(c, p, mortal, "pending")
        /\ \A d \in Channels, k \in Ids : d # c \/ k # m => msgs'[d][k] = msgs[d][k]
    <2>1. msgs' = [msgs EXCEPT ![c][m] = Offered(c, p, mortal, "pending")]
      BY Zenon DEF SendQueued
    <2>2. msgs'[c][m] = Offered(c, p, mortal, "pending")
      BY <1>1, <2>1, Zenon DEF Counted, TypeOK
    <2>3. \A d \in Channels, k \in Ids : d # c \/ k # m => msgs'[d][k] = msgs[d][k]
      BY <1>1, <2>1, Zenon DEF Counted, TypeOK
    <2>4. msgs'[c][m].status # "none"
      BY <1>4, <2>2, Zenon
    <2>5. m \notin inflight[c] /\ Fresh'
      BY <2>3, <2>4, FreshStep, ZenonT(60) DEF SendQueued
    <2>. QED
      BY <2>2, <2>3, <2>5, Zenon
  <1>5. /\ inflight' \in [Channels -> SUBSET Ids]
        /\ \A d \in Channels : inflight'[d] \subseteq inflight[d] \cup {m}
        /\ \A d \in Channels : d # c => inflight'[d] = inflight[d]
        /\ inflightCount' \in [Channels -> Nat]
        /\ sendCount' \in [Channels -> [Ids -> 0..2]]
        /\ InflightAccounting'
    BY <1>1, <1>6, NoteSentCounted, Zenon DEF SendQueued
  <1>7. \A d \in Channels : inflight'[d] \subseteq Pending(d)'
    <2>. SUFFICES ASSUME NEW d \in Channels, NEW k \in inflight'[d]
                  PROVE  k \in Ids /\ msgs'[d][k].status = "pending"
      BY Zenon DEF Pending
    <2>1. k \in Ids
      BY <1>5, Zenon
    <2>2. CASE d = c /\ k = m
      BY <1>4, <1>6, <2>1, <2>2, Zenon
    <2>3. CASE d # c \/ k # m
      <3>1. k \in inflight[d] /\ msgs'[d][k] = msgs[d][k]
        BY <1>5, <1>6, <2>1, <2>3, Zenon
      <3>. QED
        BY <2>1, <3>1, Zenon DEF Counted, TypeOK, Pending
    <2>. QED
      BY <2>2, <2>3, Zenon
  <1>8. outQ' \in [Priorities -> Seq(Frame)]
    <2>1. [chan |-> c, id |-> m] \in Frame
      BY <1>1, Zenon DEF Frame
    <2>. QED
      BY <2>1 DEF SendQueued, Counted, TypeOK
  <1>9. transmitted' \in [Channels -> [Ids -> 0..2]]
    BY <1>1 DEF SendQueued, Counted, TypeOK
  <1>. QED
    BY <1>2, <1>3, <1>5, <1>6, <1>7, <1>8, <1>9, ZenonT(60)
    DEF Counted, TypeOK, SendQueued, netVars, receiverVars

(* Moving a message to another status. *)
LEMMA StatusType ==
    ASSUME NEW x \in MessageType, NEW st \in Statuses
    PROVE  /\ [x EXCEPT !.status = st] \in MessageType
           /\ [x EXCEPT !.status = st].status = st
           /\ [x EXCEPT !.status = st].seq = x.seq
  BY Zenon DEF MessageType

(* A saturating counter stays below its cap. *)
LEMMA BumpType ==
    ASSUME NEW cap \in Nat, NEW n \in 0..cap PROVE Bump(n, cap) \in 0..cap
  BY SMTT(30), ZenonT(30) DEF Bump

(* flush_pending moves a frame to the network. *)
LEMMA FlushCounted ==
    ASSUME Counted, Flush PROVE Counted'
  <1>1. PICK p \in Priorities :
            /\ outQ[p] # <<>>
            /\ LET f == Head(outQ[p]) IN
               net' = [net EXCEPT ![f.chan][f.id] = Bump(net[f.chan][f.id], MaxCopies)]
            /\ outQ' = [outQ EXCEPT ![p] = Tail(outQ[p])]
            /\ UNCHANGED <<msgs, nextId, nextOrdered, inflight, inflightCount,
                           sendCount, transmitted, acks, receiverVars>>
    BY ZenonT(60) DEF Flush
  <1>. DEFINE f == Head(outQ[p])
  <1>2. f \in Frame /\ Tail(outQ[p]) \in Seq(Frame)
    BY <1>1, QueueHeadTail, Zenon DEF Counted, TypeOK
  <1>3. f.chan \in Channels /\ f.id \in Ids
    BY <1>2, Zenon DEF Frame
  <1>4. Bump(net[f.chan][f.id], MaxCopies) \in 0..MaxCopies
    <2>1. net[f.chan][f.id] \in 0..MaxCopies
      BY <1>3, SMTT(30), ZenonT(30) DEF Counted, TypeOK
    <2>2. MaxCopies \in Nat
      BY TransportAssumption, Zenon
    <2>. QED
      BY <2>1, <2>2, BumpType, Zenon
  <1>5. net' \in [Channels -> [Ids -> 0..MaxCopies]]
    BY <1>1, <1>3, <1>4, ZenonT(60) DEF Counted, TypeOK
  <1>6. outQ' \in [Priorities -> Seq(Frame)]
    BY <1>1, <1>2, Zenon DEF Counted, TypeOK
  <1>. QED
    BY <1>1, <1>5, <1>6, ZenonT(60)
    DEF Counted, TypeOK, InflightAccounting, Fresh, Pending, receiverVars

(* Taking one copy out of the network. *)
LEMMA TakeCopy ==
    ASSUME NEW f \in [Channels -> [Ids -> 0..MaxCopies]],
           NEW c \in Channels, NEW m \in Ids, f[c][m] > 0
    PROVE  [f EXCEPT ![c][m] = f[c][m] - 1] \in [Channels -> [Ids -> 0..MaxCopies]]
  <1>1. f[c][m] - 1 \in 0..MaxCopies
    BY TransportAssumption
  <1>. QED
    BY <1>1, Zenon

(* The network loses frames, not state. *)
LEMMA LoseCounted ==
    ASSUME Counted, NEW c \in Channels, NEW m \in Ids,
           LoseData(c, m) \/ LoseAck(c, m)
    PROVE  Counted'
  <1>1. CASE LoseData(c, m)
    <2>1. net' \in [Channels -> [Ids -> 0..MaxCopies]]
      BY <1>1, TakeCopy, Zenon DEF LoseData, Counted, TypeOK
    <2>. QED
      BY <1>1, <2>1, Zenon DEF LoseData, Counted, TypeOK, InflightAccounting, Fresh,
                        Pending, senderVars, receiverVars
  <1>2. CASE LoseAck(c, m)
    <2>1. acks' \in [Channels -> [Ids -> 0..MaxCopies]]
      BY <1>2, TakeCopy, Zenon DEF LoseAck, Counted, TypeOK
    <2>. QED
      BY <1>2, <2>1, Zenon DEF LoseAck, Counted, TypeOK, InflightAccounting, Fresh,
                        Pending, senderVars, receiverVars
  <1>. QED
    BY <1>1, <1>2, Zenon

(* acknowledge() gives up the inflight place it found. *)
LEMMA ReceiveAckCounted ==
    ASSUME Counted, NEW c \in Channels, NEW m \in Ids, ReceiveAck(c, m)
    PROVE  Counted'
  <1>1. acks' \in [Channels -> [Ids -> 0..MaxCopies]]
    BY TakeCopy, Zenon DEF ReceiveAck, Counted, TypeOK
  <1>2. CASE m \notin Pending(c)
    <2>1. UNCHANGED <<senderVars, net, receiverVars>>
      BY <1>2, Zenon DEF ReceiveAck, senderVars
    <2>. QED
      BY <1>1, <2>1, Zenon DEF Counted, TypeOK, InflightAccounting, Fresh, Pending,
                        senderVars, receiverVars
  <1>3. CASE m \in Pending(c)
    <2>1. /\ msgs' = [msgs EXCEPT ![c][m].status = "acked"]
          /\ inflight' = [inflight EXCEPT ![c] = inflight[c] \ {m}]
          /\ inflightCount' = [inflightCount EXCEPT ![c] =
                IF m \in inflight[c] THEN @ - 1 ELSE @]
      BY <1>3, Zenon DEF ReceiveAck
    <2>2. msgs' \in [Channels -> [Ids -> MessageType]]
      <3>1. [msgs[c][m] EXCEPT !.status = "acked"] \in MessageType
        <4>1. msgs[c][m] \in MessageType
          BY DEF Counted, TypeOK
        <4>2. "acked" \in Statuses
          BY Zenon DEF Statuses
        <4>. QED
          BY <4>1, <4>2, StatusType, Zenon
      <3>. QED
        BY <2>1, <3>1, Zenon DEF Counted, TypeOK
    <2>3. /\ \A d \in Channels, k \in Ids : d # c \/ k # m => msgs'[d][k] = msgs[d][k]
          /\ msgs'[c][m].status = "acked"
      BY <2>1 DEF Counted, TypeOK, MessageType
    <2>4. \A d \in Channels : inflight'[d] \subseteq Pending(d)'
      BY <2>1, <2>3, SMTT(30), ZenonT(30) DEF Counted, TypeOK, Pending
    <2>5. Fresh'
      <3>1. msgs[c][m].status # "none"
        BY <1>3, Zenon DEF Pending
      <3>2. nextId' = nextId
        BY Zenon DEF ReceiveAck
      <3>. QED
        BY <2>3, <3>1, <3>2, SMTT(30), ZenonT(30) DEF Counted, Fresh
    <2>6. IsFiniteSet(inflight[c]) /\ Cardinality(inflight[c]) \in Nat
      BY IdsFinite, Zenon DEF Counted, TypeOK
    <2>7. /\ Cardinality(inflight[c] \ {m}) =
                IF m \in inflight[c] THEN Cardinality(inflight[c]) - 1
                ELSE Cardinality(inflight[c])
          /\ Cardinality(inflight[c] \ {m}) \in Nat
      BY <2>6, FS_RemoveElement, FS_CardinalityType, ZenonT(60)
    <2>8. \A d \in Channels : inflightCount'[d] = Cardinality(inflight'[d])
                              /\ inflightCount'[d] <= MaxInflight
                              /\ inflightCount'[d] \in Nat
      <3>. SUFFICES ASSUME NEW d \in Channels
                    PROVE  /\ inflightCount'[d] = Cardinality(inflight'[d])
                           /\ inflightCount'[d] <= MaxInflight
                           /\ inflightCount'[d] \in Nat
        BY Zenon
      <3>1. /\ inflightCount[d] = Cardinality(inflight[d])
            /\ inflightCount[d] <= MaxInflight /\ inflightCount[d] \in Nat
        BY Zenon DEF Counted, TypeOK, InflightAccounting
      <3>2. CASE d # c
        <4>1. inflight'[d] = inflight[d] /\ inflightCount'[d] = inflightCount[d]
          BY <2>1, <3>2, Zenon DEF Counted, TypeOK
        <4>. QED
          BY <3>1, <4>1, ZenonT(60)
      <3>3. CASE d = c
        <4>1. /\ inflight'[c] = inflight[c] \ {m}
              /\ inflightCount'[c] = IF m \in inflight[c] THEN inflightCount[c] - 1
                                     ELSE inflightCount[c]
          BY <2>1, Zenon DEF Counted, TypeOK
        <4>2. /\ inflightCount'[c] = Cardinality(inflight'[c])
              /\ Cardinality(inflight[c] \ {m}) \in Nat
          BY <2>7, <3>1, <3>3, <4>1, Zenon
        <4>3. inflightCount'[c] \in Nat
          BY <4>1, <4>2, Zenon
        <4>4. inflightCount'[c] <= MaxInflight
          <5>. DEFINE before == inflightCount[c]
                      after == inflightCount'[c]
          <5>1. /\ before \in Nat /\ before <= MaxInflight /\ after \in {before - 1, before}
                /\ MaxInflight \in Nat
            BY <3>1, <3>3, <4>1, TransportAssumption, ZenonT(30)
          <5>. HIDE DEF before, after
          <5>2. after <= MaxInflight
            BY ONLY <5>1, SMT
          <5>. QED
            BY <5>2, Zenon DEF after
        <4>. QED
          BY <3>3, <4>2, <4>3, <4>4, Zenon
      <3>. QED
        BY <3>2, <3>3, ZenonT(60)
    <2>9. inflight' \in [Channels -> SUBSET Ids] /\ inflightCount' \in [Channels -> Nat]
      BY <2>1, <2>8, Zenon DEF Counted, TypeOK
    <2>. QED
      BY <1>1, <2>2, <2>4, <2>5, <2>8, <2>9, Zenon
      DEF ReceiveAck, Counted, TypeOK, InflightAccounting, receiverVars
  <1>. QED
    BY <1>2, <1>3, Zenon

(* expire_old and resend_due keep the count, whatever they send. *)
LEMMA PumpCounted ==
    ASSUME Counted, PumpReliable PROVE Counted'
  <1>1. PICK expired \in PerChannel([c \in Channels |-> Mortal(c)]) :
        \E due \in PerChannel([c \in Channels |-> inflight[c] \ expired[c]]) :
        \E sent \in PerChannel([c \in Channels |-> Pending(c) \ expired[c]]) :
            Pump(expired, due, sent)
    BY Zenon DEF PumpReliable
  <1>2. PICK due \in PerChannel([c \in Channels |-> inflight[c] \ expired[c]]) :
        \E sent \in PerChannel([c \in Channels |-> Pending(c) \ expired[c]]) :
            Pump(expired, due, sent)
    BY <1>1, Zenon
  <1>3. PICK sent \in PerChannel([c \in Channels |-> Pending(c) \ expired[c]]) :
            Pump(expired, due, sent)
    BY <1>2, Zenon
  <1>4. ASSUME NEW c \in Channels
        PROVE  /\ expired[c] \subseteq Pending(c)
               /\ due[c] \subseteq inflight[c] \ expired[c]
               /\ sent[c] \subseteq Pending(c) \ expired[c]
    BY PerChannelSubset DEF Mortal
  <1>. DEFINE P == [c \in Channels |-> Pending(c) \ expired[c]]
              I == [c \in Channels |-> inflight[c] \ expired[c]]
              lapsed == [c \in Channels |-> Lapsed(c, P[c], I[c], due[c], sent[c])]
  <1>5. /\ \A c \in Channels : Cardinality(I[c] \cup sent[c]) <= MaxInflight
        /\ msgs' = [c \in Channels |-> [m \in Ids |->
                IF m \in expired[c] THEN [msgs[c][m] EXCEPT !.status = "expired"]
                ELSE msgs[c][m]]]
        /\ inflight' = [c \in Channels |-> (I[c] \cup sent[c]) \ lapsed[c]]
        /\ inflightCount' = [c \in Channels |->
                inflightCount[c] - Cardinality(inflight[c] \cap expired[c])
                    + Cardinality(sent[c] \ I[c]) - Cardinality(lapsed[c])]
        /\ sendCount' = [c \in Channels |-> [m \in Ids |->
                IF m \in sent[c] THEN Bump(sendCount[c][m], 2) ELSE sendCount[c][m]]]
        /\ transmitted' = [c \in Channels |-> [m \in Ids |->
                IF m \in sent[c] THEN Bump(transmitted[c][m], 2) ELSE transmitted[c][m]]]
        /\ UNCHANGED <<nextId, nextOrdered, netVars, receiverVars>>
    BY <1>3, Zenon DEF Pump, ResendDue
  <1>6. \E r \in Bursts("Reliable", sent["Reliable"]),
           o \in Bursts("ReliableOrdered", sent["ReliableOrdered"]) :
             outQ' = [p \in Priorities |->
                         outQ[p] \o Frames("Reliable", r[p])
                                 \o Frames("ReliableOrdered", o[p])]
    BY <1>3, ZenonT(60) DEF Pump
  <1>7. msgs' \in [Channels -> [Ids -> MessageType]]
    <2>1. ASSUME NEW c \in Channels, NEW m \in Ids
          PROVE  [msgs[c][m] EXCEPT !.status = "expired"] \in MessageType
                 /\ msgs[c][m] \in MessageType
      <3>1. msgs[c][m] \in MessageType /\ "expired" \in Statuses
        BY SMTT(30), ZenonT(30) DEF Counted, TypeOK, Statuses
      <3>. QED
        BY <3>1, StatusType, Zenon
    <2>. QED
      BY <1>5, <2>1, Zenon
  <1>8. ASSUME NEW c \in Channels, NEW m \in Ids
        PROVE  /\ m \in expired[c] => /\ msgs[c][m].status = "pending"
                                      /\ msgs'[c][m].status = "expired"
               /\ m \notin expired[c] => msgs'[c][m] = msgs[c][m]
    <2>1. m \in expired[c] => msgs[c][m].status = "pending"
      BY <1>4, Zenon DEF Pending
    <2>2. m \in expired[c] => msgs'[c][m] = [msgs[c][m] EXCEPT !.status = "expired"]
      BY <1>5, Zenon
    <2>3. msgs[c][m] \in MessageType
      BY DEF Counted, TypeOK
    <2>4. m \in expired[c] => msgs'[c][m].status = "expired"
      BY <2>2, <2>3, Zenon DEF MessageType
    <2>5. m \notin expired[c] => msgs'[c][m] = msgs[c][m]
      BY <1>5, Zenon
    <2>. QED
      BY <2>1, <2>4, <2>5, Zenon
  <1>9. Fresh'
    BY <1>5, <1>8, SMTT(30), ZenonT(30) DEF Counted, Fresh
  <1>10. ASSUME NEW c \in Channels
         PROVE  /\ inflight'[c] \subseteq Pending(c)'
                /\ inflight'[c] \subseteq Ids
                /\ inflightCount'[c] = Cardinality(inflight'[c])
                /\ inflightCount'[c] \in Nat
                /\ inflightCount'[c] <= MaxInflight
    <2>1. /\ inflight[c] \subseteq Pending(c) /\ Pending(c) \subseteq Ids
          /\ inflightCount[c] = Cardinality(inflight[c])
      BY Zenon DEF Counted, TypeOK, InflightAccounting, Pending
    <2>2. /\ I[c] = inflight[c] \ expired[c]
          /\ I[c] \in SUBSET Ids /\ sent[c] \in SUBSET Ids
          /\ lapsed[c] \subseteq I[c] /\ lapsed[c] \cap sent[c] = {}
      BY <1>4, <2>1, ZenonT(60) DEF Lapsed, StopsAt
    <2>3. inflight'[c] = (I[c] \cup sent[c]) \ lapsed[c]
      BY <1>5, Zenon
    <2>4. inflight'[c] \subseteq Pending(c)' /\ inflight'[c] \subseteq Ids
      <3>1. inflight'[c] \subseteq I[c] \cup sent[c]
        BY <2>3, Zenon
      <3>2. I[c] \cup sent[c] \subseteq Pending(c) \ expired[c]
        BY <1>4, <2>1, <2>2, Zenon
      <3>3. ASSUME NEW m \in Pending(c) \ expired[c] PROVE m \in Pending(c)'
        <4>1. m \in Ids /\ msgs[c][m].status = "pending"
          BY Zenon DEF Pending
        <4>2. msgs'[c][m] = msgs[c][m]
          BY <1>8, <4>1, Zenon
        <4>. QED
          BY <4>1, <4>2, Zenon DEF Pending
      <3>. QED
        BY <2>1, <3>1, <3>2, <3>3, Zenon
    <2>. HIDE DEF I, lapsed, P
    <2>5. /\ IsFiniteSet(inflight[c]) /\ IsFiniteSet(I[c]) /\ IsFiniteSet(sent[c])
          /\ IsFiniteSet(I[c] \cup sent[c])
      BY <2>1, <2>2, IdsFinite, FS_Union, Zenon
    <2>6. Cardinality(I[c]) = Cardinality(inflight[c]) - Cardinality(inflight[c] \cap expired[c])
      BY <2>2, <2>5, CardinalityDifference, Zenon
    <2>7. Cardinality(I[c] \cup sent[c]) = Cardinality(I[c]) + Cardinality(sent[c] \ I[c])
      BY <2>5, CardinalityUnion, Zenon
    <2>8. /\ Cardinality((I[c] \cup sent[c]) \ lapsed[c])
                = Cardinality(I[c] \cup sent[c]) - Cardinality(lapsed[c])
          /\ Cardinality((I[c] \cup sent[c]) \ lapsed[c]) \in Nat
          /\ Cardinality(lapsed[c]) \in Nat
      <3>1. (I[c] \cup sent[c]) \cap lapsed[c] = lapsed[c]
        BY <2>2, Zenon
      <3>. QED
        BY <2>5, <3>1, CardinalityDifference, ZenonT(60)
    <2>9. inflightCount'[c] = inflightCount[c] - Cardinality(inflight[c] \cap expired[c])
                    + Cardinality(sent[c] \ I[c]) - Cardinality(lapsed[c])
      BY <1>5, Zenon
    <2>10. /\ Cardinality(inflight[c]) \in Nat
           /\ Cardinality(inflight[c] \cap expired[c]) \in Nat
           /\ Cardinality(sent[c] \ I[c]) \in Nat
           /\ Cardinality(I[c] \cup sent[c]) \in Nat
           /\ Cardinality(I[c]) \in Nat
      BY <2>5, CardinalityDifference, FS_CardinalityType, Zenon
    <2>11. Cardinality(I[c] \cup sent[c]) <= MaxInflight
      BY <1>5, Zenon
    <2>12. inflightCount'[c] = Cardinality((I[c] \cup sent[c]) \ lapsed[c])
      BY <2>1, <2>6, <2>7, <2>8, <2>9, <2>10, SMTT(30), ZenonT(30)
    <2>. QED
      BY <2>3, <2>4, <2>8, <2>10, <2>11, <2>12, TransportAssumption, SMTT(30), ZenonT(30)
  <1>11. inflight' \in [Channels -> SUBSET Ids] /\ inflightCount' \in [Channels -> Nat]
    BY <1>5, <1>10, ZenonT(60)
  <1>12. /\ sendCount' \in [Channels -> [Ids -> 0..2]]
         /\ transmitted' \in [Channels -> [Ids -> 0..2]]
    BY <1>5, SMTT(30), ZenonT(30) DEF Counted, TypeOK, Bump
  <1>13. outQ' \in [Priorities -> Seq(Frame)]
    <2>1. /\ "Reliable" \in Channels /\ "ReliableOrdered" \in Channels
          /\ \A c \in Channels : sent[c] \in SUBSET Ids
      BY <1>4, Zenon DEF Channels, Pending
    <2>2. PICK r \in Bursts("Reliable", sent["Reliable"]),
               o \in Bursts("ReliableOrdered", sent["ReliableOrdered"]) :
             outQ' = [p \in Priorities |->
                         outQ[p] \o Frames("Reliable", r[p])
                                 \o Frames("ReliableOrdered", o[p])]
      BY <1>6, ZenonT(60)
    <2>3. ASSUME NEW p \in Priorities
          PROVE  outQ[p] \o Frames("Reliable", r[p]) \o Frames("ReliableOrdered", o[p])
                    \in Seq(Frame)
      <3>1. /\ Frames("Reliable", r[p]) \in Seq(Frame)
            /\ Frames("ReliableOrdered", o[p]) \in Seq(Frame)
        <4>1. Frames("Reliable", r[p]) \in Seq(Frame)
          BY <2>1, FramesType, Zenon
        <4>2. Frames("ReliableOrdered", o[p]) \in Seq(Frame)
          BY <2>1, FramesType, Zenon
        <4>. QED
          BY <4>1, <4>2, Zenon
      <3>2. outQ[p] \in Seq(Frame)
        BY Zenon DEF Counted, TypeOK
      <3>. QED
        BY <3>1, <3>2, QueueConcat, Zenon
    <2>. QED
      BY <2>2, <2>3, Zenon
  <1>. QED
    BY <1>5, <1>7, <1>9, <1>10, <1>11, <1>12, <1>13, Zenon
    DEF Counted, TypeOK, InflightAccounting, netVars, receiverVars

(* What OrderedAccept does to the types. *)
LEMMA OrderedAcceptType ==
    ASSUME Counted, NEW seq \in 0..MaxOrdered, OrderedAccept(seq)
    PROVE  /\ nextExpected' \in 1..(MaxOrdered + 1)
           /\ buffer' \in SUBSET (1..MaxOrdered)
           /\ delivered' \in [Channels -> Seq(Nat)]
           /\ overflowed' \in SUBSET (1..MaxOrdered)
  <1>1. /\ nextExpected \in 1..(MaxOrdered + 1) /\ buffer \in SUBSET (1..MaxOrdered)
        /\ delivered \in [Channels -> Seq(Nat)] /\ overflowed \in SUBSET (1..MaxOrdered)
    BY Zenon DEF Counted, TypeOK
  <1>2. CASE seq = nextExpected
    <2>1. ~(seq < nextExpected) /\ ~(seq > nextExpected)
      BY <1>1, <1>2, TransportAssumption, SMTT(30), ZenonT(30)
    <2>2. PICK n \in (seq + 1)..(MaxOrdered + 1) :
            /\ nextExpected' = n
            /\ buffer' = buffer \ (seq..(n - 1))
            /\ delivered' = [delivered EXCEPT !["ReliableOrdered"] =
                                @ \o [i \in 1..(n - seq) |-> seq + i - 1]]
            /\ UNCHANGED overflowed
      BY <1>2, <2>1, ZenonT(60) DEF OrderedAccept
    <2>3. n - seq \in Nat /\ n \in 1..(MaxOrdered + 1)
      BY <1>1, <1>2, TransportAssumption, SMTT(30), ZenonT(30)
    <2>4. [i \in 1..(n - seq) |-> seq + i - 1] \in [1..(n - seq) -> Nat]
      BY <1>1, <1>2, <2>3, TransportAssumption, SMTT(30), ZenonT(30)
    <2>5. [i \in 1..(n - seq) |-> seq + i - 1] \in Seq(Nat)
      BY <2>3, <2>4, FunctionIsSeq, Zenon
    <2>6. delivered["ReliableOrdered"] \o [i \in 1..(n - seq) |-> seq + i - 1] \in Seq(Nat)
      BY <1>1, <2>5, QueueConcat, Zenon DEF Channels
    <2>7. delivered' \in [Channels -> Seq(Nat)]
      BY <1>1, <2>2, <2>6, Zenon
    <2>. QED
      BY <1>1, <2>2, <2>3, <2>7, Zenon
  <1>3. CASE seq # nextExpected
    <2>1. UNCHANGED <<nextExpected, delivered>>
      BY <1>3, Zenon DEF OrderedAccept
    <2>2. \/ UNCHANGED <<buffer, overflowed>>
          \/ seq > nextExpected /\ buffer' = buffer \cup {seq} /\ UNCHANGED overflowed
          \/ seq > nextExpected /\ overflowed' = overflowed \cup {seq} /\ UNCHANGED buffer
      BY <1>3, Zenon DEF OrderedAccept
    <2>3. seq > nextExpected => seq \in 1..MaxOrdered
      BY <1>1, TransportAssumption, SMTT(30), ZenonT(30)
    <2>. QED
      BY <1>1, <2>1, <2>2, <2>3, ZenonT(60)
  <1>. QED
    BY <1>2, <1>3, Zenon

(* The receiver leaves the sender alone. *)
LEMMA ReceiveDataCounted ==
    ASSUME Counted, NEW c \in Channels, NEW m \in Ids, ReceiveData(c, m)
    PROVE  Counted'
  <1>1. net' \in [Channels -> [Ids -> 0..MaxCopies]]
    BY TakeCopy, ZenonT(60) DEF ReceiveData, Counted, TypeOK
  <1>2. acks' \in [Channels -> [Ids -> 0..MaxCopies]]
    <2>1. acks[c][m] \in 0..MaxCopies
      BY SMTT(30), ZenonT(30) DEF Counted, TypeOK
    <2>2. Bump(acks[c][m], MaxCopies) \in 0..MaxCopies
      BY <2>1, TransportAssumption, SMTT(30), ZenonT(30) DEF Bump
    <2>3. CASE acks' = [acks EXCEPT ![c][m] = Bump(acks[c][m], MaxCopies)]
      BY <2>2, <2>3, Zenon DEF Counted, TypeOK
    <2>4. CASE UNCHANGED acks
      BY <2>4, Zenon DEF Counted, TypeOK
    <2>. QED
      BY <2>3, <2>4, Zenon DEF ReceiveData, QueueAck
  <1>3. UNCHANGED senderVars
    BY Zenon DEF ReceiveData
  <1>4. /\ window' \in [Channels -> WindowType]
        /\ accepted' \in [Channels -> SUBSET Ids]
        /\ nextExpected' \in 1..(MaxOrdered + 1)
        /\ buffer' \in SUBSET (1..MaxOrdered)
        /\ delivered' \in [Channels -> Seq(Nat)]
        /\ overflowed' \in SUBSET (1..MaxOrdered)
    <2>1. CASE UNCHANGED receiverVars
      BY <2>1, Zenon DEF receiverVars, Counted, TypeOK
    <2>2. CASE AcceptIncoming(c, m)
      <3>1. m \in Nat /\ window[c] \in WindowType
        BY IdsFinite, Zenon DEF Counted, TypeOK
      <3>2. Advance(window[c], m) \in WindowType
        BY <3>1, AdvanceType, Zenon
      <3>3. window' \in [Channels -> WindowType] /\ accepted' \in [Channels -> SUBSET Ids]
        BY <2>2, <3>2, Zenon DEF AcceptIncoming, Counted, TypeOK
      <3>4. CASE c = "ReliableOrdered"
        <4>1. OrderedAccept(msgs[c][m].seq)
          BY <2>2, <3>4, Zenon DEF AcceptIncoming
        <4>2. msgs[c][m].seq \in 0..MaxOrdered
          BY SMTT(30), ZenonT(30) DEF Counted, TypeOK, MessageType
        <4>. QED
          BY <3>3, <4>1, <4>2, OrderedAcceptType, Zenon
      <3>5. CASE c # "ReliableOrdered"
        <4>1. /\ delivered' = [delivered EXCEPT ![c] = Append(delivered[c], m)]
              /\ UNCHANGED <<nextExpected, buffer, overflowed>>
          BY <2>2, <3>5, Zenon DEF AcceptIncoming
        <4>2. Append(delivered[c], m) \in Seq(Nat)
          BY <3>1, SMTT(30), ZenonT(30) DEF Counted, TypeOK
        <4>. QED
          BY <3>3, <4>1, <4>2, Zenon DEF Counted, TypeOK
      <3>. QED
        BY <3>4, <3>5, Zenon
    <2>. QED
      BY <2>1, <2>2, Zenon DEF ReceiveData
  <1>. QED
    BY <1>1, <1>2, <1>3, <1>4, Zenon
    DEF Counted, TypeOK, InflightAccounting, Fresh, Pending, senderVars

(* Every step keeps the types and the inflight counter. *)
LEMMA NextCounted == Counted /\ [Next]_vars => Counted'
  <1>. SUFFICES ASSUME Counted, [Next]_vars PROVE Counted'
    BY Zenon
  <1>1. CASE UNCHANGED vars
    BY <1>1, Zenon DEF Counted, TypeOK, InflightAccounting, Fresh, Pending, vars, senderVars,
                netVars, receiverVars
  <1>2. ASSUME NEW c \in Channels, SendRefused(c) PROVE Counted'
    BY <1>2, SendRefusedCounted, Zenon
  <1>3. ASSUME NEW c \in Channels, NEW p \in Priorities, NEW mortal \in Lifetimes,
               SendRolledBack(c, p, mortal) \/ SendQueued(c, p, mortal)
        PROVE  Counted'
    BY <1>3, SendRolledBackCounted, SendQueuedCounted, Zenon
  <1>4. CASE Flush
    BY <1>4, FlushCounted, Zenon
  <1>5. CASE PumpReliable
    BY <1>5, PumpCounted, Zenon
  <1>6. ASSUME NEW c \in Channels, NEW m \in Ids,
               \/ ReceiveData(c, m) \/ ReceiveAck(c, m)
               \/ LoseData(c, m) \/ LoseAck(c, m)
        PROVE  Counted'
    BY <1>6, ReceiveDataCounted, ReceiveAckCounted, LoseCounted, Zenon
  <1>. QED
    BY <1>1, <1>2, <1>3, <1>4, <1>5, <1>6, Zenon DEF Next

(* In every reachable state the variables have their types and the         *)
(* inflight counter of each session is the number of its messages flagged  *)
(* inflight, at most max_inflight_messages.                                *)
THEOREM InflightCorrect == Spec => [](TypeOK /\ InflightAccounting)
  <1>1. Counted => TypeOK /\ InflightAccounting
    BY Zenon DEF Counted
  <1>. QED
    BY <1>1, InitCounted, NextCounted, PTL DEF Spec

-----------------------------------------------------------------------------
(* What is on its way was sent.                                            *)

(* Whatever is queued, in the network, acknowledged or accepted is a       *)
(* message that send() took.                                               *)
Carried ==
    /\ \A p \in Priorities : \A i \in DOMAIN outQ[p] :
            Sent(outQ[p][i].chan, outQ[p][i].id)
    /\ \A c \in Channels, m \in Ids :
            net[c][m] > 0 \/ acks[c][m] > 0 \/ m \in accepted[c] => Sent(c, m)

(* send() writes only the record of a message nobody has heard of. *)
LEMMA SendKeepsSent ==
    ASSUME Counted, NEW c \in Channels, NEW p \in Priorities, NEW mortal \in Lifetimes,
           SendRolledBack(c, p, mortal) \/ SendQueued(c, p, mortal),
           NEW d \in Channels, NEW k \in Ids, Sent(d, k)
    PROVE  msgs'[d][k] = msgs[d][k]
  <1>1. nextId[c] \in Ids /\ nextId[c] \in Nat
    BY NextIdInRange, IdsFinite, Zenon DEF SendRolledBack, SendQueued
  <1>2. msgs[c][nextId[c]].status = "none"
    BY <1>1 DEF Counted, Fresh
  <1>3. d # c \/ k # nextId[c]
    BY <1>2, Zenon DEF Sent
  <1>4. PICK x : msgs' = [msgs EXCEPT ![c][nextId[c]] = x]
    BY Zenon DEF SendRolledBack, SendQueued
  <1>. QED
    BY <1>1, <1>3, <1>4, Zenon DEF Counted, TypeOK

(* What a pump does to the messages and to the packet queue. *)
LEMMA PumpEffect ==
    ASSUME Counted, PumpReliable
    PROVE  /\ \A c \in Channels, m \in Ids :
                \/ msgs'[c][m] = msgs[c][m]
                \/ /\ msgs[c][m].status = "pending"
                   /\ msgs'[c][m] = [msgs[c][m] EXCEPT !.status = "expired"]
           /\ \A p \in Priorities : \A i \in DOMAIN outQ'[p] :
                \/ \E j \in DOMAIN outQ[p] : outQ'[p][i] = outQ[p][j]
                \/ outQ'[p][i].chan \in Channels
                   /\ outQ'[p][i].id \in Pending(outQ'[p][i].chan)
           /\ UNCHANGED <<nextId, nextOrdered, netVars, receiverVars>>
  <1>1. PICK expired \in PerChannel([c \in Channels |-> Mortal(c)]) :
        \E due \in PerChannel([c \in Channels |-> inflight[c] \ expired[c]]) :
        \E sent \in PerChannel([c \in Channels |-> Pending(c) \ expired[c]]) :
            Pump(expired, due, sent)
    BY Zenon DEF PumpReliable
  <1>8. PICK due \in PerChannel([c \in Channels |-> inflight[c] \ expired[c]]) :
        \E sent \in PerChannel([c \in Channels |-> Pending(c) \ expired[c]]) :
            Pump(expired, due, sent)
    BY <1>1, Zenon
  <1>2. PICK sent \in PerChannel([c \in Channels |-> Pending(c) \ expired[c]]) :
            Pump(expired, due, sent)
    BY <1>8, ZenonT(60)
  <1>3. ASSUME NEW c \in Channels
        PROVE  expired[c] \subseteq Pending(c) /\ sent[c] \subseteq Pending(c)
    BY PerChannelSubset DEF Mortal
  <1>4. /\ msgs' = [c \in Channels |-> [m \in Ids |->
                IF m \in expired[c] THEN [msgs[c][m] EXCEPT !.status = "expired"]
                ELSE msgs[c][m]]]
        /\ UNCHANGED <<nextId, nextOrdered, netVars, receiverVars>>
    BY <1>2, Zenon DEF Pump
  <1>5. PICK r \in Bursts("Reliable", sent["Reliable"]),
             o \in Bursts("ReliableOrdered", sent["ReliableOrdered"]) :
             outQ' = [p \in Priorities |->
                         outQ[p] \o Frames("Reliable", r[p])
                                 \o Frames("ReliableOrdered", o[p])]
    BY <1>2, ZenonT(60) DEF Pump
  <1>6. ASSUME NEW p \in Priorities, NEW i \in DOMAIN outQ'[p]
        PROVE  \/ \E j \in DOMAIN outQ[p] : outQ'[p][i] = outQ[p][j]
               \/ outQ'[p][i].chan \in Channels
                  /\ outQ'[p][i].id \in Pending(outQ'[p][i].chan)
    <2>. DEFINE q == outQ[p]
                a == Frames("Reliable", r[p])
                b == Frames("ReliableOrdered", o[p])
    <2>1. "Reliable" \in Channels /\ "ReliableOrdered" \in Channels
      BY Zenon DEF Channels
    <2>2. sent["Reliable"] \in SUBSET Ids /\ sent["ReliableOrdered"] \in SUBSET Ids
      BY <1>3, <2>1, Zenon DEF Pending
    <2>3. /\ a \in Seq(Frame)
          /\ \A j \in DOMAIN a : a[j].chan = "Reliable" /\ a[j].id \in sent["Reliable"]
      BY <2>1, <2>2, FramesType, Zenon
    <2>4. /\ b \in Seq(Frame)
          /\ \A j \in DOMAIN b :
                b[j].chan = "ReliableOrdered" /\ b[j].id \in sent["ReliableOrdered"]
      BY <2>1, <2>2, FramesType, Zenon
    <2>5. q \in Seq(Frame) /\ outQ'[p] = (q \o a) \o b
      BY <1>5, Zenon DEF Counted, TypeOK
    <2>. HIDE DEF q, a, b
    <2>6. /\ i \in 1..(Len(q) + Len(a) + Len(b))
          /\ Len(q) \in Nat /\ Len(a) \in Nat /\ Len(b) \in Nat
          /\ DOMAIN q = 1..Len(q) /\ DOMAIN a = 1..Len(a) /\ DOMAIN b = 1..Len(b)
      BY <2>3, <2>4, <2>5
    <2>7. outQ'[p][i] = IF i <= Len(q) THEN q[i]
                        ELSE IF i <= Len(q) + Len(a) THEN a[i - Len(q)]
                        ELSE b[i - Len(q) - Len(a)]
      BY <2>3, <2>4, <2>5, <2>6, SMTT(30), ZenonT(30)
    <2>8. CASE i <= Len(q)
      BY <2>6, <2>7, <2>8 DEF q
    <2>9. CASE i > Len(q) /\ i <= Len(q) + Len(a)
      <3>1. i - Len(q) \in DOMAIN a /\ outQ'[p][i] = a[i - Len(q)]
        BY <2>6, <2>7, <2>9, SMTT(30), ZenonT(30)
      <3>. QED
        BY <1>3, <2>1, <2>3, <3>1, Zenon
    <2>10. CASE i > Len(q) + Len(a)
      <3>1. i - Len(q) - Len(a) \in DOMAIN b /\ outQ'[p][i] = b[i - Len(q) - Len(a)]
        BY <2>6, <2>7, <2>10, SMTT(30), ZenonT(30)
      <3>. QED
        BY <1>3, <2>1, <2>4, <3>1, Zenon
    <2>. QED
      BY <2>6, <2>8, <2>9, <2>10, SMTT(30), ZenonT(30)
  <1>7. \A c \in Channels, m \in Ids :
            \/ msgs'[c][m] = msgs[c][m]
            \/ /\ msgs[c][m].status = "pending"
               /\ msgs'[c][m] = [msgs[c][m] EXCEPT !.status = "expired"]
    BY <1>3, <1>4, Zenon DEF Pending
  <1>. QED
    BY <1>4, <1>6, <1>7, Zenon

(* A message once sent stays sent and keeps its ordered number. *)
LEMMA SentKept ==
    ASSUME Counted, [Next]_vars, NEW c \in Channels, NEW m \in Ids, Sent(c, m)
    PROVE  Sent(c, m)' /\ msgs'[c][m].seq = msgs[c][m].seq
  <1>. msgs \in [Channels -> [Ids -> MessageType]]
    BY Zenon DEF Counted, TypeOK
  <1>0. msgs[c][m] \in MessageType
    OBVIOUS
  <1>1. CASE UNCHANGED msgs
    BY <1>1, Zenon DEF Sent
  <1>2. CASE \E d \in Channels, p \in Priorities, mortal \in Lifetimes :
                SendRolledBack(d, p, mortal) \/ SendQueued(d, p, mortal)
    <2>1. msgs'[c][m] = msgs[c][m]
      BY <1>2, SendKeepsSent, Zenon
    <2>. QED
      BY <2>1, Zenon DEF Sent
  <1>3. CASE PumpReliable
    <2>1. \/ msgs'[c][m] = msgs[c][m]
          \/ msgs'[c][m] = [msgs[c][m] EXCEPT !.status = "expired"]
      BY <1>3, PumpEffect, Zenon
    <2>. QED
      BY <1>0, <2>1, Zenon DEF Sent, MessageType
  <1>4. CASE \E d \in Channels, k \in Ids : ReceiveAck(d, k)
    <2>1. PICK d \in Channels, k \in Ids : ReceiveAck(d, k)
      BY <1>4, Zenon
    <2>2. msgs' = msgs \/ msgs' = [msgs EXCEPT ![d][k].status = "acked"]
      BY <2>1, Zenon DEF ReceiveAck
    <2>3. CASE d = c /\ k = m
      <3>1. \/ msgs'[c][m] = msgs[c][m]
            \/ msgs'[c][m] = [msgs[c][m] EXCEPT !.status = "acked"]
        BY <2>2, <2>3, SMTT(30), ZenonT(30)
      <3>. QED
        BY <1>0, <3>1, Zenon DEF Sent, MessageType
    <2>4. CASE d # c \/ k # m
      <3>1. msgs'[c][m] = msgs[c][m]
        BY <2>2, <2>4, SMTT(30), ZenonT(30)
      <3>. QED
        BY <3>1, Zenon DEF Sent
    <2>. QED
      BY <2>3, <2>4, Zenon
  <1>. QED
    BY <1>1, <1>2, <1>3, <1>4, ZenonT(60)
    DEF Next, vars, senderVars, SendRefused, Flush, ReceiveData, LoseData, LoseAck

(* Nothing is on its way in the initial state. *)
LEMMA InitCarried == Init => Carried
  BY DEF Init, Carried

(* The frame at the head of the queue, and every other one, was sent. *)
LEMMA QueuedWasSent ==
    ASSUME Counted, Carried, NEW p \in Priorities, NEW i \in DOMAIN outQ[p]
    PROVE  outQ[p][i] \in Frame /\ Sent(outQ[p][i].chan, outQ[p][i].id)
  BY DEF Counted, TypeOK, Carried

(* Every step carries on only what was sent. *)
LEMMA NextCarried ==
    ASSUME Counted, Carried, [Next]_vars PROVE Carried'
  <1>. DEFINE NetCarried == \A c \in Channels, m \in Ids :
                    net[c][m] > 0 \/ acks[c][m] > 0 \/ m \in accepted[c] => Sent(c, m)
              QueueCarried == \A p \in Priorities : \A i \in DOMAIN outQ[p] :
                    Sent(outQ[p][i].chan, outQ[p][i].id)
  <1>1. \A c \in Channels, m \in Ids :
            Sent(c, m) => msgs'[c][m].status \in {"pending", "acked", "expired"}
    BY SentKept, Zenon DEF Sent
  <1>2. \A f \in Frame :
            Sent(f.chan, f.id) => msgs'[f.chan][f.id].status \in {"pending", "acked", "expired"}
    BY <1>1, Zenon DEF Frame
  <1>3. /\ outQ \in [Priorities -> Seq(Frame)]
        /\ acks \in [Channels -> [Ids -> 0..MaxCopies]]
        /\ net \in [Channels -> [Ids -> 0..MaxCopies]]
        /\ accepted \in [Channels -> SUBSET Ids]
    BY Zenon DEF Counted, TypeOK
  <1>4. UNCHANGED outQ => QueueCarried'
    BY <1>2, QueuedWasSent, ZenonT(60) DEF Sent
  <1>5. UNCHANGED <<net, acks, accepted>> => NetCarried'
    BY <1>1, Zenon DEF Carried, Sent
  <1>6. CASE UNCHANGED <<outQ, net, acks, accepted>>
    BY <1>4, <1>5, <1>6, Zenon DEF Carried
  <1>7. ASSUME NEW c \in Channels, NEW p \in Priorities, NEW mortal \in Lifetimes,
               SendQueued(c, p, mortal)
        PROVE  Carried'
    <2>1. nextId[c] \in Ids
      BY <1>7, NextIdInRange, Zenon DEF SendQueued
    <2>2. msgs'[c][nextId[c]].status = "pending"
      BY <1>7, <2>1, Zenon DEF SendQueued, Offered, Counted, TypeOK
    <2>3. outQ' = [outQ EXCEPT ![p] = Append(outQ[p], [chan |-> c, id |-> nextId[c]])]
      BY <1>7, Zenon DEF SendQueued
    <2>4. ASSUME NEW q \in Priorities, NEW i \in DOMAIN outQ'[q]
          PROVE  Sent(outQ[q][i].chan, outQ[q][i].id)'
      <3>1. CASE i \in DOMAIN outQ[q] /\ outQ'[q][i] = outQ[q][i]
        BY <1>2, <3>1, QueuedWasSent, ZenonT(60) DEF Sent
      <3>2. CASE outQ'[q][i] = [chan |-> c, id |-> nextId[c]]
        BY <2>2, <3>2 DEF Sent
      <3>. QED
        BY <1>3, <2>3, <3>1, <3>2, SMTT(30), ZenonT(30)
    <2>5. NetCarried'
      BY <1>5, <1>7, Zenon DEF SendQueued, netVars, receiverVars
    <2>. QED
      BY <2>4, <2>5, Zenon DEF Carried
  <1>8. CASE PumpReliable
    <2>1. ASSUME NEW p \in Priorities, NEW i \in DOMAIN outQ'[p]
          PROVE  Sent(outQ[p][i].chan, outQ[p][i].id)'
      <3>1. CASE \E j \in DOMAIN outQ[p] : outQ'[p][i] = outQ[p][j]
        <4>1. PICK j \in DOMAIN outQ[p] : outQ'[p][i] = outQ[p][j]
          BY <3>1, Zenon
        <4>2. outQ[p][j] \in Frame /\ Sent(outQ[p][j].chan, outQ[p][j].id)
          BY QueuedWasSent, Zenon
        <4>3. msgs'[outQ[p][j].chan][outQ[p][j].id].status \in {"pending", "acked", "expired"}
          BY <1>2, <4>2, Zenon
        <4>. QED
          BY <4>1, <4>3, Zenon DEF Sent
      <3>2. CASE outQ'[p][i].chan \in Channels
                 /\ outQ'[p][i].id \in Pending(outQ'[p][i].chan)
        <4>1. Sent(outQ'[p][i].chan, outQ'[p][i].id) /\ outQ'[p][i].id \in Ids
          BY <3>2, ZenonT(60) DEF Pending, Sent
        <4>. QED
          BY <1>1, <3>2, <4>1, ZenonT(60) DEF Sent
      <3>. QED
        BY <1>8, <3>1, <3>2, PumpEffect, Zenon
    <2>2. NetCarried'
      BY <1>5, <1>8, PumpEffect, Zenon DEF netVars, receiverVars
    <2>. QED
      BY <2>1, <2>2, Zenon DEF Carried
  <1>9. CASE Flush
    <2>1. PICK p \in Priorities :
            /\ outQ[p] # <<>>
            /\ LET f == Head(outQ[p]) IN
               net' = [net EXCEPT ![f.chan][f.id] = Bump(net[f.chan][f.id], MaxCopies)]
            /\ outQ' = [outQ EXCEPT ![p] = Tail(outQ[p])]
            /\ UNCHANGED <<acks, receiverVars>>
      BY <1>9, ZenonT(60) DEF Flush
    <2>. DEFINE f == Head(outQ[p])
    <2>2. outQ[p] \in Seq(Frame) /\ 1 \in DOMAIN outQ[p] /\ f = outQ[p][1]
      BY <1>3, <2>1
    <2>3. f \in Frame /\ Sent(f.chan, f.id)
      BY <2>2, QueuedWasSent, Zenon
    <2>4. ASSUME NEW c \in Channels, NEW m \in Ids, net'[c][m] > 0
          PROVE  msgs'[c][m].status \in {"pending", "acked", "expired"}
      <3>1. CASE c = f.chan /\ m = f.id
        BY <1>1, <2>3, <3>1, Zenon
      <3>2. CASE c # f.chan \/ m # f.id
        <4>1. net'[c][m] = net[c][m]
          BY <1>3, <2>1, <2>3, <3>2, Zenon DEF Frame
        <4>. QED
          BY <1>1, <2>4, <4>1, Zenon DEF Carried
      <3>. QED
        BY <3>1, <3>2, Zenon
    <2>5. NetCarried'
      BY <1>1, <2>1, <2>4, ZenonT(60) DEF Carried, Sent, receiverVars
    <2>6. ASSUME NEW q \in Priorities, NEW i \in DOMAIN outQ'[q]
          PROVE  Sent(outQ[q][i].chan, outQ[q][i].id)'
      <3>1. \E j \in DOMAIN outQ[q] : outQ'[q][i] = outQ[q][j]
        <4>1. CASE q # p
          BY <1>3, <2>1, <4>1, Zenon
        <4>2. CASE q = p
          <5>1. outQ'[p] = Tail(outQ[p])
            BY <1>3, <2>1, Zenon
          <5>2. i \in DOMAIN Tail(outQ[p])
            BY <2>6, <4>2, <5>1, Zenon
          <5>3. i + 1 \in DOMAIN outQ[p] /\ Tail(outQ[p])[i] = outQ[p][i + 1]
            BY <2>1, <2>2, <5>2, SMTT(30), ZenonT(30)
          <5>. QED
            BY <4>2, <5>1, <5>3, Zenon
        <4>. QED
          BY <4>1, <4>2, Zenon
      <3>. QED
        BY <1>2, <3>1, QueuedWasSent, ZenonT(60) DEF Sent
    <2>. QED
      BY <2>5, <2>6, Zenon DEF Carried
  <1>10. ASSUME NEW c \in Channels, NEW m \in Ids, ReceiveData(c, m)
         PROVE  Carried'
    <2>1. Sent(c, m)
      BY <1>10, Zenon DEF ReceiveData, Carried
    <2>2. ASSUME NEW d \in Channels, NEW k \in Ids, d # c \/ k # m
          PROVE  /\ net'[d][k] = net[d][k] /\ acks'[d][k] = acks[d][k]
                 /\ k \in accepted'[d] => k \in accepted[d]
      <3>1. net'[d][k] = net[d][k]
        BY <1>3, <1>10, <2>2, Zenon DEF ReceiveData
      <3>2. acks'[d][k] = acks[d][k]
        BY <1>3, <1>10, <2>2, SMTT(30), ZenonT(30) DEF ReceiveData, QueueAck
      <3>3. k \in accepted'[d] => k \in accepted[d]
        BY <1>3, <1>10, <2>2, SMTT(30), ZenonT(30) DEF ReceiveData, AcceptIncoming, receiverVars
      <3>. QED
        BY <3>1, <3>2, <3>3, Zenon
    <2>3. NetCarried'
      BY <1>1, <2>1, <2>2, ZenonT(60) DEF Carried, Sent
    <2>. QED
      BY <1>4, <1>10, <2>3, Zenon DEF Carried, ReceiveData, senderVars
  <1>11. ASSUME NEW c \in Channels, NEW m \in Ids,
                ReceiveAck(c, m) \/ LoseData(c, m) \/ LoseAck(c, m)
         PROVE  Carried'
    <2>1. ASSUME NEW d \in Channels, NEW k \in Ids
          PROVE  net'[d][k] <= net[d][k] /\ acks'[d][k] <= acks[d][k]
      <3>1. CASE ReceiveAck(c, m) \/ LoseAck(c, m)
        <4>1. net' = net /\ acks' = [acks EXCEPT ![c][m] = acks[c][m] - 1]
          BY <3>1, Zenon DEF ReceiveAck, LoseAck
        <4>2. CASE d = c /\ k = m
          BY <1>3, <4>1, <4>2, SMTT(30), ZenonT(30)
        <4>3. CASE d # c \/ k # m
          BY <1>3, <4>1, <4>3, SMTT(30), ZenonT(30)
        <4>. QED
          BY <4>2, <4>3, Zenon
      <3>2. CASE LoseData(c, m)
        <4>1. acks' = acks /\ net' = [net EXCEPT ![c][m] = net[c][m] - 1]
          BY <3>2, Zenon DEF LoseData
        <4>2. CASE d = c /\ k = m
          BY <1>3, <4>1, <4>2, SMTT(30), ZenonT(30)
        <4>3. CASE d # c \/ k # m
          BY <1>3, <4>1, <4>3, SMTT(30), ZenonT(30)
        <4>. QED
          BY <4>2, <4>3, Zenon
      <3>. QED
        BY <1>11, <3>1, <3>2, Zenon
    <2>2. UNCHANGED <<outQ, accepted>>
      BY <1>11, Zenon DEF ReceiveAck, LoseData, LoseAck, senderVars, receiverVars
    <2>3. NetCarried'
      <3>1. Counted'
        BY NextCounted, Zenon
      <3>2. ASSUME NEW d \in Channels, NEW k \in Ids
            PROVE  /\ net[d][k] \in Int /\ acks[d][k] \in Int
                   /\ net'[d][k] \in Int /\ acks'[d][k] \in Int
        BY <1>3, <3>1, SMTT(30), ZenonT(30) DEF Counted, TypeOK
      <3>3. ASSUME NEW d \in Channels, NEW k \in Ids,
                   net'[d][k] > 0 \/ acks'[d][k] > 0 \/ k \in accepted'[d]
            PROVE  net[d][k] > 0 \/ acks[d][k] > 0 \/ k \in accepted[d]
        BY <2>1, <2>2, <3>2, <3>3, SMTT(30), ZenonT(30)
      <3>. QED
        BY <1>1, <3>3, ZenonT(60) DEF Carried, Sent
    <2>. QED
      BY <1>4, <2>2, <2>3, Zenon DEF Carried
  <1>. QED
    BY <1>6, <1>7, <1>8, <1>9, <1>10, <1>11, Zenon
    DEF Next, vars, senderVars, netVars, receiverVars, SendRefused, SendRolledBack

-----------------------------------------------------------------------------
(* The numbers of the ordered channel.                                     *)

(* The ordered channel numbers what it takes, and never reuses a number. *)
Numbered ==
    \A m \in Ids : Sent("ReliableOrdered", m) =>
        /\ msgs["ReliableOrdered"][m].seq \in 1..MaxOrdered
        /\ msgs["ReliableOrdered"][m].seq < nextOrdered

(* Nothing is numbered in the initial state. *)
LEMMA InitNumbered == Init => Numbered
  BY DEF Init, Numbered, Sent, Unsent, Channels

(* The numbers stay distinct: a send takes the next one, even if it fails. *)
LEMMA NextNumbered ==
    ASSUME Counted, Numbered, [Next]_vars PROVE Numbered'
  <1>. DEFINE O == "ReliableOrdered"
  <1>0. O \in Channels /\ nextOrdered \in Nat
    BY SMTT(30), ZenonT(30) DEF Channels, Counted, TypeOK
  <1>1. ASSUME \A m \in Ids : Sent(O, m)' => /\ Sent(O, m)
                                            /\ msgs'[O][m].seq = msgs[O][m].seq,
               nextOrdered' \in Nat, nextOrdered <= nextOrdered'
        PROVE  Numbered'
    BY <1>0, <1>1, TransportAssumption, SMTT(30), ZenonT(30) DEF Numbered
  <1>2. ASSUME NEW c \in Channels, SendRefused(c) PROVE Numbered'
    BY <1>0, <1>1, <1>2, SMTT(30), ZenonT(30) DEF SendRefused, TakesSequence, Sent
  <1>3. ASSUME NEW c \in Channels, NEW p \in Priorities, NEW mortal \in Lifetimes,
               NEW st \in Statuses, MaySend(c), TakesSequence(c),
               msgs' = [msgs EXCEPT ![c][nextId[c]] = Offered(c, p, mortal, st)]
        PROVE  Numbered'
    <2>1. nextId[c] \in Ids
      BY <1>3, NextIdInRange, Zenon
    <2>2. nextOrdered' \in Nat /\ nextOrdered <= nextOrdered'
      BY <1>0, <1>3 DEF TakesSequence
    <2>3. CASE c # O
      <3>1. msgs'[O] = msgs[O]
        BY <1>0, <1>3, <2>3, Zenon DEF Counted, TypeOK
      <3>. QED
        BY <1>1, <2>2, <3>1, Zenon DEF Sent
    <2>4. CASE c = O
      <3>1. nextOrdered \in 1..MaxOrdered /\ nextOrdered' = nextOrdered + 1
        BY <1>3, <2>4 DEF MaySend, TakesSequence, Counted, TypeOK
      <3>2. ASSUME NEW m \in Ids, Sent(O, m)'
            PROVE  /\ msgs'[O][m].seq \in 1..MaxOrdered
                   /\ msgs'[O][m].seq < nextOrdered'
        <4>1. CASE m = nextId[c]
          <5>1. msgs'[O][m] = Offered(c, p, mortal, st)
            BY <1>0, <1>3, <2>4, <4>1, Zenon DEF Counted, TypeOK
          <5>2. msgs'[O][m].seq = nextOrdered
            BY <2>4, <5>1 DEF Offered
          <5>. QED
            BY <3>1, <5>2
        <4>2. CASE m # nextId[c]
          <5>1. msgs'[O][m] = msgs[O][m]
            BY <1>0, <1>3, <2>4, <4>2, Zenon DEF Counted, TypeOK
          <5>2. msgs[O][m].seq \in 1..MaxOrdered /\ msgs[O][m].seq < nextOrdered
            BY <3>2, <5>1, Zenon DEF Sent, Numbered
          <5>. QED
            BY <3>1, <5>1, <5>2, SMTT(30), ZenonT(30)
        <4>. QED
          BY <4>1, <4>2, Zenon
      <3>. QED
        BY <3>2, Zenon DEF Numbered
    <2>. QED
      BY <2>3, <2>4, Zenon
  <1>4. ASSUME NEW c \in Channels, NEW p \in Priorities, NEW mortal \in Lifetimes,
               SendRolledBack(c, p, mortal) \/ SendQueued(c, p, mortal)
        PROVE  Numbered'
    BY <1>3, <1>4, Zenon DEF SendRolledBack, SendQueued, Statuses
  <1>5. CASE PumpReliable
    <2>1. \A m \in Ids : msgs[O][m] \in MessageType
      BY <1>0 DEF Counted, TypeOK
    <2>2. ASSUME NEW m \in Ids
          PROVE  Sent(O, m)' => Sent(O, m) /\ msgs'[O][m].seq = msgs[O][m].seq
      <3>1. CASE msgs'[O][m] = msgs[O][m]
        BY <3>1, Zenon DEF Sent
      <3>2. CASE /\ msgs[O][m].status = "pending"
                 /\ msgs'[O][m] = [msgs[O][m] EXCEPT !.status = "expired"]
        <4>1. msgs'[O][m].seq = msgs[O][m].seq
          BY <2>1, <3>2, Zenon DEF MessageType
        <4>. QED
          BY <3>2, <4>1, Zenon DEF Sent
      <3>. QED
        BY <1>0, <1>5, <3>1, <3>2, PumpEffect, Zenon
    <2>. QED
      BY <1>0, <1>1, <1>5, <2>2, PumpEffect, SMTT(30), ZenonT(30)
  <1>6. ASSUME NEW c \in Channels, NEW m \in Ids, ReceiveAck(c, m)
        PROVE  Numbered'
    <2>1. CASE UNCHANGED msgs
      BY <1>0, <1>1, <1>6, <2>1, SMTT(30), ZenonT(30) DEF ReceiveAck, Sent
    <2>2. CASE m \in Pending(c) /\ msgs' = [msgs EXCEPT ![c][m].status = "acked"]
      <3>1. ASSUME NEW k \in Ids
            PROVE  Sent(O, k)' => Sent(O, k) /\ msgs'[O][k].seq = msgs[O][k].seq
        <4>0. msgs[O][k] \in MessageType
          BY <1>0, SMTT(30), ZenonT(30) DEF Counted, TypeOK
        <4>1. CASE c = O /\ m = k
          <5>1. Sent(O, k)
            BY <2>2, <4>1, Zenon DEF Pending, Sent
          <5>0. msgs \in [Channels -> [Ids -> MessageType]]
            BY Zenon DEF Counted, TypeOK
          <5>2. msgs'[c][m] = [msgs[c][m] EXCEPT !.status = "acked"]
            BY <2>2, <5>0, Zenon
          <5>3. msgs'[O][k].seq = msgs[O][k].seq
            BY <4>0, <4>1, <5>2, Zenon DEF MessageType
          <5>. QED
            BY <5>1, <5>3, Zenon
        <4>2. CASE c # O \/ m # k
          <5>1. msgs'[O][k] = msgs[O][k]
            BY <1>0, <2>2, <4>2, Zenon DEF Counted, TypeOK
          <5>. QED
            BY <5>1, Zenon DEF Sent
        <4>. QED
          BY <4>1, <4>2, Zenon
      <3>. QED
        BY <1>0, <1>1, <1>6, <3>1, SMTT(30), ZenonT(30) DEF ReceiveAck
    <2>. QED
      BY <1>6, <2>1, <2>2, Zenon DEF ReceiveAck
  <1>7. CASE UNCHANGED <<msgs, nextOrdered>>
    BY <1>0, <1>1, <1>7, SMTT(30), ZenonT(30) DEF Sent
  <1>8. CASE Flush
    BY <1>7, <1>8, Zenon DEF Flush
  <1>9. ASSUME NEW c \in Channels, NEW m \in Ids,
               ReceiveData(c, m) \/ LoseData(c, m) \/ LoseAck(c, m)
        PROVE  Numbered'
    BY <1>7, <1>9, Zenon DEF ReceiveData, LoseData, LoseAck, senderVars
  <1>10. CASE UNCHANGED vars
    BY <1>7, <1>10, Zenon DEF vars, senderVars
  <1>. QED
    BY <1>2, <1>4, <1>5, <1>6, <1>8, <1>9, <1>10, Zenon DEF Next


-----------------------------------------------------------------------------
(* The receiving side.                                                     *)

(* The window of each channel has accepted exactly what was delivered or   *)
(* passed to the ordered window.                                           *)
Windows == \A c \in Channels : Tracks(window[c], accepted[c])

ReliableOnce ==
    /\ \A i, j \in DOMAIN delivered["Reliable"] :
            delivered["Reliable"][i] = delivered["Reliable"][j] => i = j
    /\ \A m \in accepted["Reliable"] :
            \E i \in DOMAIN delivered["Reliable"] : delivered["Reliable"][i] = m
    /\ \A i \in DOMAIN delivered["Reliable"] :
            delivered["Reliable"][i] \in accepted["Reliable"]

OrderedKept ==
    /\ \A m \in accepted["ReliableOrdered"] :
            \/ msgs["ReliableOrdered"][m].seq < nextExpected
            \/ msgs["ReliableOrdered"][m].seq \in buffer \cup overflowed
    /\ \A n \in (1..(nextExpected - 1)) \cup buffer :
            \E m \in Ids : Sent("ReliableOrdered", m)
                           /\ msgs["ReliableOrdered"][m].seq = n

(* An acknowledgement is on its way, or has arrived, only for a message    *)
(* that was accepted or came too late for the window.                      *)
AckedSeen ==
    \A c \in Channels, m \in Ids :
        acks[c][m] > 0 \/ msgs[c][m].status = "acked" =>
            m \in accepted[c] \/ Overtaken(c, m)

Received == Windows /\ ReliableOnce /\ OrderedDelivery /\ OrderedKept /\ AckedSeen

(* The receiver starts with empty windows. *)
LEMMA InitReceived == Init => Received
  <1>. SUFFICES ASSUME Init PROVE Received
    OBVIOUS
  <1>2. Windows
    BY EmptyTracks, Zenon DEF Init, Windows
  <1>3. ReliableOnce
    BY DEF Init, ReliableOnce, Channels
  <1>4. OrderedDelivery
    BY FS_EmptySet, TransportAssumption DEF Init, OrderedDelivery, Channels
  <1>5. OrderedKept
    BY DEF Init, OrderedKept, Channels
  <1>6. AckedSeen
    BY DEF Init, AckedSeen, Unsent
  <1>. QED
    BY <1>2, <1>3, <1>4, <1>5, <1>6, Zenon DEF Received

(* What OrderedReceiveWindow::accept does with number `seq': nothing that  *)
(* was delivered, buffered or dropped is forgotten, and only `seq' is new. *)
LEMMA OrderedAcceptStep ==
    ASSUME Counted, OrderedDelivery, NEW seq \in 1..MaxOrdered, OrderedAccept(seq)
    PROVE  /\ OrderedDelivery'
           /\ nextExpected <= nextExpected'
           /\ \A s \in 1..MaxOrdered :
                s < nextExpected \/ s \in buffer \cup overflowed \/ s = seq =>
                    s < nextExpected' \/ s \in buffer' \cup overflowed'
           /\ (1..(nextExpected' - 1)) \cup buffer'
                    \subseteq (1..(nextExpected - 1)) \cup buffer \cup {seq}
           /\ delivered'["Reliable"] = delivered["Reliable"]
           /\ \/ /\ UNCHANGED <<delivered, nextExpected>>
              \/ /\ nextExpected < nextExpected'
                 /\ delivered' = [delivered EXCEPT !["ReliableOrdered"] =
                        @ \o [i \in 1..(nextExpected' - nextExpected) |->
                                nextExpected + i - 1]]
  <1>1. /\ nextExpected \in 1..(MaxOrdered + 1) /\ buffer \in SUBSET (1..MaxOrdered)
        /\ delivered \in [Channels -> Seq(Nat)] /\ overflowed \in SUBSET (1..MaxOrdered)
        /\ MaxOrdered \in Nat /\ OrderedWindow \in Nat
    BY TransportAssumption, Zenon DEF Counted, TypeOK
  <1>2. IsFiniteSet(buffer) /\ Cardinality(buffer) \in Nat
    <2>1. IsFiniteSet(1..MaxOrdered)
      BY <1>1, FS_Interval
    <2>. QED
      BY <1>1, <2>1, FS_Subset, FS_CardinalityType, ZenonT(60)
  <1>3. CASE seq = nextExpected
    <2>1. ~(seq < nextExpected) /\ ~(seq > nextExpected)
      BY <1>1, <1>3
    <2>2. PICK n \in (seq + 1)..(MaxOrdered + 1) :
            /\ (seq + 1)..(n - 1) \subseteq buffer
            /\ n \notin buffer
            /\ nextExpected' = n
            /\ buffer' = buffer \ (seq..(n - 1))
            /\ delivered' = [delivered EXCEPT !["ReliableOrdered"] =
                                @ \o [i \in 1..(n - seq) |-> seq + i - 1]]
            /\ UNCHANGED overflowed
      BY <1>3, <2>1, ZenonT(60) DEF OrderedAccept
    <2>. DEFINE old == delivered["ReliableOrdered"]
                run == [i \in 1..(n - seq) |-> seq + i - 1]
    <2>3. n - seq \in Nat /\ n \in 1..(MaxOrdered + 1)
      BY <1>1, <1>3
    <2>4. run \in [1..(n - seq) -> Nat]
      BY <1>1, <1>3, <2>3
    <2>5. run \in Seq(Nat) /\ Len(run) = n - seq
      BY <2>3, <2>4, FunctionIsSeq, Zenon
    <2>6. /\ old \in Seq(Nat) /\ Len(old) = seq - 1
          /\ \A i \in 1..Len(old) : old[i] = i
      BY <1>1, <1>3 DEF OrderedDelivery, Channels
    <2>7. delivered'["ReliableOrdered"] = old \o run
      BY <1>1, <2>2, Zenon DEF Channels
    <2>8. \A i \in 1..(n - seq) : run[i] = seq + i - 1
      OBVIOUS
    <2>9. /\ Len(old \o run) = n - 1
          /\ \A i \in 1..(n - 1) : (old \o run)[i] = i
      <3>. HIDE DEF old, run
      <3>0. /\ old \o run \in Seq(Nat)
            /\ Len(old \o run) = Len(old) + Len(run)
        BY <2>5, <2>6, QueueConcat, Zenon
      <3>1. Len(old \o run) = n - 1 /\ old \o run \in Seq(Nat)
        BY <2>3, <2>5, <2>6, <3>0
      <3>2. ASSUME NEW i \in 1..(n - 1) PROVE (old \o run)[i] = i
        <4>1. (old \o run)[i] = IF i <= Len(old) THEN old[i] ELSE run[i - Len(old)]
          BY <2>3, <2>5, <2>6, <3>1
        <4>2. CASE i <= Len(old)
          BY <2>3, <2>6, <4>1, <4>2, SMTT(30), ZenonT(30)
        <4>3. CASE ~(i <= Len(old))
          <5>1. i - Len(old) \in 1..(n - seq) /\ i - Len(old) = i - seq + 1
            BY <2>3, <2>6, <4>3
          <5>2. run[i - Len(old)] = seq + (i - seq + 1) - 1
            BY <2>8, <5>1, Zenon
          <5>. QED
            BY <2>3, <4>1, <4>3, <5>2, SMTT(30), ZenonT(30)
        <4>. QED
          BY <4>2, <4>3, Zenon
      <3>. QED
        BY <3>1, <3>2, Zenon
    <2>10. \A s \in buffer' : s > n
      BY <1>1, <1>3, <2>2, <2>3 DEF OrderedDelivery
    <2>11. Cardinality(buffer') <= OrderedWindow
      <3>1. Cardinality(buffer') <= Cardinality(buffer) /\ Cardinality(buffer') \in Nat
        BY <1>2, <2>2, FS_Subset, FS_CardinalityType, Zenon
      <3>. QED
        BY <1>1, <1>2, <3>1 DEF OrderedDelivery
    <2>12. OrderedDelivery'
      <3>1. old \o run \in Seq(Nat)
        BY <2>5, <2>6, QueueConcat, Zenon
      <3>2. DOMAIN (old \o run) = 1..(n - 1)
        BY <2>9, <3>1
      <3>. QED
        BY <2>2, <2>7, <2>9, <2>10, <2>11, <3>2, ZenonT(60) DEF OrderedDelivery
    <2>13. delivered'["Reliable"] = delivered["Reliable"]
      BY <1>1, <2>2, Zenon DEF Channels
    <2>14. \A s \in 1..MaxOrdered :
                s < nextExpected \/ s \in buffer \cup overflowed \/ s = seq =>
                    s < nextExpected' \/ s \in buffer' \cup overflowed'
      BY <1>1, <1>3, <2>2, <2>3, SMTT(30), ZenonT(30)
    <2>15. (1..(nextExpected' - 1)) \cup buffer'
                    \subseteq (1..(nextExpected - 1)) \cup buffer \cup {seq}
      BY <1>1, <1>3, <2>2, <2>3, SMTT(30), ZenonT(30)
    <2>. QED
      BY <1>1, <1>3, <2>2, <2>3, <2>12, <2>13, <2>14, <2>15, SMTT(30), ZenonT(30)
  <1>4. CASE seq # nextExpected
    <2>1. UNCHANGED <<nextExpected, delivered>>
      BY <1>4, Zenon DEF OrderedAccept
    <2>2. CASE seq < nextExpected /\ UNCHANGED <<buffer, overflowed>>
      <3>1. OrderedDelivery'
        BY <2>1, <2>2, ZenonT(30) DEF OrderedDelivery
      <3>. QED
        BY <1>1, <2>1, <2>2, <3>1, SMTT(30), ZenonT(30)
    <2>3. CASE seq \in buffer /\ UNCHANGED <<buffer, overflowed>>
      <3>1. OrderedDelivery'
        BY <2>1, <2>3, ZenonT(30) DEF OrderedDelivery
      <3>. QED
        BY <1>1, <2>1, <2>3, <3>1, SMTT(30), ZenonT(30)
    <2>4. CASE /\ seq > nextExpected /\ seq \notin buffer
               /\ Cardinality(buffer) < OrderedWindow
               /\ buffer' = buffer \cup {seq} /\ UNCHANGED overflowed
      <3>0. Cardinality(buffer \cup {seq}) = Cardinality(buffer) + 1
        BY <1>2, <2>4, FS_AddElement, ZenonT(30)
      <3>1. Cardinality(buffer') = Cardinality(buffer) + 1
        BY <2>4, <3>0, ZenonT(30)
      <3>2. Cardinality(buffer') <= OrderedWindow
        BY <1>1, <1>2, <2>4, <3>1
      <3>3. OrderedDelivery'
        BY <1>1, <2>1, <2>4, <3>2, Zenon DEF OrderedDelivery
      <3>. QED
        BY <1>1, <2>1, <2>4, <3>3, SMTT(30), ZenonT(30)
    <2>5. CASE /\ seq > nextExpected
               /\ overflowed' = overflowed \cup {seq} /\ UNCHANGED buffer
      <3>1. OrderedDelivery'
        BY <2>1, <2>5, ZenonT(30) DEF OrderedDelivery
      <3>. QED
        BY <1>1, <2>1, <2>5, <3>1, SMTT(30), ZenonT(30)
    <2>. QED
      BY <1>4, <2>2, <2>3, <2>4, <2>5, Zenon DEF OrderedAccept
  <1>. QED
    BY <1>3, <1>4, Zenon

(* A window that has accepted more has overtaken no fewer messages. *)
LEMMA OvertakenStays ==
    ASSUME Counted, Counted', Windows, Windows',
           NEW c \in Channels, NEW m \in Ids, accepted[c] \subseteq accepted'[c],
           Overtaken(c, m)
    PROVE  Overtaken(c, m)'
  <1>1. /\ window[c] \in WindowType /\ window'[c] \in WindowType
        /\ m \in Nat /\ Window \in Nat
    BY WindowAssumption, IdsFinite, Zenon DEF Counted, TypeOK
  <1>2. window[c].initialized /\ window[c].latest - m >= Window
    BY Zenon DEF Overtaken
  <1>3. accepted[c] # {} /\ window[c].latest \in accepted[c]
    BY <1>2, Zenon DEF Windows, Tracks
  <1>4. window'[c].initialized /\ window[c].latest <= window'[c].latest
    BY <1>3, Zenon DEF Windows, Tracks
  <1>. QED
    BY <1>1, <1>2, <1>4, SMTT(30), ZenonT(30) DEF Overtaken, WindowType

(* A step that leaves the receiver alone and acknowledges nothing new. *)
LEMMA QuietReceived ==
    ASSUME Counted, Carried, Received, [Next]_vars, UNCHANGED receiverVars,
           \A c \in Channels, m \in Ids :
                acks'[c][m] > 0 \/ msgs'[c][m].status = "acked" =>
                    acks[c][m] > 0 \/ msgs[c][m].status = "acked"
    PROVE  Received'
  <1>1. Windows' /\ ReliableOnce' /\ OrderedDelivery'
    BY Zenon DEF Received, Windows, ReliableOnce, OrderedDelivery, receiverVars
  <1>2. AckedSeen'
    BY Zenon DEF Received, AckedSeen, Overtaken, receiverVars
  <1>. DEFINE O == "ReliableOrdered"
  <1>3. O \in Channels /\ accepted[O] \subseteq Ids
    BY Zenon DEF Channels, Counted, TypeOK
  <1>4. \A m \in Ids : Sent(O, m) => Sent(O, m)' /\ msgs'[O][m].seq = msgs[O][m].seq
    BY <1>3, SentKept, Zenon
  <1>5. \A m \in accepted[O] : Sent(O, m)
    BY <1>3, Zenon DEF Carried
  <1>6. OrderedKept'
    BY <1>3, <1>4, <1>5, Zenon DEF Received, OrderedKept, receiverVars
  <1>. QED
    BY <1>1, <1>2, <1>6, Zenon DEF Received

(* An arriving frame is acknowledged, and delivered if it is new. *)
LEMMA ReceiveDataReceived ==
    ASSUME Counted, Carried, Numbered, Received, [Next]_vars,
           NEW c \in Channels, NEW m \in Ids, ReceiveData(c, m)
    PROVE  Received'
  <1>. DEFINE R == "Reliable"  O == "ReliableOrdered"
  <1>1. Counted' /\ R \in Channels /\ O \in Channels /\ m \in Nat
    BY NextCounted, IdsFinite, Zenon DEF Channels
  <1>2. /\ window \in [Channels -> WindowType] /\ accepted \in [Channels -> SUBSET Ids]
        /\ delivered \in [Channels -> Seq(Nat)]
        /\ acks \in [Channels -> [Ids -> 0..MaxCopies]]
    BY Zenon DEF Counted, TypeOK
  <1>3. /\ window[c] \in WindowType /\ accepted[c] \in SUBSET Nat
        /\ Tracks(window[c], accepted[c])
    BY <1>2, IdsFinite, ZenonT(60) DEF Received, Windows
  <1>4. UNCHANGED msgs
    BY Zenon DEF ReceiveData, senderVars
  <1>5. ASSUME NEW d \in Channels, NEW k \in Ids, d # c \/ k # m
        PROVE  acks'[d][k] = acks[d][k]
    BY <1>2, <1>5 DEF ReceiveData, QueueAck
  <1>6. ASSUME Windows', \A d \in Channels : accepted[d] \subseteq accepted'[d],
               m \in accepted'[c] \/ Overtaken(c, m)'
        PROVE  AckedSeen'
    <2>1. ASSUME NEW d \in Channels, NEW k \in Ids, Overtaken(d, k)
          PROVE  Overtaken(d, k)'
      BY <1>1, <1>6, <2>1, OvertakenStays, Zenon DEF Received
    <2>2. ASSUME NEW d \in Channels, NEW k \in Ids,
                 acks'[d][k] > 0 \/ msgs'[d][k].status = "acked"
          PROVE  k \in accepted'[d] \/ Overtaken(d, k)'
      <3>1. CASE d = c /\ k = m
        BY <1>6, <3>1, Zenon
      <3>2. CASE d # c \/ k # m
        <4>1. k \in accepted[d] \/ Overtaken(d, k)
          BY <1>4, <1>5, <2>2, <3>2, Zenon DEF Received, AckedSeen
        <4>. QED
          BY <1>6, <2>1, <4>1, Zenon
      <3>. QED
        BY <3>1, <3>2, Zenon
    <2>. QED
      BY <2>2, Zenon DEF AckedSeen
  <1>7. CASE ~Accepts(window[c], m) /\ UNCHANGED receiverVars
    <2>1. Windows' /\ ReliableOnce' /\ OrderedDelivery' /\ OrderedKept'
      BY <1>4, <1>7, Zenon DEF Received, Windows, ReliableOnce, OrderedDelivery, OrderedKept,
                       Sent, receiverVars
    <2>2. m \in accepted[c] \/ window[c].latest - m >= Window
      BY <1>1, <1>3, <1>7, RejectedIsOldOrSeen, Zenon
    <2>3. window[c].initialized
      BY <1>3, <1>7, Zenon DEF Accepts, WindowType
    <2>4. m \in accepted'[c] \/ Overtaken(c, m)'
      BY <1>7, <2>2, <2>3, Zenon DEF Overtaken, receiverVars
    <2>5. \A d \in Channels : accepted[d] \subseteq accepted'[d]
      BY <1>7, Zenon DEF receiverVars
    <2>. QED
      BY <1>6, <2>1, <2>4, <2>5, Zenon DEF Received
  <1>8. CASE Accepts(window[c], m) /\ AcceptIncoming(c, m)
    <2>1. /\ window' = [window EXCEPT ![c] = Advance(window[c], m)]
          /\ accepted' = [accepted EXCEPT ![c] = accepted[c] \cup {m}]
      BY <1>8, Zenon DEF AcceptIncoming
    <2>2. /\ window'[c] = Advance(window[c], m) /\ accepted'[c] = accepted[c] \cup {m}
          /\ \A d \in Channels : d # c => window'[d] = window[d]
                                          /\ accepted'[d] = accepted[d]
      BY <1>2, <2>1, Zenon
    <2>3. Tracks(Advance(window[c], m), accepted[c] \cup {m})
      BY <1>1, <1>3, <1>8, AcceptTracks, Zenon
    <2>4. Windows'
      <3>1. ASSUME NEW d \in Channels PROVE Tracks(window'[d], accepted'[d])
        <4>1. CASE d = c
          BY <2>2, <2>3, <4>1, Zenon
        <4>2. CASE d # c
          BY <2>2, <4>2, Zenon DEF Received, Windows
        <4>. QED
          BY <4>1, <4>2, Zenon
      <3>. QED
        BY <3>1, Zenon DEF Windows
    <2>5. AckedSeen'
      BY <1>6, <2>2, <2>4, Zenon
    <2>6. m \notin accepted[c]
      BY <1>1, <1>3, <1>8, AcceptedIsFresh, Zenon
    <2>7. CASE c = R
      <3>1. /\ delivered' = [delivered EXCEPT ![R] = Append(delivered[R], m)]
            /\ UNCHANGED <<nextExpected, buffer, overflowed>>
        BY <1>8, <2>7, Zenon DEF AcceptIncoming
      <3>2. delivered'[R] = Append(delivered[R], m) /\ delivered'[O] = delivered[O]
        BY <1>1, <1>2, <3>1, Zenon
      <3>3. accepted'[R] = accepted[R] \cup {m} /\ accepted'[O] = accepted[O]
        BY <1>1, <2>2, <2>7, Zenon
      <3>4. delivered[R] \in Seq(Nat) /\ \A i \in 1..Len(delivered[R]) : delivered[R][i] # m
        BY <1>1, <1>2, <2>6, <2>7, SMTT(30), ZenonT(30) DEF Received, ReliableOnce
      <3>5. /\ DOMAIN delivered'[R] = 1..(Len(delivered[R]) + 1)
            /\ \A i \in 1..Len(delivered[R]) : delivered'[R][i] = delivered[R][i]
            /\ delivered'[R][Len(delivered[R]) + 1] = m
            /\ DOMAIN delivered[R] = 1..Len(delivered[R]) /\ Len(delivered[R]) \in Nat
        BY <1>1, <3>2, <3>4
      <3>6. ReliableOnce'
        <4>. DEFINE n == Len(delivered[R])
        <4>0. /\ n \in Nat /\ DOMAIN delivered[R] = 1..n /\ DOMAIN delivered'[R] = 1..(n + 1)
              /\ \A i \in 1..n : delivered'[R][i] = delivered[R][i] /\ delivered[R][i] # m
              /\ delivered'[R][n + 1] = m
          BY <3>4, <3>5, Zenon
        <4>. HIDE DEF n
        <4>1. ASSUME NEW i \in 1..(n + 1), NEW j \in 1..(n + 1),
                     delivered'[R][i] = delivered'[R][j]
              PROVE  i = j
          <5>1. \A u, v \in 1..n : delivered[R][u] = delivered[R][v] => u = v
            BY <4>0, ZenonT(60) DEF Received, ReliableOnce
          <5>. QED
            BY <4>0, <4>1, <5>1, SMTT(30), ZenonT(30)
        <4>2. ASSUME NEW k \in accepted'[R]
              PROVE  \E i \in 1..(n + 1) : delivered'[R][i] = k
          <5>1. CASE k = m
            BY <4>0, <5>1
          <5>2. CASE k \in accepted[R]
            BY <4>0, <5>2, SMTT(30), ZenonT(30) DEF Received, ReliableOnce
          <5>. QED
            BY <3>3, <5>1, <5>2, Zenon
        <4>3. ASSUME NEW i \in 1..(n + 1) PROVE delivered'[R][i] \in accepted'[R]
          BY <3>3, <4>0, SMTT(30), ZenonT(30) DEF Received, ReliableOnce
        <4>. QED
          BY <4>0, <4>1, <4>2, <4>3, Zenon DEF ReliableOnce
      <3>7. OrderedDelivery' /\ OrderedKept'
        BY <1>4, <3>1, <3>2, <3>3, Zenon DEF Received, OrderedDelivery, OrderedKept, Sent
      <3>. QED
        BY <2>4, <2>5, <3>6, <3>7, Zenon DEF Received
    <2>8. CASE c = O
      <3>. DEFINE s == msgs[O][m].seq
      <3>1. Sent(O, m) /\ s \in 1..MaxOrdered
        BY <2>8, Zenon DEF ReceiveData, Carried, Numbered
      <3>2. OrderedAccept(s)
        BY <1>8, <2>8, Zenon DEF AcceptIncoming
      <3>3. OrderedDelivery
        BY Zenon DEF Received
      <3>. HIDE DEF s
      <3>4. /\ OrderedDelivery'
            /\ \A t \in 1..MaxOrdered :
                t < nextExpected \/ t \in buffer \cup overflowed \/ t = s =>
                    t < nextExpected' \/ t \in buffer' \cup overflowed'
            /\ (1..(nextExpected' - 1)) \cup buffer'
                    \subseteq (1..(nextExpected - 1)) \cup buffer \cup {s}
            /\ delivered'[R] = delivered[R]
        BY <3>1, <3>2, <3>3, OrderedAcceptStep, Zenon
      <3>5. accepted'[O] = accepted[O] \cup {m} /\ accepted'[R] = accepted[R]
        BY <1>1, <2>2, <2>8, Zenon
      <3>6. ReliableOnce'
        BY <3>4, <3>5, Zenon DEF Received, ReliableOnce
      <3>7. ASSUME NEW k \in accepted'[O]
            PROVE  msgs[O][k].seq < nextExpected'
                   \/ msgs[O][k].seq \in buffer' \cup overflowed'
        <4>1. CASE k = m
          BY <3>1, <3>4, <4>1, Zenon DEF s
        <4>2. CASE k \in accepted[O]
          <5>1. k \in Ids /\ Sent(O, k)
            BY <1>1, <1>2, <4>2, ZenonT(60) DEF Carried
          <5>2. msgs[O][k].seq \in 1..MaxOrdered
            BY <5>1, Zenon DEF Numbered
          <5>. QED
            BY <3>4, <4>2, <5>2, Zenon DEF Received, OrderedKept
        <4>. QED
          BY <3>5, <4>1, <4>2, Zenon
      <3>8. ASSUME NEW t \in (1..(nextExpected' - 1)) \cup buffer'
            PROVE  \E k \in Ids : Sent(O, k) /\ msgs[O][k].seq = t
        <4>1. CASE t = s
          BY <3>1, <4>1, Zenon DEF s
        <4>2. CASE t \in (1..(nextExpected - 1)) \cup buffer
          BY <4>2, Zenon DEF Received, OrderedKept
        <4>. QED
          BY <3>4, <4>1, <4>2, Zenon
      <3>9. OrderedKept'
        BY <1>4, <3>7, <3>8, Zenon DEF OrderedKept, Sent
      <3>. QED
        BY <2>4, <2>5, <3>4, <3>6, <3>9, Zenon DEF Received
    <2>. QED
      BY <2>7, <2>8, Zenon DEF Channels
  <1>. QED
    BY <1>7, <1>8, Zenon DEF ReceiveData

(* Every step keeps the receiver's state in agreement with the sender's. *)
LEMMA NextReceived ==
    ASSUME Counted, Carried, Numbered, Received, [Next]_vars PROVE Received'
  <1>. DEFINE Heard(d, k) == acks[d][k] > 0 \/ msgs[d][k].status = "acked"
              NothingNew == \A d \in Channels, k \in Ids :
                    acks'[d][k] > 0 \/ msgs'[d][k].status = "acked" => Heard(d, k)
  <1>0. /\ msgs \in [Channels -> [Ids -> MessageType]]
        /\ acks \in [Channels -> [Ids -> 0..MaxCopies]]
    BY Zenon DEF Counted, TypeOK
  <1>1. NothingNew /\ UNCHANGED receiverVars => Received'
    BY QuietReceived, Zenon
  <1>2. CASE UNCHANGED <<msgs, acks, receiverVars>>
    BY <1>1, <1>2, Zenon
  <1>3. ASSUME NEW c \in Channels, NEW p \in Priorities, NEW mortal \in Lifetimes,
               NEW st \in {"refused", "pending"}, MaySend(c),
               msgs' = [msgs EXCEPT ![c][nextId[c]] = Offered(c, p, mortal, st)],
               UNCHANGED <<acks, receiverVars>>
        PROVE  Received'
    <2>1. nextId[c] \in Ids
      BY <1>3, NextIdInRange, Zenon
    <2>2. ASSUME NEW d \in Channels, NEW k \in Ids, msgs'[d][k].status = "acked"
          PROVE  msgs[d][k].status = "acked"
      <3>1. CASE d = c /\ k = nextId[c]
        <4>1. msgs'[d][k] = Offered(c, p, mortal, st)
          BY <1>0, <1>3, <3>1, Zenon
        <4>2. msgs'[d][k].status = st
          BY <4>1 DEF Offered
        <4>. QED
          BY <1>3, <2>2, <4>2, Zenon
      <3>2. CASE d # c \/ k # nextId[c]
        <4>1. msgs'[d][k] = msgs[d][k]
          BY <1>0, <1>3, <2>1, <3>2, Zenon
        <4>. QED
          BY <2>2, <4>1, Zenon
      <3>. QED
        BY <3>1, <3>2, Zenon
    <2>. QED
      BY <1>1, <1>3, <2>2, Zenon
  <1>4. ASSUME NEW c \in Channels, NEW p \in Priorities, NEW mortal \in Lifetimes,
               SendRolledBack(c, p, mortal) \/ SendQueued(c, p, mortal)
        PROVE  Received'
    BY <1>3, <1>4, Zenon DEF SendRolledBack, SendQueued, netVars
  <1>5. ASSUME NEW c \in Channels, SendRefused(c) PROVE Received'
    BY <1>2, <1>5, Zenon DEF SendRefused, netVars
  <1>6. CASE Flush
    BY <1>2, <1>6, Zenon DEF Flush
  <1>7. CASE PumpReliable
    <2>1. ASSUME NEW d \in Channels, NEW k \in Ids, msgs'[d][k].status = "acked"
          PROVE  msgs[d][k].status = "acked"
      <3>1. msgs[d][k] \in MessageType
        BY <1>0, Zenon
      <3>2. msgs'[d][k] # [msgs[d][k] EXCEPT !.status = "expired"]
        BY <2>1, <3>1, Zenon DEF MessageType
      <3>. QED
        BY <1>7, <2>1, <3>2, PumpEffect, Zenon
    <2>. QED
      BY <1>1, <1>7, <2>1, PumpEffect, Zenon DEF netVars
  <1>8. ASSUME NEW c \in Channels, NEW m \in Ids, ReceiveData(c, m) PROVE Received'
    BY <1>8, ReceiveDataReceived, Zenon
  <1>9. ASSUME NEW c \in Channels, NEW m \in Ids, ReceiveAck(c, m) \/ LoseAck(c, m)
        PROVE  Received'
    <2>1. /\ acks[c][m] > 0 /\ acks' = [acks EXCEPT ![c][m] = acks[c][m] - 1]
          /\ msgs' = msgs \/ msgs' = [msgs EXCEPT ![c][m].status = "acked"]
          /\ UNCHANGED receiverVars
      BY <1>9, Zenon DEF ReceiveAck, LoseAck, senderVars
    <2>2. ASSUME NEW d \in Channels, NEW k \in Ids,
                 acks'[d][k] > 0 \/ msgs'[d][k].status = "acked"
          PROVE  Heard(d, k)
      <3>1. CASE d = c /\ k = m
        BY <2>1, <3>1, Zenon
      <3>2. CASE d # c \/ k # m
        <4>1. acks'[d][k] = acks[d][k] /\ msgs'[d][k] = msgs[d][k]
          BY <1>0, <2>1, <3>2
        <4>. QED
          BY <2>2, <4>1, Zenon
      <3>. QED
        BY <3>1, <3>2, Zenon
    <2>. QED
      BY <1>1, <2>1, <2>2, Zenon
  <1>10. ASSUME NEW c \in Channels, NEW m \in Ids, LoseData(c, m) PROVE Received'
    BY <1>2, <1>10, Zenon DEF LoseData, senderVars
  <1>11. CASE UNCHANGED vars
    BY <1>2, <1>11, Zenon DEF vars, senderVars, netVars
  <1>. QED
    BY <1>4, <1>5, <1>6, <1>7, <1>8, <1>9, <1>10, <1>11, Zenon DEF Next

(* The inductive invariant of the transport. *)
IInv == Counted /\ Carried /\ Numbered /\ Received

(* The inductive invariant holds in every reachable state. *)
LEMMA Invariance == Spec => []IInv
  <1>1. Init => IInv
    BY InitCounted, InitCarried, InitNumbered, InitReceived, Zenon DEF IInv
  <1>2. IInv /\ [Next]_vars => IInv'
    BY NextCounted, NextCarried, NextNumbered, NextReceived, Zenon DEF IInv
  <1>. QED
    BY <1>1, <1>2, PTL DEF Spec

(* accept_incoming lets each message through at most once, for any number  *)
(* of messages, any window size and any pattern of loss and retransmission *)
(* (NoDuplicateDelivery).                                                  *)
THEOREM DeliveredOnce == Spec => []NoDuplicateDelivery
  <1>1. IInv => NoDuplicateDelivery
    BY DEF IInv, Received, ReliableOnce, OrderedDelivery, NoDuplicateDelivery, Channels
  <1>. QED
    BY <1>1, Invariance, PTL

(* OrderedReceiveWindow releases 1, 2, 3, ... and never buffers more than  *)
(* ordered_receive_window messages (OrderedDelivery).                      *)
THEOREM DeliveredInOrder == Spec => []OrderedDelivery
  <1>1. IInv => OrderedDelivery
    BY Zenon DEF IInv, Received
  <1>. QED
    BY <1>1, Invariance, PTL

(* A message the sender has dropped as acknowledged was delivered, is      *)
(* buffered, or was lost to a full ordered buffer or to the window having  *)
(* moved past it (AckedIsTakenOver).                                       *)
THEOREM AckedTakenOver == Spec => []AckedIsTakenOver
  <1>1. IInv => AckedIsTakenOver
    BY SMTT(30), ZenonT(30) DEF IInv, Received, ReliableOnce, OrderedKept, AckedSeen, AckedIsTakenOver,
           TakenOver, Channels
  <1>. QED
    BY <1>1, Invariance, PTL

(* A message whose send() failed leaves nothing behind in the network or   *)
(* at the receiver (RefusedIsNotSent).                                     *)
THEOREM RefusedNotSent == Spec => []RefusedIsNotSent
  <1>1. IInv => RefusedIsNotSent
    <2>. SUFFICES ASSUME IInv, NEW c \in Channels, NEW m \in Ids,
                         msgs[c][m].status = "refused"
                  PROVE  m \notin accepted[c] /\ net[c][m] = 0 /\ acks[c][m] = 0
      BY Zenon DEF RefusedIsNotSent
    <2>1. ~Sent(c, m)
      BY Zenon DEF Sent
    <2>2. m \notin accepted[c] /\ ~(net[c][m] > 0) /\ ~(acks[c][m] > 0)
      BY <2>1, Zenon DEF IInv, Carried
    <2>3. net[c][m] \in 0..MaxCopies /\ acks[c][m] \in 0..MaxCopies
      BY SMTT(30), ZenonT(30) DEF IInv, Counted, TypeOK
    <2>. QED
      BY <2>2, <2>3, TransportAssumption, SMTT(30), ZenonT(30)
  <1>. QED
    BY <1>1, Invariance, PTL

-----------------------------------------------------------------------------
(* The refinement.                                                         *)

(* What counts as taken depends only on which messages are sent and on     *)
(* their ordered numbers.                                                  *)
LEMMA SameTaken ==
    ASSUME \A c \in Channels, m \in Ids : Sent(c, m)' <=> Sent(c, m),
           \A c \in Channels, m \in Ids :
                Sent(c, m) => msgs'[c][m].seq = msgs[c][m].seq
    PROVE  Taken' = Taken
  <1>1. ASSUME NEW c \in Channels
        PROVE  {IF c = "Reliable" THEN m ELSE msgs[c][m].seq :
                    m \in {k \in Ids : Sent(c, k)}}'
               = {IF c = "Reliable" THEN m ELSE msgs[c][m].seq :
                    m \in {k \in Ids : Sent(c, k)}}
    <2>1. {k \in Ids : Sent(c, k)}' = {k \in Ids : Sent(c, k)}
      OBVIOUS
    <2>. QED
      BY <2>1, Zenon
  <1>. QED
    BY <1>1, Zenon DEF Taken

(* Only a successful send() makes a message count as sent. *)
LEMMA NothingTaken ==
    ASSUME Counted, [Next]_vars,
           \/ \E c \in Channels, p \in Priorities, mortal \in Lifetimes :
                SendRolledBack(c, p, mortal)
           \/ PumpReliable
           \/ \E c \in Channels, m \in Ids : ReceiveAck(c, m)
           \/ UNCHANGED msgs
    PROVE  Taken' = Taken
  <1>0. msgs \in [Channels -> [Ids -> MessageType]]
    BY Zenon DEF Counted, TypeOK
  <1>1. ASSUME NEW d \in Channels, NEW k \in Ids, Sent(d, k)'
        PROVE  Sent(d, k)
    <2>1. ASSUME NEW c \in Channels, NEW p \in Priorities, NEW mortal \in Lifetimes,
                 SendRolledBack(c, p, mortal)
          PROVE  Sent(d, k)
      <3>1. nextId[c] \in Ids
        BY <2>1, NextIdInRange, Zenon DEF SendRolledBack
      <3>2. msgs' = [msgs EXCEPT ![c][nextId[c]] = Offered(c, p, mortal, "refused")]
        BY <2>1, Zenon DEF SendRolledBack
      <3>3. CASE d = c /\ k = nextId[c]
        <4>1. msgs'[d][k] = Offered(c, p, mortal, "refused")
          BY <1>0, <3>2, <3>3, Zenon
        <4>. QED
          BY <1>1, <4>1, SMTT(30), ZenonT(30) DEF Offered, Sent
      <3>4. CASE d # c \/ k # nextId[c]
        <4>1. msgs'[d][k] = msgs[d][k]
          BY <1>0, <3>1, <3>2, <3>4, Zenon
        <4>. QED
          BY <1>1, <4>1, Zenon DEF Sent
      <3>. QED
        BY <3>3, <3>4, Zenon
    <2>2. CASE PumpReliable
      BY <1>1, <2>2, PumpEffect, ZenonT(60) DEF Sent
    <2>3. ASSUME NEW c \in Channels, NEW m \in Ids, ReceiveAck(c, m)
          PROVE  Sent(d, k)
      <3>1. CASE m \in Pending(c) /\ d = c /\ k = m
        BY <3>1, Zenon DEF Pending, Sent
      <3>2. CASE m \in Pending(c) /\ (d # c \/ k # m)
        <4>1. msgs' = [msgs EXCEPT ![c][m].status = "acked"]
          BY <2>3, <3>2, Zenon DEF ReceiveAck
        <4>2. msgs'[d][k] = msgs[d][k]
          BY <1>0, <3>2, <4>1, Zenon
        <4>. QED
          BY <1>1, <4>2, Zenon DEF Sent
      <3>3. CASE m \notin Pending(c)
        BY <1>1, <2>3, <3>3, Zenon DEF ReceiveAck, Sent
      <3>. QED
        BY <3>1, <3>2, <3>3, Zenon
    <2>4. CASE UNCHANGED msgs
      BY <1>1, <2>4, Zenon DEF Sent
    <2>. QED
      BY <2>1, <2>2, <2>3, <2>4, Zenon
  <1>. QED
    BY <1>1, SentKept, SameTaken, Zenon

(* A successful send() takes one message nobody has used before. *)
LEMMA OneTaken ==
    ASSUME Counted, Numbered, NEW c \in Channels, NEW p \in Priorities,
           NEW mortal \in Lifetimes, SendQueued(c, p, mortal)
    PROVE  Channel!Take(c)
  <1>. DEFINE m == nextId[c]
              x == IF c = "Reliable" THEN m ELSE nextOrdered
  <1>0. msgs \in [Channels -> [Ids -> MessageType]]
    BY Zenon DEF Counted, TypeOK
  <1>1. m \in Ids /\ m \in Nat
    BY NextIdInRange, IdsFinite, Zenon DEF SendQueued
  <1>2. msgs' = [msgs EXCEPT ![c][m] = Offered(c, p, mortal, "pending")]
    BY Zenon DEF SendQueued
  <1>3. /\ msgs'[c][m].status = "pending"
        /\ c # "Reliable" => msgs'[c][m].seq = nextOrdered
    <2>1. msgs'[c][m] = Offered(c, p, mortal, "pending")
      BY <1>0, <1>1, <1>2, Zenon
    <2>2. Offered(c, p, mortal, "pending").status = "pending"
      BY Zenon DEF Offered
    <2>3. c # "Reliable" => c = "ReliableOrdered"
      BY Zenon DEF Channels
    <2>4. c = "ReliableOrdered" => Offered(c, p, mortal, "pending").seq = nextOrdered
      BY Zenon DEF Offered
    <2>. HIDE DEF m
    <2>. QED
      BY <2>1, <2>2, <2>3, <2>4, Zenon
  <1>4. ASSUME NEW d \in Channels, NEW k \in Ids, d # c \/ k # m
        PROVE  msgs'[d][k] = msgs[d][k]
    BY <1>0, <1>1, <1>2, <1>4, Zenon
  <1>5. msgs[c][m].status = "none"
    BY <1>1, SMTT(30), ZenonT(30) DEF Counted, Fresh
  <1>6. /\ Taken' = [d \in Channels |->
                {IF d = "Reliable" THEN k ELSE msgs'[d][k].seq :
                    k \in {j \in Ids : msgs'[d][j].status \in {"pending", "acked", "expired"}}}]
        /\ Taken = [d \in Channels |->
                {IF d = "Reliable" THEN k ELSE msgs[d][k].seq :
                    k \in {j \in Ids : msgs[d][j].status \in {"pending", "acked", "expired"}}}]
    BY Zenon DEF Taken, Sent
  <1>. HIDE DEF m
  <1>7. ASSUME NEW d \in Channels, d # c PROVE Taken'[d] = Taken[d]
    <2>1. \A k \in Ids : msgs'[d][k] = msgs[d][k]
      BY <1>4, <1>7, Zenon
    <2>2. {j \in Ids : msgs'[d][j].status \in {"pending", "acked", "expired"}}
          = {j \in Ids : msgs[d][j].status \in {"pending", "acked", "expired"}}
      BY <2>1, Zenon
    <2>. QED
      BY <1>6, <2>1, <2>2, SMTT(30), ZenonT(30)
  <1>8. Taken'[c] = Taken[c] \cup {x}
    <2>1. {j \in Ids : msgs'[c][j].status \in {"pending", "acked", "expired"}}
          = {j \in Ids : msgs[c][j].status \in {"pending", "acked", "expired"}} \cup {m}
      BY <1>1, <1>3, <1>4, ZenonT(60)
    <2>2. CASE c = "Reliable"
      BY <1>6, <2>1, <2>2, SMTT(30), ZenonT(30)
    <2>3. CASE c # "Reliable"
      BY <1>1, <1>3, <1>4, <1>5, <1>6, <2>1, <2>3, SMTT(30), ZenonT(30)
    <2>. QED
      BY <2>2, <2>3, Zenon
  <1>9. x \notin Taken[c]
    <2>1. CASE c = "Reliable"
      BY <1>5, <1>6, <2>1, Zenon
    <2>2. CASE c # "Reliable"
      <3>1. ASSUME NEW k \in Ids, Sent(c, k) PROVE msgs[c][k].seq # nextOrdered
        BY <2>2, <3>1, TransportAssumption, SMTT(30), ZenonT(30) DEF Numbered, Channels, Counted, TypeOK
      <3>. QED
        BY <1>6, <2>2, <3>1, Zenon DEF Sent
    <2>. QED
      BY <2>1, <2>2, Zenon
  <1>10. Taken' = [Taken EXCEPT ![c] = Taken[c] \cup {x}]
    BY <1>6, <1>7, <1>8, ZenonT(60)
  <1>11. UNCHANGED delivered
    BY Zenon DEF SendQueued, receiverVars
  <1>. HIDE DEF x
  <1>. QED
    BY <1>8, <1>9, <1>10, <1>11, ZenonT(60) DEF Channel!Take

(* An arriving frame delivers one message, a run of ordered ones, or none. *)
LEMMA DataDelivers ==
    ASSUME IInv, [Next]_vars, NEW c \in Channels, NEW m \in Ids, ReceiveData(c, m)
    PROVE  \/ UNCHANGED <<Taken, delivered>>
           \/ Channel!Deliver
           \/ Channel!DeliverOrdered
  <1>. DEFINE R == "Reliable"  O == "ReliableOrdered"
  <1>1. UNCHANGED msgs /\ R \in Channels /\ O \in Channels
    BY Zenon DEF ReceiveData, senderVars, Channels
  <1>2. Taken' = Taken
    BY <1>1, NothingTaken, Zenon DEF IInv
  <1>3. Sent(c, m)
    BY Zenon DEF ReceiveData, IInv, Carried
  <1>4. /\ Taken[R] = {k \in Ids : Sent(R, k)}
        /\ Taken[O] = {msgs[O][k].seq : k \in {j \in Ids : Sent(O, j)}}
    BY <1>1, Zenon DEF Taken
  <1>5. CASE UNCHANGED receiverVars
    BY <1>2, <1>5, Zenon DEF receiverVars
  <1>6. CASE c = R /\ Accepts(window[c], m) /\ AcceptIncoming(c, m)
    <2>1. m \notin accepted[R]
      <3>1. /\ window[c] \in WindowType /\ accepted[c] \in SUBSET Nat
            /\ Tracks(window[c], accepted[c]) /\ m \in Nat
        BY IdsFinite, ZenonT(60) DEF IInv, Counted, TypeOK, Received, Windows
      <3>. QED
        BY <1>6, <3>1, AcceptedIsFresh, Zenon
    <2>2. \A i \in DOMAIN delivered[R] : delivered[R][i] # m
      BY <2>1, SMTT(30), ZenonT(30) DEF IInv, Received, ReliableOnce
    <2>3. m \in Taken[R]
      BY <1>3, <1>4, <1>6, Zenon
    <2>4. delivered' = [delivered EXCEPT ![R] = Append(delivered[R], m)]
      BY <1>6, Zenon DEF AcceptIncoming
    <2>. QED
      BY <1>2, <2>2, <2>3, <2>4, ZenonT(60) DEF Channel!Deliver
  <1>7. CASE c = O /\ AcceptIncoming(c, m)
    <2>. DEFINE s == msgs[O][m].seq
    <2>1. s \in 1..MaxOrdered /\ OrderedAccept(s) /\ Counted /\ OrderedDelivery
      BY <1>3, <1>7, Zenon DEF AcceptIncoming, IInv, Numbered, Received
    <2>. HIDE DEF s
    <2>2. \/ UNCHANGED delivered
          \/ /\ nextExpected < nextExpected'
             /\ delivered' = [delivered EXCEPT ![O] =
                    @ \o [i \in 1..(nextExpected' - nextExpected) |-> nextExpected + i - 1]]
      BY <2>1, OrderedAcceptStep, Zenon
    <2>3. CASE UNCHANGED delivered
      BY <1>2, <2>3, Zenon
    <2>4. CASE /\ nextExpected < nextExpected'
               /\ delivered' = [delivered EXCEPT ![O] =
                    @ \o [i \in 1..(nextExpected' - nextExpected) |-> nextExpected + i - 1]]
      <3>. DEFINE n == nextExpected' - 1
                  last == Len(delivered[O])
      <3>0. Counted' /\ Received'
        BY NextCounted, ReceiveDataReceived, Zenon DEF IInv
      <3>1. nextExpected \in Nat /\ nextExpected >= 1 /\ nextExpected' \in Nat
            /\ last = nextExpected - 1
        <4>1. nextExpected \in 1..(MaxOrdered + 1) /\ nextExpected' \in 1..(MaxOrdered + 1)
          BY <2>1, <3>0, Zenon DEF Counted, TypeOK
        <4>2. MaxOrdered \in Nat
          BY TransportAssumption, Zenon
        <4>3. last = nextExpected - 1
          BY <2>1, Zenon DEF OrderedDelivery
        <4>. HIDE DEF last
        <4>. QED
          BY <4>1, <4>2, <4>3, SMTT(30), ZenonT(30)
      <3>2. n > last /\ n \in 1..n /\ (last + 1)..n \subseteq 1..n
        <4>1. nextExpected < nextExpected'
          BY <2>4, Zenon
        <4>. HIDE DEF last
        <4>2. last \in Nat
          BY <3>1
        <4>3. \A a, b \in Nat : a >= 1 /\ a < b => b - 1 \in Nat /\ b - 1 > a - 1
          OBVIOUS
        <4>4. n \in Nat /\ n > last
          BY <3>1, <4>1, <4>3, ZenonT(60)
        <4>. HIDE DEF n
        <4>. QED
          BY <4>2, <4>4, SMTT(30), ZenonT(30)
      <3>3. 1..n \subseteq Taken[O]
        BY <1>1, <1>4, <3>0, SMTT(30), ZenonT(30) DEF Received, OrderedKept, Sent
      <3>4. [i \in 1..(nextExpected' - nextExpected) |-> nextExpected + i - 1]
            = [i \in 1..(n - last) |-> last + i]
        <4>1. nextExpected' - nextExpected = n - last
          BY <3>1
        <4>2. \A i \in 1..(n - last) : nextExpected + i - 1 = last + i
          BY <3>1, SMTT(30), ZenonT(30)
        <4>. QED
          BY <4>1, <4>2, Zenon
      <3>5. delivered' = [delivered EXCEPT ![O] = @ \o [i \in 1..(n - last) |-> last + i]]
        BY <2>4, <3>4, ZenonT(60)
      <3>6. n \in Taken[O] /\ (last + 1)..n \subseteq Taken[O]
        BY <3>2, <3>3, Zenon
      <3>. HIDE DEF n
      <3>. QED
        BY <1>2, <3>2, <3>5, <3>6, ZenonT(60) DEF Channel!DeliverOrdered
    <2>. QED
      BY <2>2, <2>3, <2>4, ZenonT(60)
  <1>. QED
    BY <1>5, <1>6, <1>7, Zenon DEF ReceiveData, Channels

(* Retransmission, reordering, loss and buffering implement the message    *)
(* channel: what the application sees is what MessageChannel allows, for   *)
(* every number of messages and every setting of the limits                *)
(* (ImplementsChannel).                                                    *)
THEOREM Refinement == Spec => ImplementsChannel
  <1>1. Init => Channel!ChannelInit
    <2>. SUFFICES ASSUME Init PROVE Channel!ChannelInit
      OBVIOUS
    <2>1. ASSUME NEW c \in Channels PROVE Taken[c] = {}
      <3>1. \A k \in Ids : ~Sent(c, k)
        BY Zenon DEF Init, Unsent, Sent
      <3>. QED
        BY <3>1, Zenon DEF Taken
    <2>2. Taken = [c \in Channels |-> {}]
      BY <2>1, ZenonT(60) DEF Taken
    <2>. QED
      BY <2>2, Zenon DEF Init, Channel!ChannelInit, Channels
  <1>2. IInv /\ [Next]_vars => [Channel!ChannelNext]_(Channel!channelVars)
    <2>. SUFFICES ASSUME IInv, [Next]_vars
                  PROVE  \/ UNCHANGED <<Taken, delivered>>
                         \/ Channel!Take("Reliable") \/ Channel!Take("ReliableOrdered")
                         \/ Channel!Deliver \/ Channel!DeliverOrdered
      BY Zenon DEF Channel!ChannelNext, Channel!channelVars
    <2>1. ASSUME NEW c \in Channels, NEW p \in Priorities, NEW mortal \in Lifetimes,
                 SendQueued(c, p, mortal)
          PROVE  Channel!Take("Reliable") \/ Channel!Take("ReliableOrdered")
      BY <2>1, OneTaken, Zenon DEF IInv, Channels
    <2>2. ASSUME NEW c \in Channels, NEW m \in Ids, ReceiveData(c, m)
          PROVE  UNCHANGED <<Taken, delivered>> \/ Channel!Deliver \/ Channel!DeliverOrdered
      BY <2>2, DataDelivers, Zenon
    <2>3. CASE \E c \in Channels, p \in Priorities, mortal \in Lifetimes :
                    SendRolledBack(c, p, mortal)
      <3>1. UNCHANGED delivered
        BY <2>3, Zenon DEF SendRolledBack, receiverVars
      <3>. QED
        BY <2>3, <3>1, NothingTaken, Zenon DEF IInv
    <2>4. CASE PumpReliable
      BY <2>4, PumpEffect, NothingTaken, Zenon DEF IInv, receiverVars
    <2>5. CASE \E c \in Channels, m \in Ids : ReceiveAck(c, m)
      <3>1. UNCHANGED delivered
        BY <2>5, Zenon DEF ReceiveAck, receiverVars
      <3>. QED
        BY <2>5, <3>1, NothingTaken, Zenon DEF IInv
    <2>6. CASE UNCHANGED <<msgs, delivered>>
      BY <2>6, NothingTaken, Zenon DEF IInv
    <2>7. ASSUME NEW c \in Channels, SendRefused(c) PROVE UNCHANGED <<msgs, delivered>>
      BY <2>7, Zenon DEF SendRefused, receiverVars
    <2>8. CASE Flush
      BY <2>6, <2>8, Zenon DEF Flush, receiverVars
    <2>9. ASSUME NEW c \in Channels, NEW m \in Ids, LoseData(c, m) \/ LoseAck(c, m)
          PROVE  UNCHANGED <<msgs, delivered>>
      BY <2>9, Zenon DEF LoseData, LoseAck, senderVars, receiverVars
    <2>10. CASE UNCHANGED vars
      BY <2>6, <2>10, Zenon DEF vars, senderVars, receiverVars
    <2>. QED
      BY <2>1, <2>2, <2>3, <2>4, <2>5, <2>6, <2>7, <2>8, <2>9, <2>10, Zenon DEF Next
  <1>. QED
    BY <1>1, <1>2, Invariance, PTL DEF Spec, ImplementsChannel, Channel!ChannelSpec
=============================================================================
