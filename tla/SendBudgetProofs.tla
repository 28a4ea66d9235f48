--------------------------- MODULE SendBudgetProofs ---------------------------
(***************************************************************************)
(* Proofs about SendBudget, for every configuration the validators accept: *)
(* the bucket never holds more than the capacity of the current rate, and  *)
(* a session never sends faster than its initial budget and the highest    *)
(* rate allow, and no session of a server waits for another one's budget.  *)
(***************************************************************************)
EXTENDS SendBudget, TLAPS, SequenceTheorems

(* What the proofs say of one session's controller and bucket. *)
FlowType == [rate : ConfiguredMinRate..ConfiguredMaxRate, budget : Nat,
             since : 0..MaxSince, lossAge : 0..LossCooldown,
             pressureAge : 0..PressureCooldown]

Sound(f) == f \in FlowType /\ f.budget <= BucketCap(f.rate)

(* The bytes sent and the budget left never exceed what the session was    *)
(* given: its initial budget, and the highest rate up to the last refill.  *)
Covered(f, bytes, t) ==
    /\ f.since <= t
    /\ Second * (bytes + f.budget) + ConfiguredMaxRate * f.since
            <= Second * StartRate + ConfiguredMaxRate * t

(* The queue's half of the inductive invariant, and the sessions'.         *)
QueueOK ==
    /\ queue \in Seq(Packet) /\ Len(queue) <= MaxPending
    /\ at \in 0..(Len(queue) + 1)
    /\ packets \in 0..MaxPackets

FlowOK ==
    /\ role \in {"client", "server"} /\ live \subseteq Sessions
    /\ age \in 0..Horizon /\ sent \in [Sessions -> Nat]
    /\ flow \in [Sessions -> FlowType] /\ BudgetInBucket
    /\ role = "client" => live = {Client}
    /\ \A s \in Sessions \ live : flow[s] = FreshFlow /\ sent[s] = 0
    /\ age < Horizon => \A s \in Sessions : Covered(flow[s], sent[s], age)

Credit == QueueOK /\ FlowOK

-----------------------------------------------------------------------------
(* Arithmetic                                                              *)

(* A quotient rounds down, as the integer division of the refill does.     *)
LEMMA QuotientRoundsDown ==
    ASSUME NEW x \in Nat, NEW d \in Nat \ {0}
    PROVE  x \div d \in Nat /\ d * (x \div d) <= x
  OBVIOUS

(* A product of naturals is a natural.                                     *)
LEMMA ProductType ==
    ASSUME NEW x \in Nat, NEW y \in Nat PROVE x * y \in Nat
  OBVIOUS

(* Multiplication by a natural keeps the order.                            *)
LEMMA ProductMonotone ==
    ASSUME NEW x \in Nat, NEW y \in Nat, NEW z \in Nat, x <= y
    PROVE  z * x <= z * y /\ x * z <= y * z
  OBVIOUS

(* Multiplication distributes over a sum.                                  *)
LEMMA ProductOfSum ==
    ASSUME NEW x \in Nat, NEW y \in Nat, NEW z \in Nat
    PROVE  z * (x + y) = z * x + z * y
  OBVIOUS

-----------------------------------------------------------------------------
(* The controller and the bucket                                           *)

(* What the proofs use of the configuration, the rates apart.              *)
LEMMA ConfigTypes ==
    /\ Client \in Sessions
    /\ Second \in Nat \ {0} /\ MaxPacketBytes \in Nat \ {0}
    /\ Increase \in Nat /\ LossPerMille \in Nat /\ PressurePerMille \in Nat
    /\ LossCooldown \in Nat /\ PressureCooldown \in Nat /\ MaxSince \in Nat
    /\ MaxPending \in Nat \ {0} /\ MaxPackets \in Nat /\ Horizon \in Nat
    /\ Lengths \subseteq Nat
  BY BudgetAssumption

(* The limits of the rate that configured_min_rate and configured_max_rate *)
(* compute are in order, and reset_runtime starts between them.            *)
LEMMA RateLimits ==
    /\ ConfiguredMinRate \in Nat \ {0} /\ ConfiguredMaxRate \in Nat \ {0}
    /\ ConfiguredMinRate <= ConfiguredMaxRate
    /\ StartRate \in ConfiguredMinRate..ConfiguredMaxRate
  <1>1. /\ ConfiguredMinRate \in Nat \ {0} /\ ConfiguredMaxRate \in Nat \ {0}
        /\ ConfiguredMinRate <= ConfiguredMaxRate
    BY BudgetAssumption DEF ConfiguredMinRate, ConfiguredMaxRate, Least, Most
  <1>2. ConfiguredMaxRate \div 2 \in Nat
    BY <1>1, QuotientRoundsDown
  <1>3. StartRate \in ConfiguredMinRate..ConfiguredMaxRate
    <2>1. CASE Enabled
      <3>. DEFINE wish == IF InitialRate # 0 THEN InitialRate
                          ELSE Most(ConfiguredMinRate, ConfiguredMaxRate \div 2)
      <3>1. wish \in Nat
        BY <1>1, <1>2, BudgetAssumption DEF Most
      <3>2. StartRate = Clamp(wish, ConfiguredMinRate, ConfiguredMaxRate)
        BY <2>1 DEF StartRate
      <3>. HIDE DEF wish
      <3>. QED
        BY <1>1, <3>1, <3>2 DEF Clamp, Least, Most
    <2>2. CASE ~Enabled
      BY <1>1, <2>2, BudgetAssumption
         DEF StartRate, ConfiguredMinRate, ConfiguredMaxRate
    <2>. QED
      BY <2>1, <2>2
  <1>. QED
    BY <1>1, <1>3

(* apply_decrease stays between the limits.                                *)
LEMMA DecreasedType ==
    ASSUME NEW rate \in ConfiguredMinRate..ConfiguredMaxRate, NEW perMille \in Nat
    PROVE  Decreased(rate, perMille) \in ConfiguredMinRate..ConfiguredMaxRate
  <1>1. rate \in Nat
    BY RateLimits
  <1>2. (rate * perMille) \div 1000 \in Nat
    BY <1>1, ProductType, QuotientRoundsDown
  <1>. QED
    BY <1>2, RateLimits DEF Decreased, Clamp, Least, Most

(* A new session's bucket is sound and covered.                            *)
LEMMA FreshSound ==
    /\ Sound(FreshFlow)
    /\ \A t \in Nat : Covered(FreshFlow, 0, t)
  <1>1. FreshFlow \in FlowType
    BY RateLimits, ConfigTypes DEF FreshFlow, FlowType
  <1>2. FreshFlow.budget <= BucketCap(FreshFlow.rate)
    BY RateLimits, ConfigTypes DEF FreshFlow, BucketCap, Most
  <1>3. ASSUME NEW t \in Nat PROVE Covered(FreshFlow, 0, t)
    <2>1. ConfiguredMaxRate * t \in Nat /\ Second * StartRate \in Nat
      BY RateLimits, ConfigTypes, ProductType
    <2>2. ConfiguredMaxRate * 0 = 0 /\ 0 + StartRate = StartRate
      BY RateLimits
    <2>. QED
      BY <2>1, <2>2 DEF Covered, FreshFlow
  <1>. QED
    BY <1>1, <1>2, <1>3 DEF Sound

(* A step of the controller that cuts the budget to the new bucket, or     *)
(* raises the rate, spends nothing and keeps the account.                  *)
LEMMA LessIsCovered ==
    ASSUME NEW f \in FlowType, NEW g \in FlowType, NEW bytes \in Nat, NEW t \in Nat,
           Covered(f, bytes, t), g.since = f.since, g.budget <= f.budget
    PROVE  Covered(g, bytes, t)
  <1>1. /\ bytes + g.budget \in Nat /\ bytes + f.budget \in Nat
        /\ bytes + g.budget <= bytes + f.budget
        /\ f.since \in Nat
    BY ConfigTypes DEF FlowType
  <1>2. Second * (bytes + g.budget) <= Second * (bytes + f.budget)
    BY <1>1, ProductMonotone, ConfigTypes
  <1>3. /\ Second * (bytes + g.budget) \in Nat /\ Second * (bytes + f.budget) \in Nat
        /\ ConfiguredMaxRate * f.since \in Nat /\ Second * StartRate \in Nat
        /\ ConfiguredMaxRate * t \in Nat
    BY <1>1, RateLimits, ProductType, ConfigTypes
  <1>. QED
    BY <1>2, <1>3 DEF Covered

(* The cut after a decrease: OnLoss or OnBackpressure, then bucket_cap.    *)
LEMMA CutSound ==
    ASSUME NEW f, Sound(f), NEW g \in {LossThenCap(f), PressureThenCap(f)}
    PROVE  Sound(g) /\ g.since = f.since /\ g.budget <= f.budget
  <1>1. f \in FlowType
    BY DEF Sound
  <1>2. ASSUME NEW h \in {OnLoss(f), OnBackpressure(f)}
        PROVE  h \in FlowType /\ h.since = f.since /\ h.budget = f.budget
    <2>1. /\ f.rate \in ConfiguredMinRate..ConfiguredMaxRate
          /\ LossPerMille \in Nat /\ PressurePerMille \in Nat
          /\ 0 \in 0..LossCooldown /\ 0 \in 0..PressureCooldown
      BY <1>1, ConfigTypes DEF FlowType
    <2>2. /\ Decreased(f.rate, LossPerMille) \in ConfiguredMinRate..ConfiguredMaxRate
          /\ Decreased(f.rate, PressurePerMille) \in ConfiguredMinRate..ConfiguredMaxRate
      BY <2>1, DecreasedType
    <2>. QED
      BY <1>1, <2>1, <2>2, Zenon DEF OnLoss, OnBackpressure, FlowType
  <1>3. PICK h \in {OnLoss(f), OnBackpressure(f)} : g = CapBudget(h)
    BY DEF LossThenCap, PressureThenCap
  <1>4. h \in FlowType /\ h.since = f.since /\ h.budget = f.budget
    BY <1>2, <1>3
  <1>5. BucketCap(h.rate) \in Nat
    BY <1>4, RateLimits, ConfigTypes DEF BucketCap, Most, FlowType
  <1>6. /\ g \in FlowType /\ g.rate = h.rate /\ g.since = h.since
        /\ g.budget = Least(h.budget, BucketCap(h.rate))
    BY <1>3, <1>4, <1>5 DEF CapBudget, FlowType, Least
  <1>. QED
    BY <1>4, <1>5, <1>6 DEF Sound, Least, FlowType

(* on_ack only raises the rate, and with it the bucket.                    *)
LEMMA AckSound ==
    ASSUME NEW f, Sound(f), NEW retransmitted \in BOOLEAN
    PROVE  LET g == OnAck(f, retransmitted)
           IN  Sound(g) /\ g.since = f.since /\ g.budget <= f.budget
  <1>1. f \in FlowType /\ f.rate \in Nat /\ f.rate <= ConfiguredMaxRate
        /\ ConfiguredMinRate <= f.rate
    BY RateLimits DEF Sound, FlowType
  <1>2. /\ Least(ConfiguredMaxRate, f.rate + Increase) \in ConfiguredMinRate..ConfiguredMaxRate
        /\ f.rate <= Least(ConfiguredMaxRate, f.rate + Increase)
    BY <1>1, RateLimits, ConfigTypes DEF Least
  <1>3. BucketCap(f.rate) <= BucketCap(Least(ConfiguredMaxRate, f.rate + Increase))
        /\ BucketCap(f.rate) \in Nat
        /\ BucketCap(Least(ConfiguredMaxRate, f.rate + Increase)) \in Nat
    BY <1>1, <1>2, RateLimits, ConfigTypes DEF BucketCap, Most
  <1>4. f.budget \in Nat /\ f.budget <= BucketCap(f.rate)
    BY DEF Sound, FlowType
  <1>5. CASE Enabled /\ ~retransmitted
    <2>. DEFINE g == OnAck(f, retransmitted)
    <2>1. g = [f EXCEPT !.rate = Least(ConfiguredMaxRate, f.rate + Increase)]
      BY <1>5 DEF OnAck
    <2>2. /\ g \in FlowType /\ g.rate = Least(ConfiguredMaxRate, f.rate + Increase)
          /\ g.since = f.since /\ g.budget = f.budget
      BY <1>1, <1>2, <2>1 DEF FlowType
    <2>. HIDE DEF g
    <2>. QED
      BY <1>3, <1>4, <2>2 DEF Sound, g
  <1>6. CASE ~(Enabled /\ ~retransmitted)
    BY <1>4, <1>6 DEF OnAck
  <1>. QED
    BY <1>5, <1>6

(* refill_send_budget adds no more than the highest rate allows in the     *)
(* time since the last refill, and that time is then used up.              *)
LEMMA RefillSound ==
    ASSUME NEW f, Sound(f)
    PROVE  /\ Sound(Refill(f))
           /\ \A bytes, t \in Nat : Covered(f, bytes, t) => Covered(Refill(f), bytes, t)
  <1>. DEFINE refill == (f.rate * f.since) \div Second
              g == Refill(f)
  <1>1. /\ f \in FlowType /\ f.budget \in Nat /\ f.since \in Nat /\ f.rate \in Nat
        /\ f.rate <= ConfiguredMaxRate /\ f.budget <= BucketCap(f.rate)
    BY RateLimits, ConfigTypes DEF Sound, FlowType
  <1>2. f.rate * f.since \in Nat
    BY <1>1, ProductType
  <1>3. refill \in Nat /\ Second * refill <= f.rate * f.since
    BY <1>2, QuotientRoundsDown, ConfigTypes
  <1>4. BucketCap(f.rate) \in Nat
    BY <1>1, ConfigTypes DEF BucketCap, Most
  <1>5. CASE refill > 0
    <2>1. g = [f EXCEPT !.budget = Least(BucketCap(f.rate), f.budget + refill), !.since = 0]
      BY <1>5 DEF Refill
    <2>. HIDE DEF refill, g
    <2>2. /\ g \in FlowType /\ g.rate = f.rate /\ g.since = 0
          /\ g.budget = Least(BucketCap(f.rate), f.budget + refill)
      <3>1. Least(BucketCap(f.rate), f.budget + refill) \in Nat /\ 0 \in 0..MaxSince
        BY <1>1, <1>3, <1>4, ConfigTypes DEF Least
      <3>. QED
        BY <1>1, <2>1, <3>1, Zenon DEF FlowType
    <2>3. /\ g.budget \in Nat /\ g.budget <= f.budget + refill
          /\ g.budget <= BucketCap(g.rate)
      BY <1>1, <1>3, <1>4, <2>2 DEF Least
    <2>4. ASSUME NEW bytes \in Nat, NEW t \in Nat, Covered(f, bytes, t)
          PROVE  Covered(g, bytes, t)
      <3>1. /\ bytes + g.budget \in Nat /\ bytes + f.budget \in Nat
            /\ bytes + g.budget <= (bytes + f.budget) + refill
        BY <1>1, <1>3, <2>3
      <3>2. Second * (bytes + g.budget) <= Second * ((bytes + f.budget) + refill)
        BY <1>3, <3>1, ProductMonotone, ConfigTypes
      <3>3. Second * ((bytes + f.budget) + refill)
                = Second * (bytes + f.budget) + Second * refill
        BY <1>3, <3>1, ProductOfSum, ConfigTypes
      <3>4. f.rate * f.since <= ConfiguredMaxRate * f.since
        BY <1>1, ProductMonotone, RateLimits
      <3>5. /\ Second * (bytes + g.budget) \in Nat /\ Second * (bytes + f.budget) \in Nat
            /\ Second * refill \in Nat /\ ConfiguredMaxRate * f.since \in Nat
            /\ Second * StartRate \in Nat /\ ConfiguredMaxRate * t \in Nat
        BY <1>1, <1>3, <3>1, RateLimits, ProductType, ConfigTypes
      <3>6. Second * (bytes + f.budget) + ConfiguredMaxRate * f.since
                <= Second * StartRate + ConfiguredMaxRate * t
        BY <2>4 DEF Covered
      <3>7. Second * (bytes + g.budget) <= Second * StartRate + ConfiguredMaxRate * t
        BY <1>2, <1>3, <3>2, <3>3, <3>4, <3>5, <3>6
      <3>8. ConfiguredMaxRate * 0 = 0
        BY RateLimits
      <3>. QED
        BY <2>2, <3>5, <3>7, <3>8 DEF Covered
    <2>. QED
      BY <2>2, <2>3, <2>4 DEF Sound, g
  <1>6. CASE ~(refill > 0)
    BY <1>6 DEF Refill
  <1>. QED
    BY <1>3, <1>5, <1>6

(* The bytes of a packet leave the bucket as they are sent.                *)
LEMMA SpendSound ==
    ASSUME NEW f, Sound(f), NEW len \in Nat, len <= f.budget
    PROVE  LET g == [f EXCEPT !.budget = f.budget - len] IN
           /\ Sound(g)
           /\ \A bytes, t \in Nat : Covered(f, bytes, t) => Covered(g, bytes + len, t)
  <1>. DEFINE g == [f EXCEPT !.budget = f.budget - len]
  <1>1. f \in FlowType /\ f.budget \in Nat /\ f.budget <= BucketCap(f.rate)
        /\ f.rate \in Nat
    BY RateLimits DEF Sound, FlowType
  <1>2. /\ g \in FlowType /\ g.rate = f.rate /\ g.since = f.since
        /\ g.budget = f.budget - len
    BY <1>1 DEF FlowType
  <1>3. BucketCap(f.rate) \in Nat
    BY <1>1, ConfigTypes DEF BucketCap, Most
  <1>. HIDE DEF g
  <1>4. Sound(g)
    BY <1>1, <1>2, <1>3 DEF Sound
  <1>5. ASSUME NEW bytes \in Nat, NEW t \in Nat, Covered(f, bytes, t)
        PROVE  Covered(g, bytes + len, t)
    <2>1. (bytes + len) + g.budget = bytes + f.budget
      BY <1>1, <1>2
    <2>. QED
      BY <1>2, <1>5, <2>1 DEF Covered
  <1>. QED
    BY <1>4, <1>5 DEF g

(* A millisecond adds at most what the highest rate allows in it.          *)
LEMMA OlderSound ==
    ASSUME NEW f, Sound(f)
    PROVE  /\ Sound(Older(f))
           /\ \A bytes, t \in Nat : Covered(f, bytes, t) => Covered(Older(f), bytes, t + 1)
  <1>. DEFINE g == Older(f)
  <1>1. /\ f \in FlowType /\ f.budget \in Nat /\ f.since \in Nat
        /\ f.since \in 0..MaxSince /\ f.lossAge \in 0..LossCooldown
        /\ f.pressureAge \in 0..PressureCooldown
    BY ConfigTypes DEF Sound, FlowType
  <1>2. /\ Least(f.since + 1, MaxSince) \in 0..MaxSince
        /\ Least(f.since + 1, MaxSince) <= f.since + 1
        /\ Least(f.lossAge + 1, LossCooldown) \in 0..LossCooldown
        /\ Least(f.pressureAge + 1, PressureCooldown) \in 0..PressureCooldown
    BY <1>1, ConfigTypes DEF Least
  <1>3. /\ g \in FlowType /\ g.rate = f.rate /\ g.budget = f.budget
        /\ g.since = Least(f.since + 1, MaxSince)
    BY <1>1, <1>2, Zenon DEF FlowType, Older
  <1>. HIDE DEF g
  <1>4. Sound(g)
    BY <1>3 DEF Sound
  <1>5. ASSUME NEW bytes \in Nat, NEW t \in Nat, Covered(f, bytes, t)
        PROVE  Covered(g, bytes, t + 1)
    <2>1. g.since \in Nat /\ g.since <= f.since + 1 /\ f.since <= t
      BY <1>2, <1>3, <1>5, ConfigTypes DEF Covered
    <2>2. ConfiguredMaxRate * g.since <= ConfiguredMaxRate * (f.since + 1)
      BY <1>1, <2>1, ProductMonotone, RateLimits
    <2>3. /\ ConfiguredMaxRate * (f.since + 1)
                = ConfiguredMaxRate * f.since + ConfiguredMaxRate * 1
          /\ ConfiguredMaxRate * (t + 1) = ConfiguredMaxRate * t + ConfiguredMaxRate * 1
      BY <1>1, ProductOfSum, RateLimits
    <2>4. /\ ConfiguredMaxRate * g.since \in Nat /\ ConfiguredMaxRate * f.since \in Nat
          /\ ConfiguredMaxRate * t \in Nat /\ ConfiguredMaxRate * 1 \in Nat
          /\ Second * (bytes + f.budget) \in Nat /\ Second * StartRate \in Nat
          /\ ConfiguredMaxRate * (t + 1) \in Nat
      BY <1>1, <2>1, ProductType, RateLimits, ConfigTypes
    <2>5. Second * (bytes + f.budget) + ConfiguredMaxRate * f.since
                <= Second * StartRate + ConfiguredMaxRate * t
      BY <1>5 DEF Covered
    <2>6. Second * (bytes + f.budget) + ConfiguredMaxRate * g.since
                <= Second * StartRate + ConfiguredMaxRate * (t + 1)
      BY <2>2, <2>3, <2>4, <2>5
    <2>. QED
      BY <1>1, <1>3, <2>1, <2>6 DEF Covered
  <1>. QED
    BY <1>4, <1>5 DEF g

-----------------------------------------------------------------------------
(* The queue                                                               *)

(* erase() of the visited packet leaves the others.                        *)
LEMMA WithoutVisitedType ==
    ASSUME queue \in Seq(Packet), at \in 1..Len(queue)
    PROVE  WithoutVisited \in Seq(Packet) /\ Len(WithoutVisited) = Len(queue) - 1
  <1>1. at \in Nat /\ Len(queue) \in Nat
    BY LenProperties
  <1>2. /\ SubSeq(queue, 1, at - 1) \in Seq(Packet)
        /\ Len(SubSeq(queue, 1, at - 1)) = at - 1
    BY <1>1, SubSeqProperties
  <1>3. /\ SubSeq(queue, at + 1, Len(queue)) \in Seq(Packet)
        /\ Len(SubSeq(queue, at + 1, Len(queue))) = Len(queue) - at
    BY <1>1, SubSeqProperties
  <1>4. /\ WithoutVisited \in Seq(Packet)
        /\ Len(WithoutVisited) = Len(SubSeq(queue, 1, at - 1))
                                    + Len(SubSeq(queue, at + 1, Len(queue)))
    BY <1>2, <1>3, ConcatProperties, Zenon DEF WithoutVisited
  <1>5. (at - 1) + (Len(queue) - at) = Len(queue) - 1
    BY <1>1
  <1>. QED
    BY <1>2, <1>3, <1>4, <1>5, Zenon

(* insert() in front of a packet of lower priority keeps the others.       *)
LEMMA InsertedType ==
    ASSUME queue \in Seq(Packet), NEW n \in 0..Len(queue), NEW p \in Packet
    PROVE  LET q == SubSeq(queue, 1, n) \o <<p>> \o SubSeq(queue, n + 1, Len(queue))
           IN  q \in Seq(Packet) /\ Len(q) = Len(queue) + 1
  <1>1. n \in Nat /\ Len(queue) \in Nat
    BY LenProperties
  <1>2. SubSeq(queue, 1, n) \in Seq(Packet) /\ Len(SubSeq(queue, 1, n)) = n
    BY <1>1, SubSeqProperties
  <1>3. /\ SubSeq(queue, n + 1, Len(queue)) \in Seq(Packet)
        /\ Len(SubSeq(queue, n + 1, Len(queue))) = Len(queue) - n
    BY <1>1, SubSeqProperties
  <1>4. <<p>> \in Seq(Packet) /\ Len(<<p>>) = 1
    OBVIOUS
  <1>5. /\ SubSeq(queue, 1, n) \o <<p>> \in Seq(Packet)
        /\ Len(SubSeq(queue, 1, n) \o <<p>>) = n + 1
    BY <1>2, <1>4, ConcatProperties
  <1>. DEFINE front == SubSeq(queue, 1, n) \o <<p>>
              back == SubSeq(queue, n + 1, Len(queue))
  <1>6. front \o back \in Seq(Packet) /\ Len(front \o back) = Len(front) + Len(back)
    BY <1>3, <1>5, ConcatProperties, Zenon
  <1>7. (n + 1) + (Len(queue) - n) = Len(queue) + 1
    BY <1>1
  <1>. QED
    BY <1>3, <1>5, <1>6, <1>7, Zenon

(* Only flush_pending moves through the queue, and never past its end.     *)
LEMMA QueueStep ==
    ASSUME QueueOK, Next PROVE QueueOK'
  <1>1. ASSUME NEW owner \in Sessions \cup {NoOwner}, NEW len \in Lengths,
               NEW priority \in Priorities, Enqueue(owner, len, priority)
        PROVE  QueueOK'
    <2>. DEFINE p == [id |-> packets + 1, owner |-> owner, len |-> len,
                      priority |-> priority]
    <2>1. p \in Packet /\ packets' \in 0..MaxPackets
      <3>1. packets + 1 \in 1..MaxPackets /\ packets' = packets + 1
        BY <1>1, ConfigTypes DEF Enqueue, QueueOK
      <3>2. p \in Packet
        BY <3>1, Zenon DEF Packet
      <3>3. packets' \in 0..MaxPackets
        BY <3>1, ConfigTypes
      <3>. QED
        BY <3>2, <3>3, Zenon
    <2>2. PICK n \in 0..Len(queue) :
            queue' = SubSeq(queue, 1, n) \o <<p>> \o SubSeq(queue, n + 1, Len(queue))
      BY <1>1, Zenon DEF Enqueue
    <2>. HIDE DEF p
    <2>3. queue' \in Seq(Packet) /\ Len(queue') = Len(queue) + 1
      BY <2>1, <2>2, InsertedType, Zenon DEF QueueOK
    <2>4. Len(queue) \in Nat /\ Len(queue) < MaxPending /\ at = 0 /\ at' = 0
      BY <1>1, LenProperties DEF Enqueue, QueueOK
    <2>. QED
      BY <2>1, <2>3, <2>4, ConfigTypes DEF QueueOK
  <1>2. CASE UNCHANGED <<queue, at, packets>>
    BY <1>2 DEF QueueOK
  <1>3. CASE Reset
    BY <1>3, ConfigTypes DEF Reset, QueueOK
  <1>4. CASE BeginFlush
    BY <1>4, LenProperties DEF BeginFlush, QueueOK
  <1>5. CASE DropOrphan \/ Send
    <2>1. /\ at \in 1..Len(queue) /\ queue' = WithoutVisited /\ at' = 1
          /\ packets' = packets
      BY <1>5 DEF DropOrphan, Send, MaySend, Visiting, QueueOK
    <2>2. queue' \in Seq(Packet) /\ Len(queue') = Len(queue) - 1 /\ Len(queue) \in Nat
      BY <2>1, WithoutVisitedType, LenProperties DEF QueueOK
    <2>. QED
      BY <2>1, <2>2, ConfigTypes DEF QueueOK
  <1>6. CASE Throttle
    <2>1. /\ at \in 1..Len(queue) /\ at' \in {0, at + 1} /\ UNCHANGED <<queue, packets>>
      BY <1>6 DEF Throttle, Visiting, QueueOK
    <2>. QED
      BY <2>1, LenProperties DEF QueueOK
  <1>7. ASSUME NEW blocked \in BOOLEAN, SocketRefuses(blocked) PROVE QueueOK'
    BY <1>7, LenProperties DEF SocketRefuses, QueueOK
  <1>8. CASE FlushReturns
    BY <1>8, LenProperties DEF FlushReturns, QueueOK
  <1>9. ASSUME NEW s \in Sessions, Loss(s) \/ Evict(s) \/ Tick \/ (\E r \in BOOLEAN : Ack(s, r))
        PROVE  UNCHANGED <<queue, at, packets>>
    BY <1>9 DEF Loss, Evict, Tick, Ack
  <1>. QED
    BY <1>1, <1>2, <1>3, <1>4, <1>5, <1>6, <1>7, <1>8, <1>9, ConfigTypes
       DEF Next, FlushStep

-----------------------------------------------------------------------------
(* The sessions                                                            *)

(* A step that gives one live session another sound and covered bucket.    *)
LEMMA OneFlow ==
    ASSUME FlowOK, NEW s \in live, NEW g, NEW bytes \in Nat, Sound(g),
           age < Horizon => Covered(g, bytes, age),
           flow' = [flow EXCEPT ![s] = g], sent' = [sent EXCEPT ![s] = bytes],
           UNCHANGED <<role, live, age>>
    PROVE  FlowOK'
  <1>1. s \in Sessions
    BY DEF FlowOK
  <1>2. ASSUME NEW r \in Sessions
        PROVE  /\ r = s => flow'[r] = g /\ sent'[r] = bytes
               /\ r # s => flow'[r] = flow[r] /\ sent'[r] = sent[r]
    BY <1>1 DEF FlowOK
  <1>3. flow' \in [Sessions -> FlowType] /\ sent' \in [Sessions -> Nat]
    BY DEF FlowOK, Sound
  <1>4. BudgetInBucket'
    BY <1>2 DEF BudgetInBucket, FlowOK, Sound
  <1>5. \A r \in Sessions \ live : flow'[r] = FreshFlow /\ sent'[r] = 0
    BY <1>2 DEF FlowOK
  <1>6. age < Horizon => \A r \in Sessions : Covered(flow'[r], sent'[r], age)
    BY <1>2 DEF FlowOK
  <1>. QED
    BY <1>3, <1>4, <1>5, <1>6 DEF FlowOK

(* Each step leaves the buckets within their bounds and the account even.  *)
LEMMA FlowStep ==
    ASSUME QueueOK, FlowOK, Next PROVE FlowOK'
  <1>1. ASSUME NEW s \in Sessions
        PROVE  /\ Sound(flow[s]) /\ sent[s] \in Nat /\ flow[s] \in FlowType
               /\ age < Horizon => Covered(flow[s], sent[s], age)
               /\ sent = [sent EXCEPT ![s] = sent[s]]
               /\ flow = [flow EXCEPT ![s] = flow[s]]
    BY DEF FlowOK, Sound, BudgetInBucket
  <1>2. age \in Nat /\ live \subseteq Sessions
    BY ConfigTypes DEF FlowOK
  <1>3. ASSUME NEW s \in live, NEW g, Sound(g), g.since = flow[s].since,
               g.budget <= flow[s].budget, flow' = [flow EXCEPT ![s] = g],
               UNCHANGED <<role, live, age, sent>>
        PROVE  FlowOK'
    <2>1. g \in FlowType
      BY <1>3 DEF Sound
    <2>2. age < Horizon => Covered(g, sent[s], age)
      BY <1>1, <1>2, <1>3, <2>1, LessIsCovered
    <2>3. sent' = [sent EXCEPT ![s] = sent[s]] /\ sent[s] \in Nat
      BY <1>1, <1>2, <1>3
    <2>. QED
      BY <1>3, <2>2, <2>3, OneFlow, Zenon
  <1>4. CASE UNCHANGED <<role, flow, live, age, sent>>
    BY <1>4 DEF FlowOK, BudgetInBucket
  <1>5. ASSUME NEW s \in Sessions, NEW retransmitted \in BOOLEAN, Ack(s, retransmitted)
        PROVE  FlowOK'
    <2>. DEFINE g == OnAck(flow[s], retransmitted)
    <2>1. Sound(g) /\ g.since = flow[s].since /\ g.budget <= flow[s].budget
      BY <1>1, AckSound
    <2>2. s \in live /\ flow' = [flow EXCEPT ![s] = g] /\ UNCHANGED <<role, live, age, sent>>
      BY <1>5 DEF Ack
    <2>. HIDE DEF g
    <2>. QED
      BY <1>3, <2>1, <2>2, Zenon
  <1>6. ASSUME NEW s \in Sessions, Loss(s) PROVE FlowOK'
    <2>. DEFINE g == LossThenCap(flow[s])
    <2>1. Sound(g) /\ g.since = flow[s].since /\ g.budget <= flow[s].budget
      BY <1>1, CutSound
    <2>2. s \in live /\ flow' = [flow EXCEPT ![s] = g] /\ UNCHANGED <<role, live, age, sent>>
      BY <1>6 DEF Loss
    <2>. HIDE DEF g
    <2>. QED
      BY <1>3, <2>1, <2>2, Zenon
  <1>7. ASSUME NEW s \in Sessions, Evict(s) PROVE FlowOK'
    <2>1. /\ role = "server" /\ role' = role /\ age' = age /\ live' = live \ {s}
          /\ flow' = [flow EXCEPT ![s] = FreshFlow] /\ sent' = [sent EXCEPT ![s] = 0]
      BY <1>7 DEF Evict
    <2>2. ASSUME NEW r \in Sessions
          PROVE  /\ r = s => flow'[r] = FreshFlow /\ sent'[r] = 0
                 /\ r # s => flow'[r] = flow[r] /\ sent'[r] = sent[r]
      BY <2>1 DEF FlowOK
    <2>3. flow' \in [Sessions -> FlowType] /\ sent' \in [Sessions -> Nat]
      BY <2>1, FreshSound DEF FlowOK, Sound
    <2>4. BudgetInBucket'
      BY <2>2, FreshSound DEF BudgetInBucket, FlowOK, Sound
    <2>5. \A r \in Sessions \ live' : flow'[r] = FreshFlow /\ sent'[r] = 0
      BY <2>1, <2>2 DEF FlowOK
    <2>6. age < Horizon => \A r \in Sessions : Covered(flow'[r], sent'[r], age)
      BY <1>2, <2>2, FreshSound DEF FlowOK
    <2>. QED
      BY <2>1, <2>3, <2>4, <2>5, <2>6 DEF FlowOK
  <1>8. CASE Reset
    <2>1. /\ role = "client" /\ role' = role /\ age' = 0 /\ live' = live
          /\ flow' = [flow EXCEPT ![Client] = FreshFlow]
          /\ sent' = [sent EXCEPT ![Client] = 0]
      BY <1>8 DEF Reset
    <2>2. ASSUME NEW r \in Sessions PROVE flow'[r] = FreshFlow /\ sent'[r] = 0
      <3>1. r # Client => flow[r] = FreshFlow /\ sent[r] = 0
        BY <2>1 DEF FlowOK
      <3>. QED
        BY <2>1, <3>1 DEF FlowOK
    <2>3. flow' \in [Sessions -> FlowType] /\ sent' \in [Sessions -> Nat]
      BY <2>1, FreshSound DEF FlowOK, Sound
    <2>4. BudgetInBucket'
      BY <2>2, FreshSound DEF BudgetInBucket, Sound
    <2>5. \A r \in Sessions : Covered(flow'[r], sent'[r], age')
      BY <2>1, <2>2, FreshSound
    <2>6. age' \in 0..Horizon
      BY <2>1, ConfigTypes
    <2>. QED
      BY <2>1, <2>2, <2>3, <2>4, <2>5, <2>6, Zenon DEF FlowOK
  <1>9. CASE Tick
    <2>1. /\ UNCHANGED <<role, live, sent>> /\ age' = Least(age + 1, Horizon)
          /\ flow' = [s \in Sessions |-> IF s \in live THEN Older(flow[s]) ELSE flow[s]]
      BY <1>9 DEF Tick
    <2>2. ASSUME NEW s \in Sessions
          PROVE  /\ Sound(flow'[s])
                 /\ s \notin live => flow'[s] = FreshFlow /\ sent'[s] = 0
      BY <1>1, <2>1, OlderSound DEF FlowOK
    <2>3. flow' \in [Sessions -> FlowType]
      BY <2>1, <2>2 DEF Sound
    <2>4. BudgetInBucket'
      BY <2>2 DEF BudgetInBucket, Sound
    <2>5. age' \in 0..Horizon /\ (age' < Horizon => age' = age + 1 /\ age < Horizon)
      BY <1>2, <2>1, ConfigTypes DEF Least
    <2>6. ASSUME NEW s \in Sessions, age' < Horizon
          PROVE  Covered(flow'[s], sent'[s], age')
      <3>1. CASE s \in live
        <4>1. Covered(flow[s], sent[s], age) /\ sent[s] \in Nat /\ Sound(flow[s])
          BY <1>1, <2>5, <2>6
        <4>2. Covered(Older(flow[s]), sent[s], age + 1)
          BY <1>2, <4>1, OlderSound
        <4>3. flow'[s] = Older(flow[s]) /\ sent' = sent /\ age' = age + 1
          BY <2>1, <2>5, <2>6, <3>1
        <4>. QED
          BY <4>2, <4>3
      <3>2. CASE s \notin live
        BY <1>2, <2>2, <2>5, <2>6, <3>2, FreshSound
      <3>. QED
        BY <3>1, <3>2
    <2>. QED
      BY <2>1, <2>2, <2>3, <2>4, <2>5, <2>6 DEF FlowOK
  <1>10. ASSUME Visiting, PacketOwner \in live
         PROVE  /\ Sound(Refilled) /\ Visited.len \in Nat
                /\ age < Horizon => Covered(Refilled, sent[PacketOwner], age)
    <2>1. Visited \in Packet
      BY <1>10 DEF Visiting, Visited, QueueOK
    <2>2. Visited.len \in Nat
      <3>1. Visited.len \in Lengths
        BY <2>1, Zenon DEF Packet
      <3>. QED
        BY <3>1, ConfigTypes, Zenon
    <2>3. PacketOwner \in Sessions
      BY <1>2, <1>10
    <2>. QED
      BY <1>1, <1>2, <2>2, <2>3, RefillSound DEF Refilled
  <1>11. ASSUME Visiting, PacketOwner \in live, NEW g \in {Refilled, PressureThenCap(Refilled)},
                flow' = [flow EXCEPT ![PacketOwner] = g], UNCHANGED <<role, live, age, sent>>
         PROVE  FlowOK'
    <2>1. /\ Sound(Refilled) /\ PacketOwner \in Sessions
          /\ age < Horizon => Covered(Refilled, sent[PacketOwner], age)
      BY <1>2, <1>10, <1>11
    <2>2. Sound(g) /\ g.since = Refilled.since /\ g.budget <= Refilled.budget
      <3>1. CASE g = Refilled
        BY <2>1, <3>1 DEF Sound, FlowType
      <3>2. CASE g = PressureThenCap(Refilled)
        BY <2>1, <3>2, CutSound
      <3>. QED
        BY <1>11, <3>1, <3>2
    <2>3. g \in FlowType /\ Refilled \in FlowType
      BY <2>1, <2>2 DEF Sound
    <2>4. sent[PacketOwner] \in Nat /\ sent' = [sent EXCEPT ![PacketOwner] = sent[PacketOwner]]
      BY <1>1, <1>11, <2>1
    <2>5. age < Horizon => Covered(g, sent[PacketOwner], age)
      BY <1>2, <2>1, <2>2, <2>3, <2>4, LessIsCovered
    <2>. QED
      BY <1>11, <2>2, <2>4, <2>5, OneFlow, Zenon
  <1>12. CASE Throttle
    BY <1>11, <1>12, Zenon DEF Throttle
  <1>13. CASE Send
    <2>1. CASE PacketOwner = NoOwner
      BY <1>4, <1>13, <2>1 DEF Send
    <2>2. CASE PacketOwner # NoOwner
      <3>. DEFINE g == [Refilled EXCEPT !.budget = Refilled.budget - Visited.len]
                  bytes == IF age < Horizon THEN sent[PacketOwner] + Visited.len ELSE sent[PacketOwner]
      <3>1. /\ Visiting /\ PacketOwner \in live /\ Visited.len <= Refilled.budget
            /\ flow' = [flow EXCEPT ![PacketOwner] = g] /\ sent' = [sent EXCEPT ![PacketOwner] = bytes]
            /\ UNCHANGED <<role, live, age>>
        <4>1. /\ Visiting /\ PacketOwner \in live /\ Refilled.budget >= Visited.len
              /\ flow' = [flow EXCEPT ![PacketOwner] = g] /\ sent' = [sent EXCEPT ![PacketOwner] = bytes]
              /\ UNCHANGED <<role, live, age>>
          BY <1>13, <2>2, Zenon DEF Send, MaySend
        <4>2. Sound(Refilled) /\ Visited.len \in Nat
          BY <1>10, <4>1
        <4>3. Refilled.budget \in Nat
          BY <4>2 DEF Sound, FlowType
        <4>4. Visited.len <= Refilled.budget
          BY <4>1, <4>2, <4>3
        <4>. QED
          BY <4>1, <4>4, Zenon
      <3>2. /\ Sound(Refilled) /\ Visited.len \in Nat /\ PacketOwner \in Sessions
            /\ age < Horizon => Covered(Refilled, sent[PacketOwner], age)
        BY <1>2, <1>10, <3>1
      <3>3. sent[PacketOwner] \in Nat
        BY <1>1, <3>2
      <3>4. bytes \in Nat
        BY <3>2, <3>3
      <3>5. Sound(g) /\ (age < Horizon => Covered(g, bytes, age))
        BY <1>2, <3>1, <3>2, <3>3, SpendSound
      <3>. HIDE DEF g, bytes
      <3>. QED
        BY <3>1, <3>4, <3>5, OneFlow, Zenon
    <2>. QED
      BY <2>1, <2>2
  <1>14. ASSUME NEW blocked \in BOOLEAN, SocketRefuses(blocked) PROVE FlowOK'
    <2>1. CASE PacketOwner = NoOwner
      BY <1>4, <1>14, <2>1 DEF SocketRefuses
    <2>2. CASE PacketOwner # NoOwner
      <3>1. /\ Visiting /\ PacketOwner \in live /\ UNCHANGED <<role, live, age, sent>>
            /\ \E g \in {Refilled, PressureThenCap(Refilled)} :
                    flow' = [flow EXCEPT ![PacketOwner] = g]
        BY <1>14, <2>2, Zenon DEF SocketRefuses, MaySend
      <3>. QED
        BY <1>11, <3>1, Zenon
    <2>. QED
      BY <2>1, <2>2
  <1>15. ASSUME NEW owner, NEW len, NEW priority, Enqueue(owner, len, priority)
         PROVE  UNCHANGED <<role, flow, live, age, sent>>
    BY <1>15, Zenon DEF Enqueue
  <1>16. BeginFlush \/ DropOrphan \/ FlushReturns => UNCHANGED <<role, flow, live, age, sent>>
    BY Zenon DEF BeginFlush, DropOrphan, FlushReturns
  <1>. QED
    BY <1>4, <1>5, <1>6, <1>7, <1>8, <1>9, <1>12, <1>13, <1>14, <1>15, <1>16, Zenon
       DEF Next, FlushStep

-----------------------------------------------------------------------------
(* The theorems                                                            *)

(* Credit is an inductive invariant.                                       *)
LEMMA CreditInvariant == Spec => []Credit
  <1>1. Init => Credit
    <2>. SUFFICES ASSUME Init PROVE Credit
      OBVIOUS
    <2>1. QueueOK
      BY ConfigTypes DEF Init, QueueOK
    <2>2. flow \in [Sessions -> FlowType] /\ sent \in [Sessions -> Nat] /\ BudgetInBucket
      BY FreshSound DEF Init, Sound, BudgetInBucket
    <2>3. \A s \in Sessions : flow[s] = FreshFlow /\ sent[s] = 0 /\ Covered(flow[s], sent[s], age)
      BY FreshSound DEF Init
    <2>. QED
      BY <2>1, <2>2, <2>3, ConfigTypes DEF Init, Credit, FlowOK
  <1>2. Credit /\ [Next]_vars => Credit'
    <2>. SUFFICES ASSUME Credit, [Next]_vars PROVE Credit'
      OBVIOUS
    <2>1. CASE Next
      BY <2>1, QueueStep, FlowStep DEF Credit
    <2>2. CASE UNCHANGED vars
      BY <2>2 DEF vars, Credit, QueueOK, FlowOK, BudgetInBucket
    <2>. QED
      BY <2>1, <2>2
  <1>. QED
    BY <1>1, <1>2, PTL DEF Spec

(* For every configuration the validators accept, the variables of the     *)
(* queue, the controllers and the buckets keep their types; in particular  *)
(* no budget is ever negative and no rate leaves its configured limits.    *)
THEOREM BudgetTypes == Spec => []TypeOK
  <1>1. Credit => TypeOK
    BY DEF Credit, QueueOK, FlowOK, TypeOK, FlowType
  <1>. QED
    BY <1>1, CreditInvariant, PTL

(* No session ever holds more budget than bucket_cap of its current rate.  *)
THEOREM BucketBound == Spec => []BudgetInBucket
  <1>1. Credit => BudgetInBucket
    BY DEF Credit, FlowOK
  <1>. QED
    BY <1>1, CreditInvariant, PTL

(* refill_send_budget and flush_pending pace a session: whatever the       *)
(* acknowledgements, losses and refusals of the socket, it never sends     *)
(* more than its initial budget and the highest rate allow.                *)
THEOREM PacingBound == Spec => []Paced
  <1>1. Credit => Paced
    <2>. SUFFICES ASSUME Credit, age < Horizon, NEW s \in Sessions
                  PROVE  Second * sent[s] <= Second * StartRate + ConfiguredMaxRate * age
      BY DEF Paced
    <2>1. /\ sent[s] \in Nat /\ flow[s].budget \in Nat /\ flow[s].since \in Nat /\ age \in Nat
          /\ Second * (sent[s] + flow[s].budget) + ConfiguredMaxRate * flow[s].since
                <= Second * StartRate + ConfiguredMaxRate * age
      <3>1. flow[s] \in FlowType /\ sent[s] \in Nat /\ age \in 0..Horizon
            /\ Covered(flow[s], sent[s], age)
        BY Zenon DEF Credit, FlowOK
      <3>2. flow[s].budget \in Nat /\ flow[s].since \in 0..MaxSince
        BY <3>1, Zenon DEF FlowType
      <3>3. flow[s].since \in Nat /\ age \in Nat
        BY <3>1, <3>2, ConfigTypes
      <3>. QED
        BY <3>1, <3>2, <3>3, Zenon DEF Covered
    <2>2. Second * sent[s] <= Second * (sent[s] + flow[s].budget)
      BY <2>1, ProductMonotone, ConfigTypes
    <2>3. /\ Second * sent[s] \in Nat /\ Second * (sent[s] + flow[s].budget) \in Nat
          /\ ConfiguredMaxRate * flow[s].since \in Nat /\ Second * StartRate \in Nat
          /\ ConfiguredMaxRate * age \in Nat
      BY <2>1, ProductType, RateLimits, ConfigTypes
    <2>. QED
      BY <2>1, <2>2, <2>3
  <1>. QED
    BY <1>1, CreditInvariant, PTL

-----------------------------------------------------------------------------
(* A server's flush                                                        *)

(* The time since the last refill is not worth a byte.                     *)
Dry(f) == f.rate * f.since < Second

(* The packets a server's flush has passed over in this round wait for     *)
(* their own session, whose refill was made in this round.                 *)
PassedOver ==
    role = "server" => \A i \in 1..(at - 1) : Short(queue[i]) /\ Dry(flow[queue[i].owner])

(* A quotient is zero exactly below the divisor.                           *)
LEMMA QuotientZero ==
    ASSUME NEW x \in Nat, NEW d \in Nat \ {0}
    PROVE  x \div d > 0 <=> x >= d
  OBVIOUS

(* refill_send_budget leaves less than a byte's time, and a second one in  *)
(* the same round adds nothing.                                            *)
LEMMA RefillDries ==
    ASSUME NEW f, Sound(f)
    PROVE  Dry(Refill(f)) /\ (Dry(f) => Refill(f) = f)
  <1>. DEFINE refill == (f.rate * f.since) \div Second
              g == Refill(f)
  <1>1. f \in FlowType /\ f.rate \in Nat /\ f.since \in Nat
    BY RateLimits, ConfigTypes DEF Sound, FlowType
  <1>2. f.rate * f.since \in Nat /\ Second \in Nat \ {0}
    BY <1>1, ProductType, ConfigTypes
  <1>3. refill > 0 <=> f.rate * f.since >= Second
    BY <1>2, QuotientZero
  <1>4. CASE refill > 0
    <2>1. g = [f EXCEPT !.budget = Least(BucketCap(f.rate), f.budget + refill), !.since = 0]
      BY <1>4, Zenon DEF Refill
    <2>2. g.since = 0 /\ g.rate = f.rate
      BY <1>1, <2>1, Zenon DEF FlowType
    <2>3. f.rate * 0 < Second
      BY <1>1, <1>2
    <2>4. ~Dry(f)
      BY <1>2, <1>3, <1>4 DEF Dry
    <2>. QED
      BY <2>2, <2>3, <2>4, Zenon DEF Dry
  <1>5. CASE ~(refill > 0)
    <2>1. g = f
      BY <1>5, Zenon DEF Refill
    <2>2. Dry(f)
      BY <1>2, <1>3, <1>5 DEF Dry
    <2>. QED
      BY <2>1, <2>2, Zenon
  <1>. QED
    BY <1>4, <1>5, Zenon

(* Backpressure lowers the rate, so what was dry stays so.                 *)
LEMMA PressureStaysDry ==
    ASSUME NEW f, Sound(f), Dry(f)
    PROVE  Dry(PressureThenCap(f))
  <1>. DEFINE h == OnBackpressure(f)
              d == Decreased(f.rate, PressurePerMille)
              g == PressureThenCap(f)
  <1>1. /\ f \in FlowType /\ f.rate \in Nat \ {0} /\ f.since \in Nat
        /\ f.rate \in ConfiguredMinRate..ConfiguredMaxRate
    BY RateLimits, ConfigTypes DEF Sound, FlowType
  <1>2. PressurePerMille \in Nat /\ PressurePerMille <= 1000
    BY BudgetAssumption
  <1>3. d \in ConfiguredMinRate..ConfiguredMaxRate /\ d \in Nat /\ d <= f.rate
    <2>. DEFINE q == (f.rate * PressurePerMille) \div 1000
    <2>1. d \in ConfiguredMinRate..ConfiguredMaxRate
      BY <1>1, <1>2, DecreasedType
    <2>2. f.rate * PressurePerMille \in Nat /\ f.rate * PressurePerMille <= f.rate * 1000
      BY <1>1, <1>2, ProductType, ProductMonotone
    <2>3. q \in Nat /\ 1000 * q <= f.rate * PressurePerMille
      BY <2>2, QuotientRoundsDown
    <2>. HIDE DEF q
    <2>4. q <= f.rate
      BY <1>1, <2>2, <2>3
    <2>5. d = Clamp(Most(1, q), ConfiguredMinRate, ConfiguredMaxRate)
      BY Zenon DEF Decreased, q
    <2>6. d <= f.rate
      BY <1>1, <2>3, <2>4, <2>5, RateLimits DEF Clamp, Most, Least
    <2>. QED
      BY <2>1, <2>6, RateLimits
  <1>. HIDE DEF d
  <1>4. h.since = f.since /\ h.rate \in Nat /\ h.rate <= f.rate /\ h \in FlowType
    <2>1. CASE h = f
      BY <1>1, <2>1
    <2>2. CASE h = [f EXCEPT !.rate = d, !.pressureAge = 0]
      <3>1. h.since = f.since /\ h.rate = d
        BY <1>1, <2>2, Zenon DEF FlowType
      <3>2. 0 \in 0..PressureCooldown
        BY ConfigTypes
      <3>3. h \in FlowType
        BY <1>1, <1>3, <2>2, <3>2, Zenon DEF FlowType
      <3>. QED
        BY <1>3, <3>1, <3>3, Zenon
    <2>. QED
      BY <2>1, <2>2, Zenon DEF OnBackpressure, d
  <1>. HIDE DEF h
  <1>5. g = [h EXCEPT !.budget = Least(h.budget, BucketCap(h.rate))]
    BY Zenon DEF PressureThenCap, CapBudget, h
  <1>6. g.since = f.since /\ g.rate = h.rate
    BY <1>4, <1>5, Zenon DEF FlowType
  <1>7. h.rate * f.since <= f.rate * f.since
    BY <1>1, <1>4, ProductMonotone
  <1>8. h.rate * f.since \in Nat /\ f.rate * f.since \in Nat
    BY <1>1, <1>4, ProductType
  <1>9. h.rate * f.since < Second
    BY <1>7, <1>8, ConfigTypes DEF Dry
  <1>. QED
    BY <1>6, <1>9, Zenon DEF Dry

(* A packet that is passed over is added to those that were.               *)
LEMMA ThrottlePassesOver ==
    ASSUME Credit, PassedOver, Throttle, role = "server"
    PROVE  PassedOver'
  <1>. DEFINE o == PacketOwner
              g == PressureThenCap(Refilled)
  <1>1. /\ Visiting /\ o \in live /\ Refilled.budget < Visited.len
        /\ flow' = [flow EXCEPT ![o] = g] /\ at' = at + 1
        /\ UNCHANGED <<role, queue, live>>
    BY Zenon DEF Throttle
  <1>2. /\ flow \in [Sessions -> FlowType] /\ BudgetInBucket /\ live \subseteq Sessions
        /\ queue \in Seq(Packet)
    BY Zenon DEF Credit, FlowOK, QueueOK
  <1>3. Sound(flow[o])
    BY <1>1, <1>2, Zenon DEF Sound, BudgetInBucket
  <1>4. Sound(Refilled) /\ Dry(Refilled) /\ (Dry(flow[o]) => Refilled = flow[o])
    BY <1>3, RefillSound, RefillDries, Zenon DEF Refilled
  <1>5. Sound(g) /\ g.budget <= Refilled.budget /\ Dry(g)
    BY <1>4, CutSound, PressureStaysDry, Zenon
  <1>6. g.budget \in Nat /\ Refilled.budget \in Nat /\ \A s \in Sessions : flow[s].budget \in Nat
    <2>1. \A f \in FlowType : f.budget \in Nat
      BY Zenon DEF FlowType
    <2>. QED
      BY <1>2, <1>4, <1>5, <2>1, Zenon DEF Sound
  <1>7. /\ \A i \in 1..Len(queue) : queue[i].len \in Nat
        /\ at \in 1..Len(queue)
    <2>1. \A i \in 1..Len(queue) : queue[i] \in Packet
      BY <1>2
    <2>2. \A p \in Packet : p.len \in Lengths
      BY Zenon DEF Packet
    <2>3. at \in 1..Len(queue)
      BY <1>1, <1>2 DEF Visiting
    <2>. QED
      BY <2>1, <2>2, <2>3, ConfigTypes, Zenon
  <1>. HIDE DEF o, g
  <1>8. o \in Sessions /\ flow'[o] = g /\ \A s \in Sessions \ {o} : flow'[s] = flow[s]
    BY <1>1, <1>2, Zenon
  <1>9. g.budget < queue[at].len /\ queue[at].owner = o
    <2>1. Visited = queue[at] /\ queue[at].owner = o /\ queue[at].len \in Nat
      BY <1>7, Zenon DEF Visited, PacketOwner, o
    <2>. QED
      BY <1>1, <1>5, <1>6, <2>1
  <1>10. ASSUME NEW i \in 1..at
         PROVE  Short(queue[i])' /\ Dry(flow'[queue[i].owner])
    <2>1. CASE i = at
      BY <1>1, <1>5, <1>8, <1>9, <2>1, Zenon DEF Short
    <2>2. CASE i # at
      <3>1. i \in 1..(at - 1) /\ i \in 1..Len(queue)
        <4>1. at \in 1..Len(queue) /\ Len(queue) \in Nat /\ i \in 1..at /\ i # at
          BY <1>2, <1>7, <2>2
        <4>. QED
          BY <4>1
      <3>2. /\ queue[i].owner \in live /\ flow[queue[i].owner].budget < queue[i].len
            /\ Dry(flow[queue[i].owner])
        BY <3>1, Zenon DEF PassedOver, Short
      <3>3. CASE queue[i].owner # o
        BY <1>1, <1>2, <1>8, <3>2, <3>3, Zenon DEF Short
      <3>4. CASE queue[i].owner = o
        <4>1. Refilled = flow[o]
          BY <1>4, <3>2, <3>4, Zenon
        <4>2. g.budget < queue[i].len
          <5>1. /\ queue[i].len \in Nat /\ flow[o].budget \in Nat /\ g.budget \in Nat
                /\ flow[o].budget < queue[i].len /\ g.budget <= flow[o].budget
            BY <1>5, <1>6, <1>7, <1>8, <3>1, <3>2, <3>4, <4>1, Zenon
          <5>. QED
            BY <5>1
        <4>. QED
          BY <1>1, <1>5, <1>8, <3>2, <3>4, <4>2, Zenon DEF Short
      <3>. QED
        BY <3>3, <3>4, Zenon
    <2>. QED
      BY <2>1, <2>2, Zenon
  <1>11. 1..(at' - 1) = 1..at
    BY <1>1, <1>7
  <1>. QED
    BY <1>1, <1>10, <1>11, Zenon DEF PassedOver, Short

(* PassedOver starts anew with every round and stays true in it.           *)
LEMMA PassedOverInvariant == Spec => [](Credit /\ PassedOver)
  <1>1. Init => PassedOver
    BY DEF Init, PassedOver
  <1>2. Credit /\ PassedOver /\ [Next]_vars => PassedOver'
    <2>. SUFFICES ASSUME Credit, PassedOver, [Next]_vars PROVE PassedOver'
      OBVIOUS
    <2>1. ASSUME at' \in {0, 1} PROVE PassedOver'
      <3>1. 1..(0 - 1) = {} /\ 1..(1 - 1) = {}
        OBVIOUS
      <3>2. 1..(at' - 1) = {}
        BY <2>1, <3>1, Zenon
      <3>. QED
        BY <3>2, Zenon DEF PassedOver
    <2>2. CASE Throttle
      <3>1. CASE role = "server"
        BY <2>2, <3>1, ThrottlePassesOver, Zenon
      <3>2. CASE role # "server"
        BY <2>2, <3>2, Zenon DEF Throttle, PassedOver
      <3>. QED
        BY <3>1, <3>2, Zenon
    <2>3. CASE DropOrphan \/ Send \/ FlushReturns \/ \E b \in BOOLEAN : SocketRefuses(b)
      BY <2>1, <2>3, Zenon DEF DropOrphan, Send, FlushReturns, SocketRefuses
    <2>4. CASE Reset \/ Tick \/ BeginFlush
      BY <2>1, <2>4, Zenon DEF Reset, Tick, BeginFlush
    <2>5. ASSUME NEW s \in Sessions, Loss(s) \/ Evict(s) PROVE PassedOver'
      BY <2>1, <2>5, Zenon DEF Loss, Evict
    <2>6. ASSUME NEW s \in Sessions, NEW r \in BOOLEAN, Ack(s, r) PROVE PassedOver'
      BY <2>1, <2>6, Zenon DEF Ack
    <2>7. ASSUME NEW owner \in Sessions \cup {NoOwner}, NEW len \in Lengths,
                 NEW priority \in Priorities, Enqueue(owner, len, priority)
          PROVE  PassedOver'
      BY <2>1, <2>7, Zenon DEF Enqueue
    <2>8. CASE UNCHANGED vars
      BY <2>8, Zenon DEF vars, PassedOver, Short
    <2>. QED
      BY <2>2, <2>3, <2>4, <2>5, <2>6, <2>7, <2>8, Zenon DEF Next, FlushStep
  <1>. QED
    BY <1>1, <1>2, CreditInvariant, PTL DEF Spec

(* When a server's flush_pending ends of itself, every packet it leaves in *)
(* the queue is longer than the budget of its own session: no session      *)
(* waits for another one.                                                  *)
THEOREM NobodyWaitsForOthers == Spec => OwnBudgetOnly
  <1>1. Credit /\ PassedOver
          => (role = "server" /\ FlushReturns => \A i \in DOMAIN queue' : Short(queue'[i]))
    <2>. SUFFICES ASSUME Credit, PassedOver, role = "server", FlushReturns
                  PROVE  \A i \in DOMAIN queue' : Short(queue'[i])
      OBVIOUS
    <2>1. queue' = queue /\ at > Len(queue)
      BY Zenon DEF FlushReturns
    <2>2. queue \in Seq(Packet) /\ at \in 0..(Len(queue) + 1)
      BY Zenon DEF Credit, QueueOK
    <2>3. \A i \in DOMAIN queue : i \in 1..(at - 1)
      BY <2>1, <2>2
    <2>. QED
      BY <2>1, <2>3, Zenon DEF PassedOver
  <1>. QED
    BY <1>1, PassedOverInvariant, PTL DEF OwnBudgetOnly

=============================================================================
