-------------------------- MODULE AbuseLimitsProofs ---------------------------
(***************************************************************************)
(* Proofs about AbuseLimits, for any set of hosts and every configuration  *)
(* the library accepts: the handshake rate over any second, the ban, and   *)
(* the bytes an unauthenticated host is sent.                              *)
(***************************************************************************)
EXTENDS AbuseLimits, FiniteSetTheorems, TLAPS

-----------------------------------------------------------------------------
(* The inductive invariant.                                                *)

Account == [window : 0..WindowCap, handshakes : 0..RateLimit,
            score : 0..BanThreshold, ban : 0..BanTime]

Counts == [received : Nat, sent : Nat, idle : 0..(IdleTimeout + 1)]

(* The handshakes before those of the current window are older than the    *)
(* window, and the ones before the window before it are a second old.      *)
Rated(h) ==
    LET before == Len(recent[h]) - abuse[h].handshakes IN
    /\ abuse[h].handshakes = 0 => abuse[h].window = WindowCap
    /\ \A i \in 1..before : recent[h][i] >= abuse[h].window \/ recent[h][i] >= Second
    /\ \A i \in 1..(before - RateLimit) : recent[h][i] >= Second

(* What may be sent to a host before anything waits in the queue. *)
Spare == IF Slack > LongestReply THEN Slack ELSE LongestReply
Allowance(p) == p.received * Factor + Spare

(* The answers that wait for a host. *)
Waiting(q, h) == {i \in DOMAIN q : q[i].host = h}

(* Every answer that waits for h can raise what was sent by the longest    *)
(* answer, except for one that was allowed when it was queued: it waits    *)
(* still, or has been sent.                                                *)
Owed(p, q, h) ==
    LET n == Cardinality(Waiting(q, h)) IN
    \/ p.sent + n * LongestReply <= Allowance(p) + (MaxPending - 1) * LongestReply
    \/ \E i \in Waiting(q, h) :
        p.sent + q[i].len + n * LongestReply <= Allowance(p) + MaxPending * LongestReply

IInv ==
    /\ TypeOK
    /\ \A h \in Hosts : Rated(h) /\ Owed(preauth[h], queue, h)

-----------------------------------------------------------------------------
(* Lemmas about the accounts of a host.                                    *)

(* The constants are numbers. *)
LEMMA Bounds ==
    /\ Second \in Nat \ {0} /\ RateLimit \in Nat \ {0} /\ Factor \in Nat \ {0}
    /\ BanThreshold \in Nat /\ BanTime \in Nat /\ Slack \in Nat
    /\ IdleTimeout \in Nat \ {0} /\ WindowIdle \in Nat /\ MaxPending \in Nat \ {0}
    /\ RequestLen \in Nat \ {0} /\ ReplyLens \subseteq Nat \ {0} /\ MaxReceived \in Nat
  BY AbuseAssumption, Zenon

(* The window's age is counted at least up to the second.                  *)
LEMMA CapBounds == WindowCap \in Nat /\ WindowCap >= Second
  BY Bounds DEF WindowCap

(* Nothing is longer than the longest answer. *)
LEMMA LongestBounds ==
    /\ LongestReply \in Nat \ {0}
    /\ \A k \in ReplyLens : k \in Nat \ {0} /\ k <= LongestReply
    /\ Spare \in Nat /\ Slack <= Spare /\ LongestReply <= Spare
  <1>1. LongestReply \in ReplyLens /\ \A k \in ReplyLens : k <= LongestReply
    BY AbuseAssumption, Zenon DEF LongestReply
  <1>2. LongestReply \in Nat \ {0} /\ \A k \in ReplyLens : k \in Nat \ {0}
    BY <1>1, Bounds, Zenon
  <1>. QED
    BY <1>1, <1>2, Bounds DEF Spare

(* endpoint_rate_limited: a window that is over starts again.              *)
LEMMA WindowedFacts ==
    ASSUME NEW a \in Account
    PROVE  /\ Windowed(a) \in Account /\ Windowed(a).ban = a.ban
           /\ a.window < Second => Windowed(a) = a
           /\ a.window >= Second => Windowed(a).window = 0 /\ Windowed(a).handshakes = 0
  <1>1. 0 \in 0..WindowCap /\ 0 \in 0..RateLimit
    BY Bounds, CapBounds
  <1>2. a.window < Second => ~(a.window >= Second)
    BY Bounds, CapBounds DEF Account
  <1>. QED
    BY <1>1, <1>2, Zenon DEF Windowed, Account

(* A handshake that is limited has found a window that is not over.        *)
LEMMA LimitedFacts ==
    ASSUME NEW a \in Account, RateLimited(a)
    PROVE  Windowed(a) = a
  BY WindowedFacts, Bounds DEF RateLimited, Account

(* A handshake that is let through is counted. *)
LEMMA AdmitFacts ==
    ASSUME NEW a \in Account, ~RateLimited(a)
    PROVE  /\ Admit(a) \in Account /\ Admit(a).ban = a.ban
           /\ Admit(a).window = Windowed(a).window
           /\ Admit(a).handshakes = Windowed(a).handshakes + 1
  <1>1. Windowed(a).handshakes \in 0..RateLimit /\ Windowed(a).handshakes < RateLimit
    BY WindowedFacts, Bounds DEF RateLimited, Account
  <1>2. Windowed(a).handshakes + 1 \in 0..RateLimit
    BY <1>1, Bounds
  <1>. QED
    BY <1>2, WindowedFacts, Zenon DEF Admit, Account

(* note_invalid_packet leaves the window and a ban alone. *)
LEMMA PenalizedFacts ==
    ASSUME NEW a \in Account
    PROVE  /\ Penalized(a) \in Account
           /\ Penalized(a).window = a.window /\ Penalized(a).handshakes = a.handshakes
           /\ a.ban > 0 => Penalized(a).ban = a.ban
  <1>1. a.score \in 0..BanThreshold /\ 0 \in 0..BanThreshold /\ BanTime \in 0..BanTime
    BY Bounds DEF Account
  <1>2. ~(a.score + 1 >= BanThreshold) => a.score + 1 \in 0..BanThreshold
    BY <1>1, Bounds
  <1>. QED
    BY <1>1, <1>2, Zenon DEF Penalized, Account

(* The types, with the names of this module. *)
LEMMA Types ==
    ASSUME IInv
    PROVE  /\ abuse \in [Hosts -> Account] /\ preauth \in [Hosts -> Counts]
           /\ tracked \subseteq Hosts /\ counted \subseteq Hosts /\ handshaking \subseteq Hosts
           /\ queue \in Seq(Reply) /\ Len(queue) <= MaxPending
           /\ received \in 0..MaxReceived
           /\ recent \in [Hosts -> Seq(0..Second)]
           /\ \A h \in Hosts : Rated(h) /\ Owed(preauth[h], queue, h)
  BY Zenon DEF IInv, TypeOK, Account, Counts

-----------------------------------------------------------------------------
(* The handshake rate.                                                     *)

(* A step that lets no handshake of h through. *)
Kept(h) ==
    /\ abuse'[h].window = abuse[h].window /\ abuse'[h].handshakes = abuse[h].handshakes
    /\ recent'[h] = recent[h]
    /\ Banned(h) => abuse'[h].ban = abuse[h].ban

(* A step that does. *)
Admitted(h) ==
    /\ ~Banned(h) /\ ~RateLimited(abuse[h])
    /\ abuse'[h] = Admit(abuse[h])
    /\ recent'[h] = Append(recent[h], 0)

RateStep ==
    /\ abuse' \in [Hosts -> Account] /\ recent' \in [Hosts -> Seq(0..Second)]
    /\ \A h \in Hosts : Kept(h) \/ Admitted(h)

(* The elements of a sequence. *)
LEMMA SequenceFacts ==
    ASSUME NEW S, NEW s \in Seq(S)
    PROVE  Len(s) \in Nat /\ DOMAIN s = 1..Len(s) /\ \A i \in 1..Len(s) : s[i] \in S
  OBVIOUS

(* The first n - k numbers, and the first n - k - m. *)
LEMMA Earlier ==
    ASSUME NEW n \in Nat, NEW k \in Nat, NEW m \in Nat
    PROVE  /\ \A i \in 1..(n - k) : i \in 1..n
           /\ \A i \in 1..(n - k - m) : i \in 1..n
           /\ (n + 1) - (k + 1) = n - k /\ k + 1 # 0
  OBVIOUS

(* A window and a handshake that is older than it, a moment later.         *)
LEMMA LaterKeeps ==
    ASSUME NEW a \in Nat, NEW w \in Nat, NEW cap \in Nat, NEW second \in Nat,
           a <= second, w <= cap, a >= w \/ a >= second
    PROVE  Later(a, second) >= Later(w, cap) \/ Later(a, second) >= second
  BY DEF Later

(* What is known of the accounts of one host. *)
LEMMA HostFacts ==
    ASSUME IInv, NEW h \in Hosts
    PROVE  /\ abuse[h] \in Account
           /\ abuse[h].window \in 0..WindowCap /\ abuse[h].handshakes \in 0..RateLimit
           /\ recent[h] \in Seq(0..Second) /\ Len(recent[h]) \in Nat
           /\ \A i \in 1..Len(recent[h]) : recent[h][i] \in 0..Second
           /\ Rated(h)
  <1>1. abuse[h] \in Account /\ recent[h] \in Seq(0..Second) /\ Rated(h)
    BY Types, Zenon
  <1>2. abuse[h].window \in 0..WindowCap /\ abuse[h].handshakes \in 0..RateLimit
    BY <1>1, Zenon DEF Account
  <1>3. Len(recent[h]) \in Nat /\ \A i \in 1..Len(recent[h]) : recent[h][i] \in 0..Second
    BY <1>1, SequenceFacts, Zenon
  <1>. QED
    BY <1>1, <1>2, <1>3, Zenon

(* A handshake that is let through keeps the rate: in a window that goes   *)
(* on it has room, and when the window starts again everything before it   *)
(* is a second old.                                                        *)
LEMMA AdmittedKeeps ==
    ASSUME IInv, NEW h \in Hosts, Admitted(h)
    PROVE  Rated(h)'
  <1>. DEFINE w == abuse[h].window
              k == abuse[h].handshakes
              r == recent[h]
              n == Len(recent[h])
  <1>1. /\ w \in 0..WindowCap /\ k \in 0..RateLimit /\ n \in Nat
        /\ \A i \in 1..n : r[i] \in 0..Second
    BY HostFacts, Zenon
  <1>2. /\ k = 0 => w = WindowCap
        /\ \A i \in 1..(n - k) : r[i] >= w \/ r[i] >= Second
        /\ \A i \in 1..(n - k - RateLimit) : r[i] >= Second
    BY HostFacts, Zenon DEF Rated
  <1>3. Len(recent'[h]) = n + 1 /\ \A i \in 1..n : recent'[h][i] = r[i]
    <2>1. r \in Seq(0..Second) /\ 0 \in 0..Second
      BY HostFacts, Bounds
    <2>. QED
      BY <2>1 DEF Admitted
  <1>4. /\ abuse'[h].window = Windowed(abuse[h]).window
        /\ abuse'[h].handshakes = Windowed(abuse[h]).handshakes + 1
    BY HostFacts, AdmitFacts, Zenon DEF Admitted
  <1>5. k \in Nat /\ RateLimit \in Nat
    BY <1>1, Bounds
  <1>6. CASE w < Second
    <2>1. abuse'[h].window = w /\ abuse'[h].handshakes = k + 1
      BY <1>4, <1>6, HostFacts, WindowedFacts, Zenon
    <2>2. Len(recent'[h]) - abuse'[h].handshakes = n - k /\ abuse'[h].handshakes # 0
      BY <1>1, <1>3, <1>5, <2>1, Earlier, Zenon
    <2>3. /\ \A i \in 1..(n - k) : i \in 1..n
          /\ \A i \in 1..(n - k - RateLimit) : i \in 1..n
      BY <1>1, <1>5, Earlier, Zenon
    <2>. QED
      BY <1>2, <1>3, <2>1, <2>2, <2>3, Zenon DEF Rated
  <1>7. CASE w >= Second
    <2>1. abuse'[h].window = 0 /\ abuse'[h].handshakes = 1
      <3>1. Windowed(abuse[h]).window = 0 /\ Windowed(abuse[h]).handshakes = 0
        BY <1>7, HostFacts, WindowedFacts, Zenon
      <3>. QED
        BY <1>4, <3>1
    <2>2. Len(recent'[h]) - abuse'[h].handshakes = n
      BY <1>1, <1>3, <2>1
    <2>3. \A i \in 1..n : recent'[h][i] >= 0
      BY <1>1, <1>3, Bounds
    <2>4. \A i \in 1..(n - RateLimit) : recent'[h][i] >= Second
      <3>. SUFFICES ASSUME NEW i \in 1..(n - RateLimit) PROVE recent'[h][i] >= Second
        OBVIOUS
      <3>1. i \in 1..n /\ i \in 1..(n - k)
        BY <1>1, Bounds
      <3>2. r[i] >= w \/ r[i] >= Second
        BY <1>2, <3>1, Zenon
      <3>3. r[i] \in 0..Second /\ recent'[h][i] = r[i]
        BY <1>1, <1>3, <3>1, Zenon
      <3>. QED
        BY <1>1, <1>7, <3>2, <3>3, Bounds, CapBounds
    <2>5. abuse'[h].handshakes # 0
      BY <2>1
    <2>. QED
      BY <2>1, <2>2, <2>3, <2>4, <2>5, Zenon DEF Rated
  <1>. QED
    BY <1>1, <1>6, <1>7, Bounds, CapBounds

(* The clock ages the window and the handshakes alike. *)
LEMMA TickRates ==
    ASSUME IInv, Tick, NEW h \in Hosts
    PROVE  Rated(h)'
  <1>. DEFINE w == abuse[h].window
              k == abuse[h].handshakes
              r == recent[h]
              n == Len(recent[h])
  <1>1. /\ w \in 0..WindowCap /\ k \in 0..RateLimit /\ n \in Nat
        /\ \A i \in 1..n : r[i] \in 0..Second
    BY HostFacts, Zenon
  <1>2. /\ k = 0 => w = WindowCap
        /\ \A i \in 1..(n - k) : r[i] >= w \/ r[i] >= Second
        /\ \A i \in 1..(n - k - RateLimit) : r[i] >= Second
    BY HostFacts, Zenon DEF Rated
  <1>3. abuse'[h].window = Later(w, WindowCap) /\ abuse'[h].handshakes = k
    BY HostFacts, Zenon DEF Tick, Account
  <1>4. Len(recent'[h]) = n /\ \A i \in 1..n : recent'[h][i] = Later(r[i], Second)
    <2>1. recent'[h] = [i \in DOMAIN r |-> Later(r[i], Second)]
      BY Zenon DEF Tick
    <2>2. DOMAIN r = 1..n /\ n \in Nat
      BY HostFacts
    <2>. QED
      BY <2>1, <2>2
  <1>5. k = 0 => abuse'[h].window = WindowCap
    BY <1>2, <1>3, CapBounds DEF Later
  <1>6. ASSUME NEW i \in 1..(n - k)
        PROVE  recent'[h][i] >= abuse'[h].window \/ recent'[h][i] >= Second
    <2>1. i \in 1..n
      BY <1>1
    <2>2. r[i] \in 0..Second /\ recent'[h][i] = Later(r[i], Second)
      BY <1>1, <1>4, <2>1, Zenon
    <2>3. r[i] >= w \/ r[i] >= Second
      BY <1>2, Zenon
    <2>4. r[i] \in Nat /\ w \in Nat /\ r[i] <= Second /\ w <= WindowCap
      BY <1>1, <2>2, Bounds, CapBounds
    <2>5. Second \in Nat /\ WindowCap \in Nat
      BY Bounds, CapBounds, Zenon
    <2>6. Later(r[i], Second) >= Later(w, WindowCap) \/ Later(r[i], Second) >= Second
      BY <2>3, <2>4, <2>5, LaterKeeps, Zenon
    <2>. QED
      BY <1>3, <2>2, <2>6, Zenon
  <1>7. ASSUME NEW i \in 1..(n - k - RateLimit) PROVE recent'[h][i] >= Second
    <2>1. i \in 1..n
      BY <1>1, Bounds
    <2>2. r[i] \in 0..Second /\ recent'[h][i] = Later(r[i], Second) /\ r[i] >= Second
      BY <1>1, <1>2, <1>4, <2>1, Zenon
    <2>. QED
      BY <2>2, Bounds DEF Later
  <1>. QED
    BY <1>3, <1>4, <1>5, <1>6, <1>7, Zenon DEF Rated

(* Every step but the clock's keeps the rate. *)
LEMMA RateStepKeeps ==
    ASSUME IInv, RateStep
    PROVE  \A h \in Hosts : Rated(h)'
  <1>1. ASSUME NEW h \in Hosts, Kept(h) PROVE Rated(h)'
    BY <1>1, HostFacts, Zenon DEF Kept, Rated
  <1>. QED
    BY <1>1, AdmittedKeeps, Zenon DEF RateStep

-----------------------------------------------------------------------------
(* The bytes sent to a host.                                               *)

(* A queue without its i-th answer. *)
Removed(q, i) == SubSeq(q, 1, i - 1) \o SubSeq(q, i + 1, Len(q))

(* Where the j-th answer of the shorter queue was. *)
Before(i, j) == IF j < i THEN j ELSE j + 1

(* What is left in order. *)
LEMMA RemovedFacts ==
    ASSUME NEW S, NEW q \in Seq(S), NEW i \in 1..Len(q)
    PROVE  /\ Removed(q, i) \in Seq(S) /\ Len(Removed(q, i)) = Len(q) - 1
           /\ \A j \in 1..(Len(q) - 1) : Removed(q, i)[j] = q[Before(i, j)]
  <1>. DEFINE s == SubSeq(q, 1, i - 1)
              t == SubSeq(q, i + 1, Len(q))
  <1>1. s \in Seq(S) /\ Len(s) = i - 1
    OBVIOUS
  <1>2. t \in Seq(S) /\ Len(t) = Len(q) - i
    OBVIOUS
  <1>3. \A j \in 1..(i - 1) : s[j] = q[j]
    OBVIOUS
  <1>4. \A j \in 1..(Len(q) - i) : t[j] = q[j + i]
    OBVIOUS
  <1>5. Removed(q, i) = s \o t /\ Len(q) \in Nat
    BY Zenon, SequenceFacts DEF Removed
  <1>. HIDE DEF s, t
  <1>6. s \o t \in Seq(S) /\ Len(s \o t) = Len(s) + Len(t)
    BY <1>1, <1>2
  <1>7. Len(s \o t) = Len(q) - 1
    BY <1>1, <1>2, <1>5, <1>6
  <1>8. ASSUME NEW j \in 1..(Len(q) - 1) PROVE (s \o t)[j] = q[Before(i, j)]
    <2>1. CASE j < i
      <3>1. j \in 1..Len(s) /\ j \in 1..(i - 1) /\ Before(i, j) = j
        BY <1>1, <2>1 DEF Before
      <3>2. (s \o t)[j] = s[j]
        BY <1>1, <1>2, <3>1
      <3>. QED
        BY <1>3, <3>1, <3>2, Zenon
    <2>2. CASE ~(j < i)
      <3>1. /\ j - (i - 1) \in 1..(Len(q) - i) /\ Before(i, j) = j + 1
            /\ j - (i - 1) + i = j + 1 /\ j \in (Len(s) + 1)..(Len(s) + Len(t))
        BY <1>1, <1>2, <1>5, <2>2 DEF Before
      <3>2. (s \o t)[j] = t[j - Len(s)]
        BY <1>1, <1>2, <3>1
      <3>. QED
        BY <1>1, <1>4, <3>1, <3>2, Zenon
    <2>. QED
      BY <2>1, <2>2, Zenon
  <1>. QED
    BY <1>5, <1>6, <1>7, <1>8, Zenon

(* The answers that wait are finitely many, no more than the queue has,    *)
(* and each has its length. *)
LEMMA WaitingFacts ==
    ASSUME NEW q \in Seq(Reply), NEW h
    PROVE  /\ IsFiniteSet(Waiting(q, h)) /\ Cardinality(Waiting(q, h)) \in Nat
           /\ Cardinality(Waiting(q, h)) <= Len(q)
           /\ Waiting(q, h) = {} <=> Cardinality(Waiting(q, h)) = 0
           /\ \A i \in Waiting(q, h) : q[i].len \in Nat /\ q[i].len <= LongestReply
  <1>1. Len(q) \in Nat /\ DOMAIN q = 1..Len(q) /\ \A i \in 1..Len(q) : q[i] \in Reply
    BY SequenceFacts, Zenon
  <1>2. IsFiniteSet(1..Len(q)) /\ Cardinality(1..Len(q)) = Len(q)
    <2>1. 1 \in Int /\ Len(q) \in Int
      BY <1>1
    <2>2. /\ IsFiniteSet(1..Len(q))
          /\ Cardinality(1..Len(q)) = IF 1 > Len(q) THEN 0 ELSE Len(q) - 1 + 1
      BY <2>1, FS_Interval, Zenon
    <2>. QED
      BY <1>1, <2>2
  <1>3. Waiting(q, h) \in SUBSET (1..Len(q))
    BY <1>1, Zenon DEF Waiting
  <1>4. /\ IsFiniteSet(Waiting(q, h)) /\ Cardinality(Waiting(q, h)) <= Len(q)
    BY <1>2, <1>3, FS_Subset, Zenon
  <1>5. Cardinality(Waiting(q, h)) \in Nat
    BY <1>4, FS_CardinalityType, Zenon
  <1>6. Waiting(q, h) = {} <=> Cardinality(Waiting(q, h)) = 0
    BY <1>4, FS_EmptySet, Zenon
  <1>7. \A i \in Waiting(q, h) : q[i].len \in ReplyLens
    BY <1>1, <1>3, Zenon DEF Reply
  <1>8. \A i \in Waiting(q, h) : q[i].len \in Nat /\ q[i].len <= LongestReply
    BY <1>7, LongestBounds, Zenon
  <1>. QED
    BY <1>4, <1>5, <1>6, <1>8, Zenon

(* One answer less waits, or none if it was another host's. *)
LEMMA WaitingRemoved ==
    ASSUME NEW q \in Seq(Reply), NEW h, NEW i \in 1..Len(q)
    PROVE  Cardinality(Waiting(Removed(q, i), h)) = Cardinality(Waiting(q, h) \ {i})
  <1>. DEFINE r == Removed(q, i)
              A == Waiting(r, h)
              B == Waiting(q, h) \ {i}
              f == [j \in A |-> Before(i, j)]
  <1>1. /\ r \in Seq(Reply) /\ Len(r) = Len(q) - 1 /\ Len(q) \in Nat
        /\ DOMAIN r = 1..(Len(q) - 1) /\ DOMAIN q = 1..Len(q)
        /\ \A j \in 1..(Len(q) - 1) : r[j] = q[Before(i, j)]
    <2>1. /\ r \in Seq(Reply) /\ Len(r) = Len(q) - 1
          /\ \A j \in 1..(Len(q) - 1) : r[j] = q[Before(i, j)]
      BY RemovedFacts, Zenon
    <2>2. Len(q) \in Nat /\ DOMAIN q = 1..Len(q)
      BY SequenceFacts, Zenon
    <2>3. DOMAIN r = 1..Len(r)
      BY <2>1, SequenceFacts, Zenon
    <2>. QED
      BY <2>1, <2>2, <2>3, Zenon
  <1>. HIDE DEF r
  <1>2. \A j \in 1..(Len(q) - 1) : Before(i, j) \in (1..Len(q)) \ {i}
    BY <1>1 DEF Before
  <1>3. \A k \in (1..Len(q)) \ {i} : \E j \in 1..(Len(q) - 1) : Before(i, j) = k
    <2>. TAKE k \in (1..Len(q)) \ {i}
    <2>1. CASE k < i
      <3>1. k \in 1..(Len(q) - 1) /\ Before(i, k) = k
        BY <1>1, <2>1 DEF Before
      <3>. QED
        BY <3>1, Zenon
    <2>2. CASE ~(k < i)
      <3>1. k - 1 \in 1..(Len(q) - 1) /\ Before(i, k - 1) = k
        BY <1>1, <2>2 DEF Before
      <3>. QED
        BY <3>1, Zenon
    <2>. QED
      BY <2>1, <2>2, Zenon
  <1>4. \A j, k \in 1..(Len(q) - 1) : Before(i, j) = Before(i, k) => j = k
    BY <1>1 DEF Before
  <1>5. \A j \in A : j \in 1..(Len(q) - 1) /\ Before(i, j) \in B
    BY <1>1, <1>2, Zenon DEF Waiting
  <1>6. \A k \in B : \E j \in A : Before(i, j) = k
    BY <1>1, <1>3, Zenon DEF Waiting
  <1>7. f \in Bijection(A, B)
    <2>1. f \in [A -> B] /\ \A j \in A : f[j] = Before(i, j)
      BY <1>5, Zenon
    <2>2. \A j, k \in A : f[j] = f[k] => j = k
      BY <1>4, <1>5, <2>1, Zenon
    <2>3. \A k \in B : \E j \in A : f[j] = k
      BY <1>6, <2>1, Zenon
    <2>. HIDE DEF f, A, B
    <2>. QED
      BY <2>1, <2>2, <2>3, Zenon DEF Bijection, Injection, Surjection, IsInjective
  <1>8. IsFiniteSet(A)
    BY <1>1, WaitingFacts, Zenon
  <1>9. Cardinality(B) = Cardinality(A)
    BY <1>7, <1>8, FS_Bijection, Zenon DEF ExistsBijection
  <1>. QED
    BY <1>9, Zenon DEF r

(* Every other answer still waits. *)
LEMMA WaitingStays ==
    ASSUME NEW q \in Seq(Reply), NEW i \in 1..Len(q), NEW h, NEW k \in Waiting(q, h), k # i
    PROVE  \E j \in Waiting(Removed(q, i), h) : Removed(q, i)[j] = q[k]
  <1>1. k \in 1..Len(q) /\ q[k].host = h /\ Len(q) \in Nat
    BY SequenceFacts, Zenon DEF Waiting
  <1>2. PICK j \in 1..(Len(q) - 1) : Before(i, j) = k
    <2>1. CASE k < i
      <3>1. k \in 1..(Len(q) - 1) /\ Before(i, k) = k
        BY <1>1, <2>1 DEF Before
      <3>. QED
        BY <3>1, Zenon
    <2>2. CASE ~(k < i)
      <3>1. k - 1 \in 1..(Len(q) - 1) /\ Before(i, k - 1) = k
        BY <1>1, <2>2 DEF Before
      <3>. QED
        BY <3>1, Zenon
    <2>. QED
      BY <2>1, <2>2, Zenon
  <1>3. /\ Removed(q, i) \in Seq(Reply) /\ Len(Removed(q, i)) = Len(q) - 1
        /\ Removed(q, i)[j] = q[k]
    BY <1>2, RemovedFacts, Zenon
  <1>4. DOMAIN Removed(q, i) = 1..(Len(q) - 1)
    BY <1>3, SequenceFacts, Zenon
  <1>. QED
    BY <1>1, <1>3, <1>4, Zenon DEF Waiting

(* Counting in longest answers. *)
LEMMA Multiples ==
    ASSUME NEW n \in Nat
    PROVE  /\ n * LongestReply \in Nat
           /\ (n + 1) * LongestReply = n * LongestReply + LongestReply
           /\ n >= 1 => (n - 1) * LongestReply = n * LongestReply - LongestReply
           /\ n >= 1 => n * LongestReply >= LongestReply
           /\ \A m \in Nat : n <= m => n * LongestReply <= m * LongestReply
  <1>. DEFINE l == LongestReply
  <1>1. l \in Nat
    BY LongestBounds
  <1>. HIDE DEF l
  <1>2. n * l \in Nat /\ (n + 1) * l = n * l + l /\ (n - 1) * l = n * l - l
    BY <1>1
  <1>3. n >= 1 => n * l >= l
    BY <1>1, <1>2
  <1>4. \A m \in Nat : n <= m => n * l <= m * l
    <2>. TAKE m \in Nat
    <2>1. n <= m => (m - n) * l >= 0 /\ (m - n) * l = m * l - n * l /\ m * l \in Nat
      BY <1>1
    <2>. QED
      BY <1>2, <2>1
  <1>. QED
    BY <1>2, <1>3, <1>4, Zenon DEF l

(* The allowance is a number that grows with the bytes received.           *)
LEMMA AllowanceGrows ==
    ASSUME NEW p \in Counts, NEW x \in Counts, p.received <= x.received
    PROVE  /\ Allowance(p) \in Nat /\ Allowance(x) \in Nat
           /\ Allowance(p) <= Allowance(x) /\ Spare <= Allowance(p)
           /\ p.received * Factor + Slack <= Allowance(p)
           /\ p.received * Factor + Slack \in Nat
  <1>. DEFINE a == p.received
              b == x.received
              f == Factor
  <1>1. a \in Nat /\ b \in Nat /\ a <= b /\ f \in Nat
    BY Bounds DEF Counts
  <1>. HIDE DEF a, b, f
  <1>2. a * f \in Nat /\ b * f \in Nat /\ (b - a) * f \in Nat /\ (b - a) * f = b * f - a * f
    BY <1>1
  <1>3. a * f <= b * f
    BY <1>2
  <1>4. Allowance(p) = a * f + Spare /\ Allowance(x) = b * f + Spare
    BY DEF Allowance, a, b, f
  <1>5. a * f + Spare \in Nat /\ b * f + Spare \in Nat /\ a * f + Slack \in Nat
        /\ a * f + Spare <= b * f + Spare /\ Spare <= a * f + Spare
        /\ a * f + Slack <= a * f + Spare
    BY <1>2, <1>3, LongestBounds, Bounds
  <1>. QED
    BY <1>4, <1>5, Zenon DEF a, f

(* Bytes received only raise the allowance. *)
LEMMA HeardOwed ==
    ASSUME NEW q \in Seq(Reply), NEW h, NEW p \in Counts, NEW x \in Counts,
           Owed(p, q, h), x.sent = p.sent, p.received <= x.received
    PROVE  Owed(x, q, h)
  <1>. DEFINE n == Cardinality(Waiting(q, h))
              M == LongestReply
  <1>1. /\ Allowance(p) \in Nat /\ Allowance(x) \in Nat /\ Allowance(p) <= Allowance(x)
        /\ p.sent \in Nat
    BY AllowanceGrows, Zenon DEF Counts
  <1>2. n * M \in Nat /\ MaxPending * M \in Nat /\ (MaxPending - 1) * M \in Int
    <2>1. n \in Nat /\ MaxPending \in Nat /\ MaxPending - 1 \in Nat
      BY WaitingFacts, Bounds
    <2>2. n * M \in Nat /\ MaxPending * M \in Nat /\ (MaxPending - 1) * M \in Nat
      BY <2>1, Multiples, Zenon
    <2>. QED
      BY <2>2
  <1>3. \A i \in Waiting(q, h) : q[i].len \in Nat
    BY WaitingFacts, Zenon
  <1>4. CASE p.sent + n * M <= Allowance(p) + (MaxPending - 1) * M
    <2>1. x.sent + n * M <= Allowance(x) + (MaxPending - 1) * M
      BY <1>1, <1>2, <1>4
    <2>. QED
      BY <2>1, Zenon DEF Owed
  <1>5. ASSUME NEW i \in Waiting(q, h),
               p.sent + q[i].len + n * M <= Allowance(p) + MaxPending * M
        PROVE  Owed(x, q, h)
    <2>1. q[i].len \in Nat
      BY <1>3, Zenon
    <2>2. x.sent + q[i].len + n * M <= Allowance(x) + MaxPending * M
      BY <1>1, <1>2, <1>5, <2>1
    <2>. QED
      BY <2>2, Zenon DEF Owed
  <1>. QED
    BY <1>4, <1>5, Zenon DEF Owed

(* A host that was forgotten may have a whole queue of answers left. *)
LEMMA ForgottenOwed ==
    ASSUME NEW q \in Seq(Reply), NEW h, NEW x \in Counts, x.sent = 0, Len(q) <= MaxPending
    PROVE  Owed(x, q, h)
  <1>. DEFINE n == Cardinality(Waiting(q, h))
              M == LongestReply
  <1>1. n \in Nat /\ n <= MaxPending /\ MaxPending \in Nat /\ MaxPending >= 1
    <2>1. n \in Nat /\ n <= Len(q) /\ Len(q) \in Nat
      BY WaitingFacts, SequenceFacts, Zenon
    <2>. HIDE DEF n
    <2>. QED
      BY <2>1, Bounds
  <1>2. Allowance(x) \in Nat /\ M <= Allowance(x) /\ M \in Nat
    <2>1. x.received <= x.received
      BY DEF Counts
    <2>2. Allowance(x) \in Nat /\ Spare <= Allowance(x)
      BY <2>1, AllowanceGrows, Zenon
    <2>. QED
      BY <2>2, LongestBounds
  <1>3. /\ n * M \in Nat /\ MaxPending * M \in Nat /\ n * M <= MaxPending * M
        /\ (MaxPending - 1) * M = MaxPending * M - M
    BY <1>1, Multiples, Zenon
  <1>4. CASE n < MaxPending
    <2>1. n + 1 \in Nat /\ n + 1 <= MaxPending
      BY <1>1, <1>4
    <2>2. (n + 1) * M <= MaxPending * M /\ (n + 1) * M = n * M + M
      BY <1>1, <2>1, Multiples, Zenon
    <2>3. x.sent + n * M <= Allowance(x) + (MaxPending - 1) * M
      BY <1>2, <1>3, <2>2
    <2>. QED
      BY <2>3, Zenon DEF Owed
  <1>5. CASE n = MaxPending
    <2>1. PICK i \in Waiting(q, h) : TRUE
      <3>1. n # 0
        BY <1>1, <1>5
      <3>. QED
        BY <3>1, WaitingFacts, Zenon
    <2>2. q[i].len \in Nat /\ q[i].len <= M
      BY WaitingFacts, Zenon
    <2>3. x.sent + q[i].len + n * M <= Allowance(x) + MaxPending * M
      BY <1>2, <1>3, <2>2
    <2>. QED
      BY <2>3, Zenon DEF Owed
  <1>. QED
    BY <1>1, <1>4, <1>5

(* The length of an answer. *)
LEMMA ReplyFacts ==
    ASSUME NEW reply \in Reply
    PROVE  reply.len \in Nat /\ reply.len <= LongestReply
  <1>1. reply.len \in ReplyLens
    BY Zenon DEF Reply
  <1>. QED
    BY <1>1, LongestBounds, Zenon

(* The counts of a host. *)
LEMMA CountFacts ==
    ASSUME NEW p \in Counts
    PROVE  /\ p.sent \in Nat /\ p.received \in Nat /\ Allowance(p) \in Nat
           /\ p.received * Factor + Slack <= Allowance(p)
           /\ p.received * Factor + Slack \in Nat
  <1>1. p.sent \in Nat /\ p.received \in Nat
    BY Zenon DEF Counts
  <1>2. p.received <= p.received
    BY <1>1
  <1>. QED
    BY <1>1, <1>2, AllowanceGrows, Zenon

(* queue_packet: an answer to h passed can_amplify_to, and one to another  *)
(* host changes nothing for h.                                             *)
LEMMA QueuedOwed ==
    ASSUME NEW q \in Seq(Reply), NEW h, NEW p \in Counts, NEW reply \in Reply,
           Len(q) < MaxPending, Owed(p, q, h),
           reply.host = h => MayAmplify(p, reply.len)
    PROVE  /\ Append(q, reply) \in Seq(Reply) /\ Len(Append(q, reply)) <= MaxPending
           /\ Owed(p, Append(q, reply), h)
  <1>. DEFINE z == Append(q, reply)
              M == LongestReply
  <1>1. /\ z \in Seq(Reply) /\ Len(z) = Len(q) + 1 /\ Len(q) \in Nat
        /\ z[Len(q) + 1] = reply /\ \A i \in 1..Len(q) : z[i] = q[i]
    OBVIOUS
  <1>2. Len(z) <= MaxPending
    BY <1>1, Bounds
  <1>3. DOMAIN q = 1..Len(q) /\ DOMAIN z = 1..(Len(q) + 1)
    BY <1>1, SequenceFacts, Zenon
  <1>4. \A i : i \in 1..(Len(q) + 1) <=> i \in 1..Len(q) \/ i = Len(q) + 1
    BY <1>1
  <1>. HIDE DEF z
  <1>5. CASE reply.host # h
    <2>1. Waiting(z, h) = Waiting(q, h) /\ \A i \in Waiting(q, h) : z[i] = q[i]
      BY <1>1, <1>3, <1>4, <1>5, Zenon DEF Waiting
    <2>. QED
      BY <1>1, <1>2, <2>1, Zenon DEF Owed, z
  <1>6. CASE reply.host = h
    <2>1. Len(q) + 1 \in Waiting(z, h)
      BY <1>1, <1>3, <1>4, <1>6, Zenon DEF Waiting
    <2>. DEFINE n == Cardinality(Waiting(z, h))
    <2>2. n \in Nat /\ n <= MaxPending /\ MaxPending \in Nat
      <3>1. n \in Nat /\ n <= Len(z) /\ Len(z) \in Nat
        BY <1>1, WaitingFacts, SequenceFacts, Zenon
      <3>. HIDE DEF n
      <3>. QED
        BY <1>2, <3>1, Bounds
    <2>3. n * M \in Nat /\ MaxPending * M \in Nat /\ n * M <= MaxPending * M
      BY <2>2, Multiples, Zenon
    <2>4. p.sent + reply.len <= Allowance(p) /\ Allowance(p) \in Nat
      <3>1. p.sent \in Nat /\ reply.len \in Nat
        BY CountFacts, ReplyFacts, Zenon
      <3>2. /\ Allowance(p) \in Nat /\ p.received * Factor + Slack <= Allowance(p)
            /\ p.received * Factor + Slack \in Nat
        BY CountFacts, Zenon
      <3>3. p.sent + reply.len <= p.received * Factor + Slack
        BY <1>6, Zenon DEF MayAmplify
      <3>. QED
        BY <3>1, <3>2, <3>3
    <2>5. p.sent + reply.len \in Nat
      <3>1. p.sent \in Nat /\ reply.len \in Nat
        BY CountFacts, ReplyFacts, Zenon
      <3>. QED
        BY <3>1
    <2>6. p.sent + reply.len + n * M <= Allowance(p) + MaxPending * M
      BY <2>3, <2>4, <2>5
    <2>7. p.sent + z[Len(q) + 1].len + n * M <= Allowance(p) + MaxPending * M
      BY <1>1, <2>6, Zenon
    <2>. QED
      BY <1>1, <1>2, <2>1, <2>7, Zenon DEF Owed, z
  <1>. QED
    BY <1>5, <1>6, Zenon

(* flush_pending: the answer leaves the queue, and is counted or not. *)
LEMMA FlushedOwed ==
    ASSUME NEW q \in Seq(Reply), NEW h, NEW p \in Counts, NEW x \in Counts,
           NEW i \in 1..Len(q), Owed(p, q, h), x.received = p.received,
           x.sent = p.sent \/ (q[i].host = h /\ x.sent = p.sent + q[i].len)
    PROVE  Owed(x, Removed(q, i), h)
  <1>. DEFINE z == Removed(q, i)
              M == LongestReply
              n == Cardinality(Waiting(q, h))
              m == Cardinality(Waiting(z, h))
  <1>1. /\ IsFiniteSet(Waiting(q, h)) /\ n \in Nat
        /\ \A k \in Waiting(q, h) : q[k].len \in Nat /\ q[k].len <= M
    BY WaitingFacts, Zenon
  <1>2. m = Cardinality(Waiting(q, h) \ {i})
    BY WaitingRemoved
  <1>3. m = IF i \in Waiting(q, h) THEN n - 1 ELSE n
    BY <1>1, <1>2, FS_RemoveElement, Zenon
  <1>4. i \in Waiting(q, h) <=> q[i].host = h
    <2>1. DOMAIN q = 1..Len(q)
      BY SequenceFacts, Zenon
    <2>. QED
      BY <2>1, Zenon DEF Waiting
  <1>5. ASSUME NEW k \in Waiting(q, h), k # i
        PROVE  \E j \in Waiting(z, h) : z[j] = q[k]
    BY <1>5, WaitingStays, SMTT(30)
  <1>6. /\ Allowance(p) \in Nat /\ Allowance(x) = Allowance(p)
        /\ p.sent \in Nat /\ x.sent \in Nat
    BY CountFacts, Zenon DEF Allowance
  <1>7. /\ n * M \in Nat /\ (n # 0 => (n - 1) * M = n * M - M)
        /\ MaxPending * M \in Nat /\ (MaxPending - 1) * M = MaxPending * M - M
        /\ M \in Nat
    <2>1. MaxPending \in Nat /\ MaxPending >= 1 /\ (n # 0 => n >= 1)
      BY <1>1, Bounds
    <2>. QED
      BY <1>1, <2>1, Multiples, LongestBounds, Zenon
  <1>8. CASE q[i].host # h
    <2>1. m = n /\ x.sent = p.sent
      BY <1>3, <1>4, <1>8, Zenon
    <2>2. \A k \in Waiting(q, h) : k # i
      BY <1>4, <1>8, Zenon
    <2>. QED
      BY <1>5, <1>6, <2>1, <2>2, Zenon DEF Owed
  <1>9. CASE q[i].host = h
    <2>1. i \in Waiting(q, h) /\ m = n - 1 /\ q[i].len \in Nat /\ q[i].len <= M
      BY <1>1, <1>3, <1>4, <1>9, Zenon
    <2>2. m * M = n * M - M
      <3>1. n # 0
        BY <2>1, WaitingFacts, Zenon
      <3>. QED
        BY <1>7, <2>1, <3>1, Zenon
    <2>3. x.sent <= p.sent + q[i].len
      BY <1>6, <2>1
    <2>. DEFINE nM == n * M
                mM == m * M
                fullM == MaxPending * M
                lessM == (MaxPending - 1) * M
                old == p.sent
                new == x.sent
                len == q[i].len
                allowed == Allowance(p)
    <2>4. /\ nM \in Nat /\ mM = nM - M /\ fullM \in Nat /\ lessM = fullM - M
          /\ M \in Nat /\ len \in Nat /\ len <= M
      BY <1>7, <2>1, <2>2, Zenon
    <2>5. /\ allowed \in Nat /\ Allowance(x) = allowed
          /\ old \in Nat /\ new \in Nat /\ new <= old + len
      BY <1>6, <2>3, Zenon
    <2>. HIDE DEF nM, mM, fullM, lessM, M, old, new, len, allowed
    <2>6. CASE old + nM <= allowed + lessM
      <3>1. new + mM <= allowed + lessM
        BY <2>4, <2>5, <2>6
      <3>. QED
        BY <2>5, <3>1, Zenon DEF Owed, mM, lessM, M, new
    <2>7. ASSUME NEW k \in Waiting(q, h),
                 old + q[k].len + nM <= allowed + fullM
          PROVE  Owed(x, z, h)
      <3>1. q[k].len \in Nat
        BY <1>1, Zenon
      <3>2. CASE k = i
        <4>1. old + len + nM <= allowed + fullM
          BY <2>7, <3>2, Zenon DEF len
        <4>2. new + mM <= allowed + lessM
          BY <2>4, <2>5, <4>1
        <4>. QED
          BY <2>5, <4>2, Zenon DEF Owed, mM, lessM, M, new
      <3>3. CASE k # i
        <4>1. PICK j \in Waiting(z, h) : z[j] = q[k]
          BY <1>5, <3>3, Zenon
        <4>. DEFINE kept == q[k].len
        <4>2. kept \in Nat /\ old + kept + nM <= allowed + fullM
          BY <2>7, <3>1, Zenon
        <4>. HIDE DEF kept
        <4>3. new + kept + mM <= allowed + fullM
          BY <2>4, <2>5, <4>2
        <4>4. x.sent + z[j].len + m * M <= Allowance(x) + MaxPending * M
          BY <2>5, <4>1, <4>3, Zenon DEF mM, fullM, kept, new
        <4>. QED
          BY <4>4, Zenon DEF Owed, M
      <3>. QED
        BY <3>2, <3>3, Zenon
    <2>. QED
      BY <2>6, <2>7, Zenon DEF Owed, nM, fullM, lessM, M, old, allowed
  <1>. QED
    BY <1>8, <1>9, Zenon

(* What is owed bounds what was sent. *)
LEMMA OwedBounds ==
    ASSUME NEW q \in Seq(Reply), NEW h, NEW p \in Counts, Owed(p, q, h)
    PROVE  p.sent <= Allowance(p) + (MaxPending - 1) * LongestReply
  <1>. DEFINE n == Cardinality(Waiting(q, h))
              M == LongestReply
  <1>1. /\ n \in Nat /\ (Waiting(q, h) = {} <=> n = 0)
        /\ \A i \in Waiting(q, h) : q[i].len \in Nat
    BY WaitingFacts, Zenon
  <1>2. Allowance(p) \in Nat /\ p.sent \in Nat
    BY CountFacts, Zenon
  <1>3. /\ n * M \in Nat /\ (n >= 1 => n * M >= M) /\ MaxPending * M \in Nat
        /\ (MaxPending - 1) * M = MaxPending * M - M /\ M \in Nat
    <2>1. MaxPending \in Nat /\ MaxPending >= 1
      BY Bounds
    <2>. QED
      BY <1>1, <2>1, Multiples, LongestBounds, Zenon
  <1>. DEFINE nM == n * M
              fullM == MaxPending * M
              lessM == (MaxPending - 1) * M
  <1>4. nM \in Nat /\ (n >= 1 => nM >= M) /\ fullM \in Nat /\ lessM = fullM - M /\ M \in Nat
    BY <1>3, Zenon
  <1>. HIDE DEF n, nM, fullM, lessM, M
  <1>5. CASE p.sent + nM <= Allowance(p) + lessM
    <2>1. p.sent <= Allowance(p) + lessM
      BY <1>2, <1>5, <1>4
    <2>. QED
      BY <2>1, Zenon DEF lessM, M
  <1>6. ASSUME NEW i \in Waiting(q, h),
               p.sent + q[i].len + nM <= Allowance(p) + fullM
        PROVE  p.sent <= Allowance(p) + (MaxPending - 1) * LongestReply
    <2>1. n \in Nat /\ n # 0 /\ q[i].len \in Nat
      BY <1>1, Zenon
    <2>2. p.sent <= Allowance(p) + lessM
      BY <1>2, <1>6, <1>4, <2>1
    <2>. QED
      BY <2>2, Zenon DEF lessM, M
  <1>. QED
    BY <1>5, <1>6, Zenon DEF Owed, n, nM, fullM, lessM, M

-----------------------------------------------------------------------------
(* What a step does to all the hosts.                                      *)

SetsStay ==
    /\ tracked' \subseteq Hosts /\ counted' \subseteq Hosts /\ handshaking' \subseteq Hosts
    /\ received' \in 0..MaxReceived

CountStep ==
    /\ preauth' \in [Hosts -> Counts] /\ queue' \in Seq(Reply) /\ Len(queue') <= MaxPending
    /\ \A h \in Hosts : Owed(preauth'[h], queue', h)

(* Counts of bytes, some more received and none sent. *)
Grown(x) ==
    /\ x \in [Hosts -> Counts]
    /\ \A h \in Hosts : x[h].sent = preauth[h].sent /\ preauth[h].received <= x[h].received

(* The three together keep the invariant. *)
LEMMA StepsKeep ==
    ASSUME IInv, RateStep, CountStep, SetsStay
    PROVE  IInv'
  <1>1. TypeOK'
    BY Zenon DEF RateStep, CountStep, SetsStay, TypeOK, Account, Counts
  <1>. QED
    BY <1>1, RateStepKeeps, Zenon DEF IInv, CountStep

(* The accounts of the hosts are not touched. *)
LEMMA SameRates ==
    ASSUME IInv, UNCHANGED <<abuse, recent>>
    PROVE  RateStep
  BY Types, Zenon DEF RateStep, Kept

(* note_invalid_packet for one of them. *)
LEMMA PenalizedRates ==
    ASSUME IInv, NEW h \in Hosts, abuse' = [abuse EXCEPT ![h] = Penalized(abuse[h])],
           UNCHANGED recent
    PROVE  RateStep
  <1>1. abuse \in [Hosts -> Account] /\ recent \in [Hosts -> Seq(0..Second)]
    BY Types, Zenon
  <1>2. /\ Penalized(abuse[h]) \in Account
        /\ Penalized(abuse[h]).window = abuse[h].window
        /\ Penalized(abuse[h]).handshakes = abuse[h].handshakes
        /\ Banned(h) => Penalized(abuse[h]).ban = abuse[h].ban
    BY <1>1, PenalizedFacts, Zenon DEF Banned
  <1>3. ASSUME NEW g \in Hosts PROVE Kept(g)
    <2>1. CASE g = h
      BY <1>1, <1>2, <2>1, Zenon DEF Kept
    <2>2. CASE g # h
      BY <1>1, <2>2, Zenon DEF Kept
    <2>. QED
      BY <2>1, <2>2, Zenon
  <1>. QED
    BY <1>1, <1>2, <1>3, Zenon DEF RateStep

(* The bytes of a packet are added. *)
LEMMA HeardFacts ==
    ASSUME IInv, NEW h \in Hosts
    PROVE  /\ preauth \in [Hosts -> Counts] /\ preauth[h] \in Counts
           /\ Heard(h) \in Counts /\ Heard(h).sent = preauth[h].sent
           /\ preauth[h].received <= Heard(h).received
           /\ [preauth[h] EXCEPT !.idle = 0] \in Counts
           /\ [preauth[h] EXCEPT !.idle = 0].sent = preauth[h].sent
           /\ [preauth[h] EXCEPT !.idle = 0].received = preauth[h].received
           /\ preauth[h].received <= preauth[h].received
  <1>1. preauth \in [Hosts -> Counts] /\ preauth[h] \in Counts
    BY Types, Zenon
  <1>2. preauth[h].received \in Nat /\ 0 \in 0..(IdleTimeout + 1)
    BY <1>1, Bounds DEF Counts
  <1>3. /\ preauth[h].received + RequestLen \in Nat
        /\ preauth[h].received <= preauth[h].received + RequestLen
        /\ preauth[h].received <= preauth[h].received
    BY <1>2, Bounds
  <1>4. /\ Heard(h) \in Counts /\ Heard(h).sent = preauth[h].sent
        /\ Heard(h).received = preauth[h].received + RequestLen
    BY <1>1, <1>2, <1>3, Zenon DEF Heard, Counts
  <1>5. /\ [preauth[h] EXCEPT !.idle = 0] \in Counts
        /\ [preauth[h] EXCEPT !.idle = 0].sent = preauth[h].sent
        /\ [preauth[h] EXCEPT !.idle = 0].received = preauth[h].received
    BY <1>1, <1>2, Zenon DEF Counts
  <1>. QED
    BY <1>1, <1>3, <1>4, <1>5, Zenon

(* One host's counts grow. *)
LEMMA OneGrown ==
    ASSUME IInv, NEW h \in Hosts, NEW p \in Counts, p.sent = preauth[h].sent,
           preauth[h].received <= p.received
    PROVE  Grown([preauth EXCEPT ![h] = p])
  <1>. DEFINE x == [preauth EXCEPT ![h] = p]
  <1>1. /\ preauth \in [Hosts -> Counts]
        /\ \A g \in Hosts : preauth[g].received <= preauth[g].received
    BY HeardFacts, Zenon
  <1>2. x \in [Hosts -> Counts] /\ x[h] = p /\ \A g \in Hosts : g # h => x[g] = preauth[g]
    BY <1>1, Zenon
  <1>. QED
    BY <1>1, <1>2, Zenon DEF Grown

(* Nobody is owed more for it. *)
LEMMA GrownOwed ==
    ASSUME IInv, NEW x, Grown(x)
    PROVE  \A h \in Hosts : Owed(x[h], queue, h)
  <1>. TAKE h \in Hosts
  <1>1. /\ x[h] \in Counts /\ preauth[h] \in Counts /\ queue \in Seq(Reply)
        /\ Owed(preauth[h], queue, h)
    BY Types, Zenon DEF Grown
  <1>2. x[h].sent = preauth[h].sent /\ preauth[h].received <= x[h].received
    BY Zenon DEF Grown
  <1>. QED
    BY <1>1, <1>2, HeardOwed, Zenon

(* An answer to g, checked against the bytes that are counted for it.      *)
LEMMA AnswerOwed ==
    ASSUME IInv, NEW g \in Hosts, NEW p \in Counts, NEW len \in ReplyLens,
           NEW owned \in BOOLEAN, Answer(g, p, len, owned),
           preauth' \in [Hosts -> Counts], \A h \in Hosts : Owed(preauth'[h], queue, h),
           preauth'[g].sent = p.sent, preauth'[g].received = p.received
    PROVE  CountStep
  <1>1. queue \in Seq(Reply) /\ Len(queue) <= MaxPending
    BY Types, Zenon
  <1>2. CASE UNCHANGED queue
    BY <1>1, <1>2, Zenon DEF CountStep
  <1>3. CASE /\ MayAmplify(p, len) /\ Len(queue) < MaxPending
             /\ queue' = Append(queue, [host |-> g, len |-> len, owned |-> owned])
    <2>. DEFINE reply == [host |-> g, len |-> len, owned |-> owned]
    <2>1. reply \in Reply /\ reply.host = g /\ reply.len = len
      BY Zenon DEF Reply
    <2>2. MayAmplify(preauth'[g], len)
      BY <1>3, Zenon DEF MayAmplify
    <2>. HIDE DEF reply
    <2>3. queue' = Append(queue, reply)
      BY <1>3, Zenon DEF reply
    <2>4. ASSUME NEW h \in Hosts
          PROVE  /\ queue' \in Seq(Reply) /\ Len(queue') <= MaxPending
                 /\ Owed(preauth'[h], queue', h)
      <3>1. preauth'[h] \in Counts /\ Owed(preauth'[h], queue, h) /\ Len(queue) < MaxPending
        BY <1>3, Zenon
      <3>2. reply.host = h => MayAmplify(preauth'[h], reply.len)
        BY <2>1, <2>2, Zenon
      <3>3. /\ Append(queue, reply) \in Seq(Reply) /\ Len(Append(queue, reply)) <= MaxPending
            /\ Owed(preauth'[h], Append(queue, reply), h)
        BY <1>1, <2>1, <3>1, <3>2, QueuedOwed
      <3>. QED
        BY <2>3, <3>3, Zenon
    <2>. QED
      BY <2>4, Zenon DEF CountStep
  <1>. QED
    BY <1>2, <1>3, Zenon DEF Answer

(* Counts that grow while the queue stays. *)
LEMMA GrownCounts ==
    ASSUME IInv, Grown(preauth'), UNCHANGED queue
    PROVE  CountStep
  BY GrownOwed, Types, Zenon DEF CountStep, Grown

(* Counts that grow, and an answer that was checked against them.          *)
LEMMA GrownAnswered ==
    ASSUME IInv, Grown(preauth'), NEW g \in Hosts, NEW p \in Counts, NEW len \in ReplyLens,
           NEW owned \in BOOLEAN, Answer(g, p, len, owned),
           preauth'[g].sent = p.sent, preauth'[g].received = p.received
    PROVE  CountStep
  <1>1. preauth' \in [Hosts -> Counts] /\ \A h \in Hosts : Owed(preauth'[h], queue, h)
    BY GrownOwed, Zenon DEF Grown
  <1>. QED
    BY <1>1, AnswerOwed, Zenon

(* A packet is counted. *)
LEMMA ReceivedMore ==
    ASSUME IInv, received < MaxReceived, received' = received + 1
    PROVE  received' \in 0..MaxReceived
  <1>1. received \in 0..MaxReceived
    BY Types, Zenon
  <1>. QED
    BY <1>1, Bounds

(* note_preauth_receive *)
LEMMA ReceiveGrows ==
    ASSUME IInv, NEW h \in Hosts, Receive(h)
    PROVE  /\ Grown(preauth') /\ preauth'[h] = Heard(h)
           /\ counted' \subseteq Hosts /\ received' \in 0..MaxReceived
  <1>1. Grown(preauth')
    BY HeardFacts, OneGrown, Zenon DEF Receive
  <1>2. preauth'[h] = Heard(h)
    BY HeardFacts, Zenon DEF Receive
  <1>3. counted' \subseteq Hosts
    BY Types, Zenon DEF Receive
  <1>4. received' \in 0..MaxReceived
    BY ReceivedMore, Zenon DEF Receive
  <1>. QED
    BY <1>1, <1>2, <1>3, <1>4, Zenon

-----------------------------------------------------------------------------
(* The actions.                                                            *)

(* ReceiveForSession *)
LEMMA ReceiveForSessionKeeps ==
    ASSUME IInv, NEW h \in Hosts, ReceiveForSession(h)
    PROVE  RateStep /\ CountStep /\ SetsStay
  <1>1. Receive(h) /\ UNCHANGED <<abuse, recent>> /\ UNCHANGED queue
    BY Zenon DEF ReceiveForSession
  <1>2. handshaking' \subseteq Hosts /\ tracked' \subseteq Hosts
    BY Types, Zenon DEF ReceiveForSession
  <1>3. RateStep
    BY <1>1, SameRates, Zenon
  <1>4. CountStep
    BY <1>1, ReceiveGrows, GrownCounts, Zenon
  <1>. QED
    BY <1>1, <1>2, <1>3, <1>4, ReceiveGrows, Zenon DEF SetsStay

(* ReceiveVersion *)
LEMMA ReceiveVersionKeeps ==
    ASSUME IInv, NEW h \in Hosts, ReceiveVersion(h)
    PROVE  RateStep /\ CountStep /\ SetsStay
  <1>1. Receive(h) /\ UNCHANGED <<abuse, recent>> /\ UNCHANGED <<tracked, handshaking>>
    BY Zenon DEF ReceiveVersion, abuseVars
  <1>2. PICK len \in ReplyLens : Answer(h, Heard(h), len, FALSE)
    BY Zenon DEF ReceiveVersion
  <1>3. RateStep
    BY <1>1, SameRates, Zenon
  <1>4. CountStep
    <2>1. Grown(preauth') /\ preauth'[h] = Heard(h) /\ Heard(h) \in Counts
      BY <1>1, ReceiveGrows, HeardFacts, Zenon
    <2>2. /\ preauth'[h].sent = Heard(h).sent /\ preauth'[h].received = Heard(h).received
          /\ FALSE \in BOOLEAN
      BY <2>1, Zenon
    <2>. QED
      BY <1>2, <2>1, <2>2, GrownAnswered, Zenon
  <1>5. SetsStay
    BY <1>1, Types, ReceiveGrows, Zenon DEF SetsStay
  <1>. QED
    BY <1>3, <1>4, <1>5, Zenon

(* ReceiveForged *)
LEMMA ReceiveForgedKeeps ==
    ASSUME IInv, NEW h \in Hosts, ReceiveForged(h)
    PROVE  RateStep /\ CountStep /\ SetsStay
  <1>1. RateStep
    BY PenalizedRates, Zenon DEF ReceiveForged
  <1>2. CountStep
    BY Types, Zenon DEF ReceiveForged, preauthVars, CountStep
  <1>3. SetsStay
    BY Types, ReceivedMore, Zenon DEF ReceiveForged, preauthVars, SetsStay
  <1>. QED
    BY <1>1, <1>2, <1>3, Zenon

(* SessionLeaves *)
LEMMA SessionLeavesKeeps ==
    ASSUME IInv, NEW h \in Hosts, SessionLeaves(h)
    PROVE  RateStep /\ CountStep /\ SetsStay
  <1>1. RateStep
    BY SameRates, Zenon DEF SessionLeaves, abuseVars
  <1>2. CountStep
    BY Types, Zenon DEF SessionLeaves, preauthVars, CountStep
  <1>3. SetsStay
    BY Types, Zenon DEF SessionLeaves, abuseVars, preauthVars, SetsStay
  <1>. QED
    BY <1>1, <1>2, <1>3, Zenon

(* Looking a host up in _preauth only resets its idle time. *)
LEMMA IdleReset ==
    ASSUME NEW x, Grown(x), NEW g \in Hosts
    PROVE  /\ Grown([x EXCEPT ![g].idle = 0])
           /\ [x EXCEPT ![g].idle = 0][g].sent = x[g].sent
           /\ [x EXCEPT ![g].idle = 0][g].received = x[g].received
  <1>. DEFINE y == [x EXCEPT ![g].idle = 0]
              p == [x[g] EXCEPT !.idle = 0]
  <1>1. x \in [Hosts -> Counts] /\ x[g] \in Counts
    BY Zenon DEF Grown
  <1>2. 0 \in 0..(IdleTimeout + 1)
    BY Bounds
  <1>3. p \in Counts /\ p.sent = x[g].sent /\ p.received = x[g].received
    BY <1>1, <1>2, Zenon DEF Counts
  <1>. HIDE DEF p
  <1>4. y \in [Hosts -> Counts] /\ y[g] = p /\ \A h \in Hosts : h # g => y[h] = x[h]
    <2>1. y = [x EXCEPT ![g] = p]
      BY Zenon DEF p
    <2>. QED
      BY <1>1, <1>3, <2>1, Zenon
  <1>. HIDE DEF y
  <1>5. ASSUME NEW h \in Hosts
        PROVE  y[h].sent = preauth[h].sent /\ preauth[h].received <= y[h].received
    <2>1. y[h].sent = x[h].sent /\ y[h].received = x[h].received
      BY <1>3, <1>4, Zenon
    <2>. QED
      BY <2>1, Zenon DEF Grown
  <1>. QED
    BY <1>3, <1>4, <1>5, Zenon DEF Grown, y

(* ReceiveInvalid *)
LEMMA ReceiveInvalidKeeps ==
    ASSUME IInv, NEW h \in Hosts, ReceiveInvalid(h)
    PROVE  RateStep /\ CountStep /\ SetsStay
  <1>1. RateStep /\ tracked' \subseteq Hosts
    BY Types, PenalizedRates, Zenon DEF ReceiveInvalid
  <1>2. CASE Receive(h) /\ UNCHANGED <<handshaking, queue>>
    <2>1. CountStep
      BY <1>2, ReceiveGrows, GrownCounts, Zenon
    <2>2. SetsStay
      BY <1>1, <1>2, Types, ReceiveGrows, Zenon DEF SetsStay
    <2>. QED
      BY <1>1, <2>1, <2>2, Zenon
  <1>. DEFINE heard == [preauth EXCEPT ![h] = Heard(h)]
  <1>3. ASSUME received < MaxReceived, received' = received + 1, NEW g \in handshaking,
               preauth' = [heard EXCEPT ![g].idle = 0],
               counted' = counted \cup {g, h}, CloseHandshaking(g, heard[g])
        PROVE  CountStep /\ SetsStay
    <2>1. g \in Hosts /\ handshaking' \subseteq Hosts /\ counted' \subseteq Hosts
      BY <1>3, Types, Zenon DEF CloseHandshaking
    <2>2. Grown(heard)
      BY HeardFacts, OneGrown, Zenon
    <2>3. PICK len \in ReplyLens : Answer(g, heard[g], len, TRUE)
      BY <1>3, Zenon DEF CloseHandshaking
    <2>. HIDE DEF heard
    <2>4. /\ Grown(preauth')
          /\ preauth'[g].sent = heard[g].sent /\ preauth'[g].received = heard[g].received
      BY <1>3, <2>1, <2>2, IdleReset, Zenon
    <2>5. heard[g] \in Counts /\ TRUE \in BOOLEAN
      BY <2>1, <2>2, Zenon DEF Grown
    <2>6. CountStep
      BY <2>1, <2>3, <2>4, <2>5, GrownAnswered, Zenon
    <2>7. received' \in 0..MaxReceived
      BY <1>3, ReceivedMore, Zenon
    <2>. QED
      BY <1>1, <2>1, <2>6, <2>7, Zenon DEF SetsStay
  <1>. QED
    BY <1>1, <1>2, <1>3, Zenon DEF ReceiveInvalid

(* ReceiveUnknown *)
LEMMA ReceiveUnknownKeeps ==
    ASSUME IInv, NEW h \in Hosts, ReceiveUnknown(h)
    PROVE  RateStep /\ CountStep /\ SetsStay
  <1>1. RateStep
    BY SameRates, Zenon DEF ReceiveUnknown
  <1>2. received' \in 0..MaxReceived /\ tracked' \subseteq Hosts /\ handshaking' \subseteq Hosts
    BY Types, ReceivedMore, Zenon DEF ReceiveUnknown
  <1>3. CASE UNCHANGED <<preauthVars, queue>>
    BY <1>1, <1>2, <1>3, Types, Zenon DEF preauthVars, CountStep, SetsStay
  <1>4. ASSUME NEW p \in {Heard(h), [preauth[h] EXCEPT !.idle = 0]},
               preauth' = [preauth EXCEPT ![h] = p], counted' = counted \cup {h},
               \/ UNCHANGED queue
               \/ \E len \in ReplyLens : Answer(h, p, len, FALSE)
        PROVE  CountStep /\ SetsStay
    <2>1. p \in Counts /\ p.sent = preauth[h].sent /\ preauth[h].received <= p.received
      BY <1>4, HeardFacts, Zenon
    <2>2. Grown(preauth') /\ preauth'[h] = p
      BY <1>4, <2>1, HeardFacts, OneGrown, Zenon
    <2>3. ASSUME UNCHANGED queue PROVE CountStep
      BY <2>2, <2>3, GrownCounts, Zenon
    <2>4. ASSUME NEW len \in ReplyLens, Answer(h, p, len, FALSE) PROVE CountStep
      <3>1. /\ preauth'[h].sent = p.sent /\ preauth'[h].received = p.received
            /\ FALSE \in BOOLEAN
        BY <2>2, Zenon
      <3>. QED
        BY <2>1, <2>2, <2>4, <3>1, GrownAnswered, Zenon
    <2>5. counted' \subseteq Hosts
      BY <1>4, Types, Zenon
    <2>. QED
      BY <1>2, <1>4, <2>3, <2>4, <2>5, Zenon DEF SetsStay
  <1>. QED
    BY <1>1, <1>3, <1>4, Zenon DEF ReceiveUnknown

(* A handshake is limited or let through. *)
LEMMA HelloRates ==
    ASSUME IInv, NEW h \in Hosts, NEW opens \in BOOLEAN, ReceiveHello(h, opens)
    PROVE  RateStep
  <1>1. /\ abuse \in [Hosts -> Account] /\ recent \in [Hosts -> Seq(0..Second)]
        /\ abuse[h] \in Account /\ recent[h] \in Seq(0..Second)
    BY Types, Zenon
  <1>2. CASE Banned(h)
    BY <1>2, SameRates, Zenon DEF ReceiveHello
  <1>3. CASE ~Banned(h) /\ RateLimited(abuse[h])
    <2>1. abuse' = [abuse EXCEPT ![h] = abuse[h]] /\ recent' = recent
      BY <1>1, <1>3, LimitedFacts, Zenon DEF ReceiveHello
    <2>2. abuse' = abuse
      BY <1>1, <2>1, Zenon
    <2>. QED
      BY <2>1, <2>2, SameRates, Zenon
  <1>4. CASE ~Banned(h) /\ ~RateLimited(abuse[h])
    <2>1. /\ abuse' = [abuse EXCEPT ![h] = Admit(abuse[h])]
          /\ recent' = [recent EXCEPT ![h] = Append(recent[h], 0)]
      BY <1>4, Zenon DEF ReceiveHello
    <2>2. Admit(abuse[h]) \in Account
      BY <1>1, <1>4, AdmitFacts, Zenon
    <2>3. Append(recent[h], 0) \in Seq(0..Second)
      <3>1. 0 \in 0..Second
        BY Bounds
      <3>. QED
        BY <1>1, <3>1
    <2>4. abuse' \in [Hosts -> Account] /\ recent' \in [Hosts -> Seq(0..Second)]
      BY <1>1, <2>1, <2>2, <2>3, Zenon
    <2>5. ASSUME NEW g \in Hosts PROVE Kept(g) \/ Admitted(g)
      <3>1. CASE g = h
        BY <1>1, <1>4, <2>1, <3>1, Zenon DEF Admitted
      <3>2. CASE g # h
        BY <1>1, <2>1, <3>2, Zenon DEF Kept
      <3>. QED
        BY <3>1, <3>2, Zenon
    <2>. QED
      BY <2>4, <2>5, Zenon DEF RateStep
  <1>. QED
    BY <1>2, <1>3, <1>4, Zenon

(* ReceiveHello *)
LEMMA ReceiveHelloKeeps ==
    ASSUME IInv, NEW h \in Hosts, NEW opens \in BOOLEAN, ReceiveHello(h, opens)
    PROVE  RateStep /\ CountStep /\ SetsStay
  <1>1. Receive(h) /\ tracked' = tracked \cup {h}
    BY Zenon DEF ReceiveHello
  <1>2. /\ Grown(preauth') /\ preauth'[h] = Heard(h) /\ Heard(h) \in Counts
        /\ preauth'[h].sent = Heard(h).sent /\ preauth'[h].received = Heard(h).received
    BY <1>1, ReceiveGrows, HeardFacts, Zenon
  <1>3. CASE UNCHANGED <<handshaking, queue>>
    <2>1. CountStep
      BY <1>2, <1>3, GrownCounts, Zenon
    <2>. QED
      BY <1>1, <1>3, <2>1, Types, ReceiveGrows, HelloRates, Zenon DEF SetsStay
  <1>4. CASE /\ handshaking' = IF opens THEN handshaking \cup {h} ELSE handshaking
             /\ \E len \in ReplyLens : Answer(h, Heard(h), len, opens)
    <2>1. CountStep
      BY <1>2, <1>4, GrownAnswered, Zenon
    <2>2. SetsStay
      BY <1>1, <1>4, Types, ReceiveGrows, Zenon DEF SetsStay
    <2>. QED
      BY <2>1, <2>2, HelloRates, Zenon
  <1>. QED
    BY <1>3, <1>4, Zenon DEF ReceiveHello

(* Flush *)
LEMMA FlushKeeps ==
    ASSUME IInv, NEW i \in DOMAIN queue, Flush(i)
    PROVE  RateStep /\ CountStep /\ SetsStay
  <1>. DEFINE reply == queue[i]
              g == reply.host
  <1>1. /\ queue \in Seq(Reply) /\ Len(queue) <= MaxPending /\ Len(queue) \in Nat
        /\ preauth \in [Hosts -> Counts]
        /\ \A h \in Hosts : Owed(preauth[h], queue, h) /\ preauth[h] \in Counts
    BY Types, SequenceFacts, Zenon
  <1>2. i \in 1..Len(queue) /\ reply \in Reply
    BY <1>1, SequenceFacts, Zenon
  <1>3. g \in Hosts /\ reply.len \in Nat
    BY <1>2, ReplyFacts, Zenon DEF Reply
  <1>4. queue' = Removed(queue, i)
    BY Zenon DEF Flush, Removed
  <1>5. queue' \in Seq(Reply) /\ Len(queue') <= MaxPending
    <2>1. Removed(queue, i) \in Seq(Reply) /\ Len(Removed(queue, i)) = Len(queue) - 1
      BY <1>1, <1>2, RemovedFacts, Zenon
    <2>2. Len(queue) - 1 <= MaxPending
      BY <1>1, Bounds
    <2>. QED
      BY <1>4, <2>1, <2>2, Zenon
  <1>6. RateStep
    BY SameRates, Zenon DEF Flush, abuseVars
  <1>7. SetsStay
    BY <1>3, Types, Zenon DEF Flush, abuseVars, preauthVars, SetsStay
  <1>8. /\ preauth' \in [Hosts -> Counts]
        /\ \A h \in Hosts :
            /\ preauth'[h].received = preauth[h].received
            /\ \/ preauth'[h].sent = preauth[h].sent
               \/ queue[i].host = h /\ preauth'[h].sent = preauth[h].sent + queue[i].len
    <2>1. CASE UNCHANGED preauth
      BY <1>1, <2>1, Zenon
    <2>2. CASE preauth' = [preauth EXCEPT ![g].sent = @ + reply.len, ![g].idle = 0]
      <3>. DEFINE p == [preauth[g] EXCEPT !.sent = @ + reply.len, !.idle = 0]
      <3>1. preauth[g] \in Counts /\ preauth[g].sent \in Nat
        BY <1>1, <1>3, CountFacts, Zenon
      <3>2. preauth[g].sent + reply.len \in Nat /\ 0 \in 0..(IdleTimeout + 1)
        BY <1>3, <3>1, Bounds
      <3>3. /\ p \in Counts /\ p.received = preauth[g].received
            /\ p.sent = preauth[g].sent + reply.len
        BY <3>1, <3>2, Zenon DEF Counts
      <3>4. preauth' = [preauth EXCEPT ![g] = p]
        BY <1>1, <1>3, <2>2, Zenon
      <3>. HIDE DEF p, g
      <3>5. /\ preauth' \in [Hosts -> Counts] /\ preauth'[g] = p
            /\ \A h \in Hosts : h # g => preauth'[h] = preauth[h]
        BY <1>1, <1>3, <3>3, <3>4, Zenon
      <3>. QED
        BY <3>3, <3>5, Zenon DEF g
    <2>. QED
      BY <2>1, <2>2, Zenon DEF Flush, preauthVars
  <1>9. ASSUME NEW h \in Hosts PROVE Owed(preauth'[h], queue', h)
    <2>1. /\ preauth[h] \in Counts /\ preauth'[h] \in Counts /\ Owed(preauth[h], queue, h)
          /\ preauth'[h].received = preauth[h].received
          /\ \/ preauth'[h].sent = preauth[h].sent
             \/ queue[i].host = h /\ preauth'[h].sent = preauth[h].sent + queue[i].len
      BY <1>1, <1>8, Zenon
    <2>2. Owed(preauth'[h], Removed(queue, i), h)
      BY <1>1, <1>2, <2>1, FlushedOwed, Zenon
    <2>. QED
      BY <1>4, <2>2, Zenon
  <1>. QED
    BY <1>5, <1>6, <1>7, <1>8, <1>9, Zenon DEF CountStep

(* run_housekeeping forgets a host whose window is over and which is not   *)
(* banned: its account starts as it ended.                                 *)
LEMMA HousekeepingRates ==
    ASSUME IInv, NEW late \in SUBSET Hosts, Housekeeping(late)
    PROVE  RateStep
  <1>1. abuse \in [Hosts -> Account] /\ recent \in [Hosts -> Seq(0..Second)]
    BY Types, Zenon
  <1>2. /\ abuse' = [h \in Hosts |-> IF h \in ForgottenHosts THEN FreshAbuse ELSE abuse[h]]
        /\ recent' = recent
    BY Zenon DEF Housekeeping
  <1>3. FreshAbuse \in Account
    <2>1. /\ WindowCap \in 0..WindowCap /\ 0 \in 0..RateLimit /\ 0 \in 0..BanThreshold
          /\ 0 \in 0..BanTime
      BY Bounds, CapBounds
    <2>. QED
      BY <2>1, Zenon DEF FreshAbuse, Account
  <1>4. ASSUME NEW h \in Hosts PROVE Kept(h)
    <2>1. CASE h \in ForgottenHosts
      <3>1. abuse[h].ban = 0 /\ abuse[h].handshakes = 0
        BY <2>1, Zenon DEF ForgottenHosts
      <3>2. abuse[h].window = WindowCap
        BY <3>1, HostFacts, Zenon DEF Rated
      <3>3. ~Banned(h)
        BY <3>1 DEF Banned
      <3>. QED
        BY <1>2, <2>1, <3>1, <3>2, <3>3, Zenon DEF Kept, FreshAbuse
    <2>2. CASE h \notin ForgottenHosts
      BY <1>2, <2>2, Zenon DEF Kept
    <2>. QED
      BY <2>1, <2>2, Zenon
  <1>5. abuse' \in [Hosts -> Account]
    BY <1>1, <1>2, <1>3, Zenon
  <1>. QED
    BY <1>1, <1>2, <1>4, <1>5, Zenon DEF RateStep

(* The counts of a silent host are dropped, while answers to it may wait.  *)
(* The host whose handshake is closed was just looked up, so it is kept.   *)
LEMMA HousekeepingCounts ==
    ASSUME IInv, NEW late \in SUBSET handshaking, Housekeeping(late)
    PROVE  CountStep
  <1>. DEFINE seen == [h \in Hosts |-> IF h \in late THEN [preauth[h] EXCEPT !.idle = 0]
                                                     ELSE preauth[h]]
              idle == IdleHosts(seen, counted \cup late)
  <1>1. /\ preauth \in [Hosts -> Counts] /\ queue \in Seq(Reply) /\ Len(queue) <= MaxPending
        /\ handshaking \subseteq Hosts
    BY Types, Zenon
  <1>2. preauth' = [h \in Hosts |-> IF h \in idle THEN FreshPreauth ELSE seen[h]]
    BY Zenon DEF Housekeeping
  <1>3. Grown(seen)
    <2>1. ASSUME NEW h \in Hosts
          PROVE  /\ seen[h] \in Counts /\ seen[h].sent = preauth[h].sent
                 /\ preauth[h].received <= seen[h].received
      BY HeardFacts, Zenon
    <2>2. seen \in [Hosts -> Counts]
      BY <2>1, Zenon
    <2>. HIDE DEF seen
    <2>. QED
      BY <2>1, <2>2, Zenon DEF Grown
  <1>4. FreshPreauth \in Counts /\ FreshPreauth.sent = 0
    <2>1. 0 \in Nat /\ 0 \in 0..(IdleTimeout + 1)
      BY Bounds
    <2>. QED
      BY <2>1, Zenon DEF FreshPreauth, Counts
  <1>5. ASSUME NEW h \in late
        PROVE  /\ h \in Hosts /\ h \notin idle
               /\ seen[h].sent = preauth[h].sent /\ seen[h].received = preauth[h].received
    <2>1. h \in Hosts /\ seen[h] = [preauth[h] EXCEPT !.idle = 0]
      BY <1>1, Zenon
    <2>2. /\ seen[h].sent = preauth[h].sent /\ seen[h].received = preauth[h].received
          /\ seen[h].idle = 0
      BY <1>1, <2>1, HeardFacts, Zenon DEF Counts
    <2>3. ~(0 > IdleTimeout)
      BY Bounds
    <2>. QED
      BY <2>1, <2>2, <2>3, Zenon DEF IdleHosts
  <1>. HIDE DEF seen, idle
  <1>6. preauth' \in [Hosts -> Counts]
    BY <1>2, <1>3, <1>4, Zenon DEF Grown
  <1>7. ASSUME NEW h \in Hosts PROVE Owed(preauth'[h], queue, h)
    <2>1. CASE h \in idle
      <3>1. preauth'[h] = FreshPreauth
        BY <1>2, <2>1, Zenon
      <3>2. Owed(FreshPreauth, queue, h)
        BY <1>1, <1>4, ForgottenOwed, Zenon
      <3>. QED
        BY <3>1, <3>2, Zenon
    <2>2. CASE h \notin idle
      BY <1>2, <1>3, <2>2, GrownOwed, Zenon
    <2>. QED
      BY <2>1, <2>2, Zenon
  <1>8. CASE late = {}
    <2>1. UNCHANGED queue
      BY <1>8, Zenon DEF Housekeeping
    <2>. QED
      BY <1>1, <1>6, <1>7, <2>1, Zenon DEF CountStep
  <1>9. CASE late # {}
    <2>1. PICK h \in late : CloseHandshaking(h, preauth[h])
      BY <1>9, Zenon DEF Housekeeping
    <2>2. PICK len \in ReplyLens : Answer(h, preauth[h], len, TRUE)
      BY <2>1, Zenon DEF CloseHandshaking
    <2>3. /\ h \in Hosts /\ preauth[h] \in Counts /\ TRUE \in BOOLEAN
          /\ preauth'[h].sent = preauth[h].sent /\ preauth'[h].received = preauth[h].received
      BY <1>1, <1>2, <1>5, Zenon
    <2>. QED
      BY <1>6, <1>7, <2>2, <2>3, AnswerOwed, Zenon
  <1>. QED
    BY <1>8, <1>9, Zenon

(* Housekeeping *)
LEMMA HousekeepingKeeps ==
    ASSUME IInv, HousekeepingRuns
    PROVE  RateStep /\ CountStep /\ SetsStay
  <1>1. PICK late \in {{}} \cup {{h} : h \in handshaking} : Housekeeping(late)
    BY Zenon DEF HousekeepingRuns
  <1>2. late \in SUBSET handshaking /\ late \in SUBSET Hosts
    BY Types, Zenon
  <1>3. RateStep /\ CountStep
    BY <1>1, <1>2, HousekeepingRates, HousekeepingCounts, Zenon
  <1>4. handshaking' \subseteq Hosts
    BY <1>1, Types, Zenon DEF Housekeeping, CloseHandshaking
  <1>5. counted' \subseteq Hosts /\ tracked' \subseteq Hosts /\ received' = received
    BY <1>1, <1>2, Types, Zenon DEF Housekeeping
  <1>. QED
    BY <1>3, <1>4, <1>5, Types, Zenon DEF SetsStay

(* What a tick of the clock does to an account and to an age. *)
LEMMA TickTypes ==
    ASSUME IInv, Tick
    PROVE  /\ abuse' \in [Hosts -> Account] /\ recent' \in [Hosts -> Seq(0..Second)]
           /\ \A h \in Hosts : /\ abuse'[h].ban \in {abuse[h].ban, abuse[h].ban - 1}
                               /\ Len(recent'[h]) = Len(recent[h])
  <1>1. ASSUME NEW h \in Hosts
        PROVE  abuse'[h] \in Account /\ abuse'[h].ban \in {abuse[h].ban, abuse[h].ban - 1}
    <2>. DEFINE a == abuse[h]
                w == Later(a.window, WindowCap)
                b == IF a.ban > 0 THEN a.ban - 1 ELSE 0
    <2>1. a \in Account /\ a.window \in 0..WindowCap /\ a.ban \in 0..BanTime
      BY Types, Zenon DEF Account
    <2>2. w \in 0..WindowCap
      BY <2>1, CapBounds DEF Later
    <2>3. b \in 0..BanTime /\ b \in {a.ban, a.ban - 1}
      BY <2>1, Bounds
    <2>4. abuse'[h] = [a EXCEPT !.window = w, !.ban = b]
      BY Zenon DEF Tick
    <2>. HIDE DEF w, b
    <2>5. [a EXCEPT !.window = w, !.ban = b] \in Account
      BY <2>1, <2>2, <2>3, Zenon DEF Account
    <2>6. [a EXCEPT !.window = w, !.ban = b].ban = b
      BY <2>1, Zenon DEF Account
    <2>. QED
      BY <2>3, <2>4, <2>5, <2>6, Zenon
  <1>2. ASSUME NEW h \in Hosts
        PROVE  recent'[h] \in Seq(0..Second) /\ Len(recent'[h]) = Len(recent[h])
    <2>. DEFINE r == recent[h]
                n == Len(recent[h])
    <2>1. n \in Nat /\ DOMAIN r = 1..n /\ \A i \in 1..n : r[i] \in 0..Second
      BY HostFacts, SequenceFacts, Zenon
    <2>2. recent'[h] = [i \in 1..n |-> Later(r[i], Second)]
      BY <2>1, Zenon DEF Tick
    <2>3. \A i \in 1..n : Later(r[i], Second) \in 0..Second
      BY <2>1, Bounds DEF Later
    <2>. HIDE DEF r, n
    <2>4. recent'[h] \in Seq(0..Second) /\ Len(recent'[h]) = n
      BY <2>1, <2>2, <2>3
    <2>. QED
      BY <2>4, Zenon DEF n
  <1>3. abuse' \in [Hosts -> Account]
    BY <1>1, Zenon DEF Tick
  <1>4. recent' \in [Hosts -> Seq(0..Second)]
    BY <1>2, Zenon DEF Tick
  <1>. QED
    BY <1>1, <1>2, <1>3, <1>4, Zenon

(* Tick *)
LEMMA TickKeeps ==
    ASSUME IInv, Tick
    PROVE  IInv'
  <1>1. CountStep
    <2>1. ASSUME NEW h \in Hosts
          PROVE  /\ preauth'[h] \in Counts /\ preauth'[h].sent = preauth[h].sent
                 /\ preauth[h].received <= preauth'[h].received
      <3>. DEFINE late == Later(preauth[h].idle, IdleTimeout + 1)
                  p == [preauth[h] EXCEPT !.idle = late]
      <3>1. preauth[h] \in Counts /\ preauth[h].received <= preauth[h].received
        BY HeardFacts, Zenon
      <3>2. late \in 0..(IdleTimeout + 1)
        <4>1. preauth[h].idle \in 0..(IdleTimeout + 1)
          BY <3>1, Zenon DEF Counts
        <4>. QED
          BY <4>1, Bounds DEF Later
      <3>3. preauth'[h] = IF h \in counted THEN p ELSE preauth[h]
        BY Zenon DEF Tick
      <3>. HIDE DEF late
      <3>4. p \in Counts /\ p.sent = preauth[h].sent /\ p.received = preauth[h].received
        BY <3>1, <3>2, Zenon DEF Counts
      <3>. QED
        BY <3>1, <3>3, <3>4, Zenon
    <2>2. preauth' \in [Hosts -> Counts]
      BY <2>1, Zenon DEF Tick
    <2>3. Grown(preauth') /\ UNCHANGED queue
      BY <2>1, <2>2, Zenon DEF Grown, Tick
    <2>. QED
      BY <2>3, GrownCounts, Zenon
  <1>2. SetsStay
    BY Types, Zenon DEF Tick, SetsStay
  <1>3. TypeOK'
    BY <1>1, <1>2, TickTypes, Zenon DEF CountStep, SetsStay, TypeOK, Account, Counts
  <1>. QED
    BY <1>1, <1>3, TickRates, Zenon DEF IInv, CountStep

-----------------------------------------------------------------------------
(* The theorems.                                                           *)

(* Initially nothing is known of any host. *)
LEMMA InitInvariant == Init => IInv
  <1>. SUFFICES ASSUME Init PROVE IInv
    OBVIOUS
  <1>1. /\ WindowCap \in 0..WindowCap /\ 0 \in 0..RateLimit /\ 0 \in 0..BanThreshold
        /\ 0 \in 0..BanTime /\ 0 \in Nat /\ 0 \in 0..(IdleTimeout + 1)
        /\ 0 \in 0..MaxReceived /\ 0 <= MaxPending
    BY Bounds, CapBounds
  <1>2. FreshAbuse \in Account /\ FreshPreauth \in Counts /\ FreshPreauth.sent = 0
    BY <1>1, Zenon DEF FreshAbuse, FreshPreauth, Account, Counts
  <1>3. /\ <<>> \in Seq(Reply) /\ Len(<<>>) = 0 /\ <<>> \in Seq(0..Second)
    OBVIOUS
  <1>4. TypeOK
    <2>1. abuse \in [Hosts -> Account] /\ preauth \in [Hosts -> Counts]
      BY <1>2, Zenon DEF Init
    <2>2. recent \in [Hosts -> Seq(0..Second)]
      BY <1>3, Zenon DEF Init
    <2>3. queue \in Seq(Reply) /\ Len(queue) <= MaxPending /\ received \in 0..MaxReceived
      BY <1>1, <1>3, Zenon DEF Init
    <2>4. tracked \subseteq Hosts /\ counted \subseteq Hosts /\ handshaking \subseteq Hosts
      BY Zenon DEF Init
    <2>. QED
      BY <2>1, <2>2, <2>3, <2>4, Zenon DEF TypeOK, Account, Counts
  <1>5. ASSUME NEW h \in Hosts PROVE Rated(h)
    <2>1. abuse[h].handshakes = 0 /\ abuse[h].window = WindowCap /\ Len(recent[h]) = 0
      BY <1>3, Zenon DEF Init, FreshAbuse
    <2>2. \A i : i \notin 1..(0 - 0) /\ i \notin 1..(0 - 0 - RateLimit)
      BY Bounds
    <2>. QED
      BY <2>1, <2>2, Zenon DEF Rated
  <1>6. ASSUME NEW h \in Hosts PROVE Owed(preauth[h], queue, h)
    <2>1. preauth[h] = FreshPreauth /\ queue \in Seq(Reply) /\ Len(queue) <= MaxPending
      BY <1>1, <1>3, Zenon DEF Init
    <2>2. Owed(FreshPreauth, queue, h)
      BY <1>2, <2>1, ForgottenOwed, Zenon
    <2>. QED
      BY <2>1, <2>2, Zenon
  <1>. QED
    BY <1>4, <1>5, <1>6, Zenon DEF IInv

(* Every action but the clock's is such a step. *)
LEMMA NextSteps ==
    ASSUME IInv, Next
    PROVE  Tick \/ (RateStep /\ CountStep /\ SetsStay)
  <1>1. ASSUME NEW h \in Hosts,
               \/ ReceiveInvalid(h) \/ ReceiveVersion(h) \/ ReceiveUnknown(h)
               \/ ReceiveForged(h) \/ SessionLeaves(h) \/ ReceiveForSession(h)
        PROVE  RateStep /\ CountStep /\ SetsStay
    BY <1>1, ReceiveInvalidKeeps, ReceiveVersionKeeps, ReceiveUnknownKeeps, ReceiveForgedKeeps,
       SessionLeavesKeeps, ReceiveForSessionKeeps, Zenon
  <1>2. ASSUME NEW h \in Hosts, NEW opens \in BOOLEAN, ReceiveHello(h, opens)
        PROVE  RateStep /\ CountStep /\ SetsStay
    BY <1>2, ReceiveHelloKeeps, Zenon
  <1>3. ASSUME NEW i \in DOMAIN queue, Flush(i) PROVE RateStep /\ CountStep /\ SetsStay
    BY <1>3, FlushKeeps, Zenon
  <1>4. CASE HousekeepingRuns
    BY <1>4, HousekeepingKeeps, Zenon
  <1>. QED
    BY <1>1, <1>2, <1>3, <1>4, Zenon DEF Next

(* The invariant holds throughout. *)
LEMMA Invariance == Spec => []IInv
  <1>1. IInv /\ [Next]_vars => IInv'
    <2>. SUFFICES ASSUME IInv, [Next]_vars PROVE IInv'
      OBVIOUS
    <2>1. CASE Next
      BY <2>1, NextSteps, TickKeeps, StepsKeep, Zenon
    <2>2. CASE UNCHANGED vars
      <3>1. RateStep
        BY <2>2, SameRates, Zenon DEF vars
      <3>2. CountStep
        BY <2>2, Types, Zenon DEF vars, CountStep
      <3>3. SetsStay
        BY <2>2, Types, Zenon DEF vars, SetsStay
      <3>. QED
        BY <3>1, <3>2, <3>3, StepsKeep, Zenon
    <2>. QED
      BY <2>1, <2>2, Zenon
  <1>. QED
    BY <1>1, InitInvariant, PTL DEF Spec

(* endpoint_rate_limited counts in windows of one second that start with   *)
(* the first handshake after the last one is over: whatever a host sends   *)
(* and whenever it does, any second lets at most twice the configured      *)
(* number of its handshakes through.                                       *)
THEOREM HandshakesLimited == Spec => []HandshakeRate
  <1>1. IInv => HandshakeRate
    <2>. SUFFICES ASSUME IInv, NEW h \in Hosts, NEW i \in 1..(Len(recent[h]) - 2 * RateLimit)
                  PROVE  recent[h][i] >= Second
      BY DEF HandshakeRate
    <2>. DEFINE k == abuse[h].handshakes
                n == Len(recent[h])
    <2>1. k \in 0..RateLimit /\ n \in Nat
      BY HostFacts, Zenon
    <2>2. \A j \in 1..(n - k - RateLimit) : recent[h][j] >= Second
      BY HostFacts, Zenon DEF Rated
    <2>3. i \in 1..(n - 2 * RateLimit)
      OBVIOUS
    <2>. HIDE DEF k, n
    <2>4. i \in 1..(n - k - RateLimit)
      BY <2>1, <2>3, Bounds
    <2>. QED
      BY <2>2, <2>4, Zenon
  <1>. QED
    BY <1>1, Invariance, PTL

(* queue_packet checks the allowance and flush_pending charges it later:   *)
(* the answers that wait meanwhile let a host be sent more than allowed,   *)
(* but never by more than the queue holds less one (a slack below the      *)
(* longest answer counts as one answer), for any number of hosts, any      *)
(* lengths, and although idle hosts are forgotten while answers wait.      *)
THEOREM AmplificationLimited == Spec => []AmplificationBounded
  <1>1. IInv => AmplificationBounded
    <2>. SUFFICES ASSUME IInv, NEW h \in Hosts
                  PROVE  preauth[h].sent <= Allowance(preauth[h])
                                            + (MaxPending - 1) * LongestReply
      BY Zenon DEF AmplificationBounded, Allowance, Spare
    <2>1. queue \in Seq(Reply) /\ preauth[h] \in Counts /\ Owed(preauth[h], queue, h)
      BY Types, Zenon
    <2>. QED
      BY <2>1, OwedBounds, Zenon
  <1>. QED
    BY <1>1, Invariance, PTL

(* note_invalid_packet, endpoint_rate_limited and run_housekeeping leave a *)
(* ban alone and no handshake gets past it: only the clock shortens it.    *)
THEOREM BansHold == Spec => BanHolds
  <1>. DEFINE Ban == \A h \in Hosts : abuse[h].ban > 0 =>
                        /\ abuse'[h].ban \in {abuse[h].ban, abuse[h].ban - 1}
                        /\ Len(recent'[h]) = Len(recent[h])
  <1>1. IInv /\ [Next]_vars => [Ban]_vars
    <2>. SUFFICES ASSUME IInv, Next PROVE Ban
      BY Zenon
    <2>1. CASE Tick
      BY <2>1, TickTypes, Zenon
    <2>2. CASE RateStep
      <3>. SUFFICES ASSUME NEW h \in Hosts, Banned(h)
                    PROVE  /\ abuse'[h].ban \in {abuse[h].ban, abuse[h].ban - 1}
                           /\ Len(recent'[h]) = Len(recent[h])
        BY Zenon DEF Banned
      <3>1. Kept(h)
        BY <2>2, Zenon DEF RateStep, Admitted
      <3>. QED
        BY <3>1, Zenon DEF Kept
    <2>. QED
      BY <2>1, <2>2, NextSteps, Zenon
  <1>. QED
    BY <1>1, Invariance, PTL DEF Spec, BanHolds

=============================================================================
