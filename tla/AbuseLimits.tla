----------------------------- MODULE AbuseLimits ------------------------------
(***************************************************************************)
(* What the server keeps about each host that has not authenticated:       *)
(* the handshake rate window, the penalty score and ban (_ip_abuse), and   *)
(* the bytes received and sent (_preauth) that bound what it sends back    *)
(* (server.cpp).                                                           *)
(*                                                                         *)
(* Times are ages, as in SendBudget; a fresh entry behaves as one whose    *)
(* window began long ago.  A session is only the fact that it exists and   *)
(* is still handshaking: Connection models the rest of it.                 *)
(***************************************************************************)
EXTENDS Integers, Sequences, FiniteSets

CONSTANTS
    Hosts,           \* endpoint_host_key of the senders
    Second,          \* 1000 milliseconds: the rate window
    RateLimit,       \* per_ip_handshake_rate_limit_per_second
    BanThreshold,    \* invalid_packet_ban_threshold
    BanTime,         \* invalid_packet_ban_ms
    Factor, Slack,   \* anti_amplification_factor and _slack_bytes
    IdleTimeout,     \* idle_timeout_ms: a silent host's byte counts are dropped
    WindowIdle,      \* 5000 milliseconds: a window is idle after that
    MaxPending,      \* max_pending_packets
    RequestLen,      \* wire length of a received packet
    ReplyLens,       \* wire lengths of unencrypted answers
    MaxReceived      \* bound: packets received

VARIABLES
    abuse,      \* _ip_abuse: per host [window, handshakes, score, ban]
    tracked,    \* the hosts with an entry in _ip_abuse
    preauth,    \* _preauth: per host [received, sent, idle]
    counted,    \* the hosts with an entry in _preauth
    handshaking,\* hosts with a session in the Handshaking state
    queue,      \* unencrypted packets in _pending
    received,   \* packets received so far
    recent      \* history: ages, up to Second, of the handshakes let through

vars == <<abuse, tracked, preauth, counted, handshaking, queue, received, recent>>
abuseVars == <<abuse, tracked>>
preauthVars == <<preauth, counted>>

Later(a, cap) == IF a < cap THEN a + 1 ELSE cap
WindowCap == IF Second > WindowIdle THEN Second ELSE WindowIdle + 1

(* What validate_server_config accepts. *)
ASSUME AbuseAssumption ==
    /\ Second \in Nat \ {0} /\ RateLimit \in Nat \ {0} /\ Factor \in Nat \ {0}
    /\ BanThreshold \in Nat /\ BanTime \in Nat /\ Slack \in Nat
    /\ IdleTimeout \in Nat \ {0} /\ WindowIdle \in Nat /\ MaxPending \in Nat \ {0}
    /\ RequestLen \in Nat \ {0} /\ ReplyLens \subseteq Nat \ {0} /\ MaxReceived \in Nat
    /\ \E n \in ReplyLens : \A k \in ReplyLens : k <= n

(* The longest unencrypted answer. *)
LongestReply == CHOOSE n \in ReplyLens : \A k \in ReplyLens : k <= n

FreshAbuse == [window |-> WindowCap, handshakes |-> 0, score |-> 0, ban |-> 0]
FreshPreauth == [received |-> 0, sent |-> 0, idle |-> 0]

Reply == [host : Hosts, len : ReplyLens, owned : BOOLEAN]

TypeOK ==
    /\ abuse \in [Hosts -> [window : 0..WindowCap, handshakes : 0..RateLimit,
                            score : 0..BanThreshold, ban : 0..BanTime]]
    /\ tracked \subseteq Hosts /\ counted \subseteq Hosts /\ handshaking \subseteq Hosts
    /\ preauth \in [Hosts -> [received : Nat, sent : Nat, idle : 0..(IdleTimeout + 1)]]
    /\ queue \in Seq(Reply) /\ Len(queue) <= MaxPending
    /\ received \in 0..MaxReceived
    /\ recent \in [Hosts -> Seq(0..Second)]

Init ==
    /\ abuse = [h \in Hosts |-> FreshAbuse] /\ tracked = {}
    /\ preauth = [h \in Hosts |-> FreshPreauth] /\ counted = {}
    /\ handshaking = {} /\ queue = <<>> /\ received = 0
    /\ recent = [h \in Hosts |-> <<>>]

-----------------------------------------------------------------------------
(* The accounts                                                            *)

Banned(h) == abuse[h].ban > 0

(* endpoint_rate_limited restarts the window first ...  *)
Windowed(a) == IF a.window >= Second THEN [a EXCEPT !.window = 0, !.handshakes = 0] ELSE a

(* ... and lets the handshake through if the window has room. *)
RateLimitedOneLate(a) == Windowed(a).handshakes > RateLimit
RateLimited(a) == Windowed(a).handshakes >= RateLimit

Admit(a) == [Windowed(a) EXCEPT !.handshakes = @ + 1]

(* note_invalid_packet *)
PenalizedDuringBan(a) ==
    IF a.score + 1 >= BanThreshold THEN [a EXCEPT !.score = 0, !.ban = BanTime]
    ELSE [a EXCEPT !.score = @ + 1]

Penalized(a) ==
    IF a.ban > 0 THEN a
    ELSE IF a.score + 1 >= BanThreshold THEN [a EXCEPT !.score = 0, !.ban = BanTime]
    ELSE [a EXCEPT !.score = @ + 1]

(* can_amplify_to *)
MayAmplifyWhileUnder(p, len) == p.sent <= p.received * Factor + Slack
MayAmplify(p, len) == p.sent + len <= p.received * Factor + Slack

(* note_preauth_receive, then an unencrypted answer of length len:         *)
(* queue_packet drops it silently, or enqueues it if the queue has room.   *)
Heard(h) == [preauth[h] EXCEPT !.received = @ + RequestLen, !.idle = 0]

Answer(h, p, len, owned) ==
    IF MayAmplify(p, len) /\ Len(queue) < MaxPending
    THEN queue' = Append(queue, [host |-> h, len |-> len, owned |-> owned])
    ELSE UNCHANGED queue

Receive(h) ==
    /\ received < MaxReceived
    /\ received' = received + 1
    /\ preauth' = [preauth EXCEPT ![h] = Heard(h)]
    /\ counted' = counted \cup {h}

-----------------------------------------------------------------------------
(* pump_receive, one packet                                                *)

(* Closing a session that is still handshaking is answered in the clear;   *)
(* p is what _preauth holds of its host.                                   *)
CloseHandshaking(g, p) ==
    /\ handshaking' = handshaking \ {g}
    /\ \E len \in ReplyLens : Answer(g, p, len, TRUE)

(* parse_packet fails, or a handshake packet is malformed; a malformed one *)
(* that names a session, whoever it belongs to, closes it.                 *)
ReceiveInvalid(h) ==
    /\ abuse' = [abuse EXCEPT ![h] = Penalized(abuse[h])]
    /\ tracked' = tracked \cup {h}
    /\ \/ /\ Receive(h)
          /\ UNCHANGED <<handshaking, queue>>
       \/ /\ received < MaxReceived /\ ~Banned(h)
          /\ received' = received + 1
          /\ \E g \in handshaking :
                LET heard == [preauth EXCEPT ![h] = Heard(h)]
                IN  /\ preauth' = [heard EXCEPT ![g].idle = 0]
                    /\ counted' = counted \cup {g, h}
                    /\ CloseHandshaking(g, heard[g])
    /\ UNCHANGED recent

(* A packet for a session that is still handshaking: it establishes the    *)
(* session, or it is ignored as a replay.                                  *)
ReceiveForSession(h) ==
    /\ h \in handshaking
    /\ Receive(h)
    /\ tracked' = tracked \cup {h}
    /\ handshaking' \in IF Banned(h) THEN {handshaking}
                                     ELSE {handshaking, handshaking \ {h}}
    /\ UNCHANGED <<abuse, queue, recent>>

(* An unsupported version is answered even if the host is banned. *)
ReceiveVersion(h) ==
    /\ Receive(h)
    /\ \E len \in ReplyLens : Answer(h, Heard(h), len, FALSE)
    /\ UNCHANGED <<abuseVars, handshaking, recent>>

(* A packet for a session the server does not have, or has for another     *)
(* endpoint: the bytes of the latter are not counted.                      *)
ReceiveUnknown(h) ==
    /\ received < MaxReceived
    /\ received' = received + 1
    /\ tracked' = tracked \cup {h}
    /\ \E p \in {Heard(h), [preauth[h] EXCEPT !.idle = 0]} :
        IF Banned(h) /\ p # Heard(h)
        THEN UNCHANGED <<preauthVars, queue>>
        ELSE /\ preauth' = [preauth EXCEPT ![h] = p]
             /\ counted' = counted \cup {h}
             /\ IF Banned(h) THEN UNCHANGED queue
                             ELSE \E len \in ReplyLens : Answer(h, p, len, FALSE)
    /\ UNCHANGED <<abuse, handshaking, recent>>

(* A packet of an authenticated session that fails its check: counted as   *)
(* invalid unless the host is banned already, and never in _preauth.       *)
ReceiveForged(h) ==
    /\ received < MaxReceived
    /\ received' = received + 1
    /\ abuse' = [abuse EXCEPT ![h] = Penalized(abuse[h])]
    /\ tracked' = tracked \cup {h}
    /\ UNCHANGED <<preauthVars, handshaking, queue, recent>>

(* handle_client_hello: refused, limited, answered with a retry or a close *)
(* packet, or given a session, which replaces the endpoint's old one.      *)
ReceiveHello(h, opens) ==
    /\ Receive(h)
    /\ tracked' = tracked \cup {h}
    /\ IF Banned(h)
       THEN UNCHANGED <<abuse, handshaking, queue, recent>>
       ELSE IF RateLimited(abuse[h])
       THEN /\ abuse' = [abuse EXCEPT ![h] = Windowed(abuse[h])]
            /\ UNCHANGED <<handshaking, queue, recent>>
       ELSE /\ abuse' = [abuse EXCEPT ![h] = Admit(abuse[h])]
            /\ recent' = [recent EXCEPT ![h] = Append(recent[h], 0)]
            /\ handshaking' = IF opens THEN handshaking \cup {h} ELSE handshaking
            /\ \E len \in ReplyLens : Answer(h, Heard(h), len, opens)

-----------------------------------------------------------------------------
(* The rest of tick()                                                      *)

(* flush_pending sends a packet and counts it (SendBudget says which one). *)
(* The packet of a session is dropped if the session is gone, and not      *)
(* counted if it has been established.                                     *)
Flush(i) ==
    LET reply == queue[i]
        h == reply.host
    IN
    /\ queue' = SubSeq(queue, 1, i - 1) \o SubSeq(queue, i + 1, Len(queue))
    /\ \/ /\ preauth' = [preauth EXCEPT ![h].sent = @ + reply.len, ![h].idle = 0]
          /\ counted' = counted \cup {h}
       \/ /\ reply.owned
          /\ UNCHANGED preauthVars
    /\ UNCHANGED <<abuseVars, handshaking, received, recent>>

(* The host's last handshaking session is evicted. *)
SessionLeaves(h) ==
    /\ h \in handshaking
    /\ handshaking' = handshaking \ {h}
    /\ UNCHANGED <<abuseVars, preauthVars, queue, received, recent>>

(* What run_housekeeping forgets.                                          *)
IdleHostsNever(p, known) == {h \in known : p[h].idle > IdleTimeout + 1}
IdleHosts(p, known) == {h \in known : p[h].idle > IdleTimeout}

ForgottenHosts == {h \in tracked : /\ abuse[h].ban = 0 /\ abuse[h].window > WindowIdle
                                   /\ abuse[h].handshakes = 0 /\ abuse[h].score = 0}

(* run_housekeeping: it first closes a handshake that took too long (at    *)
(* most one at a time here), whose answer looks the host up in _preauth.   *)
Housekeeping(late) ==
    LET known == counted \cup late
        seen == [h \in Hosts |-> IF h \in late THEN [preauth[h] EXCEPT !.idle = 0]
                                               ELSE preauth[h]]
        idle == IdleHosts(seen, known)
    IN
    /\ IF late = {} THEN UNCHANGED <<handshaking, queue>>
                    ELSE \E h \in late : CloseHandshaking(h, preauth[h])
    /\ counted' = known \ idle
    /\ preauth' = [h \in Hosts |-> IF h \in idle THEN FreshPreauth ELSE seen[h]]
    /\ tracked' = tracked \ ForgottenHosts
    /\ abuse' = [h \in Hosts |-> IF h \in ForgottenHosts THEN FreshAbuse ELSE abuse[h]]
    /\ UNCHANGED <<received, recent>>

HousekeepingRuns == \E late \in {{}} \cup {{h} : h \in handshaking} : Housekeeping(late)

Tick ==
    /\ abuse' = [h \in Hosts |-> [abuse[h] EXCEPT !.window = Later(@, WindowCap),
                                                  !.ban = IF @ > 0 THEN @ - 1 ELSE 0]]
    /\ preauth' = [h \in Hosts |-> IF h \in counted
                                   THEN [preauth[h] EXCEPT !.idle = Later(@, IdleTimeout + 1)]
                                   ELSE preauth[h]]
    /\ recent' = [h \in Hosts |->
                    [i \in DOMAIN recent[h] |-> Later(recent[h][i], Second)]]
    /\ UNCHANGED <<tracked, counted, handshaking, queue, received>>

Next ==
    \/ \E h \in Hosts : \/ ReceiveInvalid(h) \/ ReceiveVersion(h) \/ ReceiveUnknown(h)
                        \/ ReceiveForged(h) \/ SessionLeaves(h) \/ ReceiveForSession(h)
    \/ \E h \in Hosts, opens \in BOOLEAN : ReceiveHello(h, opens)
    \/ \E i \in DOMAIN queue : Flush(i)
    \/ HousekeepingRuns \/ Tick

Spec == Init /\ [][Next]_vars

(* Time passes and tick() keeps being called. *)
FairSpec == Spec /\ WF_vars(Tick) /\ WF_vars(HousekeepingRuns)

-----------------------------------------------------------------------------
(* Properties                                                              *)

(* However the handshakes of a host fall on the fixed windows, no stretch  *)
(* of one second lets more than two windows' worth of them through: all    *)
(* but the last 2 * RateLimit of them are at least a second old.           *)
HandshakeRate ==
    \A h \in Hosts : \A i \in 1..(Len(recent[h]) - 2 * RateLimit) : recent[h][i] >= Second

(* A ban runs its time: while it lasts only the clock changes it, neither  *)
(* further invalid packets nor housekeeping, and no handshake gets past.   *)
BanHolds ==
    [][\A h \in Hosts : abuse[h].ban > 0 =>
        /\ abuse'[h].ban \in {abuse[h].ban, abuse[h].ban - 1}
        /\ Len(recent'[h]) = Len(recent[h])]_vars

(* The answers are checked against the bytes sent when they are queued and *)
(* counted when they are flushed, so a host can be sent more than factor   *)
(* times what it sent, but never by more than what the queue holds less    *)
(* one.  A slack below the longest answer counts as one answer: a host     *)
(* that was forgotten can have a whole queue of answers left.              *)
AmplificationBounded ==
    \A h \in Hosts :
        preauth[h].sent <= preauth[h].received * Factor
                           + (IF Slack > LongestReply THEN Slack ELSE LongestReply)
                           + (MaxPending - 1) * LongestReply

(* The byte counts of a host that falls silent are dropped.                *)
PreauthForgotten == \A h \in Hosts : h \in counted ~> h \notin counted

=============================================================================
