---------------------------- MODULE EndpointProofs ----------------------------
(***************************************************************************)
(* Proofs about the parts of an endpoint beside its transport: the event   *)
(* loop that calls the application, the table of its requests and the link *)
(* that carries a session's packets.  The three share no variable; each    *)
(* part below proves about its own module.                                 *)
(*                                                                         *)
(* IoContext, used directly or through AsyncClient and AsyncServer         *)
(* (AsyncRuntime), for any number of services and callbacks and any limit  *)
(* of the queue: callbacks run once each in the order of their posts, and  *)
(* no service is polled that has gone.                                     *)
(*                                                                         *)
(* RequestReply, for every limit of the queues and any number of requests  *)
(* and sessions: a caller gets the answer to its own request, and a        *)
(* promise is set once.                                                    *)
(*                                                                         *)
(* PacketLink, for every window width and queue limit: no nonce is used    *)
(* twice, the window refuses only what it must, and the link is the        *)
(* best-effort one.                                                        *)
(***************************************************************************)
EXTENDS AsyncRuntime, RequestReply, PacketLink, ReplayWindowProofs, TLAPS

-----------------------------------------------------------------------------
(* The event loop.                                                         *)

(* The inductive invariant.                                                *)

(* Where a thread can be, and what a callback can be. *)
Places == Looping \cup {"idle", "starting", "enter", "joining", "none", "report", "exited"}

Tasks == Kinds \cup Calls

(* One thread is in the loop at a time, and _running says so; a worker     *)
(* that is not joinable is not there.                                      *)
Alone ==
    /\ pc \in [Threads -> Places]
    /\ \A t \in Threads : pc[t] \in Looping => running
    /\ \A t, u \in Threads : pc[t] \in Looping /\ pc[u] \in Looping => t = u
    /\ ~joinable => pc[Worker] = "none"

(* The callback a loop has taken and not yet run. *)
InHand(t) == pc[t] \in {"call", "callAgain"}

(* Callbacks that ran, the one in hand and those in the queue are all the  *)
(* callbacks there have been, in the order of their numbers.               *)
Numbered ==
    /\ kinds \in Seq(Tasks) /\ ran \in Seq(Int) /\ posted \in Seq(Int)
    /\ fn \in [Threads -> Int]
    /\ \A i \in 1..Len(ran) : ran[i] = i
    /\ \A i \in 1..Len(posted) : posted[i] = Len(kinds) - Len(posted) + i
    /\ \A t \in Threads : InHand(t) =>
            fn[t] = Len(ran) + 1 /\ Len(kinds) = Len(ran) + 1 + Len(posted)
    /\ (\A t \in Threads : ~InHand(t)) => Len(kinds) = Len(ran) + Len(posted)

(* A copy of the services is only there while they are polled, or when a   *)
(* poll failed.                                                            *)
CopyOK ==
    /\ todo \in [Threads -> SUBSET services]
    /\ \A t \in Threads : pc[t] \notin {"poll", "leave"} => todo[t] = {}

LoopSound == Alone /\ Numbered /\ CopyOK /\ call \in Calls \cup {"none"}

-----------------------------------------------------------------------------
(* Lemmas about the moves of a thread.                                     *)

(* The places where a callback is in hand are inside the loop. *)
LEMMA HandInLoop == \A t : InHand(t) => pc[t] \in Looping
BY Zenon DEF InHand, Looping

(* What follows the loop is outside it. *)
LEMMA AfterLoop == \A t : After(t) \in Places \ Looping
<1>1. \A t : After(t) \in {"idle", "report"}
  BY Zenon DEF After
<1>2. "idle" \in Places \ Looping /\ "report" \in Places \ Looping
  BY DEF Places, Looping
<1> QED
  BY <1>1, <1>2, Zenon

(* A thread inside the loop goes on, still inside it or not. *)
LEMMA MoveKeeps ==
    ASSUME Alone, NEW t \in Threads, NEW x \in Places, pc[t] \in Looping,
           pc' = [pc EXCEPT ![t] = x], UNCHANGED <<running, joinable>>
    PROVE  /\ Alone' /\ pc'[t] = x
           /\ \A u \in Threads \ {t} : pc'[u] = pc[u] /\ pc[u] \notin Looping
<1>1. /\ pc' \in [Threads -> Places] /\ pc'[t] = x
      /\ \A u \in Threads \ {t} : pc'[u] = pc[u]
  BY Zenon DEF Alone
<1>2. \A u \in Threads \ {t} : pc[u] \notin Looping
  BY Zenon DEF Alone
<1>3. joinable \/ t # Worker
  BY DEF Alone, Looping
<1>4. Worker \in Threads
  BY Zenon DEF Threads
<1>5. ~joinable' => pc'[Worker] = "none"
  BY <1>1, <1>3, <1>4, Zenon DEF Alone
<1>6. \A u, v \in Threads : pc'[u] \in Looping /\ pc'[v] \in Looping => u = v
  BY <1>1, <1>2, Zenon
<1>7. \A u \in Threads : pc'[u] \in Looping => running'
  BY <1>1, <1>2, Zenon DEF Alone
<1> QED
  BY <1>1, <1>2, <1>5, <1>6, <1>7, Zenon DEF Alone

(* A thread outside the loop goes on outside it. *)
LEMMA OutsideKeeps ==
    ASSUME Alone, NEW t \in Threads, NEW x \in Places \ Looping, pc[t] \notin Looping,
           pc' = [pc EXCEPT ![t] = x], running' = running,
           ~joinable' => pc'[Worker] = "none"
    PROVE  /\ Alone' /\ pc'[t] = x /\ \A u \in Threads \ {t} : pc'[u] = pc[u]
           /\ \A u \in Threads : InHand(u)' <=> InHand(u)
<1>1. /\ pc' \in [Threads -> Places] /\ pc'[t] = x
      /\ \A u \in Threads \ {t} : pc'[u] = pc[u]
  BY Zenon DEF Alone
<1>2. \A u \in Threads : pc'[u] \in Looping => pc[u] \in Looping
  BY <1>1, Zenon
<1>3. Alone'
  BY <1>1, <1>2, Zenon DEF Alone
<1>4. \A u \in Threads : InHand(u)' <=> InHand(u)
  BY <1>1, Zenon DEF InHand, Looping
<1> QED
  BY <1>1, <1>3, <1>4, Zenon

(* The numbers stay when no callback is posted, taken or run. *)
LEMMA SameNumbers ==
    ASSUME Numbered, UNCHANGED <<posted, kinds, ran, fn>>,
           \A u \in Threads : InHand(u)' <=> InHand(u)
    PROVE  Numbered'
BY Zenon DEF Numbered

(* What is copied stays when a thread moves elsewhere with an empty copy. *)
LEMMA SameCopy ==
    ASSUME CopyOK, NEW t \in Threads, todo[t] = {}, UNCHANGED <<services, todo>>,
           \A u \in Threads \ {t} : pc'[u] = pc[u]
    PROVE  CopyOK'
BY Zenon DEF CopyOK

-----------------------------------------------------------------------------
(* The actions of the event loop.                                          *)

(* A post puts the next number at the end of the queue. *)
LEMMA PostKeeps ==
    ASSUME LoopSound, NEW k \in Tasks, Post(k)
    PROVE  Alone' /\ Numbered' /\ CopyOK'
<1>1. /\ posted' = Append(posted, Len(kinds) + 1) /\ kinds' = Append(kinds, k)
      /\ UNCHANGED <<ran, services, running, joinable, pc, fn, todo>>
  BY Zenon DEF Post, flagVars, loopVars
<1>2. Alone' /\ CopyOK' /\ (\A u : InHand(u)' <=> InHand(u))
  BY <1>1, Zenon DEF LoopSound, Alone, CopyOK, InHand
<1>3. kinds \in Seq(Tasks) /\ posted \in Seq(Int) /\ Len(kinds) \in Nat /\ Len(posted) \in Nat
  <2>1. kinds \in Seq(Tasks) /\ posted \in Seq(Int)
    BY Zenon DEF LoopSound, Numbered
  <2> QED
    BY <2>1
<1>4. kinds' \in Seq(Tasks) /\ Len(kinds') = Len(kinds) + 1
  BY <1>1, <1>3
<1>5. /\ posted' \in Seq(Int) /\ Len(posted') = Len(posted) + 1
      /\ \A i \in 1..Len(posted) : posted'[i] = posted[i]
      /\ posted'[Len(posted) + 1] = Len(kinds) + 1
  BY <1>1, <1>3
<1>6. \A i \in 1..Len(posted) : posted[i] = Len(kinds) - Len(posted) + i
  BY Zenon DEF LoopSound, Numbered
<1>7. \A i \in 1..Len(posted') : posted'[i] = Len(kinds') - Len(posted') + i
  <2> TAKE i \in 1..Len(posted')
  <2>1. CASE i \in 1..Len(posted)
    <3>1. posted'[i] = Len(kinds) - Len(posted) + i
      BY <1>5, <1>6, <2>1, Zenon
    <3> QED
      BY <1>3, <1>4, <1>5, <3>1
  <2>2. CASE i = Len(posted) + 1
    BY <1>3, <1>4, <1>5, <2>2
  <2> QED
    BY <1>3, <1>5, <2>1, <2>2
<1>8. ran \in Seq(Int) /\ Len(ran) \in Nat
  <2>1. ran \in Seq(Int)
    BY Zenon DEF LoopSound, Numbered
  <2> QED
    BY <2>1
<1>9. /\ Len(kinds) = Len(ran) + 1 + Len(posted) => Len(kinds') = Len(ran) + 1 + Len(posted')
      /\ Len(kinds) = Len(ran) + Len(posted) => Len(kinds') = Len(ran) + Len(posted')
  BY <1>3, <1>4, <1>5, <1>8
<1>10. /\ \A t \in Threads : InHand(t)' =>
            fn'[t] = Len(ran') + 1 /\ Len(kinds') = Len(ran') + 1 + Len(posted')
       /\ (\A t \in Threads : ~InHand(t)') => Len(kinds') = Len(ran') + Len(posted')
  BY <1>1, <1>2, <1>9, Zenon DEF LoopSound, Numbered
<1>11. Numbered'
  BY <1>1, <1>4, <1>5, <1>7, <1>10, Zenon DEF LoopSound, Numbered
<1> QED
  BY <1>2, <1>11, Zenon

(* run() enters the loop, or fails because it is running. *)
LEMMA EnterKeeps ==
    ASSUME LoopSound, NEW t \in Threads, Enter(t)
    PROVE  Alone' /\ Numbered' /\ CopyOK'
<1>1. pc[t] = "enter" /\ UNCHANGED <<posted, kinds, ran, services, joinable, fn, todo>>
  BY Zenon DEF Enter, queueVars
<1>2. pc[t] \notin Looping /\ todo[t] = {}
  BY <1>1 DEF Looping, LoopSound, CopyOK
<1>3. joinable \/ t # Worker
  BY <1>1 DEF LoopSound, Alone
<1>4. CASE running /\ pc' = [pc EXCEPT ![t] = After(t)] /\ running' = running
  <2>1. After(t) \in Places \ Looping
    BY AfterLoop
  <2>2. ~joinable' => pc'[Worker] = "none"
    BY <1>1, <1>3, <1>4, Zenon DEF LoopSound, Alone, Threads
  <2>3. /\ Alone' /\ \A u \in Threads \ {t} : pc'[u] = pc[u]
        /\ \A u \in Threads : InHand(u)' <=> InHand(u)
    BY <1>2, <1>4, <2>1, <2>2, OutsideKeeps, Zenon DEF LoopSound
  <2> QED
    BY <1>1, <1>2, <2>3, SameNumbers, SameCopy, Zenon DEF LoopSound
<1>5. CASE ~running /\ running' = TRUE /\ pc' = [pc EXCEPT ![t] = "check"]
  <2>1. /\ pc' \in [Threads -> Places] /\ pc'[t] = "check"
        /\ \A u \in Threads \ {t} : pc'[u] = pc[u]
    <3>1. "check" \in Places
      BY Zenon DEF Places, Looping
    <3> QED
      BY <1>5, <3>1, Zenon DEF LoopSound, Alone
  <2>2. \A u \in Threads : pc[u] \notin Looping
    BY <1>5, Zenon DEF LoopSound, Alone
  <2>3. \A u, v \in Threads : pc'[u] \in Looping /\ pc'[v] \in Looping => u = v
    <3>1. \A u \in Threads \ {t} : pc'[u] \notin Looping
      BY <2>1, <2>2, Zenon
    <3> QED
      BY <3>1, Zenon
  <2>4. ~joinable' => pc'[Worker] = "none"
    BY <1>1, <1>3, <2>1, Zenon DEF LoopSound, Alone, Threads
  <2>5. Alone'
    BY <1>5, <2>1, <2>3, <2>4, Zenon DEF Alone
  <2>6. \A u \in Threads : InHand(u)' <=> InHand(u)
    BY <1>1, <2>1, Zenon DEF InHand
  <2> QED
    BY <1>1, <1>2, <2>1, <2>5, <2>6, SameNumbers, SameCopy, Zenon DEF LoopSound
<1> QED
  BY <1>4, <1>5, Zenon DEF Enter

(* The top of the loop. *)
LEMMA CheckKeeps ==
    ASSUME LoopSound, NEW t \in Threads, Check(t)
    PROVE  Alone' /\ Numbered' /\ CopyOK'
<1>1. /\ pc[t] = "check"
      /\ UNCHANGED <<posted, kinds, ran, services, running, joinable, fn, todo>>
  BY Zenon DEF Check, queueVars, flagVars, loopVars
<1>2. PICK x \in {"drain", "leave"} : pc' = [pc EXCEPT ![t] = x]
  BY Zenon DEF Check
<1>3. pc[t] \in Looping /\ todo[t] = {} /\ x \in Places
  <2>1. pc[t] \in Looping /\ x \in Places
    BY <1>1, Zenon DEF Places, Looping
  <2>2. todo[t] = {}
    BY <1>1, Zenon DEF LoopSound, CopyOK
  <2> QED
    BY <2>1, <2>2, Zenon
<1>4. Alone' /\ pc'[t] = x /\ \A u \in Threads \ {t} : pc'[u] = pc[u]
  BY <1>1, <1>2, <1>3, MoveKeeps, Zenon DEF LoopSound
<1>5. \A u \in Threads : InHand(u)' <=> InHand(u)
  BY <1>1, <1>4, Zenon DEF InHand
<1> QED
  BY <1>1, <1>3, <1>4, <1>5, SameNumbers, SameCopy, Zenon DEF LoopSound

(* drain_posted takes the oldest callback, or goes on. *)
LEMMA DrainKeeps ==
    ASSUME LoopSound, NEW t \in Threads, Drain(t)
    PROVE  Alone' /\ Numbered' /\ CopyOK'
<1>1. /\ pc[t] \in {"drain", "drainAgain"}
      /\ UNCHANGED <<kinds, ran, services, running, joinable>>
  BY Zenon DEF Drain, flagVars
<1>2. pc[t] \in Looping /\ ~InHand(t) /\ todo[t] = {}
  <2>1. pc[t] \in Looping /\ ~InHand(t) /\ pc[t] \notin {"poll", "leave"}
    BY <1>1 DEF Looping, InHand
  <2> QED
    BY <2>1, Zenon DEF LoopSound, CopyOK
<1>3. \A u \in Threads : ~InHand(u)
  BY <1>2, HandInLoop, Zenon DEF LoopSound, Alone
<1>4. CASE /\ posted # <<>> /\ fn' = [fn EXCEPT ![t] = Head(posted)] /\ posted' = Tail(posted)
           /\ pc' = [pc EXCEPT ![t] = IF @ = "drain" THEN "call" ELSE "callAgain"]
           /\ todo' = todo
  <2>1. PICK x \in {"call", "callAgain"} : pc' = [pc EXCEPT ![t] = x]
    BY <1>4, Zenon
  <2>2. x \in Places
    BY Zenon DEF Places, Looping
  <2>3. /\ Alone' /\ pc'[t] = x
        /\ \A u \in Threads \ {t} : pc'[u] = pc[u] /\ pc[u] \notin Looping
    BY <1>1, <1>2, <2>1, <2>2, MoveKeeps, Zenon DEF LoopSound
  <2>4. CopyOK'
    BY <1>1, <1>2, <1>4, <2>3, SameCopy, Zenon DEF LoopSound
  <2>5. InHand(t)' /\ \A u \in Threads \ {t} : ~InHand(u)'
    BY <1>3, <2>3, Zenon DEF InHand
  <2>6. /\ kinds \in Seq(Tasks) /\ ran \in Seq(Int) /\ posted \in Seq(Int)
        /\ fn \in [Threads -> Int] /\ Len(kinds) = Len(ran) + Len(posted)
        /\ \A i \in 1..Len(posted) : posted[i] = Len(kinds) - Len(posted) + i
    BY <1>3, Zenon DEF LoopSound, Numbered
  <2>7. Len(ran) \in Nat /\ Len(kinds) \in Nat /\ Len(posted) \in Nat \ {0}
    BY <1>4, <2>6
  <2>8. /\ posted' \in Seq(Int) /\ Len(posted') = Len(posted) - 1
        /\ Head(posted) = posted[1] /\ posted[1] \in Int
        /\ \A i \in 1..Len(posted') : posted'[i] = posted[i + 1]
    BY <1>4, <2>6
  <2>9. posted[1] = Len(ran) + 1 /\ Len(kinds) = Len(ran) + 1 + Len(posted')
    BY <2>6, <2>7, <2>8
  <2>10. \A i \in 1..Len(posted') : posted'[i] = Len(kinds) - Len(posted') + i
    BY <2>6, <2>7, <2>8
  <2>11. fn' \in [Threads -> Int] /\ fn'[t] = Len(ran) + 1
    BY <1>4, <2>6, <2>8, <2>9, Zenon
  <2>12. \A u \in Threads : InHand(u)' =>
            fn'[u] = Len(ran) + 1 /\ Len(kinds) = Len(ran) + 1 + Len(posted')
    BY <2>5, <2>9, <2>11, Zenon
  <2>13. Numbered'
    BY <1>1, <2>5, <2>6, <2>8, <2>10, <2>11, <2>12, Zenon DEF LoopSound, Numbered
  <2> QED
    BY <2>3, <2>4, <2>13, Zenon
<1>5. CASE /\ pc' = [pc EXCEPT ![t] = IF @ = "drain" THEN "poll" ELSE "check"]
           /\ todo' = [todo EXCEPT ![t] = IF pc[t] = "drain" THEN services ELSE {}]
           /\ UNCHANGED <<fn, posted>>
  <2>1. PICK x \in {"poll", "check"} :
            /\ pc' = [pc EXCEPT ![t] = x]
            /\ todo' = [todo EXCEPT ![t] = IF x = "poll" THEN services ELSE {}]
    BY <1>5, Zenon
  <2>2. x \in Places
    BY Zenon DEF Places, Looping
  <2>3. /\ Alone' /\ pc'[t] = x /\ \A u \in Threads \ {t} : pc'[u] = pc[u]
    BY <1>1, <1>2, <2>1, <2>2, MoveKeeps, Zenon DEF LoopSound
  <2>4. \A u \in Threads : InHand(u)' <=> InHand(u)
    BY <1>3, <2>3, Zenon DEF InHand
  <2>5. CopyOK'
    <3>1. todo \in [Threads -> SUBSET services]
      BY Zenon DEF LoopSound, CopyOK
    <3>2. /\ todo' \in [Threads -> SUBSET services]
          /\ todo'[t] = IF x = "poll" THEN services ELSE {}
          /\ \A u \in Threads \ {t} : todo'[u] = todo[u]
      BY <2>1, <3>1, Zenon
    <3>3. \A u \in Threads : pc'[u] \notin {"poll", "leave"} => todo'[u] = {}
      BY <2>3, <3>2, Zenon DEF LoopSound, CopyOK
    <3> QED
      BY <1>1, <3>2, <3>3, Zenon DEF CopyOK
  <2> QED
    BY <1>1, <1>5, <2>3, <2>4, <2>5, SameNumbers, Zenon DEF LoopSound
<1> QED
  BY <1>4, <1>5, Zenon DEF Drain

(* The callback in hand runs: it is the next in the order. *)
LEMMA CallKeeps ==
    ASSUME LoopSound, NEW t \in Threads, Call(t)
    PROVE  Alone' /\ Numbered' /\ CopyOK'
<1>1. /\ InHand(t) /\ ran' = Append(ran, fn[t]) /\ fn' = [fn EXCEPT ![t] = 0]
      /\ UNCHANGED <<posted, kinds, services, running, joinable, todo>>
  BY Zenon DEF Call, InHand
<1>2. PICK x \in {"leave", "drain", "drainAgain"} : pc' = [pc EXCEPT ![t] = x]
  BY Zenon DEF Call, Fail
<1>3. x \in Places /\ x \notin {"call", "callAgain"}
  BY Zenon DEF Places, Looping
<1>4. pc[t] \in Looping /\ todo[t] = {}
  <2>1. pc[t] \notin {"poll", "leave"}
    BY <1>1, Zenon DEF InHand
  <2> QED
    BY <1>1, <2>1, HandInLoop, Zenon DEF LoopSound, CopyOK
<1>5. /\ Alone' /\ pc'[t] = x
      /\ \A u \in Threads \ {t} : pc'[u] = pc[u] /\ pc[u] \notin Looping
  BY <1>1, <1>2, <1>3, <1>4, MoveKeeps, Zenon DEF LoopSound
<1>6. CopyOK'
  BY <1>1, <1>4, <1>5, SameCopy, Zenon DEF LoopSound
<1>7. \A u \in Threads : ~InHand(u)'
  <2>1. \A u \in Threads \ {t} : ~InHand(u)
    BY <1>5, HandInLoop, Zenon
  <2> QED
    BY <1>3, <1>5, <2>1, Zenon DEF InHand
<1>8. /\ kinds \in Seq(Tasks) /\ ran \in Seq(Int) /\ posted \in Seq(Int)
      /\ fn \in [Threads -> Int] /\ \A i \in 1..Len(ran) : ran[i] = i
      /\ fn[t] = Len(ran) + 1 /\ Len(kinds) = Len(ran) + 1 + Len(posted)
  BY <1>1, Zenon DEF LoopSound, Numbered
<1>9. Len(ran) \in Nat /\ Len(posted) \in Nat
  BY <1>8
<1>10. /\ ran' \in Seq(Int) /\ Len(ran') = Len(ran) + 1
       /\ \A i \in 1..Len(ran) : ran'[i] = ran[i]
       /\ ran'[Len(ran) + 1] = fn[t]
  BY <1>1, <1>8
<1>11. \A i \in 1..Len(ran') : ran'[i] = i
  <2>1. \A i \in 1..Len(ran') : i \in 1..Len(ran) \/ i = Len(ran) + 1
    BY <1>9, <1>10
  <2> QED
    BY <1>8, <1>10, <2>1, Zenon
<1>12. Len(kinds) = Len(ran') + Len(posted)
  BY <1>8, <1>9, <1>10
<1>13. fn' \in [Threads -> Int]
  <2>1. 0 \in Int
    OBVIOUS
  <2> QED
    BY <1>1, <1>8, <2>1, Zenon
<1>14. Numbered'
  BY <1>1, <1>7, <1>8, <1>10, <1>11, <1>12, <1>13, Zenon DEF LoopSound, Numbered
<1> QED
  BY <1>5, <1>6, <1>14, Zenon

(* A service of the copy is polled. *)
LEMMA PollKeeps ==
    ASSUME LoopSound, NEW t \in Threads, Poll(t)
    PROVE  Alone' /\ Numbered' /\ CopyOK'
<1>1. /\ pc[t] = "poll"
      /\ UNCHANGED <<posted, kinds, ran, services, running, joinable, fn>>
  BY Zenon DEF Poll, queueVars, flagVars
<1>2. pc[t] \in Looping
  BY <1>1, Zenon DEF Looping
<1>3. PICK x \in {"drainAgain", "poll", "leave"} :
            /\ pc' = [pc EXCEPT ![t] = x]
            /\ \/ todo[t] = {} /\ todo' = todo
               \/ x # "drainAgain" /\ \E s \in todo[t] : todo' = [todo EXCEPT ![t] = @ \ {s}]
  <2>1. CASE todo[t] = {} /\ todo' = todo /\ pc' = [pc EXCEPT ![t] = "drainAgain"]
    BY <2>1, Zenon
  <2>2. ASSUME NEW s \in todo[t], todo' = [todo EXCEPT ![t] = @ \ {s}],
               pc' = pc \/ pc' = [pc EXCEPT ![t] = "leave"]
        PROVE  \E x \in {"poll", "leave"} : pc' = [pc EXCEPT ![t] = x]
    <3>1. pc = [pc EXCEPT ![t] = "poll"]
      BY <1>1, Zenon DEF LoopSound, Alone
    <3> QED
      BY <2>2, <3>1, Zenon
  <2>3. \/ todo[t] = {} /\ todo' = todo /\ pc' = [pc EXCEPT ![t] = "drainAgain"]
        \/ \E s \in todo[t] : /\ todo' = [todo EXCEPT ![t] = @ \ {s}]
                              /\ pc' = pc \/ pc' = [pc EXCEPT ![t] = "leave"]
    BY Zenon DEF Poll, Fail
  <2>4. "poll" # "drainAgain" /\ "leave" # "drainAgain"
    OBVIOUS
  <2> QED
    BY <2>1, <2>2, <2>3, <2>4, Zenon
<1>4. x \in Places /\ x \notin {"call", "callAgain"}
  BY Zenon DEF Places, Looping
<1>5. Alone' /\ pc'[t] = x /\ \A u \in Threads \ {t} : pc'[u] = pc[u]
  BY <1>1, <1>2, <1>3, <1>4, MoveKeeps, Zenon DEF LoopSound
<1>6. \A u \in Threads : InHand(u)' <=> InHand(u)
  BY <1>1, <1>4, <1>5, Zenon DEF InHand
<1>7. CopyOK'
  <2>1. CASE todo[t] = {} /\ todo' = todo
    BY <1>1, <1>5, <2>1, SameCopy, Zenon DEF LoopSound
  <2>2. ASSUME x # "drainAgain", NEW s \in todo[t], todo' = [todo EXCEPT ![t] = @ \ {s}]
        PROVE  CopyOK'
    <3>1. todo \in [Threads -> SUBSET services]
      BY Zenon DEF LoopSound, CopyOK
    <3>2. todo[t] \ {s} \in SUBSET services
      BY <3>1, Zenon
    <3>3. /\ todo' \in [Threads -> SUBSET services]
          /\ \A u \in Threads \ {t} : todo'[u] = todo[u]
      BY <2>2, <3>1, <3>2, Zenon
    <3>4. \A u \in Threads : pc'[u] \notin {"poll", "leave"} => todo'[u] = {}
      BY <1>5, <2>2, <3>3, Zenon DEF LoopSound, CopyOK
    <3> QED
      BY <1>1, <3>3, <3>4, Zenon DEF CopyOK
  <2> QED
    BY <1>3, <2>1, <2>2, Zenon
<1> QED
  BY <1>1, <1>5, <1>6, <1>7, SameNumbers, Zenon DEF LoopSound

(* The loop ends: _running is cleared and the copy of the services gone. *)
LEMMA LeaveKeeps ==
    ASSUME LoopSound, NEW t \in Threads, Leave(t)
    PROVE  Alone' /\ Numbered' /\ CopyOK'
<1>1. /\ pc[t] = "leave" /\ running' = FALSE /\ todo' = [todo EXCEPT ![t] = {}]
      /\ pc' = [pc EXCEPT ![t] = After(t)]
      /\ UNCHANGED <<posted, kinds, ran, services, joinable, fn>>
  BY Zenon DEF Leave, queueVars
<1>2. pc[t] \in Looping
  BY <1>1, Zenon DEF Looping
<1>3. /\ pc' \in [Threads -> Places] /\ pc'[t] = After(t)
      /\ \A u \in Threads \ {t} : pc'[u] = pc[u]
  BY <1>1, AfterLoop, Zenon DEF LoopSound, Alone
<1>4. \A u \in Threads : pc'[u] \notin Looping
  BY <1>2, <1>3, AfterLoop, Zenon DEF LoopSound, Alone
<1>5. ~joinable' => pc'[Worker] = "none"
  <2>1. joinable \/ t # Worker
    BY <1>1 DEF LoopSound, Alone
  <2> QED
    BY <1>1, <1>3, <2>1, Zenon DEF LoopSound, Alone, Threads
<1>6. Alone'
  BY <1>3, <1>4, <1>5, Zenon DEF Alone
<1>7. \A u \in Threads : InHand(u)' <=> InHand(u)
  <2>1. \A u \in Threads : ~InHand(u)'
    BY <1>4, Zenon DEF InHand, Looping
  <2>2. ~InHand(t)
    BY <1>1 DEF InHand
  <2>3. \A u \in Threads : ~InHand(u)
    BY <1>2, <2>2, HandInLoop, Zenon DEF LoopSound, Alone
  <2> QED
    BY <2>1, <2>3, Zenon
<1>8. CopyOK'
  <2>1. todo \in [Threads -> SUBSET services]
    BY Zenon DEF LoopSound, CopyOK
  <2>2. /\ todo' \in [Threads -> SUBSET services] /\ todo'[t] = {}
        /\ \A u \in Threads \ {t} : todo'[u] = todo[u]
    BY <1>1, <2>1, Zenon
  <2>3. \A u \in Threads : pc'[u] \notin {"poll", "leave"} => todo'[u] = {}
    BY <1>3, <2>2, Zenon DEF LoopSound, CopyOK
  <2> QED
    BY <1>1, <2>2, <2>3, Zenon DEF CopyOK
<1> QED
  BY <1>1, <1>6, <1>7, <1>8, SameNumbers, Zenon DEF LoopSound

(* A thread outside the loop that moves outside it, and copies nothing. *)
LEMMA StepOutside ==
    ASSUME LoopSound, NEW t \in Threads, NEW x \in Places \ Looping, pc[t] \notin Looping,
           pc' = [pc EXCEPT ![t] = x],
           UNCHANGED <<posted, kinds, ran, services, running, fn, todo>>,
           ~joinable' => pc'[Worker] = "none"
    PROVE  Alone' /\ Numbered' /\ CopyOK'
<1>1. /\ Alone' /\ \A u \in Threads \ {t} : pc'[u] = pc[u]
      /\ \A u \in Threads : InHand(u)' <=> InHand(u)
  BY OutsideKeeps, Zenon DEF LoopSound
<1>2. todo[t] = {}
  BY Zenon DEF LoopSound, CopyOK, Looping
<1> QED
  BY <1>1, <1>2, SameNumbers, SameCopy, Zenon DEF LoopSound

(* A step that moves no thread and touches neither queue nor services. *)
LEMMA StepAside ==
    ASSUME LoopSound, UNCHANGED <<posted, kinds, ran, services, running, joinable, pc, fn, todo>>
    PROVE  Alone' /\ Numbered' /\ CopyOK'
<1>1. Alone'
  BY Zenon DEF LoopSound, Alone
<1>2. Numbered'
  BY Zenon DEF LoopSound, Numbered, InHand
<1>3. CopyOK'
  BY Zenon DEF LoopSound, CopyOK
<1> QED
  BY <1>1, <1>2, <1>3, Zenon

(* The places of a thread outside the loop. *)
LEMMA OutsidePlaces ==
    \A x \in {"idle", "starting", "enter", "joining", "none", "report", "exited"} :
        x \in Places \ Looping
<1>1. {"idle", "starting", "enter", "joining", "none", "report", "exited"} \cap Looping = {}
  BY DEF Looping
<1> QED
  BY <1>1, Zenon DEF Places

(* A service comes, or goes when no loop can have a copy of it. *)
LEMMA ServiceKeeps ==
    ASSUME LoopSound, NEW s \in Services, RegisterService(s) \/ UnregisterService(s)
    PROVE  Alone' /\ Numbered' /\ CopyOK'
<1>1. UNCHANGED <<posted, kinds, ran, running, joinable, pc, fn, todo>>
  BY Zenon DEF RegisterService, UnregisterService, queueVars, flagVars, loopVars
<1>2. Alone'
  BY <1>1, Zenon DEF LoopSound, Alone
<1>3. Numbered'
  BY <1>1, Zenon DEF LoopSound, Numbered, InHand
<1>4. CASE RegisterService(s)
  <2>1. services \subseteq services'
    BY <1>4, Zenon DEF RegisterService
  <2>2. todo \in [Threads -> SUBSET services']
    BY <2>1, Zenon DEF LoopSound, CopyOK
  <2>3. CopyOK'
    BY <1>1, <2>2, Zenon DEF LoopSound, CopyOK
  <2> QED
    BY <1>2, <1>3, <2>3, Zenon
<1>5. CASE UnregisterService(s)
  <2>1. pc[Owner] = "idle" /\ pc[Worker] = "none"
    BY <1>5, Zenon DEF UnregisterService, LoopSound, Alone
  <2>2. \A t \in Threads : pc[t] \notin {"poll", "leave"}
    BY <2>1 DEF Threads
  <2>3. \A t \in Threads : todo[t] = {}
    BY <2>2, Zenon DEF LoopSound, CopyOK
  <2>4. todo \in [Threads -> SUBSET services']
    BY <2>3, Zenon DEF LoopSound, CopyOK
  <2>5. CopyOK'
    BY <1>1, <2>3, <2>4, Zenon DEF LoopSound, CopyOK
  <2> QED
    BY <1>2, <1>3, <2>5, Zenon
<1> QED
  BY <1>4, <1>5, Zenon

(* run_async: the worker is at the door of the loop, its owner waits. *)
LEMMA RunAsyncKeeps ==
    ASSUME LoopSound, RunAsync
    PROVE  Alone' /\ Numbered' /\ CopyOK'
<1>1. /\ pc[Owner] = "idle" /\ pc[Worker] = "none" /\ joinable' = TRUE
      /\ pc' = [pc EXCEPT ![Owner] = "starting", ![Worker] = "enter"]
      /\ UNCHANGED <<posted, kinds, ran, services, running, fn, todo>>
  BY Zenon DEF RunAsync, LoopSound, Alone, queueVars, loopVars
<1>2. /\ pc \in [Threads -> Places] /\ "starting" \in Places \ Looping
      /\ "enter" \in Places \ Looping
  BY OutsidePlaces, Zenon DEF LoopSound, Alone
<1>3. pc'[Owner] = "starting" /\ pc'[Worker] = "enter" /\ pc' \in [Threads -> Places]
  BY <1>1, <1>2 DEF Threads, Owner, Worker
<1>4. \A t \in Threads : t = Owner \/ t = Worker
  BY Zenon DEF Threads
<1>5. \A t \in Threads : pc'[t] \notin Looping
  BY <1>2, <1>3, <1>4, Zenon
<1>6. Alone'
  BY <1>1, <1>3, <1>5, Zenon DEF Alone
<1>7. \A t \in Threads : ~InHand(t) /\ ~InHand(t)' /\ pc[t] \notin {"poll", "leave"}
  BY <1>1, <1>3, <1>4 DEF InHand
<1>8. \A t \in Threads : InHand(t)' <=> InHand(t)
  BY <1>7, Zenon
<1>9. CopyOK'
  BY <1>1, <1>7, Zenon DEF LoopSound, CopyOK
<1> QED
  BY <1>1, <1>6, <1>8, <1>9, SameNumbers, Zenon DEF LoopSound

(* The owner joins a worker that has ended. *)
LEMMA JoinedKeeps ==
    ASSUME LoopSound, pc[Owner] \in {"idle", "joining"}, pc[Worker] \in {"none", "exited"},
           joinable' = FALSE, pc' = [pc EXCEPT ![Owner] = "idle", ![Worker] = "none"],
           UNCHANGED <<posted, kinds, ran, services, running, fn, todo>>
    PROVE  Alone' /\ Numbered' /\ CopyOK'
<1>1. pc \in [Threads -> Places] /\ "idle" \in Places \ Looping /\ "none" \in Places \ Looping
  BY OutsidePlaces, Zenon DEF LoopSound, Alone
<1>2. pc'[Owner] = "idle" /\ pc'[Worker] = "none" /\ pc' \in [Threads -> Places]
  BY <1>1 DEF Threads, Owner, Worker
<1>3. \A t \in Threads : t = Owner \/ t = Worker
  BY Zenon DEF Threads
<1>4. \A t \in Threads : pc'[t] \notin Looping
  BY <1>1, <1>2, <1>3, Zenon
<1>5. Alone'
  BY <1>2, <1>4, Zenon DEF Alone
<1>6. \A t \in Threads : ~InHand(t) /\ ~InHand(t)' /\ pc[t] \notin {"poll", "leave"}
  BY <1>2, <1>3 DEF InHand
<1>7. \A t \in Threads : InHand(t)' <=> InHand(t)
  BY <1>6, Zenon
<1>8. CopyOK'
  BY <1>6, Zenon DEF LoopSound, CopyOK
<1> QED
  BY <1>5, <1>7, <1>8, SameNumbers, Zenon DEF LoopSound

(* The steps of a thread between two loops. *)
LEMMA BetweenLoopsKeeps ==
    ASSUME LoopSound, Run \/ Started \/ Join \/ Report
    PROVE  Alone' /\ Numbered' /\ CopyOK'
<1>1. Owner \in Threads /\ Worker \in Threads /\ Owner # Worker
  BY DEF Threads, Owner, Worker
<1>2. pc \in [Threads -> Places]
  BY Zenon DEF LoopSound, Alone
<1>3. CASE Run \/ Started
  <2>1. PICK x \in {"idle", "enter"} : pc' = [pc EXCEPT ![Owner] = x]
    BY <1>3, Zenon DEF Run, Started
  <2>2. /\ pc[Owner] \in {"idle", "starting"}
        /\ UNCHANGED <<posted, kinds, ran, services, running, joinable, fn, todo>>
    BY <1>3, Zenon DEF Run, Started, queueVars, flagVars, loopVars
  <2>3. x \in Places \ Looping /\ pc[Owner] \notin Looping
    BY <2>2, OutsidePlaces, Zenon
  <2>4. ~joinable' => pc'[Worker] = "none"
    BY <1>1, <1>2, <2>1, <2>2, Zenon DEF LoopSound, Alone
  <2> QED
    BY <1>1, <2>1, <2>2, <2>3, <2>4, StepOutside, Zenon
<1>4. CASE Join
  <2>1. /\ pc[Owner] = "idle" /\ pc[Worker] = "exited" /\ joinable' = FALSE
        /\ pc' = [pc EXCEPT ![Worker] = "none"]
        /\ UNCHANGED <<posted, kinds, ran, services, running, fn, todo>>
    BY <1>4, Zenon DEF Join, queueVars, flagVars, loopVars
  <2>2. "none" \in Places \ Looping /\ pc[Worker] \notin Looping
    BY <2>1, OutsidePlaces, Zenon
  <2>3. pc'[Worker] = "none"
    BY <1>1, <1>2, <2>1, Zenon
  <2> QED
    BY <1>1, <2>1, <2>2, <2>3, StepOutside, Zenon
<1>5. CASE Report
  <2>1. /\ pc[Worker] = "report" /\ pc' = [pc EXCEPT ![Worker] = "exited"]
        /\ UNCHANGED <<posted, kinds, ran, services, running, joinable, fn, todo>>
    BY <1>5, Zenon DEF Report, queueVars, loopVars
  <2>2. "exited" \in Places \ Looping /\ pc[Worker] \notin Looping
    BY <2>1, OutsidePlaces, Zenon
  <2>3. joinable
    BY <2>1 DEF LoopSound, Alone
  <2> QED
    BY <1>1, <2>1, <2>2, <2>3, StepOutside, Zenon
<1> QED
  BY <1>3, <1>4, <1>5, Zenon

(* Every step of an application that has an IoContext of its own. *)
LEMMA PlainKeeps ==
    ASSUME LoopSound, IoNext
    PROVE  Alone' /\ Numbered' /\ CopyOK'
<1>1. ASSUME NEW k \in Kinds, Post(k) PROVE Alone' /\ Numbered' /\ CopyOK'
  <2>1. k \in Tasks
    BY Zenon DEF Tasks
  <2> QED
    BY <1>1, <2>1, PostKeeps, Zenon
<1>2. CASE Stop \/ Restart
  <2>1. UNCHANGED <<posted, kinds, ran, services, running, joinable, pc, fn, todo>>
    BY <1>2, Zenon DEF Stop, Restart, queueVars, loopVars
  <2> QED
    BY <2>1, StepAside, Zenon
<1>3. CASE RunAsync
  BY <1>3, RunAsyncKeeps, Zenon
<1>4. CASE Run \/ Started \/ Join \/ Report
  BY <1>4, BetweenLoopsKeeps, Zenon
<1>5. ASSUME NEW s \in Services, RegisterService(s) \/ UnregisterService(s)
      PROVE  Alone' /\ Numbered' /\ CopyOK'
  BY <1>5, ServiceKeeps, Zenon
<1>6. ASSUME NEW t \in Threads, Loop(t) PROVE Alone' /\ Numbered' /\ CopyOK'
  BY <1>6, EnterKeeps, CheckKeeps, DrainKeeps, CallKeeps, PollKeeps, LeaveKeeps, Zenon
     DEF Loop
<1> QED
  BY <1>1, <1>2, <1>3, <1>4, <1>5, <1>6, Zenon DEF IoNext

(* Every step of an application that uses AsyncClient or AsyncServer. *)
LEMMA FacadeKeeps ==
    ASSUME LoopSound, AsyncNext
    PROVE  LoopSound'
<1>1. Calls \subseteq Tasks /\ Owner \in Threads /\ Worker \in Threads /\ Owner # Worker
  <2>1. Owner # Worker
    BY DEF Owner, Worker
  <2> QED
    BY <2>1, Zenon DEF Tasks, Threads
<1>2. ASSUME NEW s \in Services, Construct(s) PROVE LoopSound'
  <2>1. RegisterService(s) /\ call' = call
    BY <1>2, Zenon DEF Construct, asyncVars
  <2> QED
    BY <2>1, ServiceKeeps, Zenon DEF LoopSound
<1>3. ASSUME NEW op \in Calls, Start(op) PROVE LoopSound'
  <2>1. RunAsync /\ call' = op
    BY <1>3, Zenon DEF Start
  <2> QED
    BY <2>1, RunAsyncKeeps, Zenon DEF LoopSound
<1>4. ASSUME NEW op \in Calls, Post(op), call' \in Calls \cup {"none"} PROVE LoopSound'
  BY <1>1, <1>4, PostKeeps, Zenon DEF LoopSound
<1>5. ASSUME NEW op \in Calls, PostCall(op) PROVE LoopSound'
  <2>1. Post(op) /\ call' = call
    BY <1>5, Zenon DEF PostCall, asyncVars
  <2> QED
    BY <1>4, <2>1, Zenon DEF LoopSound
<1>6. CASE Resume
  <2>1. call \in Calls /\ call' = "none"
    BY <1>6, Zenon DEF Resume, LoopSound
  <2>2. CASE Post(call)
    BY <1>4, <2>1, <2>2, Zenon
  <2>3. CASE UNCHANGED ioVars
    <3>1. UNCHANGED <<posted, kinds, ran, services, running, joinable, pc, fn, todo>>
      BY <2>3, Zenon DEF ioVars, queueVars, flagVars, loopVars
    <3> QED
      BY <2>1, <3>1, StepAside, Zenon DEF LoopSound
  <2> QED
    BY <1>6, <2>2, <2>3, Zenon DEF Resume
<1>7. CASE ClosePeer
  <2>1. Post("send") /\ call' = call /\ "send" \in Calls
    BY <1>7, Zenon DEF ClosePeer, asyncVars, Calls
  <2> QED
    BY <1>4, <2>1, Zenon DEF LoopSound
<1>8. CASE AsyncStop
  <2>1. /\ pc[Owner] = "idle" /\ pc' = [pc EXCEPT ![Owner] = "joining"] /\ call' = call
        /\ UNCHANGED <<posted, kinds, ran, services, running, joinable, fn, todo>>
    BY <1>8, Zenon DEF AsyncStop, queueVars, loopVars, asyncVars
  <2>2. "joining" \in Places \ Looping /\ pc[Owner] \notin Looping
    BY <2>1, OutsidePlaces, Zenon
  <2>3. ~joinable' => pc'[Worker] = "none"
    BY <1>1, <2>1, Zenon DEF LoopSound, Alone
  <2> QED
    BY <1>1, <2>1, <2>2, <2>3, StepOutside, Zenon DEF LoopSound
<1>9. CASE Stopped
  <2>1. /\ pc[Owner] \in {"idle", "joining"} /\ pc[Worker] \in {"none", "exited"}
        /\ joinable' = FALSE /\ pc' = [pc EXCEPT ![Owner] = "idle", ![Worker] = "none"]
        /\ UNCHANGED <<posted, kinds, ran, services, running, fn, todo>> /\ call' = call
    BY <1>9, Zenon DEF Stopped, queueVars, flagVars, loopVars
  <2> QED
    BY <2>1, JoinedKeeps, Zenon DEF LoopSound
<1>10. CASE OwnerStarted
  <2>1. Started /\ call' = call
    BY <1>10, Zenon DEF OwnerStarted, asyncVars
  <2> QED
    BY <2>1, BetweenLoopsKeeps, Zenon DEF LoopSound
<1>11. CASE WorkerCalls
  <2>1. Call(Worker) /\ call' = call
    BY <1>11, Zenon DEF WorkerCalls
  <2> QED
    BY <1>1, <2>1, CallKeeps, Zenon DEF LoopSound
<1>12. CASE WorkerPolls
  <2>1. Poll(Worker) /\ call' = call
    BY <1>12, Zenon DEF WorkerPolls
  <2> QED
    BY <1>1, <2>1, PollKeeps, Zenon DEF LoopSound
<1>13. CASE WorkerLoops
  <2>1. /\ Enter(Worker) \/ Check(Worker) \/ Drain(Worker) \/ Leave(Worker) \/ Report
        /\ call' = call
    BY <1>13, Zenon DEF WorkerLoops, asyncVars
  <2> QED
    BY <1>1, <2>1, EnterKeeps, CheckKeeps, DrainKeeps, LeaveKeeps, BetweenLoopsKeeps, Zenon
       DEF LoopSound
<1> QED
  BY <1>2, <1>3, <1>5, <1>6, <1>7, <1>8, <1>9, <1>10, <1>11, <1>12, <1>13, Zenon DEF AsyncNext

-----------------------------------------------------------------------------
(* The theorems.                                                           *)

(* Nothing is posted, no loop runs, and no service is there at the start. *)
LEMMA LoopSoundInit == AsyncInit => LoopSound
<1> SUFFICES ASSUME AsyncInit PROVE LoopSound
  OBVIOUS
<1>1. /\ posted = <<>> /\ kinds = <<>> /\ ran = <<>> /\ joinable = FALSE /\ call = "none"
      /\ pc = [t \in Threads |-> IF t = Owner THEN "idle" ELSE "none"]
      /\ fn = [t \in Threads |-> 0] /\ todo = [t \in Threads |-> {}]
  BY Zenon DEF AsyncInit, IoInit
<1>2. "idle" \in Places \ Looping /\ "none" \in Places \ Looping
  BY OutsidePlaces, Zenon
<1>3. Worker \in Threads /\ Worker # Owner
  BY DEF Threads, Owner, Worker
<1>4. pc \in [Threads -> Places] /\ pc[Worker] = "none"
  BY <1>1, <1>2, <1>3, Zenon
<1>5. \A t \in Threads : pc[t] \notin Looping
  BY <1>1, <1>2, Zenon
<1>6. Alone
  BY <1>4, <1>5, Zenon DEF Alone
<1>7. \A t \in Threads : ~InHand(t)
  BY <1>5, HandInLoop, Zenon
<1>8. /\ <<>> \in Seq(Tasks) /\ <<>> \in Seq(Int) /\ 0 \in Int
      /\ Len(<<>>) = Len(<<>>) + Len(<<>>) /\ \A i \in 1..Len(<<>>) : FALSE
  OBVIOUS
<1>9. Numbered
  BY <1>1, <1>7, <1>8, Zenon DEF Numbered
<1>10. CopyOK
  BY <1>1, Zenon DEF CopyOK
<1> QED
  BY <1>1, <1>6, <1>9, <1>10, Zenon DEF LoopSound

(* Every step keeps the invariant. *)
LEMMA AppNextInvariant ==
    ASSUME LoopSound, [AppNext]_allVars
    PROVE  LoopSound'
<1>1. CASE facade /\ AsyncNext
  BY <1>1, FacadeKeeps, Zenon
<1>2. CASE IoNext /\ UNCHANGED asyncVars
  <2>1. call' = call
    BY <1>2, Zenon DEF asyncVars
  <2> QED
    BY <1>2, <2>1, PlainKeeps, Zenon DEF LoopSound
<1>3. CASE UNCHANGED allVars
  <2>1. /\ UNCHANGED <<posted, kinds, ran, services, running, joinable, pc, fn, todo>>
        /\ call' = call
    BY <1>3, Zenon DEF allVars, ioVars, queueVars, flagVars, loopVars, asyncVars
  <2> QED
    BY <2>1, StepAside, Zenon DEF LoopSound
<1> QED
  BY <1>1, <1>2, <1>3, Zenon DEF AppNext

(* The invariant holds in every reachable state. *)
LEMMA LoopInvariance == AppSpec => []LoopSound
<1>1. AsyncInit => LoopSound
  BY LoopSoundInit
<1>2. LoopSound /\ [AppNext]_allVars => LoopSound'
  BY AppNextInvariant, Zenon
<1> QED
  BY <1>1, <1>2, PTL DEF AppSpec

(* Callbacks run once each and in the order they were posted, whichever    *)
(* thread runs the loop and however often it is stopped and restarted.     *)
THEOREM CallbacksRunInOrder == AppSpec => []CallbacksInOrder
<1>1. LoopSound => CallbacksInOrder
  BY DEF LoopSound, Numbered, CallbacksInOrder
<1> QED
  BY <1>1, LoopInvariance, PTL

(* No loop polls a service that is not registered: stop and join before a  *)
(* service is destroyed is enough.                                         *)
THEOREM PolledAreAlive == AppSpec => []PolledIsAlive
<1>1. LoopSound => PolledIsAlive
  BY Zenon DEF LoopSound, CopyOK, PolledIsAlive
<1> QED
  BY <1>1, LoopInvariance, PTL

-----------------------------------------------------------------------------
(* The table of requests.                                                  *)

(* The inductive invariant.                                                *)

(* The table and the promises: a request that is pending waits, and so     *)
(* does one that has not been made. *)
TableSound ==
    /\ made \in Seq([timed : BOOLEAN, session : Int]) /\ Len(made) <= MaxRequests
    /\ future \in [Requests -> Values \cup Failures \cup {Waiting}]
    /\ pending \subseteq 1..Len(made) /\ unknown \subseteq 1..Len(made)
    /\ \A k \in pending : future[k] = Waiting
    /\ \A k \in Requests : k > Len(made) => future[k] = Waiting

(* An answer carries the number of the request it answers. *)
FramesOK ==
    /\ session \in Int /\ sessions \in Int
    /\ toServer \in Seq(Requests)
    /\ unanswered \subseteq [request : Requests, session : Int]
    /\ toClient \in Seq([kind : {"response", "error"}, id : Requests, payload : Requests])
    /\ \A i \in 1..Len(toClient) : toClient[i].payload = toClient[i].id

(* A request is in one place on its way to the server and back. *)
OnceOnTheWay ==
    /\ \A i, j \in 1..Len(toServer) : toServer[i] = toServer[j] => i = j
    /\ \A u, v \in unanswered : u.request = v.request => u = v
    /\ \A i, j \in 1..Len(toClient) : toClient[i].id = toClient[j].id => i = j
    /\ \A i \in 1..Len(toServer), u \in unanswered : toServer[i] # u.request
    /\ \A i \in 1..Len(toServer), j \in 1..Len(toClient) : toServer[i] # toClient[j].id
    /\ \A u \in unanswered, j \in 1..Len(toClient) : u.request # toClient[j].id

(* A request that is on its way is pending, or its caller was told that it *)
(* timed out or was cancelled. *)
Expected(k) == k \in pending \/ future[k].kind \in {"timeout", "closed"}

OnTheWayExpected ==
    /\ \A i \in 1..Len(toServer) : toServer[i] <= Len(made) /\ Expected(toServer[i])
    /\ \A u \in unanswered : u.request <= Len(made) /\ Expected(u.request)
    /\ \A i \in 1..Len(toClient) :
            toClient[i].id <= Len(made) /\ Expected(toClient[i].id)

ReplySound == TableSound /\ FramesOK /\ OnceOnTheWay /\ OnTheWayExpected /\ AnswerIsOwn

-----------------------------------------------------------------------------
(* Lemmas about queues.                                                    *)

(* The tail of a queue: its length and its elements. *)
LEMMA TailOfQueue ==
    ASSUME NEW S, NEW s \in Seq(S), s # <<>>
    PROVE  /\ Tail(s) \in Seq(S) /\ Len(Tail(s)) = Len(s) - 1 /\ Len(s) \in Nat \ {0}
           /\ Head(s) = s[1] /\ s[1] \in S
           /\ \A i \in 1..Len(Tail(s)) : Tail(s)[i] = s[i + 1] /\ i + 1 \in 1..Len(s)
OBVIOUS

(* A queue with one more element. *)
LEMMA AppendToQueue ==
    ASSUME NEW S, NEW s \in Seq(S), NEW e \in S
    PROVE  /\ Append(s, e) \in Seq(S) /\ Len(Append(s, e)) = Len(s) + 1 /\ Len(s) \in Nat
           /\ \A i \in 1..Len(s) : Append(s, e)[i] = s[i] /\ i \in 1..Len(Append(s, e))
           /\ Append(s, e)[Len(s) + 1] = e
           /\ \A i \in 1..Len(Append(s, e)) : i \in 1..Len(s) \/ i = Len(s) + 1
OBVIOUS

(* What is on its way is a number of a request. *)
LEMMA FrameFields ==
    ASSUME FramesOK
    PROVE  /\ \A i \in 1..Len(toServer) : toServer[i] \in Requests
           /\ \A u \in unanswered : u.request \in Requests /\ u.session \in Int
           /\ \A i \in 1..Len(toClient) :
                /\ toClient[i].kind \in {"response", "error"}
                /\ toClient[i].id \in Requests /\ toClient[i].payload = toClient[i].id
<1>1. \A i \in 1..Len(toServer) : toServer[i] \in Requests
  BY DEF FramesOK
<1>2. \A u \in unanswered : u.request \in Requests /\ u.session \in Int
  BY DEF FramesOK
<1>3. \A i \in 1..Len(toClient) :
        /\ toClient[i].kind \in {"response", "error"}
        /\ toClient[i].id \in Requests /\ toClient[i].payload = toClient[i].id
  <2>1. \A i \in 1..Len(toClient) :
            toClient[i] \in [kind : {"response", "error"}, id : Requests, payload : Requests]
    <3> DEFINE R == [kind : {"response", "error"}, id : Requests, payload : Requests]
    <3>1. toClient \in Seq(R)
      BY Zenon DEF FramesOK
    <3> HIDE DEF R
    <3>2. \A i \in 1..Len(toClient) : toClient[i] \in R
      BY <3>1
    <3> QED
      BY <3>2, Zenon DEF R
  <2>2. \A i \in 1..Len(toClient) : toClient[i].payload = toClient[i].id
    BY Zenon DEF FramesOK
  <2> QED
    BY <2>1, <2>2
<1> QED
  BY <1>1, <1>2, <1>3, Zenon

(* The outcomes are told apart by their kind. *)
LEMMA Outcomes ==
    /\ \A v \in Values : v.kind = "response" /\ v # Waiting
    /\ \A v \in Failures : v \notin Values /\ v # Waiting
    /\ Waiting.kind = "waiting" /\ Waiting \notin Values
<1>1. \A v \in Values : v.kind = "response"
  BY DEF Values
<1>2. \A v \in Failures : v.kind \in {"error", "timeout", "closed", "refused"}
  BY DEF Failures
<1>3. Waiting.kind = "waiting"
  BY Zenon DEF Waiting
<1> QED
  BY <1>1, <1>2, <1>3

-----------------------------------------------------------------------------
(* One lemma per action that touches the table.                            *)

(* Settling requests that wait leaves the other promises alone. *)
LEMMA SettleKeeps ==
    ASSUME NEW K, NEW o \in Values \cup Failures, TableSound, Settle(K, o),
           \A k \in K \cap Requests : future[k] = Waiting
    PROVE  /\ future' \in [Requests -> Values \cup Failures \cup {Waiting}]
           /\ \A k \in Requests \ K : future'[k] = future[k]
           /\ \A k \in K \cap Requests : future'[k] = o
           /\ \A k \in Requests : Settled(k) => future'[k] = future[k]
<1>1. future' = [k \in Requests |-> IF k \in K THEN o ELSE future[k]]
  BY Zenon DEF Settle
<1>2. future \in [Requests -> Values \cup Failures \cup {Waiting}]
  BY Zenon DEF TableSound
<1>3. \A k \in Requests \ K : future'[k] = future[k]
  BY <1>1, Zenon
<1>4. \A k \in K \cap Requests : future'[k] = o
  BY <1>1, Zenon
<1>5. future' \in [Requests -> Values \cup Failures \cup {Waiting}]
  BY <1>1, <1>2, Zenon
<1>6. \A k \in Requests : Settled(k) => future'[k] = future[k]
  BY <1>3, Zenon DEF Settled
<1> QED
  BY <1>3, <1>4, <1>5, <1>6, Zenon

(* send_request that is taken: its number is new everywhere. *)
LEMMA RequestKeeps ==
    ASSUME ReplySound, NEW t \in BOOLEAN, Request(t)
    PROVE  ReplySound'
<1> DEFINE n == Len(made) + 1
<1>1. /\ Len(made) < MaxRequests /\ made' = Append(made, [timed |-> t, session |-> session])
      /\ pending' = pending \cup {n} /\ toServer' = Append(toServer, n)
  BY Zenon DEF Request, NextId
<1>2. UNCHANGED <<session, sessions, future, toClient, unanswered, unknown>>
  BY Zenon DEF Request
<1>3. /\ made \in Seq([timed : BOOLEAN, session : Int]) /\ session \in Int
      /\ MaxRequests \in Nat
  BY Zenon, RequestReplyAssumption DEF ReplySound, TableSound, FramesOK
<1>4. /\ made' \in Seq([timed : BOOLEAN, session : Int])
      /\ Len(made') = Len(made) + 1 /\ Len(made) \in Nat
  BY <1>1, <1>3, AppendToQueue
<1>5. n \in Requests
  BY <1>1, <1>3, <1>4 DEF Requests
<1>6. 1..Len(made) \subseteq 1..Len(made') /\ n \in 1..Len(made')
  BY <1>4
<1> HIDE DEF n
<1>7. TableSound'
  <2>1. Len(made') <= MaxRequests
    BY <1>1, <1>3, <1>4
  <2>2. \A k \in Requests : k > Len(made') => future[k] = Waiting
    BY <1>4 DEF ReplySound, TableSound, Requests
  <2>3. future[n] = Waiting
    BY <1>4, <1>5 DEF ReplySound, TableSound, n
  <2> QED
    BY <1>1, <1>2, <1>4, <1>6, <2>1, <2>2, <2>3, Zenon DEF ReplySound, TableSound
<1>8. FramesOK'
  <2>1. toServer' \in Seq(Requests)
    BY <1>1, <1>5, AppendToQueue, Zenon DEF ReplySound, FramesOK
  <2> QED
    BY <1>2, <2>1, Zenon DEF ReplySound, FramesOK
<1>9. /\ \A i \in 1..Len(toServer) : toServer[i] # n
      /\ \A u \in unanswered : u.request # n
      /\ \A i \in 1..Len(toClient) : toClient[i].id # n
  <2>1. /\ \A i \in 1..Len(toServer) : toServer[i] <= Len(made)
        /\ \A u \in unanswered : u.request <= Len(made)
        /\ \A i \in 1..Len(toClient) : toClient[i].id <= Len(made)
    BY Zenon DEF ReplySound, OnTheWayExpected
  <2>2. ~(n <= Len(made))
    BY <1>4 DEF n
  <2> QED
    BY <2>1, <2>2, Zenon
<1>10. /\ toServer'[Len(toServer) + 1] = n
       /\ \A i \in 1..Len(toServer) : toServer'[i] = toServer[i]
       /\ \A i \in 1..Len(toServer') : i \in 1..Len(toServer) \/ i = Len(toServer) + 1
  <2>1. toServer \in Seq(Requests)
    BY Zenon DEF ReplySound, FramesOK
  <2> QED
    BY <1>1, <1>5, <2>1, AppendToQueue
<1>11. OnceOnTheWay'
  <2>1. \A i, j \in 1..Len(toServer') : toServer'[i] = toServer'[j] => i = j
    <3>1. \A i, j \in 1..Len(toServer) : toServer[i] = toServer[j] => i = j
      BY Zenon DEF ReplySound, OnceOnTheWay
    <3> QED
      BY <1>9, <1>10, <3>1, Zenon
  <2>2. \A i \in 1..Len(toServer'), u \in unanswered : toServer'[i] # u.request
    <3>1. \A i \in 1..Len(toServer), u \in unanswered : toServer[i] # u.request
      BY Zenon DEF ReplySound, OnceOnTheWay
    <3> QED
      BY <1>9, <1>10, <3>1, Zenon
  <2>3. \A i \in 1..Len(toServer'), j \in 1..Len(toClient) : toServer'[i] # toClient[j].id
    <3>1. \A i \in 1..Len(toServer), j \in 1..Len(toClient) : toServer[i] # toClient[j].id
      BY Zenon DEF ReplySound, OnceOnTheWay
    <3> QED
      BY <1>9, <1>10, <3>1, Zenon
  <2> QED
    BY <1>2, <2>1, <2>2, <2>3, Zenon DEF ReplySound, OnceOnTheWay
<1>12. OnTheWayExpected'
  <2>1. \A k \in Requests : k <= Len(made) => k <= Len(made')
    BY <1>4 DEF Requests
  <2>2. \A k : k \in pending \/ future[k].kind \in {"timeout", "closed"}
                    => k \in pending' \/ future'[k].kind \in {"timeout", "closed"}
    BY <1>1, <1>2, Zenon
  <2>3. n <= Len(made') /\ n \in pending'
    BY <1>1, <1>6
  <2>4. \A i \in 1..Len(toServer') :
            toServer'[i] <= Len(made') /\ Expected(toServer[i])'
    BY <1>10, <2>1, <2>2, <2>3, FrameFields, Zenon DEF ReplySound, OnTheWayExpected, Expected
  <2>5. \A u \in unanswered' : u.request <= Len(made') /\ Expected(u.request)'
    BY <1>2, <2>1, <2>2, FrameFields, Zenon DEF ReplySound, OnTheWayExpected, Expected
  <2>6. \A i \in 1..Len(toClient') :
            toClient'[i].id <= Len(made') /\ Expected(toClient[i].id)'
    BY <1>2, <2>1, <2>2, FrameFields, Zenon DEF ReplySound, OnTheWayExpected, Expected
  <2> QED
    BY <2>4, <2>5, <2>6, Zenon DEF OnTheWayExpected
<1>13. AnswerIsOwn'
  BY <1>2, Zenon DEF ReplySound, AnswerIsOwn
<1> QED
  BY <1>7, <1>8, <1>11, <1>12, <1>13, Zenon DEF ReplySound

(* Settling pending requests, each with a failure or with its own number:  *)
(* the table stays sound, and whoever was told an outcome keeps it.        *)
LEMMA SettlePending ==
    ASSUME ReplySound, NEW K \in SUBSET pending, NEW o \in Values \cup Failures,
           o \in Values => \A k \in K : o.payload = k,
           Settle(K, o), pending' = pending \ K, UNCHANGED <<made, unknown>>
    PROVE  /\ TableSound' /\ AnswerIsOwn'
           /\ \A k \in Requests : Settled(k) => future'[k] = future[k]
           /\ \A k \in Requests : Expected(k) /\ k \notin K => Expected(k)'
           /\ \A k \in K : future'[k] = o
<1>1. K \subseteq Requests /\ \A k \in K : future[k] = Waiting
  <2>1. 1..Len(made) \subseteq Requests
    BY RequestReplyAssumption DEF ReplySound, TableSound, Requests
  <2> QED
    BY <2>1, Zenon DEF ReplySound, TableSound
<1>2. /\ future' \in [Requests -> Values \cup Failures \cup {Waiting}]
      /\ \A k \in Requests \ K : future'[k] = future[k]
      /\ \A k \in K \cap Requests : future'[k] = o
      /\ \A k \in Requests : Settled(k) => future'[k] = future[k]
  BY <1>1, SettleKeeps, Zenon DEF ReplySound
<1>3. unknown \subseteq Requests
  BY RequestReplyAssumption DEF ReplySound, TableSound, Requests
<1>4. TableSound'
  <2>1. \A k \in K : ~(k > Len(made))
    BY DEF ReplySound, TableSound
  <2>2. \A k \in Requests : k > Len(made) => future'[k] = Waiting
    BY <1>2, <2>1, Zenon DEF ReplySound, TableSound
  <2>3. \A k \in pending' : future'[k] = Waiting
    <3>1. pending \subseteq Requests
      BY RequestReplyAssumption DEF ReplySound, TableSound, Requests
    <3> QED
      BY <1>2, <3>1, Zenon DEF ReplySound, TableSound
  <2> QED
    BY <1>2, <2>2, <2>3, Zenon DEF ReplySound, TableSound
<1>5. AnswerIsOwn'
  <2>1. \A k \in Requests : future'[k] \in Values => future'[k].payload = k
    BY <1>1, <1>2, Zenon DEF ReplySound, AnswerIsOwn
  <2>2. \A k \in unknown : future[k].kind \in {"timeout", "closed"}
    BY Zenon DEF ReplySound, AnswerIsOwn
  <2>3. Waiting.kind \notin {"timeout", "closed"}
    BY DEF Waiting
  <2>4. \A k \in unknown : future'[k] = future[k]
    BY <1>1, <1>2, <1>3, <2>2, <2>3, Zenon
  <2> QED
    BY <2>1, <2>2, <2>4, Zenon DEF AnswerIsOwn
<1>6. \A k \in Requests : Expected(k) /\ k \notin K => Expected(k)'
  BY <1>2, Zenon DEF Expected
<1> QED
  BY <1>1, <1>2, <1>4, <1>5, <1>6, Zenon

(* A timeout or a cancellation of pending requests. *)
LEMMA GiveUpKeeps ==
    ASSUME ReplySound, NEW K \in SUBSET pending,
           NEW o \in {[kind |-> "timeout"], [kind |-> "closed"]},
           Settle(K, o), pending' = pending \ K,
           UNCHANGED <<session, sessions, made, channelVars, unanswered, unknown>>
    PROVE  ReplySound' /\ \A k \in Requests : Settled(k) => future'[k] = future[k]
<1>1. o \in Failures /\ o \notin Values /\ o.kind \in {"timeout", "closed"}
  <2>1. o \in Failures
    BY Zenon DEF Failures
  <2>2. o.kind \in {"timeout", "closed"}
    OBVIOUS
  <2> QED
    BY <2>1, <2>2, Outcomes, Zenon
<1>2. UNCHANGED <<session, sessions, made, toServer, toClient, unanswered, unknown>>
  BY Zenon DEF channelVars
<1>3. /\ TableSound' /\ AnswerIsOwn'
      /\ \A k \in Requests : Settled(k) => future'[k] = future[k]
      /\ \A k \in Requests : Expected(k) /\ k \notin K => Expected(k)'
      /\ \A k \in K : future'[k] = o
  BY <1>1, <1>2, SettlePending, Zenon
<1>4. \A k \in Requests : Expected(k) => Expected(k)'
  BY <1>1, <1>3, Zenon DEF Expected
<1>5. FramesOK' /\ OnceOnTheWay'
  BY <1>2 DEF ReplySound, FramesOK, OnceOnTheWay
<1>6. OnTheWayExpected'
  BY <1>2, <1>4, FrameFields, Zenon DEF ReplySound, OnTheWayExpected, Expected
<1> QED
  BY <1>3, <1>5, <1>6, Zenon DEF ReplySound

(* send_request that fails: only the promise of the new number is set. *)
LEMMA RefusedKeeps ==
    ASSUME ReplySound, RequestRefused
    PROVE  ReplySound' /\ \A k \in Requests : Settled(k) => future'[k] = future[k]
<1> DEFINE n == Len(made) + 1
           o == [kind |-> "refused"]
<1>1. /\ Len(made) < MaxRequests /\ made' = Append(made, [timed |-> FALSE, session |-> session])
      /\ Settle({n}, o)
      /\ UNCHANGED <<session, sessions, pending, toServer, toClient, unanswered, unknown>>
  BY Zenon DEF RequestRefused, NextId, channelVars
<1>2. /\ made \in Seq([timed : BOOLEAN, session : Int]) /\ session \in Int
      /\ MaxRequests \in Nat
  BY Zenon, RequestReplyAssumption DEF ReplySound, TableSound, FramesOK
<1>3. /\ made' \in Seq([timed : BOOLEAN, session : Int])
      /\ Len(made') = Len(made) + 1 /\ Len(made) \in Nat
  BY <1>1, <1>2, AppendToQueue
<1>4. n \in Requests
  BY <1>1, <1>2, <1>3 DEF Requests
<1>5. future[n] = Waiting
  BY <1>3, <1>4 DEF ReplySound, TableSound
<1>6. o \in Failures /\ o \notin Values
  <2>1. o \in Failures
    BY Zenon DEF Failures
  <2> QED
    BY <2>1, Outcomes, Zenon
<1> HIDE DEF o
<1>7. /\ \A k : k \in 1..Len(made) => k \in 1..Len(made') /\ k \in Requests /\ k # n
      /\ \A k \in Requests : k <= Len(made) => k <= Len(made') /\ k # n
      /\ \A k \in Requests : k > Len(made') => k > Len(made) /\ k # n
  BY <1>1, <1>2, <1>3 DEF Requests
<1>8. Len(made') <= MaxRequests
  BY <1>1, <1>2, <1>3
<1> HIDE DEF n
<1>9. /\ future' \in [Requests -> Values \cup Failures \cup {Waiting}]
      /\ \A k \in Requests : k # n => future'[k] = future[k]
      /\ future'[n] = o
      /\ \A k \in Requests : Settled(k) => future'[k] = future[k]
  <2>1. \A k \in {n} \cap Requests : future[k] = Waiting
    BY <1>5, Zenon
  <2>2. /\ future' \in [Requests -> Values \cup Failures \cup {Waiting}]
        /\ \A k \in Requests \ {n} : future'[k] = future[k]
        /\ \A k \in {n} \cap Requests : future'[k] = o
        /\ \A k \in Requests : Settled(k) => future'[k] = future[k]
    BY <1>1, <1>6, <2>1, SettleKeeps, Zenon DEF ReplySound
  <2> QED
    BY <1>4, <2>2, Zenon
<1>10. TableSound'
  BY <1>1, <1>3, <1>7, <1>8, <1>9, Zenon DEF ReplySound, TableSound
<1>11. FramesOK' /\ OnceOnTheWay'
  <2>1. FramesOK'
    BY <1>1, Zenon DEF ReplySound, FramesOK
  <2>2. OnceOnTheWay'
    BY <1>1 DEF ReplySound, OnceOnTheWay
  <2> QED
    BY <2>1, <2>2, Zenon
<1>12. \A k \in Requests : k <= Len(made) /\ Expected(k) => Expected(k)'
  BY <1>1, <1>7, <1>9, Zenon DEF Expected
<1>13. OnTheWayExpected'
  BY <1>1, <1>7, <1>12, FrameFields, Zenon DEF ReplySound, OnTheWayExpected, Expected
<1>14. AnswerIsOwn'
  <2>1. unknown \subseteq 1..Len(made)
    BY Zenon DEF ReplySound, TableSound
  <2> QED
    BY <1>1, <1>6, <1>7, <1>9, <2>1, Zenon DEF ReplySound, AnswerIsOwn
<1> QED
  BY <1>9, <1>10, <1>11, <1>13, <1>14, Zenon DEF ReplySound

(* dispatch: the first answer settles its own request, or finds that the   *)
(* caller was told something else before. *)
LEMMA DispatchKeeps ==
    ASSUME ReplySound, Dispatch
    PROVE  ReplySound' /\ \A k \in Requests : Settled(k) => future'[k] = future[k]
<1> DEFINE f == Head(toClient)
           R == [kind : {"response", "error"}, id : Requests, payload : Requests]
<1>1. /\ toClient # <<>> /\ toClient' = Tail(toClient)
      /\ UNCHANGED <<session, sessions, made, toServer, unanswered>>
  BY Zenon DEF Dispatch
<1>2. toClient \in Seq(R)
  BY Zenon DEF ReplySound, FramesOK
<1> HIDE DEF R
<1>3. /\ toClient' \in Seq(R) /\ f = toClient[1] /\ 1 \in 1..Len(toClient)
      /\ \A i \in 1..Len(toClient') :
            toClient'[i] = toClient[i + 1] /\ i + 1 \in 1..Len(toClient) /\ i + 1 # 1
      /\ \A i, j \in 1..Len(toClient') : i + 1 = j + 1 => i = j
  BY <1>1, <1>2, TailOfQueue
<1>4. /\ f.kind \in {"response", "error"} /\ f.id \in Requests /\ f.payload = f.id
      /\ f.id <= Len(made) /\ Expected(f.id) /\ f.id \in 1..Len(made)
  <2>1. /\ f.kind \in {"response", "error"} /\ f.id \in Requests /\ f.payload = f.id
        /\ f.id <= Len(made) /\ Expected(f.id)
    BY <1>3, FrameFields, Zenon DEF ReplySound, OnTheWayExpected
  <2>2. f.id \in 1..Len(made)
    BY <2>1 DEF Requests, ReplySound, TableSound
  <2> QED
    BY <2>1, <2>2, Zenon
<1>5. /\ \A i \in 1..Len(toClient') : toClient'[i].id # f.id
      /\ \A i \in 1..Len(toServer) : toServer[i] # f.id
      /\ \A u \in unanswered : u.request # f.id
  <2>1. \A i, j \in 1..Len(toClient) : toClient[i].id = toClient[j].id => i = j
    BY Zenon DEF ReplySound, OnceOnTheWay
  <2>2. /\ \A i \in 1..Len(toServer), j \in 1..Len(toClient) : toServer[i] # toClient[j].id
        /\ \A u \in unanswered, j \in 1..Len(toClient) : u.request # toClient[j].id
    BY Zenon DEF ReplySound, OnceOnTheWay
  <2>3. \A i \in 1..Len(toClient') : toClient'[i].id # f.id
    <3> TAKE i \in 1..Len(toClient')
    <3>1. toClient'[i] = toClient[i + 1] /\ i + 1 \in 1..Len(toClient) /\ i + 1 # 1
      BY <1>3, Zenon
    <3> QED
      BY <1>3, <2>1, <3>1, Zenon
  <2>4. f.id = toClient[1].id /\ 1 \in 1..Len(toClient)
    BY <1>3, Zenon
  <2> QED
    BY <2>2, <2>3, <2>4, Zenon
<1>6. FramesOK'
  <2>1. \A i \in 1..Len(toClient') : toClient'[i].payload = toClient'[i].id
    BY <1>3, Zenon DEF ReplySound, FramesOK
  <2> QED
    BY <1>1, <1>3, <2>1, Zenon DEF ReplySound, FramesOK, R
<1>7. OnceOnTheWay'
  <2>1. \A i, j \in 1..Len(toClient') : toClient'[i].id = toClient'[j].id => i = j
    <3>1. \A i, j \in 1..Len(toClient) : toClient[i].id = toClient[j].id => i = j
      BY Zenon DEF ReplySound, OnceOnTheWay
    <3> TAKE i, j \in 1..Len(toClient')
    <3>2. /\ toClient'[i] = toClient[i + 1] /\ i + 1 \in 1..Len(toClient)
          /\ toClient'[j] = toClient[j + 1] /\ j + 1 \in 1..Len(toClient)
          /\ i + 1 = j + 1 => i = j
      BY <1>3, Zenon
    <3> QED
      BY <3>1, <3>2, Zenon
  <2>2. /\ \A i \in 1..Len(toServer), j \in 1..Len(toClient) : toServer[i] # toClient[j].id
        /\ \A u \in unanswered, j \in 1..Len(toClient) : u.request # toClient[j].id
    BY Zenon DEF ReplySound, OnceOnTheWay
  <2>3. \A i \in 1..Len(toServer), j \in 1..Len(toClient') : toServer[i] # toClient'[j].id
    BY <1>3, <2>2, Zenon
  <2>4. \A u \in unanswered, j \in 1..Len(toClient') : u.request # toClient'[j].id
    BY <1>3, <2>2, Zenon
  <2> QED
    BY <1>1, <2>1, <2>3, <2>4, Zenon DEF ReplySound, OnceOnTheWay
<1>8. ASSUME \A k \in Requests : Expected(k) /\ k # f.id => Expected(k)'
      PROVE  OnTheWayExpected'
  <2>1. \A i \in 1..Len(toServer') : toServer'[i] <= Len(made') /\ Expected(toServer[i])'
    BY <1>1, <1>5, <1>8, FrameFields, Zenon DEF ReplySound, OnTheWayExpected, Expected
  <2>2. \A u \in unanswered' : u.request <= Len(made') /\ Expected(u.request)'
    BY <1>1, <1>5, <1>8, FrameFields, Zenon DEF ReplySound, OnTheWayExpected, Expected
  <2>3. \A i \in 1..Len(toClient') :
            toClient'[i].id <= Len(made') /\ Expected(toClient[i].id)'
    BY <1>1, <1>3, <1>5, <1>8, FrameFields DEF ReplySound, OnTheWayExpected, Expected
  <2> QED
    BY <2>1, <2>2, <2>3, Zenon DEF OnTheWayExpected
<1>9. CASE f.id \in pending
  <2> DEFINE o == Outcome(f)
  <2>1. Settle({f.id}, o) /\ pending' = pending \ {f.id} /\ UNCHANGED <<made, unknown>>
    BY <1>1, <1>9, Zenon DEF Dispatch
  <2>2. o \in Values \cup Failures /\ (o \in Values => o.payload = f.id)
    <3>1. CASE f.kind = "error"
      <4>1. o = [kind |-> "error"]
        BY <3>1, Zenon DEF Outcome
      <4>2. o \in Failures
        BY <4>1, Zenon DEF Failures
      <4> QED
        BY <4>2, Outcomes, Zenon
    <3>2. CASE f.kind # "error"
      <4>1. o = [kind |-> "response", payload |-> f.id]
        BY <1>4, <3>2, Zenon DEF Outcome
      <4>2. o \in Values /\ o.payload = f.id
        BY <1>4, <4>1 DEF Values
      <4> QED
        BY <4>2, Zenon
    <3> QED
      BY <3>1, <3>2, Zenon
  <2> HIDE DEF o
  <2>3. {f.id} \in SUBSET pending /\ (o \in Values => \A k \in {f.id} : o.payload = k)
    BY <1>9, <2>2, Zenon
  <2>4. /\ TableSound' /\ AnswerIsOwn'
        /\ \A k \in Requests : Settled(k) => future'[k] = future[k]
        /\ \A k \in Requests : Expected(k) /\ k \notin {f.id} => Expected(k)'
    BY <2>1, <2>2, <2>3, SettlePending, Zenon
  <2>5. OnTheWayExpected'
    BY <1>8, <2>4, Zenon
  <2> QED
    BY <1>6, <1>7, <2>4, <2>5, Zenon DEF ReplySound
<1>10. CASE f.id \notin pending
  <2>1. unknown' = unknown \cup {f.id} /\ UNCHANGED <<pending, future, made>>
    BY <1>1, <1>10, Zenon DEF Dispatch
  <2>2. future[f.id].kind \in {"timeout", "closed"}
    BY <1>4, <1>10, Zenon DEF Expected
  <2>3. AnswerIsOwn'
    BY <2>1, <2>2, Zenon DEF ReplySound, AnswerIsOwn
  <2>4. TableSound'
    BY <1>4, <2>1, Zenon DEF ReplySound, TableSound
  <2>5. OnTheWayExpected'
    BY <1>8, <2>1, Zenon DEF Expected
  <2> QED
    BY <1>6, <1>7, <2>1, <2>3, <2>4, <2>5, Zenon DEF ReplySound
<1> QED
  BY <1>9, <1>10, Zenon

(* The server's application takes a request over. *)
LEMMA ReceiveRequestKeeps ==
    ASSUME ReplySound, ReceiveRequest
    PROVE  ReplySound'
<1> DEFINE k == Head(toServer)
           v == [request |-> k, session |-> session]
<1>1. /\ toServer # <<>> /\ toServer' = Tail(toServer) /\ unanswered' = unanswered \cup {v}
      /\ UNCHANGED <<session, sessions, made, pending, future, toClient, unknown>>
  BY Zenon DEF ReceiveRequest
<1>2. toServer \in Seq(Requests) /\ session \in Int
  BY Zenon DEF ReplySound, FramesOK
<1>3. /\ toServer' \in Seq(Requests) /\ k = toServer[1] /\ 1 \in 1..Len(toServer) /\ k \in Requests
      /\ \A i \in 1..Len(toServer') :
            toServer'[i] = toServer[i + 1] /\ i + 1 \in 1..Len(toServer) /\ i + 1 # 1
      /\ \A i, j \in 1..Len(toServer') : i + 1 = j + 1 => i = j
  BY <1>1, <1>2, TailOfQueue
<1>4. v \in [request : Requests, session : Int] /\ v.request = k
  BY <1>2, <1>3, Zenon
<1> HIDE DEF k, v
<1>5. TableSound' /\ AnswerIsOwn'
  BY <1>1, Zenon DEF ReplySound, TableSound, AnswerIsOwn
<1>6. FramesOK'
  BY <1>1, <1>3, <1>4, Zenon DEF ReplySound, FramesOK
<1>7. \A i, j \in 1..Len(toServer) : toServer[i] = toServer[j] => i = j
  BY Zenon DEF ReplySound, OnceOnTheWay
<1>8. \A i \in 1..Len(toServer), u \in unanswered : toServer[i] # u.request
  BY Zenon DEF ReplySound, OnceOnTheWay
<1>9. \A i \in 1..Len(toServer), j \in 1..Len(toClient) : toServer[i] # toClient[j].id
  BY Zenon DEF ReplySound, OnceOnTheWay
<1>10. OnceOnTheWay'
  <2>1. \A i, j \in 1..Len(toServer') : toServer'[i] = toServer'[j] => i = j
    BY <1>3, <1>7, Zenon
  <2>2. \A u, w \in unanswered' : u.request = w.request => u = w
    BY <1>1, <1>3, <1>4, <1>8 DEF ReplySound, OnceOnTheWay
  <2>3. \A i \in 1..Len(toServer'), u \in unanswered' : toServer'[i] # u.request
    BY <1>1, <1>3, <1>4, <1>7, <1>8
  <2>4. \A i \in 1..Len(toServer'), j \in 1..Len(toClient) : toServer'[i] # toClient[j].id
    BY <1>3, <1>9
  <2>5. \A u \in unanswered', j \in 1..Len(toClient) : u.request # toClient[j].id
    BY <1>1, <1>3, <1>4, <1>9 DEF ReplySound, OnceOnTheWay
  <2> QED
    BY <1>1, <2>1, <2>2, <2>3, <2>4, <2>5, Zenon DEF ReplySound, OnceOnTheWay
<1>11. OnTheWayExpected'
  <2>1. \A i \in 1..Len(toServer') : toServer'[i] <= Len(made') /\ Expected(toServer[i])'
    BY <1>1, <1>3, Zenon DEF ReplySound, OnTheWayExpected, Expected
  <2>2. \A u \in unanswered' : u.request <= Len(made') /\ Expected(u.request)'
    BY <1>1, <1>3, <1>4, Zenon DEF ReplySound, OnTheWayExpected, Expected
  <2> QED
    BY <1>1, <2>1, <2>2, Zenon DEF ReplySound, OnTheWayExpected, Expected
<1> QED
  BY <1>5, <1>6, <1>10, <1>11, Zenon DEF ReplySound

(* The server's application answers, or fails to: the session has ended. *)
LEMMA SendResponseKeeps ==
    ASSUME ReplySound, NEW kind \in {"response", "error"}, SendResponse(kind)
    PROVE  ReplySound'
<1> DEFINE R == [kind : {"response", "error"}, id : Requests, payload : Requests]
<1>1. PICK u \in unanswered :
        /\ unanswered' = unanswered \ {u}
        /\ toClient' = IF u.session = session
                       THEN Append(toClient, Frame(kind, u.request)) ELSE toClient
        /\ UNCHANGED <<session, sessions, made, pending, future, toServer, unknown>>
  BY Zenon DEF SendResponse
<1>2. u.request \in Requests
  BY FrameFields, Zenon DEF ReplySound
<1>3. TableSound' /\ AnswerIsOwn'
  BY <1>1, Zenon DEF ReplySound, TableSound, AnswerIsOwn
<1>4. CASE toClient' = toClient
  <2>1. FramesOK' /\ OnceOnTheWay'
    BY <1>1, <1>4 DEF ReplySound, FramesOK, OnceOnTheWay
  <2>2. OnTheWayExpected'
    BY <1>1, <1>4, Zenon DEF ReplySound, OnTheWayExpected, Expected
  <2> QED
    BY <1>3, <2>1, <2>2, Zenon DEF ReplySound
<1>5. CASE toClient' # toClient
  <2> DEFINE f == Frame(kind, u.request)
  <2>1. f \in R /\ f.id = u.request /\ f.payload = f.id
    BY <1>2, Zenon DEF Frame
  <2>2. toClient \in Seq(R) /\ toClient' = Append(toClient, f)
    BY <1>1, <1>5, Zenon DEF ReplySound, FramesOK
  <2> HIDE DEF R, f
  <2>3. /\ toClient' \in Seq(R) /\ toClient'[Len(toClient) + 1] = f
        /\ \A i \in 1..Len(toClient) : toClient'[i] = toClient[i]
        /\ \A i \in 1..Len(toClient') : i \in 1..Len(toClient) \/ i = Len(toClient) + 1
    BY <2>1, <2>2, AppendToQueue
  <2>4. FramesOK'
    <3>1. \A i \in 1..Len(toClient') : toClient'[i].payload = toClient'[i].id
      BY <2>1, <2>3, Zenon DEF ReplySound, FramesOK
    <3> QED
      BY <1>1, <2>3, <3>1, Zenon DEF ReplySound, FramesOK, R
  <2>5. /\ \A i, j \in 1..Len(toClient) : toClient[i].id = toClient[j].id => i = j
        /\ \A w \in unanswered, j \in 1..Len(toClient) : w.request # toClient[j].id
        /\ \A i \in 1..Len(toServer), j \in 1..Len(toClient) : toServer[i] # toClient[j].id
    BY Zenon DEF ReplySound, OnceOnTheWay
  <2>6. /\ \A w, z \in unanswered : w.request = z.request => w = z
        /\ \A i \in 1..Len(toServer), w \in unanswered : toServer[i] # w.request
    BY Zenon DEF ReplySound, OnceOnTheWay
  <2>7. \A i, j \in 1..Len(toClient') : toClient'[i].id = toClient'[j].id => i = j
    BY <2>1, <2>3, <2>5
  <2>8. \A w \in unanswered', j \in 1..Len(toClient') : w.request # toClient'[j].id
    BY <1>1, <2>1, <2>3, <2>5, <2>6
  <2>9. \A i \in 1..Len(toServer), j \in 1..Len(toClient') : toServer[i] # toClient'[j].id
    BY <2>1, <2>3, <2>5, <2>6
  <2>10. OnceOnTheWay'
    <3>1. \A i, j \in 1..Len(toServer) : toServer[i] = toServer[j] => i = j
      BY Zenon DEF ReplySound, OnceOnTheWay
    <3>2. /\ \A w, z \in unanswered' : w.request = z.request => w = z
          /\ \A i \in 1..Len(toServer), w \in unanswered' : toServer[i] # w.request
      BY <1>1, <2>6, Zenon
    <3> QED
      BY <1>1, <2>7, <2>8, <2>9, <3>1, <3>2 DEF OnceOnTheWay
  <2>11. \A i \in 1..Len(toClient') :
            toClient'[i].id <= Len(made') /\ Expected(toClient[i].id)'
    <3>1. /\ \A i \in 1..Len(toClient) :
                toClient[i].id <= Len(made) /\ Expected(toClient[i].id)
          /\ u.request <= Len(made) /\ Expected(u.request)
      BY Zenon DEF ReplySound, OnTheWayExpected
    <3> QED
      BY <1>1, <2>1, <2>3, <3>1 DEF Expected
  <2>12. OnTheWayExpected'
    BY <1>1, <2>11, Zenon DEF ReplySound, OnTheWayExpected, Expected
  <2> QED
    BY <1>3, <2>4, <2>10, <2>12, Zenon DEF ReplySound
<1> QED
  BY <1>4, <1>5, Zenon

(* The end of the session empties its channel; a new one starts empty. *)
LEMMA SessionsKeep ==
    ASSUME ReplySound, Disconnect \/ Reconnect
    PROVE  ReplySound' /\ future' = future
<1>1. CASE Disconnect
  <2>1. /\ session' = 0 /\ toServer' = <<>> /\ toClient' = <<>>
        /\ UNCHANGED <<sessions, made, pending, future, unanswered, unknown>>
    BY <1>1, Zenon DEF Disconnect
  <2>2. TableSound' /\ AnswerIsOwn'
    BY <2>1, Zenon DEF ReplySound, TableSound, AnswerIsOwn
  <2>3. \A i \in 1..Len(<<>>) : FALSE
    OBVIOUS
  <2>4. /\ 0 \in Int /\ <<>> \in Seq(Requests)
        /\ <<>> \in Seq([kind : {"response", "error"}, id : Requests, payload : Requests])
    OBVIOUS
  <2>5. FramesOK'
    BY <2>1, <2>3, <2>4, Zenon DEF ReplySound, FramesOK
  <2>6. OnceOnTheWay'
    BY <2>1, <2>3, Zenon DEF ReplySound, OnceOnTheWay
  <2>7. OnTheWayExpected'
    BY <2>1, <2>3, Zenon DEF ReplySound, OnTheWayExpected, Expected
  <2> QED
    BY <2>1, <2>2, <2>5, <2>6, <2>7, Zenon DEF ReplySound
<1>2. CASE Reconnect
  <2>1. /\ sessions' = sessions + 1 /\ session' = sessions'
        /\ UNCHANGED <<made, pending, future, toServer, toClient, unanswered, unknown>>
    BY <1>2, Zenon DEF Reconnect, channelVars
  <2>2. session' \in Int /\ sessions' \in Int
    BY <2>1 DEF ReplySound, FramesOK
  <2>3. TableSound' /\ AnswerIsOwn' /\ FramesOK' /\ OnceOnTheWay'
    <3>1. TableSound' /\ AnswerIsOwn'
      BY <2>1, Zenon DEF ReplySound, TableSound, AnswerIsOwn
    <3>2. FramesOK'
      BY <2>1, <2>2, Zenon DEF ReplySound, FramesOK
    <3>3. OnceOnTheWay'
      BY <2>1, Zenon DEF ReplySound, OnceOnTheWay
    <3> QED
      BY <3>1, <3>2, <3>3, Zenon
  <2>4. OnTheWayExpected'
    BY <2>1, Zenon DEF ReplySound, OnTheWayExpected, Expected
  <2> QED
    BY <2>1, <2>3, <2>4, Zenon DEF ReplySound
<1> QED
  BY <1>1, <1>2, Zenon

-----------------------------------------------------------------------------
(* The theorems.                                                           *)

(* The program starts with an empty table and empty channels. *)
LEMMA ReplySoundInit == RequestInit => ReplySound
<1> SUFFICES ASSUME RequestInit PROVE ReplySound
  OBVIOUS
<1>1. /\ session = 1 /\ sessions = 1 /\ made = <<>> /\ pending = {}
      /\ future = [k \in Requests |-> Waiting] /\ toServer = <<>> /\ toClient = <<>>
      /\ unanswered = {} /\ unknown = {}
  BY Zenon DEF RequestInit
<1>2. /\ 1 \in Int /\ <<>> \in Seq(Requests) /\ Len(<<>>) <= MaxRequests
      /\ <<>> \in Seq([kind : {"response", "error"}, id : Requests, payload : Requests])
      /\ <<>> \in Seq([timed : BOOLEAN, session : Int])
      /\ \A i \in 1..Len(<<>>) : FALSE
  BY RequestReplyAssumption
<1>3. TableSound
  BY <1>1, <1>2, Zenon DEF TableSound
<1>4. FramesOK
  BY <1>1, <1>2, Zenon DEF FramesOK
<1>5. OnceOnTheWay
  BY <1>1, <1>2, Zenon DEF OnceOnTheWay
<1>6. OnTheWayExpected
  BY <1>1, <1>2, Zenon DEF OnTheWayExpected
<1>7. AnswerIsOwn
  BY <1>1, Outcomes, Zenon DEF AnswerIsOwn
<1> QED
  BY <1>3, <1>4, <1>5, <1>6, <1>7, Zenon DEF ReplySound

(* Every step keeps the invariant, and the promises that are set. *)
LEMMA NextInvariant ==
    ASSUME ReplySound, [RequestNext]_requestVars
    PROVE  ReplySound' /\ \A k \in Requests : Settled(k) => future'[k] = future[k]
<1>1. ASSUME NEW t \in BOOLEAN, Request(t)
      PROVE  ReplySound' /\ \A k \in Requests : Settled(k) => future'[k] = future[k]
  <2>1. future' = future
    BY <1>1, Zenon DEF Request
  <2> QED
    BY <1>1, <2>1, RequestKeeps, Zenon
<1>2. CASE RequestRefused
  BY <1>2, RefusedKeeps, Zenon
<1>3. CASE Dispatch
  BY <1>3, DispatchKeeps, Zenon
<1>4. CASE Expire
  <2>1. PICK K \in SUBSET (pending \cap Timed) :
            /\ Settle(K, [kind |-> "timeout"]) /\ pending' = pending \ K
            /\ UNCHANGED <<session, sessions, made, channelVars, unanswered, unknown>>
    BY <1>4, Zenon DEF Expire
  <2>2. K \in SUBSET pending
    BY Zenon
  <2> QED
    BY <2>1, <2>2, GiveUpKeeps, Zenon
<1>5. CASE CancelAll
  <2>1. /\ Settle(pending, [kind |-> "closed"]) /\ pending' = pending \ pending
        /\ UNCHANGED <<session, sessions, made, channelVars, unanswered, unknown>>
    BY <1>5, Zenon DEF CancelAll
  <2>2. pending \in SUBSET pending
    BY Zenon
  <2> QED
    BY <2>1, <2>2, GiveUpKeeps, Zenon
<1>6. CASE ReceiveRequest
  <2>1. future' = future
    BY <1>6, Zenon DEF ReceiveRequest
  <2> QED
    BY <1>6, <2>1, ReceiveRequestKeeps, Zenon
<1>7. ASSUME NEW kind \in {"response", "error"}, SendResponse(kind)
      PROVE  ReplySound' /\ \A k \in Requests : Settled(k) => future'[k] = future[k]
  <2>1. future' = future
    BY <1>7, Zenon DEF SendResponse
  <2> QED
    BY <1>7, <2>1, SendResponseKeeps, Zenon
<1>8. CASE Disconnect \/ Reconnect
  BY <1>8, SessionsKeep, Zenon
<1>9. CASE UNCHANGED requestVars
  <2>1. /\ UNCHANGED <<session, sessions, made, pending, future, toServer, toClient>>
        /\ UNCHANGED <<unanswered, unknown>>
    BY <1>9, Zenon DEF requestVars, channelVars
  <2>2. TableSound' /\ AnswerIsOwn' /\ FramesOK' /\ OnceOnTheWay'
    <3>1. TableSound' /\ AnswerIsOwn'
      BY <2>1, Zenon DEF ReplySound, TableSound, AnswerIsOwn
    <3>2. FramesOK'
      BY <2>1, Zenon DEF ReplySound, FramesOK
    <3>3. OnceOnTheWay'
      BY <2>1, Zenon DEF ReplySound, OnceOnTheWay
    <3> QED
      BY <3>1, <3>2, <3>3, Zenon
  <2>3. OnTheWayExpected'
    BY <2>1, Zenon DEF ReplySound, OnTheWayExpected, Expected
  <2> QED
    BY <2>1, <2>2, <2>3, Zenon DEF ReplySound
<1> QED
  BY <1>1, <1>2, <1>3, <1>4, <1>5, <1>6, <1>7, <1>8, <1>9, Zenon DEF RequestNext

(* The invariant holds in every reachable state. *)
LEMMA ReplyInvariance == RequestSpec => []ReplySound
<1>1. RequestInit => ReplySound
  BY ReplySoundInit
<1>2. ReplySound /\ [RequestNext]_requestVars => ReplySound'
  BY NextInvariant, Zenon
<1> QED
  BY <1>1, <1>2, PTL DEF RequestSpec

(* A caller gets the answer to its own request, and dispatch() drops only  *)
(* answers to requests that timed out or were cancelled.                   *)
THEOREM AnswersAreOwn == RequestSpec => []AnswerIsOwn
<1>1. ReplySound => AnswerIsOwn
  BY Zenon DEF ReplySound
<1> QED
  BY <1>1, ReplyInvariance, PTL

(* The promise of a request is set at most once, whatever the order of a   *)
(* late answer, the timeout, a cancellation and the end of the session.    *)
THEOREM PromisesSetOnce == RequestSpec => SetOnce
<1>1. ReplySound /\ [RequestNext]_requestVars
        => [\A k \in Requests : Settled(k) => future'[k] = future[k]]_requestVars
  BY NextInvariant, Zenon
<1> QED
  BY <1>1, ReplyInvariance, PTL DEF RequestSpec, SetOnce

-----------------------------------------------------------------------------
(* The packets of a session.                                               *)

(* What the steps preserve: numbers below _seq are the only ones in use,   *)
(* each by one packet; the window knows exactly what was handled, and what *)
(* was handled had been sent.                                              *)
LinkInv ==
    /\ TypeOK
    /\ \A p \in queued \cup net : p.seq < seq
    /\ NonceUnique
    /\ Tracks(window, Handled)
    /\ \A i \in DOMAIN handled : handled[i] \in net

(* queue_packet: a fresh number, whether or not the queue takes the packet. *)
LEMMA QueueKeeps ==
    ASSUME LinkInv, NEW sequenced \in BOOLEAN,
           QueuePacket(sequenced) \/ QueueRefused(sequenced)
    PROVE  LinkInv'
  <1>1. /\ seq' = seq + 1 /\ nextNumber' \in Nat
        /\ net' = net /\ window' = window /\ handled' = handled /\ latest' = latest
        /\ Number(sequenced) \in Nat
    BY DEF QueuePacket, QueueRefused, TakeNumbers, receiverVars, LinkInv, TypeOK, Number
  <1>2. CASE queued' = queued
    <2>1. TypeOK' /\ NonceUnique' /\ Tracks(window, Handled)' /\ \A i \in DOMAIN handled' : handled'[i] \in net'
      BY <1>1, <1>2 DEF LinkInv, TypeOK, NonceUnique, Handled
    <2>2. \A p \in (queued \cup net)' : p.seq < seq'
      BY <1>1, <1>2 DEF LinkInv, TypeOK, Packets
    <2>. QED
      BY <2>1, <2>2 DEF LinkInv
  <1>3. CASE queued' = queued \cup {[seq |-> seq, number |-> Number(sequenced)]}
    <2>1. TypeOK'
      BY <1>1, <1>3 DEF LinkInv, TypeOK, Packets
    <2>2. \A p \in (queued \cup net)' : p.seq < seq'
      BY <1>1, <1>3 DEF LinkInv, TypeOK, Packets
    <2>3. NonceUnique'
      BY <1>1, <1>3 DEF LinkInv, TypeOK, Packets, NonceUnique
    <2>. QED
      BY <1>1, <2>1, <2>2, <2>3 DEF LinkInv, Handled
  <1>. QED
    BY <1>2, <1>3 DEF QueuePacket, QueueRefused, Nonce

(* flush_pending only moves a packet from the queue to the network. *)
LEMMA FlushKeeps ==
    ASSUME LinkInv, NEW p \in queued, FlushPending(p)
    PROVE  LinkInv'
  <1>1. /\ queued' \cup net' = queued \cup net
        /\ queued' \subseteq queued /\ net \subseteq net' /\ net' \in SUBSET Packets
        /\ seq' = seq /\ nextNumber' = nextNumber
        /\ window' = window /\ handled' = handled /\ latest' = latest
    BY DEF FlushPending, receiverVars, LinkInv, TypeOK
  <1>2. TypeOK'
    BY <1>1 DEF LinkInv, TypeOK
  <1>3. NonceUnique' /\ \A q \in (queued \cup net)' : q.seq < seq'
    BY <1>1 DEF LinkInv, NonceUnique
  <1>4. Tracks(window, Handled)' /\ \A i \in DOMAIN handled' : handled'[i] \in net'
    BY <1>1 DEF LinkInv, Handled
  <1>. QED
    BY <1>2, <1>3, <1>4 DEF LinkInv

(* What Append does to the set of handled numbers. *)
LEMMA HandledGrows ==
    ASSUME TypeOK, NEW p \in Packets, handled' = Append(handled, p)
    PROVE  /\ Handled' = Handled \cup {p.seq}
           /\ \A i \in DOMAIN handled' : (i \in DOMAIN handled /\ handled'[i] = handled[i]) \/ handled'[i] = p
           /\ handled' \in Seq(Packets)
  <1>1. handled \in Seq(Packets)
    BY DEF TypeOK
  <1>2. /\ Len(handled') = Len(handled) + 1
        /\ \A i \in 1 .. Len(handled) : handled'[i] = handled[i]
        /\ handled'[Len(handled) + 1] = p
        /\ handled' \in Seq(Packets)
    BY <1>1
  <1>3. DOMAIN handled = 1 .. Len(handled) /\ DOMAIN handled' = 1 .. Len(handled) + 1 /\ Len(handled) \in Nat
    BY <1>1, <1>2
  <1>4. \A i \in DOMAIN handled' : (i \in DOMAIN handled /\ handled'[i] = handled[i]) \/ handled'[i] = p
    BY <1>2, <1>3
  <1>5. Handled' = Handled \cup {p.seq}
    BY <1>2, <1>3 DEF Handled
  <1>. QED
    BY <1>2, <1>4, <1>5

(* A packet the window accepts: it was not handled before. *)
LEMMA ReceiveKeeps ==
    ASSUME LinkInv, NEW p \in net, ReceivePacket(p)
    PROVE  LinkInv' /\ p.seq \notin Handled
  <1>1. p \in Packets /\ p.seq \in Nat /\ p.number \in Nat /\ TypeOK /\ window \in WindowType
    BY DEF LinkInv, TypeOK, Packets
  <1>2. Handled \in SUBSET Nat /\ Tracks(window, Handled)
    BY DEF LinkInv, TypeOK, Packets, Handled
  <1>3. /\ handled' = Append(handled, p) /\ window' = Advance(window, p.seq)
        /\ Accepts(window, p.seq)
        /\ queued' = queued /\ net' = net /\ seq' = seq /\ nextNumber' = nextNumber
    BY DEF ReceivePacket, senderVars
  <1>4. p.seq \notin Handled
    BY <1>1, <1>2, <1>3, AcceptedIsFresh
  <1>5. /\ Handled' = Handled \cup {p.seq}
        /\ \A i \in DOMAIN handled' : (i \in DOMAIN handled /\ handled'[i] = handled[i]) \/ handled'[i] = p
        /\ handled' \in Seq(Packets)
    BY <1>1, <1>3, HandledGrows
  <1>6. window' \in WindowType
    BY <1>1, <1>3, AdvanceType
  <1>7. Tracks(window', Handled')
    <2>1. Tracks(Advance(window, p.seq), Handled \cup {p.seq})
      BY <1>1, <1>2, <1>3, AcceptTracks
    <2>. QED
      BY <2>1, <1>3, <1>5
  <1>8. latest' \in Nat
    BY <1>1 DEF ReceivePacket, TypeOK
  <1>9. TypeOK'
    BY <1>1, <1>3, <1>5, <1>6, <1>8 DEF TypeOK
  <1>10. NonceUnique' /\ \A q \in (queued \cup net)' : q.seq < seq'
    BY <1>3 DEF LinkInv, NonceUnique
  <1>11. \A i \in DOMAIN handled' : handled'[i] \in net'
    BY <1>3, <1>5 DEF LinkInv
  <1>. QED
    BY <1>4, <1>7, <1>9, <1>10, <1>11 DEF LinkInv

(* Sending, flushing and receiving keep the invariant. *)
LEMMA LinkInvHolds == Spec => []LinkInv
  <1>1. Init => LinkInv
    <2>. SUFFICES ASSUME Init PROVE LinkInv
      OBVIOUS
    <2>1. Handled = {} /\ DOMAIN handled = {} /\ handled \in Seq(Packets)
      BY DEF Init, Handled
    <2>2. TypeOK
      BY <2>1, EmptyTracks DEF Init, TypeOK
    <2>3. Tracks(window, Handled)
      BY <2>1, EmptyTracks DEF Init
    <2>. QED
      BY <2>1, <2>2, <2>3 DEF Init, LinkInv, NonceUnique
  <1>2. LinkInv /\ [Next]_vars => LinkInv'
    <2>. SUFFICES ASSUME LinkInv, [Next]_vars PROVE LinkInv'
      OBVIOUS
    <2>1. ASSUME NEW sequenced \in BOOLEAN, QueuePacket(sequenced) \/ QueueRefused(sequenced)
          PROVE  LinkInv'
      BY <2>1, QueueKeeps
    <2>2. ASSUME NEW p \in queued, FlushPending(p) PROVE LinkInv'
      BY <2>2, FlushKeeps
    <2>3. ASSUME NEW p \in net, ReceivePacket(p) PROVE LinkInv'
      BY <2>3, ReceiveKeeps
    <2>4. CASE UNCHANGED vars
      BY <2>4 DEF vars, senderVars, receiverVars, LinkInv, TypeOK, NonceUnique, Handled
    <2>. QED
      BY <2>1, <2>2, <2>3, <2>4 DEF Next
  <1>. QED
    BY <1>1, <1>2, PTL DEF Spec

(* No nonce is used for two packets of a session (queue_packet). *)
THEOREM NoncesAreUnique == Spec => []NonceUnique
  <1>1. LinkInv => NonceUnique
    BY DEF LinkInv
  <1>. QED
    BY <1>1, LinkInvHolds, PTL

(* The replay window refuses only repetitions and packets a whole window   *)
(* behind (ReplayWindow::accept).                                          *)
THEOREM FreshPacketsAreHandled == Spec => []FreshIsHandled
  <1>1. LinkInv => FreshIsHandled
    <2>. SUFFICES ASSUME LinkInv, NEW p \in net, p.seq \notin Handled,
                         window.latest - p.seq < Window, ~Accepts(window, p.seq)
                  PROVE  FALSE
      BY DEF FreshIsHandled
    <2>1. p.seq \in Nat /\ window \in WindowType /\ Handled \in SUBSET Nat /\ Tracks(window, Handled)
      BY DEF LinkInv, TypeOK, Packets, Handled
    <2>2. p.seq \in Handled \/ window.latest - p.seq >= Window
      BY <2>1, RejectedIsOldOrSeen
    <2>3. window.latest \in Nat
      BY <2>1 DEF WindowType
    <2>. QED
      BY <2>1, <2>2, <2>3, WindowAssumption
  <1>. QED
    BY <1>1, LinkInvHolds, PTL

(* The packets of a session implement the best-effort link: handled at     *)
(* most once, shown only when newer.                                       *)
THEOREM LinkRefinement == Spec => ImplementsLink
  <1>1. Init => Link!LinkInit
    BY DEF Init, Link!LinkInit
  <1>2. LinkInv /\ [Next]_vars => [Link!LinkNext]_(Link!linkVars)
    <2>. SUFFICES ASSUME LinkInv, [Next]_vars
                  PROVE  Link!LinkNext \/ UNCHANGED Link!linkVars
      OBVIOUS
    <2>1. ASSUME NEW sequenced \in BOOLEAN, QueuePacket(sequenced)
          PROVE  Link!LinkNext
      <3>. DEFINE x == [seq |-> seq, number |-> Number(sequenced)]
      <3>1. x \notin queued \cup net
        BY DEF LinkInv, TypeOK, Packets
      <3>2. queued' \cup net' = (queued \cup net) \cup {x}
        BY <2>1 DEF QueuePacket, Nonce
      <3>3. handled' = handled /\ latest' = latest
        BY <2>1 DEF QueuePacket, receiverVars
      <3>4. x \in (queued' \cup net') \ (queued \cup net)
        BY <3>1, <3>2
      <3>. HIDE DEF x
      <3>5. Link!Seal
        BY <3>2, <3>3, <3>4 DEF Link!Seal
      <3>. QED
        BY <3>5 DEF Link!LinkNext
    <2>2. ASSUME NEW sequenced \in BOOLEAN, QueueRefused(sequenced)
          PROVE  UNCHANGED Link!linkVars
      BY <2>2 DEF QueueRefused, receiverVars, Link!linkVars
    <2>3. ASSUME NEW p \in queued, FlushPending(p) PROVE UNCHANGED Link!linkVars
      BY <2>3 DEF FlushPending, receiverVars, Link!linkVars
    <2>4. ASSUME NEW p \in net, ReceivePacket(p) PROVE Link!LinkNext
      <3>1. p.seq \notin Handled
        BY <2>4, ReceiveKeeps
      <3>2. \A i \in DOMAIN handled : handled[i] # p
        BY <3>1 DEF Handled
      <3>3. p.number \in Nat /\ latest \in Nat
        BY DEF LinkInv, TypeOK, Packets
      <3>4. latest' = IF p.number > latest THEN p.number ELSE latest
        BY <2>4, <3>3 DEF ReceivePacket, SequencedAccepts
      <3>5. handled' = Append(handled, p) /\ queued' = queued /\ net' = net
        BY <2>4 DEF ReceivePacket, senderVars
      <3>6. Link!Handle
        BY <3>2, <3>4, <3>5 DEF Link!Handle
      <3>. QED
        BY <3>6 DEF Link!LinkNext
    <2>5. CASE UNCHANGED vars
      BY <2>5 DEF vars, senderVars, receiverVars, Link!linkVars
    <2>. QED
      BY <2>1, <2>2, <2>3, <2>4, <2>5 DEF Next
  <1>. QED
    BY <1>1, <1>2, LinkInvHolds, PTL DEF Spec, ImplementsLink, Link!LinkSpec

=============================================================================
