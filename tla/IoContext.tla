------------------------------- MODULE IoContext -------------------------------
(***************************************************************************)
(* scn::IoContext (io_context.hpp, io_context.cpp): the event loop that    *)
(* runs posted callbacks and polls the registered clients and servers.     *)
(* One thread, the owner, starts loops and joins them, in its own thread   *)
(* (run, run_until) or in a worker (run_async); any thread may post and    *)
(* stop.  Each block under _mutex is one step.  wait_for never waits       *)
(* longer than a millisecond, so the loop needs no wake-up.                *)
(***************************************************************************)
EXTENDS Integers, Sequences

CONSTANTS
    Services,       \* the clients and servers of the application
    Kinds,          \* what callbacks do: a subset of AllKinds
    Fails,          \* context_poll may fail
    MaxPosted,      \* max_posted_callbacks; 0 means unbounded
    MaxTasks        \* bound: callbacks the context takes

(* post_task of a function, of one that calls stop(), and post of a        *)
(* function that throws.                                                   *)
AllKinds == {"task", "stops", "throws"}

ASSUME IoContextAssumption ==
    /\ Kinds \subseteq AllKinds
    /\ Fails \in BOOLEAN
    /\ MaxPosted \in Nat /\ MaxTasks \in Nat

Owner == "owner"
Worker == "worker"
Threads == {Owner, Worker}

VARIABLES
    posted,         \* _posted, callbacks numbered as they are taken
    kinds,          \* history: what each callback does
    ran,            \* history: the callbacks that have run, in order
    services,       \* _services
    stopRequested,  \* _stop_requested
    running,        \* _running
    runResult,      \* _run_result
    joinable,       \* _worker.joinable()
    pc,             \* where each thread is
    fn,             \* the callback a loop is running
    todo,           \* the copy of _services a loop is polling
    result,         \* `result' in run()
    asked           \* history: stop() was called after the last run_async or restart()

queueVars == <<posted, kinds, ran>>
flagVars == <<stopRequested, running, runResult, asked>>
loopVars == <<fn, todo, result>>
ioVars == <<queueVars, services, flagVars, joinable, pc, loopVars>>

(* Inside run(), after _running was set and before it is cleared. *)
Looping == {"check", "drain", "call", "poll", "drainAgain", "callAgain", "leave"}

IoInit ==
    /\ posted = <<>> /\ kinds = <<>> /\ ran = <<>>
    /\ services = {}
    /\ stopRequested = FALSE /\ running = FALSE /\ runResult = "ok" /\ asked = FALSE
    /\ joinable = FALSE
    /\ pc = [t \in Threads |-> IF t = Owner THEN "idle" ELSE "none"]
    /\ fn = [t \in Threads |-> 0]
    /\ todo = [t \in Threads |-> {}]
    /\ result = [t \in Threads |-> "ok"]

-----------------------------------------------------------------------------
(* Calls from any thread.                                                  *)

Full == MaxPosted # 0 /\ Len(posted) >= MaxPosted

(* try_post, post, post_task; a full queue refuses. *)
Post(kind) ==
    /\ Len(kinds) < MaxTasks /\ ~Full
    /\ posted' = Append(posted, Len(kinds) + 1)
    /\ kinds' = Append(kinds, kind)
    /\ UNCHANGED <<ran, services, flagVars, joinable, pc, loopVars>>

Stop ==
    /\ stopRequested' = TRUE /\ asked' = TRUE
    /\ UNCHANGED <<queueVars, services, running, runResult, joinable, pc, loopVars>>

-----------------------------------------------------------------------------
(* Calls of the owner.                                                     *)

Restart ==
    /\ pc[Owner] = "idle"
    /\ stopRequested' = FALSE /\ asked' = FALSE
    /\ UNCHANGED <<queueVars, services, running, runResult, joinable, pc, loopVars>>

(* A client or server is made with the context, which may be running. *)
RegisterService(s) ==
    /\ pc[Owner] = "idle"
    /\ services' = services \cup {s}
    /\ UNCHANGED <<queueVars, flagVars, joinable, pc, loopVars>>

(* "Stop and join the context before destroying a Client, Server, or other *)
(* IoContextService registered with it": the owner keeps to that.          *)
UnregisterService(s) ==
    /\ pc[Owner] = "idle" /\ ~joinable
    /\ services' = services \ {s}
    /\ UNCHANGED <<queueVars, flagVars, joinable, pc, loopVars>>

(* run, run_for, run_until. *)
Run ==
    /\ pc[Owner] = "idle"
    /\ pc' = [pc EXCEPT ![Owner] = "enter"]
    /\ UNCHANGED <<queueVars, services, flagVars, joinable, loopVars>>

(* run_async: the caller waits for _running. *)
RunAsync ==
    /\ pc[Owner] = "idle" /\ ~running /\ ~joinable
    /\ joinable' = TRUE /\ asked' = FALSE
    /\ pc' = [pc EXCEPT ![Owner] = "starting", ![Worker] = "enter"]
    /\ UNCHANGED <<queueVars, services, stopRequested, running, runResult, loopVars>>

Started ==
    /\ pc[Owner] = "starting" /\ running
    /\ pc' = [pc EXCEPT ![Owner] = "idle"]
    /\ UNCHANGED <<queueVars, services, flagVars, joinable, loopVars>>

(* A join that takes the end of the loop for the end of the thread. *)
JoinEarly ==
    /\ pc[Owner] = "idle" /\ joinable /\ (stopRequested \/ ~running)
    /\ joinable' = FALSE
    /\ UNCHANGED <<queueVars, services, flagVars, pc, loopVars>>

Join ==
    /\ pc[Owner] = "idle" /\ joinable /\ pc[Worker] = "exited"
    /\ joinable' = FALSE
    /\ pc' = [pc EXCEPT ![Worker] = "none"]
    /\ UNCHANGED <<queueVars, services, flagVars, loopVars>>

-----------------------------------------------------------------------------
(* The loop of run(), in thread t.                                         *)

(* Where a thread goes when its run() returns. *)
After(t) == IF t = Owner THEN "idle" ELSE "report"

Enter(t) ==
    /\ pc[t] = "enter"
    /\ \/ /\ running
          /\ pc' = [pc EXCEPT ![t] = After(t)]
          /\ result' = [result EXCEPT ![t] = "failed"]
          /\ UNCHANGED <<stopRequested, running, runResult>>
       \/ /\ ~running
          /\ stopRequested' = FALSE /\ running' = TRUE /\ runResult' = "ok"
          /\ pc' = [pc EXCEPT ![t] = "check"]
          /\ result' = [result EXCEPT ![t] = "ok"]
    /\ UNCHANGED <<queueVars, services, asked, joinable, fn, todo>>

(* The top of the loop; run_until also looks at the clock. *)
Check(t) ==
    /\ pc[t] = "check"
    /\ \/ ~stopRequested /\ pc' = [pc EXCEPT ![t] = "drain"]
       \/ /\ stopRequested \/ t = Owner
          /\ pc' = [pc EXCEPT ![t] = "leave"]
    /\ UNCHANGED <<queueVars, services, flagVars, joinable, loopVars>>

(* A drain that looks at the front of the queue, runs it, and pops later.  *)
DrainUnpopped(t) ==
    /\ pc[t] \in {"drain", "drainAgain"}
    /\ posted # <<>>
    /\ fn' = [fn EXCEPT ![t] = Head(posted)]
    /\ pc' = [pc EXCEPT ![t] = IF @ = "drain" THEN "call" ELSE "callAgain"]
    /\ UNCHANGED <<queueVars, services, flagVars, joinable, todo, result>>

(* drain_posted takes the next callback; poll() drains before and after    *)
(* it polls the services.                                                  *)
Drain(t) ==
    /\ pc[t] \in {"drain", "drainAgain"}
    /\ \/ /\ posted # <<>>
          /\ fn' = [fn EXCEPT ![t] = Head(posted)]
          /\ posted' = Tail(posted)
          /\ pc' = [pc EXCEPT ![t] = IF @ = "drain" THEN "call" ELSE "callAgain"]
          /\ UNCHANGED todo
       \/ /\ posted = <<>>
          /\ pc' = [pc EXCEPT ![t] = IF @ = "drain" THEN "poll" ELSE "check"]
          /\ todo' = [todo EXCEPT ![t] = IF pc[t] = "drain" THEN services ELSE {}]
          /\ UNCHANGED <<fn, posted>>
    /\ UNCHANGED <<kinds, ran, services, flagVars, joinable, result>>

(* The loop ends with an error. *)
Fail(t) ==
    /\ pc' = [pc EXCEPT ![t] = "leave"]
    /\ result' = [result EXCEPT ![t] = "failed"]

(* A callback that is taken and forgotten. *)
CallNothing(t) ==
    /\ pc[t] \in {"call", "callAgain"}
    /\ pc' = [pc EXCEPT ![t] = IF @ = "call" THEN "drain" ELSE "drainAgain"]
    /\ fn' = [fn EXCEPT ![t] = 0]
    /\ UNCHANGED <<queueVars, services, flagVars, joinable, todo, result>>

Call(t) ==
    /\ pc[t] \in {"call", "callAgain"}
    /\ ran' = Append(ran, fn[t])
    /\ fn' = [fn EXCEPT ![t] = 0]
    /\ \/ kinds[fn[t]] = "throws" /\ Fail(t)
       \/ /\ kinds[fn[t]] # "throws"
          /\ pc' = [pc EXCEPT ![t] = IF @ = "call" THEN "drain" ELSE "drainAgain"]
          /\ UNCHANGED result
    /\ stopRequested' = (stopRequested \/ kinds[fn[t]] = "stops")
    /\ asked' = (asked \/ kinds[fn[t]] = "stops")
    /\ UNCHANGED <<posted, kinds, services, running, runResult, joinable, todo>>

(* The services of the copy are polled one by one. *)
Poll(t) ==
    /\ pc[t] = "poll"
    /\ \/ /\ todo[t] = {}
          /\ pc' = [pc EXCEPT ![t] = "drainAgain"]
          /\ UNCHANGED <<todo, result>>
       \/ \E s \in todo[t] :
            /\ todo' = [todo EXCEPT ![t] = @ \ {s}]
            /\ \/ UNCHANGED <<pc, result>>
               \/ Fails /\ Fail(t)
    /\ UNCHANGED <<queueVars, services, flagVars, joinable, fn>>

Leave(t) ==
    /\ pc[t] = "leave"
    /\ running' = FALSE
    /\ runResult' = result[t]
    /\ todo' = [todo EXCEPT ![t] = {}]
    /\ pc' = [pc EXCEPT ![t] = After(t)]
    /\ UNCHANGED <<queueVars, services, stopRequested, asked, joinable, fn, result>>

(* The end of the worker's function. *)
Report ==
    /\ pc[Worker] = "report"
    /\ runResult' = result[Worker]
    /\ pc' = [pc EXCEPT ![Worker] = "exited"]
    /\ UNCHANGED <<queueVars, services, stopRequested, running, asked, joinable, loopVars>>

Loop(t) ==
    Enter(t) \/ Check(t) \/ Drain(t) \/ Call(t) \/ Poll(t) \/ Leave(t)

-----------------------------------------------------------------------------
IoNext ==
    \/ \E kind \in Kinds : Post(kind)
    \/ Stop \/ Restart \/ Run \/ RunAsync \/ Started \/ Join \/ Report
    \/ \E s \in Services : RegisterService(s) \/ UnregisterService(s)
    \/ \E t \in Threads : Loop(t)

IoSpec == IoInit /\ [][IoNext]_ioVars

(* Every variable has its type, and the queue of callbacks its limit. *)
IoTypeOK ==
    /\ posted \in Seq(1..MaxTasks) /\ (MaxPosted # 0 => Len(posted) <= MaxPosted)
    /\ kinds \in Seq(STRING) /\ Len(kinds) <= MaxTasks
    /\ ran \in Seq(1..MaxTasks)
    /\ services \subseteq Services
    /\ {stopRequested, running, asked, joinable} \subseteq BOOLEAN
    /\ runResult \in {"ok", "failed"}
    /\ pc[Owner] \in {"idle", "starting", "enter", "joining"} \cup Looping
    /\ pc[Worker] \in {"none", "enter", "report", "exited"} \cup Looping
    /\ fn \in [Threads -> 0..MaxTasks]
    /\ todo \in [Threads -> SUBSET Services]
    /\ result \in [Threads -> {"ok", "failed"}]

(* However posts, loops and restarts interleave, the callbacks run once    *)
(* each, in the order they were posted.                                    *)
CallbacksInOrder == ran = [i \in 1..Len(ran) |-> i]

(* "Services registered with an IoContext must outlive the running context *)
(* loop": an application that stops and joins before it destroys a service *)
(* never has that service polled afterwards.                               *)
PolledIsAlive == \A t \in Threads : todo[t] \subseteq services

(* A callback taken by the queue of a running loop is run, unless the loop *)
(* ends first.                                                             *)
CallbacksRun ==
    \A i \in 1..MaxTasks :
        (running /\ i \in 1..Len(kinds)) ~> (~running \/ \E j \in 1..Len(ran) : ran[j] = i)

-----------------------------------------------------------------------------
(* Statements of the documentation that the code does not live up to.      *)

(* "run_async() - starts the context loop on one owned worker thread":     *)
(* and returns.                                                            *)
RunAsyncReturns == pc[Owner] = "starting" ~> pc[Owner] # "starting"

(* "stop() - requests loop shutdown from any thread": the worker of the    *)
(* run_async before it ends, unless "restart() - clears a previous stop    *)
(* request before a new run".                                              *)
StopIsHonoured == (asked /\ joinable) ~> (pc[Worker] \in {"report", "exited", "none"} \/ ~asked)
=============================================================================
