----------------------------- MODULE AsyncRuntime ------------------------------
(***************************************************************************)
(* scn::AsyncClient and scn::AsyncServer (async.hpp): one IoContext with   *)
(* one service, started by the first call and stopped by stop() or the     *)
(* destructor.  The owner is the application thread; its calls become      *)
(* tasks of the worker.  tick() of a client or server whose socket is not  *)
(* open is an error ("socket not open"), and an error ends the loop.       *)
(* An application uses these, or an IoContext of its own (`facade').       *)
(***************************************************************************)
EXTENDS IoContext

VARIABLES
    facade,     \* the application uses AsyncClient or AsyncServer
    started,    \* _started
    open,       \* the socket of the client or server is open
    call        \* the call that waits for start(), or "none"

asyncVars == <<facade, started, open, call>>
allVars == <<ioVars, asyncVars>>

(* "connect" stands for connect() and listen(), "send" for the calls that  *)
(* use a connection.                                                       *)
Calls == {"connect", "send"}

AsyncInit ==
    /\ IoInit
    /\ facade \in BOOLEAN
    /\ started = FALSE /\ open = FALSE /\ call = "none"

(* The service is registered by the constructor. *)
Construct(s) ==
    /\ services = {} /\ RegisterService(s)
    /\ UNCHANGED asyncVars

(* start() in front of every call: run_async unless _started. *)
Start(op) ==
    /\ ~started /\ call = "none" /\ services # {}
    /\ RunAsync
    /\ call' = op
    /\ UNCHANGED <<facade, started, open>>

PostCall(op) ==
    /\ started /\ call = "none" /\ pc[Owner] = "idle"
    /\ Post(op)
    /\ UNCHANGED asyncVars

(* run_async has returned: start() notes it and the call is posted. *)
Resume ==
    /\ call # "none" /\ pc[Owner] = "idle"
    /\ started' = TRUE /\ call' = "none"
    /\ IF Len(kinds) < MaxTasks /\ ~Full THEN Post(call) ELSE UNCHANGED ioVars
    /\ UNCHANGED <<facade, open>>

(* AsyncServer::close_peer posts without start(). *)
ClosePeer ==
    /\ call = "none" /\ pc[Owner] = "idle"
    /\ Post("send")
    /\ UNCHANGED asyncVars

(* A stop() that waits for the loop without asking it to end. *)
StopUnasked ==
    /\ pc[Owner] = "idle" /\ call = "none" /\ services # {}
    /\ pc' = [pc EXCEPT ![Owner] = "joining"]
    /\ UNCHANGED <<queueVars, services, flagVars, joinable, loopVars, asyncVars>>

(* stop(): _io.stop(), _io.join(). *)
AsyncStop ==
    /\ pc[Owner] = "idle" /\ call = "none" /\ services # {}
    /\ stopRequested' = TRUE /\ asked' = TRUE
    /\ pc' = [pc EXCEPT ![Owner] = "joining"]
    /\ UNCHANGED <<queueVars, services, running, runResult, joinable, loopVars, asyncVars>>

Stopped ==
    /\ pc[Owner] = "joining" /\ pc[Worker] \in {"none", "exited"}
    /\ joinable' = FALSE /\ started' = FALSE
    /\ pc' = [pc EXCEPT ![Owner] = "idle", ![Worker] = "none"]
    /\ UNCHANGED <<queueVars, services, flagVars, loopVars, facade, open, call>>

(* The worker runs the tasks and polls the service: tick() fails when the  *)
(* socket is not open, and may close it.                                   *)
WorkerCalls ==
    /\ Call(Worker)
    /\ open' = (open \/ kinds[fn[Worker]] = "connect")
    /\ UNCHANGED <<facade, started, call>>

WorkerPolls ==
    /\ Poll(Worker)
    /\ result'[Worker] = "failed" <=> todo[Worker] # {} /\ ~open
    /\ open' \in {FALSE, open}
    /\ UNCHANGED <<facade, started, call>>

WorkerLoops ==
    /\ Enter(Worker) \/ Check(Worker) \/ Drain(Worker) \/ Leave(Worker) \/ Report
    /\ UNCHANGED asyncVars

OwnerStarted == Started /\ UNCHANGED asyncVars

AsyncNext ==
    \/ \E s \in Services : Construct(s)
    \/ \E op \in Calls : Start(op) \/ PostCall(op)
    \/ Resume \/ ClosePeer \/ AsyncStop \/ Stopped \/ OwnerStarted
    \/ WorkerCalls \/ WorkerPolls \/ WorkerLoops

AppNext ==
    \/ facade /\ AsyncNext
    \/ ~facade /\ IoNext /\ UNCHANGED asyncVars

AppSpec == AsyncInit /\ [][AppNext]_allVars

Plain(A) == ~facade /\ A /\ UNCHANGED asyncVars

(* Threads that can run do run. *)
AppFairness ==
    /\ WF_allVars(facade /\ (WorkerCalls \/ WorkerPolls \/ WorkerLoops))
    /\ WF_allVars(facade /\ (OwnerStarted \/ Resume \/ Stopped))
    /\ WF_allVars(Plain(Loop(Owner))) /\ WF_allVars(Plain(Loop(Worker) \/ Report))
    /\ WF_allVars(Plain(Started))

AppFairSpec == AppSpec /\ AppFairness

(* stop() returns: no stop request of the application is lost, because     *)
(* run_async has seen the loop running before it returns.                  *)
StopReturns == pc[Owner] = "joining" ~> pc[Owner] = "idle"

-----------------------------------------------------------------------------
(* "start the background loop on first use" and "returns a std::future for *)
(* its result or exception": a task that is posted runs, unless the        *)
(* application stops the context.                                          *)
FutureReady ==
    \A i \in 1..MaxTasks :
        i \in 1..Len(kinds) ~> (asked \/ ~started \/ \E j \in 1..Len(ran) : ran[j] = i)
=============================================================================
