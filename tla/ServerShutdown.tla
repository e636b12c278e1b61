--------------------------- MODULE ServerShutdown ---------------------------
(***************************************************************************)
(* Graceful shutdown of JuicityServer::serve_with_shutdown                 *)
(* (server/src/server.rs): one accept worker per endpoint, each with a     *)
(* JoinSet of connection handlers and a semaphore that bounds them, and    *)
(* the main task that broadcasts the shutdown, waits and aborts.           *)
(*                                                                         *)
(* A handler is named by its worker and by the permit it holds.  The clock *)
(* counts the seconds since the shutdown request, and a deadline that has  *)
(* passed is noticed before it advances further.                           *)
(***************************************************************************)
EXTENDS Naturals

CONSTANTS
    Workers,       \* accept workers, one per endpoint
    Permits,       \* permits of a worker's conn_limit
    StopTimeout,   \* accept_stop_timeout
    DrainTimeout,  \* connection_drain_timeout
    MaxConns       \* bound: connections accepted

ASSUME ServerShutdownConstants ==
    /\ StopTimeout \in Nat
    /\ DrainTimeout \in Nat
    /\ MaxConns \in Nat

VARIABLES
    worker,    \* worker[w]: where the accept task is
    conn,      \* conn[w][s]: the handler of w that holds permit s
    deadline,  \* deadline[w]: end of the drain period of w
    main,      \* the task that called serve_with_shutdown
    conns,     \* connections accepted so far
    elapsed    \* seconds since the shutdown request

shutdownVars == <<worker, conn, deadline, main, conns, elapsed>>

\* permit: a connection is in hand, waiting for acquire_owned; abort: abort_all
\* was called; done: the task returned; aborted: it was dropped.
WorkerStates == {"accept", "permit", "drain", "abort", "done", "aborted"}
ConnStates   == {"free", "running", "aborted"}

ShutdownTypeOK ==
    /\ worker \in [Workers -> WorkerStates]
    /\ conn \in [Workers -> [Permits -> ConnStates]]
    /\ deadline \in [Workers -> 0..(StopTimeout + DrainTimeout)]
    /\ main \in {"serving", "stopping", "joining", "returned"}
    /\ conns \in 0..MaxConns
    /\ elapsed \in 0..StopTimeout

ShutdownInit ==
    /\ worker = [w \in Workers |-> "accept"]
    /\ conn = [w \in Workers |-> [s \in Permits |-> "free"]]
    /\ deadline = [w \in Workers |-> 0]
    /\ main = "serving"
    /\ conns = 0
    /\ elapsed = 0

-----------------------------------------------------------------------------
(* An accept worker                                                        *)

Emptied(w)  == \A s \in Permits : conn[w][s] = "free"
Ended(w)    == worker[w] \in {"done", "aborted"}
AbortAll(c) == [s \in Permits |-> IF c[s] = "running" THEN "aborted" ELSE c[s]]

\* endpoint.accept() yields a connection.
Accept(w) ==
    /\ worker[w] = "accept"
    /\ conns < MaxConns
    /\ conns' = conns + 1
    /\ worker' = [worker EXCEPT ![w] = "permit"]
    /\ UNCHANGED <<conn, deadline, main, elapsed>>

\* A permit is free: the handler is spawned into the JoinSet.
SpawnHandler(w) ==
    /\ worker[w] = "permit"
    /\ \E s \in Permits :
         /\ conn[w][s] = "free"
         /\ conn' = [conn EXCEPT ![w][s] = "running"]
    /\ worker' = [worker EXCEPT ![w] = "accept"]
    /\ UNCHANGED <<deadline, main, conns, elapsed>>

\* handle_connection returns: the peer closes the connection, or it times out.
HandlerEnds(w) ==
    /\ \E s \in Permits :
         /\ conn[w][s] = "running"
         /\ conn' = [conn EXCEPT ![w][s] = "free"]
    /\ UNCHANGED <<worker, deadline, main, conns, elapsed>>

\* An aborted handler is dropped at its await.
HandlerDropped(w) ==
    /\ \E s \in Permits :
         /\ conn[w][s] = "aborted"
         /\ conn' = [conn EXCEPT ![w][s] = "free"]
    /\ UNCHANGED <<worker, deadline, main, conns, elapsed>>

\* accept_shutdown.changed() fires.
StopAccepting(w) ==
    /\ worker[w] = "accept"
    /\ main # "serving"
    /\ worker' = [worker EXCEPT ![w] = "drain"]
    /\ deadline' = [deadline EXCEPT ![w] = elapsed + DrainTimeout]
    /\ UNCHANGED <<conn, main, conns, elapsed>>

\* The JoinSet is empty, or the grace period is over.
DrainEnds(w) ==
    /\ worker[w] = "drain"
    /\ \/ Emptied(w) /\ worker' = [worker EXCEPT ![w] = "done"] /\ UNCHANGED conn
       \/ /\ ~Emptied(w) /\ elapsed >= deadline[w]
          /\ worker' = [worker EXCEPT ![w] = "abort"]
          /\ conn' = [conn EXCEPT ![w] = AbortAll(@)]
    /\ UNCHANGED <<deadline, main, conns, elapsed>>

\* while conn_tasks.join_next().await.is_some() {}
AbortEnds(w) ==
    /\ worker[w] = "abort"
    /\ Emptied(w)
    /\ worker' = [worker EXCEPT ![w] = "done"]
    /\ UNCHANGED <<conn, deadline, main, conns, elapsed>>

\* Mutant: a worker that waits for a permit is not aborted.
WorkerDropped_NotAtPermit(w) ==
    /\ main = "joining" /\ ~Ended(w) /\ worker[w] # "permit"
    /\ worker' = [worker EXCEPT ![w] = "aborted"]
    /\ conn' = [conn EXCEPT ![w] = AbortAll(@)]
    /\ UNCHANGED <<deadline, main, conns, elapsed>>

\* The aborted worker is dropped at its await; its JoinSet aborts the handlers.
WorkerDropped(w) ==
    /\ main = "joining" /\ ~Ended(w)
    /\ worker' = [worker EXCEPT ![w] = "aborted"]
    /\ conn' = [conn EXCEPT ![w] = AbortAll(@)]
    /\ UNCHANGED <<deadline, main, conns, elapsed>>

-----------------------------------------------------------------------------
(* The main task                                                           *)

\* The caller's shutdown future resolves: broadcast, and start waiting.
RequestShutdown ==
    /\ main = "serving"
    /\ main' = "stopping"
    /\ UNCHANGED <<worker, conn, deadline, conns, elapsed>>

\* All workers finished, or the timeout passed: drop(accept_guards) aborts those
\* that are left, wherever they wait.
ForceAbort ==
    /\ main = "stopping"
    /\ (\A w \in Workers : Ended(w)) \/ elapsed >= StopTimeout
    /\ main' = "joining"
    /\ UNCHANGED <<worker, conn, deadline, conns, elapsed>>

\* Every worker is joined.
JoinWorkers ==
    /\ main = "joining"
    /\ \A w \in Workers : Ended(w)
    /\ main' = "returned"
    /\ UNCHANGED <<worker, conn, deadline, conns, elapsed>>

\* A second passes; deadlines that are due come first.
SecondPasses ==
    /\ main = "stopping" /\ elapsed < StopTimeout
    /\ \A w \in Workers : worker[w] = "drain" => elapsed < deadline[w]
    /\ elapsed' = elapsed + 1
    /\ UNCHANGED <<worker, conn, deadline, main, conns>>

\* serve_with_shutdown has returned and every handler is gone.
ShutdownFinished == main = "returned" /\ (\A w \in Workers : Emptied(w)) /\ UNCHANGED shutdownVars

WorkerStep(w) ==
    SpawnHandler(w) \/ StopAccepting(w) \/ DrainEnds(w) \/ AbortEnds(w) \/ WorkerDropped(w)

ShutdownNext ==
    \/ \E w \in Workers : Accept(w) \/ HandlerEnds(w) \/ HandlerDropped(w) \/ WorkerStep(w)
    \/ RequestShutdown \/ ForceAbort \/ JoinWorkers
    \/ SecondPasses
    \/ ShutdownFinished

ShutdownSpec == ShutdownInit /\ [][ShutdownNext]_shutdownVars

\* Tasks are polled, aborted tasks are dropped, and time passes.  Nothing makes a
\* connection handler end by itself.
ShutdownFairness ==
    /\ \A w \in Workers : WF_shutdownVars(WorkerStep(w)) /\ WF_shutdownVars(HandlerDropped(w))
    /\ WF_shutdownVars(ForceAbort) /\ WF_shutdownVars(JoinWorkers) /\ WF_shutdownVars(SecondPasses)

ShutdownFairSpec == ShutdownSpec /\ ShutdownFairness

-----------------------------------------------------------------------------
(* Properties                                                              *)

\* Shutdown always completes: also when handlers never end, and when a worker waits for a
\* permit and so does not watch the shutdown channel; and when serve returns no handler
\* runs on ("Join all workers so task resources are reclaimed before returning").
Returns ==
    main = "stopping" ~>
        main = "returned" /\ \A w \in Workers, s \in Permits : conn[w][s] # "running"
=============================================================================
