------------------------------ MODULE Shutdown -------------------------------
(***************************************************************************)
(* Microservice.Run of internal/app/app.go: one process that launches its  *)
(* workers and servers, waits for a signal, and takes everything down in   *)
(* order: the HTTP server, the gRPC server, the workers, the PostgreSQL    *)
(* pool, Redis.                                                            *)
(***************************************************************************)
EXTENDS Naturals

CONSTANTS
  Workers,    \* those of OutboxRelay, StateReplicator, TaskProcessor in use
  Requests,   \* calls of clients, bounded
  MaxSignals  \* bound on the signals explored

ASSUME ShutdownAssumption ==
  /\ MaxSignals \in Nat
  /\ Workers \cap Requests = {}

VARIABLES
  main,      \* where Run is
  signals,   \* signals sent so far
  sigChan,   \* signals waiting in sigChan, which holds one
  ctxDone,   \* cancel() was called
  timedOut,  \* time.After(10 * time.Second) ended the wait
  server,    \* the state of each server
  worker,    \* the state of each worker's goroutine
  open,      \* the stores that are open
  conns,     \* the workers and requests that hold a connection of the pool
  request,   \* the state of each request
  via,       \* the server that accepted it
  inTime,    \* history: requests accepted before the signal was taken
  hurt       \* history: requests that found a store closed

serveVars == <<request, via, inTime, hurt>>
workVars  == <<worker, conns>>
vars == <<main, signals, sigChan, ctxDone, timedOut, server, open, workVars, serveVars>>

Servers == {"http", "grpc"}
Stores  == {"pool", "redis"}

\* launching: up to signal.Notify; waiting: <-sigChan; then what Run waits for:
\* Fiber's Shutdown, gRPC's GracefulStop, wg, DBPool.Close; the end
Main == {"launching", "waiting", "fiber", "grpc", "joining", "closing", "returned", "killed"}

TypeOK ==
  /\ main     \in Main
  /\ signals  \in 0 .. MaxSignals
  /\ sigChan  \in 0 .. 1
  /\ ctxDone  \in BOOLEAN
  /\ timedOut \in BOOLEAN
  /\ server   \in [Servers -> {"off", "starting", "serving", "draining", "stopped"}]
  /\ worker   \in [Workers -> {"off", "starting", "idle", "busy", "stopped"}]
  /\ open     \in SUBSET Stores
  /\ conns    \in SUBSET (Workers \cup Requests)
  /\ request  \in [Requests -> {"new", "running", "querying", "done"}]
  /\ via      \in [Requests -> Servers]
  /\ inTime   \in SUBSET Requests
  /\ hurt     \in SUBSET Requests

Init ==
  /\ main     = "launching"
  /\ signals  = 0
  /\ sigChan  = 0
  /\ ctxDone  = FALSE
  /\ timedOut = FALSE
  /\ server   = [s \in Servers |-> "off"]
  /\ worker   = [w \in Workers |-> "starting"]
  /\ open     = Stores
  /\ conns    = {}
  /\ request  = [r \in Requests |-> "new"]
  /\ via      = [r \in Requests |-> "http"]
  /\ inTime   = {}
  /\ hurt     = {}

-----------------------------------------------------------------------------
(***************************************************************************)
(* Helpers                                                                 *)
(***************************************************************************)
Running == main \notin {"returned", "killed"}

InFlight(s) == {r \in Requests : via[r] = s /\ request[r] \in {"running", "querying"}}

SetServer(s, to)  == server'  = [server EXCEPT ![s] = to]
SetWorker(w, to)  == worker'  = [worker EXCEPT ![w] = to]
SetRequest(r, to) == request' = [request EXCEPT ![r] = to]

\* What wg counts: the workers and the goroutine of the gRPC server.
Joined == (\A w \in Workers : worker[w] = "stopped") /\ server["grpc"] = "stopped"

-----------------------------------------------------------------------------
(***************************************************************************)
(* Seeded mistakes: variants of definitions below, not part of Spec.       *)
(***************************************************************************)

\* ShutdownWithTimeout, and on with the shutdown when it expires.
FiberStoppedInTime ==
  /\ main = "fiber"
  /\ main' = "grpc"
  /\ SetServer("http", IF server["http"] = "draining" THEN "stopped" ELSE server["http"])
  /\ UNCHANGED <<signals, sigChan, ctxDone, timedOut, open, workVars, serveVars>>

\* Stop for GracefulStop, which does not wait for the handlers.
GrpcStoppedAtOnce ==
  /\ main = "grpc"
  /\ main' = "joining"
  /\ ctxDone' = TRUE
  /\ SetServer("grpc", "stopped")
  /\ UNCHANGED <<signals, sigChan, timedOut, open, workVars, serveVars>>

\* wg.Wait before wg.Add: nobody is waited for.
JoinNobody ==
  /\ main = "joining"
  /\ main' = "closing"
  /\ open' = open \ {"pool"}
  /\ UNCHANGED <<signals, sigChan, ctxDone, timedOut, server, workVars, serveVars>>

\* cancel() before the servers are asked to stop.
BeginShutdownCancelling ==
  /\ main = "waiting" /\ sigChan = 1
  /\ main' = "fiber"
  /\ sigChan' = 0
  /\ ctxDone' = TRUE
  /\ SetServer("http", IF server["http"] = "serving" THEN "draining" ELSE server["http"])
  /\ UNCHANGED <<signals, timedOut, open, workVars, serveVars>>

\* An early return of processBatch that misses tx.Rollback.
WorkEndsLeaking(w) ==
  /\ Running /\ worker[w] = "busy"
  /\ SetWorker(w, "idle")
  /\ UNCHANGED <<main, signals, sigChan, ctxDone, timedOut, server, open, conns, serveVars>>

-----------------------------------------------------------------------------
(***************************************************************************)
(* Run                                                                     *)
(***************************************************************************)

\* SIGTERM or an interrupt.  Before signal.Notify it ends the process; after,
\* one signal is kept and further ones are dropped.
Signal ==
  /\ Running /\ signals < MaxSignals
  /\ signals' = signals + 1
  /\ IF main = "launching"
     THEN main' = "killed" /\ UNCHANGED sigChan
     ELSE sigChan' = 1 /\ UNCHANGED main
  /\ UNCHANGED <<ctxDone, timedOut, server, open, workVars, serveVars>>

\* signal.Notify, and the goroutines of the two servers.
Launch ==
  /\ main = "launching"
  /\ main' = "waiting"
  /\ server' = [s \in Servers |-> "starting"]
  /\ UNCHANGED <<signals, sigChan, ctxDone, timedOut, open, workVars, serveVars>>

\* <-sigChan; then FiberApp.Shutdown closes the listener, if there is one yet:
\* of a server that has not got to Listen it knows nothing.
BeginShutdown ==
  /\ main = "waiting" /\ sigChan = 1
  /\ main' = "fiber"
  /\ sigChan' = 0
  /\ SetServer("http", IF server["http"] = "serving" THEN "draining" ELSE server["http"])
  /\ UNCHANGED <<signals, ctxDone, timedOut, open, workVars, serveVars>>

\* Shutdown returns when the requests of the listener are answered, however long
\* that takes.  GracefulStop is next: a server that has not got to Serve will
\* find that it is stopped.
FiberStopped ==
  /\ main = "fiber"
  /\ server["http"] = "draining" => InFlight("http") = {}
  /\ main' = "grpc"
  /\ server' = [server EXCEPT
       !["http"] = IF @ = "draining" THEN "stopped" ELSE @,
       !["grpc"] = IF @ = "serving" THEN "draining" ELSE "stopped"]
  /\ UNCHANGED <<signals, sigChan, ctxDone, timedOut, open, workVars, serveVars>>

\* GracefulStop returns; cancel().
GrpcStopped ==
  /\ main = "grpc"
  /\ InFlight("grpc") = {}
  /\ main' = "joining"
  /\ ctxDone' = TRUE
  /\ SetServer("grpc", "stopped")
  /\ UNCHANGED <<signals, sigChan, timedOut, open, workVars, serveVars>>

\* <-waitCh, then the tracer's shutdown; DBPool.Close turns new users away.
Join ==
  /\ main = "joining" /\ Joined
  /\ main' = "closing"
  /\ open' = open \ {"pool"}
  /\ UNCHANGED <<signals, sigChan, ctxDone, timedOut, server, workVars, serveVars>>

\* Ten seconds are over: on without the workers.
JoinTimeout ==
  /\ main = "joining" /\ ~Joined
  /\ main' = "closing"
  /\ timedOut' = TRUE
  /\ open' = open \ {"pool"}
  /\ UNCHANGED <<signals, sigChan, ctxDone, server, workVars, serveVars>>

\* DBPool.Close returns when all connections have come back.  Then Redis.
PoolClosed ==
  /\ main = "closing" /\ open = {"redis"} /\ conns = {}
  /\ open' = {}
  /\ UNCHANGED <<main, signals, sigChan, ctxDone, timedOut, server, workVars, serveVars>>

Return ==
  /\ main = "closing" /\ open = {}
  /\ main' = "returned"
  /\ UNCHANGED <<signals, sigChan, ctxDone, timedOut, server, open, workVars, serveVars>>

-----------------------------------------------------------------------------
(***************************************************************************)
(* The servers and their requests                                          *)
(***************************************************************************)

\* Listen or Serve gets to accept.
Listen(s) ==
  /\ Running /\ server[s] = "starting"
  /\ SetServer(s, "serving")
  /\ UNCHANGED <<main, signals, sigChan, ctxDone, timedOut, open, workVars, serveVars>>

\* The port is taken: logged only.
ListenFails(s) ==
  /\ Running /\ server[s] = "starting"
  /\ SetServer(s, "stopped")
  /\ UNCHANGED <<main, signals, sigChan, ctxDone, timedOut, open, workVars, serveVars>>

Accept(r, s) ==
  /\ Running /\ server[s] = "serving" /\ request[r] = "new"
  /\ SetRequest(r, "running")
  /\ via' = [via EXCEPT ![r] = s]
  /\ inTime' = IF main = "waiting" THEN inTime \cup {r} ELSE inTime
  /\ UNCHANGED <<main, signals, sigChan, ctxDone, timedOut, server, open, workVars, hurt>>

\* A handler asks one of the stores.
Query(r, store) ==
  /\ Running /\ request[r] = "running"
  /\ IF store \in open
     THEN SetRequest(r, "querying") /\ UNCHANGED hurt
     ELSE hurt' = hurt \cup {r} /\ UNCHANGED request
  /\ conns' = IF store \in open \cap {"pool"} THEN conns \cup {r} ELSE conns
  /\ UNCHANGED <<main, signals, sigChan, ctxDone, timedOut, server, open, worker, via, inTime>>

QueryEnds(r) ==
  /\ Running /\ request[r] = "querying"
  /\ SetRequest(r, "running")
  /\ conns' = conns \ {r}
  /\ UNCHANGED <<main, signals, sigChan, ctxDone, timedOut, server, open, worker,
                 via, inTime, hurt>>

Answer(r) ==
  /\ Running /\ request[r] = "running"
  /\ SetRequest(r, "done")
  /\ UNCHANGED <<main, signals, sigChan, ctxDone, timedOut, server, open, workVars,
                 via, inTime, hurt>>

-----------------------------------------------------------------------------
(***************************************************************************)
(* The workers                                                             *)
(***************************************************************************)
WorkerStarts(w) ==
  /\ Running /\ worker[w] = "starting"
  /\ SetWorker(w, "idle")
  /\ UNCHANGED <<main, signals, sigChan, ctxDone, timedOut, server, open, conns, serveVars>>

\* A batch or a task, which takes a connection of the pool.
WorkBegins(w) ==
  /\ Running /\ worker[w] = "idle" /\ ~ctxDone
  /\ SetWorker(w, "busy")
  /\ conns' = conns \cup {w}
  /\ UNCHANGED <<main, signals, sigChan, ctxDone, timedOut, server, open, serveVars>>

WorkEnds(w) ==
  /\ Running /\ worker[w] = "busy"
  /\ SetWorker(w, "idle")
  /\ conns' = conns \ {w}
  /\ UNCHANGED <<main, signals, sigChan, ctxDone, timedOut, server, open, serveVars>>

\* ctx.Done(): Start returns.
WorkerStops(w) ==
  /\ Running /\ worker[w] = "idle" /\ ctxDone
  /\ SetWorker(w, "stopped")
  /\ UNCHANGED <<main, signals, sigChan, ctxDone, timedOut, server, open, conns, serveVars>>

-----------------------------------------------------------------------------
RunStep == \/ Launch \/ BeginShutdown \/ FiberStopped \/ GrpcStopped
           \/ Join \/ JoinTimeout \/ PoolClosed \/ Return

Serve(r) == \/ \E s \in Servers : Accept(r, s)
            \/ \E store \in Stores : Query(r, store)
            \/ QueryEnds(r) \/ Answer(r)

Toil(w) == WorkerStarts(w) \/ WorkEnds(w) \/ WorkerStops(w)

Next ==
  \/ Signal \/ RunStep
  \/ \E s \in Servers : Listen(s) \/ ListenFails(s)
  \/ \E r \in Requests : Serve(r)
  \/ \E w \in Workers : Toil(w) \/ WorkBegins(w)

Spec == Init /\ [][Next]_vars

(***************************************************************************)
(* Run goes on, its clock too; goroutines get to run; every query ends;    *)
(* a batch ends, for ctx is passed to all it waits for.  Nothing makes a   *)
(* handler answer.                                                         *)
(***************************************************************************)
Fairness ==
  /\ WF_vars(RunStep)
  /\ \A r \in Requests : WF_vars(QueryEnds(r))
  /\ \A w \in Workers : WF_vars(Toil(w))

FairSpec == Spec /\ Fairness

-----------------------------------------------------------------------------
(***************************************************************************)
(* Properties                                                              *)
(***************************************************************************)

\* "Graceful shutdown": a request accepted before the signal was taken gets all
\* its answers from stores that are open.
InTimeIsServed == inTime \cap hurt = {}

\* What finds a store closed came through an HTTP listener that was not up when
\* Shutdown closed the listeners, and serves on.  No call of gRPC is among it:
\* GracefulStop takes effect also on a server that has not got to Serve.
OnlyLateListenersFail == \A r \in hurt : via[r] = "http" /\ server["http"] = "serving"

\* No request in time, a probe for instance, is answered by a process whose
\* workers have ended.  /readyz does not ask for the workers (their checkers are
\* registered nowhere) and relies on this.
WorkersOutliveRequests ==
  (\E w \in Workers : worker[w] = "stopped") => \A r \in inTime : request[r] = "done"

\* The pool is closed behind the workers, not in front of them, unless they
\* took longer than ten seconds.
WorkersGoFirst ==
  "pool" \notin open => timedOut \/ \A w \in Workers : worker[w] = "stopped"

(***************************************************************************)
(* Why they hold: an inductive invariant.                                  *)
(***************************************************************************)

\* Before DBPool.Close all stores are open.
StoresOpen == main \notin {"closing", "returned"} => open = Stores

\* The servers that were up when the signal was taken answer what they had
\* accepted before Run goes on.
Drained ==
  \A r \in inTime : request[r] # "done" =>
    \/ main = "waiting" /\ server[via[r]] = "serving"
    \/ main = "fiber" /\ server[via[r]] = (IF via[r] = "http" THEN "draining" ELSE "serving")
    \/ main = "grpc" /\ via[r] = "grpc"

\* Behind GracefulStop there are no calls, and none will come.
GrpcDrained ==
  main \in {"joining", "closing", "returned"} =>
    /\ server["grpc"] = "stopped"
    /\ \A r \in Requests : via[r] = "grpc" => request[r] \in {"new", "done"}

\* Only Shutdown waits for a listener to drain, and a request in flight has one.
HttpListens ==
  /\ main = "launching" => server["http"] = "off"
  /\ server["http"] = "draining" => main = "fiber"
  /\ InFlight("http") # {} => server["http"] \in {"serving", "draining"}

\* The workers are told to end when both servers have stopped.
CancelledLate ==
  /\ ctxDone => main \in {"joining", "closing", "returned"}
  /\ \A w \in Workers : worker[w] = "stopped" => ctxDone

\* What the histories name was accepted; nobody is hurt before the end.
Accepted ==
  /\ \A r \in inTime \cup hurt : request[r] # "new"
  /\ hurt # {} => main \in {"closing", "returned"}

\* Run returns when no connection of the pool is in use any more, and from then on
\* none is taken: the workers have been told to end, the pool turns requests away.
Quiescent ==
  /\ main \in {"joining", "closing", "returned"} => ctxDone
  /\ main = "returned" => open = {}
  /\ open = {} => conns = {}

ShutdownInv ==
  /\ TypeOK /\ StoresOpen /\ Drained /\ GrpcDrained /\ HttpListens
  /\ CancelledLate /\ Accepted /\ Quiescent
  /\ InTimeIsServed /\ OnlyLateListenersFail /\ WorkersGoFirst /\ WorkersOutliveRequests

\* The ten seconds for the workers cut no transaction off: a process that gave up
\* waiting for them still returns only when their connections have come back.
NoTransactionIsCutOff == main = "returned" => conns = {}

\* Once the signal is taken and the process stands, it ends by itself, provided
\* every handler answers: Shutdown and GracefulStop wait for them without a timeout.
HandlersAnswer    == \A r \in Requests : (request[r] = "running") ~> (request[r] = "done")
ShutdownCompletes == HandlersAnswer => ((sigChan = 1) ~> (main = "returned"))
=============================================================================
