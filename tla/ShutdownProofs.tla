--------------------------- MODULE ShutdownProofs ----------------------------
(***************************************************************************)
(* Proofs about Shutdown for any number of workers and requests.           *)
(***************************************************************************)
EXTENDS Shutdown, TLAPS

USE ShutdownAssumption

LEMMA ShutdownInvInit == Init => ShutdownInv
<1> SUFFICES ASSUME Init PROVE ShutdownInv
  OBVIOUS
<1> USE DEF Init, Servers, Stores
<1>1. TypeOK
  <2>1. ctxDone \in BOOLEAN /\ timedOut \in BOOLEAN
    BY Zenon
  <2>2. QED
    BY <2>1 DEF TypeOK, Main
<1>2. /\ StoresOpen /\ Drained /\ GrpcDrained /\ HttpListens /\ CancelledLate /\ Accepted
      /\ InTimeIsServed /\ OnlyLateListenersFail /\ WorkersGoFirst /\ WorkersOutliveRequests
  BY DEF StoresOpen, Drained, GrpcDrained, HttpListens, InFlight, CancelledLate, Accepted,
         InTimeIsServed, OnlyLateListenersFail, WorkersGoFirst, WorkersOutliveRequests
<1>3. Quiescent
  BY DEF Quiescent
<1>4. QED
  BY <1>1, <1>2, <1>3 DEF ShutdownInv

LEMMA TypeStep == TypeOK /\ [Next]_vars => TypeOK'
<1> SUFFICES ASSUME TypeOK, [Next]_vars PROVE TypeOK'
  OBVIOUS
<1> USE DEF TypeOK, Main, Servers, Stores, SetServer, SetWorker, SetRequest, serveVars, workVars
<1>1. CASE Signal
  BY <1>1 DEF Signal
<1>2. CASE Launch
  BY <1>2 DEF Launch
<1>3. CASE BeginShutdown
  BY <1>3 DEF BeginShutdown
<1>4. CASE FiberStopped
  BY <1>4 DEF FiberStopped
<1>5. CASE GrpcStopped
  BY <1>5 DEF GrpcStopped
<1>6. CASE Join \/ JoinTimeout
  BY <1>6 DEF Join, JoinTimeout
<1>7. CASE PoolClosed \/ Return
  BY <1>7 DEF PoolClosed, Return
<1>8. ASSUME NEW s \in Servers, Listen(s) \/ ListenFails(s) PROVE TypeOK'
  BY <1>8 DEF Listen, ListenFails
<1>9. ASSUME NEW r \in Requests, NEW s \in Servers, Accept(r, s) PROVE TypeOK'
  BY <1>9 DEF Accept
<1>10. ASSUME NEW r \in Requests, NEW store \in Stores, Query(r, store) PROVE TypeOK'
  BY <1>10 DEF Query
<1>11. ASSUME NEW r \in Requests, QueryEnds(r) \/ Answer(r) PROVE TypeOK'
  BY <1>11 DEF QueryEnds, Answer
<1>12. ASSUME NEW w \in Workers, Toil(w) \/ WorkBegins(w) PROVE TypeOK'
  BY <1>12 DEF Toil, WorkerStarts, WorkEnds, WorkerStops, WorkBegins
<1>13. CASE UNCHANGED vars
  BY <1>13 DEF vars
<1>14. QED
  BY <1>1, <1>2, <1>3, <1>4, <1>5, <1>6, <1>7, <1>8, <1>9, <1>10, <1>11, <1>12, <1>13
     DEF Next, RunStep, Serve

\* The stores are closed last of all, behind the workers.
LEMMA StoresStep ==
  ASSUME TypeOK, StoresOpen, WorkersGoFirst, [Next]_vars
  PROVE  StoresOpen' /\ WorkersGoFirst'
<1> USE DEF TypeOK, StoresOpen, WorkersGoFirst, SetWorker, serveVars, workVars, Stores
<1>1. CASE Signal \/ Launch \/ BeginShutdown \/ FiberStopped \/ GrpcStopped
  BY <1>1 DEF Signal, Launch, BeginShutdown, FiberStopped, GrpcStopped
<1>2. CASE Join
  BY <1>2 DEF Join, Joined
<1>3. CASE JoinTimeout
  BY <1>3 DEF JoinTimeout
<1>4. CASE PoolClosed \/ Return
  BY <1>4 DEF PoolClosed, Return
<1>5. ASSUME NEW s \in Servers, Listen(s) \/ ListenFails(s)
      PROVE  StoresOpen' /\ WorkersGoFirst'
  BY <1>5 DEF Listen, ListenFails
<1>6. ASSUME NEW r \in Requests, Serve(r) PROVE StoresOpen' /\ WorkersGoFirst'
  BY <1>6 DEF Serve, Accept, Query, QueryEnds, Answer
<1>7. ASSUME NEW w \in Workers, Toil(w) \/ WorkBegins(w)
      PROVE  StoresOpen' /\ WorkersGoFirst'
  BY <1>7 DEF Toil, WorkerStarts, WorkEnds, WorkerStops, WorkBegins
<1>8. CASE UNCHANGED vars
  BY <1>8 DEF vars
<1>9. QED
  BY <1>1, <1>2, <1>3, <1>4, <1>5, <1>6, <1>7, <1>8 DEF Next, RunStep

\* Run goes past a server only when what it had accepted is answered, and until
\* then the stores are open.
LEMMA DrainedStep ==
  ASSUME TypeOK, StoresOpen, Drained, Accepted, InTimeIsServed, [Next]_vars
  PROVE  Drained' /\ Accepted' /\ InTimeIsServed'
<1> USE DEF TypeOK, Drained, Accepted, InTimeIsServed, SetServer, SetRequest, Servers, Stores,
  serveVars, workVars
<1>1. CASE Signal
  BY <1>1 DEF Signal
<1>2. CASE Launch
  BY <1>2 DEF Launch
<1>3. CASE BeginShutdown
  BY <1>3 DEF BeginShutdown
<1>4. CASE FiberStopped
  <2>1. ASSUME NEW r \in inTime, request[r] # "done", via[r] = "http" PROVE FALSE
    <3>1. server["http"] = "draining" /\ InFlight("http") = {}
      BY <1>4, <2>1 DEF FiberStopped
    <3>2. request[r] \in {"running", "querying"}
      BY <2>1
    <3>3. QED
      BY <2>1, <3>1, <3>2 DEF InFlight
  <2>2. QED
    BY <1>4, <2>1 DEF FiberStopped
<1>5. CASE GrpcStopped
  BY <1>5 DEF GrpcStopped, InFlight
<1>6. CASE Join \/ JoinTimeout \/ PoolClosed \/ Return
  BY <1>6 DEF Join, JoinTimeout, PoolClosed, Return
<1>7. ASSUME NEW s \in Servers, Listen(s) \/ ListenFails(s)
      PROVE  Drained' /\ Accepted' /\ InTimeIsServed'
  BY <1>7 DEF Listen, ListenFails
<1>8. ASSUME NEW r \in Requests, NEW s \in Servers, Accept(r, s)
      PROVE  Drained' /\ Accepted' /\ InTimeIsServed'
  <2>1. InTimeIsServed'
    <3>1. r \notin hurt
      BY <1>8 DEF Accept
    <3>2. QED
      BY <1>8, <3>1 DEF Accept
  <2>2. Drained'
    BY <1>8 DEF Accept
  <2>3. Accepted'
    BY <1>8 DEF Accept
  <2>4. QED
    BY <2>1, <2>2, <2>3
<1>9. ASSUME NEW r \in Requests, NEW store \in Stores, Query(r, store)
      PROVE  Drained' /\ Accepted' /\ InTimeIsServed'
  <2>1. CASE store \in open
    BY <1>9, <2>1 DEF Query
  <2>2. CASE store \notin open
    <3>1. main \in {"closing", "returned"}
      BY <2>2 DEF StoresOpen
    <3>2. r \notin inTime
      BY <1>9, <3>1 DEF Query
    <3>3. QED
      BY <1>9, <2>2, <3>1, <3>2 DEF Query
  <2>3. QED
    BY <2>1, <2>2
<1>10. ASSUME NEW r \in Requests, QueryEnds(r) \/ Answer(r)
       PROVE  Drained' /\ Accepted' /\ InTimeIsServed'
  BY <1>10 DEF QueryEnds, Answer
<1>11. ASSUME NEW w \in Workers, Toil(w) \/ WorkBegins(w)
       PROVE  Drained' /\ Accepted' /\ InTimeIsServed'
  BY <1>11 DEF Toil, WorkerStarts, WorkEnds, WorkerStops, WorkBegins
<1>12. CASE UNCHANGED vars
  BY <1>12 DEF vars
<1>13. QED
  BY <1>1, <1>2, <1>3, <1>4, <1>5, <1>6, <1>7, <1>8, <1>9, <1>10, <1>11, <1>12
     DEF Next, RunStep, Serve

\* No call of gRPC is left when the stores are closed.
LEMMA GrpcStep ==
  ASSUME TypeOK, GrpcDrained, [Next]_vars
  PROVE  GrpcDrained'
<1> USE DEF TypeOK, GrpcDrained, SetServer, SetRequest, Servers, serveVars, workVars
<1>1. CASE Signal \/ Launch \/ BeginShutdown \/ FiberStopped
  BY <1>1 DEF Signal, Launch, BeginShutdown, FiberStopped
<1>2. CASE GrpcStopped
  <2>1. \A r \in Requests : via[r] = "grpc" => request[r] \in {"new", "done"}
    BY <1>2 DEF GrpcStopped, InFlight
  <2>2. QED
    BY <1>2, <2>1 DEF GrpcStopped
<1>3. CASE Join \/ JoinTimeout \/ PoolClosed \/ Return
  BY <1>3 DEF Join, JoinTimeout, PoolClosed, Return
<1>4. ASSUME NEW s \in Servers, Listen(s) \/ ListenFails(s) PROVE GrpcDrained'
  BY <1>4 DEF Listen, ListenFails
<1>5. ASSUME NEW r \in Requests, NEW s \in Servers, Accept(r, s) PROVE GrpcDrained'
  BY <1>5 DEF Accept
<1>6. ASSUME NEW r \in Requests, NEW store \in Stores, Query(r, store) PROVE GrpcDrained'
  BY <1>6 DEF Query
<1>7. ASSUME NEW r \in Requests, QueryEnds(r) \/ Answer(r) PROVE GrpcDrained'
  BY <1>7 DEF QueryEnds, Answer
<1>8. ASSUME NEW w \in Workers, Toil(w) \/ WorkBegins(w) PROVE GrpcDrained'
  BY <1>8 DEF Toil, WorkerStarts, WorkEnds, WorkerStops, WorkBegins
<1>9. CASE UNCHANGED vars
  BY <1>9 DEF vars
<1>10. QED
  BY <1>1, <1>2, <1>3, <1>4, <1>5, <1>6, <1>7, <1>8, <1>9 DEF Next, RunStep, Serve

\* A request in flight over HTTP has a listener that is up or being drained.
LEMMA HttpStep ==
  ASSUME TypeOK, HttpListens, [Next]_vars
  PROVE  HttpListens'
<1> USE DEF TypeOK, HttpListens, InFlight, SetServer, SetRequest, Servers, serveVars, workVars
<1>1. CASE Signal
  BY <1>1 DEF Signal
<1>2. CASE Launch
  BY <1>2 DEF Launch
<1>3. CASE BeginShutdown
  BY <1>3 DEF BeginShutdown
<1>4. CASE FiberStopped
  BY <1>4 DEF FiberStopped
<1>5. CASE GrpcStopped
  BY <1>5 DEF GrpcStopped
<1>6. CASE Join \/ JoinTimeout \/ PoolClosed \/ Return
  BY <1>6 DEF Join, JoinTimeout, PoolClosed, Return
<1>7. ASSUME NEW s \in Servers, Listen(s) \/ ListenFails(s) PROVE HttpListens'
  BY <1>7 DEF Listen, ListenFails
<1>8. ASSUME NEW r \in Requests, NEW s \in Servers, Accept(r, s) PROVE HttpListens'
  BY <1>8 DEF Accept
<1>9. ASSUME NEW r \in Requests, NEW store \in Stores, Query(r, store) PROVE HttpListens'
  BY <1>9 DEF Query
<1>10. ASSUME NEW r \in Requests, QueryEnds(r) \/ Answer(r) PROVE HttpListens'
  BY <1>10 DEF QueryEnds, Answer
<1>11. ASSUME NEW w \in Workers, Toil(w) \/ WorkBegins(w) PROVE HttpListens'
  BY <1>11 DEF Toil, WorkerStarts, WorkEnds, WorkerStops, WorkBegins
<1>12. CASE UNCHANGED vars
  BY <1>12 DEF vars
<1>13. QED
  BY <1>1, <1>2, <1>3, <1>4, <1>5, <1>6, <1>7, <1>8, <1>9, <1>10, <1>11, <1>12
     DEF Next, RunStep, Serve

\* Only a request in flight over a listener that is still up is hurt, for by then
\* the calls of gRPC are answered and no listener is being drained.
LEMMA HurtStep ==
  ASSUME TypeOK, StoresOpen, GrpcDrained, HttpListens, Accepted, OnlyLateListenersFail,
         [Next]_vars
  PROVE  OnlyLateListenersFail'
<1> USE DEF TypeOK, OnlyLateListenersFail, Accepted, SetServer, SetRequest, Servers,
  serveVars, workVars
<1>1. CASE Signal
  BY <1>1 DEF Signal, Running
<1>2. CASE Launch \/ BeginShutdown \/ FiberStopped \/ GrpcStopped
  BY <1>2 DEF Launch, BeginShutdown, FiberStopped, GrpcStopped
<1>3. CASE Join \/ JoinTimeout \/ PoolClosed \/ Return
  BY <1>3 DEF Join, JoinTimeout, PoolClosed, Return
<1>4. ASSUME NEW s \in Servers, Listen(s) \/ ListenFails(s)
      PROVE  OnlyLateListenersFail'
  BY <1>4 DEF Listen, ListenFails
<1>5. ASSUME NEW r \in Requests, NEW s \in Servers, Accept(r, s)
      PROVE  OnlyLateListenersFail'
  <2>1. r \notin hurt
    BY <1>5 DEF Accept
  <2>2. QED
    BY <1>5, <2>1 DEF Accept
<1>6. ASSUME NEW r \in Requests, NEW store \in Stores, Query(r, store)
      PROVE  OnlyLateListenersFail'
  <2>1. CASE store \in open
    BY <1>6, <2>1 DEF Query
  <2>2. CASE store \notin open
    <3>1. main \in {"closing", "returned"}
      BY <2>2 DEF StoresOpen
    <3>2. request[r] = "running"
      BY <1>6 DEF Query
    <3>3. via[r] = "http"
      BY <3>1, <3>2 DEF GrpcDrained
    <3>4. server["http"] = "serving"
      BY <3>1, <3>2, <3>3 DEF HttpListens, InFlight
    <3>5. QED
      BY <1>6, <2>2, <3>1, <3>3, <3>4 DEF Query
  <2>3. QED
    BY <2>1, <2>2
<1>7. ASSUME NEW r \in Requests, QueryEnds(r) \/ Answer(r)
      PROVE  OnlyLateListenersFail'
  BY <1>7 DEF QueryEnds, Answer
<1>8. ASSUME NEW w \in Workers, Toil(w) \/ WorkBegins(w)
      PROVE  OnlyLateListenersFail'
  BY <1>8 DEF Toil, WorkerStarts, WorkEnds, WorkerStops, WorkBegins
<1>9. CASE UNCHANGED vars
  BY <1>9 DEF vars
<1>10. QED
  BY <1>1, <1>2, <1>3, <1>4, <1>5, <1>6, <1>7, <1>8, <1>9 DEF Next, RunStep, Serve

\* The workers are not told to end before both servers have stopped.
LEMMA CancelledStep ==
  ASSUME TypeOK, CancelledLate, [Next]_vars
  PROVE  CancelledLate'
<1> USE DEF TypeOK, CancelledLate, SetWorker, serveVars, workVars
<1>1. CASE Signal
  BY <1>1 DEF Signal, Running
<1>2. CASE Launch \/ BeginShutdown \/ FiberStopped \/ GrpcStopped
  BY <1>2 DEF Launch, BeginShutdown, FiberStopped, GrpcStopped
<1>3. CASE Join \/ JoinTimeout \/ PoolClosed \/ Return
  BY <1>3 DEF Join, JoinTimeout, PoolClosed, Return
<1>4. ASSUME NEW s \in Servers, Listen(s) \/ ListenFails(s) PROVE CancelledLate'
  BY <1>4 DEF Listen, ListenFails
<1>5. ASSUME NEW r \in Requests, Serve(r) PROVE CancelledLate'
  BY <1>5 DEF Serve, Accept, Query, QueryEnds, Answer
<1>6. ASSUME NEW w \in Workers, Toil(w) \/ WorkBegins(w) PROVE CancelledLate'
  BY <1>6 DEF Toil, WorkerStarts, WorkEnds, WorkerStops, WorkBegins
<1>7. CASE UNCHANGED vars
  BY <1>7 DEF vars
<1>8. QED
  BY <1>1, <1>2, <1>3, <1>4, <1>5, <1>6, <1>7 DEF Next, RunStep

\* The connections come back before Run returns, and none is taken after.
LEMMA QuiescentStep ==
  ASSUME TypeOK, StoresOpen, Quiescent, [Next]_vars
  PROVE  Quiescent'
<1> USE DEF TypeOK, StoresOpen, Quiescent, Main, Stores, serveVars, workVars
<1>1. CASE Signal
  BY <1>1 DEF Signal, Running
<1>2. CASE Launch \/ BeginShutdown \/ FiberStopped \/ GrpcStopped
  BY <1>2 DEF Launch, BeginShutdown, FiberStopped, GrpcStopped
<1>3. CASE Join \/ JoinTimeout \/ PoolClosed \/ Return
  <2>1. CASE Join \/ JoinTimeout
    <3>1. ctxDone /\ open = Stores /\ open' = open \ {"pool"} /\ main' = "closing"
          /\ UNCHANGED <<ctxDone, conns>>
      BY <2>1 DEF Join, JoinTimeout
    <3>2. "redis" \in open'
      BY <3>1
    <3>3. QED
      BY <3>1, <3>2
  <2>2. CASE PoolClosed
    BY <2>2 DEF PoolClosed
  <2>3. CASE Return
    BY <2>3 DEF Return
  <2>4. QED
    BY <1>3, <2>1, <2>2, <2>3
<1>4. ASSUME NEW s \in Servers, Listen(s) \/ ListenFails(s) PROVE Quiescent'
  BY <1>4 DEF Listen, ListenFails
<1>5. ASSUME NEW r \in Requests, Serve(r) PROVE Quiescent'
  BY <1>5 DEF Serve, Accept, Query, QueryEnds, Answer
<1>6. ASSUME NEW w \in Workers, Toil(w) \/ WorkBegins(w) PROVE Quiescent'
  BY <1>6 DEF Toil, WorkerStarts, WorkEnds, WorkerStops, WorkBegins
<1>7. CASE UNCHANGED vars
  BY <1>7 DEF vars
<1>8. QED
  BY <1>1, <1>2, <1>3, <1>4, <1>5, <1>6, <1>7 DEF Next, RunStep

\* A worker that has ended was told to, behind everything that was in time.
LEMMA RequestsEndFirst ==
  ASSUME TypeOK, Drained, CancelledLate
  PROVE  WorkersOutliveRequests
BY DEF TypeOK, Drained, CancelledLate, WorkersOutliveRequests, Main

-----------------------------------------------------------------------------
(***************************************************************************)
(* Theorems                                                                *)
(***************************************************************************)

\* The inductive invariant: whatever was accepted in time and is not answered
\* yet holds Run up, and until Run goes on the stores are open.
THEOREM ShutdownInvCorrect == Spec => []ShutdownInv
<1>1. ShutdownInv /\ [Next]_vars => ShutdownInv'
  <2> SUFFICES ASSUME ShutdownInv, [Next]_vars PROVE ShutdownInv'
    OBVIOUS
  <2> USE DEF ShutdownInv
  <2>1. TypeOK'
    BY TypeStep
  <2>2. StoresOpen' /\ WorkersGoFirst'
    BY StoresStep
  <2>3. Drained' /\ Accepted' /\ InTimeIsServed'
    BY DrainedStep
  <2>4. GrpcDrained' /\ HttpListens' /\ CancelledLate' /\ Quiescent'
    BY GrpcStep, HttpStep, CancelledStep, QuiescentStep
  <2>5. OnlyLateListenersFail'
    BY HurtStep
  <2>6. WorkersOutliveRequests'
    BY <2>1, <2>3, <2>4, RequestsEndFirst DEF TypeOK, Drained, CancelledLate, WorkersOutliveRequests, Main
  <2>7. QED
    BY <2>1, <2>2, <2>3, <2>4, <2>5, <2>6
<1>2. QED
  BY <1>1, ShutdownInvInit, PTL DEF Spec

\* Every variable of the process keeps its type.
THEOREM TypeCorrect == Spec => []TypeOK
BY ShutdownInvCorrect, PTL DEF ShutdownInv

\* No request that was accepted before the signal finds a store closed.
THEOREM GracefulForRequests == Spec => []InTimeIsServed
BY ShutdownInvCorrect, PTL DEF ShutdownInv

\* Whoever finds a store closed came through an HTTP listener that was late.
THEOREM GracefulButForLateListeners == Spec => []OnlyLateListenersFail
BY ShutdownInvCorrect, PTL DEF ShutdownInv

\* The pool is closed behind the workers unless the wait for them timed out.
THEOREM GracefulForWorkers == Spec => []WorkersGoFirst
BY ShutdownInvCorrect, PTL DEF ShutdownInv

\* While a request that was in time is not answered, no worker has ended.
THEOREM WorkersStayForRequests == Spec => []WorkersOutliveRequests
BY ShutdownInvCorrect, PTL DEF ShutdownInv

\* Run returns with every connection back in the pool, although it waits ten
\* seconds for the workers and no longer.
THEOREM TransactionsAreEnded == Spec => []NoTransactionIsCutOff
<1>1. ShutdownInv => NoTransactionIsCutOff
  BY DEF ShutdownInv, Quiescent, NoTransactionIsCutOff
<1>2. QED
  BY <1>1, ShutdownInvCorrect, PTL
=============================================================================
