------------------------------ MODULE RateLimit ------------------------------
(***************************************************************************)
(* internal/middleware/pkg/ratelimit.go: a fixed-window limiter.  Requests *)
(* for the same key run concurrently, on any pod; they share one counter   *)
(* in Redis, which the first of them gives a time to live.                 *)
(*                                                                         *)
(* One key is modelled, in production mode (isProd): keys are independent. *)
(* The client (go-redis) repeats a command whose answer was lost.          *)
(***************************************************************************)
EXTENDS Naturals, FiniteSets

CONSTANTS
  Requests,   \* the requests that use the key
  Max,        \* max: requests admitted per window
  MaxFaults   \* bound on the failures explored

ASSUME LimitAssumption ==
  /\ IsFiniteSet(Requests)
  /\ Max \in Nat
  /\ MaxFaults \in Nat

VARIABLES
  \* the key in Redis
  count,      \* its value; 0 when it does not exist
  ttl,        \* it has a time to live
  \* each request
  pc,         \* where the middleware is with it
  seen,       \* what its Incr returned
  \* history
  window,     \* number of the current life of the key
  countedIn,  \* the life of the key the request was counted in
  open,       \* admitted because Redis did not answer
  faults      \* failures so far

keyVars == <<count, ttl, window>>
vars    == <<keyVars, pc, seen, countedIn, open, faults>>

\* new: before Incr; first: between Incr and Expire; counted: before the check
PC == {"new", "first", "counted", "admitted", "rejected", "dead"}

TypeOK ==
  /\ count     \in Nat
  /\ ttl       \in BOOLEAN
  /\ pc        \in [Requests -> PC]
  /\ seen      \in [Requests -> Nat]
  /\ window    \in Nat
  /\ countedIn \in [Requests -> Nat]
  /\ open      \in SUBSET Requests
  /\ faults    \in 0 .. MaxFaults

Init ==
  /\ count     = 0
  /\ ttl       = FALSE
  /\ pc        = [r \in Requests |-> "new"]
  /\ seen      = [r \in Requests |-> 0]
  /\ window    = 1
  /\ countedIn = [r \in Requests |-> 0]
  /\ open      = {}
  /\ faults    = 0

-----------------------------------------------------------------------------
(***************************************************************************)
(* Helpers                                                                 *)
(***************************************************************************)
Fault == faults < MaxFaults /\ faults' = faults + 1

Goto(r, where) == pc' = [pc EXCEPT ![r] = where]

\* The key goes away; the next Incr starts a new life.
Vanish == count' = 0 /\ ttl' = FALSE /\ window' = window + 1

-----------------------------------------------------------------------------
(***************************************************************************)
(* Seeded mistakes: variants of definitions below, not part of Spec.       *)
(***************************************************************************)

\* The first request is looked for as count == 0.
IncrNeverFirst(r) ==
  /\ pc[r] = "new"
  /\ count' = count + 1
  /\ seen' = [seen EXCEPT ![r] = count + 1]
  /\ countedIn' = [countedIn EXCEPT ![r] = window]
  /\ Goto(r, "counted")
  /\ UNCHANGED <<ttl, window, open, faults>>

\* Expire goes to the reader, a replica, which refuses it.
ExpireOnReader(r) ==
  /\ pc[r] = "first"
  /\ Goto(r, "counted")
  /\ UNCHANGED <<keyVars, seen, countedIn, open, faults>>

\* count > max + 1
CheckLax(r) ==
  /\ pc[r] = "counted"
  /\ Goto(r, IF seen[r] > Max + 1 THEN "rejected" ELSE "admitted")
  /\ UNCHANGED <<keyVars, seen, countedIn, open, faults>>

\* count >= max
CheckStrict(r) ==
  /\ pc[r] = "counted"
  /\ Goto(r, IF seen[r] >= Max THEN "rejected" ELSE "admitted")
  /\ UNCHANGED <<keyVars, seen, countedIn, open, faults>>

-----------------------------------------------------------------------------
(***************************************************************************)
(* RateLimitMiddleware                                                     *)
(***************************************************************************)

\* rdb.Incr
Incr(r) ==
  /\ pc[r] = "new"
  /\ count' = count + 1
  /\ seen' = [seen EXCEPT ![r] = count + 1]
  /\ countedIn' = [countedIn EXCEPT ![r] = window]
  /\ Goto(r, IF count + 1 = 1 THEN "first" ELSE "counted")
  /\ UNCHANGED <<ttl, window, open, faults>>

\* The answer to an Incr is lost and go-redis sends it again.
IncrRepeated(r) ==
  /\ pc[r] = "new"
  /\ count' = count + 1
  /\ Fault
  /\ UNCHANGED <<ttl, window, pc, seen, countedIn, open>>

\* Redis cannot be reached: the request is let through.
IncrFailed(r) ==
  /\ pc[r] = "new"
  /\ Goto(r, "admitted")
  /\ open' = open \cup {r}
  /\ Fault
  /\ UNCHANGED <<keyVars, seen, countedIn>>

\* rdb.Expire(ctx, key, window); without effect if the key is gone.
Expire(r) ==
  /\ pc[r] = "first"
  /\ ttl' = (count > 0)
  /\ Goto(r, "counted")
  /\ UNCHANGED <<count, window, seen, countedIn, open, faults>>

\* Its error is ignored.
ExpireFailed(r) ==
  /\ pc[r] = "first"
  /\ Goto(r, "counted")
  /\ Fault
  /\ UNCHANGED <<keyVars, seen, countedIn, open>>

\* count > max
Check(r) ==
  /\ pc[r] = "counted"
  /\ Goto(r, IF seen[r] > Max THEN "rejected" ELSE "admitted")
  /\ UNCHANGED <<keyVars, seen, countedIn, open, faults>>

-----------------------------------------------------------------------------
(***************************************************************************)
(* Time and failures                                                       *)
(***************************************************************************)
KeyExpires ==
  /\ count > 0 /\ ttl
  /\ Vanish
  /\ UNCHANGED <<pc, seen, countedIn, open, faults>>

\* A failover to a replica that has not seen the key.
KeyLost ==
  /\ count > 0
  /\ Vanish
  /\ Fault
  /\ UNCHANGED <<pc, seen, countedIn, open>>

\* The pod dies with the request.
Crash(r) ==
  /\ pc[r] \in {"new", "first", "counted"}
  /\ Goto(r, "dead")
  /\ Fault
  /\ UNCHANGED <<keyVars, seen, countedIn, open>>

-----------------------------------------------------------------------------
Serve(r) == Expire(r) \/ Check(r)

Fail(r) == IncrRepeated(r) \/ IncrFailed(r) \/ ExpireFailed(r) \/ Crash(r)

Next ==
  \/ \E r \in Requests : Incr(r) \/ Serve(r) \/ Fail(r)
  \/ KeyExpires \/ KeyLost

Spec == Init /\ [][Next]_vars

\* A request that has been counted is served to its end, and time passes.
Fairness == (\A r \in Requests : WF_vars(Serve(r))) /\ WF_vars(KeyExpires)

FairSpec == Spec /\ Fairness

-----------------------------------------------------------------------------
(***************************************************************************)
(* Properties                                                              *)
(***************************************************************************)
CountedInWindow(w) == {r \in Requests : countedIn[r] = w}

\* However the requests interleave, at most max of those counted in one life of
\* the key are admitted.
LimitHolds == \A w \in 1 .. window :
  Cardinality({r \in CountedInWindow(w) : pc[r] = "admitted"}) <= Max

(***************************************************************************)
(* Why it holds: an inductive invariant.                                   *)
(***************************************************************************)

\* Requests counted in the same life of the key saw different values, none of
\* them beyond the counter.
SeenDiffers ==
  /\ window >= 1
  /\ \A r \in Requests :
       /\ countedIn[r] <= window
       /\ countedIn[r] # 0 => seen[r] >= 1
       /\ countedIn[r] = window => seen[r] <= count
  /\ \A q, r \in Requests :
       q # r /\ countedIn[q] = countedIn[r] /\ countedIn[q] # 0 => seen[q] # seen[r]

\* A request that was counted is admitted on the strength of what it saw.
AdmittedBySeen ==
  \A r \in Requests :
    /\ pc[r] = "new" => countedIn[r] = 0
    /\ pc[r] = "admitted" /\ countedIn[r] # 0 => seen[r] <= Max

\* Each unit of the counter stands for a request of this life of the key or for
\* a failure, and so does what a request saw.
CountIsAccounted ==
  /\ count <= Cardinality(CountedInWindow(window)) + faults
  /\ \A r \in Requests :
       /\ countedIn[r] # 0 => seen[r] <= Cardinality(CountedInWindow(countedIn[r])) + faults
       /\ pc[r] \in {"first", "counted", "rejected"} => countedIn[r] # 0
       /\ pc[r] = "rejected" => seen[r] > Max

\* A request is turned away only if max others were counted before it in the
\* same life of the key; each failure can stand in for one of them.
RejectedOnlyOverLimit == \A r \in Requests :
  pc[r] = "rejected" => Cardinality(CountedInWindow(countedIn[r])) + faults > Max

\* "If this is the first request, give the key a TTL": without failures a key
\* that has none is about to get it.
TTLOnItsWay ==
  faults = 0 /\ count > 0 /\ ~ttl => \E r \in Requests : pc[r] = "first"

LimitInv == TypeOK /\ SeenDiffers /\ AdmittedBySeen /\ CountIsAccounted /\ TTLOnItsWay

\* "Limit exhausted, please wait": who waits is eventually admitted again.
WaitingHelps == count > Max ~> count = 0

\* As long as nothing failed that is so.
WaitingHelpsUntroubled ==
  (faults = 0 /\ count > Max) ~> (faults > 0 \/ count = 0)

\* Why waiting may not help: a counter beyond max that has no time to live and
\* that nobody is about to give one stays like that, and turns away every request
\* that it counts, until Redis loses the key.
LockedOut == count > Max /\ ~ttl /\ \A r \in Requests : pc[r] # "first"
LockoutIsFinal ==
  [][LockedOut =>
       \/ KeyLost
       \/ LockedOut' /\ \A r \in Requests : pc[r] = "new" /\ pc'[r] = "counted" => seen'[r] > Max]_vars
=============================================================================
