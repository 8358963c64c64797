--------------------------- MODULE StateReplicator ---------------------------
(***************************************************************************)
(* core/pkg/kafka/state_replicator.go and the readiness check that watches *)
(* it, core/pkg/health/sync_checker.go: the consumer group whose work is   *)
(* to apply events of other services, the table sync_worker_history that   *)
(* is to remember when it last did, and the probe that reads the table.    *)
(***************************************************************************)
EXTENDS ConsumerGroup

CONSTANTS
  MaxFaults,     \* bound on the failures, shutdowns and rebalances explored
  Threshold,     \* kafka.state_replicator.bootstrap_threshold, in ticks
  BootstrapBlock,\* kafka.state_replicator.bootstrap_block
  Never          \* there was no such event yet

ASSUME ReplicatorAssumption ==
  /\ MaxFaults \in Nat
  /\ Threshold \in Nat
  /\ BootstrapBlock \in BOOLEAN
  /\ Never \notin Nat

VARIABLES
  kind,      \* the x-event-type of the message at each offset
  newest,    \* PostgreSQL: the age of the newest row of sync_worker_history
  dbUp,      \* PostgreSQL answers
  gauge,     \* each pod's metric database_needs_bootstrap
  ready,     \* what its last probe of SyncHistory said
  lastSync,  \* history: the age of the last event worked on to the end
  seenBy,    \* history: the pods that worked on each event
  faults

eventVars == <<kind, newest, lastSync, seenBy>>
probeVars == <<gauge, ready>>
ownVars   == <<eventVars, probeVars, dbUp, faults>>
vars      == <<groupVars, ownVars>>

\* One with a handler (replicator_handler.go registers it) and any other
Kinds == {"user.registered", "unknown"}

\* Ages beyond the threshold are all alike.
Ages == 0 .. Threshold + 1
Stale(age) == age = Never \/ (age # Never /\ age > Threshold)
Older(age) == IF age = Never \/ age = Threshold + 1 THEN age ELSE age + 1

TypeOK ==
  /\ GroupTypeOK
  /\ kind     \in [Offsets -> Kinds]
  /\ newest   \in Ages \cup {Never}
  /\ dbUp     \in BOOLEAN
  /\ gauge    \in [Pods -> 0 .. 1]
  /\ ready    \in [Pods -> BOOLEAN]
  /\ lastSync \in Ages \cup {Never}
  /\ seenBy   \in [Offsets -> SUBSET Pods]
  /\ faults   \in 0 .. MaxFaults

Init ==
  /\ GroupInit
  /\ kind     \in [Offsets -> Kinds]
  /\ newest   = Never
  /\ dbUp     = TRUE
  /\ gauge    = [p \in Pods |-> 0]
  /\ ready    = [p \in Pods |-> FALSE]
  /\ lastSync = Never
  /\ seenBy   = [o \in Offsets |-> {}]
  /\ faults   = 0

-----------------------------------------------------------------------------
Fault == faults < MaxFaults /\ faults' = faults + 1

FaultUnless(excused) == IF excused THEN UNCHANGED faults ELSE Fault

(***************************************************************************)
(* Seeded mistakes: variants of definitions below, not part of Spec.       *)
(***************************************************************************)

\* The handler is started in a goroutine of its own: the loop goes on although
\* nothing may have been done yet.
HandleUserRegisteredAsync(p) ==
  /\ kind[task[p]] = "user.registered"
  /\ Halfway(p)
  /\ UNCHANGED ownVars

\* The loop waits until a handler for the type is registered.
IgnoreWaits(p) ==
  /\ kind[task[p]] = "unknown"
  /\ pc[p] = "handling"
  /\ UNCHANGED vars

-----------------------------------------------------------------------------
(***************************************************************************)
(* The work on an event                                                    *)
(***************************************************************************)

\* The db field of the replicator: NewStateReplicator is given a pool and a pod
\* ID, and keeps neither.
HasDB == FALSE

\* HandleUserRegistered has nothing to do yet and returns nil.
HandleUserRegistered(p) ==
  /\ kind[task[p]] = "user.registered"
  /\ Halfway(p)
  /\ seenBy' = [seenBy EXCEPT ![task[p]] = @ \cup {p}]
  /\ UNCHANGED <<kind, newest, lastSync, probeVars, dbUp, faults>>

\* "Unknown event type (ignored)": syncErr is nil as well.
Ignore(p) ==
  /\ kind[task[p]] = "unknown"
  /\ Halfway(p)
  /\ UNCHANGED ownVars

\* The INSERT into sync_worker_history, behind r.db != nil and so never sent; then
\* the message is committed, because no handler returned an error.
Record(p) ==
  /\ pc[p] = "storing" /\ Finish(p)
  /\ newest' = IF HasDB /\ dbUp THEN 0 ELSE newest
  /\ lastSync' = 0
  /\ UNCHANGED <<kind, seenBy, probeVars, dbUp, faults>>

-----------------------------------------------------------------------------
(***************************************************************************)
(* The readiness probe                                                     *)
(***************************************************************************)

\* The blockReady field of the checker: NewSyncHistoryChecker is given the
\* value of bootstrap_block and does not keep it.
BlockReady == FALSE

\* SyncHistoryChecker.IsHealthy
CheckHistory(p) ==
  /\ gauge' = [gauge EXCEPT ![p] = IF ~dbUp THEN @ ELSE IF Stale(newest) THEN 1 ELSE 0]
  /\ ready' = [ready EXCEPT ![p] = dbUp /\ (Stale(newest) => ~BlockReady)]
  /\ UNCHANGED <<groupVars, eventVars, dbUp, faults>>

Probe(p) == pc[p] # "down" /\ CheckHistory(p)

Tick ==
  /\ newest' = Older(newest)
  /\ lastSync' = Older(lastSync)
  /\ UNCHANGED <<groupVars, kind, seenBy, probeVars, dbUp, faults>>

DatabaseFails ==
  /\ dbUp /\ dbUp' = FALSE
  /\ Fault
  /\ UNCHANGED <<groupVars, eventVars, probeVars>>

DatabaseRecovers ==
  /\ ~dbUp /\ dbUp' = TRUE
  /\ UNCHANGED <<groupVars, eventVars, probeVars, faults>>

-----------------------------------------------------------------------------
Work(p) == \/ (Fetch(p) \/ Commit(p) \/ Stop(p)) /\ UNCHANGED ownVars
           \/ HandleUserRegistered(p) \/ Ignore(p) \/ Record(p)

Fail(p) ==
  \/ FetchError(p) /\ UNCHANGED ownVars
  \/ /\ CommitFailed(p)
     /\ FaultUnless(cancelled[p] \/ p \notin members)
     /\ UNCHANGED <<eventVars, probeVars, dbUp>>
  \/ (Crash(p) \/ Cancel(p)) /\ Fault /\ UNCHANGED <<eventVars, probeVars, dbUp>>

Next ==
  \/ (Produce \/ Rebalance) /\ UNCHANGED ownVars
  \/ Evict /\ Fault /\ UNCHANGED <<eventVars, probeVars, dbUp>>
  \/ Tick \/ DatabaseFails \/ DatabaseRecovers
  \/ \E p \in Pods :
       \/ Work(p) \/ Fail(p) \/ Probe(p)
       \/ (Notice(p) \/ Restart(p)) /\ UNCHANGED ownVars

Spec == Init /\ [][Next]_vars

(***************************************************************************)
(* As in TaskProcessor.  Nothing depends on when PostgreSQL comes back or  *)
(* when the pods are probed: the loop never sends its INSERT.              *)
(***************************************************************************)
Fairness ==
  /\ WF_vars(Rebalance /\ UNCHANGED ownVars)
  /\ \A p \in Pods :
       /\ WF_vars(Work(p))
       /\ WF_vars(Notice(p) /\ UNCHANGED ownVars)
       /\ WF_vars(Restart(p) /\ UNCHANGED ownVars)

FairSpec == Spec /\ Fairness

-----------------------------------------------------------------------------
(***************************************************************************)
(* Properties                                                              *)
(***************************************************************************)

\* The replicator is a consumer of ConsumerGroup: no event it commits was left
\* unhandled.
ImplementsGroup == GroupSpec

\* Whatever came to its end, and so whatever the group will not read again, was
\* given to its handler if it has one.
SettledWasSeen ==
  \A o \in settled : kind[o] = "user.registered" => seenBy[o] # {}

StoringWasSeen ==
  \A p \in Pods : pc[p] = "storing" /\ kind[task[p]] = "user.registered" =>
    seenBy[task[p]] # {}

\* Why that holds: an inductive invariant.
ReplicatorInv == TypeOK /\ GroupInv /\ SettledWasSeen /\ StoringWasSeen

\* Every event is eventually worked on by some pod of the group.
EveryEventSeen == \A o \in Offsets :
  (o < len /\ kind[o] = "user.registered") ~> (seenBy[o] # {})

\* "Indicates if the database sync is stale and needs bootstrap (1 = yes,
\* 0 = no)": the gauge is set only when no event was worked on for longer than
\* the threshold.
GaugeMeansStale ==
  [][\A p \in Pods : Probe(p) /\ gauge'[p] = 1 => Stale(lastSync)]_vars

\* "if blocking is on, return false (the pod is not ready)": with
\* bootstrap_block a probe that finds the history stale or empty refuses.
StaleBlocks ==
  [][\A p \in Pods : Probe(p) /\ BootstrapBlock /\ Stale(newest) => ~ready'[p]]_vars
=============================================================================
