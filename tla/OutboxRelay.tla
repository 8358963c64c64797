----------------------------- MODULE OutboxRelay -----------------------------
(***************************************************************************)
(* core/pkg/kafka/outbox_relay.go: every pod runs one OutboxRelay, which   *)
(* at each tick moves a batch of rows of the table outbox_events to Kafka  *)
(* inside one PostgreSQL transaction:                                      *)
(*                                                                         *)
(*   BEGIN; UPDATE ... SET status = 'processing' over a SELECT ... FOR     *)
(*   UPDATE SKIP LOCKED; WriteMessages; DELETE; COMMIT                     *)
(*                                                                         *)
(* The pods share the table and nothing else.  PostgreSQL and the Kafka    *)
(* writer are modelled by what the relay sees of them: row locks that      *)
(* live as long as the session, an aborted transaction, a write that lands *)
(* without being acknowledged, a commit whose answer is lost.              *)
(***************************************************************************)
EXTENDS Naturals, FiniteSets

CONSTANTS
  Pods,         \* replicas of the service
  Events,       \* rows ever written; the number orders created_at
  BatchSize,    \* LIMIT of the fetch (50 in the code)
  MaxAttempts,  \* kafka.Writer.MaxAttempts (5 in the code)
  Oversized,    \* events the Kafka writer refuses before sending anything
  MaxFaults,    \* bound on the failures and shutdowns explored
  None,         \* no session holds the row
  Orphan        \* a session whose client is gone, not yet reaped

ASSUME PodsAreFinite == IsFiniteSet(Pods)

ASSUME RelayAssumption ==
  /\ Events \subseteq Nat
  /\ Oversized \subseteq Events
  /\ BatchSize \in Nat \ {0}
  /\ MaxAttempts \in Nat \ {0}
  /\ MaxFaults \in Nat
  /\ None \notin Pods
  /\ Orphan \notin Pods
  /\ None # Orphan

VARIABLES
  \* PostgreSQL
  row,        \* committed status of each row of outbox_events
  due,        \* rows with scheduled_at <= NOW()
  lock,       \* the session that holds the row lock
  \* Kafka
  topic,      \* copies of each event in its topic
  \* each pod's OutboxRelay
  pc,         \* where processBatch is
  tx,         \* its transaction, as the server sees it
  events,     \* the rows it read from the UPDATE ... RETURNING
  unacked,    \* messages of the batch Kafka has not acknowledged
  attempts,   \* write attempts of the batch so far
  cancelled,  \* ctx.Done() is closed
  \* history
  relayed,    \* how often OutboxRelayedTotal counted the event
  faults      \* failures and shutdowns so far

dbVars    == <<row, due, lock>>
batchVars == <<pc, tx, events, unacked, attempts>>
vars      == <<dbVars, topic, batchVars, cancelled, relayed, faults>>

RowStatus == {"unwritten", "pending", "processing", "deleted"}
PC        == {"idle", "sending", "finalizing", "committing", "down"}
TxStatus  == {"none", "open", "aborted"}

TypeOK ==
  /\ row       \in [Events -> RowStatus]
  /\ due       \in SUBSET Events
  /\ lock      \in [Events -> Pods \cup {None, Orphan}]
  /\ topic     \in [Events -> Nat]
  /\ pc        \in [Pods -> PC]
  /\ tx        \in [Pods -> TxStatus]
  /\ events    \in [Pods -> SUBSET Events]
  /\ unacked   \in [Pods -> SUBSET Events]
  /\ attempts  \in [Pods -> 0 .. MaxAttempts - 1]
  /\ cancelled \in [Pods -> BOOLEAN]
  /\ relayed   \in [Events -> Nat]
  /\ faults    \in 0 .. MaxFaults

Init ==
  /\ row       = [e \in Events |-> "unwritten"]
  /\ due       = {}
  /\ lock      = [e \in Events |-> None]
  /\ topic     = [e \in Events |-> 0]
  /\ pc        = [p \in Pods |-> "idle"]
  /\ tx        = [p \in Pods |-> "none"]
  /\ events    = [p \in Pods |-> {}]
  /\ unacked   = [p \in Pods |-> {}]
  /\ attempts  = [p \in Pods |-> 0]
  /\ cancelled = [p \in Pods |-> FALSE]
  /\ relayed   = [e \in Events |-> 0]
  /\ faults    = 0

-----------------------------------------------------------------------------
(***************************************************************************)
(* Helpers                                                                 *)
(***************************************************************************)
Fault == faults < MaxFaults /\ faults' = faults + 1

\* Rows the inner SELECT may return: pending, due, not locked by anyone.
Eligible == {e \in Events : row[e] = "pending" /\ e \in due /\ lock[e] = None}

\* ORDER BY created_at ASC LIMIT BatchSize
Oldest(S) == {e \in S : Cardinality({d \in S : d < e}) < BatchSize}

Store(S)  == [e \in Events |-> IF e \in S THEN topic[e] + 1 ELSE topic[e]]

Held(p)       == {e \in Events : lock[e] = p}
LockTo(S, s)  == [e \in Events |-> IF e \in S THEN s ELSE lock[e]]

\* The batch the pod has in hand.
InHand(p, where, status, rows) ==
  /\ pc'       = [pc EXCEPT ![p] = where]
  /\ tx'       = [tx EXCEPT ![p] = status]
  /\ events'   = [events EXCEPT ![p] = rows]
  /\ unacked'  = [unacked EXCEPT ![p] = rows]
  /\ attempts' = [attempts EXCEPT ![p] = 0]

\* Leaving processBatch early: the deferred tx.Rollback frees the locks.  With
\* ctx cancelled the rollback closes the connection instead and the server
\* finds out later.
Abandon(p) ==
  /\ InHand(p, "idle", "none", {})
  /\ lock' = LockTo(Held(p), IF cancelled[p] THEN Orphan ELSE None)

-----------------------------------------------------------------------------
(***************************************************************************)
(* Seeded mistakes: variants of definitions below, not part of Spec.  Each *)
(* is an error someone could make in processBatch, and the property it is  *)
(* paired with in PROJECT.json must notice it.                             *)
(***************************************************************************)

\* FOR UPDATE SKIP LOCKED forgotten in the inner SELECT.
FetchUnlocked(p) ==
  /\ pc[p] = "idle" /\ ~cancelled[p]
  /\ LET batch == Oldest({e \in Events : row[e] = "pending" /\ e \in due})
     IN  /\ batch # {}
         /\ InHand(p, "sending", "open", batch)
         /\ lock' = LockTo(batch, p)
  /\ UNCHANGED <<row, due, topic, cancelled, relayed, faults>>

\* A row that cannot be scanned is skipped instead of ending the batch.
FetchSkipping(p) ==
  /\ pc[p] = "idle" /\ ~cancelled[p]
  /\ \E some \in SUBSET Oldest(Eligible) :
       some # {} /\ InHand(p, "sending", "open", some)
  /\ lock' = LockTo(Oldest(Eligible), p)
  /\ Fault
  /\ UNCHANGED <<row, due, topic, cancelled, relayed>>

\* RequireNone: the writer reports success without an acknowledgement.
WriteOkUnacked(p) ==
  /\ pc[p] = "sending" /\ events[p] \cap Oversized = {}
  /\ pc' = [pc EXCEPT ![p] = "finalizing"]
  /\ unacked' = [unacked EXCEPT ![p] = {}]
  /\ UNCHANGED <<dbVars, topic, tx, events, attempts, cancelled, relayed, faults>>

\* "Kafka write error" is logged but the return is missing.
WriteErrorIgnored(p) ==
  /\ pc[p] = "sending" /\ events[p] \cap Oversized = {}
  /\ \E landed \in SUBSET unacked[p] : topic' = Store(landed)
  /\ pc' = [pc EXCEPT ![p] = "finalizing"]
  /\ unacked' = [unacked EXCEPT ![p] = {}]
  /\ Fault
  /\ UNCHANGED <<dbVars, tx, events, attempts, cancelled, relayed>>

\* The early return without the deferred tx.Rollback.
WriteErrorNoRollback(p) ==
  /\ pc[p] = "sending" /\ events[p] \cap Oversized = {}
  /\ InHand(p, "idle", "none", {})
  /\ Fault
  /\ UNCHANGED <<dbVars, topic, cancelled, relayed>>

\* DELETE through r.db instead of tx.
DeleteOutsideTx(p) ==
  /\ pc[p] = "finalizing" /\ ~cancelled[p]
  /\ row' = [e \in Events |-> IF e \in events[p] THEN "deleted" ELSE row[e]]
  /\ pc' = [pc EXCEPT ![p] = "committing"]
  /\ UNCHANGED <<due, lock, topic, tx, events, unacked, attempts, cancelled, relayed, faults>>

\* OutboxRelayedTotal moved before the check of the error.
TxErrorCounted(p) ==
  /\ pc[p] \in {"finalizing", "committing"}
  /\ tx[p] # "open" \/ cancelled[p]
  /\ Abandon(p)
  /\ relayed' = [e \in Events |-> IF e \in events[p] THEN relayed[e] + 1 ELSE relayed[e]]
  /\ UNCHANGED <<row, due, topic, cancelled, faults>>

\* The rows go back to 'pending' instead of away.
CommittedAsPending(p) == row

-----------------------------------------------------------------------------
(***************************************************************************)
(* The service and the clock                                               *)
(***************************************************************************)

\* A business transaction commits a row; scheduled_at may lie ahead.
Insert(e) ==
  /\ row[e] = "unwritten"
  /\ row' = [row EXCEPT ![e] = "pending"]
  /\ due' \in {due, due \cup {e}}
  /\ UNCHANGED <<lock, topic, batchVars, cancelled, relayed, faults>>

FallDue(e) ==
  /\ row[e] # "unwritten"
  /\ e \notin due
  /\ due' = due \cup {e}
  /\ UNCHANGED <<row, lock, topic, batchVars, cancelled, relayed, faults>>

-----------------------------------------------------------------------------
(***************************************************************************)
(* OutboxRelay.processBatch, up to the Kafka write                         *)
(***************************************************************************)

\* Begin, the UPDATE and the loop over its rows.  The new status is visible to
\* nobody else before the commit; the locks are.
Fetch(p) ==
  /\ pc[p] = "idle" /\ ~cancelled[p]
  /\ Eligible # {}
  /\ LET batch == Oldest(Eligible)
     IN  /\ InHand(p, "sending", "open", batch)
         /\ lock' = LockTo(batch, p)
  /\ UNCHANGED <<row, due, topic, cancelled, relayed, faults>>

\* Begin or the query fails, or no row is eligible: nothing has changed.
FetchNothing(p) ==
  /\ pc[p] = "idle" /\ ~cancelled[p]
  /\ UNCHANGED vars

\* The connection breaks while the rows arrive: rows.Next() returns false,
\* rows.Err() is not consulted, and the relay goes on with what it has.
FetchCutShort(p) ==
  /\ pc[p] = "idle" /\ ~cancelled[p]
  /\ \E some \in SUBSET Oldest(Eligible) :
       /\ some # {}
       /\ InHand(p, "sending", "aborted", some)
  /\ lock' = LockTo(Oldest(Eligible), Orphan)
  /\ Fault
  /\ UNCHANGED <<row, due, topic, cancelled, relayed>>

-----------------------------------------------------------------------------
(***************************************************************************)
(* writer.WriteMessages                                                    *)
(***************************************************************************)

\* One message over the size limit and nothing of the batch is sent.
WriteRefused(p) ==
  /\ pc[p] = "sending"
  /\ events[p] \cap Oversized # {}
  /\ Abandon(p)
  /\ UNCHANGED <<row, due, topic, cancelled, relayed, faults>>

Sendable(p) == pc[p] = "sending" /\ events[p] \cap Oversized = {}

WriteOk(p) ==
  /\ Sendable(p)
  /\ topic' = Store(unacked[p])
  /\ pc' = [pc EXCEPT ![p] = "finalizing"]
  /\ unacked' = [unacked EXCEPT ![p] = {}]
  /\ UNCHANGED <<dbVars, tx, events, attempts, cancelled, relayed, faults>>

\* An attempt in which something was not acknowledged, be it stored or not; the
\* writer tries the rest again.
WriteRetry(p) ==
  /\ Sendable(p)
  /\ attempts[p] + 1 < MaxAttempts
  /\ \E landed \in SUBSET unacked[p] : \E acked \in SUBSET landed :
       /\ acked # unacked[p]
       /\ topic' = Store(landed)
       /\ unacked' = [unacked EXCEPT ![p] = @ \ acked]
  /\ attempts' = [attempts EXCEPT ![p] = @ + 1]
  /\ Fault
  /\ UNCHANGED <<dbVars, pc, tx, events, cancelled, relayed>>

\* The last attempt, a permanent error or a cancelled ctx: WriteMessages
\* returns an error although part of the batch may be in the topic.
WriteError(p) ==
  /\ Sendable(p)
  /\ \E landed \in SUBSET unacked[p] : topic' = Store(landed)
  /\ Abandon(p)
  /\ IF cancelled[p] THEN UNCHANGED faults ELSE Fault
  /\ UNCHANGED <<row, due, cancelled, relayed>>

-----------------------------------------------------------------------------
(***************************************************************************)
(* DELETE and COMMIT                                                       *)
(***************************************************************************)
Usable(p) == tx[p] = "open" /\ ~cancelled[p]

Delete(p) ==
  /\ pc[p] = "finalizing" /\ Usable(p)
  /\ pc' = [pc EXCEPT ![p] = "committing"]
  /\ UNCHANGED <<dbVars, topic, tx, events, unacked, attempts, cancelled, relayed, faults>>

\* "Finalize error" and "Commit error": the statement cannot be executed.
TxError(p) ==
  /\ pc[p] \in {"finalizing", "committing"} /\ ~Usable(p)
  /\ Abandon(p)
  /\ UNCHANGED <<row, due, topic, cancelled, relayed, faults>>

\* What a commit makes of the rows: the ones in ids are gone, any other row the
\* UPDATE had touched would stay behind with status 'processing'.
Committed(p) ==
  [e \in Events |-> IF e \notin Held(p)  THEN row[e]
                    ELSE IF e \in events[p] THEN "deleted"
                    ELSE "processing"]

Commit(p) ==
  /\ pc[p] = "committing" /\ Usable(p)
  /\ row'  = Committed(p)
  /\ lock' = LockTo(Held(p), None)
  /\ relayed' = [e \in Events |-> IF e \in events[p] THEN relayed[e] + 1 ELSE relayed[e]]
  /\ InHand(p, "idle", "none", {})
  /\ UNCHANGED <<due, topic, cancelled, faults>>

\* The server committed but the answer never came: logged as an error, and
\* OutboxRelayedTotal misses the batch.
CommitUnknown(p) ==
  /\ pc[p] = "committing" /\ tx[p] = "open"
  /\ row'  = Committed(p)
  /\ lock' = LockTo(Held(p), None)
  /\ InHand(p, "idle", "none", {})
  /\ Fault
  /\ UNCHANGED <<due, topic, cancelled, relayed>>

-----------------------------------------------------------------------------
(***************************************************************************)
(* Failures and the pod's life                                             *)
(***************************************************************************)

\* The session ends under the relay, which learns of it at its next statement.
SessionLost(p) ==
  /\ tx[p] = "open"
  /\ tx' = [tx EXCEPT ![p] = "aborted"]
  /\ lock' = LockTo(Held(p), Orphan)
  /\ Fault
  /\ UNCHANGED <<row, due, topic, pc, events, unacked, attempts, cancelled, relayed>>

\* The server notices that clients are gone and rolls their sessions back.
Reap ==
  /\ \E e \in Events : lock[e] = Orphan
  /\ lock' = LockTo(Held(Orphan), None)
  /\ UNCHANGED <<row, due, topic, batchVars, cancelled, relayed, faults>>

\* SIGKILL, OOM: whatever was on its way to Kafka may still land.
Crash(p) ==
  /\ pc[p] # "down"
  /\ \E landed \in SUBSET unacked[p] :
       /\ Sendable(p) \/ landed = {}
       /\ topic' = Store(landed)
  /\ InHand(p, "down", "none", {})
  /\ lock' = LockTo(Held(p), Orphan)
  /\ Fault
  /\ UNCHANGED <<row, due, cancelled, relayed>>

\* Run() cancels the workers' context.
Cancel(p) ==
  /\ pc[p] # "down" /\ ~cancelled[p]
  /\ cancelled' = [cancelled EXCEPT ![p] = TRUE]
  /\ Fault
  /\ UNCHANGED <<dbVars, topic, batchVars, relayed>>

\* case <-ctx.Done() of Start.
Stop(p) ==
  /\ pc[p] = "idle" /\ cancelled[p]
  /\ pc' = [pc EXCEPT ![p] = "down"]
  /\ UNCHANGED <<dbVars, topic, tx, events, unacked, attempts, cancelled, relayed, faults>>

Restart(p) ==
  /\ pc[p] = "down"
  /\ pc' = [pc EXCEPT ![p] = "idle"]
  /\ cancelled' = [cancelled EXCEPT ![p] = FALSE]
  /\ UNCHANGED <<dbVars, topic, tx, events, unacked, attempts, relayed, faults>>

-----------------------------------------------------------------------------
\* What a pod does as long as it runs.
Work(p) ==
  \/ Fetch(p) \/ FetchNothing(p) \/ WriteRefused(p) \/ WriteOk(p)
  \/ Delete(p) \/ TxError(p) \/ Commit(p) \/ Stop(p)

Fail(p) ==
  \/ FetchCutShort(p) \/ WriteRetry(p) \/ WriteError(p) \/ CommitUnknown(p)
  \/ SessionLost(p) \/ Crash(p) \/ Cancel(p)

Next ==
  \/ \E e \in Events : Insert(e) \/ FallDue(e)
  \/ \E p \in Pods : Work(p) \/ Fail(p) \/ Restart(p)
  \/ Reap

Spec == Init /\ [][Next]_vars

(***************************************************************************)
(* The ticker of Start keeps calling processBatch and processBatch always  *)
(* comes to an end; Kubernetes restarts a pod, PostgreSQL reaps sessions   *)
(* and time passes.  Nothing makes a failure happen.                       *)
(***************************************************************************)
Fairness ==
  /\ \A p \in Pods : WF_vars(Work(p)) /\ WF_vars(Restart(p))
  /\ \A e \in Events : WF_vars(FallDue(e))
  /\ WF_vars(Reap)

FairSpec == Spec /\ Fairness

-----------------------------------------------------------------------------
(***************************************************************************)
(* Properties                                                              *)
(***************************************************************************)

\* An event leaves the outbox only after it has reached its topic: no retry,
\* lost session, unknown commit or crash of any pod loses it.
NoEventLost == \A e \in Events : row[e] = "deleted" => topic[e] >= 1

\* No row is ever committed with status 'processing'.  processBatch only picks
\* 'pending' rows, so such a row would never be relayed; the code relies on the
\* UPDATE being rolled back or followed by the DELETE in every case.
NoStranded == \A e \in Events : row[e] # "processing"

\* Two pods whose sessions are both alive never work on the same row: what
\* SKIP LOCKED is there for.
OneOwner == \A p, q \in Pods :
  p # q /\ tx[p] = "open" /\ tx[q] = "open" => events[p] \cap events[q] = {}

\* Without failures every event reaches Kafka once; each failure or shutdown
\* costs at most one further copy, whatever the pods are doing.
DuplicatesOnlyFromFaults == \A e \in Events : topic[e] <= 1 + faults

\* "Runs only if Commit succeeded": the counter never counts an event twice and
\* never one that is still in the outbox.
CountedOnce == \A e \in Events :
  relayed[e] <= 1 /\ (relayed[e] = 1 => row[e] = "deleted")

(***************************************************************************)
(* Why the above hold: an inductive invariant.                             *)
(***************************************************************************)

\* A live session holds exactly the locks of the rows in its pod's batch, and
\* whatever is locked is still pending.
LocksCoverBatch ==
  /\ \A p \in Pods : tx[p] = "open" => \A e \in events[p] : lock[e] = p
  /\ \A e \in Events : \A p \in Pods :
       lock[e] = p => tx[p] = "open" /\ e \in events[p]
  /\ \A e \in Events : lock[e] # None => row[e] = "pending"

\* What has left unacked is in the topic, and a batch that is past the Kafka
\* write has nothing unacknowledged.
AckedIsStored ==
  \A p \in Pods :
    /\ \A e \in events[p] \ unacked[p] : topic[e] >= 1
    /\ pc[p] \in {"finalizing", "committing"} => unacked[p] = {}

\* A batch consists of rows that were written.
BatchWasWritten ==
  \A p \in Pods :
    unacked[p] \subseteq events[p] /\ \A e \in events[p] : row[e] # "unwritten"

\* Only a pod in the middle of a batch has a transaction.
NoTxBetweenBatches ==
  \A p \in Pods : pc[p] \in {"idle", "down"} => tx[p] = "none" /\ events[p] = {}

\* Of a batch Kafka refuses nothing has been sent.
RefusedUntouched ==
  \A p \in Pods : pc[p] = "sending" /\ events[p] \cap Oversized # {} =>
    unacked[p] = events[p]

\* A row that Kafka refuses neither reaches its topic nor leaves the outbox, and
\* no batch with one gets beyond the write.
RefusedStays ==
  /\ \A e \in Oversized : topic[e] = 0 /\ row[e] \in {"unwritten", "pending"}
  /\ \A p \in Pods :
       pc[p] \in {"finalizing", "committing"} => events[p] \cap Oversized = {}

\* The copies of e still to come without a further fault: one from each pod that
\* has not seen it acknowledged, one more where a closed ctx will make the pod
\* give the row back, and one while it waits in the outbox.
Owing(e)   == {p \in Pods : e \in unacked[p]}
Cut(e)     == {p \in Pods : cancelled[p] /\ e \in events[p]}
Waiting(e) == IF row[e] \in {"unwritten", "pending"} /\ lock[e] \notin Pods THEN 1 ELSE 0

CopiesAreOwed == \A e \in Events :
  topic[e] + Cardinality(Owing(e)) + Cardinality(Cut(e)) + Waiting(e) <= 1 + faults

RelayInv ==
  /\ TypeOK /\ LocksCoverBatch /\ AckedIsStored
  /\ BatchWasWritten /\ NoTxBetweenBatches
  /\ RefusedUntouched /\ RefusedStays /\ CopiesAreOwed
  /\ NoEventLost /\ NoStranded /\ CountedOnce

\* A row disappears only in the transaction of a pod that has it locked, has it
\* in its batch and was told by Kafka that it is stored: a pod whose session
\* died cannot delete what another pod has taken over.
DeletedByItsOwner == \A e \in Events :
  row[e] = "pending" /\ row'[e] = "deleted" =>
    \E p \in Pods : lock[e] = p /\ e \in events[p] \ unacked[p]

DeleteOnlyOwnBatch == [][DeletedByItsOwner]_vars

\* The outbox as its users see it: OutboxRelay implements OutboxDelivery.
Delivery == INSTANCE OutboxDelivery WITH
  waiting   <- {e \in Events : row[e] = "pending"},
  delivered <- {e \in Events : topic[e] > 0},
  retired   <- {e \in Events : row[e] = "deleted"}

ImplementsDelivery == Delivery!DSpec

\* Once failures stop, every row of the outbox is relayed and removed, unless a
\* row that Kafka refuses is due and fails the batches it is fetched with.
EventuallyRelayed == \A e \in Events :
  row[e] = "pending" ~> \/ row[e] = "deleted"
                        \/ \E o \in Oversized : row[o] = "pending" /\ o \in due
=============================================================================
