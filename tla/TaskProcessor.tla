---------------------------- MODULE TaskProcessor ----------------------------
(***************************************************************************)
(* core/pkg/kafka/task_processor.go with the handler of                    *)
(* internal/handler/task_handler.go: the consumer group whose work is to   *)
(* send an e-mail and to set the task's status in PostgreSQL.              *)
(***************************************************************************)
EXTENDS ConsumerGroup

CONSTANT MaxFaults  \* bound on the failures, shutdowns and rebalances explored

ASSUME FaultsAssumption == MaxFaults \in Nat

VARIABLES
  kind,       \* what the message at each offset asks for
  rows,       \* the tasks whose payload names a row of background_tasks
  completed,  \* tasks whose row has the status 'completed'
  failed,     \* history: tasks whose handler returned an error
  tried,      \* history: tasks that were taken up
  retried,    \* history: tasks that were taken up again after they failed
  reached,    \* history: how far each pod got since the partition is its
  carried,    \* history: pods whose task in hand is older than that
  faults      \* failures, shutdowns and spontaneous rebalances so far

resultVars == <<kind, rows, completed, failed>>
tryVars    == <<tried, retried, reached, carried>>
taskVars   == <<resultVars, tryVars>>
vars       == <<groupVars, taskVars, faults>>

\* send_email with a payload that parses, with one that does not, and a type no
\* handler is registered for
Kinds == {"send_email", "unparsable", "unknown"}

TypeOK ==
  /\ GroupTypeOK
  /\ kind      \in [Offsets -> Kinds]
  /\ rows      \in SUBSET Offsets
  /\ completed \in SUBSET rows
  /\ failed    \in SUBSET Offsets
  /\ tried     \in SUBSET Offsets
  /\ retried   \in SUBSET Offsets
  /\ reached   \in [Pods -> 0 .. MaxLen]
  /\ carried   \in SUBSET Pods
  /\ faults    \in 0 .. MaxFaults

Init ==
  /\ GroupInit
  /\ kind      \in [Offsets -> Kinds]
  /\ rows      \in SUBSET {o \in Offsets : kind[o] = "send_email"}
  /\ completed = {}
  /\ failed    = {}
  /\ tried     = {}
  /\ retried   = {}
  /\ reached   = [p \in Pods |-> 0]
  /\ carried   = {}
  /\ faults    = 0

-----------------------------------------------------------------------------
Fault == faults < MaxFaults /\ faults' = faults + 1

\* A failure that follows from a shutdown or an eviction is not one more fault.
FaultUnless(excused) == IF excused THEN UNCHANGED faults ELSE Fault

\* The task in hand is taken up.
Try(p) ==
  /\ tried' = tried \cup {task[p]}
  /\ retried' = retried \cup ({task[p]} \cap failed)
  /\ reached' = [reached EXCEPT ![p] = IF p \in carried THEN @ ELSE task[p] + 1]
  /\ carried' = carried \ {p}

\* The partition is assigned anew; what its owner has in hand may be older.
Assigned ==
  /\ reached' = [reached EXCEPT ![owner'] = 0]
  /\ carried' = carried \cup {p \in {owner'} : pc[p] = "handling"}
  /\ UNCHANGED <<resultVars, tried, retried>>

(***************************************************************************)
(* Seeded mistakes: variants of definitions below, not part of Spec.       *)
(***************************************************************************)

\* The handler is called again until it returns nil.
UnparsableRepeats(p) ==
  /\ kind[task[p]] = "unparsable"
  /\ pc[p] = "handling"
  /\ UNCHANGED vars

\* The error of UpdateTaskStatus is logged but not returned.
UpdateErrorIgnored(p) ==
  /\ pc[p] = "storing" /\ Finish(p)
  /\ FaultUnless(cancelled[p])
  /\ UNCHANGED taskVars

\* The handler runs in a goroutine of its own.
SendEmailAsync(p) ==
  /\ kind[task[p]] = "send_email"
  /\ pc[p] = "handling" /\ Goto(p, "committing")
  /\ Try(p)
  /\ UNCHANGED <<len, committed, assignmentVars, task, cancelled, settled,
                 resultVars, faults>>

-----------------------------------------------------------------------------
(***************************************************************************)
(* The handlers, as TaskProcessor.Start calls them                         *)
(***************************************************************************)

\* "Unknown task type (ignored)": processErr stays nil, so it is committed.
Ignore(p) ==
  /\ kind[task[p]] = "unknown"
  /\ pc[p] = "handling" /\ Finish(p)
  /\ Try(p)
  /\ UNCHANGED <<resultVars, faults>>

\* json.Unmarshal fails.
Unparsable(p) ==
  /\ kind[task[p]] = "unparsable"
  /\ pc[p] = "handling" /\ GiveUp(p)
  /\ Try(p)
  /\ failed' = failed \cup {task[p]}
  /\ UNCHANGED <<kind, rows, completed, faults>>

\* ProcessSendEmail: the mail goes out first.
SendEmail(p) ==
  /\ kind[task[p]] = "send_email"
  /\ Halfway(p)
  /\ Try(p)
  /\ UNCHANGED <<resultVars, faults>>

\* UpdateTaskStatus(..., "completed").  An UPDATE that matches no row is no error:
\* the number of rows that Exec returns is thrown away.
Update(p) ==
  /\ pc[p] = "storing" /\ Finish(p)
  /\ completed' = completed \cup ({task[p]} \cap rows)
  /\ UNCHANGED <<kind, rows, failed, tryVars, faults>>

\* It returns an error, whether or not the row was updated: "Task processing
\* error (retrying later)".
UpdateFailed(p) ==
  /\ pc[p] = "storing" /\ GiveUp(p)
  /\ completed' \in {completed, completed \cup ({task[p]} \cap rows)}
  /\ failed' = failed \cup {task[p]}
  /\ FaultUnless(cancelled[p])
  /\ UNCHANGED <<kind, rows, tryVars>>

Handle(p) == Ignore(p) \/ Unparsable(p) \/ SendEmail(p) \/ Update(p)

-----------------------------------------------------------------------------
FetchTask(p) ==
  /\ Fetch(p)
  /\ carried' = carried \ {p}
  /\ UNCHANGED <<resultVars, tried, retried, reached, faults>>

Work(p) == \/ FetchTask(p)
           \/ (Commit(p) \/ Stop(p)) /\ UNCHANGED <<taskVars, faults>>
           \/ Handle(p)

Fail(p) ==
  \/ FetchError(p) /\ UNCHANGED <<taskVars, faults>>
  \/ UpdateFailed(p)
  \/ CommitFailed(p) /\ FaultUnless(cancelled[p] \/ p \notin members) /\ UNCHANGED taskVars
  \/ (Crash(p) \/ Cancel(p)) /\ Fault /\ UNCHANGED taskVars

Next ==
  \/ Produce /\ UNCHANGED <<taskVars, faults>>
  \/ Rebalance /\ Assigned /\ UNCHANGED faults
  \/ Evict /\ Assigned /\ Fault
  \/ \E p \in Pods :
       \/ Work(p) \/ Fail(p)
       \/ (Notice(p) \/ Restart(p)) /\ UNCHANGED <<taskVars, faults>>

Spec == Init /\ [][Next]_vars

(***************************************************************************)
(* The loop runs and every handler returns, a pod that is down is started  *)
(* again, and the group coordinator reacts to heartbeats that stop or fail.*)
(***************************************************************************)
Fairness ==
  /\ WF_vars(Rebalance /\ Assigned /\ UNCHANGED faults)
  /\ \A p \in Pods :
       /\ WF_vars(Work(p))
       /\ WF_vars(Notice(p) /\ UNCHANGED <<taskVars, faults>>)
       /\ WF_vars(Restart(p) /\ UNCHANGED <<taskVars, faults>>)

FairSpec == Spec /\ Fairness

-----------------------------------------------------------------------------
(***************************************************************************)
(* Properties                                                              *)
(***************************************************************************)

\* The loop is a consumer of ConsumerGroup, whatever its handlers do, so that
\* nothing is skipped: every message it commits was handled to the end first.
ImplementsGroup == GroupSpec

\* What has become of a task whose handler returned nil: its type has no handler,
\* or it could be parsed and its row, if it has one, is 'completed'.
WentWell(o) ==
  \/ kind[o] = "unknown"
  \/ kind[o] = "send_email" /\ (o \in rows => o \in completed)

\* The task just below the committed offset is one that went well: a commit never
\* stands for an error, nor for a status that was not set although there is a
\* row.  (A task without a row is committed as if it had been recorded.)
CommittedTaskSucceeded == committed > 0 => WentWell(committed - 1)

\* So is the one a pod is about to commit.
CommitsSuccess == \A p \in Pods : pc[p] = "committing" => WentWell(task[p])

\* What the group will not read again is accounted for: below the committed
\* offset every task was taken up, and either it went well or its handler
\* returned an error, which was logged.
Accounted(o) == o \in tried /\ (WentWell(o) \/ o \in failed)

NoTaskUnaccounted == \A o \in Offsets : o < committed => Accounted(o)

\* A pod sends the mail of a task again only after the partition was assigned to
\* it anew: under one assignment it takes tasks up in their order and none
\* twice, whatever failed meanwhile.  (Another pod, with an assignment of its
\* own, may do the task again at the same time.)
OneTryPerAssignment == \A p \in Pods :
  pc[p] = "handling" /\ p \notin carried => reached[p] <= task[p]

\* Why: it took up nothing that its reader has still ahead.
ReaderIsAhead == \A p \in Pods : reading[p] =>
  /\ reached[p] <= pos[p]
  /\ pc[p] = "handling" /\ p \notin carried => task[p] < pos[p]

\* A task is accounted for as soon as its handler has returned; only one that
\* was parsed and taken up gets to its row.
SettledIsAccounted == \A o \in settled : Accounted(o)

StoringWasTried == \A p \in Pods : pc[p] = "storing" =>
  task[p] \in tried /\ kind[task[p]] = "send_email"

\* Why these hold: an inductive invariant.
ProcessorInv ==
  /\ TypeOK /\ GroupInv
  /\ CommitsSuccess /\ CommittedTaskSucceeded
  /\ OneTryPerAssignment /\ ReaderIsAhead
  /\ SettledIsAccounted /\ StoringWasTried

\* Every task that is produced is eventually handled, also behind one that
\* cannot be.
EveryTaskSettled == \A o \in Offsets : (o < len) ~> (o \in settled)

\* "Task processing error (retrying later)": a task whose handler failed is
\* taken up again.
FailedIsRetried == \A o \in Offsets : (o \in failed) ~> (o \in retried)
=============================================================================
