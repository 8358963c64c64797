------------------------- MODULE TaskProcessorProofs -------------------------
(***************************************************************************)
(* Proofs about TaskProcessor for any number of pods, any length of the    *)
(* partition and any bound on failures: it is a consumer of ConsumerGroup, *)
(* and what it commits went well.                                          *)
(***************************************************************************)
EXTENDS TaskProcessor, ConsumerGroupProofs

USE FaultsAssumption

\* Whatever the handlers do, the loop takes a step of the group or none.
LEMMA StepOfGroup == [Next]_vars => [GroupNext]_groupVars
BY DEF Next, Work, Fail, FetchTask, Handle, Ignore, Unparsable, SendEmail, Update,
  UpdateFailed, GroupNext, vars

\* TaskProcessor refines ConsumerGroup.
THEOREM ProcessorImplementsGroup == Spec => ImplementsGroup
<1>1. Init => GroupInit
  BY DEF Init
<1>2. QED
  BY <1>1, StepOfGroup, PTL DEF Spec, ImplementsGroup, GroupSpec

-----------------------------------------------------------------------------
(***************************************************************************)
(* The inductive step                                                      *)
(***************************************************************************)
ResultTypeOK ==
  /\ kind      \in [Offsets -> Kinds]
  /\ rows      \in SUBSET Offsets
  /\ completed \in SUBSET rows
  /\ failed    \in SUBSET Offsets
  /\ tried     \in SUBSET Offsets
  /\ retried   \in SUBSET Offsets
  /\ reached   \in [Pods -> 0 .. MaxLen]
  /\ carried   \in SUBSET Pods
  /\ faults    \in 0 .. MaxFaults

\* A new generation gives the partition to one pod, which takes nothing into its
\* hands by that.
LEMMA NewOwner ==
  ASSUME GroupTypeOK, Rebalance \/ Evict
  PROVE  /\ owner' \in Pods
         /\ pos' = [pos EXCEPT ![owner'] = committed]
         /\ \A p \in Pods : reading'[p] => reading[p] \/ p = owner'
         /\ UNCHANGED <<len, committed, pc, task, cancelled, settled>>
<1>1. PICK M \in SUBSET Pods : \E q \in M : NewGeneration(M, q)
  BY DEF Rebalance, Evict, Alive
<1>2. PICK q \in M : NewGeneration(M, q)
  BY <1>1
<1>3. owner' = q /\ q \in Pods
  BY <1>2 DEF NewGeneration
<1>4. QED
  BY <1>2, <1>3 DEF NewGeneration, GroupTypeOK

LEMMA ResultTypeStep ==
  ASSUME GroupTypeOK, TaskInLog, ResultTypeOK, [Next]_vars
  PROVE  ResultTypeOK'
<1> USE DEF ResultTypeOK, AtWork, Busy, taskVars, resultVars, tryVars, Fault, FaultUnless
<1>1. ASSUME NEW p \in Pods, Handle(p) \/ UpdateFailed(p) PROVE ResultTypeOK'
  <2>1. task[p] \in Offsets
    BY <1>1, HandInLog DEF Handle, Ignore, Unparsable, SendEmail, Update,
      UpdateFailed, Finish, GiveUp, Halfway
  <2>2. ASSUME Try(p)
        PROVE  /\ tried' \in SUBSET Offsets /\ retried' \in SUBSET Offsets
               /\ reached' \in [Pods -> 0 .. MaxLen] /\ carried' \in SUBSET Pods
    <3>1. tried' \in SUBSET Offsets /\ retried' \in SUBSET Offsets /\ carried' \in SUBSET Pods
      BY <2>1, <2>2 DEF Try
    <3>2. task[p] + 1 \in 0 .. MaxLen
      BY <2>1, GroupAssumption DEF Offsets
    <3>3. reached' \in [Pods -> 0 .. MaxLen]
      BY <2>2, <3>2 DEF Try
    <3>4. QED
      BY <3>1, <3>3
  <2>3. CASE Ignore(p) \/ SendEmail(p)
    BY <2>2, <2>3 DEF Ignore, SendEmail
  <2>4. CASE Unparsable(p)
    BY <2>1, <2>2, <2>4 DEF Unparsable
  <2>5. CASE Update(p)
    BY <2>1, <2>5 DEF Update
  <2>6. CASE UpdateFailed(p)
    BY <2>1, <2>6 DEF UpdateFailed
  <2>7. QED
    BY <1>1, <2>3, <2>4, <2>5, <2>6 DEF Handle
<1>2. ASSUME NEW p \in Pods, FetchTask(p) PROVE ResultTypeOK'
  BY <1>2 DEF FetchTask
<1>3. CASE (Rebalance \/ Evict) /\ Assigned /\ (UNCHANGED faults \/ Fault)
  <2>1. owner' \in Pods
    BY <1>3, NewOwner
  <2>2. 0 \in 0 .. MaxLen
    BY GroupAssumption
  <2>3. QED
    BY <1>3, <2>1, <2>2 DEF Assigned
<1>4. CASE /\ UNCHANGED taskVars
           /\ UNCHANGED faults \/ Fault
  BY <1>4
<1>5. CASE UNCHANGED vars
  BY <1>5 DEF vars
<1>6. QED
  BY <1>1, <1>2, <1>3, <1>4, <1>5 DEF Next, Work, Fail

SuccessInv == CommitsSuccess /\ CommittedTaskSucceeded

\* What went well stays so: rows are not lost, and their status is set once.
LEMMA SuccessRemains ==
  ASSUME [Next]_vars, NEW o \in Offsets, WentWell(o)
  PROVE  WentWell(o)'
<1>1. kind' = kind /\ rows' = rows /\ completed \subseteq completed'
  BY DEF Next, Work, Fail, FetchTask, Assigned, Handle, Ignore, Unparsable, SendEmail, Update,
    UpdateFailed, taskVars, resultVars, vars
<1>2. QED
  BY <1>1 DEF WentWell

LEMMA SuccessStep ==
  ASSUME GroupTypeOK, TaskInLog, StoringWasTried, SuccessInv, [Next]_vars
  PROVE  SuccessInv'
<1> USE DEF GroupTypeOK, SuccessInv, CommitsSuccess, CommittedTaskSucceeded, Goto, AtWork
<1>1. \A p \in Pods : pc[p] \in Busy => task[p] \in Offsets
  BY HandInLog
<1>2. ASSUME NEW p \in Pods, pc[p] = "committing", task'[p] = task[p]
      PROVE  WentWell(task[p])'
  <2>1. PICK o \in Offsets : o = task[p]
    BY <1>1, <1>2 DEF Busy
  <2>2. WentWell(o)'
    BY <1>2, <2>1, SuccessRemains
  <2>3. QED
    BY <1>2, <2>1, <2>2
<1>3. ASSUME committed' = committed, committed > 0 PROVE WentWell(committed - 1)'
  <2>1. PICK o \in Offsets : o = committed - 1
    BY <1>3, GroupAssumption DEF Offsets
  <2>2. WentWell(o)'
    BY <1>3, <2>1, SuccessRemains
  <2>3. QED
    BY <1>3, <2>1, <2>2
<1>4. ASSUME committed' = committed,
             \A q \in Pods : pc'[q] = "committing" => pc[q] = "committing" /\ task'[q] = task[q]
      PROVE  SuccessInv'
  BY <1>2, <1>3, <1>4
<1>5. ASSUME NEW p \in Pods, Commit(p) \/ CommitFailed(p) PROVE SuccessInv'
  <2>1. /\ pc[p] = "committing" /\ task' = task
        /\ committed' = committed \/ committed' = task[p] + 1
        /\ \A q \in Pods : pc'[q] = "committing" => pc[q] = "committing"
    BY <1>5 DEF Commit, CommitFailed
  <2>2. CASE committed' = committed
    BY <1>4, <2>1, <2>2
  <2>3. CASE committed' = task[p] + 1
    <3>1. committed' - 1 = task[p]
      BY <2>3
    <3>2. WentWell(committed - 1)'
      BY <1>2, <2>1, <3>1 DEF WentWell
    <3>3. QED
      BY <1>2, <2>1, <3>2
  <2>4. QED
    BY <2>1, <2>2, <2>3
<1>6. ASSUME NEW p \in Pods, Ignore(p) \/ Update(p) PROVE SuccessInv'
  <2>1. /\ pc[p] \in AtWork /\ task' = task /\ committed' = committed
        /\ \A q \in Pods \ {p} : pc'[q] = pc[q]
    BY <1>6 DEF Ignore, Update, Finish, assignmentVars
  <2>2. WentWell(task[p])'
    <3>1. CASE Ignore(p)
      BY <2>1, <3>1 DEF Ignore, WentWell, resultVars
    <3>2. CASE Update(p)
      BY <2>1, <3>2 DEF Update, WentWell, StoringWasTried
    <3>3. QED
      BY <1>6, <3>1, <3>2
  <2>3. QED
    BY <1>2, <1>3, <2>1, <2>2
<1>7. ASSUME NEW p \in Pods,
             \/ FetchTask(p) \/ Unparsable(p) \/ SendEmail(p) \/ UpdateFailed(p)
             \/ Crash(p) \/ Cancel(p) \/ Stop(p) \/ Restart(p)
      PROVE  SuccessInv'
  BY <1>4, <1>7 DEF FetchTask, Fetch, Unparsable, SendEmail, UpdateFailed, GiveUp, Halfway,
    Crash, Cancel, Stop, Restart, assignmentVars
<1>8. CASE \/ Produce \/ Rebalance \/ Evict \/ UNCHANGED vars
           \/ \E p \in Pods : FetchError(p) \/ Notice(p)
  BY <1>4, <1>8, NewOwner DEF Produce, FetchError, Notice, vars, groupVars
<1>9. QED
  BY <1>5, <1>6, <1>7, <1>8 DEF Next, Work, Fail, Handle

-----------------------------------------------------------------------------
(***************************************************************************)
(* What is settled is accounted for                                        *)
(***************************************************************************)
AccountInv == SettledIsAccounted /\ StoringWasTried

\* What is known of a task is not forgotten.
LEMMA AccountsRemain ==
  ASSUME [Next]_vars, NEW o \in Offsets
  PROVE  /\ o \in tried => o \in tried'
         /\ kind' = kind
         /\ Accounted(o) => Accounted(o)'
<1>1. kind' = kind /\ failed \subseteq failed' /\ tried \subseteq tried'
  BY DEF Next, Work, Fail, FetchTask, Assigned, Handle, Ignore, Unparsable, SendEmail, Update,
    UpdateFailed, Try, taskVars, resultVars, tryVars, vars
<1>2. QED
  BY <1>1, SuccessRemains DEF Accounted

LEMMA AccountStep ==
  ASSUME GroupTypeOK, TaskInLog, ResultTypeOK, AccountInv, [Next]_vars
  PROVE  AccountInv'
<1> USE DEF AccountInv, SettledIsAccounted, StoringWasTried
<1>1. settled \subseteq Offsets /\ \A p \in Pods : pc[p] \in Busy => task[p] \in Offsets
  BY HandInLog DEF GroupTypeOK
<1>2. \A o \in settled : Accounted(o)'
  BY <1>1, AccountsRemain
<1>3. \A p \in Pods : pc[p] = "storing" =>
        task[p] \in tried' /\ kind'[task[p]] = "send_email"
  BY <1>1, AccountsRemain DEF Busy, AtWork
<1>4. ASSUME NEW p \in Pods, Ignore(p) \/ Unparsable(p) \/ Update(p) \/ UpdateFailed(p)
      PROVE  AccountInv'
  <2>1. /\ pc[p] \in AtWork /\ task' = task /\ settled' = settled \cup {task[p]}
        /\ \A q \in Pods : pc'[q] = "storing" => pc[q] = "storing"
    BY <1>4 DEF Ignore, Unparsable, Update, UpdateFailed, Finish, GiveUp, Goto, AtWork,
      assignmentVars, GroupTypeOK
  <2>2. task[p] \in tried'
    <3>1. CASE Ignore(p) \/ Unparsable(p)
      BY <3>1 DEF Ignore, Unparsable, Try
    <3>2. CASE Update(p) \/ UpdateFailed(p)
      BY <1>3, <3>2 DEF Update, UpdateFailed
    <3>3. QED
      BY <1>4, <3>1, <3>2
  <2>3. WentWell(task[p])' \/ task[p] \in failed'
    BY <1>3, <1>4, <2>1 DEF Ignore, Unparsable, Update, UpdateFailed, WentWell, resultVars
  <2>4. Accounted(task[p])'
    BY <2>1, <2>2, <2>3 DEF Accounted, WentWell
  <2>5. QED
    BY <1>2, <1>3, <2>1, <2>4
<1>5. ASSUME NEW p \in Pods, SendEmail(p) PROVE AccountInv'
  <2>1. /\ task' = task /\ settled' = settled /\ kind' = kind
        /\ \A q \in Pods \ {p} : pc'[q] = pc[q]
    BY <1>5 DEF SendEmail, Halfway, Goto, GroupTypeOK, resultVars
  <2>2. task[p] \in tried' /\ kind[task[p]] = "send_email"
    BY <1>5 DEF SendEmail, Try
  <2>3. QED
    BY <1>2, <1>3, <2>1, <2>2
<1>6. ASSUME settled' = settled,
             \A q \in Pods : pc'[q] = "storing" => pc[q] = "storing" /\ task'[q] = task[q]
      PROVE  AccountInv'
  BY <1>2, <1>3, <1>6
<1>7. ASSUME NEW p \in Pods,
             \/ FetchTask(p) \/ Commit(p) \/ CommitFailed(p) \/ Crash(p) \/ Cancel(p)
             \/ Stop(p) \/ Restart(p) \/ Notice(p) \/ FetchError(p)
      PROVE  AccountInv'
  BY <1>6, <1>7 DEF FetchTask, Fetch, Commit, CommitFailed, Crash, Cancel, Stop, Restart,
    Notice, FetchError, Goto, groupVars, assignmentVars, GroupTypeOK
<1>8. CASE Produce \/ Rebalance \/ Evict \/ UNCHANGED vars
  BY <1>6, <1>8, NewOwner DEF Produce, vars, groupVars
<1>9. QED
  BY <1>4, <1>5, <1>7, <1>8 DEF Next, Work, Fail, Handle

-----------------------------------------------------------------------------
(***************************************************************************)
(* Tries and assignments                                                   *)
(***************************************************************************)
TriesInv == OneTryPerAssignment /\ ReaderIsAhead

\* Between two assignments of the partition a reader only moves forward, and the
\* loop takes up what the reader has just passed.
LEMMA TriesStep ==
  ASSUME TypeOK, TaskInLog, TriesInv, [Next]_vars
  PROVE  TriesInv'
<1> USE DEF TypeOK, GroupTypeOK, TriesInv, OneTryPerAssignment, ReaderIsAhead, Goto
<1>1. ASSUME tried' = tried, carried' = carried, reached' = reached, task' = task, pos' = pos,
             \A q \in Pods : /\ pc'[q] = "handling" => pc[q] = "handling"
                             /\ reading'[q] => reading[q]
      PROVE  TriesInv'
  <2>1. OneTryPerAssignment'
    BY <1>1, Zenon
  <2>2. ReaderIsAhead'
    BY <1>1, Zenon
  <2>3. QED
    BY <2>1, <2>2
<1>2. ASSUME NEW p \in Pods, FetchTask(p) PROVE TriesInv'
  <2>1. /\ reading[p] /\ reading' = reading /\ reached' = reached
        /\ task' = [task EXCEPT ![p] = pos[p]] /\ pos' = [pos EXCEPT ![p] = @ + 1]
        /\ pc' = [pc EXCEPT ![p] = "handling"] /\ carried' = carried \ {p}
    BY <1>2 DEF FetchTask, Fetch
  <2>2. \A q \in Pods \ {p} : /\ task'[q] = task[q] /\ pos'[q] = pos[q] /\ pc'[q] = pc[q]
                              /\ q \in carried' <=> q \in carried
    BY <2>1
  <2>3. /\ task'[p] = pos[p] /\ pos'[p] = pos[p] + 1
        /\ reached[p] <= pos[p] /\ pos[p] \in Nat /\ reached[p] \in Nat
    BY <2>1 DEF ResultTypeOK
  <2>4. OneTryPerAssignment'
    BY <2>1, <2>2, <2>3
  <2>5. ReaderIsAhead'
    BY <2>1, <2>2, <2>3
  <2>6. QED
    BY <2>4, <2>5
<1>3. ASSUME NEW p \in Pods, Ignore(p) \/ Unparsable(p) \/ SendEmail(p) PROVE TriesInv'
  <2>1. /\ pc[p] = "handling" /\ pc'[p] # "handling"
        /\ \A q \in Pods \ {p} : pc'[q] = pc[q]
        /\ UNCHANGED <<task, reading, pos>>
    BY <1>3 DEF Ignore, Unparsable, SendEmail, Finish, GiveUp, Halfway, assignmentVars
  <2>2. /\ reached' = [reached EXCEPT ![p] = IF p \in carried THEN @ ELSE task[p] + 1]
        /\ carried' = carried \ {p}
    BY <1>3 DEF Ignore, Unparsable, SendEmail, Try
  <2>3. \A q \in Pods \ {p} : reached'[q] = reached[q] /\ (q \in carried' <=> q \in carried)
    BY <2>2
  <2>4. reading[p] => reached'[p] <= pos[p]
    BY <2>1, <2>2
  <2>5. QED
    BY <2>1, <2>3, <2>4
<1>4. CASE (Rebalance \/ Evict) /\ Assigned
  <2>1. /\ owner' \in Pods /\ pos' = [pos EXCEPT ![owner'] = committed]
        /\ \A p \in Pods : reading'[p] => reading[p] \/ p = owner'
        /\ UNCHANGED <<pc, task>>
    BY <1>4, NewOwner
  <2>2. /\ reached' = [reached EXCEPT ![owner'] = 0]
        /\ carried' = carried \cup {p \in {owner'} : pc[p] = "handling"}
    BY <1>4 DEF Assigned
  <2>3. /\ reached'[owner'] = 0 /\ pos'[owner'] = committed
        /\ pc[owner'] = "handling" => owner' \in carried'
    BY <2>1, <2>2
  <2>4. \A q \in Pods \ {owner'} : /\ reached'[q] = reached[q] /\ pos'[q] = pos[q]
                                   /\ q \in carried' <=> q \in carried
    BY <2>1, <2>2
  <2>5. ASSUME NEW q \in Pods
        PROVE  /\ pc'[q] = "handling" /\ q \notin carried' => reached'[q] <= task'[q]
               /\ reading'[q] => /\ reached'[q] <= pos'[q]
                                 /\ pc'[q] = "handling" /\ q \notin carried' => task'[q] < pos'[q]
    <3>1. CASE q = owner'
      BY <2>1, <2>3, <3>1
    <3>2. CASE q # owner'
      <4>1. reached'[q] = reached[q] /\ pos'[q] = pos[q] /\ (q \in carried' <=> q \in carried)
        BY <2>4, <3>2
      <4>2. pc'[q] = pc[q] /\ task'[q] = task[q] /\ (reading'[q] => reading[q])
        BY <2>1, <3>2, Zenon
      <4>3. QED
        BY <4>1, <4>2, Zenon
    <3>3. QED
      BY <3>1, <3>2
  <2>6. QED
    BY <2>5
<1>5. ASSUME NEW p \in Pods, Update(p) \/ UpdateFailed(p) PROVE TriesInv'
  BY <1>1, <1>5 DEF Update, UpdateFailed, Finish, GiveUp, tryVars, assignmentVars
<1>6. ASSUME NEW p \in Pods, UNCHANGED taskVars,
             \/ Commit(p) \/ CommitFailed(p) \/ Crash(p) \/ Cancel(p) \/ Stop(p)
             \/ Restart(p) \/ Notice(p) \/ FetchError(p)
      PROVE  TriesInv'
  BY <1>1, <1>6 DEF taskVars, tryVars, Commit, CommitFailed, Crash, Cancel, Stop, Restart,
    Notice, FetchError, groupVars, assignmentVars
<1>7. CASE \/ Produce /\ UNCHANGED taskVars
           \/ UNCHANGED vars
  BY <1>1, <1>7 DEF Produce, vars, taskVars, tryVars, groupVars, assignmentVars
<1>8. QED
  BY <1>2, <1>3, <1>4, <1>5, <1>6, <1>7 DEF Next, Work, Fail, Handle

-----------------------------------------------------------------------------
(***************************************************************************)
(* Theorems                                                                *)
(***************************************************************************)

LEMMA ProcessorInvInit == Init => ProcessorInv
<1> SUFFICES ASSUME Init PROVE ProcessorInv
  OBVIOUS
<1>1. GroupInv
  BY GroupInvInit DEF Init
<1>2. TypeOK
  BY <1>1, GroupAssumption DEF Init, TypeOK, GroupInv
<1>3. CommitsSuccess /\ CommittedTaskSucceeded
  BY DEF Init, GroupInit, CommitsSuccess, CommittedTaskSucceeded
<1>4. OneTryPerAssignment /\ ReaderIsAhead
  BY DEF Init, GroupInit, OneTryPerAssignment, ReaderIsAhead
<1>5. SettledIsAccounted /\ StoringWasTried
  BY DEF Init, GroupInit, SettledIsAccounted, StoringWasTried
<1>6. QED
  BY <1>1, <1>2, <1>3, <1>4, <1>5 DEF ProcessorInv

\* The inductive invariant: the group's; only what went well is committed; what is
\* settled is accounted for; and a reader is ahead of what was taken up.
THEOREM ProcessorInvCorrect == Spec => []ProcessorInv
<1>1. ProcessorInv <=> GroupInv /\ ResultTypeOK /\ SuccessInv /\ TriesInv /\ AccountInv
  BY DEF ProcessorInv, TypeOK, ResultTypeOK, SuccessInv, AccountInv, TriesInv, GroupInv
<1>2. ProcessorInv /\ [Next]_vars => ProcessorInv'
  <2> SUFFICES ASSUME ProcessorInv, [Next]_vars PROVE ProcessorInv'
    OBVIOUS
  <2>1. /\ GroupInv /\ ResultTypeOK /\ SuccessInv /\ TriesInv /\ AccountInv /\ TypeOK
        /\ StoringWasTried
    BY <1>1 DEF ProcessorInv
  <2>2. GroupTypeOK /\ TaskInLog
    BY <2>1 DEF GroupInv
  <2>3. GroupInv'
    BY <2>1, StepOfGroup, GroupInvStep
  <2>4. ResultTypeOK' /\ SuccessInv'
    BY <2>1, <2>2, ResultTypeStep, SuccessStep
  <2>5. TriesInv'
    BY <2>1, <2>2, TriesStep
  <2>6. AccountInv'
    BY <2>1, <2>2, AccountStep
  <2>7. QED
    BY <2>3, <2>4, <2>5, <2>6
       DEF ProcessorInv, TypeOK, ResultTypeOK, SuccessInv, AccountInv, TriesInv, GroupInv
<1>3. QED
  BY <1>2, ProcessorInvInit, PTL DEF Spec

\* Every variable keeps its type: no pod commits beyond the end of the topic.
THEOREM TypeCorrect == Spec => []TypeOK
BY ProcessorInvCorrect, PTL DEF ProcessorInv

\* The committed offset never passes a task that nobody has handled to the end.
THEOREM NoTaskIsSkipped == Spec => []NothingSkipped
BY ProcessorInvCorrect, PTL DEF ProcessorInv, GroupInv

\* Seen from outside, the processor reads the log in order and without gaps.
THEOREM ProcessorImplementsConsumption == Spec => ImplementsConsumption
BY ProcessorImplementsGroup, GroupImplementsConsumption, PTL DEF ImplementsGroup

\* Below the committed offset every task was taken up, and went well or failed
\* with an error; a row that is not 'completed' belongs to one that failed.
THEOREM EveryTaskIsAccounted == Spec => []NoTaskUnaccounted
<1>1. ProcessorInv => NoTaskUnaccounted
  BY DEF ProcessorInv, GroupInv, NothingSkipped, SettledIsAccounted, NoTaskUnaccounted
<1>2. QED
  BY <1>1, ProcessorInvCorrect, PTL

\* The last committed task is of a type without a handler, or one that could be
\* parsed and whose row, if it has one, is 'completed'.
THEOREM OnlySuccessIsCommitted == Spec => []CommittedTaskSucceeded
BY ProcessorInvCorrect, PTL DEF ProcessorInv

\* Under one assignment of the partition a pod takes no task up twice.
THEOREM TriesNeedAssignments == Spec => []OneTryPerAssignment
BY ProcessorInvCorrect, PTL DEF ProcessorInv
=============================================================================
