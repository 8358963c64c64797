------------------------- MODULE ConsumerGroupProofs -------------------------
(***************************************************************************)
(* Proofs about ConsumerGroup for any number of pods and any length of the *)
(* partition.  They are stated of one step, so that the consumers built on *)
(* the group can use them for theirs.                                      *)
(***************************************************************************)
EXTENDS ConsumerGroup, FiniteSetTheorems, TLAPS

USE GroupAssumption

-----------------------------------------------------------------------------
(***************************************************************************)
(* Types                                                                   *)
(***************************************************************************)

\* A new generation keeps the types: its owner starts at the committed offset.
LEMMA NewGenerationTypes ==
  ASSUME GroupTypeOK, TaskInLog, NEW M \in SUBSET Pods, NEW o \in M, NewGeneration(M, o)
  PROVE  GroupTypeOK' /\ TaskInLog'
<1> USE DEF GroupTypeOK, NewGeneration
<1>1. reading' \in [Pods -> BOOLEAN]
  <2>1. \A p \in Pods : (IF p \in M THEN p = o ELSE reading[p]) \in BOOLEAN
    OBVIOUS
  <2>2. QED
    BY <2>1
<1>2. pos' \in [Pods -> 0 .. len']
  OBVIOUS
<1>3. generation' \in Nat /\ members' \in SUBSET Pods /\ owner' \in Pods \cup {None}
  OBVIOUS
<1>4. TaskInLog'
  BY DEF TaskInLog
<1>5. QED
  BY <1>1, <1>2, <1>3, <1>4

\* The message in hand is one of the topic, and so is the offset its commit sets.
LEMMA HandInLog ==
  ASSUME GroupTypeOK, TaskInLog, NEW p \in Pods, pc[p] \in Busy
  PROVE  task[p] \in Offsets /\ task[p] + 1 \in 0 .. len
BY DEF GroupTypeOK, TaskInLog, Offsets

LEMMA GroupTypeStep ==
  ASSUME GroupTypeOK, TaskInLog, [GroupNext]_groupVars
  PROVE  GroupTypeOK' /\ TaskInLog'
<1> USE DEF GroupTypeOK, TaskInLog, PC, Busy, AtWork, Goto, assignmentVars
<1>1. CASE Produce
  BY <1>1 DEF Produce
<1>2. CASE Rebalance
  <2>1. PICK M, o : M = Alive \ Zombies /\ o \in M /\ NewGeneration(M, o)
    BY <1>2 DEF Rebalance
  <2>2. M \in SUBSET Pods
    BY <2>1 DEF Alive
  <2>3. QED
    BY <2>1, <2>2, NewGenerationTypes
<1>3. CASE Evict
  BY <1>3, NewGenerationTypes DEF Evict, Alive
<1>4. ASSUME NEW p \in Pods, Notice(p) PROVE GroupTypeOK' /\ TaskInLog'
  BY <1>4 DEF Notice
<1>5. ASSUME NEW p \in Pods, Fetch(p) PROVE GroupTypeOK' /\ TaskInLog'
  BY <1>5 DEF Fetch
<1>6. ASSUME NEW p \in Pods, FetchError(p) PROVE GroupTypeOK' /\ TaskInLog'
  BY <1>6 DEF FetchError, groupVars
<1>7. ASSUME NEW p \in Pods, Halfway(p) PROVE GroupTypeOK' /\ TaskInLog'
  BY <1>7 DEF Halfway
<1>8. ASSUME NEW p \in Pods, Finish(p) PROVE GroupTypeOK' /\ TaskInLog'
  BY <1>8, HandInLog DEF Finish
<1>9. ASSUME NEW p \in Pods, GiveUp(p) PROVE GroupTypeOK' /\ TaskInLog'
  BY <1>9, HandInLog DEF GiveUp
<1>10. ASSUME NEW p \in Pods, Commit(p) PROVE GroupTypeOK' /\ TaskInLog'
  BY <1>10, HandInLog DEF Commit
<1>11. ASSUME NEW p \in Pods, CommitFailed(p) PROVE GroupTypeOK' /\ TaskInLog'
  BY <1>11, HandInLog DEF CommitFailed
<1>12. ASSUME NEW p \in Pods, Crash(p) PROVE GroupTypeOK' /\ TaskInLog'
  BY <1>12 DEF Crash
<1>13. ASSUME NEW p \in Pods, Cancel(p) PROVE GroupTypeOK' /\ TaskInLog'
  BY <1>13 DEF Cancel
<1>14. ASSUME NEW p \in Pods, Stop(p) PROVE GroupTypeOK' /\ TaskInLog'
  BY <1>14 DEF Stop
<1>15. ASSUME NEW p \in Pods, Restart(p) PROVE GroupTypeOK' /\ TaskInLog'
  BY <1>15 DEF Restart
<1>16. CASE UNCHANGED groupVars
  BY <1>16 DEF groupVars
<1>17. QED
  BY <1>1, <1>2, <1>3, <1>4, <1>5, <1>6, <1>7, <1>8, <1>9, <1>10, <1>11,
     <1>12, <1>13, <1>14, <1>15, <1>16
     DEF GroupNext

-----------------------------------------------------------------------------
(***************************************************************************)
(* The committed offset follows the work                                   *)
(***************************************************************************)
FollowInv == ReaderFollowsWork /\ HandFollowsWork /\ NothingSkipped

LEMMA NewGenerationFollows ==
  ASSUME GroupTypeOK, FollowInv, NEW M \in SUBSET Pods, NEW o \in M, NewGeneration(M, o)
  PROVE  FollowInv'
<1> USE DEF GroupTypeOK, FollowInv, NewGeneration, Offsets
<1>1. ReaderFollowsWork'
  <2> SUFFICES ASSUME NEW p \in Pods, reading'[p], NEW t \in Offsets, t < pos'[p]
               PROVE  t \in settled \/ (pc[p] \in AtWork /\ task[p] = t)
    BY DEF ReaderFollowsWork
  <2>1. CASE p = o
    BY <2>1 DEF NothingSkipped
  <2>2. CASE p # o
    BY <2>2 DEF ReaderFollowsWork
  <2>3. QED
    BY <2>1, <2>2
<1>2. HandFollowsWork'
  BY DEF HandFollowsWork
<1>3. NothingSkipped'
  BY DEF NothingSkipped
<1>4. QED
  BY <1>1, <1>2, <1>3

LEMMA FollowStep ==
  ASSUME GroupTypeOK, TaskInLog, FollowInv, [GroupNext]_groupVars
  PROVE  FollowInv'
<1> USE DEF GroupTypeOK, TaskInLog, FollowInv, ReaderFollowsWork, HandFollowsWork,
  NothingSkipped, Offsets, Busy, AtWork, Goto, assignmentVars
<1>1. CASE Produce
  BY <1>1 DEF Produce
<1>2. CASE Rebalance
  <2>1. PICK M, o : M = Alive \ Zombies /\ o \in M /\ NewGeneration(M, o)
    BY <1>2 DEF Rebalance
  <2>2. M \in SUBSET Pods
    BY <2>1 DEF Alive
  <2>3. QED
    BY <2>1, <2>2, NewGenerationFollows
<1>3. CASE Evict
  BY <1>3, NewGenerationFollows DEF Evict, Alive
<1>4. ASSUME NEW p \in Pods, Notice(p) PROVE FollowInv'
  BY <1>4 DEF Notice
<1>5. ASSUME NEW p \in Pods, Fetch(p) PROVE FollowInv'
  <2>1. ReaderFollowsWork'
    BY <1>5 DEF Fetch
  <2>2. HandFollowsWork'
    BY <1>5 DEF Fetch
  <2>3. NothingSkipped'
    BY <1>5 DEF Fetch
  <2>4. QED
    BY <2>1, <2>2, <2>3
<1>6. ASSUME NEW p \in Pods, FetchError(p) PROVE FollowInv'
  BY <1>6 DEF FetchError, groupVars
<1>7. ASSUME NEW p \in Pods, Halfway(p) PROVE FollowInv'
  BY <1>7 DEF Halfway
<1>8. ASSUME NEW p \in Pods, Finish(p) PROVE FollowInv'
  BY <1>8 DEF Finish
<1>9. ASSUME NEW p \in Pods, GiveUp(p) PROVE FollowInv'
  BY <1>9 DEF GiveUp
<1>10. ASSUME NEW p \in Pods, Commit(p) PROVE FollowInv'
  <2>1. ReaderFollowsWork' /\ HandFollowsWork'
    BY <1>10 DEF Commit
  <2>2. NothingSkipped'
    BY <1>10 DEF Commit
  <2>3. QED
    BY <2>1, <2>2
<1>11. ASSUME NEW p \in Pods, CommitFailed(p) PROVE FollowInv'
  <2>1. ReaderFollowsWork' /\ HandFollowsWork'
    BY <1>11 DEF CommitFailed
  <2>2. committed' = committed \/ committed' = task[p] + 1
    BY <1>11 DEF CommitFailed
  <2>3. NothingSkipped'
    BY <1>11, <2>2 DEF CommitFailed
  <2>4. QED
    BY <2>1, <2>3
<1>12. ASSUME NEW p \in Pods, Crash(p) PROVE FollowInv'
  BY <1>12 DEF Crash
<1>13. ASSUME NEW p \in Pods, Cancel(p) PROVE FollowInv'
  BY <1>13 DEF Cancel
<1>14. ASSUME NEW p \in Pods, Stop(p) PROVE FollowInv'
  BY <1>14 DEF Stop
<1>15. ASSUME NEW p \in Pods, Restart(p) PROVE FollowInv'
  BY <1>15 DEF Restart
<1>16. CASE UNCHANGED groupVars
  BY <1>16 DEF groupVars
<1>17. QED
  BY <1>1, <1>2, <1>3, <1>4, <1>5, <1>6, <1>7, <1>8, <1>9, <1>10, <1>11,
     <1>12, <1>13, <1>14, <1>15, <1>16
     DEF GroupNext

-----------------------------------------------------------------------------
(***************************************************************************)
(* The order of the log                                                    *)
(***************************************************************************)

\* Settling the message in hand leaves the settled messages as they are, if
\* another pod was faster, or adds the next one.
LEMMA SettleInOrder ==
  ASSUME GroupTypeOK, TaskInLog, HandFollowsWork,
         NEW p \in Pods, pc[p] \in AtWork,
         NEW n \in 0 .. len, settled = 0 .. n - 1
  PROVE  \/ settled \cup {task[p]} = 0 .. n - 1
         \/ n < len /\ settled \cup {task[p]} = 0 .. n
<1>1. task[p] \in 0 .. len - 1 /\ len \in 0 .. MaxLen
  BY DEF TaskInLog, GroupTypeOK, Busy, AtWork
<1>2. CASE task[p] < n
  BY <1>1, <1>2
<1>3. CASE task[p] >= n
  <2>1. \A o \in Offsets : o < task[p] => o \in 0 .. n - 1
    BY DEF HandFollowsWork, Busy
  <2>2. ~(n < task[p])
    BY <1>1, <2>1 DEF Offsets
  <2>3. task[p] = n
    BY <1>1, <1>3, <2>2
  <2>4. QED
    BY <1>1, <2>3
<1>4. QED
  BY <1>1, <1>2, <1>3

\* A step of the group settles nothing or the message of a pod at work.
LEMMA SettledStep ==
  ASSUME GroupTypeOK, [GroupNext]_groupVars
  PROVE  /\ len' \in {len, len + 1}
         /\ \/ settled' = settled
            \/ /\ len' = len /\ committed' = committed
               /\ \E p \in Pods : pc[p] \in AtWork /\ settled' = settled \cup {task[p]}
BY DEF GroupNext, groupVars, assignmentVars, Produce, Rebalance, Evict, NewGeneration,
  Notice, Fetch, FetchError, Halfway, Finish, GiveUp, Commit, CommitFailed, Crash, Cancel,
  Stop, Restart

LEMMA OrderStep ==
  ASSUME GroupTypeOK, TaskInLog, HandFollowsWork, SettledInOrder, [GroupNext]_groupVars
  PROVE  SettledInOrder'
<1>1. PICK n \in 0 .. len : settled = 0 .. n - 1
  BY DEF SettledInOrder
<1>2. len \in Nat /\ len' \in {len, len + 1}
  BY SettledStep DEF GroupTypeOK
<1>3. CASE settled' = settled
  BY <1>1, <1>2, <1>3 DEF SettledInOrder
<1>4. ASSUME NEW p \in Pods, pc[p] \in AtWork, settled' = settled \cup {task[p]}
      PROVE  SettledInOrder'
  <2>1. CASE settled' = 0 .. n - 1
    BY <1>2, <2>1 DEF SettledInOrder
  <2>2. CASE n < len /\ settled' = 0 .. n
    <3>1. n + 1 \in 0 .. len' /\ settled' = 0 .. (n + 1) - 1
      BY <1>2, <2>2
    <3>2. QED
      BY <3>1 DEF SettledInOrder
  <2>3. QED
    BY <1>1, <1>4, <2>1, <2>2, SettleInOrder
<1>5. QED
  BY <1>3, <1>4, SettledStep

-----------------------------------------------------------------------------
(***************************************************************************)
(* Theorems                                                                *)
(***************************************************************************)

LEMMA GroupInvInit == GroupInit => GroupInv
<1> SUFFICES ASSUME GroupInit PROVE GroupInv
  OBVIOUS
<1>1. SettledInOrder
  <2>1. 0 \in 0 .. len /\ settled = 0 .. 0 - 1
    BY DEF GroupInit
  <2>2. QED
    BY <2>1 DEF SettledInOrder
<1>2. QED
  BY <1>1 DEF GroupInit, GroupInv, GroupTypeOK, TaskInLog, Offsets, PC, Busy, AtWork,
    ReaderFollowsWork, HandFollowsWork, NothingSkipped

\* The inductive step, for the consumers built on the group.
LEMMA GroupInvStep == GroupInv /\ [GroupNext]_groupVars => GroupInv'
<1>1. GroupInv <=> GroupTypeOK /\ TaskInLog /\ FollowInv /\ SettledInOrder
  BY DEF GroupInv, FollowInv
<1>2. QED
  BY <1>1, GroupTypeStep, FollowStep, OrderStep DEF GroupInv, FollowInv

\* No reader is ahead of the work, but for the message its own loop has in hand.
THEOREM GroupInvCorrect == GroupSpec => []GroupInv
BY GroupInvInit, GroupInvStep, PTL DEF GroupSpec

\* Whatever the group and the pods go through, the committed offset never
\* passes a message that nobody has handled to the end.
THEOREM GroupSkipsNothing == GroupSpec => []NothingSkipped
BY GroupInvCorrect, PTL DEF GroupInv

-----------------------------------------------------------------------------
(***************************************************************************)
(* ConsumerGroup implements LogConsumption                                 *)
(***************************************************************************)

\* The number of settled messages is where the unsettled ones begin.
LEMMA SettledCount ==
  ASSUME NEW n \in Nat
  PROVE  Cardinality(0 .. n - 1) = n
<1>1. CASE n = 0
  <2>1. 0 .. n - 1 = {}
    BY <1>1
  <2>2. QED
    BY <1>1, <2>1, FS_EmptySet
<1>2. CASE n > 0
  BY <1>2, FS_Interval
<1>3. QED
  BY <1>1, <1>2

\* What an offset is set to: the one behind a message that is settled.
LEMMA CommittedStep ==
  ASSUME GroupInv, [GroupNext]_groupVars
  PROVE  \/ committed' = committed
         \/ /\ len' = len /\ settled' = settled
            /\ \E p \in Pods : pc[p] = "committing" /\ committed' = task[p] + 1
BY DEF GroupNext, groupVars, assignmentVars, Produce, Rebalance, Evict, NewGeneration,
  Notice, Fetch, FetchError, Halfway, Finish, GiveUp, Commit, CommitFailed, Crash, Cancel,
  Stop, Restart

LEMMA ConsumptionStep ==
  GroupInv /\ [GroupNext]_groupVars => [Consumption!LNext]_(Consumption!lvars)
<1> SUFFICES ASSUME GroupInv, [GroupNext]_groupVars
             PROVE  Consumption!LNext \/ UNCHANGED <<len, Cardinality(settled), committed>>
  BY DEF Consumption!lvars
<1> DEFINE Kept == Consumption!LNext \/ UNCHANGED <<len, Cardinality(settled), committed>>
<1>1. PICK n \in 0 .. len : settled = 0 .. n - 1
  BY DEF GroupInv, SettledInOrder
<1>2. n \in Nat /\ Cardinality(settled) = n /\ len \in Nat
  BY <1>1, SettledCount DEF GroupInv, GroupTypeOK
<1>3. ASSUME NEW p \in Pods, pc[p] \in AtWork, settled' = settled \cup {task[p]},
             len' = len, committed' = committed
      PROVE  Kept
  <2>1. CASE settled' = 0 .. n - 1
    BY <1>1, <1>3, <2>1
  <2>2. CASE n < len /\ settled' = 0 .. n
    <3>1. settled' = 0 .. (n + 1) - 1
      BY <1>2, <2>2
    <3>2. Cardinality(settled') = n + 1
      BY <1>2, <3>1, SettledCount
    <3>3. Consumption!FinishNext
      BY <1>2, <1>3, <2>2, <3>2 DEF Consumption!FinishNext
    <3>4. QED
      BY <3>3 DEF Consumption!LNext
  <2>3. QED
    BY <1>1, <1>3, <2>1, <2>2, SettleInOrder DEF GroupInv
<1>4. ASSUME NEW p \in Pods, pc[p] = "committing", committed' = task[p] + 1,
             len' = len, settled' = settled
      PROVE  Kept
  <2>1. task[p] \in 0 .. n - 1
    BY <1>1, <1>4 DEF GroupInv, HandFollowsWork
  <2>2. task[p] + 1 \in 1 .. Cardinality(settled)
    BY <1>2, <2>1
  <2>3. Consumption!Mark(task[p] + 1)
    BY <1>4, <2>2 DEF Consumption!Mark
  <2>4. QED
    BY <2>2, <2>3 DEF Consumption!LNext
<1>5. CASE settled' = settled /\ committed' = committed
  <2>1. CASE len' = len
    BY <1>5, <2>1
  <2>2. CASE len' = len + 1
    <3>1. Consumption!Append
      BY <1>5, <2>2 DEF Consumption!Append
    <3>2. QED
      BY <3>1 DEF Consumption!LNext
  <2>3. QED
    BY <2>1, <2>2, SettledStep DEF GroupInv
<1>6. QED
  BY <1>3, <1>4, <1>5, SettledStep, CommittedStep DEF GroupInv

\* Seen from outside, the group reads the log in order and without gaps, and
\* resumes where nothing is left behind.
THEOREM GroupImplementsConsumption == GroupSpec => ImplementsConsumption
<1>1. GroupInit => Consumption!LInit
  BY FS_EmptySet DEF GroupInit, Consumption!LInit
<1>2. QED
  BY <1>1, ConsumptionStep, GroupInvCorrect, PTL
     DEF GroupSpec, ImplementsConsumption, Consumption!LSpec
=============================================================================
