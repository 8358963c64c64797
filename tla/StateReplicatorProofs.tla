------------------------ MODULE StateReplicatorProofs ------------------------
(***************************************************************************)
(* Proofs about StateReplicator: it is a consumer of ConsumerGroup, and    *)
(* inherits that no event is skipped.                                      *)
(***************************************************************************)
EXTENDS StateReplicator, ConsumerGroupProofs

USE ReplicatorAssumption

\* Whatever the events, the history and the probes do, the loop takes a step of
\* the group or none.
LEMMA StepOfGroup == [Next]_vars => [GroupNext]_groupVars
BY DEF Next, Work, Fail, HandleUserRegistered, Ignore, Record, Probe,
  CheckHistory, Tick, DatabaseFails, DatabaseRecovers, GroupNext, vars

\* StateReplicator refines ConsumerGroup.
THEOREM ReplicatorImplementsGroup == Spec => ImplementsGroup
<1>1. Init => GroupInit
  BY DEF Init
<1>2. QED
  BY <1>1, StepOfGroup, PTL DEF Spec, ImplementsGroup, GroupSpec

\* The committed offset never passes an event that nobody has worked on.
THEOREM NoEventIsSkipped == Spec => []NothingSkipped
BY ReplicatorImplementsGroup, GroupSkipsNothing, PTL DEF ImplementsGroup

-----------------------------------------------------------------------------
OwnTypeOK ==
  /\ kind     \in [Offsets -> Kinds]
  /\ newest   \in Ages \cup {Never}
  /\ dbUp     \in BOOLEAN
  /\ gauge    \in [Pods -> 0 .. 1]
  /\ ready    \in [Pods -> BOOLEAN]
  /\ lastSync \in Ages \cup {Never}
  /\ seenBy   \in [Offsets -> SUBSET Pods]
  /\ faults   \in 0 .. MaxFaults

\* Growing older keeps an age within the bound, at which all ages are alike.
LEMMA OlderAge ==
  ASSUME NEW age \in Ages \cup {Never}
  PROVE  Older(age) \in Ages \cup {Never}
BY DEF Older, Ages

LEMMA OwnTypeStep ==
  ASSUME GroupInv, OwnTypeOK, [Next]_vars
  PROVE  OwnTypeOK'
<1> USE DEF OwnTypeOK, ownVars, eventVars, probeVars, Fault, FaultUnless
<1>1. ASSUME NEW p \in Pods, HandleUserRegistered(p) PROVE OwnTypeOK'
  <2>1. task[p] \in Offsets
    BY <1>1, HandInLog DEF HandleUserRegistered, Halfway, GroupInv, Busy, AtWork
  <2>2. QED
    BY <1>1, <2>1 DEF HandleUserRegistered
<1>2. ASSUME NEW p \in Pods, Record(p) PROVE OwnTypeOK'
  BY <1>2 DEF Record, Ages
<1>3. ASSUME NEW p \in Pods, Probe(p) PROVE OwnTypeOK'
  <2>1. (dbUp /\ (Stale(newest) => ~BlockReady)) \in BOOLEAN
    BY Zenon
  <2>2. ready' \in [Pods -> BOOLEAN]
    BY <1>3, <2>1 DEF Probe, CheckHistory
  <2>3. gauge' \in [Pods -> 0 .. 1]
    BY <1>3 DEF Probe, CheckHistory
  <2>4. QED
    BY <1>3, <2>2, <2>3 DEF Probe, CheckHistory
<1>4. CASE Tick
  BY <1>4, OlderAge DEF Tick
<1>5. CASE DatabaseFails \/ DatabaseRecovers
  <2>1. dbUp' \in BOOLEAN
    BY <1>5, Zenon DEF DatabaseFails, DatabaseRecovers
  <2>2. UNCHANGED <<eventVars, probeVars>> /\ faults' \in 0 .. MaxFaults
    BY <1>5 DEF DatabaseFails, DatabaseRecovers
  <2>3. QED
    BY <2>1, <2>2
<1>6. CASE /\ UNCHANGED <<eventVars, probeVars, dbUp>>
           /\ UNCHANGED faults \/ Fault
  BY <1>6
<1>7. CASE UNCHANGED vars
  BY <1>7 DEF vars
<1>8. QED
  BY <1>1, <1>2, <1>3, <1>4, <1>5, <1>6, <1>7 DEF Next, Work, Fail, Ignore

-----------------------------------------------------------------------------
(***************************************************************************)
(* What is settled was seen                                                *)
(***************************************************************************)
SeenInv == SettledWasSeen /\ StoringWasSeen

LEMMA SeenStep ==
  ASSUME GroupInv, OwnTypeOK, SeenInv, [Next]_vars
  PROVE  SeenInv'
<1> USE DEF SeenInv, SettledWasSeen, StoringWasSeen
<1>1. /\ settled \subseteq Offsets
      /\ \A p \in Pods : pc[p] \in Busy => task[p] \in Offsets
  BY HandInLog DEF GroupInv, GroupTypeOK
<1>2. /\ kind' = kind
      /\ \A o \in Offsets : seenBy[o] \subseteq seenBy'[o]
  BY DEF Next, Work, Fail, HandleUserRegistered, Ignore, Record, Probe, CheckHistory, Tick,
    DatabaseFails, DatabaseRecovers, ownVars, eventVars, vars, OwnTypeOK
<1>3. ASSUME NEW o \in Offsets, seenBy[o] # {} PROVE seenBy'[o] # {}
  BY <1>2, <1>3
<1>4. \A o \in settled : kind[o] = "user.registered" => seenBy'[o] # {}
  BY <1>1, <1>3
<1>5. ASSUME NEW p \in Pods, pc[p] = "storing", kind[task[p]] = "user.registered"
      PROVE  seenBy'[task[p]] # {}
  BY <1>1, <1>3, <1>5 DEF Busy, AtWork
<1>6. ASSUME settled' = settled,
             \A q \in Pods : pc'[q] = "storing" => pc[q] = "storing" /\ task'[q] = task[q]
      PROVE  SeenInv'
  BY <1>2, <1>4, <1>5, <1>6
<1>7. ASSUME NEW p \in Pods, HandleUserRegistered(p) \/ Ignore(p) PROVE SeenInv'
  <2>1. /\ pc[p] = "handling" /\ task' = task /\ settled' = settled
        /\ \A q \in Pods \ {p} : pc'[q] = pc[q]
    BY <1>7 DEF HandleUserRegistered, Ignore, Halfway, Goto, GroupInv, GroupTypeOK
  <2>2. task[p] \in Offsets
    BY <1>1, <2>1 DEF Busy, AtWork
  <2>3. kind[task[p]] = "user.registered" => p \in seenBy'[task[p]]
    BY <1>7, <2>2 DEF HandleUserRegistered, Ignore, OwnTypeOK
  <2>4. QED
    BY <1>2, <1>4, <1>5, <2>1, <2>3
<1>8. ASSUME NEW p \in Pods, Record(p) PROVE SeenInv'
  <2>1. /\ pc[p] = "storing" /\ task' = task /\ settled' = settled \cup {task[p]}
        /\ \A q \in Pods : pc'[q] = "storing" => pc[q] = "storing"
    BY <1>8 DEF Record, Finish, Goto, GroupInv, GroupTypeOK
  <2>2. QED
    BY <1>2, <1>4, <1>5, <2>1
<1>9. ASSUME NEW p \in Pods,
             \/ Fetch(p) \/ Commit(p) \/ CommitFailed(p) \/ Crash(p) \/ Cancel(p)
             \/ Stop(p) \/ Restart(p) \/ Notice(p) \/ FetchError(p) \/ Probe(p)
      PROVE  SeenInv'
  BY <1>6, <1>9 DEF Fetch, Commit, CommitFailed, Crash, Cancel, Stop, Restart, Notice,
    FetchError, Probe, CheckHistory, Goto, groupVars, assignmentVars, GroupInv, GroupTypeOK
<1>10. CASE \/ Produce \/ Rebalance \/ Evict \/ Tick \/ DatabaseFails \/ DatabaseRecovers
            \/ UNCHANGED vars
  BY <1>6, <1>10 DEF Produce, Rebalance, Evict, NewGeneration, Tick, DatabaseFails,
    DatabaseRecovers, vars, groupVars
<1>11. QED
  BY <1>7, <1>8, <1>9, <1>10 DEF Next, Work, Fail

-----------------------------------------------------------------------------
(***************************************************************************)
(* Theorems                                                                *)
(***************************************************************************)

\* The inductive invariant: the group's, and no event is settled that its
\* handler was not given.
THEOREM ReplicatorInvCorrect == Spec => []ReplicatorInv
<1>1. Init => GroupInv /\ OwnTypeOK /\ SeenInv
  BY GroupInvInit DEF Init, GroupInit, OwnTypeOK, Ages, SeenInv, SettledWasSeen, StoringWasSeen
<1>2. GroupInv /\ OwnTypeOK /\ SeenInv /\ [Next]_vars => (GroupInv /\ OwnTypeOK /\ SeenInv)'
  BY StepOfGroup, GroupInvStep, OwnTypeStep, SeenStep
<1>3. GroupInv /\ OwnTypeOK /\ SeenInv => ReplicatorInv
  BY DEF GroupInv, OwnTypeOK, SeenInv, TypeOK, ReplicatorInv
<1>4. QED
  BY <1>1, <1>2, <1>3, PTL DEF Spec

\* Every variable keeps its type; ages stop growing beyond the threshold.
THEOREM TypeCorrect == Spec => []TypeOK
BY ReplicatorInvCorrect, PTL DEF ReplicatorInv

\* Seen from outside, the replicator reads the log in order and without gaps.
THEOREM ReplicatorImplementsConsumption == Spec => ImplementsConsumption
BY ReplicatorImplementsGroup, GroupImplementsConsumption, PTL DEF ImplementsGroup

\* An event below the committed offset, which no pod of the group will read
\* again, was given to its handler.
THEOREM CommittedWasSeen ==
  Spec => [](\A o \in Offsets : o < committed /\ kind[o] = "user.registered" => seenBy[o] # {})
<1>1. ReplicatorInv =>
        \A o \in Offsets : o < committed /\ kind[o] = "user.registered" => seenBy[o] # {}
  BY DEF ReplicatorInv, GroupInv, NothingSkipped, SettledWasSeen
<1>2. QED
  BY <1>1, ReplicatorInvCorrect, PTL

-----------------------------------------------------------------------------
(***************************************************************************)
(* The probe                                                               *)
(***************************************************************************)

\* Nobody ever writes to the history table.
LEMMA HistoryStaysEmpty == Spec => [](newest = Never)
<1>1. Init => newest = Never
  BY DEF Init
<1>2. newest = Never /\ [Next]_vars => (newest = Never)'
  BY DEF Next, Work, Fail, HandleUserRegistered, Ignore, Record, Probe, CheckHistory, Tick,
    DatabaseFails, DatabaseRecovers, Older, HasDB, ownVars, eventVars, vars
<1>3. QED
  BY <1>1, <1>2, PTL DEF Spec

\* Why GaugeMeansStale fails, and how often: every probe that PostgreSQL answers
\* sets the gauge, however recent the last event is.
THEOREM EveryProbeCallsForBootstrap ==
  Spec => [][\A p \in Pods : Probe(p) /\ dbUp => gauge'[p] = 1]_vars
<1>1. ReplicatorInv /\ newest = Never =>
        [\A p \in Pods : Probe(p) /\ dbUp => gauge'[p] = 1]_vars
  BY DEF Probe, CheckHistory, Stale, ReplicatorInv, TypeOK
<1>2. QED
  BY <1>1, ReplicatorInvCorrect, HistoryStaysEmpty, PTL
=============================================================================
