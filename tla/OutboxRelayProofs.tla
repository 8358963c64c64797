-------------------------- MODULE OutboxRelayProofs --------------------------
(***************************************************************************)
(* Proofs about OutboxRelay for any number of pods and rows, any batch     *)
(* size and any bound on failures.                                         *)
(***************************************************************************)
EXTENDS OutboxRelay, FiniteSetTheorems, FunctionTheorems, TLAPS

USE RelayAssumption

\* A batch consists of rows that are pending, due and locked by nobody.
LEMMA OldestEligible ==
  \A e \in Oldest(Eligible) :
    e \in Events /\ row[e] = "pending" /\ e \in due /\ lock[e] = None
BY DEF Oldest, Eligible

\* Every variable keeps its type: attempts never exceeds the writer's limit.
THEOREM TypeCorrect == Spec => []TypeOK
<1>1. Init => TypeOK
  BY DEF Init, TypeOK, RowStatus, PC, TxStatus
<1>2. TypeOK /\ [Next]_vars => TypeOK'
  <2> SUFFICES ASSUME TypeOK, [Next]_vars PROVE TypeOK'
    OBVIOUS
  <2> USE DEF TypeOK, RowStatus, PC, TxStatus, dbVars, batchVars
  <2>1. ASSUME NEW e \in Events, Insert(e) PROVE TypeOK'
    BY <2>1 DEF Insert
  <2>2. ASSUME NEW e \in Events, FallDue(e) PROVE TypeOK'
    BY <2>2 DEF FallDue
  <2>3. ASSUME NEW p \in Pods, Fetch(p) PROVE TypeOK'
    BY <2>3 DEF Fetch, InHand, LockTo, Oldest, Eligible
  <2>4. ASSUME NEW p \in Pods, FetchNothing(p) PROVE TypeOK'
    BY <2>4 DEF FetchNothing, vars
  <2>5. ASSUME NEW p \in Pods, FetchCutShort(p) PROVE TypeOK'
    <3>1. PICK some \in SUBSET Oldest(Eligible) : InHand(p, "sending", "aborted", some)
      BY <2>5 DEF FetchCutShort
    <3>2. some \subseteq Events
      BY <3>1, OldestEligible
    <3>3. lock' \in [Events -> Pods \cup {None, Orphan}]
      BY <2>5 DEF FetchCutShort, LockTo
    <3>4. faults' \in 0 .. MaxFaults
      BY <2>5 DEF FetchCutShort, Fault
    <3>5. QED
      BY <2>5, <3>1, <3>2, <3>3, <3>4 DEF FetchCutShort, InHand
  <2>6. ASSUME NEW p \in Pods, WriteRefused(p) PROVE TypeOK'
    BY <2>6 DEF WriteRefused, Abandon, InHand, LockTo, Held
  <2>7. ASSUME NEW p \in Pods, WriteOk(p) PROVE TypeOK'
    BY <2>7 DEF WriteOk, Store
  <2>8. ASSUME NEW p \in Pods, WriteRetry(p) PROVE TypeOK'
    BY <2>8 DEF WriteRetry, Store, Fault
  <2>9. ASSUME NEW p \in Pods, WriteError(p) PROVE TypeOK'
    BY <2>9 DEF WriteError, Store, Abandon, InHand, LockTo, Held, Fault
  <2>10. ASSUME NEW p \in Pods, Delete(p) PROVE TypeOK'
    BY <2>10 DEF Delete
  <2>11. ASSUME NEW p \in Pods, TxError(p) PROVE TypeOK'
    BY <2>11 DEF TxError, Abandon, InHand, LockTo, Held
  <2>12. ASSUME NEW p \in Pods, Commit(p) PROVE TypeOK'
    BY <2>12 DEF Commit, Committed, InHand, LockTo, Held
  <2>13. ASSUME NEW p \in Pods, CommitUnknown(p) PROVE TypeOK'
    BY <2>13 DEF CommitUnknown, Committed, InHand, LockTo, Held, Fault
  <2>14. ASSUME NEW p \in Pods, SessionLost(p) PROVE TypeOK'
    BY <2>14 DEF SessionLost, LockTo, Held, Fault
  <2>15. CASE Reap
    BY <2>15 DEF Reap, LockTo, Held
  <2>16. ASSUME NEW p \in Pods, Crash(p) PROVE TypeOK'
    BY <2>16 DEF Crash, Store, InHand, LockTo, Held, Fault
  <2>17. ASSUME NEW p \in Pods, Cancel(p) PROVE TypeOK'
    BY <2>17 DEF Cancel, Fault
  <2>18. ASSUME NEW p \in Pods, Stop(p) PROVE TypeOK'
    BY <2>18 DEF Stop
  <2>19. ASSUME NEW p \in Pods, Restart(p) PROVE TypeOK'
    BY <2>19 DEF Restart
  <2>20. CASE UNCHANGED vars
    BY <2>20 DEF vars
  <2>21. QED
    BY <2>1, <2>2, <2>3, <2>4, <2>5, <2>6, <2>7, <2>8, <2>9, <2>10, <2>11,
       <2>12, <2>13, <2>14, <2>15, <2>16, <2>17, <2>18, <2>19, <2>20
       DEF Next, Work, Fail
<1>3. QED
  BY <1>1, <1>2, PTL DEF Spec
-----------------------------------------------------------------------------
(***************************************************************************)
(* The inductive invariant                                                 *)
(***************************************************************************)

\* The invariant but for the number of copies and what bears on it only.
BatchInv ==
  /\ TypeOK /\ LocksCoverBatch /\ AckedIsStored
  /\ BatchWasWritten /\ NoTxBetweenBatches
  /\ NoEventLost /\ NoStranded /\ CountedOnce

LEMMA BatchInvInit == Init => BatchInv
BY DEF Init, BatchInv, TypeOK, RowStatus, PC, TxStatus, LocksCoverBatch, AckedIsStored,
  BatchWasWritten, NoTxBetweenBatches, NoEventLost, NoStranded, CountedOnce

LEMMA BatchInvStep == BatchInv /\ TypeOK' /\ [Next]_vars => BatchInv'
<1> SUFFICES ASSUME BatchInv, TypeOK', [Next]_vars PROVE BatchInv'
  OBVIOUS
<1> USE DEF BatchInv, TypeOK, LocksCoverBatch, AckedIsStored, BatchWasWritten,
  NoTxBetweenBatches, NoEventLost, NoStranded, CountedOnce, dbVars, batchVars
<1>1. ASSUME NEW e \in Events, Insert(e) PROVE BatchInv'
  BY <1>1 DEF Insert
<1>2. ASSUME NEW e \in Events, FallDue(e) PROVE BatchInv'
  BY <1>2 DEF FallDue
<1>3. ASSUME NEW p \in Pods, Fetch(p) PROVE BatchInv'
  BY <1>3, OldestEligible DEF Fetch, InHand, LockTo
<1>4. ASSUME NEW p \in Pods, FetchNothing(p) PROVE BatchInv'
  BY <1>4 DEF FetchNothing, vars
<1>5. ASSUME NEW p \in Pods, FetchCutShort(p) PROVE BatchInv'
  BY <1>5, OldestEligible DEF FetchCutShort, InHand, LockTo
<1>6. ASSUME NEW p \in Pods, WriteRefused(p) PROVE BatchInv'
  BY <1>6 DEF WriteRefused, Abandon, InHand, LockTo, Held
<1>7. ASSUME NEW p \in Pods, WriteOk(p) PROVE BatchInv'
  BY <1>7 DEF WriteOk, Sendable, Store
<1>8. ASSUME NEW p \in Pods, WriteRetry(p) PROVE BatchInv'
  BY <1>8 DEF WriteRetry, Sendable, Store
<1>9. ASSUME NEW p \in Pods, WriteError(p) PROVE BatchInv'
  BY <1>9 DEF WriteError, Store, Abandon, InHand, LockTo, Held
<1>10. ASSUME NEW p \in Pods, Delete(p) PROVE BatchInv'
  BY <1>10 DEF Delete
<1>11. ASSUME NEW p \in Pods, TxError(p) PROVE BatchInv'
  BY <1>11 DEF TxError, Abandon, InHand, LockTo, Held
<1>12. ASSUME NEW p \in Pods, Commit(p) PROVE BatchInv'
  BY <1>12 DEF Commit, Usable, Committed, InHand, LockTo, Held
<1>13. ASSUME NEW p \in Pods, CommitUnknown(p) PROVE BatchInv'
  BY <1>13 DEF CommitUnknown, Committed, InHand, LockTo, Held
<1>14. ASSUME NEW p \in Pods, SessionLost(p) PROVE BatchInv'
  BY <1>14 DEF SessionLost, LockTo, Held
<1>15. CASE Reap
  BY <1>15 DEF Reap, LockTo, Held
<1>16. ASSUME NEW p \in Pods, Crash(p) PROVE BatchInv'
  BY <1>16 DEF Crash, Store, InHand, LockTo, Held
<1>17. ASSUME NEW p \in Pods, Cancel(p) PROVE BatchInv'
  BY <1>17 DEF Cancel
<1>18. ASSUME NEW p \in Pods, Stop(p) PROVE BatchInv'
  BY <1>18 DEF Stop
<1>19. ASSUME NEW p \in Pods, Restart(p) PROVE BatchInv'
  BY <1>19 DEF Restart
<1>20. CASE UNCHANGED vars
  BY <1>20 DEF vars
<1>21. QED
  BY <1>1, <1>2, <1>3, <1>4, <1>5, <1>6, <1>7, <1>8, <1>9, <1>10, <1>11,
     <1>12, <1>13, <1>14, <1>15, <1>16, <1>17, <1>18, <1>19, <1>20
     DEF Next, Work, Fail

\* Nothing of a refused batch is ever sent: a write needs a batch without one.
LEMMA RefusedStep ==
  ASSUME TypeOK, RefusedUntouched, [Next]_vars
  PROVE  RefusedUntouched'
<1> USE DEF TypeOK, RefusedUntouched, dbVars, batchVars
\* Where the pod is, what it has in hand and what is unacknowledged.
<1> DEFINE Same(q)  == pc'[q] = pc[q] /\ events'[q] = events[q] /\ unacked'[q] = unacked[q]
           Fresh(q) == unacked'[q] = events'[q]
           Past(q)  == pc'[q] # "sending"
           Sound(q) == events'[q] \cap Oversized = {}
<1>1. ASSUME \A q \in Pods : Same(q) \/ Fresh(q) \/ Past(q) \/ Sound(q) PROVE RefusedUntouched'
  BY <1>1
<1> HIDE DEF RefusedUntouched
<1>2. ASSUME NEW p \in Pods,
             \/ Fetch(p) \/ FetchCutShort(p) \/ WriteRefused(p) \/ WriteError(p)
             \/ TxError(p) \/ Commit(p) \/ CommitUnknown(p) \/ Crash(p)
      PROVE  RefusedUntouched'
  <2>1. PICK where, status, rows : InHand(p, where, status, rows)
    BY <1>2 DEF Fetch, FetchCutShort, WriteRefused, WriteError, TxError, Commit,
       CommitUnknown, Crash, Abandon
  <2>2. Fresh(p) /\ \A q \in Pods \ {p} : Same(q)
    BY <2>1 DEF InHand
  <2>3. QED
    BY <1>1, <2>2
<1>3. ASSUME NEW p \in Pods, WriteOk(p) \/ Delete(p) \/ Stop(p) \/ Restart(p)
      PROVE  RefusedUntouched'
  <2>1. Past(p) /\ \A q \in Pods \ {p} : Same(q)
    BY <1>3 DEF WriteOk, Delete, Stop, Restart
  <2>2. QED
    BY <1>1, <2>1
<1>4. ASSUME NEW p \in Pods, WriteRetry(p) PROVE RefusedUntouched'
  <2>1. Sound(p) /\ \A q \in Pods \ {p} : Same(q)
    BY <1>4 DEF WriteRetry, Sendable
  <2>2. QED
    BY <1>1, <2>1
<1>5. ASSUME \/ \E e \in Events : Insert(e) \/ FallDue(e)
             \/ \E p \in Pods : FetchNothing(p) \/ SessionLost(p) \/ Cancel(p)
             \/ Reap \/ UNCHANGED vars
      PROVE  RefusedUntouched'
  <2>1. UNCHANGED <<pc, events, unacked>>
    BY <1>5 DEF Insert, FallDue, FetchNothing, SessionLost, Cancel, Reap, vars
  <2>2. QED
    BY <1>1, <2>1
<1>6. QED
  BY <1>2, <1>3, <1>4, <1>5 DEF Next, Work, Fail

\* A row is sent and deleted only in a batch that Kafka does not refuse.
LEMMA RefusedStaysStep ==
  ASSUME BatchInv, RefusedStays, TypeOK', [Next]_vars
  PROVE  RefusedStays'
<1> USE DEF BatchInv, TypeOK, RefusedStays, dbVars, batchVars
<1>1. ASSUME NEW p \in Pods, NEW S \in SUBSET unacked[p], topic' = Store(S),
             S = {} \/ events[p] \cap Oversized = {}
      PROVE  \A e \in Oversized : topic'[e] = 0
  BY <1>1 DEF Store, BatchWasWritten
<1>2. ASSUME NEW e \in Events, Insert(e) PROVE RefusedStays'
  BY <1>2 DEF Insert
<1>3. ASSUME NEW p \in Pods, WriteOk(p) \/ WriteRetry(p) PROVE RefusedStays'
  <2>1. /\ events[p] \cap Oversized = {} /\ events' = events /\ row' = row
        /\ \A q \in Pods \ {p} : pc'[q] = pc[q]
    BY <1>3 DEF WriteOk, WriteRetry, Sendable
  <2>2. \E S \in SUBSET unacked[p] : topic' = Store(S)
    BY <1>3 DEF WriteOk, WriteRetry
  <2>3. QED
    BY <1>1, <2>1, <2>2
<1>4. ASSUME NEW p \in Pods, WriteError(p) \/ Crash(p) PROVE RefusedStays'
  <2>1. /\ pc' = [pc EXCEPT ![p] = IF WriteError(p) THEN "idle" ELSE "down"]
        /\ events' = [events EXCEPT ![p] = {}] /\ row' = row
    BY <1>4 DEF WriteError, Crash, Abandon, InHand
  <2>2. PICK S \in SUBSET unacked[p] :
          topic' = Store(S) /\ (S = {} \/ events[p] \cap Oversized = {})
    BY <1>4 DEF WriteError, Crash, Sendable
  <2>3. \A e \in Oversized : topic'[e] = 0
    BY <1>1, <2>2
  <2>4. QED
    BY <2>1, <2>3
<1>5. ASSUME NEW p \in Pods, Commit(p) \/ CommitUnknown(p) PROVE RefusedStays'
  <2>1. /\ pc[p] = "committing" /\ row' = Committed(p) /\ topic' = topic
        /\ InHand(p, "idle", "none", {})
    BY <1>5 DEF Commit, CommitUnknown
  <2>2. ASSUME NEW e \in Oversized PROVE row'[e] = row[e]
    <3>1. e \in Events /\ e \notin events[p]
      BY <2>1, <2>2
    <3>2. e \notin Held(p)
      BY <3>1 DEF Held, LocksCoverBatch
    <3>3. QED
      BY <2>1, <3>1, <3>2 DEF Committed
  <2>3. QED
    BY <2>1, <2>2 DEF InHand
<1>6. ASSUME NEW p \in Pods,
             Fetch(p) \/ FetchCutShort(p) \/ WriteRefused(p) \/ TxError(p)
      PROVE  RefusedStays'
  <2>1. PICK where, status, rows :
          InHand(p, where, status, rows) /\ where \in {"idle", "sending"}
    BY <1>6 DEF Fetch, FetchCutShort, WriteRefused, TxError, Abandon
  <2>2. topic' = topic /\ row' = row
    BY <1>6 DEF Fetch, FetchCutShort, WriteRefused, TxError
  <2>3. QED
    BY <2>1, <2>2 DEF InHand
<1>7. ASSUME NEW p \in Pods, Delete(p) \/ Stop(p) \/ Restart(p) PROVE RefusedStays'
  BY <1>7 DEF Delete, Stop, Restart
<1>8. ASSUME \/ \E e \in Events : FallDue(e)
             \/ \E p \in Pods : FetchNothing(p) \/ SessionLost(p) \/ Cancel(p)
             \/ Reap \/ UNCHANGED vars
      PROVE  RefusedStays'
  <2>1. UNCHANGED <<pc, events, topic, row>>
    BY <1>8 DEF FallDue, FetchNothing, SessionLost, Cancel, Reap, vars
  <2>2. QED
    BY <2>1
<1>9. QED
  BY <1>2, <1>3, <1>4, <1>5, <1>6, <1>7, <1>8 DEF Next, Work, Fail

-----------------------------------------------------------------------------
(***************************************************************************)
(* Copies and faults                                                       *)
(***************************************************************************)

\* How the number of pods in a set follows its changes.
LEMMA PodCounts ==
  ASSUME NEW S \in SUBSET Pods, NEW T \in SUBSET Pods
  PROVE  /\ Cardinality(S) \in Nat /\ Cardinality(T) \in Nat
         /\ T \subseteq S => Cardinality(T) <= Cardinality(S)
         /\ \A p \in Pods : T \subseteq S \cup {p} => Cardinality(T) <= Cardinality(S) + 1
         /\ \A p \in S : T \subseteq S \ {p} => Cardinality(T) + 1 <= Cardinality(S)
<1>1. IsFiniteSet(S) /\ IsFiniteSet(T)
  BY PodsAreFinite, FS_Subset
<1>2. Cardinality(S) \in Nat /\ Cardinality(T) \in Nat
  BY <1>1, FS_CardinalityType
<1>3. T \subseteq S => Cardinality(T) <= Cardinality(S)
  BY <1>1, FS_Subset
<1>4. ASSUME NEW p \in Pods, T \subseteq S \cup {p} PROVE Cardinality(T) <= Cardinality(S) + 1
  <2>1. CASE p \in S
    <3>1. S \cup {p} = S
      BY <2>1
    <3>2. QED
      BY <1>2, <1>3, <1>4, <3>1
  <2>2. CASE p \notin S
    <3>1. IsFiniteSet(S \cup {p}) /\ Cardinality(S \cup {p}) = Cardinality(S) + 1
      BY <1>1, <2>2, FS_AddElement
    <3>2. Cardinality(T) <= Cardinality(S \cup {p})
      BY <1>4, <3>1, FS_Subset
    <3>3. QED
      BY <1>2, <3>1, <3>2
  <2>3. QED
    BY <2>1, <2>2
<1>5. ASSUME NEW p \in S, T \subseteq S \ {p} PROVE Cardinality(T) + 1 <= Cardinality(S)
  <2>1. IsFiniteSet(S \ {p}) /\ Cardinality(S \ {p}) = Cardinality(S) - 1
    BY <1>1, FS_RemoveElement
  <2>2. Cardinality(T) <= Cardinality(S \ {p})
    BY <1>5, <2>1, FS_Subset
  <2>3. QED
    BY <1>2, <2>1, <2>2
<1>6. QED
  BY <1>2, <1>3, <1>4, <1>5

\* The deferred rollback drops the batch and lets its rows wait again.
LEMMA AbandonLeaves ==
  ASSUME RelayInv, NEW p \in Pods, Abandon(p), row' = row, cancelled' = cancelled,
         NEW e \in Events
  PROVE  /\ Owing(e)' = Owing(e) \ {p} /\ Cut(e)' = Cut(e) \ {p}
         /\ Waiting(e)' <= Waiting(e) + 1
         /\ ~(tx[p] = "open" /\ e \in events[p]) => Waiting(e)' = Waiting(e)
<1> USE DEF RelayInv, TypeOK
<1>1. /\ unacked' = [unacked EXCEPT ![p] = {}] /\ events' = [events EXCEPT ![p] = {}]
  BY DEF Abandon, InHand
<1>2. Owing(e)' = Owing(e) \ {p} /\ Cut(e)' = Cut(e) \ {p}
  BY <1>1 DEF Owing, Cut
<1>3. Waiting(e) \in {0, 1} /\ Waiting(e)' \in {0, 1}
  BY DEF Waiting
<1>4. ASSUME ~(tx[p] = "open" /\ e \in events[p]) PROVE Waiting(e)' = Waiting(e)
  <2>1. lock'[e] = lock[e]
    BY <1>4 DEF Abandon, LockTo, Held, LocksCoverBatch
  <2>2. QED
    BY <2>1 DEF Waiting
<1>5. QED
  BY <1>2, <1>3, <1>4

\* Each copy beyond the first is paid for by a fault.
LEMMA CopiesStep ==
  ASSUME RelayInv, TypeOK', [Next]_vars
  PROVE  CopiesAreOwed'
<1> SUFFICES ASSUME NEW e \in Events
             PROVE  topic'[e] + Cardinality(Owing(e)') + Cardinality(Cut(e)') + Waiting(e)'
                      <= 1 + faults'
  BY DEF CopiesAreOwed, Owing, Cut, Waiting
<1> DEFINE O == Owing(e)
           C == Cut(e)
           W == Waiting(e)
           Kept == topic'[e] + Cardinality(O') + Cardinality(C') + W' <= 1 + faults'
<1>1. /\ O \subseteq Pods /\ C \subseteq Pods /\ O' \subseteq Pods /\ C' \subseteq Pods
      /\ W \in {0, 1} /\ W' \in {0, 1}
      /\ topic[e] \in Nat /\ topic'[e] \in Nat /\ faults \in Nat /\ faults' \in Nat
      /\ topic[e] + Cardinality(O) + Cardinality(C) + W <= 1 + faults
  BY DEF Owing, Cut, Waiting, RelayInv, TypeOK, CopiesAreOwed
<1>2. /\ Cardinality(O) \in Nat /\ Cardinality(O') \in Nat
      /\ Cardinality(C) \in Nat /\ Cardinality(C') \in Nat
  BY <1>1, PodCounts
<1> HIDE DEF O, C, W
<1>3. ASSUME topic'[e] = topic[e], O' \subseteq O, C' \subseteq C, W' <= W, faults' >= faults
      PROVE  Kept
  <2>1. Cardinality(O') <= Cardinality(O) /\ Cardinality(C') <= Cardinality(C)
    BY <1>1, <1>3, PodCounts
  <2>2. QED
    BY <1>1, <1>2, <1>3, <2>1
<1> USE DEF RelayInv, TypeOK, dbVars, batchVars
<1>4. ASSUME \E d \in Events : Insert(d) \/ FallDue(d) PROVE Kept
  BY <1>3, <1>1, <1>4 DEF Insert, FallDue, O, C, W, Owing, Cut, Waiting
<1>5. ASSUME NEW p \in Pods, Fetch(p) PROVE Kept
  <2>1. topic'[e] = topic[e] /\ faults' = faults /\ C' \subseteq C
    BY <1>5 DEF Fetch, InHand, C, Cut
  <2>2. CASE e \in Oldest(Eligible)
    <3>1. W = 1 /\ W' = 0
      BY <1>5, <2>2, OldestEligible DEF Fetch, LockTo, W, Waiting
    <3>2. O' \subseteq O \cup {p}
      BY <1>5 DEF Fetch, InHand, O, Owing
    <3>3. Cardinality(O') <= Cardinality(O) + 1 /\ Cardinality(C') <= Cardinality(C)
      BY <1>1, <2>1, <3>2, PodCounts
    <3>4. QED
      BY <1>1, <1>2, <2>1, <3>1, <3>3
  <2>3. CASE e \notin Oldest(Eligible)
    <3>1. W' = W
      BY <1>5, <2>3 DEF Fetch, LockTo, W, Waiting
    <3>2. O' \subseteq O
      BY <1>5, <2>3 DEF Fetch, InHand, O, Owing
    <3>3. QED
      BY <1>1, <1>3, <2>1, <3>1, <3>2
  <2>4. QED
    BY <2>2, <2>3
<1>6. ASSUME NEW p \in Pods, FetchCutShort(p) PROVE Kept
  <2>1. topic'[e] = topic[e] /\ faults' = faults + 1 /\ C' \subseteq C /\ O' \subseteq O \cup {p}
    BY <1>6 DEF FetchCutShort, InHand, Fault, C, Cut, O, Owing
  <2>2. W' = W
    BY <1>6, OldestEligible DEF FetchCutShort, LockTo, W, Waiting
  <2>3. Cardinality(O') <= Cardinality(O) + 1 /\ Cardinality(C') <= Cardinality(C)
    BY <1>1, <2>1, PodCounts
  <2>4. QED
    BY <1>1, <1>2, <2>1, <2>2, <2>3
<1>7. ASSUME NEW p \in Pods, WriteRefused(p) PROVE Kept
  <2>1. /\ topic'[e] = topic[e] /\ faults' = faults /\ O' = O \ {p} /\ C' = C \ {p}
        /\ W' <= W + 1 /\ (e \notin events[p] => W' = W)
    BY <1>7, AbandonLeaves DEF WriteRefused, O, C, W
  <2>2. CASE e \in events[p]
    <3>1. p \in O
      BY <1>7, <2>2 DEF WriteRefused, RefusedUntouched, O, Owing
    <3>2. Cardinality(O') + 1 <= Cardinality(O) /\ Cardinality(C') <= Cardinality(C)
      BY <1>1, <2>1, <3>1, PodCounts
    <3>3. QED
      BY <1>1, <1>2, <2>1, <3>2
  <2>3. CASE e \notin events[p]
    BY <1>1, <1>3, <2>1, <2>3
  <2>4. QED
    BY <2>2, <2>3
<1>8. ASSUME NEW p \in Pods, WriteOk(p) PROVE Kept
  <2>1. C' = C /\ W' = W /\ faults' = faults /\ O' = O \ {p}
    BY <1>8 DEF WriteOk, C, Cut, W, Waiting, O, Owing
  <2>2. CASE e \in unacked[p]
    <3>1. p \in O /\ topic'[e] = topic[e] + 1
      BY <1>8, <2>2 DEF WriteOk, Store, O, Owing
    <3>2. Cardinality(O') + 1 <= Cardinality(O) /\ Cardinality(C') <= Cardinality(C)
      BY <1>1, <2>1, <3>1, PodCounts
    <3>3. QED
      BY <1>1, <1>2, <2>1, <3>1, <3>2
  <2>3. CASE e \notin unacked[p]
    <3>1. topic'[e] = topic[e]
      BY <1>8, <2>3 DEF WriteOk, Store
    <3>2. QED
      BY <1>1, <1>3, <2>1, <3>1
  <2>4. QED
    BY <2>2, <2>3
<1>9. ASSUME NEW p \in Pods, WriteRetry(p) PROVE Kept
  <2>1. /\ C' = C /\ W' = W /\ O' \subseteq O /\ faults' = faults + 1
        /\ topic'[e] <= topic[e] + 1
    BY <1>9 DEF WriteRetry, Fault, Store, C, Cut, W, Waiting, O, Owing
  <2>2. Cardinality(O') <= Cardinality(O) /\ Cardinality(C') <= Cardinality(C)
    BY <1>1, <2>1, PodCounts
  <2>3. QED
    BY <1>1, <1>2, <2>1, <2>2
<1>10. ASSUME NEW p \in Pods, WriteError(p) PROVE Kept
  <2>1. /\ O' = O \ {p} /\ C' = C \ {p} /\ W' <= W + 1
        /\ e \notin events[p] => W' = W
    BY <1>10, AbandonLeaves DEF WriteError, O, C, W
  <2>2. faults' >= faults /\ (faults' = faults => cancelled[p])
    BY <1>10 DEF WriteError, Fault
  <2>3. /\ e \in unacked[p] => topic'[e] <= topic[e] + 1
        /\ e \notin unacked[p] => topic'[e] = topic[e]
        /\ unacked[p] \subseteq events[p]
    BY <1>1, <1>10 DEF WriteError, Store, BatchWasWritten
  <2>4. CASE e \notin events[p]
    BY <1>1, <1>3, <2>1, <2>2, <2>3, <2>4
  <2>5. CASE e \in events[p]
    <3>1. Cardinality(O') <= Cardinality(O) /\ Cardinality(C') <= Cardinality(C)
      BY <1>1, <2>1, PodCounts
    <3>2. topic'[e] + Cardinality(O') <= topic[e] + Cardinality(O)
      <4>1. CASE e \in unacked[p]
        <5>1. p \in O
          BY <4>1 DEF O, Owing
        <5>2. Cardinality(O') + 1 <= Cardinality(O)
          BY <1>1, <2>1, <5>1, PodCounts
        <5>3. QED
          BY <1>1, <1>2, <2>3, <4>1, <5>2
      <4>2. CASE e \notin unacked[p]
        BY <1>1, <1>2, <2>3, <3>1, <4>2
      <4>3. QED
        BY <4>1, <4>2
    <3>3. CASE cancelled[p]
      <4>1. p \in C
        BY <2>5, <3>3 DEF C, Cut
      <4>2. Cardinality(C') + 1 <= Cardinality(C)
        BY <1>1, <2>1, <4>1, PodCounts
      <4>3. QED
        BY <1>1, <1>2, <2>1, <2>2, <3>2, <4>2
    <3>4. CASE ~cancelled[p]
      <4>1. faults' >= faults + 1
        BY <1>1, <2>2, <3>4
      <4>2. QED
        BY <1>1, <1>2, <2>1, <3>1, <3>2, <4>1
    <3>5. QED
      BY <3>3, <3>4
  <2>6. QED
    BY <2>4, <2>5
<1>11. ASSUME NEW p \in Pods, Delete(p) \/ Stop(p) \/ Restart(p) PROVE Kept
  <2>1. topic' = topic /\ O' = O /\ C' \subseteq C /\ W' = W /\ faults' = faults
    BY <1>11 DEF Delete, Stop, Restart, O, Owing, C, Cut, W, Waiting
  <2>2. QED
    BY <1>1, <1>3, <2>1
<1>12. ASSUME NEW p \in Pods, TxError(p) PROVE Kept
  <2>1. /\ topic'[e] = topic[e] /\ faults' = faults /\ O' = O \ {p} /\ C' = C \ {p}
        /\ W' <= W + 1 /\ (~(tx[p] = "open" /\ e \in events[p]) => W' = W)
    BY <1>12, AbandonLeaves DEF TxError, O, C, W
  <2>2. CASE tx[p] = "open" /\ e \in events[p]
    <3>1. p \in C
      BY <1>12, <2>2 DEF TxError, Usable, C, Cut
    <3>2. Cardinality(O') <= Cardinality(O) /\ Cardinality(C') + 1 <= Cardinality(C)
      BY <1>1, <2>1, <3>1, PodCounts
    <3>3. QED
      BY <1>1, <1>2, <2>1, <3>2
  <2>3. CASE ~(tx[p] = "open" /\ e \in events[p])
    BY <1>1, <1>3, <2>1, <2>3
  <2>4. QED
    BY <2>2, <2>3
<1>13. ASSUME NEW p \in Pods, Commit(p) \/ CommitUnknown(p) PROVE Kept
  <2>1. topic'[e] = topic[e] /\ O' \subseteq O /\ C' \subseteq C /\ faults' >= faults
    BY <1>13 DEF Commit, CommitUnknown, Fault, InHand, O, Owing, C, Cut
  <2>2. W' <= W
    <3>1. CASE e \in Held(p)
      <4>1. e \in events[p]
        BY <3>1 DEF Held, LocksCoverBatch
      <4>2. row'[e] = "deleted"
        BY <1>13, <3>1, <4>1 DEF Commit, CommitUnknown, Committed
      <4>3. QED
        BY <1>1, <4>2 DEF W, Waiting
    <3>2. CASE e \notin Held(p)
      <4>1. row'[e] = row[e] /\ lock'[e] = lock[e]
        BY <1>13, <3>2 DEF Commit, CommitUnknown, Committed, LockTo
      <4>2. W' = W
        BY <4>1 DEF W, Waiting
      <4>3. QED
        BY <1>1, <4>2
    <3>3. QED
      BY <3>1, <3>2
  <2>3. QED
    BY <1>3, <2>1, <2>2
<1>14. ASSUME NEW p \in Pods, SessionLost(p) PROVE Kept
  <2>1. topic' = topic /\ O' = O /\ C' = C /\ faults' = faults + 1
    BY <1>14 DEF SessionLost, Fault, O, Owing, C, Cut
  <2>2. QED
    BY <1>1, <1>2, <2>1
<1>15. ASSUME Reap PROVE Kept
  <2>1. topic'[e] = topic[e] /\ O' \subseteq O /\ C' \subseteq C /\ faults' >= faults
    BY <1>1, <1>15 DEF Reap, O, Owing, C, Cut
  <2>2. W' <= W
    BY <1>15 DEF Reap, LockTo, Held, W, Waiting
  <2>3. QED
    BY <1>1, <1>3, <2>1, <2>2
<1>16. ASSUME NEW p \in Pods, Crash(p) PROVE Kept
  <2>1. C' \subseteq C /\ O' = O \ {p} /\ faults' = faults + 1
    BY <1>16 DEF Crash, InHand, Fault, C, Cut, O, Owing
  <2>2. /\ e \in unacked[p] => topic'[e] <= topic[e] + 1
        /\ e \notin unacked[p] => topic'[e] = topic[e]
    BY <1>1, <1>16 DEF Crash, Store
  <2>3. topic'[e] + Cardinality(O') <= topic[e] + Cardinality(O)
    <3>1. CASE e \in unacked[p]
      <4>1. p \in O
        BY <3>1 DEF O, Owing
      <4>2. Cardinality(O') + 1 <= Cardinality(O)
        BY <1>1, <2>1, <4>1, PodCounts
      <4>3. QED
        BY <1>1, <1>2, <2>2, <3>1, <4>2
    <3>2. CASE e \notin unacked[p]
      <4>1. Cardinality(O') <= Cardinality(O)
        BY <1>1, <2>1, PodCounts
      <4>2. QED
        BY <1>1, <1>2, <2>2, <3>2, <4>1
    <3>3. QED
      BY <3>1, <3>2
  <2>4. Cardinality(C') <= Cardinality(C)
    BY <1>1, <2>1, PodCounts
  <2>5. QED
    BY <1>1, <1>2, <2>1, <2>3, <2>4
<1>17. ASSUME NEW p \in Pods, Cancel(p) PROVE Kept
  <2>1. topic' = topic /\ O' = O /\ W' = W /\ C' \subseteq C \cup {p} /\ faults' = faults + 1
    BY <1>17 DEF Cancel, Fault, O, Owing, W, Waiting, C, Cut
  <2>2. Cardinality(C') <= Cardinality(C) + 1 /\ Cardinality(O') <= Cardinality(O)
    BY <1>1, <2>1, PodCounts
  <2>3. QED
    BY <1>1, <1>2, <2>1, <2>2
<1>18. ASSUME (\E p \in Pods : FetchNothing(p)) \/ UNCHANGED vars PROVE Kept
  <2>1. UNCHANGED <<row, lock, topic, events, unacked, cancelled, faults>>
    BY <1>18 DEF FetchNothing, vars
  <2>2. topic'[e] = topic[e] /\ O' \subseteq O /\ C' \subseteq C /\ W' <= W /\ faults' >= faults
    BY <1>1, <2>1 DEF O, Owing, C, Cut, W, Waiting
  <2>3. QED
    BY <1>3, <2>2
<1>19. Kept
  BY <1>4, <1>5, <1>6, <1>7, <1>8, <1>9, <1>10, <1>11, <1>12, <1>13, <1>14, <1>15,
     <1>16, <1>17, <1>18 DEF Next, Work, Fail
<1>20. QED
  BY <1>19 DEF O, C, W

LEMMA RelayInvInit == Init => RelayInv
<1> SUFFICES ASSUME Init PROVE RelayInv
  OBVIOUS
<1>1. ASSUME NEW e \in Events
      PROVE  topic[e] = 0 /\ Owing(e) = {} /\ Cut(e) = {} /\ Waiting(e) \in {0, 1} /\ faults = 0
  BY DEF Init, Owing, Cut, Waiting
<1>2. Cardinality({}) = 0
  BY FS_EmptySet
<1>3. CopiesAreOwed
  <2> SUFFICES ASSUME NEW e \in Events
               PROVE  topic[e] + Cardinality(Owing(e)) + Cardinality(Cut(e)) + Waiting(e)
                        <= 1 + faults
    BY DEF CopiesAreOwed
  <2>1. Cardinality(Owing(e)) = 0 /\ Cardinality(Cut(e)) = 0
    BY <1>1, <1>2
  <2>2. QED
    BY <1>1, <2>1
<1>4. RefusedUntouched /\ RefusedStays
  BY DEF Init, RefusedUntouched, RefusedStays
<1>5. QED
  BY <1>3, <1>4, BatchInvInit DEF BatchInv, RelayInv

LEMMA RelayInvStep == RelayInv /\ TypeOK' /\ [Next]_vars => RelayInv'
<1> SUFFICES ASSUME RelayInv, TypeOK', [Next]_vars PROVE RelayInv'
  OBVIOUS
<1>1. BatchInv'
  BY BatchInvStep DEF BatchInv, RelayInv
<1>2. RefusedUntouched' /\ RefusedStays'
  BY RefusedStep, RefusedStaysStep DEF BatchInv, RelayInv
<1>3. CopiesAreOwed'
  BY CopiesStep
<1>4. QED
  BY <1>1, <1>2, <1>3 DEF BatchInv, RelayInv

THEOREM RelayInvCorrect == Spec => []RelayInv
BY RelayInvInit, RelayInvStep, TypeCorrect, PTL DEF Spec

-----------------------------------------------------------------------------
(***************************************************************************)
(* What follows from it                                                    *)
(***************************************************************************)

\* Whatever fails and however many pods there are, an event that has left the
\* outbox is in its topic.
THEOREM EventsAreNotLost == Spec => []NoEventLost
BY RelayInvCorrect, PTL DEF RelayInv

\* No committed row ever has the status 'processing'.
THEOREM NothingIsStranded == Spec => []NoStranded
BY RelayInvCorrect, PTL DEF RelayInv

\* OutboxRelayedTotal counts an event at most once, and only a removed one.
THEOREM CounterIsHonest == Spec => []CountedOnce
BY RelayInvCorrect, PTL DEF RelayInv

\* A further copy of an event in its topic has cost a failure or a shutdown.
THEOREM CopiesArePaidFor == Spec => []DuplicatesOnlyFromFaults
<1>1. RelayInv => DuplicatesOnlyFromFaults
  <2> SUFFICES ASSUME RelayInv, NEW e \in Events PROVE topic[e] <= 1 + faults
    BY DEF DuplicatesOnlyFromFaults
  <2>1. Owing(e) \subseteq Pods /\ Cut(e) \subseteq Pods /\ Waiting(e) \in {0, 1}
    BY DEF Owing, Cut, Waiting
  <2>2. Cardinality(Owing(e)) \in Nat /\ Cardinality(Cut(e)) \in Nat
    BY <2>1, PodCounts
  <2>3. QED
    BY <2>1, <2>2 DEF RelayInv, TypeOK, CopiesAreOwed
<1>2. QED
  BY <1>1, RelayInvCorrect, PTL

\* Row locks keep live batches of different pods apart.
THEOREM BatchesAreDisjoint == Spec => []OneOwner
<1>1. RelayInv => OneOwner
  BY DEF RelayInv, LocksCoverBatch, OneOwner
<1>2. QED
  BY <1>1, RelayInvCorrect, PTL

\* Every way out of processBatch gives its locks back: a pod that holds one is
\* working on a batch with the row in it.
THEOREM NoLockIsForgotten ==
  Spec => [](\A p \in Pods : \A e \in Events :
               lock[e] = p => pc[p] \notin {"idle", "down"} /\ e \in events[p])
<1>1. RelayInv => \A p \in Pods : \A e \in Events :
                    lock[e] = p => pc[p] \notin {"idle", "down"} /\ e \in events[p]
  BY DEF RelayInv, LocksCoverBatch, NoTxBetweenBatches
<1>2. QED
  BY <1>1, RelayInvCorrect, PTL

\* Only the pod that owns a row deletes it, and only after Kafka has it.
THEOREM OnlyOwnersDelete == Spec => DeleteOnlyOwnBatch
<1>1. RelayInv /\ [Next]_vars => [DeletedByItsOwner]_vars
  <2> SUFFICES ASSUME RelayInv, Next, NEW e \in Events,
                      row[e] = "pending", row'[e] = "deleted"
               PROVE  \E p \in Pods : lock[e] = p /\ e \in events[p] \ unacked[p]
    BY DEF DeletedByItsOwner
  <2> USE DEF RelayInv, TypeOK, AckedIsStored, LocksCoverBatch
  <2>1. \E p \in Pods : pc[p] = "committing" /\ row' = Committed(p)
    BY DEF Next, Work, Fail, dbVars, batchVars, vars, Insert, FallDue, Fetch,
       FetchNothing, FetchCutShort, WriteRefused, WriteOk, WriteRetry,
       WriteError, Delete, TxError, Commit, CommitUnknown, SessionLost, Reap,
       Crash, Cancel, Stop, Restart
  <2>2. PICK p \in Pods : pc[p] = "committing" /\ row' = Committed(p)
    BY <2>1
  <2>3. e \in Held(p) /\ e \in events[p]
    BY <2>2 DEF Committed, Held
  <2>4. QED
    BY <2>2, <2>3 DEF Held
<1>2. QED
  BY <1>1, RelayInvCorrect, PTL DEF Spec, DeleteOnlyOwnBatch

-----------------------------------------------------------------------------
(***************************************************************************)
(* Batches                                                                 *)
(***************************************************************************)

\* ORDER BY created_at LIMIT n: at most n rows, none of them younger than a row
\* that is left, and none left if there are none.
LEMMA OldestIsBounded ==
  ASSUME NEW S \in SUBSET Events
  PROVE  IsFiniteSet(Oldest(S)) /\ Cardinality(Oldest(S)) <= BatchSize
<1> DEFINE Before(e) == {d \in S : d < e}
           rank == [e \in Oldest(S) |-> Cardinality(Before(e))]
<1>0. \A e \in S : e \in Nat
  OBVIOUS
<1>1. ASSUME NEW e \in S PROVE IsFiniteSet(Before(e)) /\ Cardinality(Before(e)) \in Nat
  <2>1. Before(e) \in SUBSET Nat /\ e \in Nat
    BY <1>0
  <2>2. \A d \in Before(e) : d <= e
    BY <1>0
  <2>3. IsFiniteSet(Before(e))
    BY <2>1, <2>2, FS_BoundedSetOfNaturals
  <2>4. QED
    BY <2>3, FS_CardinalityType
<1>2. ASSUME NEW e \in S, NEW f \in S, e < f
      PROVE  Cardinality(Before(e)) < Cardinality(Before(f))
  <2>0. \A d \in S : d < e => d < f
    BY <1>0, <1>2
  <2>1. Before(e) \subseteq Before(f) /\ e \in Before(f) /\ e \notin Before(e)
    <3>1. Before(e) \subseteq Before(f)
      BY <2>0
    <3>2. e \in Before(f)
      BY <1>2
    <3>3. e \notin Before(e)
      BY <1>0
    <3>4. QED
      BY <3>1, <3>2, <3>3
  <2>2. Before(e) # Before(f)
    BY <2>1
  <2>3. Cardinality(Before(e)) <= Cardinality(Before(f))
    BY <1>1, <2>1, FS_Subset
  <2>4. Cardinality(Before(e)) # Cardinality(Before(f))
    BY <1>1, <2>1, <2>2, FS_Subset
  <2>5. QED
    BY <1>1, <2>3, <2>4
<1>3. rank \in [Oldest(S) -> 0 .. BatchSize - 1]
  <2>1. ASSUME NEW e \in Oldest(S) PROVE Cardinality(Before(e)) \in 0 .. BatchSize - 1
    <3>1. e \in S /\ Cardinality(Before(e)) < BatchSize
      BY DEF Oldest
    <3>2. QED
      BY <1>1, <3>1
  <2>2. QED
    BY <2>1
<1>4. ASSUME NEW e \in Oldest(S), NEW f \in Oldest(S), rank[e] = rank[f] PROVE e = f
  <2>1. e \in S /\ f \in S /\ e \in Nat /\ f \in Nat
    BY DEF Oldest
  <2>2. Cardinality(Before(e)) = Cardinality(Before(f))
    BY <1>4
  <2>3. ~(e < f) /\ ~(f < e)
    BY <1>1, <1>2, <2>1, <2>2
  <2>4. QED
    BY <2>1, <2>3
<1>5. rank \in Injection(Oldest(S), 0 .. BatchSize - 1)
  BY <1>3, <1>4, Fun_IsInj
<1>6. IsFiniteSet(0 .. BatchSize - 1) /\ Cardinality(0 .. BatchSize - 1) = BatchSize
  BY FS_Interval
<1>7. QED
  BY <1>5, <1>6, FS_Injection

LEMMA OldestComeFirst ==
  ASSUME NEW S \in SUBSET Events, NEW e \in Oldest(S), NEW d \in S, d < e
  PROVE  d \in Oldest(S)
<1> DEFINE Before(f) == {c \in S : c < f}
<1>0. \A f \in S : f \in Nat
  OBVIOUS
<1>1. e \in S /\ Cardinality(Before(e)) < BatchSize
  BY DEF Oldest
<1>2. Before(e) \in SUBSET Nat /\ e \in Nat /\ \A c \in Before(e) : c <= e
  <2>1. Before(e) \in SUBSET Nat /\ e \in Nat
    BY <1>0, <1>1
  <2>2. \A c \in Before(e) : c <= e
    BY <1>0, <1>1
  <2>3. QED
    BY <2>1, <2>2
<1>3. IsFiniteSet(Before(e))
  BY <1>2, FS_BoundedSetOfNaturals
<1>4. Before(d) \subseteq Before(e)
  <2>1. \A c \in S : c < d => c < e
    BY <1>0, <1>1
  <2>2. QED
    BY <2>1
<1>5. Cardinality(Before(d)) <= Cardinality(Before(e))
  BY <1>3, <1>4, FS_Subset
<1>6. Cardinality(Before(d)) \in Nat /\ Cardinality(Before(e)) \in Nat
  BY <1>3, <1>4, FS_Subset, FS_CardinalityType
<1>7. Cardinality(Before(d)) < BatchSize
  BY <1>1, <1>5, <1>6
<1>8. QED
  BY <1>7 DEF Oldest

LEMMA OldestTakesTheFirst ==
  ASSUME NEW S \in SUBSET Events, NEW e \in S, \A d \in S : e <= d
  PROVE  e \in Oldest(S)
<1>1. \A d \in S : ~(d < e)
  OBVIOUS
<1>2. Cardinality({d \in S : d < e}) = 0
  BY <1>1, FS_EmptySet
<1>3. QED
  BY <1>2 DEF Oldest

BatchWithinLimit ==
  \A p \in Pods : IsFiniteSet(events[p]) /\ Cardinality(events[p]) <= BatchSize

\* What a pod has in hand stays, grows smaller or is fetched anew.
LEMMA BatchChanges ==
  ASSUME TypeOK, [Next]_vars, NEW p \in Pods
  PROVE  events'[p] = events[p] \/ events'[p] \subseteq Oldest(Eligible)
<1> USE DEF TypeOK, dbVars, batchVars
<1>1. ASSUME NEW q \in Pods, NEW where, NEW status, NEW rows,
             InHand(q, where, status, rows), rows \subseteq Oldest(Eligible)
      PROVE  events'[p] = events[p] \/ events'[p] \subseteq Oldest(Eligible)
  BY <1>1 DEF InHand
<1>2. ASSUME NEW q \in Pods,
             \/ WriteRefused(q) \/ WriteError(q) \/ TxError(q) \/ Commit(q)
             \/ CommitUnknown(q) \/ Crash(q)
      PROVE  \E where, status : InHand(q, where, status, {})
  BY <1>2 DEF WriteRefused, WriteError, TxError, Commit, CommitUnknown, Crash, Abandon
<1>3. ASSUME NEW q \in Pods, Fetch(q) \/ FetchCutShort(q)
      PROVE  \E status : \E rows \in SUBSET Oldest(Eligible) : InHand(q, "sending", status, rows)
  BY <1>3 DEF Fetch, FetchCutShort
<1>4. ASSUME \/ \E e \in Events : Insert(e) \/ FallDue(e)
             \/ \E q \in Pods : \/ FetchNothing(q) \/ WriteOk(q) \/ WriteRetry(q) \/ Delete(q)
                               \/ SessionLost(q) \/ Cancel(q) \/ Stop(q) \/ Restart(q)
             \/ Reap \/ UNCHANGED vars
      PROVE  events' = events
  BY <1>4 DEF Insert, FallDue, FetchNothing, WriteOk, WriteRetry, Delete, SessionLost, Cancel,
     Stop, Restart, Reap, vars
<1>5. QED
  BY <1>1, <1>2, <1>3, <1>4 DEF Next, Work, Fail

\* No pod ever has more rows in hand than the LIMIT of the fetch, also when the
\* result set broke off.
THEOREM BatchesAreBounded == Spec => []BatchWithinLimit
<1>1. Init => BatchWithinLimit
  BY FS_EmptySet DEF Init, BatchWithinLimit
<1>2. TypeOK /\ BatchWithinLimit /\ [Next]_vars => BatchWithinLimit'
  <2> SUFFICES ASSUME TypeOK, BatchWithinLimit, [Next]_vars, NEW p \in Pods
               PROVE  IsFiniteSet(events'[p]) /\ Cardinality(events'[p]) <= BatchSize
    BY DEF BatchWithinLimit
  <2>1. CASE events'[p] = events[p]
    BY <2>1 DEF BatchWithinLimit
  <2>2. CASE events'[p] \subseteq Oldest(Eligible)
    <3>1. IsFiniteSet(Oldest(Eligible)) /\ Cardinality(Oldest(Eligible)) <= BatchSize
      BY OldestIsBounded DEF Eligible
    <3>2. IsFiniteSet(events'[p]) /\ Cardinality(events'[p]) <= Cardinality(Oldest(Eligible))
      BY <2>2, <3>1, FS_Subset
    <3>3. Cardinality(Oldest(Eligible)) \in Nat /\ Cardinality(events'[p]) \in Nat
      BY <3>1, <3>2, FS_CardinalityType
    <3>4. QED
      BY <3>1, <3>2, <3>3
  <2>3. QED
    BY <2>1, <2>2, BatchChanges
<1>3. QED
  BY <1>1, <1>2, TypeCorrect, PTL DEF Spec

-----------------------------------------------------------------------------
(***************************************************************************)
(* Rows that Kafka refuses                                                 *)
(***************************************************************************)

\* A row that Kafka refuses stays in the outbox for ever and never reaches its
\* topic.
THEOREM RefusedRowsStay == Spec => []RefusedStays
BY RelayInvCorrect, PTL DEF RelayInv

\* When it is the oldest, it is in every batch that arrives whole, which is then
\* refused; one that is cut short has lost its session and deletes nothing.
THEOREM HeadOfLineBlocks ==
  Spec => [][\A p \in Pods :
               /\ Fetch(p)
               /\ \E e \in Eligible \cap Oversized : \A d \in Eligible : e <= d
               => events'[p] \cap Oversized # {}]_vars
<1>1. TypeOK => [\A p \in Pods :
                   /\ Fetch(p)
                   /\ \E e \in Eligible \cap Oversized : \A d \in Eligible : e <= d
                   => events'[p] \cap Oversized # {}]_vars
  <2> SUFFICES ASSUME TypeOK, NEW p \in Pods, Fetch(p),
                      NEW e \in Eligible \cap Oversized, \A d \in Eligible : e <= d
               PROVE  e \in events'[p]
    OBVIOUS
  <2>1. e \in Oldest(Eligible)
    BY OldestTakesTheFirst DEF Eligible
  <2>2. events' = [events EXCEPT ![p] = Oldest(Eligible)]
    BY DEF Fetch, InHand
  <2>3. QED
    BY <2>1, <2>2 DEF TypeOK
<1>2. QED
  BY <1>1, TypeCorrect, PTL

\* The rows in such a batch do not leave the outbox, whatever any pod does,
\* before the pod that holds them gives them back.
THEOREM RefusedBlocksItsBatch ==
  Spec => [][\A p \in Pods : \A e \in Events :
               lock[e] = p /\ events[p] \cap Oversized # {} => row'[e] = row[e]]_vars
<1>1. RelayInv /\ [Next]_vars =>
        [\A p \in Pods : \A e \in Events :
           lock[e] = p /\ events[p] \cap Oversized # {} => row'[e] = row[e]]_vars
  <2> SUFFICES ASSUME RelayInv, Next, NEW p \in Pods, NEW e \in Events,
                      lock[e] = p, events[p] \cap Oversized # {}
               PROVE  row'[e] = row[e]
    OBVIOUS
  <2> USE DEF RelayInv, TypeOK
  <2>1. row[e] = "pending"
    BY DEF LocksCoverBatch
  <2>2. ASSUME NEW q \in Pods, pc[q] = "committing", row' = Committed(q)
        PROVE  row'[e] = row[e]
    <3>1. q # p
      BY <2>2 DEF RefusedStays
    <3>2. e \notin Held(q)
      BY <3>1 DEF Held
    <3>3. QED
      BY <2>2, <3>2 DEF Committed
  <2>3. ASSUME NEW d \in Events, Insert(d) PROVE row'[e] = row[e]
    BY <2>1, <2>3 DEF Insert
  <2>4. \/ row' = row
        \/ \E d \in Events : Insert(d)
        \/ \E q \in Pods : pc[q] = "committing" /\ row' = Committed(q)
    BY DEF Next, Work, Fail, dbVars, batchVars, vars, FallDue, Fetch, FetchNothing,
       FetchCutShort, WriteRefused, WriteOk, WriteRetry, WriteError, Delete, TxError, Commit,
       CommitUnknown, SessionLost, Reap, Crash, Cancel, Stop, Restart
  <2>5. QED
    BY <2>2, <2>3, <2>4
<1>2. QED
  BY <1>1, RelayInvCorrect, PTL DEF Spec

-----------------------------------------------------------------------------
(***************************************************************************)
(* OutboxRelay implements OutboxDelivery                                   *)
(***************************************************************************)

\* Copies that reach a topic from a pod's batch are deliveries of waiting events
\* or news to nobody.
LEMMA StoreDelivers ==
  ASSUME RelayInv, NEW p \in Pods, NEW S \in SUBSET unacked[p],
         topic' = Store(S), row' = row
  PROVE  \E D \in SUBSET Events : Delivery!Deliver(D)
<1>0. PICK D : D = {e \in S : topic[e] = 0}
  OBVIOUS
<1>1. \A e \in D : e \in Events /\ row[e] = "pending"
  <2> SUFFICES ASSUME NEW e \in D PROVE e \in Events /\ row[e] = "pending"
    OBVIOUS
  <2>1. e \in unacked[p] /\ topic[e] = 0
    BY <1>0
  <2>2. e \in Events /\ row[e] # "unwritten"
    BY <2>1 DEF RelayInv, TypeOK, BatchWasWritten
  <2>3. QED
    BY <2>1, <2>2 DEF RelayInv, TypeOK, RowStatus, NoEventLost, NoStranded
<1>2. S \subseteq Events /\ topic \in [Events -> Nat]
  BY DEF RelayInv, TypeOK
<1>3. \A e \in Events : topic'[e] > 0 <=> (topic[e] > 0 \/ e \in D)
  BY <1>0, <1>2 DEF Store
<1>4. {e \in Events : topic'[e] > 0} = {e \in Events : topic[e] > 0} \cup D
  BY <1>1, <1>3
<1>5. D \subseteq {e \in Events : row[e] = "pending"}
  BY <1>1
<1>6. Delivery!Deliver(D)
  BY <1>4, <1>5 DEF Delivery!Deliver
<1>7. QED
  BY <1>1, <1>6

\* A commit retires the batch.
LEMMA CommitRetires ==
  ASSUME RelayInv, NEW p \in Pods, pc[p] = "committing", tx[p] = "open",
         row' = Committed(p), topic' = topic
  PROVE  \E R \in SUBSET Events : Delivery!Retire(R)
<1>1. events[p] = Held(p)
  BY DEF RelayInv, TypeOK, LocksCoverBatch, Held
<1>2. \A e \in events[p] : e \in Events /\ row[e] = "pending" /\ topic[e] > 0
  <2> SUFFICES ASSUME NEW e \in events[p]
               PROVE  e \in Events /\ row[e] = "pending" /\ topic[e] > 0
    OBVIOUS
  <2>1. e \in Events /\ lock[e] = p
    BY DEF RelayInv, TypeOK, LocksCoverBatch
  <2>2. row[e] = "pending"
    BY <2>1 DEF RelayInv, LocksCoverBatch
  <2>3. topic[e] >= 1
    BY DEF RelayInv, AckedIsStored
  <2>4. QED
    BY <2>1, <2>2, <2>3 DEF RelayInv, TypeOK
<1>3. \A e \in Events : row'[e] = IF e \in events[p] THEN "deleted" ELSE row[e]
  BY <1>1 DEF Committed
<1>4. {e \in Events : row'[e] = "pending"} = {e \in Events : row[e] = "pending"} \ events[p]
  BY <1>3
<1>5. {e \in Events : row'[e] = "deleted"} = {e \in Events : row[e] = "deleted"} \cup events[p]
  BY <1>2, <1>3
<1>6. events[p] \subseteq {e \in Events : row[e] = "pending"} \cap {e \in Events : topic[e] > 0}
  BY <1>2
<1>7. PICK R : R = events[p]
  OBVIOUS
<1>8. {e \in Events : topic'[e] > 0} = {e \in Events : topic[e] > 0}
  OBVIOUS
<1>9. Delivery!Retire(R)
  BY <1>4, <1>5, <1>6, <1>7, <1>8 DEF Delivery!Retire
<1>10. QED
  BY <1>2, <1>7, <1>9

\* Every behaviour of the relay is one of a delivery service that keeps what it
\* was given until it has delivered it.
THEOREM RelayImplementsDelivery == Spec => ImplementsDelivery
<1>1. Init => Delivery!DInit
  BY DEF Init, Delivery!DInit
<1>2. RelayInv /\ [Next]_vars => [Delivery!DNext]_(Delivery!dvars)
  <2> SUFFICES ASSUME RelayInv, [Next]_vars
               PROVE  Delivery!DNext \/ UNCHANGED <<row, topic>>
    BY DEF Delivery!dvars
  <2> USE DEF Delivery!DNext, dbVars, batchVars
  <2>1. ASSUME NEW e \in Events, Insert(e) PROVE Delivery!DNext
    <3>1. Delivery!Submit(e)
      BY <2>1 DEF Insert, Delivery!Submit, RelayInv, TypeOK
    <3>2. QED
      BY <3>1
  <2>2. ASSUME NEW p \in Pods,
               WriteOk(p) \/ WriteRetry(p) \/ WriteError(p) \/ Crash(p)
        PROVE Delivery!DNext
    BY <2>2, StoreDelivers DEF WriteOk, WriteRetry, WriteError, Crash, RelayInv, TypeOK
  <2>3. ASSUME NEW p \in Pods, Commit(p) \/ CommitUnknown(p)
        PROVE Delivery!DNext
    BY <2>3, CommitRetires DEF Commit, CommitUnknown, Usable
  <2>4. ASSUME NEW p \in Pods,
               \/ Fetch(p) \/ FetchNothing(p) \/ FetchCutShort(p)
               \/ WriteRefused(p) \/ Delete(p) \/ TxError(p) \/ SessionLost(p)
               \/ Cancel(p) \/ Stop(p) \/ Restart(p)
        PROVE UNCHANGED <<row, topic>>
    BY <2>4 DEF Fetch, FetchNothing, FetchCutShort, WriteRefused, Delete,
       TxError, SessionLost, Cancel, Stop, Restart, vars
  <2>5. ASSUME Reap \/ (\E e \in Events : FallDue(e)) \/ UNCHANGED vars
        PROVE UNCHANGED <<row, topic>>
    BY <2>5 DEF Reap, FallDue, vars
  <2>6. QED
    BY <2>1, <2>2, <2>3, <2>4, <2>5 DEF Next, Work, Fail
<1>3. QED
  BY <1>1, <1>2, RelayInvCorrect, PTL DEF Spec, ImplementsDelivery, Delivery!DSpec
=============================================================================
