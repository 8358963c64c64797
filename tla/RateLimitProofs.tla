--------------------------- MODULE RateLimitProofs ---------------------------
(***************************************************************************)
(* The limiter keeps its limit for any number of concurrent requests and   *)
(* any max.                                                                *)
(***************************************************************************)
EXTENDS RateLimit, FiniteSetTheorems, TLAPS

USE LimitAssumption

\* The part of LimitInv that does without counting.
SeenInv == TypeOK /\ SeenDiffers /\ AdmittedBySeen

LEMMA LimitInvInit == Init => LimitInv
<1> SUFFICES ASSUME Init PROVE LimitInv
  OBVIOUS
<1>1. ttl \in BOOLEAN
  BY Zenon DEF Init
<1>2. TypeOK
  BY <1>1 DEF Init, TypeOK, PC
<1>3. SeenDiffers /\ AdmittedBySeen
  BY DEF Init, SeenDiffers, AdmittedBySeen
<1>4. CountIsAccounted
  <2>1. Cardinality(CountedInWindow(1)) = 0
    BY FS_EmptySet DEF Init, CountedInWindow
  <2>2. QED
    BY <2>1 DEF Init, CountIsAccounted
<1>5. TTLOnItsWay
  BY DEF Init, TTLOnItsWay
<1>6. QED
  BY <1>2, <1>3, <1>4, <1>5 DEF LimitInv

\* The next life of the key has counted nobody yet.
LEMMA VanishKeeps ==
  ASSUME SeenInv, Vanish, faults' \in 0 .. MaxFaults,
         UNCHANGED <<pc, seen, countedIn, open>>
  PROVE  SeenInv'
<1> USE DEF SeenInv, Vanish
<1>1. ttl' \in BOOLEAN
  BY Zenon
<1>2. TypeOK'
  BY <1>1 DEF TypeOK
<1>3. SeenDiffers'
  BY DEF SeenDiffers, TypeOK
<1>4. AdmittedBySeen'
  BY DEF AdmittedBySeen
<1>5. QED
  BY <1>2, <1>3, <1>4

LEMMA SeenInvStep == SeenInv /\ [Next]_vars => SeenInv'
<1> SUFFICES ASSUME SeenInv, [Next]_vars PROVE SeenInv'
  OBVIOUS
<1> USE DEF SeenInv, TypeOK, PC, SeenDiffers, AdmittedBySeen, Goto, keyVars
<1>1. ASSUME NEW r \in Requests, Incr(r) PROVE SeenInv'
  BY <1>1 DEF Incr
<1>2. ASSUME NEW r \in Requests, IncrRepeated(r) PROVE SeenInv'
  BY <1>2 DEF IncrRepeated, Fault
<1>3. ASSUME NEW r \in Requests, IncrFailed(r) PROVE SeenInv'
  BY <1>3 DEF IncrFailed, Fault
<1>4. ASSUME NEW r \in Requests, Expire(r) PROVE SeenInv'
  BY <1>4 DEF Expire
<1>5. ASSUME NEW r \in Requests, ExpireFailed(r) PROVE SeenInv'
  BY <1>5 DEF ExpireFailed, Fault
<1>6. ASSUME NEW r \in Requests, Check(r) PROVE SeenInv'
  BY <1>6 DEF Check
<1>7. CASE KeyExpires
  BY <1>7, VanishKeeps DEF KeyExpires
<1>8. CASE KeyLost
  BY <1>8, VanishKeeps DEF KeyLost, Fault
<1>9. ASSUME NEW r \in Requests, Crash(r) PROVE SeenInv'
  BY <1>9 DEF Crash, Fault
<1>10. CASE UNCHANGED vars
  BY <1>10 DEF vars
<1>11. QED
  BY <1>1, <1>2, <1>3, <1>4, <1>5, <1>6, <1>7, <1>8, <1>9, <1>10
     DEF Next, Serve, Fail

-----------------------------------------------------------------------------
(***************************************************************************)
(* Counting                                                                *)
(***************************************************************************)
LEMMA CountedIsFinite ==
  ASSUME NEW w
  PROVE  IsFiniteSet(CountedInWindow(w)) /\ Cardinality(CountedInWindow(w)) \in Nat
<1>1. CountedInWindow(w) \subseteq Requests
  BY DEF CountedInWindow
<1>2. IsFiniteSet(CountedInWindow(w))
  BY <1>1, FS_Subset
<1>3. QED
  BY <1>2, FS_CardinalityType

\* A request that is counted adds one to its window and nothing to the others.
LEMMA CountedByIncr ==
  ASSUME SeenInv, NEW r \in Requests, Incr(r)
  PROVE  /\ Cardinality(CountedInWindow(window))' = Cardinality(CountedInWindow(window)) + 1
         /\ \A w \in Nat \ {0} :
              w # window => Cardinality(CountedInWindow(w))' = Cardinality(CountedInWindow(w))
<1> USE DEF SeenInv, TypeOK
<1>1. countedIn[r] = 0 /\ window \in Nat \ {0} /\ window' = window
  BY DEF Incr, AdmittedBySeen, SeenDiffers
<1>2. r \notin CountedInWindow(window)
  BY <1>1 DEF CountedInWindow
<1>3. CountedInWindow(window)' = CountedInWindow(window) \cup {r}
  BY <1>1 DEF Incr, CountedInWindow
<1>4. Cardinality(CountedInWindow(window) \cup {r}) = Cardinality(CountedInWindow(window)) + 1
  BY <1>2, CountedIsFinite, FS_AddElement
<1>5. ASSUME NEW w \in Nat \ {0}, w # window
      PROVE  CountedInWindow(w)' = CountedInWindow(w)
  BY <1>1, <1>5 DEF Incr, CountedInWindow
<1>6. QED
  BY <1>3, <1>4, <1>5

LEMMA AccountedStep ==
  ASSUME SeenInv, CountIsAccounted, [Next]_vars
  PROVE  CountIsAccounted'
<1> DEFINE C(w) == Cardinality(CountedInWindow(w))
<1> USE DEF SeenInv, TypeOK, CountIsAccounted, Goto, keyVars
<1>1. \A w : C(w) \in Nat
  BY CountedIsFinite
<1>2. ASSUME NEW r \in Requests, Incr(r) PROVE CountIsAccounted'
  <2>1. window \in Nat \ {0} /\ window' = window
    BY <1>2 DEF Incr, SeenDiffers
  <2>2. C(window)' = C(window) + 1
    BY <1>2, CountedByIncr
  <2>3. ASSUME NEW w \in Nat \ {0} PROVE C(w) <= Cardinality({q \in Requests : countedIn'[q] = w})
    <3>1. Cardinality({q \in Requests : countedIn'[q] = window}) = C(window) + 1
      BY <1>2, <2>1, CountedByIncr DEF CountedInWindow
    <3>2. w # window => Cardinality({q \in Requests : countedIn'[q] = w}) = C(w)
      BY <1>2, CountedByIncr DEF CountedInWindow
    <3>3. C(w) \in Nat /\ C(window) \in Nat
      BY <1>1
    <3>4. QED
      BY <3>1, <3>2, <3>3
  <2>4. count' <= C(window)' + faults'
    BY <1>1, <1>2, <2>2 DEF Incr
  <2>5. ASSUME NEW q \in Requests, countedIn'[q] # 0
        PROVE  seen'[q] <= C(countedIn[q])' + faults'
    <3>1. CASE q = r
      <4>1. countedIn'[q] = window /\ seen'[q] = count'
        BY <1>2, <3>1 DEF Incr
      <4>2. QED
        BY <2>1, <2>4, <4>1
    <3>2. CASE q # r
      <4>1. countedIn'[q] = countedIn[q] /\ seen'[q] = seen[q] /\ faults' = faults
        BY <1>2, <3>2 DEF Incr
      <4>2. C(countedIn[q]) <= C(countedIn[q])'
        <5>1. PICK w \in Nat \ {0} : w = countedIn[q]
          BY <2>5, <4>1
        <5>2. C(countedIn[q]) = C(w)
          BY <5>1
        <5>3. C(countedIn[q])' = Cardinality({s \in Requests : countedIn'[s] = w})
          BY <4>1, <5>1 DEF CountedInWindow
        <5>4. QED
          BY <2>3, <5>2, <5>3
      <4>3. C(countedIn[q]) \in Nat /\ C(countedIn[q])' \in Nat
        <5>1. C(countedIn[q]) \in Nat
          BY <1>1
        <5>2. {s \in Requests : countedIn'[s] = countedIn'[q]} \subseteq Requests
          OBVIOUS
        <5>3. Cardinality({s \in Requests : countedIn'[s] = countedIn'[q]}) \in Nat
          BY <5>2, FS_Subset, FS_CardinalityType
        <5>4. QED
          BY <5>1, <5>3 DEF CountedInWindow
      <4>4. seen[q] <= C(countedIn[q]) + faults
        BY <2>5, <4>1
      <4>5. QED
        BY <4>1, <4>2, <4>3, <4>4
    <3>3. QED
      BY <3>1, <3>2
  <2>6. ASSUME NEW q \in Requests
        PROVE  /\ pc'[q] \in {"first", "counted", "rejected"} => countedIn'[q] # 0
               /\ pc'[q] = "rejected" => seen'[q] > Max
    BY <1>2, <2>1 DEF Incr
  <2>7. QED
    BY <2>4, <2>5, <2>6
<1>3. ASSUME UNCHANGED <<window, countedIn, seen>>, faults' \in Nat, faults <= faults',
             count' <= count \/ (count' = count + 1 /\ faults' = faults + 1),
             \A r \in Requests :
               /\ pc'[r] \in {"first", "counted", "rejected"} => countedIn[r] # 0
               /\ pc'[r] = "rejected" => seen[r] > Max,
             count' \in Nat
      PROVE  CountIsAccounted'
  <2>1. \A w : CountedInWindow(w)' = CountedInWindow(w)
    BY <1>3 DEF CountedInWindow
  <2>2. \A w : C(w)' = C(w)
    BY <2>1
  <2>3. QED
    BY <1>1, <1>3, <2>2
<1>4. ASSUME NEW r \in Requests, IncrRepeated(r) \/ IncrFailed(r) \/ Expire(r)
               \/ ExpireFailed(r) \/ Check(r) \/ Crash(r)
      PROVE  CountIsAccounted'
  BY <1>3, <1>4 DEF IncrRepeated, IncrFailed, Expire, ExpireFailed, Check, Crash, Fault
<1>5. CASE KeyExpires \/ KeyLost
  <2>1. count' = 0 /\ faults' \in Nat /\ faults <= faults'
    BY <1>5 DEF KeyExpires, KeyLost, Vanish, Fault
  <2>2. UNCHANGED <<pc, seen, countedIn>>
    BY <1>5 DEF KeyExpires, KeyLost
  <2>3. \A w : CountedInWindow(w)' = CountedInWindow(w)
    BY <2>2 DEF CountedInWindow
  <2>4. QED
    BY <1>1, <2>1, <2>2, <2>3
<1>6. CASE UNCHANGED vars
  BY <1>3, <1>6 DEF vars
<1>7. QED
  BY <1>2, <1>4, <1>5, <1>6 DEF Next, Serve, Fail

\* As long as nothing fails, the request that saw 1 is still about to send Expire.
LEMMA TTLStep ==
  ASSUME TypeOK, TTLOnItsWay, [Next]_vars
  PROVE  TTLOnItsWay'
<1> USE DEF TypeOK, TTLOnItsWay, Goto, keyVars
<1>1. ASSUME NEW r \in Requests, Incr(r) PROVE TTLOnItsWay'
  BY <1>1 DEF Incr
<1>2. ASSUME NEW r \in Requests, Serve(r) PROVE TTLOnItsWay'
  BY <1>2 DEF Serve, Expire, Check
<1>3. CASE Fault
  BY <1>3 DEF Fault
<1>4. CASE KeyExpires
  BY <1>4 DEF KeyExpires, Vanish
<1>5. CASE UNCHANGED vars
  BY <1>5 DEF vars
<1>6. QED
  BY <1>1, <1>2, <1>3, <1>4, <1>5 DEF Next, Fail, IncrRepeated, IncrFailed, ExpireFailed,
     Crash, KeyLost

THEOREM LimitInvCorrect == Spec => []LimitInv
<1>1. LimitInv /\ [Next]_vars => LimitInv'
  BY SeenInvStep, AccountedStep, TTLStep DEF LimitInv, SeenInv
<1>2. QED
  BY <1>1, LimitInvInit, PTL DEF Spec

\* The counter and what the middleware keeps of it stay natural numbers.
THEOREM TypeCorrect == Spec => []TypeOK
BY LimitInvCorrect, PTL DEF LimitInv

\* No interleaving of requests admits more than max of them on one life of the
\* key: they saw different values, and only max values pass the check.
THEOREM LimitIsKept == Spec => []LimitHolds
<1>1. LimitInv => LimitHolds
  <2> SUFFICES ASSUME LimitInv, NEW w \in 1 .. window
               PROVE  Cardinality({r \in CountedInWindow(w) : pc[r] = "admitted"}) <= Max
    BY DEF LimitHolds
  <2> DEFINE S == {r \in CountedInWindow(w) : pc[r] = "admitted"}
             f == [r \in S |-> seen[r]]
  <2>1. IsFiniteSet(S)
    BY FS_Subset DEF CountedInWindow
  <2>2. IsFiniteSet(1 .. Max) /\ Cardinality(1 .. Max) = Max
    BY FS_Interval
  <2>3. f \in [S -> 1 .. Max]
    BY DEF LimitInv, TypeOK, SeenDiffers, AdmittedBySeen, CountedInWindow
  <2>4. \A q, r \in S : q # r => f[q] # f[r]
    BY DEF LimitInv, SeenDiffers, CountedInWindow
  <2>5. Cardinality(S) \in Nat
    BY <2>1, FS_CardinalityType
  <2> HIDE DEF S, f
  <2>6. ~(Max < Cardinality(S))
    BY <2>1, <2>2, <2>3, <2>4, FS_PigeonHole
  <2>7. QED
    BY <2>5, <2>6 DEF S
<1>2. QED
  BY <1>1, LimitInvCorrect, PTL

\* Nobody is turned away unless max others were counted before, or failures were.
THEOREM RefusalsAreEarned == Spec => []RejectedOnlyOverLimit
<1>1. LimitInv => RejectedOnlyOverLimit
  <2> SUFFICES ASSUME LimitInv, NEW r \in Requests, pc[r] = "rejected"
               PROVE  Cardinality(CountedInWindow(countedIn[r])) + faults > Max
    BY DEF RejectedOnlyOverLimit
  <2>1. Cardinality(CountedInWindow(countedIn[r])) \in Nat
    BY CountedIsFinite
  <2>2. QED
    BY <2>1 DEF LimitInv, CountIsAccounted, TypeOK
<1>2. QED
  BY <1>1, LimitInvCorrect, PTL

\* Without failures a key that has no time to live is about to get one.
THEOREM TTLIsOnItsWay == Spec => []TTLOnItsWay
BY LimitInvCorrect, PTL DEF LimitInv

\* Only Expire and the end of the key touch its time to live; the first is sent by
\* nobody who did not find the key new, the second needs a time to live.
LEMMA LockoutStep ==
  ASSUME TypeOK, LockedOut, [Next]_vars, ~KeyLost
  PROVE  LockedOut' /\ \A r \in Requests :
           pc[r] = "new" /\ pc'[r] = "counted" => seen'[r] > Max
<1> USE DEF TypeOK, LockedOut, Goto, keyVars
<1>1. CASE UNCHANGED vars
  BY <1>1 DEF vars
<1>2. ~KeyExpires
  BY DEF KeyExpires
<1>3. CASE \E q \in Requests : Incr(q) \/ IncrRepeated(q) \/ IncrFailed(q)
  BY <1>3 DEF Incr, IncrRepeated, IncrFailed
<1>4. CASE \E q \in Requests : Serve(q) \/ ExpireFailed(q) \/ Crash(q)
  BY <1>4 DEF Serve, Expire, Check, ExpireFailed, Crash
<1>5. QED
  BY <1>1, <1>2, <1>3, <1>4 DEF Next, Fail

\* A counter that lost its time to live beyond max locks the client out, with any
\* number of further requests.
THEOREM LockoutStays == Spec => LockoutIsFinal
<1>1. TypeOK /\ [Next]_vars =>
        (LockedOut =>
           \/ KeyLost
           \/ LockedOut' /\ \A r \in Requests :
                pc[r] = "new" /\ pc'[r] = "counted" => seen'[r] > Max)
  BY LockoutStep
<1>2. QED
  BY <1>1, TypeCorrect, PTL DEF Spec, LockoutIsFinal
=============================================================================
