----------------------------- MODULE AccessProofs ----------------------------
(***************************************************************************)
(* Proofs about Access for any number of pods, secrets, replicas, keys,    *)
(* tokens and faults, and any time to live.                                *)
(***************************************************************************)
EXTENDS Access, TLAPS

\* Watch keeps the type of idle, adds no more than the ticks it is given, and
\* starts again at what can be read.
LEMMA WatchBounds ==
  ASSUME NEW k \in {0, 1}, idle \in [Entries -> 0 .. Longest], Longest \in Nat, Watch(k)
  PROVE  /\ idle' \in [Entries -> 0 .. Longest]
         /\ \A e \in Entries : idle'[e] <= idle[e] + k
         /\ ReadableIsNotIdle'
BY DEF Watch, ReadableIsNotIdle

\* What happens between Redis's nodes keeps the writes numbered.
LEMMA WrapperKeepsNumbers ==
  ASSUME WrapperAssumption, WrapperTypeOK, WritesAreNumbered,
         \/ \E e \in Entries : HSet(e) \/ HDel(e)
         \/ \E n \in Nodes : Calm(n) \/ Storm(n)
  PROVE  WrapperTypeOK' /\ WritesAreNumbered'
<1>1. ASSUME NEW e \in Entries, HSet(e) PROVE WrapperTypeOK' /\ WritesAreNumbered'
  BY <1>1 DEF HSet, WrapperTypeOK, WritesAreNumbered, Nodes, WrapperAssumption
<1>2. ASSUME NEW e \in Entries, HDel(e) PROVE WrapperTypeOK' /\ WritesAreNumbered'
  <2>1. 0 < written[e] /\ written[e] <= applied[Master]
    BY <1>2 DEF HDel, Held, Has
  <2>2. QED BY <1>2, <2>1 DEF HDel, WrapperTypeOK, WritesAreNumbered, Nodes, WrapperAssumption
<1>3. ASSUME NEW n \in Nodes, Replicate(n) PROVE WrapperTypeOK' /\ WritesAreNumbered'
  BY <1>3 DEF Replicate, WrapperTypeOK, WritesAreNumbered, Nodes, WrapperAssumption
<1>4. ASSUME NEW n \in Nodes, NodeFails(n) \/ NodeRecovers(n)
      PROVE WrapperTypeOK' /\ WritesAreNumbered'
  BY <1>4 DEF NodeFails, NodeRecovers, dataVars, WrapperTypeOK, WritesAreNumbered, Nodes
<1>5. ASSUME NEW n \in Nodes, Failover(n) PROVE WrapperTypeOK' /\ WritesAreNumbered'
  <2>1. WrapperTypeOK' /\ applied'[Master] = applied[n]
    BY <1>5 DEF Failover, WrapperTypeOK, WritesAreNumbered, Nodes
  <2>2. \A m \in Nodes : applied'[m] <= applied'[Master]
    BY <1>5, <2>1 DEF Failover, WrapperTypeOK, Nodes
  <2>3. ASSUME NEW e \in Entries
        PROVE /\ written'[e] <= applied'[Master] /\ removed'[e] <= applied'[Master]
              /\ removed'[e] # 0 => 0 < written'[e] /\ written'[e] < removed'[e]
    BY <1>5, <2>1 DEF Failover, WrapperTypeOK, WritesAreNumbered, Nodes
  <2>4. QED BY <2>1, <2>2, <2>3 DEF WritesAreNumbered
<1>6. QED BY <1>1, <1>2, <1>3, <1>4, <1>5 DEF Calm, Storm

\* Outside of a cluster there is one reader, and it forgets no write.
LEMMA OneReader ==
  ASSUME WrapperTypeOK, mode # "cluster", WrapperAssumption
  PROVE  \E n \in Nodes : Readers = {n}
BY DEF WrapperTypeOK, Modes, Readers, Nodes, WrapperAssumption

LEMMA WrapperKeepsGone ==
  ASSUME WrapperAssumption, WrapperTypeOK, WritesAreNumbered, GoneIsRemoved,
         seen \in SUBSET Entries, gone \in SUBSET Entries, UNCHANGED historyVars,
         \/ \E e \in Entries : HSet(e) \/ HDel(e)
         \/ \E n \in Nodes : Calm(n) \/ Storm(n)
  PROVE  GoneIsRemoved'
<1>. SUFFICES ASSUME mode' # "cluster" PROVE GoneIsRemoved'
  BY DEF GoneIsRemoved
<1>1. mode' = mode /\ Readers' = Readers
  BY DEF HSet, HDel, Calm, Storm, Replicate, NodeRecovers, NodeFails, Failover, Readers
<1>2. PICK r \in Nodes : Readers = {r}
  BY <1>1, OneReader
<1>3. \A e \in seen : Has(r, written[e])
  BY <1>1, <1>2 DEF GoneIsRemoved
<1>4. \A e \in gone : Has(r, removed[e])
  BY <1>1, <1>2 DEF GoneIsRemoved
<1>5. SUFFICES (\A e \in seen : Has(r, written[e])') /\ (\A e \in gone : Has(r, removed[e])')
  BY <1>1, <1>2 DEF GoneIsRemoved, historyVars
<1>6. ASSUME NEW e \in Entries, HSet(e)
      PROVE (\A f \in seen : Has(r, written[f])') /\ (\A f \in gone : Has(r, removed[f])')
  BY <1>3, <1>4, <1>6 DEF HSet, Has, WrapperTypeOK, Nodes
<1>7. ASSUME NEW e \in Entries, HDel(e)
      PROVE (\A f \in seen : Has(r, written[f])') /\ (\A f \in gone : Has(r, removed[f])')
  <2>1. e \notin gone
    BY <1>4, <1>7 DEF HDel, Held, Has, WritesAreNumbered, WrapperTypeOK, Nodes
  <2>2. QED BY <1>3, <1>4, <1>7, <2>1 DEF HDel, Has, WrapperTypeOK, Nodes
<1>8. ASSUME NEW n \in Nodes, Replicate(n)
      PROVE (\A f \in seen : Has(r, written[f])') /\ (\A f \in gone : Has(r, removed[f])')
  BY <1>3, <1>4, <1>8 DEF Replicate, Has, WrapperTypeOK
<1>9. ASSUME NEW n \in Nodes, NodeFails(n) \/ NodeRecovers(n)
      PROVE (\A f \in seen : Has(r, written[f])') /\ (\A f \in gone : Has(r, removed[f])')
  BY <1>3, <1>4, <1>9 DEF NodeFails, NodeRecovers, dataVars, Has
<1>10. ASSUME NEW n \in Nodes PROVE ~Failover(n)
  BY <1>1 DEF Failover
<1>11. QED BY <1>6, <1>7, <1>8, <1>9, <1>10 DEF Calm, Storm, historyVars

-----------------------------------------------------------------------------
(***************************************************************************)
(* The inductive invariant, one lemma per part                             *)
(***************************************************************************)
USE AccessAssumption, WrapperAssumption DEF AccessAssumption, WrapperAssumption

LEMMA LongestIsNat == Longest \in Nat
BY DEF Longest

LEMMA AccessInvInit == Init => AccessInv
<1> SUFFICES ASSUME Init PROVE AccessInv
  OBVIOUS
<1> USE DEF Init, WrapperInit
<1>1. TypeOK
  BY LongestIsNat DEF TypeOK, WrapperTypeOK, Nodes
<1>2. WritesAreNumbered /\ RequestsAge /\ TokensAge /\ GoneIsRemoved
  BY DEF WritesAreNumbered, RequestsAge, TokensAge, GoneIsRemoved, Nodes
<1>3. ReadableIsNotIdle
  BY DEF ReadableIsNotIdle, Readable, Held, Has
<1>4. QED
  BY <1>1, <1>2, <1>3 DEF AccessInv

\* Whatever happens, the clock of each secret stands at 0 while it can be read.
LEMMA WatchStep ==
  ASSUME TypeOK, ReadableIsNotIdle, [Next]_vars
  PROVE  /\ idle' \in [Entries -> 0 .. Longest]
         /\ ReadableIsNotIdle'
         /\ ~Tick => \A e \in Entries : idle'[e] <= idle[e]
<1>1. idle \in [Entries -> 0 .. Longest] /\ Longest \in Nat
  BY LongestIsNat DEF TypeOK
<1>2. CASE Watch(0)
  BY <1>1, <1>2, WatchBounds
<1>3. CASE Tick
  <2>1. Watch(1)
    BY <1>3 DEF Tick
  <2>2. QED
    BY <1>1, <1>3, <2>1, WatchBounds
<1>4. CASE UNCHANGED vars
  BY <1>1, <1>4 DEF vars, wrapperVars, dataVars, ReadableIsNotIdle, Readable, Readers, Nodes, Held, Has
<1>5. QED
  BY <1>2, <1>3, <1>4 DEF Next, Serve, LoadPrivateKey, LoadPublicKey, Restart, Admit, Refuse,
     Register, Revoke, StoreSettles, StoreSuffers, Forget, OpenSession, ReplacePrivateFile,
     ReplacePublicFile

\* Apart from what happens to Redis, a step leaves the wrapper as it is.
LEMMA WrapperStep ==
  ASSUME TypeOK, WritesAreNumbered, [Next]_vars
  PROVE  WrapperTypeOK' /\ WritesAreNumbered'
<1> USE DEF TypeOK
<1>1. CASE UNCHANGED wrapperVars
  BY <1>1 DEF wrapperVars, dataVars, WrapperTypeOK, WritesAreNumbered
<1>2. ASSUME NEW e \in Entries, Register(e) \/ Revoke(e)
      PROVE  WrapperTypeOK' /\ WritesAreNumbered'
  BY <1>2, WrapperKeepsNumbers DEF Register, Revoke
<1>3. ASSUME NEW n \in Nodes, StoreSettles(n) \/ StoreSuffers(n)
      PROVE  WrapperTypeOK' /\ WritesAreNumbered'
  BY <1>3, WrapperKeepsNumbers DEF StoreSettles, StoreSuffers
<1>4. QED
  BY <1>1, <1>2, <1>3 DEF Next, vars, Serve, LoadPrivateKey, LoadPublicKey, Restart, Admit,
     Refuse, Tick, Forget, OpenSession, ReplacePrivateFile, ReplacePublicFile, fileVars

LEMMA TypeStep ==
  ASSUME TypeOK, WritesAreNumbered, ReadableIsNotIdle, [Next]_vars
  PROVE  TypeOK'
<1> USE DEF keyVars, fileVars, sessionVars, historyVars
<1>1. WrapperTypeOK' /\ idle' \in [Entries -> 0 .. Longest]
  BY WrapperStep, WatchStep
<1>2. ASSUME NEW p \in Pods, LoadPrivateKey(p) \/ LoadPublicKey(p) \/ Restart(p) PROVE TypeOK'
  BY <1>1, <1>2 DEF LoadPrivateKey, LoadPublicKey, Restart, TypeOK
<1>3. ASSUME NEW p \in Pods, NEW e \in Entries, Admit(p, e) PROVE TypeOK'
  <2>1. [pod |-> p, sub |-> e, age |-> 0] \in Request
    BY DEF Request
  <2>2. QED
    BY <1>1, <1>3, <2>1 DEF Admit, TypeOK
<1>4. ASSUME NEW r \in requests, OpenSession(r) PROVE TypeOK'
  <2>1. GenerateToken(r) \subseteq Token
    BY DEF GenerateToken, Token, Request, TypeOK
  <2>2. QED
    BY <1>1, <1>4, <2>1 DEF OpenSession, TypeOK
<1>5. ASSUME NEW e \in Entries, Refuse(e) \/ Register(e) \/ Revoke(e) PROVE TypeOK'
  BY <1>1, <1>5 DEF Refuse, Register, Revoke, TypeOK
<1>6. ASSUME NEW n \in Nodes, StoreSettles(n) \/ StoreSuffers(n) PROVE TypeOK'
  BY <1>1, <1>6 DEF StoreSettles, StoreSuffers, TypeOK
<1>7. ASSUME NEW t \in tokens, Forget(t) PROVE TypeOK'
  BY <1>1, <1>7 DEF Forget, TypeOK
<1>8. CASE ReplacePrivateFile \/ ReplacePublicFile
  BY <1>1, <1>8 DEF ReplacePrivateFile, ReplacePublicFile, TypeOK
<1>9. CASE Tick
  <2>1. tokens' \subseteq Token
    BY <1>9 DEF Tick, Token, TypeOK
  <2>2. requests' \subseteq Request
    BY <1>9 DEF Tick, Request, TypeOK
  <2>3. QED
    BY <1>1, <1>9, <2>1, <2>2 DEF Tick, TypeOK
<1>10. CASE UNCHANGED vars
  BY <1>1, <1>10 DEF vars, TypeOK
<1>11. QED
  BY <1>2, <1>3, <1>4, <1>5, <1>6, <1>7, <1>8, <1>9, <1>10 DEF Next, Serve

\* A request begins when its secret can be read, and ages with the clock.
LEMMA RequestsStep ==
  ASSUME TypeOK, ReadableIsNotIdle, RequestsAge, [Next]_vars
  PROVE  RequestsAge'
<1> USE DEF TypeOK, Request, RequestsAge, sessionVars
<1>1. idle' \in [Entries -> 0 .. Longest] /\ (~Tick => \A e \in Entries : idle'[e] <= idle[e])
  BY WatchStep
<1>2. CASE requests' \subseteq requests /\ ~Tick
  BY <1>1, <1>2
<1>3. ASSUME NEW p \in Pods, NEW e \in Entries, Admit(p, e), ~Tick PROVE RequestsAge'
  <2>1. idle[e] = 0
    BY <1>3 DEF Admit, Lookup, Readable, ReadableIsNotIdle
  <2>2. QED
    BY <1>1, <1>3, <2>1 DEF Admit
<1>4. CASE Tick
  <2>1. \A e \in Entries : idle'[e] <= idle[e] + 1
    BY <1>4, LongestIsNat, WatchBounds DEF Tick
  <2>2. ASSUME NEW r \in requests' PROVE idle'[r.sub] <= r.age
    <3>1. PICK q \in requests : r = [q EXCEPT !.age = @ + 1]
      BY <1>4, <2>2 DEF Tick
    <3>2. q \in Request /\ r.sub = q.sub /\ r.age = q.age + 1 /\ idle[q.sub] <= q.age
      BY <3>1
    <3>3. idle'[q.sub] <= idle[q.sub] + 1 /\ idle'[q.sub] \in Nat /\ idle[q.sub] \in Nat
      BY <1>1, <2>1, <3>2, LongestIsNat
    <3>4. QED
      BY <3>2, <3>3
  <2>3. QED
    BY <2>2
<1>5. QED
  BY <1>2, <1>3, <1>4 DEF Next, vars, Serve, LoadPrivateKey, LoadPublicKey, Restart, Refuse,
     Register, Revoke, StoreSettles, StoreSuffers, Forget, OpenSession, ReplacePrivateFile,
     ReplacePublicFile

\* A token is signed for a request, and loses life as the clock advances.
LEMMA TokensStep ==
  ASSUME TypeOK, ReadableIsNotIdle, RequestsAge, TokensAge, [Next]_vars
  PROVE  TokensAge'
<1> USE DEF TypeOK, Token, TokensAge, sessionVars
<1>1. idle' \in [Entries -> 0 .. Longest] /\ (~Tick => \A e \in Entries : idle'[e] <= idle[e])
  BY WatchStep
<1>2. CASE tokens' \subseteq tokens /\ ~Tick
  BY <1>1, <1>2, LongestIsNat
<1>3. ASSUME NEW r \in requests, OpenSession(r), ~Tick PROVE TokensAge'
  <2>1. r \in Request /\ idle[r.sub] <= r.age
    BY DEF RequestsAge
  <2>2. \A t \in GenerateToken(r) : t.sub = r.sub /\ t.life = TTL /\ t.age = r.age
    BY DEF GenerateToken
  <2>3. idle'[r.sub] <= r.age /\ idle'[r.sub] \in Nat /\ r.age \in Nat
    BY <1>1, <1>3, <2>1, LongestIsNat DEF Request
  <2>4. ASSUME NEW t \in GenerateToken(r) PROVE idle'[t.sub] + t.life <= TTL + t.age
    BY <2>2, <2>3
  <2>5. ASSUME NEW t \in tokens, t.life > 0 PROVE idle'[t.sub] + t.life <= TTL + t.age
    <3>1. idle[t.sub] + t.life <= TTL + t.age /\ t \in Token
      BY <2>5
    <3>2. idle'[t.sub] <= idle[t.sub] /\ idle'[t.sub] \in Nat /\ idle[t.sub] \in Nat
      BY <1>1, <1>3, <3>1, LongestIsNat
    <3>3. t.life \in Nat /\ t.age \in Nat
      BY <3>1
    <3>4. QED
      BY <3>1, <3>2, <3>3
  <2>6. tokens' = tokens \cup GenerateToken(r)
    BY <1>3 DEF OpenSession
  <2>7. QED
    BY <2>4, <2>5, <2>6
<1>4. CASE Tick
  <2>1. \A e \in Entries : idle'[e] <= idle[e] + 1
    BY <1>4, LongestIsNat, WatchBounds DEF Tick
  <2>2. ASSUME NEW t \in tokens', t.life > 0
        PROVE  \E s \in tokens : t.sub = s.sub /\ t.age = s.age /\ s.life = t.life + 1
    BY <1>4, <2>2 DEF Tick
  <2>3. ASSUME NEW t \in tokens', t.life > 0 PROVE idle'[t.sub] + t.life <= TTL + t.age
    <3>1. PICK s \in tokens : t.sub = s.sub /\ t.age = s.age /\ s.life = t.life + 1
      BY <2>2, <2>3
    <3>2. t.sub \in Entries /\ s.life \in 0 .. TTL /\ t.life \in Nat /\ t.age \in Nat
      BY <1>4, <2>3, <3>1 DEF Tick
    <3>3. idle[t.sub] + s.life <= TTL + t.age
      BY <3>1, <3>2
    <3>4. idle'[t.sub] <= idle[t.sub] + 1 /\ idle'[t.sub] \in Nat /\ idle[t.sub] \in Nat
      BY <1>1, <2>1, <3>2, LongestIsNat
    <3>5. QED
      BY <2>3, <3>1, <3>2, <3>3, <3>4
  <2>4. QED
    BY <2>3
<1>5. QED
  BY <1>2, <1>3, <1>4 DEF Next, vars, Serve, LoadPrivateKey, LoadPublicKey, Restart, Admit,
     Refuse, Register, Revoke, StoreSettles, StoreSuffers, Forget, ReplacePrivateFile,
     ReplacePublicFile

\* With one reader, what was let in has reached it, and what was refused later
\* was removed there.
LEMMA GoneStep ==
  ASSUME TypeOK, WritesAreNumbered, GoneIsRemoved, [Next]_vars
  PROVE  GoneIsRemoved'
<1> USE DEF TypeOK
<1>1. CASE UNCHANGED <<wrapperVars, historyVars>>
  BY <1>1 DEF wrapperVars, dataVars, historyVars, GoneIsRemoved, Readers, Nodes, Has
<1>2. ASSUME NEW p \in Pods, NEW e \in Entries, Admit(p, e) PROVE GoneIsRemoved'
  <2>1. mode' = mode /\ applied' = applied /\ written' = written /\ removed' = removed
        /\ seen' = seen \cup {e} /\ gone' = gone
    BY <1>2 DEF Admit, wrapperVars, dataVars
  <2>2. SUFFICES ASSUME mode # "cluster" PROVE GoneIsRemoved'
    BY <2>1 DEF GoneIsRemoved
  <2>3. PICK r \in Nodes : Readers = {r}
    BY <2>2, OneReader
  <2>4. Has(r, written[e])
    BY <1>2, <2>3 DEF Admit, Lookup, Held
  <2>5. QED
    BY <2>1, <2>2, <2>3, <2>4 DEF GoneIsRemoved, Readers, Has
<1>3. ASSUME NEW e \in Entries, Refuse(e) PROVE GoneIsRemoved'
  <2>1. mode' = mode /\ applied' = applied /\ written' = written /\ removed' = removed
        /\ seen' = seen /\ gone' = gone \cup ({e} \cap seen)
    BY <1>3 DEF Refuse, wrapperVars, dataVars
  <2>2. SUFFICES ASSUME mode # "cluster" PROVE GoneIsRemoved'
    BY <2>1 DEF GoneIsRemoved
  <2>3. PICK r \in Nodes : Readers = {r}
    BY <2>2, OneReader
  <2>4. e \in seen => Has(r, removed[e])
    BY <1>3, <2>2, <2>3 DEF Refuse, Lookup, Held, GoneIsRemoved
  <2>5. QED
    BY <2>1, <2>2, <2>3, <2>4 DEF GoneIsRemoved, Readers, Has
<1>4. ASSUME NEW e \in Entries, Register(e) \/ Revoke(e) PROVE GoneIsRemoved'
  BY <1>4, WrapperKeepsGone DEF Register, Revoke
<1>5. ASSUME NEW n \in Nodes, StoreSettles(n) \/ StoreSuffers(n) PROVE GoneIsRemoved'
  BY <1>5, WrapperKeepsGone DEF StoreSettles, StoreSuffers, historyVars
<1>6. QED
  BY <1>1, <1>2, <1>3, <1>4, <1>5 DEF Next, vars, Serve, LoadPrivateKey, LoadPublicKey,
     Restart, Tick, Forget, OpenSession, ReplacePrivateFile, ReplacePublicFile

\* What one reader has seen removed is removed for good: the master has the
\* removal too, and refuses to remove the entry once more.
LEMMA RemovalStep ==
  ASSUME TypeOK, WritesAreNumbered, NEW e \in Entries, RemovedForReaders(e), [Next]_vars
  PROVE  RemovedForReaders(e)'
<1> USE DEF TypeOK
<1>1. PICK r \in Nodes : Readers = {r}
  BY OneReader DEF RemovedForReaders
<1>2. mode # "cluster" /\ Has(r, removed[e])
  BY <1>1 DEF RemovedForReaders
<1>3. SUFFICES mode' = mode /\ Has(r, removed[e])'
  BY <1>1, <1>2 DEF RemovedForReaders, Readers, Nodes
<1>4. CASE UNCHANGED wrapperVars
  BY <1>2, <1>4 DEF wrapperVars, dataVars, Has
<1>5. ASSUME NEW f \in Entries, HSet(f) PROVE mode' = mode /\ Has(r, removed[e])'
  BY <1>2, <1>5 DEF HSet, Has, WrapperTypeOK, Nodes
<1>6. ASSUME NEW f \in Entries, HDel(f) PROVE mode' = mode /\ Has(r, removed[e])'
  <2>1. Has(Master, removed[e])
    BY <1>2 DEF Has, WritesAreNumbered, WrapperTypeOK, Nodes
  <2>2. e # f
    BY <1>6, <2>1 DEF HDel, Held
  <2>3. QED
    BY <1>2, <1>6, <2>2 DEF HDel, Has, WrapperTypeOK, Nodes
<1>7. ASSUME NEW n \in Nodes, Calm(n) \/ Storm(n) PROVE mode' = mode /\ Has(r, removed[e])'
  <2>1. ~Failover(n)
    BY <1>2 DEF Failover
  <2>2. QED
    BY <1>2, <1>7, <2>1 DEF Calm, Storm, Replicate, NodeFails, NodeRecovers, dataVars, Has,
       WrapperTypeOK
<1>8. QED
  BY <1>4, <1>5, <1>6, <1>7 DEF Next, vars, Serve, LoadPrivateKey, LoadPublicKey, Restart,
     Admit, Refuse, Register, Revoke, StoreSettles, StoreSuffers, Tick, Forget, OpenSession, ReplacePrivateFile, ReplacePublicFile

-----------------------------------------------------------------------------
(***************************************************************************)
(* Theorems                                                                *)
(***************************************************************************)

\* The inductive invariant: a request in flight is as old as the last moment its
\* secret could be read, or older, and a token was signed for such a request;
\* what was refused is removed at the reader.
THEOREM AccessInvCorrect == Spec => []AccessInv
<1>1. AccessInv /\ [Next]_vars => AccessInv'
  BY TypeStep, WatchStep, WrapperStep, RequestsStep, TokensStep, GoneStep DEF AccessInv
<1>2. QED
  BY <1>1, AccessInvInit, PTL DEF Spec

\* No session outlives its secret by more than TTL and the time between its
\* lookup and its signature, whatever the lag of the replicas, the rotations of
\* the keys and the restarts of the pods.
THEOREM SessionsAreBounded == Spec => []SessionsEndInTime
<1>1. AccessInv => SessionsEndInTime
  BY DEF AccessInv, TokensAge, SessionsEndInTime, RequireAuth, ParseAndValidate
<1>2. QED
  BY <1>1, AccessInvCorrect, PTL

\* No step brings a retired key back: what a pod still reads is later than it.
LEMMA RetiredStep ==
  ASSUME TypeOK, NEW k \in 1 .. MaxKeys, Retired(k), [Next]_vars
  PROVE  Retired(k)'
<1> USE DEF TypeOK, Retired
<1>1. CASE UNCHANGED <<publicFile, loaded, public>>
  BY <1>1
<1>2. ASSUME NEW p \in Pods, LoadPrivateKey(p) \/ LoadPublicKey(p) \/ Restart(p)
      PROVE  Retired(k)'
  BY <1>2 DEF LoadPrivateKey, LoadPublicKey, Restart, fileVars
<1>3. CASE ReplacePublicFile
  BY <1>3 DEF ReplacePublicFile
<1>4. QED
  BY <1>1, <1>2, <1>3 DEF Next, vars, keyVars, fileVars, Serve, Admit, OpenSession, Refuse,
     Register, Revoke, StoreSettles, StoreSuffers, Tick, Forget, ReplacePrivateFile

\* Replacing the files and restarting the pods ends every session of the old key
\* for good, in whichever order the two files and the pods are replaced.
THEOREM RetirementIsFinal == Spec => RetiredKeysStayRetired
<1>1. ASSUME AccessInv, [Next]_vars, NEW k \in 1 .. MaxKeys, Retired(k)
      PROVE  \A p \in Pods : \A t \in tokens' : t.key = k => ~RequireAuth(p, t)'
  <2>1. Retired(k)'
    BY <1>1, RetiredStep DEF AccessInv
  <2>2. ASSUME NEW p \in Pods, loaded'[p] = "both" PROVE public'[p] # k
    BY <2>1, <2>2 DEF Retired
  <2>3. QED
    BY <2>2 DEF RequireAuth, ParseAndValidate
<1>2. AccessInv /\ [Next]_vars =>
        [\A k \in 1 .. MaxKeys : Retired(k) =>
           \A p \in Pods : \A t \in tokens' : t.key = k => ~RequireAuth(p, t)']_vars
  BY <1>1
<1>3. QED
  BY <1>2, AccessInvCorrect, PTL DEF Spec, RetiredKeysStayRetired

\* Outside of a cluster a secret that was refused after it was let in is never
\* let in again.
THEOREM RefusalIsFinal == Spec => RefusedStaysRefused
<1>1. ASSUME AccessInv, mode # "cluster", NEW p \in Pods, NEW e \in Entries, Admit(p, e)
      PROVE  e \notin gone
  <2>1. PICK r \in Nodes : Readers = {r}
    BY <1>1, OneReader DEF AccessInv, TypeOK
  <2>2. ~Has(r, removed[e])
    BY <1>1, <2>1 DEF Admit, Lookup, Held
  <2>3. QED
    BY <1>1, <2>1, <2>2 DEF AccessInv, GoneIsRemoved
<1>2. AccessInv => [\A p \in Pods, e \in Entries :
                      mode # "cluster" /\ Admit(p, e) => e \notin gone]_vars
  BY <1>1
<1>3. QED
  BY <1>2, AccessInvCorrect, PTL DEF RefusedStaysRefused

\* Outside of a cluster a secret whose removal has reached the reader can never
\* be read again, so that from then on no pod opens a session for it.
THEOREM RemovalsAreFinal == Spec => RemovalIsFinal
<1> SUFFICES ASSUME NEW e \in Entries
             PROVE  Spec => [](RemovedForReaders(e) => [](RemovedForReaders(e) /\ ~Readable(e)))
  BY DEF RemovalIsFinal
<1>1. AccessInv /\ RemovedForReaders(e) /\ [Next]_vars => RemovedForReaders(e)'
  BY RemovalStep DEF AccessInv
<1>2. RemovedForReaders(e) => ~Readable(e)
  BY DEF RemovedForReaders, Readable, Held
<1>3. QED
  BY <1>1, <1>2, AccessInvCorrect, PTL DEF Spec
=============================================================================
