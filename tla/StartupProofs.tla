---------------------------- MODULE StartupProofs ----------------------------
(***************************************************************************)
(* Proofs about Startup for any number of pods and failures.               *)
(***************************************************************************)
EXTENDS Startup, TLAPS

USE StartupAssumption

-----------------------------------------------------------------------------
(***************************************************************************)
(* The chain of main()                                                     *)
(***************************************************************************)
LEMMA ChainLength == Len(Chain) = 12 /\ 1 .. Len(Chain) = 1 .. 12
BY DEF Chain

\* Every step is called once, so that each has one successor.
LEMMA ChainIsInjective ==
  ASSUME NEW i \in 1 .. 12, NEW j \in 1 .. 12, Chain[i] = Chain[j]
  PROVE  i = j
BY DEF Chain

LEMMA SuccessorIs ==
  ASSUME NEW i \in 1 .. 11
  PROVE  Successor(Chain[i]) = Chain[i + 1]
<1> DEFINE k == CHOOSE j \in 1 .. Len(Chain) : Chain[j] = Chain[i]
<1>1. k \in 1 .. 12 /\ Chain[k] = Chain[i]
  BY ChainLength
<1>2. k = i
  <2>1. PICK m : m = k
    OBVIOUS
  <2>2. m \in 1 .. 12 /\ Chain[m] = Chain[i]
    BY <1>1, <2>1
  <2>3. m = i
    BY <2>2, ChainIsInjective
  <2>4. QED
    BY <2>1, <2>3
<1>3. Chain[i] # Chain[Len(Chain)]
  BY ChainLength, ChainIsInjective
<1>4. Successor(Chain[i]) = Chain[1 + k]
  BY <1>3 DEF Successor
<1> HIDE DEF k
<1>5. 1 + k = i + 1
  BY <1>2
<1>6. QED
  BY <1>4, <1>5

LEMMA SuccessorsAre ==
  /\ Successor("WithLogger") = "WithCORS"
  /\ Successor("WithCORS") = "WithTracing"
  /\ Successor("WithTracing") = "WithMigrations"
  /\ Successor("WithMigrations") = "WithDatabases"
  /\ Successor("WithDatabases") = "WithRedis"
  /\ Successor("WithRedis") = "WithEncryptor"
  /\ Successor("WithEncryptor") = "WithOutboxRelay"
  /\ Successor("WithOutboxRelay") = "WithStateReplicator"
  /\ Successor("WithStateReplicator") = "WithTaskProcessor"
  /\ Successor("WithTaskProcessor") = "WithGRPCServer"
  /\ Successor("WithGRPCServer") = "WithS3Storage"
  /\ Successor("WithS3Storage") = "serving"
<1>1. \A i \in 1 .. 11 : Successor(Chain[i]) = Chain[i + 1]
  BY SuccessorIs
<1>2. Successor(Chain[12]) = "serving"
  BY ChainLength DEF Successor
<1>3. QED
  BY <1>1, <1>2 DEF Chain
LEMMA PlacesAre ==
  Places = {"WithLogger", "WithCORS", "WithTracing", "WithMigrations", "down", "failed"}
             \cup AfterMigrations
<1>1. {Chain[i] : i \in 1 .. 12} =
        {"WithLogger", "WithCORS", "WithTracing", "WithMigrations", "WithDatabases",
         "WithRedis", "WithEncryptor", "WithOutboxRelay", "WithStateReplicator",
         "WithTaskProcessor", "WithGRPCServer", "WithS3Storage"}
  BY DEF Chain
<1>2. QED
  BY <1>1, ChainLength DEF Places, AfterMigrations

\* A step leads to a place, past the migrations when it is theirs or a later one.
LEMMA SuccessorIsPlace ==
  ASSUME NEW step \in Places \ {"down", "failed", "serving"}
  PROVE  /\ Successor(step) \in Places \ {"down", "failed"}
         /\ Successor(step) \in AfterMigrations <=>
              step \in AfterMigrations \cup {"WithMigrations"}
         /\ Successor(step) \in AfterMigrations \ {"WithDatabases"} <=>
              step \in AfterMigrations
BY SuccessorsAre, PlacesAre DEF AfterMigrations

-----------------------------------------------------------------------------
(***************************************************************************)
(* The inductive step                                                      *)
(***************************************************************************)
Steps == Places \ {"down", "failed", "serving"}

LEMMA ProceedKeepsTypes ==
  ASSUME TypeOK, NEW p \in Pods, NEW P \in SUBSET Parts, NEW C \in SUBSET Checkers,
         Proceed(p, P, C), at[p] \in Steps, migrated' \in [Pods -> BOOLEAN],
         schema' \in [Databases -> {"old", "dirty", "new"}], lock' \in Pods \cup {None},
         faults' \in 0 .. MaxFaults
  PROVE  TypeOK'
<1>1. at' \in [Pods -> Places]
  BY SuccessorIsPlace DEF Proceed, Steps, TypeOK
<1>2. parts' \in [Pods -> SUBSET Parts] /\ checkers' \in [Pods -> SUBSET Checkers]
  BY DEF Proceed, TypeOK
<1>3. UNCHANGED <<cfg, up, relaying, ready>>
  BY DEF Proceed
<1>4. QED
  BY <1>1, <1>2, <1>3 DEF TypeOK

LEMMA GiveUpKeepsTypes ==
  ASSUME TypeOK, NEW p \in Pods, GiveUp(p), UNCHANGED schema,
         lock' \in Pods \cup {None}, faults' \in 0 .. MaxFaults
  PROVE  TypeOK'
<1>1. at' \in [Pods -> Places]
  BY PlacesAre DEF GiveUp, TypeOK
<1>2. QED
  BY <1>1 DEF GiveUp, TypeOK

LEMMA TypeStep == TypeOK /\ LockMeansMigrating /\ [Next]_vars => TypeOK'
<1> SUFFICES ASSUME TypeOK, LockMeansMigrating, [Next]_vars PROVE TypeOK'
  OBVIOUS
<1> USE DEF dbVars, podVars
<1>0. /\ migrated \in [Pods -> BOOLEAN]
      /\ \A p \in Pods : [migrated EXCEPT ![p] = TRUE] \in [Pods -> BOOLEAN]
      /\ schema \in [Databases -> {"old", "dirty", "new"}]
      /\ lock \in Pods \cup {None}
      /\ faults \in 0 .. MaxFaults /\ (Fault => faults' \in 0 .. MaxFaults)
  BY DEF TypeOK, Fault
<1>1. ASSUME NEW p \in Pods, MigrateBegin(p) PROVE TypeOK'
  BY <1>1 DEF MigrateBegin, TypeOK, Databases, MigratedDatabase
<1>2. ASSUME NEW p \in Pods, MigrateEnd(p) PROVE TypeOK'
  <2>1. at[p] \in Steps
    BY <1>2, PlacesAre DEF MigrateEnd, LockMeansMigrating, Steps
  <2>2. schema' \in [Databases -> {"old", "dirty", "new"}] /\ lock' = None
    BY <1>0, <1>2 DEF MigrateEnd
  <2>3. Proceed(p, {}, {"Database Migrations"}) /\ UNCHANGED faults
    BY <1>2 DEF MigrateEnd
  <2>4. migrated' \in [Pods -> BOOLEAN]
    BY <1>0, <1>2 DEF MigrateEnd
  <2>5. QED
    BY <1>0, <2>1, <2>2, <2>3, <2>4, ProceedKeepsTypes DEF Checkers
<1>3. ASSUME NEW p \in Pods, NothingToMigrate(p) PROVE TypeOK'
  <2>1. at[p] \in Steps
    BY <1>3, PlacesAre DEF NothingToMigrate, Steps
  <2>2. Proceed(p, {}, {"Database Migrations"}) /\ UNCHANGED <<schema, lock, faults>>
    BY <1>3 DEF NothingToMigrate
  <2>3. migrated' \in [Pods -> BOOLEAN]
    BY <1>0, <1>3 DEF NothingToMigrate
  <2>4. QED
    BY <1>0, <2>1, <2>2, <2>3, ProceedKeepsTypes DEF Checkers
<1>4. ASSUME NEW p \in Pods, MigrationsFail(p) PROVE TypeOK'
  <2>1. at[p] \in Steps
    BY <1>4, PlacesAre DEF MigrationsFail, Steps
  <2>2. UNCHANGED schema /\ lock' \in Pods \cup {None} /\ faults' \in 0 .. MaxFaults
    BY <1>0, <1>4 DEF MigrationsFail
  <2>3. CASE GiveUp(p)
    BY <2>2, <2>3, GiveUpKeepsTypes
  <2>4. CASE Proceed(p, {}, {"Database Migrations"}) /\ UNCHANGED migrated
    BY <1>0, <2>1, <2>2, <2>4, ProceedKeepsTypes DEF Checkers
  <2>5. QED
    BY <1>4, <2>3, <2>4 DEF MigrationsFail
<1>5. ASSUME NEW p \in Pods, NEW P \in SUBSET Parts, NEW C \in SUBSET Checkers,
             at[p] \in Steps, UNCHANGED dbVars, UNCHANGED faults \/ Fault,
             (Proceed(p, P, C) /\ UNCHANGED migrated) \/ GiveUp(p)
      PROVE  TypeOK'
  <2>1. UNCHANGED <<schema, lock>> /\ faults' \in 0 .. MaxFaults
    BY <1>0, <1>5
  <2>2. CASE GiveUp(p)
    BY <1>0, <2>1, <2>2, GiveUpKeepsTypes
  <2>3. CASE Proceed(p, P, C) /\ UNCHANGED migrated
    BY <1>0, <1>5, <2>1, <2>3, ProceedKeepsTypes
  <2>4. QED
    BY <1>5, <2>2, <2>3
<1>6. ASSUME NEW p \in Pods,
             \/ WithoutConsequence(p) \/ WithDatabases(p) \/ WithRedis(p)
             \/ WithS3Storage(p) \/ S3Fails(p) \/ ConfigurationFails(p)
      PROVE  TypeOK'
  <2>1. at[p] \in Steps
    BY <1>6, PlacesAre DEF WithoutConsequence, WithDatabases, WithRedis, WithS3Storage,
      S3Fails, ConfigurationFails, Steps, AfterMigrations
  <2>2. \E P \in SUBSET Parts, C \in SUBSET Checkers :
          (Proceed(p, P, C) /\ UNCHANGED migrated) \/ GiveUp(p)
    <3>1. CASE WithoutConsequence(p)
      BY <3>1 DEF WithoutConsequence
    <3>2. CASE WithDatabases(p)
      BY <3>2 DEF WithDatabases, Parts, Checkers
    <3>3. CASE WithRedis(p)
      BY <3>3 DEF WithRedis, Parts, Checkers
    <3>4. CASE WithS3Storage(p)
      BY <3>4 DEF WithS3Storage, Parts, Checkers
    <3>5. CASE S3Fails(p)
      BY <3>5 DEF S3Fails
    <3>6. CASE ConfigurationFails(p)
      BY <3>6 DEF ConfigurationFails
    <3>7. QED
      BY <1>6, <3>1, <3>2, <3>3, <3>4, <3>5, <3>6
  <2>3. UNCHANGED dbVars /\ (UNCHANGED faults \/ Fault)
    BY <1>6 DEF WithoutConsequence, WithDatabases, WithRedis, WithS3Storage, S3Fails,
       ConfigurationFails
  <2>4. QED
    BY <1>5, <2>1, <2>2, <2>3
<1>7. ASSUME NEW p \in Pods, NEW worker \in Workers, WithWorker(p, worker) PROVE TypeOK'
  <2>1. at[p] \in Steps
    BY <1>7, PlacesAre DEF WithWorker, Workers, Steps, AfterMigrations
  <2>2. {worker} \in SUBSET Parts /\ CheckersOf(worker) \in SUBSET Checkers
    BY DEF Workers, Parts, CheckersOf, Checkers
  <2>3. \E P \in SUBSET Parts, C \in SUBSET Checkers :
          (Proceed(p, P, C) /\ UNCHANGED migrated) \/ GiveUp(p)
    BY <1>7, <2>2 DEF WithWorker
  <2>4. UNCHANGED dbVars /\ UNCHANGED faults
    BY <1>7 DEF WithWorker
  <2>5. QED
    BY <1>5, <2>1, <2>3, <2>4
<1>8. ASSUME NEW p \in Pods, Start(p) PROVE TypeOK'
  <2>1. at' \in [Pods -> Places]
    BY <1>8, PlacesAre DEF Start, TypeOK, Chain
  <2>2. migrated' \in [Pods -> BOOLEAN]
    BY <1>0, <1>8 DEF Start
  <2>3. QED
    BY <1>8, <2>1, <2>2 DEF Start, TypeOK
<1>9. ASSUME NEW p \in Pods, Fatal(p) \/ Crash(p) PROVE TypeOK'
  <2>1. Die(p) /\ faults' \in 0 .. MaxFaults
    BY <1>0, <1>9 DEF Fatal, Crash
  <2>2. at' \in [Pods -> Places] /\ lock' \in Pods \cup {None}
    BY <1>0, <2>1, PlacesAre DEF Die, TypeOK
  <2>3. QED
    BY <2>1, <2>2 DEF Die, TypeOK
<1>10. ASSUME NEW p \in Pods, Launch(p) PROVE TypeOK'
  BY <1>10 DEF Launch, TypeOK
<1>11. ASSUME NEW p \in Pods, Probe(p) PROVE TypeOK'
  <2>1. (\A c \in checkers[p] : IsHealthy(p, c)) \in BOOLEAN
    BY Zenon
  <2>2. ready' \in [Pods -> BOOLEAN]
    BY <1>11, <2>1 DEF Probe, TypeOK
  <2>3. QED
    BY <1>11, <2>2 DEF Probe, TypeOK
<1>12. ASSUME NEW s \in Services, ServiceFails(s) \/ ServiceRecovers(s) PROVE TypeOK'
  <2>1. /\ up' \in SUBSET Services /\ faults' \in 0 .. MaxFaults
        /\ lock' \in Pods \cup {None}
    BY <1>0, <1>12 DEF ServiceFails, ServiceRecovers, TypeOK
  <2>2. QED
    BY <1>12, <2>1 DEF ServiceFails, ServiceRecovers, TypeOK
<1>13. CASE UNCHANGED vars
  BY <1>13 DEF vars, TypeOK
<1>14. QED
  BY <1>1, <1>2, <1>3, <1>4, <1>6, <1>7, <1>8, <1>9, <1>10, <1>11, <1>12, <1>13
     DEF Next, Build, WithMigrations

\* Whatever a step of the Builder does, it is one of four things, to the eye of
\* the invariants about the schema.
MigratesOrNot(p) ==
  \/ MigrateBegin(p)
  \/ MigrateEnd(p) \/ NothingToMigrate(p)
  \/ /\ at[p] = "WithMigrations"
     /\ Proceed(p, {}, {"Database Migrations"}) /\ UNCHANGED <<migrated, schema>>
     /\ lock' = IF lock = p THEN None ELSE lock
  \/ /\ at[p] = "WithMigrations"
     /\ GiveUp(p) /\ UNCHANGED schema
     /\ lock' = IF lock = p THEN None ELSE lock
  \/ /\ at[p] \in Steps \ {"WithMigrations"}
     /\ UNCHANGED dbVars
     /\ GiveUp(p) \/ \E P, C : Proceed(p, P, C) /\ UNCHANGED migrated

LEMMA StepsMigrateOrNot ==
  ASSUME NEW p \in Pods, Build(p) \/ S3Fails(p) \/ ConfigurationFails(p)
  PROVE  MigratesOrNot(p)
<1>1. CASE WithMigrations(p)
  <2>1. CASE MigrationsFail(p)
    BY <2>1 DEF MigrationsFail, MigratesOrNot
  <2>2. QED
    BY <1>1, <2>1 DEF WithMigrations, MigratesOrNot
<1>2. CASE WithoutConsequence(p)
  BY <1>2, PlacesAre DEF WithoutConsequence, MigratesOrNot, Steps, AfterMigrations
<1>3. CASE WithDatabases(p)
  BY <1>3, PlacesAre DEF WithDatabases, MigratesOrNot, Steps, AfterMigrations
<1>4. CASE WithRedis(p)
  BY <1>4, PlacesAre DEF WithRedis, MigratesOrNot, Steps, AfterMigrations
<1>5. CASE WithS3Storage(p)
  BY <1>5, PlacesAre DEF WithS3Storage, MigratesOrNot, Steps, AfterMigrations
<1>6. CASE S3Fails(p)
  BY <1>6, PlacesAre DEF S3Fails, MigratesOrNot, Steps, AfterMigrations
<1>7. CASE ConfigurationFails(p)
  BY <1>7, PlacesAre DEF ConfigurationFails, MigratesOrNot, Steps, AfterMigrations
<1>8. ASSUME NEW worker \in Workers, WithWorker(p, worker) PROVE MigratesOrNot(p)
  BY <1>8, PlacesAre DEF WithWorker, Workers, MigratesOrNot, Steps, AfterMigrations
<1>9. QED
  BY <1>1, <1>2, <1>3, <1>4, <1>5, <1>6, <1>7, <1>8 DEF Build

SchemaInv ==
  LockMeansMigrating /\ MigratedIsNew /\ CheckerIsRegistered /\ ReadyIsMigrated

LEMMA SchemaStep == TypeOK /\ SchemaInv /\ [Next]_vars => SchemaInv'
<1> SUFFICES ASSUME TypeOK, SchemaInv, [Next]_vars PROVE SchemaInv'
  OBVIOUS
<1> USE DEF TypeOK, SchemaInv, LockMeansMigrating, MigratedIsNew, CheckerIsRegistered,
  ReadyIsMigrated, podVars, dbVars, MigratedDatabase, Databases
<1>1. ASSUME NEW p \in Pods, Build(p) \/ S3Fails(p) \/ ConfigurationFails(p) PROVE SchemaInv'
  <2> USE DEF Proceed, GiveUp, Steps
  <2>0. MigratesOrNot(p)
    BY <1>1, StepsMigrateOrNot
  <2>1. CASE MigrateBegin(p)
    BY <2>1 DEF MigrateBegin
  <2>2. CASE MigrateEnd(p)
    BY <2>2, PlacesAre, SuccessorIsPlace DEF MigrateEnd
  <2>3. CASE NothingToMigrate(p)
    BY <2>3, PlacesAre, SuccessorIsPlace DEF NothingToMigrate
  <2>4. CASE /\ at[p] = "WithMigrations"
             /\ Proceed(p, {}, {"Database Migrations"}) /\ UNCHANGED <<migrated, schema>>
             /\ lock' = IF lock = p THEN None ELSE lock
    BY <2>4, PlacesAre, SuccessorIsPlace
  <2>5. CASE /\ at[p] = "WithMigrations"
             /\ GiveUp(p) /\ UNCHANGED schema
             /\ lock' = IF lock = p THEN None ELSE lock
    <3>1. LockMeansMigrating'
      BY <2>5
    <3>2. MigratedIsNew'
      BY <2>5
    <3>3. CheckerIsRegistered'
      <4>1. \A q \in Pods : at'[q] = IF q = p THEN "failed" ELSE at[q]
        BY <2>5
      <4>2. UNCHANGED checkers /\ "failed" \notin AfterMigrations
        BY <2>5 DEF AfterMigrations
      <4>3. QED
        BY <4>1, <4>2
    <3>4. ReadyIsMigrated'
      BY <2>5
    <3>5. QED
      BY <3>1, <3>2, <3>3, <3>4
  <2>6. CASE /\ at[p] \in Steps \ {"WithMigrations"}
             /\ UNCHANGED dbVars
             /\ GiveUp(p)
    <3>1. LockMeansMigrating'
      BY <2>6
    <3>2. MigratedIsNew'
      BY <2>6
    <3>3. CheckerIsRegistered'
      <4>1. \A q \in Pods : at'[q] = IF q = p THEN "failed" ELSE at[q]
        BY <2>6
      <4>2. UNCHANGED checkers /\ "failed" \notin AfterMigrations
        BY <2>6 DEF AfterMigrations
      <4>3. QED
        BY <4>1, <4>2
    <3>4. ReadyIsMigrated'
      BY <2>6
    <3>5. QED
      BY <3>1, <3>2, <3>3, <3>4
  <2>7. ASSUME NEW P, NEW C, at[p] \in Steps \ {"WithMigrations"}, UNCHANGED dbVars,
               Proceed(p, P, C), UNCHANGED migrated
        PROVE  SchemaInv'
    BY <2>7, SuccessorIsPlace
  <2>8. QED
    BY <2>0, <2>1, <2>2, <2>3, <2>4, <2>5, <2>6, <2>7 DEF MigratesOrNot
<1>2. ASSUME NEW p \in Pods, Start(p) PROVE SchemaInv'
  BY <1>2 DEF Start, Chain, AfterMigrations
<1>3. ASSUME NEW p \in Pods, Fatal(p) \/ Crash(p) PROVE SchemaInv'
  <2>0. Die(p)
    BY <1>3 DEF Fatal, Crash
  <2>1. LockMeansMigrating'
    BY <2>0 DEF Die
  <2>2. MigratedIsNew'
    BY <2>0 DEF Die
  <2>3. CheckerIsRegistered'
    BY <2>0 DEF Die, AfterMigrations
  <2>4. ReadyIsMigrated'
    BY <2>0 DEF Die
  <2>5. QED
    BY <2>1, <2>2, <2>3, <2>4
<1>4. ASSUME NEW p \in Pods, Launch(p) PROVE SchemaInv'
  BY <1>4 DEF Launch
<1>5. ASSUME NEW p \in Pods, Probe(p) PROVE SchemaInv'
  BY <1>5 DEF Probe, IsHealthy, AfterMigrations
<1>6. ASSUME NEW s \in Services, ServiceFails(s) \/ ServiceRecovers(s) PROVE SchemaInv'
  BY <1>6 DEF ServiceFails, ServiceRecovers
<1>7. CASE UNCHANGED vars
  BY <1>7 DEF vars
<1>8. QED
  BY <1>1, <1>2, <1>3, <1>4, <1>5, <1>6, <1>7 DEF Next

\* No step of a pod fails while nothing has failed.
LEMMA UntroubledStep == StartupInv /\ [Next]_vars => Untroubled'
<1> SUFFICES ASSUME StartupInv, [Next]_vars, faults' = 0 PROVE Untroubled'
  BY DEF Untroubled
<1> USE DEF podVars, dbVars
<1>0. TypeOK /\ LockMeansMigrating /\ MigratedIsNew /\ Untroubled
  BY DEF StartupInv
<1>1. faults \in Nat /\ ~Fault
  BY <1>0 DEF TypeOK, Fault
<1>2. ASSUME faults = 0
      PROVE  /\ up = Services
             /\ schema[MigratedDatabase] = "dirty" => lock # None
             /\ \A p \in Pods : at[p] # "failed"
             /\ \A p \in Pods : at[p] \in AfterMigrations => migrated[p]
             /\ \A p \in Pods :
                  at[p] \in AfterMigrations \ {"WithDatabases"} => "DBPool" \in parts[p]
  BY <1>0, <1>2 DEF Untroubled
<1>3. ASSUME NEW p \in Pods, NEW P \in SUBSET Parts, NEW C, faults = 0,
             Proceed(p, P, C), at[p] \in Steps, UNCHANGED <<dbVars, migrated>>,
             at[p] # "WithMigrations",
             at[p] = "WithDatabases" => "DBPool" \in P
      PROVE  Untroubled'
  <2>1. /\ at'[p] \in Places \ {"down", "failed"}
        /\ at'[p] \in AfterMigrations <=> at[p] \in AfterMigrations
        /\ at'[p] \in AfterMigrations \ {"WithDatabases"} => at[p] \in AfterMigrations
        /\ parts'[p] = parts[p] \cup P
        /\ \A q \in Pods \ {p} : at'[q] = at[q] /\ parts'[q] = parts[q]
    BY <1>0, <1>3, SuccessorIsPlace DEF Proceed, Steps, TypeOK
  <2>2. up' = Services /\ (schema'[MigratedDatabase] = "dirty" => lock' # None)
    BY <1>2, <1>3 DEF Proceed, MigratedDatabase
  <2>3. \A q \in Pods : at'[q] # "failed"
    BY <1>2, <1>3, <2>1
  <2>4. \A q \in Pods : at'[q] \in AfterMigrations => migrated'[q]
    BY <1>2, <1>3, <2>1
  <2>5. \A q \in Pods :
          at'[q] \in AfterMigrations \ {"WithDatabases"} => "DBPool" \in parts'[q]
    BY <1>2, <1>3, <2>1
  <2>6. QED
    BY <2>2, <2>3, <2>4, <2>5 DEF Untroubled, MigratedDatabase
<1>4. ASSUME NEW p \in Pods, MigrateBegin(p) PROVE Untroubled'
  BY <1>0, <1>2, <1>4 DEF MigrateBegin, Untroubled
<1>5. ASSUME NEW p \in Pods, MigrateEnd(p) \/ NothingToMigrate(p) PROVE Untroubled'
  <2>1. at[p] = "WithMigrations" /\ UNCHANGED faults
    BY <1>0, <1>5 DEF MigrateEnd, NothingToMigrate, LockMeansMigrating
  <2>2. /\ at' = [at EXCEPT ![p] = "WithDatabases"]
        /\ migrated' = [migrated EXCEPT ![p] = TRUE]
        /\ parts' = [parts EXCEPT ![p] = @ \cup {}]
        /\ UNCHANGED up /\ schema'[MigratedDatabase] = "new"
    <3>1. Proceed(p, {}, {"Database Migrations"}) /\ migrated' = [migrated EXCEPT ![p] = TRUE]
      BY <1>5 DEF MigrateEnd, NothingToMigrate
    <3>2. /\ at' = [at EXCEPT ![p] = "WithDatabases"]
          /\ parts' = [parts EXCEPT ![p] = @ \cup {}] /\ UNCHANGED up
      BY <1>0, <2>1, <3>1, SuccessorsAre DEF Proceed, TypeOK
    <3>3. schema'[MigratedDatabase] = "new"
      BY <1>0, <1>5 DEF MigrateEnd, NothingToMigrate, TypeOK, MigratedDatabase, Databases
    <3>4. QED
      BY <3>1, <3>2, <3>3
  <2>3. \A q \in Pods : at'[q] # "failed"
    BY <1>0, <1>2, <2>1, <2>2 DEF TypeOK
  <2>4. \A q \in Pods : at'[q] \in AfterMigrations => migrated'[q]
    BY <1>0, <1>2, <2>1, <2>2 DEF TypeOK
  <2>5. \A q \in Pods :
          at'[q] \in AfterMigrations \ {"WithDatabases"} => "DBPool" \in parts'[q]
    BY <1>0, <1>2, <2>1, <2>2 DEF TypeOK
  <2>6. QED
    BY <1>2, <2>1, <2>2, <2>3, <2>4, <2>5 DEF Untroubled, MigratedDatabase
<1>6. ASSUME NEW p \in Pods, MigrationsFail(p) PROVE Untroubled'
  <2>1. faults = 0 /\ ("postgres" \notin up \/ (lock = None /\ schema[MigratedDatabase] = "dirty"))
    BY <1>1, <1>6 DEF MigrationsFail
  <2>2. QED
    BY <1>2, <2>1 DEF Services
<1>7. ASSUME NEW p \in Pods, WithoutConsequence(p) PROVE Untroubled'
  <2>1. at[p] \in Steps \ {"WithMigrations", "WithDatabases"}
    BY <1>7, PlacesAre DEF WithoutConsequence, Steps, AfterMigrations
  <2>2. QED
    BY <1>3, <1>7, <2>1 DEF WithoutConsequence
<1>8. ASSUME NEW p \in Pods, WithDatabases(p) PROVE Untroubled'
  <2>1. at[p] \in Steps \ {"WithMigrations"} /\ faults = 0 /\ "postgres" \in up
    BY <1>2, <1>8, PlacesAre DEF WithDatabases, Steps, AfterMigrations, Services
  <2>2. QED
    BY <1>3, <1>8, <2>1 DEF WithDatabases, Parts
<1>9. ASSUME NEW p \in Pods, WithRedis(p) PROVE Untroubled'
  <2>1. /\ at[p] \in Steps \ {"WithMigrations", "WithDatabases"}
        /\ faults = 0 /\ "redis" \in up
    BY <1>2, <1>9, PlacesAre DEF WithRedis, Steps, AfterMigrations, Services
  <2>2. QED
    BY <1>3, <1>9, <2>1 DEF WithRedis, Parts
<1>10. ASSUME NEW p \in Pods, NEW worker \in Workers, WithWorker(p, worker) PROVE Untroubled'
  <2>1. /\ at[p] \in Steps \ {"WithMigrations", "WithDatabases"}
        /\ at[p] \in AfterMigrations \ {"WithDatabases"}
    BY <1>10, PlacesAre DEF WithWorker, Steps, AfterMigrations, Workers
  <2>2. "DBPool" \in parts[p] /\ faults = 0
    BY <1>2, <1>10, <2>1 DEF WithWorker
  <2>3. QED
    BY <1>3, <1>10, <2>1, <2>2 DEF WithWorker, Parts, Workers
<1>11. ASSUME NEW p \in Pods, WithS3Storage(p) PROVE Untroubled'
  <2>1. at[p] \in Steps \ {"WithMigrations", "WithDatabases"} /\ faults = 0
    BY <1>11, PlacesAre DEF WithS3Storage, Steps, AfterMigrations
  <2>2. QED
    BY <1>3, <1>11, <2>1 DEF WithS3Storage, Parts
<1>12. ASSUME NEW p \in Pods, Start(p) PROVE Untroubled'
  BY <1>0, <1>2, <1>12 DEF Start, Chain, AfterMigrations, Untroubled, TypeOK, MigratedDatabase
<1>13. ASSUME NEW p \in Pods, Fatal(p) PROVE Untroubled'
  BY <1>2, <1>13 DEF Fatal
<1>14. ASSUME NEW p \in Pods, S3Fails(p) \/ ConfigurationFails(p) \/ Crash(p)
       PROVE  Untroubled'
  BY <1>1, <1>14 DEF S3Fails, ConfigurationFails, Crash
<1>15. ASSUME NEW p \in Pods, Launch(p) \/ Probe(p) PROVE Untroubled'
  BY <1>0, <1>15 DEF Launch, Probe, Untroubled, MigratedDatabase
<1>16. ASSUME NEW s \in Services, ServiceFails(s) \/ ServiceRecovers(s) PROVE Untroubled'
  BY <1>1, <1>2, <1>16 DEF ServiceFails, ServiceRecovers
<1>17. CASE UNCHANGED vars
  BY <1>0, <1>17 DEF vars, Untroubled, MigratedDatabase
<1>18. QED
  BY <1>4, <1>5, <1>6, <1>7, <1>8, <1>9, <1>10, <1>11, <1>12, <1>13, <1>14, <1>15, <1>16,
     <1>17 DEF Next, Build, WithMigrations

-----------------------------------------------------------------------------
(***************************************************************************)
(* What a pod has gathered                                                 *)
(***************************************************************************)
LEMMA SuccessorIsAfter ==
  ASSUME NEW step \in Steps, NEW next, next = Successor(step)
  PROVE  /\ next \in AfterMigrations => step \in AfterMigrations \/ step = "WithMigrations"
         /\ next \in AfterDatabases  => step \in AfterDatabases  \/ step = "WithDatabases"
         /\ next \in AfterRedis      => step \in AfterRedis      \/ step = "WithRedis"
         /\ next \in AfterRelay      => step \in AfterRelay      \/ step = "WithOutboxRelay"
         /\ next \in AfterReplicator => step \in AfterReplicator \/ step = "WithStateReplicator"
         /\ next \in AfterProcessor  => step \in AfterProcessor  \/ step = "WithTaskProcessor"
         /\ next = "serving"         => step = "WithS3Storage"
BY SuccessorsAre, PlacesAre DEF Steps, AfterMigrations, AfterDatabases, AfterRedis,
  AfterRelay, AfterReplicator, AfterProcessor

\* A pod that is not among the later steps owes nothing.
LEMMA NothingYet ==
  ASSUME NEW p \in Pods, at[p] \in {"WithLogger", "down", "failed"}
  PROVE  Gathered(p)
BY DEF Gathered, AfterMigrations, AfterDatabases, AfterRedis, AfterRelay,
  AfterReplicator, AfterProcessor

\* A step that ends well leaves what it is there for.
LEMMA ProceedGathers ==
  ASSUME TypeOK, NEW p \in Pods, Gathered(p), NEW P \in SUBSET Parts, NEW C,
         Proceed(p, P, C), at[p] \in Steps, migrated[p] => migrated'[p],
         at[p] = "WithMigrations" => migrated'[p] \/ cfg.isProd,
         at[p] = "WithDatabases" => "DBPool" \in P,
         at[p] = "WithRedis" => "RedisClient" \in P,
         at[p] = "WithOutboxRelay" => cfg.kafka \cap {"OutboxRelay"} \subseteq P,
         at[p] = "WithStateReplicator" => cfg.kafka \cap {"StateReplicator"} \subseteq P,
         at[p] = "WithTaskProcessor" => cfg.kafka \cap {"TaskProcessor"} \subseteq P,
         at[p] = "WithS3Storage" => (cfg.s3 /\ ~cfg.isProd => "S3Storage" \in P)
  PROVE  Gathered(p)'
<1>1. at'[p] = Successor(at[p]) /\ parts'[p] = parts[p] \cup P /\ cfg' = cfg
  BY DEF Proceed, TypeOK
<1>2. PICK now : now = at'[p]
  OBVIOUS
<1>3. /\ now \in AfterMigrations => migrated'[p] \/ cfg.isProd
      /\ now \in AfterDatabases  => "DBPool" \in parts[p] \cup P
      /\ now \in AfterRedis      => "RedisClient" \in parts[p] \cup P
      /\ now \in AfterRelay      => cfg.kafka \cap {"OutboxRelay"} \subseteq parts[p] \cup P
      /\ now \in AfterReplicator => cfg.kafka \cap {"StateReplicator"} \subseteq parts[p] \cup P
      /\ now \in AfterProcessor  => cfg.kafka \cap {"TaskProcessor"} \subseteq parts[p] \cup P
      /\ now = "serving" /\ cfg.s3 /\ ~cfg.isProd => "S3Storage" \in parts[p] \cup P
  BY <1>1, <1>2, SuccessorIsAfter DEF Gathered
<1>4. QED
  BY <1>1, <1>2, <1>3 DEF Gathered

LEMMA GatheredStep ==
  ASSUME TypeOK, LockMeansMigrating, \A p \in Pods : Gathered(p), [Next]_vars
  PROVE  \A p \in Pods : Gathered(p)'
<1> USE DEF podVars, dbVars
\* Gathered(q) looks at q's own variables and the configuration.
<1>1. ASSUME NEW q \in Pods, cfg' = cfg, at'[q] = at[q], parts'[q] = parts[q],
             migrated'[q] = migrated[q]
      PROVE  Gathered(q)'
  <2>1. Gathered(q)
    OBVIOUS
  <2>2. QED
    BY <1>1, <2>1 DEF Gathered
<1>2. ASSUME NEW p \in Pods, NEW q \in Pods \ {p},
             \/ Build(p) \/ S3Fails(p) \/ ConfigurationFails(p)
             \/ Start(p) \/ Die(p)
      PROVE  Gathered(q)'
  <2>1. cfg' = cfg /\ at'[q] = at[q] /\ parts'[q] = parts[q] /\ migrated'[q] = migrated[q]
    BY <1>2 DEF TypeOK, Build, S3Fails, ConfigurationFails, Start, Die, WithMigrations,
       MigrateBegin, MigrateEnd,
       NothingToMigrate, MigrationsFail, WithoutConsequence, WithDatabases, WithRedis,
       WithS3Storage, WithWorker, Proceed, GiveUp
  <2>2. QED
    BY <1>1, <2>1
<1>3. ASSUME NEW p \in Pods, GiveUp(p) \/ Start(p) \/ Die(p) PROVE Gathered(p)'
  <2>1. at'[p] \in {"WithLogger", "down", "failed"}
    BY <1>3 DEF GiveUp, Start, Die, Chain, TypeOK
  <2>2. QED
    BY <2>1 DEF Gathered, AfterMigrations, AfterDatabases, AfterRedis, AfterRelay,
       AfterReplicator, AfterProcessor
<1>4. ASSUME NEW p \in Pods, WithMigrations(p) PROVE Gathered(p)'
  <2>1. at[p] = "WithMigrations" /\ at[p] \in Steps
    BY <1>4, PlacesAre DEF WithMigrations, MigrateBegin, MigrateEnd, NothingToMigrate,
       MigrationsFail, LockMeansMigrating, Steps
  <2>2. CASE MigrateBegin(p)
    BY <1>1, <2>2 DEF MigrateBegin
  <2>3. CASE MigrateEnd(p) \/ NothingToMigrate(p)
    <3>1. Proceed(p, {}, {"Database Migrations"}) /\ migrated'[p]
      BY <2>3 DEF MigrateEnd, NothingToMigrate, TypeOK
    <3>2. QED
      BY <2>1, <3>1, ProceedGathers
  <2>4. CASE MigrationsFail(p) /\ cfg.isProd
    <3>1. Proceed(p, {}, {"Database Migrations"}) /\ migrated'[p] = migrated[p]
      BY <2>4 DEF MigrationsFail
    <3>2. QED
      BY <2>1, <2>4, <3>1, ProceedGathers
  <2>5. CASE MigrationsFail(p) /\ ~cfg.isProd
    BY <1>3, <2>5 DEF MigrationsFail
  <2>6. QED
    BY <1>4, <2>2, <2>3, <2>4, <2>5 DEF WithMigrations
<1>5. ASSUME NEW p \in Pods, NEW P \in SUBSET Parts, NEW C, at[p] \in Steps \ {"WithMigrations"},
             Proceed(p, P, C), UNCHANGED migrated,
             at[p] = "WithDatabases" => "DBPool" \in P,
             at[p] = "WithRedis" => "RedisClient" \in P,
             at[p] = "WithOutboxRelay" => cfg.kafka \cap {"OutboxRelay"} \subseteq P,
             at[p] = "WithStateReplicator" => cfg.kafka \cap {"StateReplicator"} \subseteq P,
             at[p] = "WithTaskProcessor" => cfg.kafka \cap {"TaskProcessor"} \subseteq P,
             at[p] = "WithS3Storage" => (cfg.s3 /\ ~cfg.isProd => "S3Storage" \in P)
      PROVE  Gathered(p)'
  BY <1>5, ProceedGathers
<1> USE PlacesAre DEF Steps, AfterMigrations, Parts
<1>6. ASSUME NEW p \in Pods, WithoutConsequence(p) PROVE Gathered(p)'
  BY <1>5, <1>6 DEF WithoutConsequence
<1>7. ASSUME NEW p \in Pods, WithDatabases(p) PROVE Gathered(p)'
  BY <1>3, <1>5, <1>7 DEF WithDatabases
<1>8. ASSUME NEW p \in Pods, WithRedis(p) PROVE Gathered(p)'
  BY <1>3, <1>5, <1>8 DEF WithRedis
<1>9. ASSUME NEW p \in Pods, WithS3Storage(p) \/ S3Fails(p) PROVE Gathered(p)'
  BY <1>3, <1>5, <1>9 DEF WithS3Storage, S3Fails
<1>10. ASSUME NEW p \in Pods, NEW worker \in Workers, WithWorker(p, worker) PROVE Gathered(p)'
  <2>1. CASE worker = "OutboxRelay"
    BY <1>3, <1>5, <1>10, <2>1 DEF WithWorker, Workers
  <2>2. CASE worker = "StateReplicator"
    BY <1>3, <1>5, <1>10, <2>2 DEF WithWorker, Workers
  <2>3. CASE worker = "TaskProcessor"
    BY <1>3, <1>5, <1>10, <2>3 DEF WithWorker, Workers
  <2>4. QED
    BY <2>1, <2>2, <2>3 DEF Workers
<1>11. ASSUME NEW p \in Pods,
              \/ Build(p) \/ S3Fails(p) \/ ConfigurationFails(p)
              \/ Start(p) \/ Fatal(p) \/ Crash(p)
       PROVE  \A q \in Pods : Gathered(q)'
  <2>1. Gathered(p)'
    BY <1>3, <1>4, <1>6, <1>7, <1>8, <1>9, <1>10, <1>11
       DEF Build, ConfigurationFails, Fatal, Crash
  <2>2. ASSUME NEW q \in Pods \ {p} PROVE Gathered(q)'
    BY <1>2, <1>11 DEF Fatal, Crash
  <2>3. QED
    BY <2>1, <2>2
<1>12. ASSUME \/ \E p \in Pods : Launch(p) \/ Probe(p)
              \/ \E s \in Services : ServiceFails(s) \/ ServiceRecovers(s)
              \/ UNCHANGED vars
       PROVE  \A q \in Pods : Gathered(q)'
  <2>1. UNCHANGED <<cfg, at, parts, migrated>>
    BY <1>12 DEF Launch, Probe, ServiceFails, ServiceRecovers, vars
  <2>2. QED
    BY <1>1, <2>1
<1>13. QED
  BY <1>11, <1>12 DEF Next

LEMMA StartupInvInit == Init => StartupInv
<1> SUFFICES ASSUME Init PROVE StartupInv
  OBVIOUS
<1>1. TypeOK
  BY PlacesAre DEF Init, TypeOK
<1>2. \A p \in Pods : at[p] = "down" /\ ~ready[p] /\ ~migrated[p]
  BY DEF Init
<1>3. up = Services /\ lock = None /\ schema[MigratedDatabase] = "old"
  BY DEF Init, MigratedDatabase, Databases
<1>4. \A p \in Pods : Gathered(p)
  BY <1>2, NothingYet
<1>5. QED
  BY <1>1, <1>2, <1>3, <1>4 DEF StartupInv, LockMeansMigrating, MigratedIsNew,
     CheckerIsRegistered, ReadyIsMigrated, Untroubled, AfterMigrations

LEMMA StartupInvStep == StartupInv /\ [Next]_vars => StartupInv'
<1> SUFFICES ASSUME StartupInv, [Next]_vars PROVE StartupInv'
  OBVIOUS
<1>1. TypeOK /\ SchemaInv /\ LockMeansMigrating /\ \A p \in Pods : Gathered(p)
  BY DEF StartupInv, SchemaInv
<1>2. TypeOK' /\ SchemaInv' /\ Untroubled'
  BY <1>1, TypeStep, SchemaStep, UntroubledStep
<1>3. \A p \in Pods : Gathered(p)'
  BY <1>1, GatheredStep
<1>4. QED
  BY <1>2, <1>3 DEF StartupInv, SchemaInv

-----------------------------------------------------------------------------
(***************************************************************************)
(* Theorems                                                                *)
(***************************************************************************)

\* The inductive invariant: the schema, the lock and the flags that the pods
\* keep about them agree at every moment of every start.
THEOREM StartupInvCorrect == Spec => []StartupInv
<1>1. QED
  BY StartupInvInit, StartupInvStep, PTL DEF Spec

\* Type correctness.
THEOREM TypeCorrect == Spec => []TypeOK
<1>1. StartupInv => TypeOK
  BY DEF StartupInv
<1>2. QED
  BY <1>1, StartupInvCorrect, PTL

\* The traffic is blocked until the schema is there, whoever applies it, if
\* the pool opens the database that was migrated.
THEOREM TrafficIsBlocked ==
  ASSUME ~TwoDatabases
  PROVE  Spec => []ReadyMeansMigrated
<1>1. StartupInv => ReadyMeansMigrated
  BY DEF StartupInv, ReadyIsMigrated, MigratedIsNew, ReadyMeansMigrated, PoolDatabase,
    MigratedDatabase
<1>2. QED
  BY <1>1, StartupInvCorrect, PTL

\* Whichever steps of whichever pods failed meanwhile, a pod that serves has its
\* pool, its Redis client and the workers that its configuration enables, and in
\* development its migrations and S3 too; in production those two may be missing.
THEOREM ServingIsComplete == Spec => []ServesComplete
<1>1. StartupInv => ServesComplete
  <2> SUFFICES ASSUME StartupInv, NEW p \in Pods, at[p] = "serving"
               PROVE  Required \ Lenient \subseteq parts[p] /\ (migrated[p] \/ cfg.isProd)
    BY DEF ServesComplete
  <2>1. Gathered(p) /\ cfg.kafka \subseteq Workers
    BY DEF StartupInv, TypeOK
  <2>2. QED
    BY <2>1 DEF Gathered, AfterMigrations, AfterDatabases, AfterRedis, AfterRelay,
       AfterReplicator, AfterProcessor, Required, Lenient, Workers
<1>2. QED
  BY <1>1, StartupInvCorrect, PTL

\* Any number of pods that start at once on an empty database come up.
THEOREM CleanStartCorrect == Spec => []CleanStart
<1>1. StartupInv => CleanStart
  BY DEF StartupInv, Untroubled, CleanStart, AfterMigrations
<1>2. QED
  BY <1>1, StartupInvCorrect, PTL

-----------------------------------------------------------------------------
(***************************************************************************)
(* What does not mend itself                                               *)
(***************************************************************************)

\* MigrateBegin starts from an old schema, MigrateEnd with the lock.
LEMMA BrokenOffStep ==
  ASSUME TypeOK, BrokenOff, [Next]_vars
  PROVE  BrokenOff'
<1> USE DEF TypeOK, BrokenOff, dbVars, podVars
<1>1. ASSUME NEW p \in Pods, Build(p) \/ S3Fails(p) \/ ConfigurationFails(p) PROVE BrokenOff'
  <2>1. MigratesOrNot(p)
    BY <1>1, StepsMigrateOrNot
  <2>2. ~MigrateBegin(p) /\ ~MigrateEnd(p) /\ ~NothingToMigrate(p)
    BY DEF MigrateBegin, MigrateEnd, NothingToMigrate
  <2>3. QED
    BY <2>1, <2>2 DEF MigratesOrNot
<1>2. ASSUME NEW p \in Pods, Start(p) \/ Launch(p) \/ Probe(p) PROVE BrokenOff'
  BY <1>2 DEF Start, Launch, Probe
<1>3. ASSUME NEW p \in Pods, Fatal(p) \/ Crash(p) PROVE BrokenOff'
  BY <1>3 DEF Fatal, Crash, Die
<1>4. ASSUME NEW s \in Services, ServiceFails(s) \/ ServiceRecovers(s) PROVE BrokenOff'
  BY <1>4 DEF ServiceFails, ServiceRecovers
<1>5. CASE UNCHANGED vars
  BY <1>5 DEF vars
<1>6. QED
  BY <1>1, <1>2, <1>3, <1>4, <1>5 DEF Next

\* One failure in the middle of a migration, of a pod or of PostgreSQL, keeps
\* every pod from traffic from then on: no restart helps, in either environment.
THEOREM BrokenOffStaysBrokenOff == Spec => BrokenOffIsFinal
<1>1. StartupInv /\ BrokenOff /\ [Next]_vars => BrokenOff'
  BY BrokenOffStep DEF StartupInv
<1>2. StartupInv /\ BrokenOff => \A p \in Pods : ~ready[p]
  BY DEF StartupInv, ReadyIsMigrated, MigratedIsNew, BrokenOff
<1>3. QED
  BY <1>1, <1>2, StartupInvCorrect, PTL DEF Spec, BrokenOffIsFinal

\* A pod that has come up without its migrations stays without traffic until it
\* is started again, also when another pod has migrated the database meanwhile.
THEOREM BlockedPodsStayBlocked == Spec => BlockedStaysBlocked
<1> DEFINE Stays(p) == Blocked(p) /\ at'[p] = "serving" => Blocked(p)' /\ ~ready'[p]
<1>1. ASSUME StartupInv, StartupInv', [Next]_vars, NEW p \in Pods,
             Blocked(p), at'[p] = "serving"
      PROVE  Blocked(p)' /\ ~ready'[p]
  <2>0. TypeOK /\ SchemaInv
    BY <1>1 DEF StartupInv, SchemaInv
  <2> USE DEF TypeOK, Blocked, dbVars, podVars
  <2>1. UNCHANGED cfg
    BY <1>1 DEF Next, Build, S3Fails, ConfigurationFails, Start, Fatal, Crash, Die, Launch,
       Probe, ServiceFails,
       ServiceRecovers, WithMigrations, MigrateBegin, MigrateEnd, NothingToMigrate,
       MigrationsFail, WithoutConsequence, WithDatabases, WithRedis, WithS3Storage,
       WithWorker, Proceed, GiveUp, vars
  <2>2. migrated'[p] = migrated[p]
    <3>1. ASSUME NEW q \in Pods, Build(q) \/ S3Fails(q) \/ ConfigurationFails(q)
          PROVE  migrated'[p] = migrated[p]
      <4>1. MigratesOrNot(q)
        BY <3>1, StepsMigrateOrNot
      <4>2. CASE MigrateEnd(q) \/ NothingToMigrate(q)
        <5>1. at[q] = "WithMigrations"
          BY <2>0, <4>2 DEF MigrateEnd, NothingToMigrate, SchemaInv, LockMeansMigrating
        <5>2. q # p
          BY <1>1, <5>1
        <5>3. QED
          BY <2>0, <4>2, <5>2 DEF MigrateEnd, NothingToMigrate
      <4>3. QED
        BY <4>1, <4>2 DEF MigratesOrNot, MigrateBegin, GiveUp
    <3>2. ASSUME NEW q \in Pods, Start(q) PROVE migrated'[p] = migrated[p]
      BY <1>1, <2>0, <3>2 DEF Start
    <3>3. ASSUME NEW q \in Pods, Fatal(q) \/ Crash(q) \/ Launch(q) \/ Probe(q)
          PROVE  migrated'[p] = migrated[p]
      BY <3>3 DEF Fatal, Crash, Die, Launch, Probe
    <3>4. ASSUME NEW s \in Services, ServiceFails(s) \/ ServiceRecovers(s)
          PROVE  migrated'[p] = migrated[p]
      BY <3>4 DEF ServiceFails, ServiceRecovers
    <3>5. CASE UNCHANGED vars
      BY <3>5 DEF vars
    <3>6. QED
      BY <1>1, <3>1, <3>2, <3>3, <3>4, <3>5 DEF Next
  <2>3. Blocked(p)'
    BY <1>1, <2>1, <2>2
  <2>4. ~ready'[p]
    BY <1>1, <2>3 DEF StartupInv, ReadyIsMigrated
  <2>5. QED
    BY <2>3, <2>4
<1>2. StartupInv /\ StartupInv' /\ [Next]_vars => \A p \in Pods : Stays(p)
  BY <1>1
<1>3. StartupInv /\ StartupInv' /\ [Next]_vars => [\A p \in Pods : Stays(p)]_vars
  BY <1>2
<1>4. QED
  BY <1>3, StartupInvCorrect, PTL DEF Spec, BlockedStaysBlocked
=============================================================================
