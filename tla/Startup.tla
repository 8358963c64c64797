------------------------------- MODULE Startup -------------------------------
(***************************************************************************)
(* How a pod comes up: main() of cmd/api/main.go calls the steps of the    *)
(* Builder of internal/app/app.go one after the other, migrations first,   *)
(* and, when none failed, serves; /readyz (core/pkg/corerouter/system.go)  *)
(* then asks the checkers that the steps have registered.  Several pods    *)
(* start, die and start again against one PostgreSQL.                      *)
(***************************************************************************)
EXTENDS Naturals, Sequences

CONSTANTS
  Pods,
  MaxFaults,    \* bound on the failures explored
  TwoDatabases, \* db_names is set too, and names another database than db_name
  None          \* nobody migrates

ASSUME StartupAssumption ==
  /\ MaxFaults \in Nat
  /\ TwoDatabases \in BOOLEAN
  /\ None \notin Pods

VARIABLES
  cfg,       \* config.yml, the same for all pods
  up,        \* the services that answer
  schema,    \* PostgreSQL: the schema of each database
  lock,      \* PostgreSQL: the pod that has the migrator's advisory lock
  at,        \* the step of the Builder that each pod calls next
  parts,     \* what its Microservice consists of so far
  migrated,  \* its flag MigrationsReady
  checkers,  \* its HealthCheckers
  relaying,  \* its OutboxRelay.isHealthy
  ready,     \* what its /readyz answered last
  faults

podVars == <<at, parts, migrated, checkers, relaying, ready>>
dbVars  == <<schema, lock>>
vars    == <<cfg, up, dbVars, podVars, faults>>

Services  == {"postgres", "redis", "s3"}
Databases == {"db_name", "db_names"}
Workers   == {"OutboxRelay", "StateReplicator", "TaskProcessor"}
Parts     == {"DBPool", "RedisClient", "S3Storage"} \cup Workers
Checkers  == {"Database Migrations", "PostgreSQL Database", "Redis Cache",
              "Kafka Outbox Relay", "SyncHistory", "s3_storage"}

\* A seeded mistake: the workers come before the pool that they need.
ChainWorkersFirst ==
  <<"WithLogger", "WithOutboxRelay", "WithStateReplicator", "WithTaskProcessor",
    "WithMigrations", "WithDatabases", "WithRedis", "WithS3Storage">>

\* main() from NewBuilder to Build
Chain == <<"WithLogger", "WithCORS", "WithTracing", "WithMigrations",
           "WithDatabases", "WithRedis", "WithEncryptor", "WithOutboxRelay",
           "WithStateReplicator", "WithTaskProcessor", "WithGRPCServer",
           "WithS3Storage">>

\* down: no process; failed: b.err is set, the steps that are left return at
\* once and main calls log.Fatalf; serving: Run
Places == {Chain[i] : i \in 1 .. Len(Chain)} \cup {"down", "failed", "serving"}

TypeOK ==
  /\ cfg \in [isProd : BOOLEAN, s3 : BOOLEAN, redisPing : BOOLEAN, kafka : SUBSET Workers]
  /\ up       \in SUBSET Services
  /\ schema   \in [Databases -> {"old", "dirty", "new"}]
  /\ lock     \in Pods \cup {None}
  /\ at       \in [Pods -> Places]
  /\ parts    \in [Pods -> SUBSET Parts]
  /\ migrated \in [Pods -> BOOLEAN]
  /\ checkers \in [Pods -> SUBSET Checkers]
  /\ relaying \in [Pods -> BOOLEAN]
  /\ ready    \in [Pods -> BOOLEAN]
  /\ faults   \in 0 .. MaxFaults

Init ==
  /\ cfg \in [isProd : BOOLEAN, s3 : BOOLEAN, redisPing : BOOLEAN, kafka : SUBSET Workers]
  /\ up       = Services
  /\ schema   = [d \in Databases |-> "old"]
  /\ lock     = None
  /\ at       = [p \in Pods |-> "down"]
  /\ parts    = [p \in Pods |-> {}]
  /\ migrated = [p \in Pods |-> FALSE]
  /\ checkers = [p \in Pods |-> {}]
  /\ relaying = [p \in Pods |-> FALSE]
  /\ ready    = [p \in Pods |-> FALSE]
  /\ faults   = 0

-----------------------------------------------------------------------------
(***************************************************************************)
(* Helpers                                                                 *)
(***************************************************************************)
Fault == faults < MaxFaults /\ faults' = faults + 1

Successor(step) ==
  IF step = Chain[Len(Chain)] THEN "serving"
  ELSE Chain[1 + CHOOSE i \in 1 .. Len(Chain) : Chain[i] = step]

\* A step ends well, adds its parts and registers its checkers.
Proceed(p, newParts, newCheckers) ==
  /\ at' = [at EXCEPT ![p] = Successor(@)]
  /\ parts' = [parts EXCEPT ![p] = @ \cup newParts]
  /\ checkers' = [checkers EXCEPT ![p] = @ \cup newCheckers]
  /\ UNCHANGED <<cfg, up, relaying, ready>>

\* A step sets b.err.
GiveUp(p) ==
  /\ at' = [at EXCEPT ![p] = "failed"]
  /\ UNCHANGED <<cfg, up, parts, migrated, checkers, relaying, ready>>

\* The process is gone, and with it its session and the advisory lock.
Die(p) ==
  /\ at' = [at EXCEPT ![p] = "down"]
  /\ relaying' = [relaying EXCEPT ![p] = FALSE]
  /\ ready' = [ready EXCEPT ![p] = FALSE]
  /\ lock' = IF lock = p THEN None ELSE lock
  /\ UNCHANGED <<cfg, up, schema, parts, migrated, checkers>>

\* migrate.Run opens db_name; WithDatabases prefers the first of db_names.
MigratedDatabase == "db_name"
PoolDatabase == IF TwoDatabases THEN "db_names" ELSE "db_name"

-----------------------------------------------------------------------------
(***************************************************************************)
(* Seeded mistakes: variants of definitions below, not part of Spec.       *)
(***************************************************************************)

\* Run returns migrate.ErrNoChange like any other error.
NothingToMigrateFails(p) ==
  /\ at[p] = "WithMigrations" /\ "postgres" \in up /\ lock = None
  /\ schema[MigratedDatabase] = "new"
  /\ IF cfg.isProd
     THEN Proceed(p, {}, {"Database Migrations"}) /\ UNCHANGED migrated
     ELSE GiveUp(p)
  /\ UNCHANGED <<dbVars, faults>>

\* In production the checker is registered only when the migrations went well.
MigrationsFailUnchecked(p) ==
  /\ at[p] = "WithMigrations"
  /\ \/ "postgres" \notin up /\ UNCHANGED faults
     \/ lock = None /\ schema[MigratedDatabase] = "dirty" /\ UNCHANGED faults
     \/ "postgres" \in up /\ Fault
  /\ IF cfg.isProd THEN Proceed(p, {}, {}) /\ UNCHANGED migrated ELSE GiveUp(p)
  /\ lock' = IF lock = p THEN None ELSE lock
  /\ UNCHANGED schema

\* The error of NewPool is logged only.
WithDatabasesUnchecked(p) ==
  /\ at[p] = "WithDatabases"
  /\ Proceed(p, IF "postgres" \in up THEN {"DBPool"} ELSE {}, {"PostgreSQL Database"})
  /\ UNCHANGED <<dbVars, migrated, faults>>

-----------------------------------------------------------------------------
(***************************************************************************)
(* The migrations                                                          *)
(***************************************************************************)

\* m.Up takes the lock and, with a migration left to apply, marks the version
\* dirty while it runs.
MigrateBegin(p) ==
  /\ at[p] = "WithMigrations" /\ "postgres" \in up /\ lock = None
  /\ schema[MigratedDatabase] = "old"
  /\ schema' = [schema EXCEPT ![MigratedDatabase] = "dirty"]
  /\ lock' = p
  /\ UNCHANGED <<cfg, up, podVars, faults>>

MigrateEnd(p) ==
  /\ lock = p /\ "postgres" \in up
  /\ schema' = [schema EXCEPT ![MigratedDatabase] = "new"]
  /\ lock' = None
  /\ migrated' = [migrated EXCEPT ![p] = TRUE]
  /\ Proceed(p, {}, {"Database Migrations"})
  /\ UNCHANGED faults

\* migrate.ErrNoChange is no error.
NothingToMigrate(p) ==
  /\ at[p] = "WithMigrations" /\ "postgres" \in up /\ lock = None
  /\ schema[MigratedDatabase] = "new"
  /\ migrated' = [migrated EXCEPT ![p] = TRUE]
  /\ Proceed(p, {}, {"Database Migrations"})
  /\ UNCHANGED <<dbVars, faults>>

\* No connection, a dirty version, a lock timeout or a statement that fails.  In
\* development that is the end; in production the pod goes on without traffic.
MigrationsFail(p) ==
  /\ at[p] = "WithMigrations"
  /\ \/ "postgres" \notin up /\ UNCHANGED faults
     \/ lock = None /\ schema[MigratedDatabase] = "dirty" /\ UNCHANGED faults
     \/ "postgres" \in up /\ Fault
  /\ IF cfg.isProd
     THEN Proceed(p, {}, {"Database Migrations"}) /\ UNCHANGED migrated
     ELSE GiveUp(p)
  /\ lock' = IF lock = p THEN None ELSE lock
  /\ UNCHANGED schema

WithMigrations(p) ==
  MigrateBegin(p) \/ MigrateEnd(p) \/ NothingToMigrate(p) \/ MigrationsFail(p)

-----------------------------------------------------------------------------
(***************************************************************************)
(* The other steps of the Builder                                          *)
(***************************************************************************)

\* Steps that leave nothing behind that another step or /readyz looks at.
WithoutConsequence(p) ==
  /\ at[p] \in {"WithLogger", "WithCORS", "WithTracing", "WithEncryptor", "WithGRPCServer"}
  /\ Proceed(p, {}, {})
  /\ UNCHANGED <<dbVars, migrated, faults>>

\* NewPool pings.
WithDatabases(p) ==
  /\ at[p] = "WithDatabases"
  /\ IF "postgres" \in up
     THEN Proceed(p, {"DBPool"}, {"PostgreSQL Database"}) /\ UNCHANGED migrated
     ELSE GiveUp(p)
  /\ UNCHANGED <<dbVars, faults>>

\* NewRedisManager pings, but not a standalone Redis.
WithRedis(p) ==
  /\ at[p] = "WithRedis"
  /\ IF "redis" \in up \/ ~cfg.redisPing
     THEN Proceed(p, {"RedisClient"}, {"Redis Cache"}) /\ UNCHANGED migrated
     ELSE GiveUp(p)
  /\ UNCHANGED <<dbVars, faults>>

CheckersOf(worker) ==
  CASE worker = "OutboxRelay"     -> {"Kafka Outbox Relay"}
    [] worker = "StateReplicator" -> {"SyncHistory"}
    [] worker = "TaskProcessor"   -> {}

\* The workers insist on the pool.
WithWorker(p, worker) ==
  /\ at[p] = CASE worker = "OutboxRelay"     -> "WithOutboxRelay"
               [] worker = "StateReplicator" -> "WithStateReplicator"
               [] worker = "TaskProcessor"   -> "WithTaskProcessor"
  /\ IF worker \notin cfg.kafka THEN Proceed(p, {}, {}) /\ UNCHANGED migrated
     ELSE IF "DBPool" \notin parts[p] THEN GiveUp(p)
     ELSE Proceed(p, {worker}, CheckersOf(worker)) /\ UNCHANGED migrated
  /\ UNCHANGED <<dbVars, faults>>

\* NewS3Client contacts nobody.
WithS3Storage(p) ==
  /\ at[p] = "WithS3Storage"
  /\ Proceed(p, IF cfg.s3 THEN {"S3Storage"} ELSE {}, IF cfg.s3 THEN {"s3_storage"} ELSE {})
  /\ UNCHANGED <<dbVars, migrated, faults>>

\* The AWS configuration of the environment does not load: a warning in
\* production, and no checker.
S3Fails(p) ==
  /\ at[p] = "WithS3Storage" /\ cfg.s3
  /\ IF cfg.isProd THEN Proceed(p, {}, {}) /\ UNCHANGED migrated ELSE GiveUp(p)
  /\ Fault
  /\ UNCHANGED dbVars

\* The collector's address, the master key or the name of the database with
\* which a pod is started is not usable.
ConfigurationFails(p) ==
  /\ at[p] \in {"WithTracing", "WithEncryptor", "WithDatabases"}
  /\ GiveUp(p) /\ Fault
  /\ UNCHANGED dbVars

Build(p) ==
  \/ WithMigrations(p) \/ WithoutConsequence(p) \/ WithDatabases(p) \/ WithRedis(p)
  \/ WithS3Storage(p) \/ \E worker \in Workers : WithWorker(p, worker)

-----------------------------------------------------------------------------
(***************************************************************************)
(* The process                                                             *)
(***************************************************************************)
Start(p) ==
  /\ at[p] = "down"
  /\ at' = [at EXCEPT ![p] = Chain[1]]
  /\ parts' = [parts EXCEPT ![p] = {}]
  /\ migrated' = [migrated EXCEPT ![p] = FALSE]
  /\ checkers' = [checkers EXCEPT ![p] = {}]
  /\ UNCHANGED <<cfg, up, dbVars, relaying, ready, faults>>

\* Build returns b.err and main calls log.Fatalf.
Fatal(p) == at[p] = "failed" /\ Die(p) /\ UNCHANGED faults

Crash(p) == at[p] # "down" /\ Die(p) /\ Fault

\* Run launches the relay, which says that it is healthy.
Launch(p) ==
  /\ at[p] = "serving" /\ "OutboxRelay" \in parts[p] /\ ~relaying[p]
  /\ relaying' = [relaying EXCEPT ![p] = TRUE]
  /\ UNCHANGED <<cfg, up, dbVars, at, parts, migrated, checkers, ready, faults>>

\* IsHealthy of the checkers.  SyncHistory queries a table of the pool's database
\* that stays empty and lets the pod pass (StateReplicator says why), but that
\* the migrations have to create there.
IsHealthy(p, checker) ==
  CASE checker = "Database Migrations" -> migrated[p]
    [] checker = "PostgreSQL Database" -> "postgres" \in up
    [] checker = "Redis Cache"         -> "redis" \in up
    [] checker = "Kafka Outbox Relay"  -> relaying[p]
    [] checker = "SyncHistory"         -> "postgres" \in up /\ schema[PoolDatabase] = "new"
    [] checker = "s3_storage"          -> "s3" \in up

\* GET /readyz
Probe(p) ==
  /\ at[p] = "serving"
  /\ ready' = [ready EXCEPT ![p] = \A c \in checkers[p] : IsHealthy(p, c)]
  /\ UNCHANGED <<cfg, up, dbVars, at, parts, migrated, checkers, relaying, faults>>

\* PostgreSQL ends its sessions, and with them the lock.
ServiceFails(s) ==
  /\ s \in up /\ up' = up \ {s}
  /\ lock' = IF s = "postgres" THEN None ELSE lock
  /\ Fault
  /\ UNCHANGED <<cfg, schema, podVars>>

ServiceRecovers(s) ==
  /\ s \notin up /\ up' = up \cup {s}
  /\ UNCHANGED <<cfg, dbVars, podVars, faults>>

-----------------------------------------------------------------------------
Next ==
  \/ \E p \in Pods :
       \/ Build(p) \/ S3Fails(p) \/ ConfigurationFails(p)
       \/ Start(p) \/ Fatal(p) \/ Crash(p) \/ Launch(p) \/ Probe(p)
  \/ \E s \in Services : ServiceFails(s) \/ ServiceRecovers(s)

Spec == Init /\ [][Next]_vars

(***************************************************************************)
(* main does not stop between two steps, the orchestrator starts pods that *)
(* are down and probes those that are up, and services come back.          *)
(***************************************************************************)
Fairness ==
  /\ \A p \in Pods :
       /\ WF_vars(Build(p)) /\ WF_vars(Start(p) \/ Fatal(p))
       /\ WF_vars(Launch(p)) /\ WF_vars(Probe(p))
  /\ \A s \in Services : WF_vars(ServiceRecovers(s))

FairSpec == Spec /\ Fairness

-----------------------------------------------------------------------------
(***************************************************************************)
(* Properties                                                              *)
(***************************************************************************)

\* "Critical migration error (Prod). Traffic is blocked.": a pod that is ready
\* has a pool whose database has the schema, although in production it comes up
\* without, and whichever pod applied it.
ReadyMeansMigrated == \A p \in Pods : ready[p] => schema[PoolDatabase] = "new"

\* Pods that start at the same time on an empty database do not get in each
\* other's way: as long as nothing failed, no pod gives up and none is blocked.
CleanStart ==
  faults = 0 => \A p \in Pods :
    /\ at[p] # "failed"
    /\ at[p] = "serving" => migrated[p]

\* A pod that serves has its pool, its Redis client and the workers that its
\* configuration enables, whatever failed while it came up.  In development its
\* migrations went well and it has S3 if that is enabled; in production neither
\* need be so.
Lenient == IF cfg.isProd THEN {"S3Storage"} ELSE {}
Required ==
  {"DBPool", "RedisClient"} \cup cfg.kafka \cup (IF cfg.s3 THEN {"S3Storage"} ELSE {})
ServesComplete ==
  \A p \in Pods : at[p] = "serving" =>
    /\ Required \ Lenient \subseteq parts[p]
    /\ migrated[p] \/ cfg.isProd

(***************************************************************************)
(* Why the three hold: an inductive invariant.                             *)
(***************************************************************************)
AfterMigrations ==
  {"WithDatabases", "WithRedis", "WithEncryptor", "WithOutboxRelay", "WithStateReplicator",
   "WithTaskProcessor", "WithGRPCServer", "WithS3Storage", "serving"}

\* The lock's holder is migrating, and until it is through the version is dirty.
LockMeansMigrating ==
  lock # None => at[lock] = "WithMigrations" /\ schema[MigratedDatabase] = "dirty"

\* Nobody that was told that the schema is there is told wrong later.
MigratedIsNew == \A p \in Pods : migrated[p] => schema[MigratedDatabase] = "new"

\* Every pod that got past the migrations, well or not, asks about them.
CheckerIsRegistered ==
  \A p \in Pods : at[p] \in AfterMigrations => "Database Migrations" \in checkers[p]

ReadyIsMigrated == \A p \in Pods : ready[p] => at[p] = "serving" /\ migrated[p]

\* Without a failure each step finds what it needs.
Untroubled ==
  faults = 0 =>
    /\ up = Services
    /\ schema[MigratedDatabase] = "dirty" => lock # None
    /\ \A p \in Pods :
         /\ at[p] # "failed"
         /\ at[p] \in AfterMigrations => migrated[p]
         /\ at[p] \in AfterMigrations \ {"WithDatabases"} => "DBPool" \in parts[p]

\* Each step leaves behind what the configuration asks of it, or the chain ends
\* there; only in production the migrations and S3 may come to nothing.
AfterDatabases  == AfterMigrations \ {"WithDatabases"}
AfterRedis      == AfterDatabases \ {"WithRedis"}
AfterRelay      == AfterRedis \ {"WithEncryptor", "WithOutboxRelay"}
AfterReplicator == AfterRelay \ {"WithStateReplicator"}
AfterProcessor  == AfterReplicator \ {"WithTaskProcessor"}

Gathered(p) ==
  /\ at[p] \in AfterMigrations => migrated[p] \/ cfg.isProd
  /\ at[p] \in AfterDatabases  => "DBPool" \in parts[p]
  /\ at[p] \in AfterRedis      => "RedisClient" \in parts[p]
  /\ at[p] \in AfterRelay      => cfg.kafka \cap {"OutboxRelay"} \subseteq parts[p]
  /\ at[p] \in AfterReplicator => cfg.kafka \cap {"StateReplicator"} \subseteq parts[p]
  /\ at[p] \in AfterProcessor  => cfg.kafka \cap {"TaskProcessor"} \subseteq parts[p]
  /\ at[p] = "serving" /\ cfg.s3 /\ ~cfg.isProd => "S3Storage" \in parts[p]

StartupInv ==
  /\ TypeOK /\ LockMeansMigrating /\ MigratedIsNew /\ CheckerIsRegistered
  /\ ReadyIsMigrated /\ Untroubled /\ \A p \in Pods : Gathered(p)

\* Once failures stop, every pod gets ready for good, unless a migration broke
\* off and left the database dirty, or the pod came up blocked in production:
\* nothing in the code repairs either.
Blocked(p) == cfg.isProd /\ at[p] = "serving" /\ ~migrated[p]
EventuallyReady ==
  \A p \in Pods : <>[](ready[p] \/ Blocked(p) \/ schema[MigratedDatabase] = "dirty")

\* What EventuallyReady excepts does not mend itself.  A version that a migrator
\* left dirty, because it or PostgreSQL died under it, stays dirty, and from then
\* on no pod is ready, those that are yet to start included.
BrokenOff == schema[MigratedDatabase] = "dirty" /\ lock = None
BrokenOffIsFinal == [](BrokenOff => [](BrokenOff /\ \A p \in Pods : ~ready[p]))

\* A pod that came up blocked is never ready in this life: another pod's
\* migrations do not count for it.
BlockedStaysBlocked ==
  [][\A p \in Pods : Blocked(p) /\ at'[p] = "serving" => Blocked(p)' /\ ~ready'[p]]_vars
=============================================================================
