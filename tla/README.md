# A TLA+ model of go-core-init-pack

The repository is a template for Go micro-services: a builder that assembles a
process from optional parts (PostgreSQL, Redis, S3, Kafka workers, HTTP and gRPC
servers), and the parts themselves. Pieces are cut out by `//core:...` markers;
the models take the program with all of them in place, as `cmd/api/main.go`
assembles it, and with several replicas ("pods") running at once.

## 1. Inventory

| part | code (below `src/`) | state it keeps | operations | what makes it correct |
|---|---|---|---|---|
| outbox relay | `core/pkg/kafka/outbox_relay.go`, `migrations/000002*` | rows of `outbox_events`, one transaction and one batch per pod | tick, fetch (`UPDATE ... SKIP LOCKED`), `WriteMessages`, `DELETE`, `COMMIT` | nothing written is lost, nothing is stranded, pods do not share rows, duplicates come from failures only |
| task processor | `core/pkg/kafka/task_processor.go`, `internal/handler/task_handler.go`, `internal/service/task_service.go`, `internal/repository/task_repository.go` | position of the reader, message in hand, committed offset, task status | fetch, handler, commit | the committed offset never passes a task nobody handled; no error is committed |
| state replicator | `core/pkg/kafka/state_replicator.go`, `internal/handler/replicator_handler.go`, `internal/service/replicator_service.go` | the same, and `sync_worker_history` | fetch, handler, history row, commit | as above; the history tells the truth |
| readiness of the replicator | `core/pkg/health/sync_checker.go` | a gauge | probe | the gauge and the answer mean what they say |
| rate limiter | `internal/middleware/pkg/ratelimit.go`, `core/pkg/redis/redis.go` | a counter with a time to live in Redis | `Incr`, `Expire`, compare | at most `max` per window; who waits gets in |
| builder | `internal/app/app.go`, `cmd/api/main.go` | the `Microservice`, `MigrationsReady`, `HealthCheckers` | the chain of `With...` steps | a pod is ready only with a schema; a clean start needs no help |
| migrations | `core/pkg/migrate/migrate.go`, `migrations/` | schema version, dirty flag, advisory lock | `Up` | pods that migrate at once do not disturb each other |
| probes | `core/pkg/corerouter/system.go`, `core/pkg/health/` | none | `/healthz`, `/readyz` | part of the properties above |
| run and shutdown | `internal/app/app.go` (`Run`) | signal channel, context, wait group | launch, stop servers, cancel, join, close stores | nobody in time meets a closed store; the process ends |
| Redis wrapper | `core/pkg/redis/redis.go` | the write and the read client of its mode | writes to the master, reads from the master, the first replica or any node of a cluster | what a reader answers may be old, but within known limits |
| access | `core/pkg/security/jwt_manager.go`, `internal/middleware/pkg/RequireAPIKey.go`, `auth.go`, `AuthMiddleware.go` | the key pair each pod has read; partners' secrets in Redis; the tokens clients keep | load keys, look a secret up, sign, validate | nobody is let in for longer than intended; a replaced key stays replaced |
| encryptor | `core/pkg/security/encrypt.go` | a key | pure functions of one request | - |
| observation | `core/pkg/coretelemetry/`, `internal/telemetry/`, three middlewares | metrics | - | - |
| configuration, responses, router, default layers, gRPC API | `core/config/`, `pkg/config/`, `core/pkg/response/`, `internal/router/`, ... | none | - | - |

**How they interact.** `main` calls the builder; the builder hands the pool to the
three workers and registers checkers; `Run` starts each worker in a goroutine with
one shared context and cancels it on a signal. Workers never call each other: pods
meet in PostgreSQL (rows, locks, schema), in Kafka (topic, consumer group) and in
Redis (counters, secrets). A token that one pod has signed is believed by the
others without asking anybody. The probes read what the builder and the workers
have written.

**What is hard.** Concurrency between pods (row locks, consumer-group generations,
one counter, one migration); sessions and connections that die between two
statements; answers that are lost (a Kafka write, a commit, an `Incr`); what was
true when it was read or signed and is not any more (replicas, tokens, key files);
a worker that is cancelled in the middle of a batch; steps of the builder that
fail differently in production and development; the order of the shutdown.
PROJECT.json lists every such place with its line under `hazards`.

## 2. Modules

| module | models | abstracts from |
|---|---|---|
| `OutboxDelivery` | the promise of a transactional outbox | how |
| `OutboxRelay` | `processBatch` statement by statement, on every pod, with PostgreSQL's locks and sessions and the Kafka writer's attempts | contents of rows; `scheduled_at` NULL; counters other than `OutboxRelayedTotal` |
| `LogConsumption` | the promise of a consumer group: every message comes to its end, in order, and nobody resumes behind one that has not | how, how often, by whom |
| `ConsumerGroup` | the loop both consumers share: fetch, work, commit; generations, zombies, restarts | the work; all partitions but one |
| `TaskProcessor` | that loop with the mail handler | the mail, the row of `background_tasks` beyond whether it is there and 'completed' |
| `StateReplicator` | that loop with its event handler, the history and the probe | event contents; `x-event-id` |
| `RateLimit` | the limiter for one key in production mode | other keys (independent), Redis reads |
| `RedisWrapper` | where `Wrapper` reads and writes in its three modes, and what lags, fails or is lost there | values; expiry (see `RateLimit`); streams and scans |
| `Access` | `RequireAPIKey` on that wrapper, `NewJWTManager`, `GenerateToken`, `ParseAndValidate` and the guards, on several pods | signatures (a token names its key), other claims, headers, what a handler does before it signs |
| `Startup` | the chain of `main`, migrations, checkers, `/readyz` | what steps do that nothing else looks at |
| `Shutdown` | `Run` after the workers were launched | what workers and requests do beyond holding connections |

`TaskProcessor` and `StateReplicator` EXTEND `ConsumerGroup`: their actions are
its actions conjoined with what a handler does, and each is shown to implement
it (`ImplementsGroup`), so that what is proved of the loop holds for both. The
loop in turn implements `LogConsumption` under the mapping *length of the log* /
*number of settled messages* / *committed offset* (`ImplementsConsumption`), and
so do the two consumers.
`OutboxRelay` is shown to implement `OutboxDelivery` under the mapping
*pending rows* / *events in the topic* / *deleted rows*. `Access` EXTENDS
`RedisWrapper`: its actions are the wrapper's conjoined with what a pod does.

Each module names in a comment the Go statement an action stands for;
PROJECT.json gives the lines. Conventions: one action per statement that can
fail or be interleaved; `Fault` counts failures, so that every run explores all
placements of up to `MaxFaults` of them; failures are never fair. A section
"Seeded mistakes" in each module holds variants of single definitions, each an
error one could make in the code. They are not part of any specification; each
is paired with the property that notices it when it replaces the original.

### State and code

* `OutboxRelay`: `row`, `due`, `lock` are the table as other sessions see it
  (`row` holds committed values, the uncommitted UPDATE and DELETE of a pod
  follow from `lock`, `events` and `pc`); `tx` is what the server thinks of the
  transaction, which the pod does not know; `unacked` and `attempts` belong to
  `kafka.Writer`. A cancelled context makes pgx close the connection, so
  `Abandon` leaves an orphaned session that `Reap` ends.
* `ConsumerGroup`: `pos` is kafka-go's in-memory position, which is set back only
  by a new generation; that is why a failed message is not fetched again.
  `reading` without membership is a zombie.
* `TaskProcessor`: `rows` are the tasks whose payload names a row of
  `background_tasks`. `UpdateTaskStatus` throws away how many rows its UPDATE
  matched, so for a task without one it does nothing and returns nil, and the task
  is committed; `WentWell` is what a nil from the handler means, no more.
  `reached` and `carried` are history about one assignment of the partition: how
  far the pod got under it, and whether what it has in hand is from before.
* `StateReplicator`: `HasDB` and `BlockReady` are constants FALSE because the
  constructors drop those arguments, so that `Record` never inserts anything.
  `newest` and `lastSync` are ages, counted up to one tick beyond the threshold.
* `RateLimit`: `window` numbers the lives of the key, a history variable.
* `RedisWrapper`: the master's writes are numbered; `applied[n]` says how many of
  them a node has, and `written`, `removed` which of them concern an entry. An
  entry stands for a random secret: it is put in once and removed once. A
  failover (in a cluster only; the other modes have fixed addresses) cuts all
  three back to what the new master has.
* `Access`: the handler behind `RequireAPIKey` is not in the repository; the
  comment there asks "to whom do we issue a session", and the model takes it at
  its word. `Admit` is the lookup and `c.Next()`, `OpenSession` the handler's
  `GenerateToken`; in between the request is in `requests`, with its age in ticks,
  and the secret may be removed, keys rotated, replicas fail over. `idle` counts
  the ticks for which no reader of Redis has held the secret. `NewJWTManager` is
  two actions, for it reads two files, and a rotation is two, in either order.
  `RequireAuth`, the strict and the MFA variant and `AuthMiddleware` differ in the
  further claims they ask for, and rest on one `ParseAndValidate`. `main` does not
  call `WithJWT`, nor does the router install these guards: the module takes them
  as the template offers them.
* `Startup`: `at[p]` is the step that pod calls next; `cfg` is chosen once and for
  all pods. Settings that are read without being used by another step (the
  collector, the master key, an empty database name) are not in `cfg`: a start
  that fails because of one is `ConfigurationFails`. `m.Up` is split into
  `MigrateBegin` and `MigrateEnd`, with the version dirty in between.
* `Shutdown`: `server["http"]` distinguishes a listener that is not there yet:
  fiber's Shutdown does nothing to it, gRPC's GracefulStop does.
  `via` remembers who accepted a request.

## 3. Runs

| run | bounds | shows |
|---|---|---|
| `outbox` | 2 pods, 3 rows (the last too large), batches of 2, 2 attempts, 3 faults | no loss, no stranded row, disjoint batches, duplicates bounded by faults, honest counter, refinement, and every row goes out unless a row that Kafka refuses is due |
| `tasks` | 2 pods, 2 tasks of every mix of kinds, 2 faults | below the committed offset every task was taken up and went well or failed, no error and no status left unset is committed, a pod repeats a task only under a new assignment, refinement of `LogConsumption`, every task settled |
| `tasks_retry` | the same | *violation*: a failed task is not retried |
| `replicator` | 2 pods, 2 events, threshold 1 tick, 1 fault | nothing is committed that no handler was given (`ReplicatorInv`), every event seen |
| `replicator_gauge`, `replicator_block` | 1 pod, 1 event | *violations*: the gauge, `bootstrap_block` |
| `startup` | 2 pods, all configurations, 2 faults | readiness means schema, clean start, complete service (but for S3 and the migrations in production), everybody gets ready |
| `startup_databases` | the same, `db_names` set | *violation*: a ready pod without a schema |
| `limit` | 4 requests, limit 2, 2 faults | the limit, no needless refusal, TTL on its way, waiting helps |
| `limit_lockout` | 1 fault | *violation*: waiting does not help |
| `shutdown` | 2 workers, 2 requests, 2 signals | stores are open for who came in time; who is hurt came through a listener that was late; workers outlive the requests and go before the pool; the process ends if handlers answer |
| `access` | 2 pods, one of which signs; 1 secret, 2 replicas, every mode; 2 key pairs, tokens of 2 ticks, handlers of up to 2, 1 request or token at a time, 1 fault | sessions end in time, replaced keys stay replaced, refusals last outside of a cluster, a revocation takes effect |

**Why the bounds are enough to be worth something.** Two pods are the least that
compete for a row, a partition, a lock or a counter, and no handler compares more
than two. Three rows with batches of two give a full batch, a partial one and a
row that is refused together with its neighbour. Two tasks are what a commit needs
to pass over one. Four requests with a limit of two allow admitted, refused and
failed ones in one window and a late one from the window before. Two faults allow
one failure during the recovery from another. Secrets do not interact and one is
enough; two replicas let a cluster answer from either and fail over to the staler
one, two pods and two key pairs let a pod sign with what another does not know,
and a token of two ticks can be old and valid. Each property of `access` is about
one session; requests and tokens do not interact, and one of them at a time is
enough. Two ticks let a secret go, and be gone for a while, before the token is
signed. The theorems below remove these bounds from the safety properties they
cover. `CHECK_DEADLOCK FALSE` stands only where the system may stop: all requests
are answered (`RateLimit`), the process has ended (`Shutdown`).

**Fairness.** A pod's `Work` is weakly fair: Start is a loop around a ticker or a
blocking fetch and every call in it takes ctx or a timeout. A restart is fair
because the orchestrator restarts pods; `Reap`, `FallDue`, `KeyExpires` and
`ServiceRecovers` are time passing. `Rebalance` and `Notice` are the group
coordinator's timers. In `Access` only the clock and what happens behind the
wrapper (replication, nodes that come back) are fair, and that a handler does not
take longer than `MaxHandling`; pods and clients do as they like. In `Shutdown`
the steps of `Run`, queries and batches end (they take ctx), but no handler is
assumed to answer: `Fiber.Shutdown` and `GracefulStop` wait for handlers without a
timeout, and a handler that never answers keeps the process up for ever.
`ShutdownCompletes` has that premise in its statement (`HandlersAnswer`) rather
than in the fairness. No failure is ever fair.

### What the violations say

* **`FailedIsRetried`** - `task_processor.go:150` logs "retrying later" and goes on;
  the offset of the failed task is passed by the next success.
* **`GaugeMeansStale`**, **`StaleBlocks`** - `NewStateReplicator` drops `db` and
  `podID`, `NewSyncHistoryChecker` drops `blockReady`: history is never written,
  the gauge always asks for a bootstrap, and `bootstrap_block` never blocks.
* **`ReadyMeansMigrated` with two database names** - `migrate.Run` opens `db_name`,
  the pool opens the first of `db_names`. With the state replicator enabled its
  check would notice, for its table is missing in the pool's database.
* **`WaitingHelps`** - an `Expire` that fails, or is never sent because its request
  died, leaves a counter without a time to live: the client stays locked out.

## 4. Proofs

All theorems hold for every value of the constants that satisfies the named
assumptions (`RelayAssumption`, `PodsAreFinite`, `GroupAssumption`,
`FaultsAssumption`, `ReplicatorAssumption`, `LimitAssumption`,
`StartupAssumption`, `ShutdownAssumption`, `WrapperAssumption`,
`AccessAssumption`): any number of pods, rows, messages, requests, secrets,
replicas and faults.

* `OutboxRelayProofs`: `RelayInv` is inductive. `NoEventLost` alone is not: one
  must know that a live session holds exactly the locks of its batch
  (`LocksCoverBatch`), that what left `unacked` is stored (`AckedIsStored`), that
  a batch past the write has nothing unacknowledged, and that a pod between
  batches has no transaction. From it follow `NoEventLost`, `NoStranded`,
  `CountedOnce`, `OneOwner`, `DuplicatesOnlyFromFaults`, the action property
  `DeleteOnlyOwnBatch` and the refinement `ImplementsDelivery`. The bound on
  duplicates needs its own accounting (`CopiesAreOwed`): to the copies in the
  topic are added those still to come without a further fault - one from each pod
  that has not seen the event acknowledged, one where a cancelled pod will give
  the row back, one while the row waits - and the sum stays within the faults plus
  one. Each step moves a copy from one of these accounts to another or pays with a
  fault. Rows that Kafka refuses have a part of the invariant to themselves
  (`RefusedStays`): they are neither in the topic nor ever in a batch beyond the
  write (`RefusedRowsStay`). With it go `BatchesAreBounded`, `NoLockIsForgotten`
  and two action properties about what the code does today with such a row: a
  batch that contains one commits nothing (`RefusedBlocksItsBatch`), and a fetch
  that finds one at the head of the rows it may take has it in its batch
  (`HeadOfLineBlocks`). They are the safety half of the exception
  `EventuallyRelayed` makes.
* `ConsumerGroupProofs`: `GroupInv` is inductive: a reader is never ahead of the
  work but for the message its own loop has in hand (`ReaderFollowsWork`), and
  everything before a message in hand is done (`HandFollowsWork`). The second
  part is what makes late commits of zombies harmless. Hence `NothingSkipped`.
  That the settled messages are an initial segment of the log (`SettledInOrder`)
  lets the number of them stand for the set: `FS_Interval` gives the number, each
  settling step adds the next message or one that was there, and each commit is
  at most that number. So the loop implements `LogConsumption`.
* `TaskProcessorProofs`, `StateReplicatorProofs`: every step is a step of
  `ConsumerGroup` or a stutter, so `NothingSkipped` and `ImplementsConsumption` are
  inherited by refinement: the chain is consumer, `ConsumerGroup`,
  `LogConsumption`. `ProcessorInv` adds `CommitsSuccess` for
  `CommittedTaskSucceeded`, `SettledIsAccounted` and `StoringWasTried` (what has
  left the handler was tried, and went well or failed) for `NoTaskUnaccounted`, and
  `ReaderIsAhead` for `OneTryPerAssignment`: the reader stands beyond what its pod
  took up since the partition was assigned to it.
  `ReplicatorInv` adds `SettledWasSeen` and `StoringWasSeen`, hence
  `CommittedWasSeen`. `EveryProbeCallsForBootstrap`, the general form of what
  `replicator_gauge` shows by example, needs that the history stays empty.
* `RateLimitProofs`: requests counted in one life of the key saw different values
  (`SeenDiffers`); those admitted saw at most `Max`, so there is an injection
  from them into `1 .. Max`. Hence `LimitHolds`. In the other direction each unit
  of the counter stands for a counted request or a failure (`CountIsAccounted`),
  hence `RejectedOnlyOverLimit`. `TTLOnItsWay` is inductive as it stands.
  `LockoutIsFinal` is the converse of `WaitingHelps`: a counter beyond `Max` with no
  time to live, and nobody about to give it one, stays so and turns away every
  request it counts, until Redis loses the key.
* `StartupProofs`: `StartupInv` is inductive. Lemmas about the chain (each step
  has one successor, where it leads) come first; then that the holder of the lock
  is migrating and the version dirty, that `migrated` implies the schema, that
  every pod past the migrations has their checker. `ReadyMeansMigrated` follows
  for `~TwoDatabases`; `CleanStart` from `Untroubled`; `ServesComplete` from
  `Gathered`, which says for each step what a pod that is past it has; both leave
  out S3 and the migrations in production, where the code goes on without them.
  Two theorems are about the exceptions of `EventuallyReady`: a version that a
  dead migrator left dirty stays dirty, and no pod is ready from then on
  (`BrokenOffIsFinal`); a pod that came up blocked is not ready in this life,
  whoever migrates later (`BlockedStaysBlocked`).
* `ShutdownProofs`: `ShutdownInv` is inductive: what was accepted in time and is
  not answered keeps `Run` at or before the step that waits for its server
  (`Drained`), and until then all stores are open (`StoresOpen`). Behind
  `GracefulStop` there are no calls of gRPC (`GrpcDrained`), a request over HTTP has
  a listener (`HttpListens`), and workers are told to end only after both
  (`CancelledLate`): hence `OnlyLateListenersFail` and `WorkersOutliveRequests`.
  `Quiescent` (the context is cancelled before the pool closes, and what closes it
  waits for the connections) gives `NoTransactionIsCutOff`, for the case in which
  the ten seconds are over as well.
* `AccessProofs`: `AccessInv` is inductive. A request in flight is at least as old
  as the last moment at which a reader held its secret (`RequestsAge`), whatever
  fails over, because a readable secret has `idle` 0 and the only step that ages
  requests counts `idle` up as well. A token takes over the age of its request and
  loses life at the same rate (`TokensAge`); hence `SessionsEndInTime`. What was
  refused after it was let in is removed as far as the one reader knows
  (`GoneIsRemoved`, from `WritesAreNumbered`), hence the action property
  `RefusedStaysRefused`. `RetiredKeysStayRetired` is inductive with the types
  alone. `RemovalIsFinal` needs no refusal: a removal the reader has is one the
  master has, which does not remove, or number, the entry twice.

Every invariant, action property and refinement that a passing run checks is
stated by a theorem. Only model-checked is what holds under fairness
(`EventuallyRelayed`, `EveryTaskSettled`, `EveryEventSeen`, `EventuallyReady`,
`ShutdownCompletes`, `WaitingHelpsUntroubled`, `RevocationTakesEffect`): it needs
ENABLED, which the prover does not reach. Where such a property makes an exception,
a theorem above says that the exception is real. Some theorems are
about properties that no run lists (`BrokenOffIsFinal`, `LockoutIsFinal`,
`NoTransactionIsCutOff` and the like). They state consequences of the inductive
invariants, which the runs check.

## 5. What is not modelled, and what is assumed

* The contents of messages and rows, logging, metrics, tracing, HTTP formatting.
* The encryptor: AES-GCM around one key, stateless. Signatures in `Access` are
  taken to be unforgeable, secrets to be distinct.
* Of the JWT manager, `ValidateToken` (which differs from `ParseAndValidate` in the
  type of the claims) and custom claims; of the guards, the claims beyond
  `sub` and the reading of headers.
* `Wrapper.Ping` asks the client for writes only (`redis.go:176`): in the mode
  `master_replica`, `/readyz` says nothing about the replica all reads go to.
  `Startup` has one Redis; `RedisWrapper` lets the replica fail and the lookup
  with it.
* Kafka keeps what it acknowledged. The writer uses RequireOne, so a failover of
  the broker could lose it; listed as a hazard.
* `background_tasks` has no migration; the table is taken to exist. Which tasks have
  a row is chosen at the start and does not change.
* A handler behind `RequireAPIKey` ends; how long it takes is bounded in the run,
  and in the theorems by a constant of any value. The bound on a session names the
  time its own request took.
* kafka-go may hand out messages it had buffered before ctx was cancelled; the
  model ends the loop at the next fetch.
* The fetch of a batch is atomic (one statement at PostgreSQL).
* All migrations are one step between "old" and "new"; a failure leaves "dirty".
* Values of the configuration that the code reads and does not use: the outbox's
  `max_attempts` and `write_timeout`, the task processor's `concurrency`, the gRPC
  port (50051 is hard-coded) and its limits, `use_meta_pod_id`.
* SIGKILL during the shutdown: it is `Crash` in the modules of the workers.
* The development mode in which the rate limiter is switched off.

## 6. Plan

Done, in this order: outbox, consumers, rate limiter, start-up, shutdown, access
with the Redis wrapper, each with its run and the proof of its inductive
invariant; then the abstract specification of a consumer group and the proofs
that the loop and both consumers implement it; every safety property of the runs
is proved. Next:

1. **Compose.** `Pipeline`: `OutboxRelay`'s topic as `ConsumerGroup`'s log, with
   at-least-once delivery from the row to the handler as the end-to-end property
   (a task the service writes and the task processor reads); `Startup` with
   `Shutdown` as a rolling update.
2. **Model more.** A broker that may lose what only its leader has; the probes of
   `Startup` over the nodes of `RedisWrapper`.
3. **Prove more.** With `Pipeline`: its refinement of an end-to-end promise, from
   `OutboxDelivery` and `LogConsumption` alone. For the liveness properties, the
   steps of their arguments that are safety (what stays enabled, what a helpful
   step cannot undo).
