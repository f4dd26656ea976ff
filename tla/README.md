# Verification of the pothole detection server

TLA+ modules, TLC runs and TLAPS proofs for the server under `src/app`: a
FastAPI application that ingests road events and camera frames from mobile
devices into PostgreSQL/PostGIS, and background jobs that fit a sensor model,
score and fuse the uploads, and cluster them into map points. Paths below are
relative to `src/` (`SV` stands for `app/fusion/service.py`).

Contents: [the system](#the-system), [modules](#modules),
[runs](#runs), [bounds](#bounds-and-why-they-are-enough),
[fairness](#fairness), [proofs](#proofs),
[disagreements with the code](#disagreements-between-the-code-and-what-is-said-of-it),
[not modelled](#what-is-only-model-checked-and-what-is-not-modelled),
[plan](#plan).

## The system

### Inventory

| Component | State it keeps | Operations | What makes it correct |
|---|---|---|---|
| Event ingestion (`routes/events.py`, `services/event_service.py`, `models/`) | `asset_observation`, one transaction per request | `ingest_events`, `insert_events`, refusals 400/422/429 and the 500 of an exception | An event is in the device's outbox or stored; a client_id is reported as accepted only when its row is durable; what one request accepts is stored together or not at all |
| Rate limiter (`middleware/rate_limit.py`) | per process: `(device, resource)` → list of minute buckets | `_prune_and_increment`, `check_rate_limit` | No more than the limit within an hour; who keeps quiet is let in again |
| Frame upload (`routes/frames.py`, `services/frame_service.py`) | `asset_frame`, `<id>.tmp`, `<id>.jpg`, or objects of a bucket | `ingest_frame`, `store_frame`, `_store_jpeg_local`, `_store_jpeg_supabase` | A row has its complete JPEG; a frame is never lost |
| Job lock and pool (`SV:34-38, 278-291, 439-521`, `database.py`) | advisory locks of database sessions, the asyncpg pool of each process | acquire, try-lock, nested acquire, unlock, release | At most one run of a job can write; every run ends; locks and connections come back |
| Fit job (`SV:41-97`, `sensor_model/store.py`) | `sensor_model`, the active row | `run_fit_job`, `load_active_model`, `save_model` | Exactly one active model, refitted when there is enough new data |
| Fusion job (`SV:99-291`, `fusion/registry.py`) | scores of observations, `processed_at`, `fusion_pair`, `fusion_run` | `_score_unscored`, `_pair_and_fuse` | Each frame processed once with its nearest observation; nothing starves |
| Clustering job (`SV:294-521`) | `asset_cluster`, `observation_cluster_link`, `cluster_run` | `run_cluster_job` | Stable identity of clusters; a repair that a run has seen is final for what preceded it near by |
| Lifecycle (`main.py`, `fusion/scheduler.py`, `database.py`) | pool, scheduler, applied migrations | `lifespan`, `start_scheduler`, `stop_scheduler`, `run_migrations` | Nothing works on half a schema; a process that starts gets to serve, one that is told to stop stops, with nothing left running |
| Health check (`routes/health.py`) | none | `health_check` | The reply tells whether the database can be reached |
| Sensor model mathematics (`sensor_model/*`) | none beyond the fitted model | `fit_sensor_model`, `score_observation`, `compute_ratio`, `severity` | The class of highest energy is the pothole; outliers and models without densities speak neither way |
| Fusion engines (`fusion/*_v1.py`, `engine.py`, `registry.py`) | none | `get_engine`, `fuse` | What is missing does not decide; clamps keep logits finite |
| Configuration, header dependencies | none that changes | - | - |

### How the parts interact

* A device keeps what it records in a local outbox, uploads batches, and
  deletes what the reply says is accepted. It retries on any other outcome, also
  while the handler of an earlier attempt is still running. Handlers are
  coroutines: they interleave at each `await`, i.e. between SQL statements.
* Each process begins with the lifespan of `main.py`: it creates the pool,
  applies the migrations if `env` is "development", and starts the scheduler.
  Jobs and handlers share its pool; the shutdown waits for whoever holds a
  connection.
* The shipped image starts two server processes (`Dockerfile:30`). They share
  the database and the frame directory; each has its own rate-limit store, its
  own connection pool and its own scheduler, so every job ticks in both.
* Fusion and clustering take a session-level advisory lock; the fit job does not.
* The jobs communicate through tables only: uploads feed the fit and fusion
  jobs, the active model is read by the fusion job (an operator may go back to an
  earlier one), scores and fused pairs select the members of the clustering job, and an administrator sets
  `repaired_at` behind its back.

### What is hard here

Retries that overlap the request they repeat; a PostgreSQL error inside a
transaction, after which COMMIT is a silent rollback; two processes writing one
temporary file; a session lock over a connection that is not a session, or that is gone
without the run knowing;
read-then-write jobs whose inputs change in between; READ COMMITTED updates that
skip rows; crashes between the steps of a job; processes that migrate the same
database at once; a shutdown while jobs hold, or wait for, connections; evidence
that is missing and must not count as evidence. `PROJECT.json` lists every hazard
with its line and the properties that are about it.

## Modules

| Module | Models | Extends / refines |
|---|---|---|
| `ReliableUpload` | abstract: what uploading promises the client | - |
| `WorkQueue` | abstract: a queue in which each row is handled once, and for good | - |
| `EventIngestion` | devices, handlers, transactions, PostgreSQL's row waits | implements `ReliableUpload` |
| `FrameUpload` | device, handler, files and objects, rows | implements `ReliableUpload` |
| `RateLimit` | the bucketed sliding window | - |
| `JobLock` | pool, sessions, advisory locks, runs of jobs | - |
| `ModelFit` | fit job and model store | - |
| `FusionJob` | scoring and pairing | implements `WorkQueue` twice: frames, observations |
| `Clustering` | clustering and repairs | - |
| `Lifecycle` | start-up, migrations, scheduler, requests and health, shutdown | - |
| `Scoring` | class order, score, severity, the engines, membership in clusters | - |
| `EventIngestionProofs`, `FrameUploadProofs`, `RateLimitProofs`, `JobLockProofs`, `ModelFitProofs`, `FusionJobProofs`, `ClusteringProofs`, `LifecycleProofs` | proofs about the module of that name; `ClusteringProofs` is about `Scoring` too, which says what becomes a member of a cluster | the module, `TLAPS` |
| `MC...` | the instances of the module of that name | - |

**EventIngestion.** A request goes `free -> received -> open -> answered`.
`Send`, `Timeout`, `Deliver` and `Discard` are the device and the connection;
`Refuse...` are the ways to be refused before the database is touched
(`routes/events.py:43-51`, validation by the `EventBatchRequest` body, the rate
limiter); `Begin` opens the transaction of `event_service.py:64`; `Insert` is
one turn of its loop (an `INSERT ... ON CONFLICT DO NOTHING RETURNING`, which
waits while another open transaction is inserting the same id); `EncodeFails` is
a turn whose arguments the driver refuses before it sends anything, so that the
transaction goes on and commits the other events; `InsertFails`, `DeadlockVictim`
and `InsertInAborted` are turns that raise in the server, which has aborted the
transaction then; `Commit` ends the
`async with` and answers; `Drop` and `DropAfterCommit` are failures outside the
per-event `except`, and a reply lost after the COMMIT. PostgreSQL's part is in
the header of the module.

**RateLimit.** `Charge` is `_prune_and_increment`, `Check` is
`check_rate_limit`, `Since` the comprehension that prunes (`rate_limit.py:35`).
`charged` and `admitted` record, per process and device and second by second,
what was really charged and let through, to compare the buckets with. The
`threading.Lock` makes the check one step.

**FrameUpload.** A file is an inode with names; `Open` truncates `<id>.tmp`,
`Rename` moves it over `<id>.jpg` while another process may still hold it open.
Store first, row second, as in `frame_service.py:55-104`. `torn` records the
files whose writer died before it was done: they stay incomplete. Within one process
`Open`, `Write` and `Rename` do not interleave, because the local backend does
not await.

**JobLock.** One run of a job in one process: `Tick`, `Acquire`, `TryLock` or
`Skip`, `WantModel`/`LoadModel` (the fusion job's second connection, `SV:286`),
`Work`, `Unlock`, `Release`. A held connection reaches its own session, or any
session of the pooler when `Pooled`. `Release` sends asyncpg's reset query.
`LoseConnection`, `LoadFails`, `Crash` and `ServerNotices` are the faults. A run
that has lost its connection is `severed` and stays where it is: it may even take
and use its second connection, while the server drops its lock and grants it to
another process (`ServerNotices`); it leaves the body by `Raise`, at its next
statement on the lost connection. So two runs may be in the body at once
(`MCJobLockLost.cfg`), but only one of them has a connection to read and write
with: `Inside` is that, and `OneWriter` what follows from it. All statements of the
bodies but those of `load_active_model` go over that connection.

**ModelFit.** `Count`, `LoadActive` and `Fetch` are three statements with
uploads and other processes in between; `BeginSave`, `Deactivate`,
`InsertModel`, `Commit` are `save_model`, whose UPDATE sees the rows active when
it began and whose INSERT meets the partial unique index.

**FusionJob.** `LoadModel`, `SelectUnscored`, `CommitScores`, `SelectFrames`,
`Pair`, `CommitFusion` are the statements and transactions of a run. What
the fusion job computes is a tag: the model and the score a pair was fused from.
`ActivateModel` is a fit, `FlipActive` an operator who goes back to an earlier model
as `migrations/002:22` describes. `WorkQueue` states what both tables are promised
(a batch of work is finished in
one step together with its outcomes, and is final), and `FrameQueue` and
`ScoreQueue` are the two mappings to it.

**Clustering.** `Count` reads the members for the gate, `Label` reads them
again and labels them, `Find` and `Write` take the groups in order of their
smallest client_id, `Commit` publishes. DBSCAN is its definition: connected
components of core points, border points assigned to one of their neighbours.
Places are points of a line; `Eps` is the distance on the ground, `EpsUnits`
what the Mercator-corrected one comes to where the observations are. `Repair` is
the administrator, at any step of a run, who waits only for a row the open
transaction has written. `late` and `raced` record the rows that were repaired
since the run read its members, and those of them it was about to rewrite. One
run at a time rests on `OneWriter`: it is what direct connections give, and what
a pooler in transaction mode does not (`MCJobLockPooled.cfg`). The same goes for
`FusionJob`.

**Lifecycle.** A process goes `down -> migrating -> inFile -> migrating -> ...
-> serving -> draining -> closing -> stopped`. `CreatePool`, `BeginFile`,
`CommitFile`, `StartScheduler` are `lifespan` down to its `yield`; a migration
file is one simple query, hence one transaction. Two processes may be in the same
file: `clash` marks the one whose `CREATE ... IF NOT EXISTS` can raise because
the other committed first, and `FileClashes` is that exception leaving `lifespan`,
after which the supervisor starts the process again (`Vanish`, `CreatePool`).
`StartFails`, `Crash`, `Outage` and `Recover` are the other faults. The pool is
what jobs and handlers hold of it (`Lent`), so `Granted`, `Refused` and neither
are the three things an `acquire` may come to. A run goes through `acquiring`,
`one` (holds a connection), `wantsSecond`, `two` (the fusion job's nested
acquire) and `working`; `Ask`, `Connect`, `Answer` are a request, `Reply` the one
to `GET /health`. `Terminate`, `StopScheduler`, `CancelJobs` and `ClosePool` are
the way down: `AsyncIOScheduler.shutdown` only posts its work to the event loop,
`CancelJobs` is that callback, and `ClosePool` waits for the connections lent.
What a job does with its connections is `JobLock`'s subject; what it computes is
that of the other modules.

**Scoring.** One observation with the features it may have, the models fitted
meanwhile and the frames paired with it. `Fit` gives each mixture component its
class by the rank of its energy (`ClassOf`), `Score` is `score_observation`
(the arg max of the class posteriors, the outlier gate, the odds of a pothole) with
the ratio and `Severity` of `features.py`, `Pair` takes the engine of `get_engine`
(`Engine`) and its sensor term (the stored score, or the `Heuristic` of the
fallback) and fuses it with the image (`Fuse`), and `Member` is the predicate by
which the clustering job takes the observation in. A probability is a pair of odds, so a
sum of weighted logits is a product of powers and needs no floating point;
`Clamped` is `clamp01` and `logit` at the odds where they clamp. Component means
and densities are any of small sets: nothing is claimed of the numeric libraries.
`ScoringInit`, `ScoringTypeOK` and the like carry the module's name because
`ClusteringProofs` extends it beside `Clustering`: what both prove rests on the
same lemmas about sums over finite sets.

Definitions whose comment begins "Mutant of", or whose line ends in a comment
that begins "mutant", are deliberate mistakes: replacing the named definition (or
the one after it) by one of them must break the property it is meant for. They
are not used by any specification.

## Runs

| Run | Checks | Shows |
|---|---|---|
| `ingest_retries` | `EventsGetStored`, `ImplementsReliableUpload` | With overlapping retries, timeouts and lost replies, storable events are stored before they are deleted, and all are stored in the end |
| `ingest_faults` | `AcceptedTogether`, `LossOnlyThroughAbort`, `EveryRequestEnds`, `HealthyDevicesDrain` | With events that raise in the driver or in the server, invalid events and deadlocks: what a request accepts is stored together or not at all, the aborted transaction is the only way to lose an event, no request waits for ever, and a device without such rows is not held up by one that has them |
| `rate_limit` | `TypeOK`, `CountIsWindowed`, `LimitHolds` | The count lies between two exact windows, of `Window - Bucket` and `Window`; it bounds what a process admits |
| `frames_one_process` | `NoPartialFile`, `ImplementsReliableUpload` | One process, both backends, failures at every step: what has its final name is complete, and no frame leaves the device unstored |
| `frames_two_workers` | `FramesGetStored` | Even with colliding temporary files every valid frame gets a row and in the end a complete JPEG, unless a process died while it wrote the file another one renamed |
| `lock` | `OneWriter`, `NoStrayLock`, `PoolAccounted`, `EveryRunEnds` | Direct connections, whose loss a run notices late: one process at most can read and write for a job, no lock outlives its run, no connection is leaked or given back twice; runs end, after a crash too |
| `fit` | `OneActive`, `ModelKeepsUp` | One active model among two processes, which follows the data |
| `fusion` | `RunsAccountFrames`, `PairedWithNearest`, `PairsAgreeWithScores`, `FramesHandledOnce`, `ObservationsHandledOnce`, `QueuesDrain` | Uploads, fits, rollbacks of the model and failures between any two statements of a run: both tables are once-only queues, no pair is left with a score its observation no longer has, and nothing stays in the queues |
| `cluster` | `TypeOK`, `SummaryMatchesLinks`, `GroupsKeepApart`, `StableIdentity`, `NoResurrection`, `RepairedUntouched`, `DetectionsGetClustered` | Groups near each other that grow, merge and shrink, and repairs at every step of a run |
| `lifecycle` | `WorksOnCompleteSchema`, `StoppedIsQuiet`, `EveryWorkerServes`, `ServerStops` | Two processes that migrate one database at once, an outage or a crash at any moment: nothing works on half a schema, each gets to serve, each stops when told to, with nothing left running |
| `scoring` | `ScoringTypeOK`, `PotholeIsHighEnergy`, `UnexplainedNeedsImage`, `DecidedByATerm`, `SlowerIsWorse` | What the stored class, score, severity and fused confidence of an observation mean, for every order of energies, every split of densities, both engines |
| `ingest_accepted` | `AcceptedIsIngested`, which TLC refutes | [see below](#disagreements-between-the-code-and-what-is-said-of-it) |

Every property of a passing run is broken by a mutant of a definition that
models code; the list is in `PROJECT.json`.

### Bounds, and why they are enough

* Two requests of one device over three events: enough for a retry that overlaps
  its original, for a cycle of two waiting transactions, and for a batch with an
  event before, at and after the failing one. `ingest_faults` adds a second device
  with one event: events of different devices have different ids, and what they
  share are the two request slots.
* Two processes wherever processes interact (the image has two). What
  is proved is proved for any number.
* `MaxFaults` of 1 or 2: one failure at any step, or a failure and one during
  the recovery from it; 3 in `frames_two_workers`, where a file stays incomplete
  only after a retry has met its original and a process has died. Two faults also cover a timeout whose retry is refused.
* `Window = 6, Bucket = 3` has the features of 3600 and 60: more than one bucket
  in a window, and requests at each offset of a bucket.
* Three frames, two observations, `BatchSize = 2`: a batch that is full and a
  remainder; frames with a tie, with an observation that comes late, and with
  none of its device.
* Four observations for clustering: two spots whose rows are within reach of each
  other (`EpsUnits < Eps`), and one between them that joins them and is later than
  a repair. Repairs are dated 1: after one, at two, and before the last of the
  observations. `MinPoints = 1` there, 2 or more in the other instances. All lie
  within `Eps` of any centroid, so the second exception of `NoResurrection` plays
  no part there; `MCClusterChain.cfg` has a chain. The invariants are proved for
  any observations ([proofs](#proofs)).
* Two processes, two jobs (one with the nested acquire), two migration files, a
  pool of two, one request and one fault for `Lifecycle`: both files can be
  applied by either process or by both at once, the pool can be full with a
  waiter, and the request may be the health check. With a pool of one the nested
  acquire waits for itself and the shutdown for it:
  `MCLifecycleOneConnection.cfg`.
* Four components for `Scoring`, so that there is a component above the third
  class; norms, densities and odds take three values, which give every order,
  tie, zero and clamp; one fit and one pair. The instances in the second table
  below have other K and more fits.
* `FrameUpload` has as many inodes as its frames and requests may ever hold
  (`InodesAssumption`), so a request never runs out of them.
* Counters that only record (`faults`, `borrows`, `now`, `total`) are capped by
  the constants named `Max...`; every such guard is in the action that counts.

`CHECK_DEADLOCK FALSE` is set where the system really stops: the outboxes are
empty, or the bounded clock has run out.

### Fairness

* `EventIngestion`: a device goes on uploading (weakly fair `Send` per device)
  and a request goes on (weakly fair `Handle` per request): the event loop runs
  every ready coroutine, PostgreSQL ends every wait by a commit, a rollback or
  its deadlock detector. Faults are not fair and are bounded.
* `FrameUpload`: strong fairness of `Send` per frame, because the number of
  request slots is a bound of the model which may keep one frame waiting for
  another; weak fairness of the handler.
* `JobLock`: weak fairness of the steps of a run, strong fairness of taking a
  connection (`Acquire`, `WantModel`), since the pool wakes its waiters in the
  order they came. The server notices a dead client. With `PoolSize = 1` a
  fusion run would wait for itself; the run has 2, the smallest size at which it
  does not.
* `ModelFit`, `FusionJob`, `Clustering`: weak fairness of the run as a whole:
  the scheduler ticks at each interval, and a run that has begun goes on.
* `Lifecycle`: weak fairness of `Lifespan` (the event loop runs what is posted,
  the supervisor starts what has exited), of the steps of a run and
  of `Recover` (an outage ends), and strong fairness of `Handle`: the pool
  serves its waiters in turn, so a handler is not passed over for ever. Nothing
  is assumed of `Tick`, `Ask`, `Terminate`, `Crash` and `Outage`.

## Proofs

Eight modules prove what follows for every value of the constants that satisfies the named
assumptions. Each proof has an inductive invariant `IInv` that is stronger than
the property; what it adds is named here.

* **EventIngestionProofs.** `IInv` = types, *OwnEvents* (a request
  holds, accepts, rejects and writes only events of its device), *Fresh* (the
  rows an open transaction wrote are not durable, and no other open transaction
  wrote them), *Healthy* (each id that a transaction which is not aborted has
  accepted is durable or written). `TypeOK` alone does not say
  why a reply may be trusted; *Healthy* does, and it needs *Fresh* for the row
  that another transaction commits. From it: `TypeCorrect`;
  `AcceptedAreStoredTogether` (`AcceptedTogether`); `LossNeedsAbort` (`LossOnlyThroughAbort`); and, as
  long as no transaction is aborted, `UploadIsReliable`
  (`ImplementsReliableUpload`, each step mapped to `Store`, `Forget` or a stutter)
  and `NothingLost` (`NoEventLost`). The hypothesis `[]NoBatchAborted` cannot
  be dropped: `ingest_accepted` shows what happens without it.
* **FrameUploadProofs.** `TypeCorrect` for any number of processes: its one hard
  step is that `NewFile` exists, by counting the inodes that names and
  handlers hold (`NewFileIsNew`, from `InodesAssumption`). For one process
  (`OneProcess`), *OneWriter* (a single request is in the local backend, and
  writes the file that has the temporary name) and *StoredFirst* (a row and a
  reply come after the file) give `FramesAreWhole` (`NoPartialFile` and
  `NoFrameLost`) and `UploadIsReliable` (`ImplementsReliableUpload`).
  `MCFramesPartial.cfg` is what happens in two processes.
* **RateLimitProofs.** `IInv` = types (of which the bound on the number of
  buckets is the hard one: their starts are different multiples of `Bucket`,
  `StartsApart`, `LengthBound`), *Accounted* (the buckets within a window sum up
  to exactly what was charged since the start of the oldest of their minutes),
  *AdmittedWasCharged* and `LimitHolds`. The two exact windows of
  `CountIsWindowed` are not inductive, the sum of the buckets is:
  `LiveAccounts` says what it loses when a bucket leaves the window,
  `ChargeAccounts` what it gains. A request that is admitted at `now` found the
  count within the limit, and so the stretch that ends at `now`
  (`FreshBounds`, `AdmittedStaysBelow`). From it `TypeCorrect`,
  `CountIsWindowedAlways`, `LimitHoldsAlways`, and `DeviceLimitAlways`: all
  processes together admit at most `Limit` times their number, so the factor
  `MCRateLimitWorkers.cfg` shows is as bad as it gets.
* **JobLockProofs.** *LockInv*, connected directly (`~Pooled`) = types of the
  lock variables, *HeldByItsRun* (a session holds the lock of its own job once
  while its run is inside and connected, and otherwise not at all),
  *OrphansExclude* (while the server has not noticed a dead client, nobody is
  inside) and `OneWriter`. Nothing is said of where a severed run is, which may be
  anywhere. From it `DirectOneWriter` and `DirectNoStrayLock`. *PoolInv*, with or
  without a pooler: a run that moves from one place to another changes the
  number of connections by what the places keep (`RunMoves`, from the
  cardinality lemma `CountMove`), and each action changes `lent` by the same
  number (`Balance`). From it `NothingLeaks` (`PoolAccounted`) and `TypeCorrect`,
  whose point is that `lent` stays within the pool.
* **ModelFitProofs**. `IInv` = `TypeOK`, `OneActive`, *InsertedAlone* (one
  uncommitted new row at most) and *InsertedReplacesAll* (its transaction holds
  the lock on whatever is active). From it `ExactlyOneActive` for any number of
  processes; with *Gated* also `SingleProcessNeedsNewData`.
* **FusionJobProofs.** `IInv` = types, *ScoresInOrder* (only a run with a model
  scores, and only rows without a score are in its backlog),
  *BatchIsFresh* (no frame of an open batch is processed), *FoundIsRight* (what
  the open transaction will commit is one nearest pair per frame, with
  the score its observation has). Two lemmas carry it: the order of the queues is
  total (`EarlierIsAnOrder`), hence LIMIT bounds a batch (`OldestBounded`), and
  a nearest row exists among finitely many (`NearestExists`). From it
  `TypeCorrect`, `AuditTrail` (`OnePairPerFrame`, `RunsAccountFrames`),
  `NearestIsPaired`, `PairsStayCurrent` (a score is final once given, whatever
  model is active, so no pair falls behind it) and the two refinements
  `FramesAreAQueue` and `ObservationsAreAQueue`.
* **ClusteringProofs**, of `Clustering`. *WrittenSoFar*: in its transaction a run
  has written as many different rows as groups, and their links are the groups
  it has come to; a row it has found is none of them. This needs
  `FinitelyManyGroups`, and that a table with a row appended or replaced is a
  table (`AppendRow`, `ReplaceRow`). From it `EveryGroupItsRow`
  (`GroupsKeepApart`), also while an administrator repairs. *TInv* adds
  *RowsRight* (each row, stored or in the draft, is a `Row` and says what it
  links to), *GroupsRight* (a group is a set of observations that is not empty)
  and *Stage* (what each stage of a run has set): the centroid exists and is a
  natural number because weights are positive, and `lastSeen` because a finite
  set has a greatest element (`SummaryRight`). From it `TypeCorrect` and
  `RowsSayWhatTheyLink` (`SummaryMatchesLinks`), without any hypothesis.
  Repairs may come at any time in all of this:
  * `RepairsStand` (`RepairedUntouched`), with *RepairsPreserved*: the draft has
    every row the run has not written as it is in the table, and a repaired row
    that it has written, or is about to, was repaired while it was the target
    (`raced`). `MCClusterRace.cfg` shows that this exception is needed.
  * `RepairsAreFinal` (`NoResurrection`), with *GroupsUnexplained*: no group has a
    member that a repair explains, except for repairs made since the members were
    read (`late`). That labelling keeps to the members whatever the shape of the
    groups (`GroupsOfMembers`) is what makes it independent of chains.
    `MCClusterLate.cfg` and `MCClusterChain.cfg` show both exceptions.
  * `IdentityIsStable` (`StableIdentity`), with *ApartInv* (no two open rows have
    the same centroid, and what the last commit wrote is still there). It is the
    one theorem about `Clustering` with a hypothesis: that no two groups of a
    labelling have the same centroid (`CentroidsApart`). Then the row of a group
    is at distance 0 from it, the only such, and nothing an earlier group takes.
    Two groups around one centroid can swap their rows, as either is a nearest
    one: `MCClusterCrossing.cfg`.
* **ClusteringProofs**, of `Scoring`. *ScoringInv* = *ModelsFitted* (the classes of
  each model are those `ClassOf` gives to its energies), *ScoreStands* (a
  stored score is that of some stored model for some densities) and *PairsFused*.
  What carries it are facts about the operators: ranks are a permutation, so
  all components but two are potholes (`RanksAreAll`, `PotholesAreAllButTwo`); the
  arg max has the greatest mass (`LikeliestIs`, `Masses`); powers of ordered odds
  are ordered (`PowerOrder`, by induction over a set of naturals); and fusing
  keeps the side both terms are on (`ClampedOdds`, `TermOdds`, `Fused`). From it
  `ScoringTypeCorrect`, `PotholesHaveHighEnergy`, `SlowerIsNeverBetter`, and, if
  logits clamp above even odds and the weights are positive (`_EPS` is 1e-6,
  the default weights are 0.5), `UnexplainedNeedImages` and `PairsDecidedByATerm`.
* **LifecycleProofs.** *SchemaGrows* (what is applied is a prefix of the files,
  no process is ahead of it, and who serves has it all) and *WindsDown* (for
  each phase, what may still run; a closing process whose scheduler is gone has
  only cancelled runs). The second needs `NothingLent`: when no connection is
  lent, no run is at a place that holds one. From them `CompleteSchema`
  (`WorksOnCompleteSchema`), `MigrationsInOrder` (`AppliedInOrder`) and
  `QuietWhenStopped` (`StoppedIsQuiet`). *PoolBound*: an action changes `Lent` by
  what a run or a handler keeps where it goes (`RunLends`, `HandlerLends`,
  `EndLends`), and only `Granted` adds, so `Lent` stays within `PoolSize`:
  `TypeCorrect`.

The provers do not do induction with a predicate as a parameter. A set of
naturals serves instead (`Induction`, from the well-foundedness of `<`): with it
the folds of the community modules are sums (`FoldExists`, `SumRemove`,
`SetInduction`), and finite sets have maxima. `RateLimitProofs` and
`ClusteringProofs` each have these lemmas, being about different modules.

`TypeOK` of `EventIngestion`, `FrameUpload`, `JobLock`, `ModelFit`, `FusionJob`
and `Lifecycle` are proved and left out of the runs, as are `NoEventLost`,
`NoFrameLost`, `OnePairPerFrame`, `AppliedInOrder` and `DeviceLimit`. Every
invariant that a run checks is a theorem, some under the hypotheses above.

## Disagreements between the code and what is said of it

One is a run of `PROJECT.json`, where the text is quoted:

| Run | The code | The text |
|---|---|---|
| `ingest_accepted` | after an event that raises, COMMIT rolls back and earlier ids are still answered as accepted; the device deletes them | `models/__init__.py:93` |

The same models show others. Each has a configuration here, for whoever wants
to see the behaviour; they are not in the list of runs, so they show what the
program does and nothing else here rests on them.

| Configuration | The code | The text |
|---|---|---|
| `MCIngestPartial.cfg` | one event that raises keeps its whole batch from being stored, at every retry | `README.md:445` |
| `MCIngestInvalid.cfg` | one invalid event makes the request a 422 | `routes/events.py:39-41` |
| `MCRateLimitHour.cfg` | requests are dated to the start of their minute | `rate_limit.py:8` |
| `MCRateLimitWorkers.cfg` | each process admits the limit | `rate_limit.py:4, 8` |
| `MCFramesPartial.cfg` | two processes share a temporary name | `frame_service.py:112` |
| `MCFramesOverwrite.cfg` | the file is replaced before the duplicate is found | `frame_service.py:51-52` |
| `MCFitTwice.cfg` | two processes refit on the same data | `SV:56` |
| `MCFusionScore.cfg` | the score may be another model's, or missing | `registry.py:3-4` |
| `MCJobLockLost.cfg` | a run whose connection is lost goes on until its next statement on it; meanwhile the server grants its lock to another process | `SV:34-35` |
| `MCJobLockPooled.cfg` | a session lock, taken behind a transaction pooler, does not exclude a second run | `SV:34-35` |
| `MCClusterChain.cfg` | the ends of a chained cluster are farther than eps from its centroid: they survive its repair and open a new cluster | `docs/phase-2.2-clustering-plan.md:61`, `SV:324-326` |
| `MCClusterCrossing.cfg` | two groups with one centroid may swap their rows when the job runs again | `docs/phase-2.2-clustering-plan.md:85` |
| `MCClusterLate.cfg` | a repair between reading the members and matching them reopens the defect | `SV:324-326` |
| `MCClusterRace.cfg` | a repair between the SELECT and the UPDATE does not protect the row | `docs/phase-2.2-clustering-plan.md:62-63` |
| `MCLifecycleStop.cfg` | the asyncio executor cancels the jobs in flight | `scheduler.py:77` |
| `MCLifecycleOneConnection.cfg` | with a pool of one connection the fusion job waits for itself, and so may a shutdown that began before | `main.py:36-41` |
| `MCScoringEvidence.cfg` | an observation for which neither sensor nor image speaks is fused to 0.5 and can become a member | `SV:297` |
| `MCScoringNeutral.cfg` | the fallback engine lets a ratio of 0 speak against a pothole | `features.py:30-31` |

Two need no configuration: `Reply` answers 200 whether or not the database can be reached,
as `health_check` does, where `routes/health.py:18` says 503. Another follows from
a theorem: by `PotholesHaveHighEnergy` all components but two are potholes, so with
two of them none is, where `fit.py:44-46` says the highest is.

One more thing the clustering model shows, which no text denies: when two
clusters merge, the row that is not matched stays as it was and open. If the
other row is repaired later, the stale one still links to the same detections.

## What is only model-checked, and what is not modelled

Only model-checked: liveness and everything that needs fairness (`EventsGetStored`,
`EveryRequestEnds`, `HealthyDevicesDrain`, `FramesGetStored`, `EveryRunEnds`,
`ModelKeepsUp`, `QueuesDrain`, `DetectionsGetClustered`, `EveryWorkerServes`,
`ServerStops`), which is out of the prover's reach; the disagreements above, which
are counterexamples. Where the hypothesis of `IdentityIsStable` does not hold,
neither does its property in general.

Not modelled:

* the Gaussian mixture, the isolation forest and the densities they give:
  floating-point libraries, whose results are arbitrary values here;
* coordinates: places are points of a line, distances small integers;
* the statements of the migrations: a file is a step that is applied or not;
* reading the environment, logging, the wording of replies, the audit columns
  of `cluster_run`;
* the growth of the rate limiter's dictionary with the number of devices.

Abstractions worth knowing: a clustering weight belongs to the observation and
does not change between runs (in the code it rises when a better pair is fused),
so `StableIdentity` is about runs that find the same groups with the same
weights; `received_at` order is part of the constants of `FusionJob`; a request's
refusal by the rate limiter is a choice in `EventIngestion` rather than a
composition with `RateLimit`, which allows more behaviours, not fewer.

## Plan

1. *Done*: every component that keeps state, with its faults; refinements (uploads of events and of frames to
   `ReliableUpload`, the two tables of the fusion job to `WorkQueue`); proofs of
   the safety properties above.
2. *More of the system*: a composition of fusion and clustering on one table of
   observations, with "a detection that is stored ends up scored, paired once
   and clustered"; `RateLimit` composed with `EventIngestion`; the weights of
   members that rise between two runs of the clustering job.
3. *More proofs*: that `EventIngestion` with aborts implements an abstract
   specification that loses by aborts only; that groups no larger than `Eps` never
   meet the second exception of `NoResurrection`.

## Running

    tlc -config MCIngestRetries.cfg MCEventIngestion.tla
    tlapm EventIngestionProofs.tla

The configuration and module of each run are in `PROJECT.json`.
