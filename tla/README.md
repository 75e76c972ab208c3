# Verification of clab-observability-poc

TLA+ models of the observability collector of this repository, the TLC
configurations that check them on small instances, and TLAPS proofs of their
most important properties for every instance. Paths are relative to the
repository root. `PROJECT.json` is the index: which definition stands for which
lines, what every run checks, which mutation of the model each property
catches, and the list of hazards the properties were chosen for.

## The system

Four routers are observed in two ways. The **gNMI collector** is a long-running
process: a worker thread per device holds a streaming subscription, merges
notifications into a cache, publishes the cache as Prometheus gauges and puts
batches of observations on a queue that one sink thread writes to OpenSearch.
The **CLI collector** is a one-shot process that logs in to every device, sends
two commands and writes the answers to the same OpenSearch indexes. Both run as
tasks of an **ECS emulator**; a **discovery loop** asks the emulator for the
running gNMI task and rewrites the file Prometheus reads its targets from.
`scripts/lab.py` brings all of it up and down. Sixteen **route injectors** (Go)
announce a number of prefixes that follows a sine. The addresses and BGP
neighbors of the twenty routers come from one table in `scripts/topology.py`, and
`scripts/verify.py` judges the running lab: it breaks three things on purpose,
waits for what should follow, and mends them.

| Component | State | Operations | Interacts with |
|---|---|---|---|
| `StateCache` (gnmi.py) | five dictionaries and the tombstones | `apply`, `snapshot`, `validate_sync` | called by one worker |
| `Sink` (gnmi.py) | queue of 120 batches, thread | `put`, `run` | every worker puts; calls `Repository.write`, counts in `Metrics` |
| `worker`, watchdog (gnmi.py) | cache, `synced`, `persisted_states`, backoff, age of the last message | session loop, `client.close()` from the watchdog | stop event, `Metrics`, `Sink` |
| `Metrics` (metrics.py) | observations per device, `last`, `synchronized`, counters | `disconnected`, `update`, `error`, `collect` | workers and the scrape thread, under a lock |
| `Repository.write` (repository.py) | one request, three attempts | bulk POST with retries | OpenSearch |
| `run`, `collect_device` (cli.py) | one future per device | thread pool of two, exit code | devices, `Repository` |
| `collect_cli` (ecs.py) | task, deadline | RunTask, polling, StopTask | ECS emulator, the CLI process |
| discovery (ecs.py) | the targets file | list, describe, compare, atomic replace | ECS emulator, `make up`, Prometheus |
| `up`, `down` (lab.py), `bootstrap`, `service_ready`, `shutdown` (ecs.py) | topology, service, revisions | calls one after another, any may fail | ECS scheduler, discovery loop |
| `decode` (wire.py), `make` (gnmi.py), `normalize` (cli.py), schema.py | none | words of a device to fields of an observation, or an exception | gNMI worker, CLI run, `Metrics.collect` |
| topology.py | constants | `external_specs`, `configs` | startup configurations, checks, dashboards |
| `verify`, `fault_test` (verify.py) | the step it is at, three faults in the devices | waits with deadlines, `try`/`finally` | devices, Prometheus, OpenSearch, ECS |
| route injector (external/main.go) | number of routes, routes in the speaker | `loadConfig`, `reconcile`, step timer | BGP speaker (library) |

What is hard in it: notifications out of order and twice; a queue at its limit
whose loss must be visible; a shutdown in the middle of everything; bulk
requests that time out and are processed all the same; dead connections that
raise no error; decisions on an answer of ECS that is a call or two old; two
writers of one file; commands that fail half-way; a test that judges a lab
through samples and documents that lag behind it.

## Modules

`->` reads "is composed into" or "is implemented by".

| Module | Models | State and actions |
|---|---|---|
| `CacheContract` | what the collector needs of the cache (abstract) | `view`, `changed`, `gone`; one `Report` per `apply()` |
| `StateCache` -> `Collector` (through the contract) | class `StateCache` | `value`, `leafTime`, `tombstone`, `observedAt` are the dictionaries, `touched` and `gone` the result of `apply()`; `Apply(n)` is the whole call: update loop (`Accepted`, `AfterUpdates`), then deletion loop (`Buried`, `Removed`, `AfterDeletes`), then the report. `seen` is a ghost |
| `Sink` | class `Sink`, operations only | `Put` = `put`, `Check`/`Get`/`GetTimeout`/`Written`/`Failed` = one turn of `run` |
| `SinkAccounting` | `Sink` with any number of producers, and the end of the process | `ProcessEnds` is the return of `main` after its bounded joins; ghosts number the batches and remember their sizes; `Index` is OpenSearch processing a request, of a write that raised perhaps much later |
| `BulkWrite` | what `write()` promises (abstract); `SinkAccounting`, `Collector` and `CliRun` rely on no more | `outcome`, `stored`; `Store` may come after `Raise` |
| `Repository` -> `BulkWrite` | one call of `write()` and the server | `Post`, `Return`, `Fail`, `Wake` are the client; `Index`, `Lose` the server and the network |
| `Collector`, `CollectorProps` | the gNMI process: workers, `Metrics`, `Sink`, history | `pc[d]` is the place of a worker; each action touches shared state at most once: `ReadUpdate` (cache and exporter), `PutTransitions`, `PutSnapshot`, `ReadSync`, `PutInitial`, `End`. `WriteBatch` and `LoseBatch` end a write, `Arrive` is a document a write that raised had left on its way |
| `Session` | one worker and its watchdog on a clock | ages and timers, `Tick`, `Look` (the watchdog reads), `Close` (it acts), `Degrade`/`Wedge`/`Repair` of the device |
| `CliRun` -> `CliTask` | `run` and `collect_device` | `job[d]` is the future of a device; `posted` are the commands whose write has begun, `stored` those OpenSearch has in full (`Index`: perhaps after the write raised) |
| `CliTask` | `collect_cli` and the task the run lives in | `RunTask`, `PollStopped`, `GiveUp`, and the emulator's `TaskStarts`/`TaskExits`/`TaskDies` |
| `Ecs` -> `Discovery`, `Lifecycle` | the emulator as the code uses it (external) | what a task should do (`desired`) and does (`last`), and the service scheduler |
| `Discovery` -> `Lifecycle` | `write_discovery` by two writers, `discovery_loop` | `List`, `Describe`, `Compare`, `Replace`, `Raises`, `Clear`, `Wake`; `answer[w]` is what the last call told writer `w` |
| `Lifecycle` | `up` and `down` beside the discovery loop and the scheduler | `step` is what the command does next: one action per API call, except that `Register` (create_cluster and two registrations, which may fail half-way), `UpsertService` and `Scale` (a describe and the call that depends on it) are one action each; only the command itself creates, changes and deletes the service, so nothing can come between |
| `Observations` | the way of a value: leaf or CLI answer, observation, series | `values` is the cache, `shown` what `Metrics` holds; `Updates`, `Deletes`, `Sync`, `Breaks` are the stream, `ShowInterfaces`, `ShowBgp`, `NoSections` the CLI |
| `Network` -> `Acceptance` | topology.py, and what OSPF and BGP make of it with some ports shut | definitions only |
| `Acceptance` | `verify` and `fault_test` against the lab | `FaultTest` is the program, a sequence of steps with the `try` block each is in; `at` is the step; the chain stream -> exporter -> sample -> document lags in its own actions (`Updates`, `Stores`, `Scrape`, `Forget`) |
| `Injector` | the route injector | `pc` follows `run`; `Applied` is `reconcile` |
| `MC*` | constants for TLC | |
| `StateCacheProofs`, `SinkProofs`, `CollectorProofs`, `SessionProofs`, `CliTaskProofs`, `LifecycleProofs`, `ObservationsProofs`, `AcceptanceProofs` | the theorems about the module of that name (`SinkProofs`: `SinkAccounting`; `CliTaskProofs`: `CliRun`, too; `ObservationsProofs`: `Repository`, too, which stores what the other makes; `AcceptanceProofs`: `Injector`, too, whose wave the test waits for) | |

An operator whose comment calls it a mutant is a deliberately wrong variant of
the definition next to it. Nothing uses it; `PROJECT.json` pairs it with the property
that must fail when it takes the place of the definition.

## Abstractions

* **Cache.** A leaf has one path; a deleted path is the set of leaves below it,
  which is all `apply()` compares. Values of leaves are opaque. The paths of one
  notification are taken together: the deletion loop is sequential in the code,
  and its result is the union because each removal looks only at its own leaf
  and `max` is associative.
* **Collector.** An entity is what `state_signature` sees of it; a change of
  counters only is a report without a change of view. `deleted=True`
  observations of one entity share one signature. `validate_sync` needs
  interfaces and neighbors, and no entity it names may be `Partial`; interfaces
  other than Ethernet may. The ten-second snapshot may be due at any message.
  The drop counter is left to `SinkAccounting`. `history` is the
  document readers find of an entity, the one with the highest `collected_at`
  (verify.py:147, the dashboards); a device's batches are collected with
  rising times, its clock is not set back. An exception inside `apply()` ends the
  session before the exporter was told (gnmi.py:281): `StreamFails` has it at
  once, without the half-changed cache that nobody reads any more.
* **Writes that raised.** A request that timed out may be processed after its call
  raised, after newer batches were stored, in part or not at all (`BulkWrite`).
  `SinkAccounting!Index`, `Collector!Arrive` and `CliRun!Index` do so at any later
  moment. Of a call that returned, requests may still be under way, too, but they
  would only write the documents that are there.
* **Session.** One tick is a unit of real time; threads act within the tick in
  which they can. The watchdog's join ends in time. `time.time()` of the exporter and
  `time.monotonic()` of the watchdog are one clock, so the bounds hold while the
  wall clock is not set. The age of single entities
  (metrics.py:82) is not modelled.
* **Repository.** `stored` is the set of observations that have a document: the id
  of a document is the hash of its content, `collected_at` included, and the
  payload is made once before the first attempt, so every attempt writes the same
  documents under the same ids. That there are no duplicates is therefore part of
  the model and not a result.
* **Discovery, Lifecycle.** A task stands for its target. The temporary file is
  private to its writer until the rename. The disk may fail, and a second
  exception, in the handler, ends the loop.
  `wait_for` swallows exceptions until its deadline, which may fall at any time.
  A deployment or destruction that fails may have done part of its work: the
  emulator and the discovery loop run afterwards or not.
* **Observations.** Notifications in order; the fields kept are one of each kind
  (a word with a table, a free word, a counter pydantic bounds, a count it does
  not). What EOS prints for a condition (`Said`, `Printed`) is wider than what was
  seen of it. `Series` is of a device that is fresh: the age of a single entity
  (metrics.py:82) is left out here, too.
* **Acceptance.** Of the devices only what the faults touch: edge1's session with
  external1 and its prefixes, and core1's Ethernet2; all others are as planned. A
  wait may run out at any time. Tasks die only when the test stops them, a
  document can be searched as soon as it is stored, the drop counter
  (verify.py:238), the octet counters and the evidence files are left out, and a
  BGP session is up or down. discover and the query of `current_query` are one
  step, which matters only if a task starts between them, and then the check fails
  once more. The collector that is stopped is gone at once; the container drains
  for some seconds. A test starts again only on a lab that has settled, in whatever
  condition the last one left it (`Again`, `Settled`); nothing in lab.py waits for
  that, and a test started while the lab still lags is not explored.
* **Injector.** The sine is any integer within the amplitude, so what holds does
  not depend on the phase. A failed `reconcile` ends the process, which stops the
  speaker. The interval and the period are numbers, and their conversion to
  `time.Duration` (main.go:139) is not narrowed; no property depends on them. Per-path errors inside a successful AddPath are the library's.

## Runs and what they show

Twelve runs; ten pass, two are counterexamples to what a document of the
repository says. The largest (`collector`) has 8.2 million distinct states.

| Run | Question | Bounds |
|---|---|---|
| `state_cache` | Which update does each leaf end with, whatever the order and repetition of notifications, and does `apply()` report every change? | two entities (one with a leaf outside its state container), three timestamps, deletions of one leaf, of a container and of nested paths, three distinct notifications repeated at will. Three is enough for update, deletion and late update of one leaf, and for ties. Values are symmetric |
| `repository` | Can a return lie, what is stored be taken back, or the call never end? | three observations, the code's three attempts, every partial result and every delay |
| `sink` | Is everything offered either written, waiting or counted, and does the history have a gap nobody counted? | five batches of one or two against a queue of two: full, drained and full again |
| `collector` | Do exporter and history follow the session while devices reconnect, the queue overflows, the store refuses, or stores what it refused much later, and the stop event comes? | two devices (symmetric), one interface and one neighbor each, four messages: update, sync, end of the stream, update, sync of a second session; queue of three, so that it overflows and the limit of two batches could be broken |
| `session` | Is a silent or dead connection noticed, a stop obeyed, a repaired device published again, and how soon? | limits 7, 7, 3, 3, 2 keep the order of the code's 35, 35, 15, 15, 10 seconds; two faults |
| `cli_task` | Do exit code and `collect-cli` tell the truth, and what is left of a run that is cut off? | three devices on two threads (one must wait), two commands |
| `observations` | Does every series and every observation say what the device said, and no more? | one entity of each kind; of every field a value for each outcome of its table and one outside it |
| `lifecycle` | What do `up` and `down` leave, do they end, and does the targets file settle on the running tasks? | two tasks (a replacement exists), two commands: up after up (a redeployment), down after up, down alone; API and disk come and go |
| `acceptance` | Does the fault test mend what it breaks, is what it passes true of the lab, and does it pass when nothing is wrong? | the whole program twice, so that a test meets the faults an earlier one left behind; three tasks, because each test replaces one |
| `injector` | Are the advertised routes a gapless prefix of the pool? | values on both sides of every check |

Liveness is checked where timing is modelled. `session`: `RecoveryBound` is the
sum of the time to detect a dead connection, the longest backoff, one dial and one
sample period; lowering it by one makes TLC find a longer recovery, so it is
tight. To detect takes the silence limit and one watchdog period, or one dial if
that is longer: the proof for every choice of the timeouts showed that a
connection that dies while it is dialled is nobody's but the dial's to give up.
With the code's 35 and 15 seconds the watchdog is the slower one. `sink`: the
thread ends after the stop event; the puts are bounded there, and in the process
because the workers stop (`StopsInTime`). `repository`: the call comes back even if
the server never answers.

What the order of updates does to the cache: a leaf keeps the newest update that
no deletion covers, so order and repetition do not matter, with one exception that
`Converged` states (`Tied`). Two updates of one leaf with equal timestamps and
different values leave the last to arrive, for `apply()` refuses only what is older
(gnmi.py:87). `observed_at`, which depends on the order, too, is
not part of `Converged`; `ObservedAtCoversLeaves` says what does hold of it.

**Counterexamples.**

* `collector_removal`: docs/design.md:12 says a deletion is kept as
  `deleted=true` history. An entity that disappears while its stream is down is
  never reported: the next session starts from an empty cache and an empty
  `persisted_states` (gnmi.py:239, 242, 303).
* `lifecycle_destroy`: docs/design.md:42 says `down` confirms that tasks have
  stopped before it destroys the network. `shutdown` waits for what
  `list_tasks(desiredStatus="RUNNING")` returns after the service was scaled to
  zero (ecs.py:187); a task the scheduler has already told to stop is not in the
  answer although it still runs. `NothingRelaunched` is what does hold.

Remarks that are not runs:

* `collector_dropped_observations` ("Observations not persisted", metrics.py:73)
  counts whole batches, parts of which may be stored, also later. `StoredInOrder`
  says that only counted batches can arrive behind newer ones.
* The limit of 180 seconds of a CLI task (README.md:76) is `collect_cli`'s: if a poll
  or the stop_task at the deadline raises (ecs.py:168, 175), nobody stops the task,
  and it goes on to its own end. `CliTask` has it (`ApiRaises`, `GiveUp`); what it
  may leave in the history is `StoredIsPrefix`.
* `collector_last_observed_timestamp_seconds` (metrics.py:44) advances with any
  update of a synchronized session, also one that `apply()` accepted nothing of.
* loadConfig checks AS numbers as `int` (main.go:117) and keeps them as `uint32`
  (main.go:131): 4294967296 is accepted as AS 0. `Narrowed` models it.
* A line protocol that is dormant is "down" over gNMI (gnmi.py:143) and "unknown"
  over the CLI (cli.py:14): no contradiction in the sense of `TransportsAgree`,
  but `compare()` would not pass while it lasts.
* Nothing waits for core1's Ethernet2 after it is restored (verify.py:333). That
  the last `compare()` agrees rests on a container taking longer to start than a
  link to come up; `Acceptance` assumes it in `Started`.
* The drop counter is read from the replaced collector (verify.py:238): what the
  old one dropped during the faults is not in it.
* README.md:94 speaks of five other devices; the inventory has four in all.

## Fairness

* `SinkAccounting`: weak fairness of the one thread. Every blocking
  call in it has a timeout (`queue.get` 0.5 s, `requests` 5 s, three
  attempts).
* `Session`: weak fairness of the threads and of the clock; of the device only
  that it answers *while it is healthy* (a healthy device sends a sample every
  period, `Punctual`). The premise `<>[](healthy /\ ~stop)` is part of the
  property.
* `Repository`: weak fairness of the client, whose request ends with an answer, an
  error or five seconds in which nothing is received, and whose sleeps are finite. A
  server that keeps sending a byte now and then would extend the five seconds.
* `Lifecycle`: a command makes its calls and its waits have deadlines; the
  discovery loop runs while its container does. Nothing is asked of ECS, which
  may fail for ever: that it settles is a premise of `TargetsFollowTasks` and
  `EmptyWithoutApi`.
* `Acceptance`: strong fairness of the test, because a wait polls every two
  seconds and the wave it polls goes on moving, each of its values lasting longer
  than the chain takes to show it; weak fairness of everything in the chain.
  `QuietTestPasses` asks that no call raised, no wait ran out and nobody killed
  the test.
* `Collector`, `CliRun`, `CliTask`, `Observations` and `Injector` are checked for safety only.

## Proofs

TLAPS checks these for all values of the constants, under the assumptions named
in the modules (each is evaluated by TLC in some run).

* **`StateCacheProofs`** (`CacheAssumption`). `Convergence` needs the invariant
  `IInv`: the types; every tombstone is the newest deletion seen of its path; every
  leaf that is held is the value of a newest update (`HeldIsNewest`, from which the
  case without a tie follows); bounded times. One step of `apply()` is split into what
  it does to one leaf (`LeafStep`): an update is accepted exactly if it survives
  the deletions seen so far, including those of its own notification, because
  deletions run last and win ties. `ObservedAtCorrect` rests on lemmas about the
  maximum of the leaf times; `Implements` shows that an entity outside the report
  kept all its leaves, so its snapshot is unchanged.
* **`SinkProofs`** (`CapacityAssumption`, `BoundsAssumption`, `NoBatchAssumption`).
  The invariant `IInv` says that numbers fall all along the way of a batch: back of
  the queue, front, hands of the thread, history (`Ordered`), and that what is
  queued behind a thread that has left came after its last look (`LateOnly`). From
  it follows `Drained`. `HistoryInOrder` adds `HistoryInv`: OpenSearch has documents
  only of batches that were written, refused or are in hand, and only a refused one
  can be late, because what is in hand is newer than everything stored
  (`HandIsNewest`). `CounterExact` adds `AccountInv`: queued
  and held batches keep their sizes, and the counter is the sum of the sizes of
  `Lost`. That sum is a fold over a set; what it needs of folds (the sum exists
  and is unique, depends on the members only, grows by the size of a new member)
  is proved without induction, from a smallest counterexample among the subsets of
  a finite set (`MinimalSubset`). Each action then either leaves `Lost` alone
  (`NothingLost`) or adds one batch to it (`OneLost`).
* **`CollectorProofs`** (`CollectorAssumption`, `NoBatchAssumption`). The cache is known by
  its contract only, so the theorems hold for every cache that implements it, and
  `StateCacheProofs!Implements` shows that this one does. `ExporterCorrect`: per
  device, the exporter's rows are the view while a synchronized session is open and
  empty otherwise. `HistoryCorrect`: while a report is being put, the transition log
  agrees with the cache about everything outside the report (`LogInv`), and the newest
  document of an entity is in the last batch that has one, or in hand, or it is what
  readers find and nothing newer is left to arrive (`HistoryInv`); a batch refused or
  dropped enters `lost`. A write that returns is newer than all that refused writes
  before it have left on their way, so what arrives later does not show. `StopLosesLittle`: a
  worker's place limits how many batches it can have put since the sink thread found
  the queue empty (`Allowance`).
* **`SessionProofs`** (`SessionAssumption`: the five limits are positive and a sample
  period is shorter than both limits). All three bounds hold for every choice of
  the timeouts. `WatchInv`: the watchdog is armed while the worker reads, and time
  does not pass a silence it has not looked at. `HeardInv`: the last update is no
  younger than the last message. `StopInv` and `RecoveryInv` give for every place of
  the worker the time left until the bound; `Lively` is why the watchdog leaves a
  healthy device alone.
* **`CliTaskProofs`** (`CliAssumption`). A device has stored what it is done with, a
  future has an exception exactly if something failed for its device, the counter is
  zero exactly if no future taken so far had one, and the run ends when all were
  taken; around it, only a run that succeeded has exit code zero, and only that code
  makes `collect-cli` succeed. `PrefixStored`: at most one write has begun beyond what a
  device is done with (`Progress`), because the next command is sent when `write()`
  has returned. The bounds on devices, threads and commands go.
* **`LifecycleProofs`** (`BoundAssumption`, for any set of tasks). `UpInv`: while
  `up` waits, the service runs the newest revision, so a task that is not in
  the answer `up` holds is of that revision. `DownInv`: once the service is gone the set
  of listed tasks only shrinks, so the stale answer of `down` covers it.
  `TargetsBegun`: whatever a writer is about to write has begun to run, and having
  begun is never undone. Each is kept by the command, the discovery loop, the
  scheduler and the tasks in turn.
* **`ObservationsProofs`** (`ObservationsAssumption`: a name is of one thing, counts
  are integers, None is none of the words, counts and observations;
  `AttemptsAssumption`). The invariant says that the exporter holds exactly the
  snapshot of the cache of a synchronized device, that the cache holds what the device
  may say, and that an observation over the CLI is made of an answer about the device
  as the cache has it. Its hard step is `ReceiveInv`, for a notification with any number
  of updates and deletions: what it does not touch has the same observation as before
  (`Untouched`), so telling the exporter of the touched entities is enough. The tables
  of `make`, `normalize` and `collect` are then compared field by field
  (`SeriesMeans`, `TransportsField`); `SyncShows` is what `validate_sync` guarantees.
  Of `Repository` the invariant says that a reply "ok" was given only after the whole
  batch was stored; `Implements` is the refinement of `BulkWrite`.
* **`AcceptanceProofs`** (`AcceptanceAssumption`: there is a test, and None is not a
  number; `InjectorAssumption`). For any number of tests in a row. `Table` computes
  the 47 steps of the program with their `try` blocks, which is why each place of the
  test can be named by its number. `IInv` says per place which fault the devices may
  have (`FaultInv`: before `steady_metrics` has passed, at most one an earlier test
  could not mend; after it, the one of the block), which task runs (`TaskInv`), and how
  far the chain device -> exporter -> newest sample has followed (`SessionInv`,
  `LinkInv`, `StreamInv`): `Say` when all of it agrees, `Passed` while a change travels
  along it. Without the part about the chain the faults cannot be proved, because it
  is a wait that tells the test that nothing is broken. `FaultsMended` and `OneAtATime`
  follow from `FaultInv`, `WaitsAreTrue` from the chain.
  For the injector the invariant ties `advertised` to `current` and `current` to the
  accepted configuration; `InjectorApplies` computes what a difference does to a
  prefix. `WaveStaysInRange` connects the two: with base 1000 and amplitude 300, as
  lab/observability.clab.yml has it, a running injector never advertises a number of
  prefixes the checks of the test refuse.

Only model-checked:

* All liveness (`StopEndsThread`, `Recovers`, `CallEnds`, `CommandsEnd`,
  `TargetsFollowTasks`, `EmptyWithoutApi`, `QuietTestPasses`): fairness and `ENABLED`
  are beyond the prover. What `Discovery` and `Lifecycle` say of the file at rest is
  liveness, too.
* `PlanConsistent` and `ReroutesAroundOneLink` of `Network` and `Acceptance`. The
  topology has no parameter: they are evaluated once and for all, and the second
  over the connections of a graph, which are defined by recursion.

## Not modelled

* `dashboard.py` (378 lines) writes the two Grafana documents: layout and queries,
  one pass, no decision. `check_dashboard.py`, `compare_status.py`,
  `check_cli_failure.py`, `ecs_status.py` and the probes read the live lab once;
  what `check_cli_failure.py` looks for is `CliRun!FailuresIsolated`.
* `doctor`, `build`, `clean`, the saved objects and settings `up` posts, the
  password file of `prepare`, the inventory and the profile: read or written
  once, and not shared with anything the models have.
* The value kinds of gNMI (`typed_value`), labels of series, and the fields of an
  observation that no one decides on.
* Hazards that are real but that no property covers. A tombstone is kept for every
  path ever deleted in a session (gnmi.py:99): memory that nothing limits and no
  document promises to. `credentials()` is outside the `try` block
  (gnmi.py:243): a missing variable ends a worker at its first turn or never. A
  second exception in the handler ends the discovery loop (ecs.py:98): the model
  has it (`Clear`), and the two properties about the file ask for a working disk.
  Without the emulator `make down` leaves the tasks' containers behind
  (lab.py:108): intended, in the model (`FindFloci`), and left out of
  `NothingRelaunched`.
* A watchdog held up between its test and its call of `client.close()` for longer
  than the join, the backoff and the dial (gnmi.py:310): it would close the next
  session's client and cost one more reconnection. The age of single entities
  (metrics.py:82).

## Plan

All safety and action properties with a parameter are proved. What is left:

1. Extend the model: a surviving watchdog and the per-entity age in `Session`; a
   concurrent `collect-cli` in `Lifecycle`, whose task `shutdown` also lists.
2. Compose `Repository` with `SinkAccounting`, so that `Index` is the server of the
   former. Today the two meet in the promise of `BulkWrite` only.
3. `Observations` and `StateCache` share the leaves but not their state; a joint
   refinement would carry `SeriesSayWhatWasTold` over to notifications out of order.
