# Verification of ÆGIS

ÆGIS hosts independently deployed domain components in one process. A component
runs in worker threads of its own, is reached through generated use cases and
ports, keeps its objects in a cached datasource, and talks to other components
through an event broker that extends over a service mesh. This directory holds
TLA+ models of the parts that carry that logic, the TLC runs that check them and
the TLAPS proofs about them. Paths below are relative to `src/`.

## Inventory

| Component | State it keeps | Operations | What is hard | What makes it correct |
|---|---|---|---|---|
| Thread pool `domain/thread-pool.js`, `domain/worker.js` | `threads`, `freeThreads`, `waitingJobs`, `closed`, `aborting`; per worker its listeners; timers | `runJob`, `checkout`, `allocate`, `reallocate`, `drain`, `reload`, `destroy`, `abort`, monitor | every await interleaves with worker messages and exits; four operations stop threads at once | one job per worker, one place per job, no job lost, drains end, queues move |
| Circuit breaker `domain/circuit-breaker.js` | a log per circuit id | `invoke`, `logError`, `detectErrors` | overlapping calls, state read at the start and written at the end, time windows | opens on recent errors, stays open until a test, never half open for good |
| Datasource and cache `domain/datasource-factory.js`, `datasource.js`, `shared-memory.js`, `adapters/datasources/*` | cache (a map shared by threads), store, pool of clients, buffer of a write stream | `save`, `find`, `list`, `delete`, `count`, `createWriteStream` | cache and store change at different times, the store fails, run offline; the pool and the buffer change between awaits | what is acknowledged is stored; a deleted object stays deleted; the cache is not behind |
| Use cases `domain/use-cases/*` | idempotency keys, cached models | create, edit, remove, find, invoke port, emit event, load | read-modify-write over awaits, main thread and worker halves, rollback | no lost update but by overlap, no duplicate creation |
| Wiring and hot reload `domain/use-cases/index.js`, `hot-reload.js`, `deploy-model.js` | specifications, pools, shared maps, `inProgress` | register, get pool, reload one or all, dispose | the order of registration decides which map is whose | threads of a domain and the main thread see the same objects |
| Ports and compensation `domain/make-ports.js`, `port-handler.js`, `undo.js` | `portFlow`, timers, retry log in the arguments | port call, timeout, retry, `compensate` | retries overlap the call they repeat, late answers, several runs of one workflow | the flow is in order, nothing is skipped, failure undoes in reverse |
| Event broker `domain/event-broker.js` | handler lists, subscriptions | `on`, `off`, `notify` | handlers change the list that notify walks | a handler that is off is silent, one that is on is called |
| Event routers `event-router.js`, `use-cases/broker-events.js`, `emit-event.js`, `thread-pool.js` | handlers of `to_main`, `to_worker`, `from_worker` | fire by scope, forward, publish again | threads come and go, links fail, an event causes others | heard once, in order, never echoed |
| Model factory and model `domain/model-factory.js`, `model.js`, `mixins.js` | one object in instances and as JSON | create, update, save, load | names of core properties in payloads and changes | identity and history survive every round trip |
| Relations, distributed cache `domain/make-relations.js`, `distributed-cache.js`, `federated-query.js` | copies on several hosts | relation functions, cache search, update and delete events | request and answer as events, timeouts, workers at their own pace | copies settle on the last version; a call returns |
| Mesh client `adapters/service-mesh/domain/webswitch.js`, `adapters/websocket-adapter.js`, `adapters/service-locator.js` | one socket, send queue, heartbeat timer, `pong`; the url | connect, send, heartbeat, close; ask, answer | reconnection, reordering, dead links, lost packets | messages in order; a dead link is noticed; the switch is found |
| Mesh switch `services/service-mesh/web-switch/switch.js` | clients by name, backup switch | connection, close, route | an old socket closes after its successor registered | a connected client is listed |
| Cluster `services/cluster.js` | `reloading`, `reloadList`, `workerList` | fork, reload request, worker online and exit | crashes during a rolling restart | every old worker is replaced, capacity is kept |
| Remote import `domain/index.js`, `import-remotes.js`, `bind-adapters.js` | caches of remote modules, specifications | import at start, import on demand | five awaits, concurrent imports | what is registered is complete |
| HTTP host `aegis.js`, `adapters/controllers/*` | routes, request context | route, handle, answer | exceptions of work left behind, a request answered twice | every request is answered truly |
| Serverless and WebAssembly adapters, certificates, authorization, event bus, orchestrator | – | translation between runtimes; external services | – | not modelled |

How they interact: a controller calls a use case on the main thread, which calls
`runJob` of the domain's pool; the worker runs the same use case against its
datasource, whose cache all threads share, and its ports; ports and use cases
fire events; the broker carries them between threads and, through the mesh
client and switch, between hosts. Hot reload drains and renews a pool. A circuit
breaker guards a port, an undo function or a database connection.

## Plan

1. `ThreadPool` – the heart of the runtime. Done, with proofs.
2. `CircuitBreaker`, with `BreakerPromise` as what it implements. Done, with proofs.
3. `Objects` (cache, store and the use cases on one object), `ModelObject`,
   `MongoSource`. Done.
4. `Ports`, `EventBroker`, `Requests`. Done.
5. `Mesh` (client and switch), `ServiceLocator`, `HostEvents`. Done.
6. `Cluster`, `RemoteImport`, `DistributedCache`, `Wiring`. Done.
7. Proofs. Done for every safety invariant and action property of the runs (see
   Proofs), for the types, and for the abstract specifications that `ThreadPool`
   (`JobLending`), `CircuitBreaker`, `Ports` (`Saga`) and `Cluster` (`RollingRestart`)
   implement. Left: an abstract store for `Objects`.
8. Still to model: lists and queries of the datasource, the translation of values
   between JavaScript and WebAssembly.

## Modules

| Module | Role |
|---|---|
| `JsArray` | `splice(indexOf(x), 1)` as the code relies on it, also when `x` is absent |
| `ThreadPool` | one pool, its workers, its administration |
| `JobLending` | the abstract pool: jobs that are lent threads |
| `BreakerPromise` | the abstract breaker: a switch with three positions and the calls inside |
| `Saga` | the abstract workflow: steps that are done in order, and taken back in reverse |
| `RollingRestart` | the abstract reload of a host: processes that are replaced one by one |
| `CircuitBreaker` | one circuit: its log and the calls on it |
| `Objects` | one object in cache and store, and the requests on it |
| `ModelObject` | the instances and the JSON of one object |
| `Wiring` | models, shared maps and pools of a host |
| `Ports` | the workflow of one object |
| `EventBroker` | the handlers of events in one thread |
| `Requests` | HTTP requests from route to answer |
| `Mesh` | nodes, their sockets, and the switch |
| `HostEvents` | events between threads and hosts |
| `MongoSource` | the pool of database clients and a write stream |
| `Cluster` | the worker processes of a host |
| `ServiceLocator` | how nodes find the switch |
| `RemoteImport` | the import of remote modules |
| `DistributedCache` | copies of an object on several hosts |
| `MC*` with `MC*.cfg` | instances for TLC |
| `JsArrayProofs` | lemmas about sequences and numbers that the proofs share |
| `ThreadPoolProofs`, `BreakerProofs`, `MongoProofs` | theorems about one module each |
| `ObjectsProofs` | about `Objects`, `ModelObject`, `Wiring` |
| `PortsProofs` | about `Requests`, `EventBroker`, `Ports` |
| `MeshProofs` | about `Mesh`, `HostEvents` |
| `HostProofs` | about `RemoteImport`, `Cluster`, `DistributedCache` |

`MCObjects`, `MCMesh` and `MCHost` each put several modules into one run, to keep
the runs few. The parts do not interact there: one of them moves while the others
are in their initial states, so the states of such a run are the sum, not the
product, of those of its parts, and every behaviour of a part is one of the run.
Where a part has fairness, it is assumed of its steps as long as the others have not
moved. (In `MCHost` the fairness of the workflow is that of its own specification; the
other parts move only when it has given up without an answer, where none of its fair
steps is enabled.)
`MCPorts` and `MCCircuitBreaker` are extended by these, and are run by themselves
for the findings.

An operator introduced by a comment as a *variant* (`EnqueueOnly`, `StoreSkips`,
`sameName`) is a plausible wrong version of the operator below it. No
specification uses it; it serves to show that a property notices the mistake.

### ThreadPool

The main thread is an event loop. An action is one callback with the microtasks
that follow; an await that needs a later event ends the action and the
continuation is an action of its own.

| Code | Model |
|---|---|
| `runJob` refused, on a free thread, allocating, queued | `RunJobRefused`, `RunJobOnFree`, `RunJobAllocates`, `RunJobQueued` |
| the `online` message of a worker, continuing `allocate` or `startThreads` | `OnlineForJob`; `OnlineThenNext`, `OnlineLast` |
| `messageFn` with `reallocate`, `checkin` | `CompleteJob` |
| `errorFn`, `exitFn` | `BusyWorkerExits`; without a listener, or one that throws, `IdleWorkerExits` |
| a worker that never comes online | `StartingWorkerDies` |
| `reload` and `destroy` up to the end of `drain` | `Begin`, and `WakeDrains` for `NOJOBS` |
| the monitor, `pool.abort` | `MonitorArms`, `BeginAbort` |
| `stopThreads`, `stopThread` | `StopNext`, `StopDone`, `StopFails` (the assertion) |
| after the stop | `ReloadStarts`, `DestroyEnds`, `AbortReopens`, `AbortRestarts` |

State: the pool's fields have their names. A thread is the id of its worker;
`worker` is the worker's life, `running` the job whose listeners are on it,
`starter` who awaits it while it starts. `status` is the promise of `runJob`.
An administrative operation has a program counter `pc`, the index `cursor` of
its iteration over the live array `pool.threads`, and the thread `target` whose
exit it awaits. An id is used again only when nothing refers to it.

Abstractions. `poolCanGrow` compares averages with thresholds: any outcome is
possible when there is a thread already. The data of a job, metrics and event
channels are left out. A job that the factory's abort dispatches runs outside of
any request, so `stopTimer` throws in each of its listeners: such jobs are in
`restarted`, and never settle. For the same reason the monitor's `ping` jobs
cannot be constructed and its abort always follows. Between the exit of a worker
and `StopDone` other callbacks may run; with the six-second timeout they do, and
without it this only adds behaviours.

Properties. `ThreadExclusive`: a thread on offer runs nothing and is offered
once. `JobInOnePlace`: a job is once in the queue, or on one thread, or waiting
for one. `StaysPut`: it keeps its thread until it is settled. `NoJobForgotten`
and `ListsAgree` are about a pool nobody stops. `QueueDrains`: behind a busy
thread, the queue empties.

`LendsAsPromised` says that the pool implements `JobLending`, which knows nothing of
free lists, drains or listeners: the lent threads are `running`, the jobs called for
are those that a starting worker is awaited for, and a caller is answered when the
promise of `runJob` settles. A job gets a thread that has none, the queue moves in
order, and a caller is answered once, whatever reload, destroy, aborts and crashes do
in between. The promise allows what the code does to a few callers: one may wait in
vain for a worker that dies before it is online, or when `checkout` throws (`Forget`,
`Abandon`).

### CircuitBreaker

The breaker is its log: `getState` reads the last entry. A call appends an entry
when it begins and, according to the state it read then, more when it ends. The
four ways to begin are `InvokeClosed`, `InvokeSuppressed`, `InvokeTest` and
`InvokeHalfOpen`; the four ways to end are `CallReturns`, `CallFails`,
`TestReturns` and `TestFails`; `logError` is an error event. Thresholds are
functions of the error, `None` standing for the default. `Date.now()` is `now`,
which moves between callbacks; within a callback it may move by `MaxLag`, which
only `readyToTest` can notice. `fallbackFn`, and what a call returns, are left out.

`KeepsPromise` says that the log implements `BreakerPromise`: a closed breaker
admits, an open one does not, only a call inside or an error event moves the switch,
and an open one is closed by the end of a test. One step more is allowed,
`FailLate`, which is no part of the promise: a call admitted earlier that fails
later logs the state it read at the start (`:326`), and so may close an open breaker.
The documentation says otherwise ("It remains open until a test interval has
elapsed", `circuit-breaker.js:285`); that is `RemainsOpen`, which the run
`breaker_late` refutes. `OpensOnEvidence` restates the thresholds as counts of
entries and errors within the interval, and says what else opens the breaker: an
error event while it is half open, and the end of a test, also of one that succeeded,
with an error within the default interval.

### Objects

One object, whose value is the set of requests merged in it. A request goes
through the code's steps on the main thread and in a worker; a step is one access
to the shared cache or one answer of the store.

| Code | Model |
|---|---|
| a request's half on the main thread, its half in the worker | `Begin`, `AfterMainFind`; `Work`, `AfterWorkFind`, `Reply` |
| `find` of the factory: cache, store, cache again | `FindInCache`, `FindMisses`, `StoreFinds`, `StoreFindFails`, `Fill` |
| `createModel`; `editModel` with its rollback | `CreateModel`; `UpdateSync`, `Rollback`, `StoreRestores` |
| `save`, also with `runOffline` | `SaveSync`, `StoreSaves`, `StoreSaveFails`, `Saved` |
| `removeModel` | `StoreDeletes`, `DeleteSync` |
| `load-models` | requests in `Loads` |
| end of the process: the cache is lost, so are requests in progress | `Crash` |

Data: every edit changes a property of its own, so a value is the set of changes
it has. History variables: who met whom (`met`), what is owed to acknowledged
callers (`owed`), which creates went on because the lookup of a document that is
there failed, which `find` swallows (`blind`), whose deletion failed, which the
adapter swallows (`kept`), whether any other remove is over (`gone`).
`SoloUpdatesKept`, `AcknowledgedIsStored`, `OneCreation`, `StoreCatchesUp` and
`RemovedForGood` name what does lose updates, or bring objects back, in this code,
and say that nothing else does: requests that overlap; a create that is `blind`,
which makes the object anew over the stored one although it met nobody; a remove
whose deletion failed, after which the next lookup finds the document again. All
three kinds of failure (`Failing`) happen in the run.

### ModelObject

Instances keep core properties under symbols, JSON keeps them under their names.
Actions are `make`, `loadModel`, `update`, `updateSync`, `save` and `find`, with
payloads and changes that use core names. A value is told apart by where it comes
from. `CoreProtected` says that none of the round trips confuses the two.

### Wiring

Models are registered in any order. The first of a domain creates its pool and
decides which maps the threads are given (`getThreadPool`,
`findLocalRelatedModels`); threads start, save and delete; pools are reloaded, one
or all, and disposed of. `PoolsShareMaps` is claimed for hosts where the model
that a domain is named after is registered first, or where there is none; see
"Other facts" for what happens otherwise.

### Ports

A chain of ports, each triggered by the event of the one before. A call is named by
its run and the tries that led to it, so that late answers of earlier tries are
told apart. Actions: an adapter answers, throws or never does; a timer fires
(retry or give up); a save ends or is refused; a worker loads the model and resumes
the workflow (`WorkerLoads`, or `WorkerDies` when its process was restarted);
`compensate` calls undo functions, one at a time, splicing the array it folds over.
An undo function is called by a circuit breaker, whose `invoke` never rejects, so it
makes no difference to `compensate` whether it works (`UndoWorks`), throws or is
suppressed (`UndoFails`): the port is removed from the flow. Only a save that is
refused ends the fold (`UndoRefused`, and in `UndoBegins` the save of the mark).
Copies of a model share `portFlow` as they do in the code: arrays have names, and a
model refers to one.

`RunsAsSaga` says that the workflow implements `Saga`: a port is done after those
before it, and `compensate` goes back over ports that are done, the last one first
and each once; then it reports, or breaks off. The saga is weaker than the
textbook's: ports that are under way when `compensate` begins may still answer, and
are not taken back, for the code does not stop them; and a step whose undo function
failed is passed over. That COMPLETE means something nevertheless is
`CompleteMeansUndone`, which the run `undo_complete` refutes. `OwnRunBackedOut` says
what `compensate` goes through: in the run that the model was created in, all ports
before the caller's (for others see "Other facts").

### EventBroker

`on` (with `once` and `singleton`), `off`, unsubscription and `notify`. A `notify`
walks the live array by index, as `forEach` does, so a handler that is removed
while it walks makes it pass over another. The stack holds the notifications in
progress: handlers notify, too.

### Requests

Two clients, each with one request of any kind. `RouteMap.find` and `get` are
modelled with the result that `has` leaves behind, use cases by what they return or
throw, and the controllers by the status they send. Jobs may be rejected, lost with
their thread, or refused by a closed pool. An exception that nobody catches reaches
`process.on('uncaughtException')` in some request's context.

### Mesh

Each node has one socket in the life of its process (`connect` does not open a
second one), so a connection is a node and a life. Links keep the order and lose
nothing until they are cut, which neither end is told. Both directions, the
heartbeat, the switch's list of clients by name, errors counted per client,
closing, terminating and the switch's broadcast are actions. `connect` stands for a
connection that is opened with a url: that `websocket-adapter.js` imports no
`WebSocket` (line 3 is a stray `1`), so that line 32 throws unless the environment
has a global of that name with the same interface, is left out, and so are the throw
for a missing url (`:37`) and the retries of the port that calls it. A node that never
connects satisfies the properties.
`OnlyOverlappedUnlisted` says when a connected client is *not* broadcast to;
`DeadLinkNoticed` counts unanswered pings.

### HostEvents

Threads of an owner's pool and of related pools on two hosts. A channel per thread
(`connectEventChannel` on the main side, `connectSubChannels` in the worker: what
is fired before is lost), the relay through the main thread to the mesh, which may
lose, and back to all threads of the other hosts. Owners publish CRUD events under
their external name and answer requests that want objects made, which fires again.
`fireEvent` is modelled by scope: "host" and "thread" reach workers, and so does, on
other hosts, an event for a pool there is none of; the others reach nobody
(`FireAtNobody`). `HeardOnceInOrder` is what the renaming, the
relay's "not to myself" and the handling of stopped threads are for.

### MongoSource

The pool of clients, found short before a client is connected and extended after;
clients report closed connections at any time. The write stream: records are
buffered and flushed by `HIGHWATERMARK`; a flush may store some of the batch, or
all, and fail.

### Cluster, ServiceLocator, RemoteImport

`Cluster`: forks, online and exit callbacks, the reload list, the interval that goes
on with it. At first all workers are starting; any that is up may request a reload.
`RollsAsPromised` says that it implements `RollingRestart`, in which a process is
stopped only when as many are up as there are cores, and a restart ends when none from
before it runs. The code tests neither: it stops a worker when another has come
online, and ends when its list is empty. Two cases in which fewer are up are allowed
by name: a worker has crashed, for nobody replaces it then; and the first reload was
requested before all workers had come up (`asked` is "early"), for `online` events of
the first workers then count as those of replacements. `ServiceLocator`: multicast
queries and answers that may be lost or repeated, retries, a backup that takes over.
`RemoteImport`: the five awaits of an import on demand, and calls that overlap.

### DistributedCache

Every worker of a host receives what other hosts write and applies it to the host's
map in its own time, some after importing the code. A deletion arrives under the
external name and is upserted; `CopiesSettle` is about objects that were not deleted
last. Relation calls look into the map and wait for `maxwait`.

## Runs

| Run | Instance | Result |
|---|---|---|
| `pool_admin` | 2 jobs, 3 workers, maximum and minimum 1; reload, destroy, monitor abort and rejection abort, two at a time; workers die running, idle or starting | `PoolTypeOK`, `ThreadExclusive`, `JobInOnePlace`, `LendsAsPromised` hold |
| `pool_jobs` | 4 jobs, 3 workers, maximum and minimum 2, preloaded or not; no faults, fair | `ListsAgree`, `NoJobForgotten`, `QueueDrains` hold |
| `pool_starve` | 2 jobs, maximum 2 | `QueuedJobRuns` fails: queued with a free thread |
| `pool_drain` | 2 jobs, maximum 2, reload | `DrainCompletes` fails: `NOJOBS` comes too early |
| `pool_renew` | 2 jobs, maximum 2, reload | `StopBeforeStart` fails: a starting worker outlives the reload |
| `pool_excess` | 3 jobs, 3 workers, maximum 2 | `UpToMaximum` fails: three calls allocate at once |
| `breaker_retest` | retry delay 1 | `RetestsAfterDelay` fails: the delay is measured from the call's own entry |
| `breaker_late` | 3 calls, 2 errors with thresholds of their own | `RemainsOpen` fails: a call that fails late closes an open breaker |
| `undo_complete` | 3 ports, two of them undoable, one incident | `CompleteMeansUndone` fails: a failed undo counts as done |
| `objects` | Objects: 4 of 7 requests, 2 at a time, failing saves, lookups and deletions, one restart. ModelObject: 2 threads, 3 core names in use. Wiring: 3 models in 2 domains, 2 threads, one reload, dispose. Ports: 3 ports, the first tried twice, two undoable, 2 incidents | `SoloUpdatesKept`, `OneCreation`, `StoreCatchesUp`, `AcknowledgedIsStored`, `RemovedForGood`; `CoreProtected`; `PoolsShareMaps`; `PortsTypeOK`, `FlowInOrder`, `NothingSkipped`, `StormBounded`, `RunsAsSaga`, `OwnRunBackedOut` hold |
| `mesh` | Mesh: 2 nodes, one started up to 3 times, 2 events, 2 incidents. HostEvents: 3 threads on 2 hosts, 2 events and their answers, a thread stopped or a link closed. MongoSource: 2 operations on a pool of 1, 2 closes; a stream of 5 records flushed by twos. EventBroker: 3 handlers, one once, one singleton, 2 notifications. Requests: 2 requests of any kind, 2 uncaught exceptions. CircuitBreaker: 3 calls, 2 errors with thresholds of their own, one event, retry delay 0 | `OnlyOverlappedUnlisted`, `InOrder`, `DeadLinkNoticed`; `HeardOnceInOrder`; `PoolBounded`, `StreamStored`; `RemovedStaysSilent`, `EachCutCostsOne`; `AnsweredTruly`; `BreakerTypeOK`, `HalfOpenIsTested`, `OpensOnEvidence`, `KeepsPromise` hold |
| `hosts` | Cluster: 2 cores, 2 reloads, also while the host starts, 1 crash. ServiceLocator: switch, node, backup, 1 death. RemoteImport: 3 concurrent imports. DistributedCache: 3 hosts, 5 workers, 3 writes, 2 relation calls. Ports: 2 ports, the first tried twice, 2 incidents, fair | `RollsAsPromised`, `ReloadEnds`; `SwitchIsFound`; `RegisteredComplete`; `CopiesSettle`, `RelationReturns`; `WorkflowEnds` hold |

Some properties are proved, and no run lists them: `ObjectsTypeOK`, `MeshTypeOK` and
`EventBrokerTypeOK` state the types of their modules; `StaysPut` is a consequence of
`LendsAsPromised`, `RollsOneByOne` and `ReloadReplacesAll` are consequences of
`RollsAsPromised`, and `UndoneInReverse` follows from
`RunsAsSaga`, as a port is added to `undone` only when `compensate` passes it.

### Bounds

*Pool and breaker.* `MaxCommands` is how many administrative operations overlap; two
of the four reach every pair, and the code has no step that looks at three. One thread
and three worker ids let a thread be replaced while its predecessor is still being
stopped and a third worker is starting. Two jobs fill the thread and the queue; the
factory's abort needs two waiting jobs, which `pool_admin` reaches while the pool's
thread is gone. `pool_jobs` needs four jobs for a queue of two behind two threads. In
the breaker, three calls give a trip, a call under way across it and a test; `Horizon`
is 3, the longest interval, or more, so that errors of any kind go out of scope; a
retry delay of zero with `MaxLag` 1 is the instance in which the half-open state can
be reached at all.

*Objects.* A lost update takes two requests that overlap, a resurrection a third
that has read before; four in all leave one to observe it. One restart separates
what is only in the cache from what is stored. Requests of one kind are
interchangeable: TLC uses that symmetry for creates and edits, in a run without
liveness properties. A create over a failed
lookup takes a create before it, and a restart; a deletion that fails, a create, a
remove, and a find after them.

*Ports.* Three ports are the fewest with a middle one; one retry of the first gives
two overlapping continuations through the whole chain. Two incidents combine any two
kinds of trouble. For `WorkflowEnds`, which asks only whether one step leads to the
next, two ports are enough. *EventBroker.* One handler to cut, one to be passed over,
one to be called after; a notification inside another.

*Mesh.* Three lives let an old connection close after its successor, and again
after that one's. Two events are what an order takes. *HostEvents.* An owner on each
host echoes if anything does; the related thread asks and hears. *MongoSource.* One
short pool and two callers; five records by twos leave a rest, and repeat an id
within a batch and across batches.

*Hosts.* Two cores show that one stays; a second reload may be asked for while the
first runs, and a crash may hit a worker on the list. Three imports overlap pairwise
at each of the five awaits. Three writes and two listening workers on one host give
every order of stale writes.

Deadlock checking is off: systems run out of calls within their bounds, and a drain
may wait for ever.

### Fairness

`pool_jobs`, `pool_starve`, `pool_drain` (`FairSpec`): the event loop delivers what
has been posted, so a worker that is starting comes online, a job's use case
returns, and continuations of administrative operations run. No fairness is assumed
for `runJob`, for failures, or for beginning an operation.

`hosts`: in a workflow, a save settles and a timer fires (weak), while adapters may
never answer; the cluster module's callbacks and the interval run (weak); in the
locator, the switch answers and nodes listen and ask again (weak), and a network that
loses packets does not lose all of a kind for ever (strong, for a query that arrives
and an answer that is heard); the timeout of a relation call fires (weak).

## Proofs

Every safety invariant and action property that a passing run checks is also a
theorem, for all values of the constants under the module's `…Assumption`. Bounds such
as `MaxRequests` are constants there: any number. Where the invariant is not
inductive, the strengthening is defined in the proof module just before its proof, and
was checked by TLC before it was proved.

*Thread pool* (`ThreadPoolProofs`).

- `TypeCorrect`: `PoolTypeOK` is inductive as it stands.
- `ThreadsExclusive`: `ThreadExclusive` is inductive relative to `PoolTypeOK`. It
  carries more than the free list needs, because it has to: entries of both lists
  are distinct (else removing a thread leaves a copy behind), and a starting
  worker is on no list and runs nothing (else it would enter a list twice).
- `JobsInOnePlace`: the inductive form is `JobsApart`, the same statement by
  thread instead of by set, with `ThreadExclusive` as context: a job is put only
  on a thread that has none.
- `JobsStayPut`: from `RunningStep`, which says whose job a step may change.
- `ListsInAgreement`: while there are no commands, no operation of the
  administration is under way and only starting workers are awaited (`ListsInv`).
- `NoJobIsForgotten`: by cases of who takes a pending job over. It needs
  `ListsInAgreement`: `runJob` throws when `freeThreads` is longer than `threads`
  (`threadsInUse`), and `NotLonger` shows that a list of distinct entries of another
  is not.
- `LendingKept`: the refinement of `JobLending`, one step of the pool at a time, from
  `JobsApart` and `ThreadExclusive`. The mapping reads `called` off the starting
  workers, so it also takes `AwaitedStarts`: nobody waits for a worker that is not
  starting. Most steps of the administration are then stutters; of a reload or an
  abort, a caller sees only that the thread called for it may come or not.

*Circuit breaker* (`BreakerProofs`). `TypeCorrect`; `HalfOpenTested`, by looking at
which steps leave the last entry half open; `PromiseKept`, the refinement of
`BreakerPromise`, with the state of the last entry and the sets of calls under way
as the mapping, up to `FailLate`; `OpenedOnEvidence`: a step that opens the breaker is
the end of a call, the end of a test or an error event, and where it is a breached
threshold that opens it, the code's sums over the log are the counts that the
property speaks of (`BreachIsOverload`).

*Objects* (`ObjectsProofs`). One inductive invariant, `ObjectsInv`, for four of the
five properties (`NoSoloUpdateIsLost`, `AcknowledgedSurvives`, `KeyMakesOne`,
`StoreIsCurrent`). Its parts: which request can be at which label (`Control`); a
request that has met nobody is alone (`Alone`); what is owed is in the cache, else in
the store, *and in all that requests under way are about to write* (`Kept`), which is
the point, for a lost update is written long before it is lost; what a request that
is alone has written is still there (`Own`); where a create was warned the object
is and nobody removes it (`Made`); cache and store differ only between two writes
(`Settled`). `Due` is what is owed while no create went on over a lookup that failed in
silence: from then on nothing is claimed. `RemovedStaysGone` adds `Removed`: after a
remove whose deletion worked all lookups under way find nothing. It needs no
assumption on failures; a remove whose own deletion failed does not count as one.
Strengthening showed that `OneCreation`, as first stated, held only within the run's
bounds (three creates, a remove, a load and a crash break it); the cases that the
property excepts were corrected. `ObjectsTyped`: every value stems from exactly one
create.

*Model objects* (`ObjectsProofs`): `CoreStaysProtected`. The core properties of the
object as created are in each instance and in each JSON made of it; functions are in
none. The lemmas follow one function of `model.js` each.

*Wiring* (`ObjectsProofs`): `MapsAreShared`. In a well ordered host the main thread's
maps have what is saved, and a map has no object of another model (`Shared`); that a
thread shares the main thread's map then follows from what its pool was given.

*Database clients* (`MongoProofs`): `PoolIsBounded`, by counting the callers that are
connecting: each found the pool short, and there are only so many. `StreamIsStored`:
the buffer is the last stretch of what was written, and what is stored of the rest is
current.

*Requests* (`PortsProofs`): `AnswersAreTrue`. First what the routes are once they are
set, with the result `has` leaves behind; then, per request, what its point, outcome
and answer say of each other (`TrueOf`).

*Event broker* (`PortsProofs`): `SilentOnceRemoved`, `CutsAreTheCost`. Each `notify`
under way is a frame; `FrameHolds` says that the handlers it has still to run are
ahead of it in the array, and counts those behind it that it has not run: no more
than the cuts it noticed.

*Workflows* (`PortsProofs`): `WorkflowTyped`, `FlowsKeepOrder`, `NoneIsSkipped`,
`UndoneBackwards` from one invariant, `PortsInv`: a call's cause is a call and its
array exists; a flow holds ports that have answered, increasing; what has answered is
a beginning of the chain; `undone` is what `compensate` has passed over.
`UndoneBackwards` says nothing of undo functions that fail but that they do not
disturb the order. `StormStaysBounded` counts: a call is known by its cause and its
try, so that port `k` has at most `maxRetry[k]` calls for each of port `k - 1`
(`FewTries`); then over the ports of a run and over the runs. The two inductions are
by a smallest counterexample (`Smallest`), as the library's induction rules are out of
reach. `SagaKept`: `RunsAsSaga` from `PortsInv` too, with what `compensate` has still
to visit read off the index of its fold, so that it does not matter which of the undo
functions work. That `compensate` begins with steps that are done, in the order in
which they were, is where the invariant on flows is needed; that a port is done after
those before it, where the causes of calls are. `OwnRunIsBackedOut`: until `undo` is
called, an array of the first run holds exactly the ports up to the call it is named
after (`OwnFlows`), because each call appends itself to the array of its cause. In a
resumed run it does not.

*Mesh* (`MeshProofs`): `MeshTypes`: a life is a connection, and a heartbeat goes on
exactly while the socket is open. `DeadLinkIsNoticed`. `OpenIsListed`: a name is the
last connection's, if anybody's. `PublishedInOrder`: what has come to a connection, or
is on its way to it, is ordered by sender and older than what the switch has yet to
get of that sender. *Events between threads* (`MeshProofs`): `EventsHeardInOrder`, the
same over four kinds of queues (`FlowInv`): heard, to the worker, on the mesh, to
main.

*Hosts* (`HostProofs`): `RegisteredWithAll`: kinds are imported one after the other,
and the map of workers, which registration needs, comes last. `ReloadedAll`: while a
reload runs, every running worker it is to replace is on the list to be stopped.
`RestartIsRolling`, by counting online workers against pending stops, where no worker
has crashed and the first reload was requested when all were up: during start-up
the count is off by those that are still to come.
`RollingRestartKept`, the refinement of `RollingRestart`, with the running workers on
`reloadList` as those still to be replaced; the guards of the abstract steps that the
code never tests follow from the invariants of the two theorems before. `CopiesAgree`:
the last message in each worker's inbox is the last version; about objects that were
not deleted last.

Assumptions on constants that proofs need and the code justifies: callers, models,
jobs and the like are finite sets where they are counted; each record of a stream
has an id; a request is of one kind; the main thread is not a worker thread;
the values of an object are sets, different from `Missing`.

### Only model-checked

- Liveness (`QueueDrains`, `WorkflowEnds`, `ReloadEnds`, `SwitchIsFound`,
  `RelationReturns`): the prover knows neither fairness nor `ENABLED`. `ServiceLocator`
  has only such a property and no theorem.
- The seven runs with findings: a counterexample is their result.

## Findings

- `checkout` looks at the maximum before the free list (`thread-pool.js:574`): a
  full-size pool queues every job, free threads or not, and only the end of another
  job takes one off the queue. `QueuedJobRuns`.
- `NOJOBS` is decided before the thread is checked in (`thread-pool.js:273`) and
  the drain timer never resolves (`:711`): a reload of a busy pool hangs, closed.
  `DrainCompletes`.
- A worker that is starting, preloaded or for a job, is invisible to drain and stop
  (`thread-pool.js:707`): it joins the renewed pool. `StopBeforeStart`.
- `readyToTest` sees the entry the call has just logged (`circuit-breaker.js:169`):
  an open breaker never tests unless the retry delay is zero. `RetestsAfterDelay`.
- A call that fails logs its error under the state it read when it began
  (`circuit-breaker.js:326`): one that was admitted before the breaker opened may close
  it, with no test. `RemainsOpen`.
- `compensate` takes an undo function that returns for one that worked
  (`undo.js:53`), but the breaker that calls it returns when it throws, too: the port
  is removed from the flow, nothing is retried, and COMPLETE is reported.
  `CompleteMeansUndone`.
- The capacity test counts the threads there are (`thread-pool.js:549`), and not
  those that are being started: calls that overlap take the pool beyond
  `maxThreads`. `UpToMaximum`.

## Other facts

Met while modelling. Where a model covers the code it behaves so too; no run is
about these.

*Objects and datasources.* MongoDB's `delete` swallows errors (`:431`), while its
comment says "If db fails, keep it cached" (`:424`): the factory then deletes from the
cache, the remove is acknowledged, and the next lookup finds the document in the
store. A lookup that fails is swallowed as well, and reads as "not found": a create
with the key of a stored object makes it anew and overwrites it. (Neither takes an
overlap; `RemovedForGood` and `SoloUpdatesKept` except them by name.) A rejection of
`find` is not caught, as it is not awaited. A breaker's `invoke` never rejects, so
clients that could not connect enter the pool; `splice(-1, 1)` removes a healthy
client when one that is out of the pool closes (`:125`). The delete event is fired
before the delete is attempted (`remove-model.js:49`). `getUniqueId` returns the id of
the request's context: objects made in one request share it. A payload's properties
that are named like core keys override them at creation.

*Lists.* A streamed list passes `param`, so filters and paging are ignored;
`writable.on('end')` never fires, so `stream()` never resolves; a paginated list is
an object, on which `list.some` is called; `Map.size()` is a call of a number.

*Wiring.* If a member of a domain is registered before the model the domain is named
after, the threads take the member's map for that model's. Relations of members that
are not first are not shared. A reload of all destroys the pool of a domain that is
not named like a model. Disposed pools stay, closed; a reload opens them again.
`calculateMaxThreads` ignores an explicit `maxThreads`.

*Ports.* An undo function that throws counts as a success (see Findings), so the catch
around it (`undo.js:61-67`), which counts retries, is never reached. `setPortTimeout`
throws instead of returning after the last retry, so the caller's undo
(`make-ports.js:233`) is not reached. `compensate` reports INCOMPLETE after a
successful undo, for it has spliced the flow it compares with. Each worker that starts
resumes every stored workflow. A listener of a resumed workflow loads the model from
its JSON once more (`make-ports.js:108`), with the `portFlow` it had when it was
resumed: each port is recorded in place of the one before, and an undo called two
ports after the resumption does not "back out all previous port transactions"
(`model.js:231`).

*Events.* Handlers of regular expressions are called as `v.f` (`event-broker.js:141`),
which throws, and `notify` swallows it. `fireEvent` with scope "mesh" notifies the
main thread's broker, where nothing listens; scope "pool" puts the event where its
name should be. The `channel` that scope "response" passes to `runJob` is dropped, for
the constructor of `Job` reads `options` only (`thread-pool.js:80-88`): the job runs
on the main channel and is rejected, since no port has the event's name. (The comment
in `worker.js:55-59` suggests to call `runJob` in this way.) `PortEventRouter`
computes remote ports before local ones, so there are none, and throws for a domain
that is not named like a model. `ping` is never answered.

*Requests.* `RouteMap.get` returns what the last `has` left, so POST `/deploy` is not
found when there are no user routes. A path matched by an earlier pattern keeps the
host from starting. `find-model` *returns* its error: 200 and `{}`. Errors of deploy
are answered with 200. A streamed list whose source fails after the first byte never
ends.

*Mesh.* `websocket-adapter.js` does not import `WebSocket`. `send` gets a promise from
a port, never `false`: nothing is queued. A socket is not opened twice, so `connect`
after a close has no effect, and a host whose mesh client was disposed of stays alone.
A client's `close` on the switch deletes by name, also its successor. `reassignBackup`
reads the wrong objects: no backup follows one that leaves (`switch.js:366`). A backup
that takes over never answers queries.

*Hosts.* A worker process that crashes outside a reload is not replaced. A reload that
is requested while the host starts stops workers faster than they are replaced: each
worker that comes online adds a stop. Deletions arrive under the external name and are
upserted: the copy of a deleted object stays. `searchCache` names `requester`,
which is not defined: relation calls always wait `maxwait`. A failed import leaves
the caches half set (`index.js:431`).

## Not modelled

- `list`, `count` and queries of the datasources, the file datasource, the federated
  query: they read one structure and change nothing; the streaming of a list is in
  `Requests` as far as the answer is concerned.
- Delayed and filtered handlers of the broker; handlers of regular expressions, which
  never run.
- User routes, the HTML of `getContent`, the servers and command line around `handle`.
- `deploy-model`, which runs a shell command.
- Routes of the switch other than broadcast (never taken), the uplink (commented
  out), the backup (never used), its status reports.
- `forward-events.js`, `reset-reload` and the relay between cluster workers: nothing
  calls or sends them.
- The serverless and WebAssembly adapters translate calls; certificates,
  authorization, the event bus and the orchestrator wrap external services.
- Metrics, logging and formatting.
