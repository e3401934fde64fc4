# Redemeine: a verification project

Redemeine is a TypeScript library for event-sourced systems: aggregates, sagas
and projections, with stores, workers and transports for them. This directory
models it in TLA+. At its centre is the part that many processes run at once
against shared state, the **projection transport**: commits of event-sourced
aggregates travel from an append-only source log, through a broker queue and an
indexed tail, into projection documents, and must be folded into each document
exactly once and in order although messages are repeated, reordered and lost,
transactions conflict and processes die. Around it stand the older pipelines
that fold the same events (a polling **daemon**, a **worker core** with its state
cache, the **legacy runtime**), the **saga runtime**, and the **aggregates** that
decide the events in the first place.

Paths below are relative to `src/packages/`. The file and the lines behind each
definition are in `PROJECT.json` under `map`; a hazard there names the line where
it bites and the properties that would show it.

## 1. The system and its parts

### How a commit becomes part of a document

```
 source log (tapeworm, Mongo)
      |                 |
      | notifications   | indexed tail
      v                 v
 RabbitMQ queue --> ProjectionRabbitWorker + SourceTailPoller     one process
                        |  process(commit)   |  processPolled(commit)
                        v                    v
                  ProjectionCommitCoordinator     lane per source stream
                        |  admitForDispatch, advanceCoverage
                        |-----------------------> MongoProjectionTransportStore
                        |  one call per registered definition
                        v
                  executeProjectionDefinition     lanes per target document
                        |  load, commitProjectionSourceCommit
                        v
                  source-commit store (in memory or MongoDB)
```

A process holds one worker, one poller, one coordinator and two lane schedulers;
it shares with other processes the queue, the source log, the transport rows and
the projection store. Nothing in memory is trusted across a restart.

### The components

`PROJECT.json` lists every one with its source files, its modules and what they
leave out. The transport first:

| component | state it keeps | operations | what is hard | what makes it correct |
|---|---|---|---|---|
| Commit coordinator (`projection-worker-core/src/createProjectionCommitCoordinator.ts`) | nothing of its own: a task per source lane | `process`, `processPolled`, gap reading, dispatch to every definition, coverage advance | several workers fold one source; every await is a point where another worker moves the coverage; a definition may fail after earlier ones committed | each commit is folded once and in order; the coverage claims only what is folded; an acknowledged commit is durable; a commit nobody can fold stops its source |
| Definition executor and reducer (`projectionDefinitionExecutor.ts`, `projectionCommitReducer.ts`, `projectionCommitRouting.ts`) | a snapshot of documents, links and progress; counters of attempts and conflicts | initial routing, load under lanes, reduction, transaction, retry | the snapshot is read piece by piece while others write; joined events are routed by links that move; replies of transactions get lost | the accepted transaction is the one an atomic read would have produced; retries are spent on real conflicts only; the log gets folded |
| Source-commit store (`projection-runtime-store-inmemory/src/internal/sourceCommitV2.ts`, `projection-runtime-store-mongodb/src/store/sourceCommitV2.ts`) | documents with revisions and in-document progress, links with revisions, own-record progress | snapshot reads, one optimistic transaction, reconciliation of an unknown outcome, adoption of old documents | which rows a transaction compares and which it does not; the old runtime that goes on writing | as above, and an old write is noticed |
| Lane scheduler (`targetLaneScheduler.ts`) | a map from key to lane: tail promise, counter | `run(keys, operation)` | overlapping sets of keys, lanes dropped while someone arrives | a FIFO lock manager that cannot deadlock and leaks no lane |
| Rabbit worker, publisher and source-tail poller (`projection-transport/src/rabbitWorker.ts`, `sourceTailPoller.ts`) | epoch, channel, consumer tag, deliveries in flight; timer, active pass, health | `start`, `stop`, delivery handling, delayed retry; `bootstrap`, `start`, `stop`, timed passes | `start` and `stop` are a dozen awaited calls each and may overlap; the broker cancels, repeats and closes channels; a pass walks its sources in order and any failure ends it | no notification is lost, nothing runs in a stopped worker, both calls settle; every source ends up covered unless one at or before it stops |
| Range readers (`tapewormMongoRangeReader.ts`, `tapewormRangeReader.ts`, `sourceOrder.ts`) | a page under construction | probe, pages within two limits, page check | commits of any size, rows missing or malformed, a source that grows | pages concatenate to the history and never pass a gap |
| Transport store (`mongoTransportStore.ts`, `acceptedBaseline.ts`, `joinedCutover.ts`) | binding, accepted baselines, coverage rows, source probes, adopted approval; a cached readiness per client | `initialize`, `installAcceptedBaseline`, `admitForDispatch`, `advanceCoverage`, probes | rows are read, compared and inserted in separate calls by any number of clients | one manifest per queue; one anchor per source; one inventory of joined links; a coverage that only ever takes the next step |

The other projection pipelines:

| component | state it keeps | what is hard | what makes it correct |
|---|---|---|---|
| Projection daemon (`projection-runtime-core/src/ProjectionDaemon.ts`, `EventStoreCatchUpSubscription.ts`) | cursor, dedupe keys, links, runtime mode; the batch in hand | a batch folds against staged and durable links at once; live delivery overlaps the catch-up; it may stop between poll and commit | nothing is folded twice or skipped; where the log is cut into batches decides nothing |
| `commitAtomicMany` and the patch planner of the stores | documents, dedupe keys; a session | a batch conflicts half way or is stored without an answer; index arithmetic in compiled updates | whole or not at all; the patch's document, not another |
| Worker core and replay adapter (`createProjectionWorkerCore.ts`, `workerStateAccess.ts`, `createProjectionWorkerReplayPollingAdapter.ts`) | lanes, an LRU cache of states; a cursor and the ids seen | overlapping polls, failing stores, writes by others | the cursor never passes what is not folded; the cache follows the store |
| Router (`projection-router-core/src/index.ts`) | the link store | routes overlap between their awaited calls | every target linked throughout is reached, no other |
| Legacy runtime (`projection-runtime/src`) | documents, links and cursor, saved one by one | a failure or crash at any of the writes | documents never hold less than the cursor says |

Sagas and aggregates:

| component | state it keeps | what is hard | what makes it correct |
|---|---|---|---|
| Saga inbound router (`saga-runtime/src/inboundRouter.ts`) | a chain of calls per key, barriers, states | failed and cleared calls, surplus arrivals at a barrier | single flight in arrival order; only an open barrier holds a command back |
| Execution bridge (`sagaExecutionBridge.ts`) and saga aggregate (`SagaAggregate.ts`) | definition state, aggregate state, executions, intent numbers | handlers and effects are awaited between read and write; restarts | nothing recorded is lost or invented |
| Scheduler and policy (`referenceAdapters.ts`, `schedulerPolicyEvaluator.ts`) | triggers by id; deficits and waits of tenants | late drains, replaced triggers, lopsided weights | each occurrence once; nobody starves |
| Audit projections (`runtimeAuditProjections.ts`) | records and their history | paging by index through a history that grows | complete, without gap or repetition |
| Saga builder (`saga/src/createSaga.ts`) and handler turns | a draft all builders share | what is registered after `build()` | a saga runs the handlers it was built with |
| Mirage and Depot (`mirage/src`) | a live aggregate, its pending events | dispatches during an awaited save, lost replies, rival instances | every stored event was decided on the events before it |
| Demeine interop (`demeine-interop/src`) | a queue, uncommitted events | inputs settle in any order, errors clear events | commands take turns |
| Aggregate builder (`aggregate/src/createAggregate.ts`, `build/`) | what was registered, on it, its parent and its mixins | names given at several levels, flattened by two algorithms; a parent taken over at any moment | every wire leads where the calls say |
| Built aggregates (`aggregate/src`) | nested entities; a cache of prepared commands | reused, composite, nested and misspelt keys; commands changed while held | events land on the entity meant; extensions match the command |

Not modelled: the projection contracts of `projection-runtime-core` (types and
classifications without an implementation that keeps state), the projection
builder and the kernel (typed builders and types), testing helpers, CLI and code
generation, build, release and website (no part of a running system).

## 2. Modules

### `CommitCoordinator`, and its promise `OrderedProjection`

Any number of `Workers` share the durable variables `coverage`, `ownRecord`,
`marker` and `folds`. `task[w][s]` is the call that holds the lane of source `s`
in worker `w`; its `pc` is the await at which it stands:

| `pc` | awaited call | action |
|---|---|---|
| `admit` | `store.admitForDispatch` | `Admit` |
| `gap` | pages of the range reader | `ReadGap` |
| `dispatch` | `executeProjectionDefinition` of definition `def` for commit `at` | `Dispatch` |
| `advance` | the read in `assertContiguousAdvance` | `AdvanceRead` |
| `cas` | the conditional update of the row | `AdvanceCas` |
| `reconcile` | the read after an update that failed or matched nothing | `Reconcile` |

`Receive` starts a task for *any* commit in the log, any number of times: that is
redelivery, reordering and duplication at once. `CallFails`, `CommitReplyLost`,
`CasReplyLost` and `Crash` are the failures. A document's content is abstracted to
how often it folded each commit, because the properties are about that. A
definition's fold is one step: section 3 says why that is sound. Admission is one
step too, and `TransportStore` expands it.

`OrderedProjection` is the promise without workers, retries or progress records: a
definition with deduplication folds each commit once, when it has folded all the
earlier ones; the coverage follows the slowest definition. `ImplementsPromise`
says that the coordinator implements it, reading `tail` as `log`.

### `TailPoller`

`CommitCoordinator` with the pollers of its workers. A pass walks the sources of
`deployment.order` (`sourceIds`): `Probe` reads the tail, `Load` the coverage or the
accepted baseline, `PollNext` hands the next commit to `processPolled`, which is
`Receive` with its last argument true, `Answered` is what becomes of the outcome, and
`LeaveSource` goes on to the next source when this one is caught up or the pages are
used up. Whatever throws (an outcome other than `completed`, a failed read, a coverage
that others have moved past the tail read before) ends the pass, and the next one
begins at the first source (`sourceTailPoller.ts:146-195`). Passes of the bootstrap
and passes of the timer are the same here; what tells them apart is in
`RabbitTransport`, and what a page holds in `RangePaging`. Every other step is one of
the coordinator's, which the poller follows: `PollersAreOfTheCoordinator` proves that.
`deployment` is chosen in the initial state and never changes: the workers, the order
of the sources, and two bounds (how long each log gets, which workers are notified).

### `SourceCommitStore`

Looks inside that fold. Documents and links have revisions; an execution
`<<w, s>>` reads them one at a time (`ReadLink`, `ReadDoc`) between steps of
others, takes the target lanes (`Reserve`, `Start`), reduces the commit with
`Reduce`, which is the reducer as a pure function from snapshot to plan, and
commits in one transaction that compares what the code compares (`Valid`).
Content is the sequence of events folded, so losing, repeating or swapping one
shows. The module uses the lanes through what `FifoLanes` promises rather than by
promises and counters. A transaction of unknown outcome (`OutcomeUnknown`) is settled as
`reconcileUnknownCommit` does, by reading row by row what it may have written.

### `LegacyTakeover`

The first touch of documents the old runtime has written, seen as what it is: an
old writer (`OldLoad`, `OldSave`) with a clock of its own beside new executions
(`Load`, `Commit`, `Refuse`) that compare a time stamp and a checkpoint. Only
documents adopted from the old runtime are watched (`v2ObservedUpdatedAt`); one that
the new runtime has created is not, so an old write on it goes unnoticed, by design
of the code. The comparison is exact because an old checkpoint only grows.

### `LaneScheduler`, and its promise `FifoLanes`

`lanes`, `tail` and `pending` are the map, the tail promise and the counter of the
code; `held` and `previous` are what one call of `run` keeps in its closure. Lane
objects have identities, so that a run left behind in a lane the map has dropped
would be a reachable state. `FifoLanes` is the lock manager it implements: a run
waits for exactly the older runs with which it shares a key.

### `RabbitTransport`

One process with its queue. `worker` and `poller` are the fields of the two
classes plus the await at which `start()`, `stop()` and `bootstrap()` stand;
`handler[i]` is the delivery in prefetch slot `i`. The coordinator appears by its
outcome, `completed` meaning what `CommitCoordinator!AckedIsDurable` proves.
`RetryScheduled` and `RetryNacked` are the publisher's confirmed delayed copy and
the rejection of the original. The environment is the broker
(`ConsumerCancelled`, `ChannelCloses`, `DelayEnds`), the host (`Start`, `Stop` at
any moment), and `Crash`.

### `TransportStore`

The rows of one queue and the clients that read, compare and insert them, one
action per database call. Rows are inserted once (`$setOnInsert` or a unique
`_id`). The operator may replace the approval at any time (`Approve`), handlers
move links (`Dispatch`), and an older release may have left coverage rows that no
baseline stands for (`Init`).

### `RangePaging`

Both range readers under one pass of the poller: `OpenPage`, `ReadRow` and
`CursorEnds` are the Mongo cursor, `ReadIndexed` the one call of the other reader,
`Answer` the page check, `DispatchNext` what the poller does with a page. It
establishes what `CommitCoordinator!ReadGap` assumes of a page.

### `ProjectionDaemon`

One daemon over a `log` that others append to. The daemon is the only writer of its
store, so `Commit` computes the batch as one function of the state, `FoldBatch`,
and everything that makes a batch intricate is in it: passes over the batch
(`FoldEvent`), targets from staged or durable links (`Targets`), relinks
(`StageSubscribe`), and what each store makes of the staged links (`MemoryLinks`,
`MongoLinks`). `PollCatchUp`, `PollReady` and `PollLive` are the three modes of
`SubscriptionOrchestrator.poll`; a daemon built with a single subscription begins
in `live`. `Stops` may come between any two steps. A stop of the in-memory store
is a stop of the daemon in a process that goes on.

`OneByOne` is the reference: the log folded event by event. The two agree on
`Orderly` logs only, and the reasons are worth knowing: a joined event ahead of its
subscription is folded behind later events when both are in one batch, and is
passed by when they are not; a document that unsubscribes without being subscribed
stages a removal that replaces another's; an aggregate that changes hands and is
then given up within a batch keeps its durable link, because the removal that
should go first has been overwritten. The last two are hazards of the code, listed
at `ProjectionDaemon.ts:322`.

### `AtomicMany`, `PatchPlan`

`AtomicMany` is `commitAtomicMany` of both stores: the in-memory one in a step
(`CommitInMemory`), Mongo's as a session that applies write after write on its own
view (`ApplyWrite`), meets write conflicts, and may be stored without an answer
(`CommitUnknown`); the host reads before it and retries after it. `PatchPlan` is the
compiler from an RFC 6902 patch to one Mongo update: `Patched` applies the patch in
order, `Plan` is what the planner makes of it (`SafePath`, `FastPath`,
`OrderedPath`), `Updated` what Mongo does with the plan (external).

### `WorkerCore`, `ProjectionRouter`, `LegacyProjection`

`WorkerCore` has the polls of the replay adapter push batches into runs, grouped as
`RunsFor` says, which wait their turn in the lanes (by `FifoLanes`' promise), load
states through the cache, and are committed, refused, or fail retryably, terminally
or by throwing; each way evicts what the code evicts. `ProjectionRouter` is `route()`
at its awaits, with the default link store. `LegacyProjection` saves a batch document
by document and the cursor last, alone or under its daemon, and is broken off at any
of these writes.

### Sagas: `SagaAggregate`, `SagaInbound`, `SagaScheduler`, `SagaBridge`, `SchedulerPolicy`, `AuditHistory`, `SagaDefinition`

`SagaAggregate` holds the commands' rejections and the events' effects as operators;
`SagaInbound` and `SagaBridge` fold with them. `SagaInbound` chains `route()` calls
and opens and releases barriers. `SagaBridge` extends the scheduler with
`dispatch()`: handlers that return or throw, effects that end in any order, intents
numbered by a counter that dies with the process. `SagaScheduler` is the table of
triggers and `drainDue`; `SchedulerPolicy` the weighted rounds and deferrals;
`AuditHistory` the upserts and the readers that page; `SagaDefinition` the builder's
shared draft and a turn of a handler or callback of what was built.

### Aggregates: `AggregateBuild`, `LiveAggregate`, `DemeineAggregate`, `EntityTargets`, `CommandEnvelope`

`AggregateBuild` is the builder: calls register events, commands, names, mixins and
mounts, `extends` takes over what a parent has at that moment, and `build` flattens
entities mounted in entities into one table of handlers and one of projectors. A local
name is the sequence of its camel-case words, a wire type that of its segments, so that
two members meet in one key or one wire exactly when they do in the code. The calls are
kept as history; `BuiltAsDeclared` reads off them, going down from the aggregate to the
member, what `build` puts together from the innermost entity up.

`LiveAggregate` is `MirageCore` and `Depot`: dispatches and saves of several
instances over one stream, with the awaits between reading the pending events,
appending and clearing them. `DemeineAggregate` is the queue, its commands and the
callers that read and clear. `EntityTargets` resolves a chain of mounts, runs the
handler and applies its events through the projectors. `CommandEnvelope` prepares,
holds, changes and processes commands.

### Composition

Each arrow is one module standing on a property another one establishes.

| user | takes | from |
|---|---|---|
| `RabbitTransport` | a `completed` commit is durable | `CommitCoordinator!AckedIsDurable` (proved) |
| `CommitCoordinator` | the fold of one commit into one definition is one step | `SourceCommitStore!AtomicFold`, `FoldedOnceInOrder` (proved) |
| `CommitCoordinator` | admission returns a coverage that counts from the accepted anchor, and the row moves by one | `TransportStore!OneRegistry`, `CoverageByOne` (proved) |
| `CommitCoordinator` | a page holds the complete commits after a sequence | `RangePaging!PagesCoverTheHistory` (proved) |
| `SourceCommitStore` | documents are written by executions only | `LegacyTakeover!OldWritesAreNoticed` (proved) |
| `SourceCommitStore`, `WorkerCore` | target lanes are first come, first served | `LaneScheduler!ImplementsFifoLanes` (proved) |
| `CommitCoordinator` | one task per worker and source | `LaneScheduler!FifoExclusion` (proved) |
| `ProjectionDaemon`, `WorkerCore` | a batch is stored as a whole | `AtomicMany!BatchesAreWhole` (proved) |
| `SagaBridge`, `SagaInbound` | what the saga aggregate rejects and folds | `SagaAggregate` (extended) |
| `SagaBridge` | the table of triggers | `SagaScheduler` (extended) |

The composition is by these promises, not by a product of the modules, whose
state space no checker would finish. One seam is not exact and worth knowing:
`AtomicFold` holds *as long as the links that routed the commit stand where they
were read* (`LinksStand`). A transaction compares the revisions of documents it
touches and of links it stages, not those of links it merely followed, so a joined
event may be folded into the document its link named a moment earlier. For
definitions with joins the coordinator's model therefore fixes where a commit is
routed (`Route`), which the code leaves to that race.

## 3. Runs

Each run asks one question; `PROJECT.json` gives the mutant that shows each
property can fail. Where components share nothing, an MC module sets them side by
side: its variable `part` says in the initial state whose behaviour it is, the
others rest. Such a run explores the sum of its parts, not their product.

| run | instance | properties |
|---|---|---|
| `coordinator_race` | 2 workers, 1 source of 3 commits, 2 documents, 3 definitions (one per strategy), 2 faults | `ExactlyOnceInOrder`, `CoverageIsBacked`, `AckedIsDurable`, `ImplementsPromise` |
| `coordinator_live` | pollers over 2 sources, one adopted after commit 0, the other with a commit 1 that a definition cannot take, 1 commit per pass, 1 fault, fair; 5 deployments: two rivals at the stop, one of them notified; two rivals over both sources; one worker over both in either order; one worker, notified, over the adopted source | `StoppedCommitHalts`, `EventuallyCovered` |
| `store_links` | 2 workers, 2 sources that take one link from each other, 2 documents, own-record progress, no conflict retries, 1 unknown outcome once a source is through | `FoldedOnceInOrder`, `AtomicFold`, `RetriesAreForConflicts` |
| `store_live` | 2 workers, 2 sources that write one document, in-document progress, 1 fault of any kind, fair | `EventuallyFolded` |
| `lanes` | lanes: 3 runs, 2 keys; inbound: 6 commands, 2 keys, three of them at a barrier of two, three moves of one saga and windows of 2; fair; demeine: 3 commands, a caller that reads and clears repeatedly | `FifoExclusion`, `LanesAreShared`, `ImplementsFifoLanes`, `EveryRunStarts`; `InboundInOrder`, `AuditTrailIsContinuous`, `OnlyAGateBlocks`; `CommandsTakeTurns` |
| `rabbit` | 3 notifications (good, contradicted, terminal), prefetch 2, 2 bootstrap passes, 1 fault | `NothingLost`, `WorkerAndPollerAgree` |
| `rabbit_live` | 2 notifications (terminal, malformed), prefetch 1, 2 faults, fair | `CallsSettle` |
| `transport_store` | store: 2 clients, 2 manifests (one joined), 1 source, anchors 0 and 1, 2 inventories, 2 approvals, 1 fault; paging: histories of 5 rows of 3 sizes, pages of 2 commits and 3 bytes; takeover: 1 document, 2 executions, 6 writes, 2 faults | `OneRegistry`, `CoverageByOne`; `PagesCoverTheHistory`; `OldWritesAreNoticed` |
| `daemon` | daemon: 2 documents, 1 joined aggregate, every log of 4 events, batches of 3; worker: 3 polls over 4 events, a cache of 1; legacy: 5 commits, batches of 3, 2 faults; batch: 3 batches over 2 documents; router: 3 routes; patch: see `MCPatchPlan` | `FoldsFollowTheLog`; `CursorAndCacheAreBacked`; `DocumentsCoverTheCursor`; `BatchesAreWhole`; `RoutesReachTheLinked`; `PatchesLandWhole` |
| `saga` | bridge: 3 dispatches of 2, 1 and 0 handlers, 1 restart; scheduler: 2 triggers, 5 ticks; policy: 3 tenants, weights 1 and 50, 10 rounds; definition: 4 builder calls, 2 requests; audit: 4 upserts, pages of 2; depot: 2 instances, 2 commands, 3 saves, 1 fault; entity: lists, maps and nested lists, 5 events; envelope: 2 commands, 2 plugins; build: 2 builders, one may extend the other, 4 calls and any number of builds | `BridgeKeepsTheRecord`; `OccurrencesOnce`; `NoTenantStarves`; `SagasRunAsBuilt`; `AuditTrailIsComplete`; `SavesAndEffectsFollowTheStream`; `EventsLandOnTheirEntity`; `ExtensionsMatchTheCommand`; `BuiltAsDeclared` |
| `daemon_mongo` | 1 document that subscribes and unsubscribes, the Mongo store | `NoGhosts` (violated) |
| `patch_parity` | every patch of one or two operations and chosen longer ones, on arrays of up to three elements | `FullAndPatchParity` (violated) |

### Findings

**`NoGhosts`.** `docs/recipes/testing-projections.md` promises that without a
subscription `.join()` events are ignored, and the runbook makes relinking an
explicit `remove` and `add`. The Mongo store's `persistLinks` ignores the `op` of a
link and upserts it with `$setOnInsert`, so unsubscribing never removes a link and
may insert one. `daemon_mongo` shows a document that goes on receiving the events
of an aggregate it has left. With the in-memory store the same instance satisfies
`NoGhosts`, which tells this cause apart from the overwritten removals above.

**`FullAndPatchParity`.** `contracts/store.ts` defines a patch as operations applied
in order that lead to the document a full write would store. Several index changes
compiled together, or a copy to an index of an array, leave another document:
`patch_parity` shows a copy that overwrites the element it should shift.
`PatchesLandWhole` says for which patches the plan is right, and holds.

### The properties in words

Transport:

- `ExactlyOnceInOrder`: a deduplicated definition folds a commit into a document at
  most once, only where it is routed, never below the anchor, and after all
  earlier commits of its source.
- `CoverageIsBacked`: what the coverage claims is folded by every definition.
- `AckedIsDurable`: a commit reported `completed` is never needed again.
- `StoppedCommitHalts`: no coverage passes a commit that some definition cannot
  take, and no document of that definition shows a part of it.
- `EventuallyCovered`: every commit of a polled source ends up covered, unless the
  source stops at or before it, or a source listed earlier holds a commit that stops
  it or a log shorter than its baseline. The last exception is the code's: a pass that
  throws never reaches the sources behind, and the worker, unhealthy from then on, only
  retries what it is notified of. No document promises otherwise, so that this is
  no finding; it is a listed hazard, and an operator should know of it.
- `FoldedOnceInOrder`, `AtomicFold`: section 2. `RetriesAreForConflicts`: executions
  of one process never conflict, every attempt after the first has a conflict, a document
  or a link to show for it, and the bound on attempts leaves room for all of them. The
  last has a limit, which an instance of five documents showed: a link that others move
  between two attempts sends the execution to one more document each time, so attempts
  run out once links have sent it to more documents than the commit has events. It then
  ends in a conflict, and the poller takes the commit up again. `EventuallyFolded`:
  the log ends up folded, once and in order, whatever replies were lost.
- `FifoExclusion`, `LanesAreShared`: operations that share a key never overlap and
  run in call order; the map holds exactly the lanes in use.
- `NothingLost`: a published notification is folded, rightly dead-lettered, or has
  a copy that will be delivered again.
- `WorkerAndPollerAgree`: when neither `start` nor `stop` is under way a worker that is
  not started is at rest, and a started one polls, one pass at a time. `CallsSettle`:
  neither call waits for ever.
- `OneRegistry`: the rows of a queue belong to the manifest it is bound to, its
  coverage counts from the accepted anchor, and nothing is dispatched ahead of the
  adoption of an inventory that is as the operator approved it ("A rejected inventory
  must write neither coverage nor own-record progress",
  `docs/architecture/joined-projection-cutover.md`). `CoverageByOne`: section 1.
- `PagesCoverTheHistory`: a pass goes wrong only over a row it needs; pages keep both
  limits; nothing behind a gap is dispatched.
- `OldWritesAreNoticed`: an adopted document the old writer has written again is
  recognised, and only such a one; no fold rests on another state than it replaces.

Other pipelines:

- `FoldsFollowTheLog`: across overlap, redelivery, cutover and stops no event is
  folded twice or skipped, a dedupe key is there exactly when all documents hold the
  event, and on orderly logs the cuts into batches leave no trace.
- `CursorAndCacheAreBacked`: the replay's cursor never passes an event that some
  target lacks; a cached state is the stored one, unless someone else wrote it or the
  last failure was not retryable.
- `DocumentsCoverTheCursor`: a document never lacks what the cursor covers, and has
  exactly that as long as no batch broke off.
- `BatchesAreWhole`, `RoutesReachTheLinked`, `PatchesLandWhole`: all of a batch or
  nothing, and answers that are true; every target linked and there throughout, none
  that never was; the patch's document for the plans that are right.

Sagas and aggregates:

- `InboundInOrder`, `OnlyAGateBlocks`: a command is entered after all earlier ones of
  its key have settled, and waits for nothing but them and an open barrier.
  `AuditTrailIsContinuous`: transitions kept follow from one another,
  also when the window has forgotten the first.
- `BridgeKeepsTheRecord`: the definition state has folded every handler run, unless
  dispatches of the saga overlapped; the aggregate counts everything even then.
  An execution shows only the answer its own call gave.
- `OccurrencesOnce`, `NoTenantStarves`: no occurrence twice or early; among n
  tenants nobody is passed over in more than 5n - 7 rounds in a row, and one alone in none.
- `SagasRunAsBuilt`: later calls on the builder leave a built definition alone, except
  for the handlers they add; a request is emitted once and can be answered.
- `AuditTrailIsComplete`: a history has no gap, and a reader misses nothing that was
  there when it began.
- `SavesAndEffectsFollowTheStream`: an event is decided on exactly the events stored
  before it; `onAfterCommit` sees stored events only, once.
- `BuiltAsDeclared`: the outermost level that names a member decides its wire, the last
  registration that claims a wire gets its events on its own chain of mounts, a command
  emits the event of its own mount, and an aggregate holds what was asked of it and its
  parent, no more.
- `CommandsTakeTurns`, `EventsLandOnTheirEntity`, `ExtensionsMatchTheCommand`: the last
  columns of section 1.

Some of these hold under a condition, and the condition is the documented limit of
the code: overlapping dispatches of a saga overwrite each other's definition state
(`sagaExecutionBridge.ts:331`), an instance that dispatches during its own save loses
events (`packages/mirage/README.md`), a broken-off legacy batch is folded again, equal
checkpoints of two sources pass each other's preconditions in `commitAtomicMany`.

### Bounds, and why they are enough

- **`Deployments`** are chosen so that each source is, in one of them, behind the other,
  before it, and polled by rivals; endless notifications, which need strong fairness,
  come to one worker. `PassCommits = 1` makes every source need several passes.
- **Workers and clients: 2.** The rows are compared pairwise: one that read, one
  that wrote in between. The proofs of section 4 cover any number.
- **`MaxSeq`** gives 3 commits where a gap has to be recovered (the coverage, the
  missing commit, the notified one), and `MaxGapCommits = 1` makes a gap both
  recoverable and too long. `coordinator_race` has its anchor at 0; an anchor above it
  is in `coordinator_live`, and in the proofs of the same properties for any anchor.
- **`ManyFolds = 2`, `ManyCopies = 2`** cap counters above the value at which a
  property already fails (a second fold) or no longer distinguishes (a second copy).
- **`MaxFaults`** bounds injected failures. Two lets a retry fail again.
- **`MaxConflictRetries = 0`** is the worst case for giving up on a conflict; the
  code's default only adds attempts.
- **`Objects`** has two identities per lane: one in the map, one a run may still hold.
- **`MaxPasses`, `Prefetch`, `MaxApprovals`** are parameters or operators' acts; two
  of each show a last one and one before it.
- **`MaxLog = 4`, batches of 3** give every way of cutting a subscription, a joined
  event, a relink and what follows into batches, and a tail appended during the cutover.
- **`UnknownLate`** lets the outcome of `store_links` be unknown only once a source is
  through: its other source then still takes the link away, or follows it. An
  outcome that is unknown earlier is in `store_live`, on a shorter log.
- Symmetry is used only among workers, or clients and inventories, or live instances,
  or tokens and requests, and only in runs without liveness properties.
- **Small scripts** in the side-by-side runs (three dispatches, three polls, three
  batches, three saves) have one in hand, one that overlaps it and one that finds
  what the two have left. Restarts, foreign writes and changes in flight are bounded
  by one or two: the state after them is a state they may begin from again.
- **Patches** of two operations show every way two edits of one array can meet; a
  `test` in front and four longer ones reach the plans that need more.
- Deadlock checking is off where the system really stops: the coordinator's log ends
  at `MaxSeq`, and the scripts of `lanes`, `daemon`, `saga` and the one write of
  `patch_parity` come to an end.

Notation differs where a smaller encoding helped: `CommitCoordinator` and
`TransportStore` number commits from 0 and write `null` as -1; `SourceCommitStore`
numbers them from 1 and writes `null` as 0.

### Fairness

- *Coordinator and pollers* (`PolledFairness`): weak fairness of the steps of a task,
  since every awaited call returns or throws, and fairness of each poller, not of each
  source: the timer fires again after every pass, failed or not
  (`sourceTailPoller.ts:187-195`), and a worker that dies, or whose bootstrap fails, is
  started again by its host. It is strong because the one step a poller may have to
  wait with is taking a source's lane, and lanes are first come, first served: its turn
  recurs even while notifications keep the lane busy. Which sources a pass reaches
  follows from the walk. Nothing is assumed of the broker.
- *Executor*: weak fairness of its steps; strong fairness of taking up the next commit
  of each source, which the poller gives where no source stops, as in `store_live`.
- *Lanes*: a resolved promise runs its continuation, and operations settle.
- *Saga inbound router* (`InboundFairness`): a call that has been routed goes on by
  itself, and `beforeProcess()` returns. Nothing is assumed of `route()`: a barrier's
  missing arrivals may never come.
- *Rabbit worker*: awaited calls return, timers fire. Nothing is assumed of
  `Start`, `Stop`, `Publish`, deliveries or failures.

## 4. Proofs

TLAPS checks these for every value of the constants the assumptions allow.

| module | theorem | statement |
|---|---|---|
| `CommitCoordinatorProofs` | `InductiveInvariant` | `Spec => []IInv` |
| | `TypeCorrect`, `ExactlyOnce`, `CoverageBacked`, `AckedDurable`, `StoppedHalts` | types, and the safety properties of the coordinator's runs |
| | `Refinement` | `Spec => ImplementsPromise` |
| | `PollersAreOfTheCoordinator` | `PolledSpec => Spec`, so that all of these hold of `TailPoller` |
| `SourceCommitStoreProofs` | `FoldsOnceInOrder`, `AcceptedFoldsAreAtomic`, `ConflictsAreWithOthers` | `FoldedOnceInOrder`, `AtomicFold`, `RetriesAreForConflicts` |
| `LaneProofs` | `InductiveInvariant` | `Spec => []IInv` |
| | `TypeCorrect`, `Exclusion`, `NoLaneLeaks` | types, and the lanes' safety properties of `lanes` |
| | `Refinement` | `Spec => ImplementsFifoLanes` |
| | `InboundKeepsOrder`, `AuditTrailsAreContinuous` | `InboundInOrder`, `AuditTrailIsContinuous` of `SagaInbound` |
| | `NoneStarves` | `NoTenantStarves` of `SchedulerPolicy` |
| | `TheBridgeKeepsTheRecord` | `BridgeKeepsTheRecord` of `SagaBridge` |
| | `OccurrencesComeOnce` | `OccurrencesOnce` of `SagaScheduler` |
| | `HistoriesAreComplete` | `AuditTrailIsComplete` of `AuditHistory` |
| `TransportStoreProofs` | `TypeCorrect`, `RegistryIsOne`, `CoverageAdvancesByOne` | types, `OneRegistry`, and the action property `CoverageByOne` |
| | `TakeoverNoticesOldWrites` | `OldWritesAreNoticed` of `LegacyTakeover` |
| | `PagesCover` | `PagesCoverTheHistory` of `RangePaging` |
| `RabbitTransportProofs` | `NotificationsAreKept`, `StartAndStopAgree` | `NothingLost`, `WorkerAndPollerAgree` |
| `ProjectionProofs` | `RoutesReach` | `RoutesReachTheLinked` of `ProjectionRouter` |
| | `BatchesAreStoredWhole` | `BatchesAreWhole` of `AtomicMany` |
| | `CursorAndCacheFollow` | `CursorAndCacheAreBacked` of `WorkerCore` |
| | `DocumentsCoverAnyCursor` | `DocumentsCoverTheCursor` of `LegacyProjection` |
| `DaemonProofs` | `EventsAreFoldedOnce` | the parts of `FoldsFollowTheLog` that hold with either store |
| | `FoldsFollowAnyLog` | `FoldsFollowTheLog`, for `StoreKind = "memory"` |
| `AggregateProofs` | `CommandsAreInTurn` | `CommandsTakeTurns` of `DemeineAggregate` |
| | `SavesFollowTheStream` | `SavesAndEffectsFollowTheStream` of `LiveAggregate` |
| | `ExtensionsMatchForAny` | `ExtensionsMatchTheCommand` of `CommandEnvelope` |
| | `EverySagaRunsAsBuilt` | `SagasRunAsBuilt` of `SagaDefinition` |

So every module of the transport is proved as well as checked. What the rows of the
table have in common: the property is not inductive, because it says
nothing of a call that is under way, and the invariant adds what such a call may rely
on from one await to the next.

**Coordinator.** `ExactlyOnceInOrder` is not inductive: whether a worker may fold
depends on what progress records say, and on what the worker read some awaits ago.
`IInv` adds three kinds of fact. `OwnRecordSound` and `MarkerSound`: a progress
record names exactly what has been folded, so the test the transaction makes is the
test "has it been folded". `CoverageSound`: the coverage stands for a folded prefix.
`TasksSound`: a task relies only on facts that stay true whatever others do: the
coverage it read is not ahead of the row, all commits before its candidate are
folded, and the candidate is folded by the definitions it has passed. That these
facts are *monotone* (folds and coverage never go back) is the heart of the
argument, and why two workers need no lock between them. The refinement then maps
each dispatch to `FoldOnce` or `FoldAgain`, each successful update to `Cover`, and
everything else, failures included, to stuttering. `StoppedHalts` needs one more
invariant, `NothingOfStopped`, preserved under `IInv`. The assumption is
`ConstantsAssumption`: the types of the parameters, at least one definition.
`PollersAreOfTheCoordinator` needs that a pass stays within its sources, which is part
of `PolledTypeOK`, and `PollingAssumption`: the order of a deployment is not empty and
names sources, as the poller's constructor requires.

**Executor and store.** What a reduction computes comes first. `ReduceHolds` says that
a plan extends the content of each document it touches by events of the commit, in
order and none twice, and reaches every document the commit's own events go to, unless
something is missing; `ReduceAlike` that two snapshots which agree on the routing links
and on the touched documents give one plan; `ReduceMisses` that nothing the execution
has read is reported missing. These are inductions over the events of a commit and the
targets of an event; see *Folds* below. `StoreIInv` then has `ContentHolds`: a document
holds, of each source, the events up to what its progress says, in order, and nothing
beyond. `Seen` is what an old read may rely on: a document that was read is the one that
stands *or has a lower revision*, and its markers have not gone back. With `Valid`, an
accepted transaction therefore extends the documents that stand (`WriteContent`), and by
`ReduceAlike` as one reading everything now would. A transaction of unknown outcome
keeps what has been reconciled so far (`RowHolds`). `LaneIInv`, for the retries, adds
the queue of each worker (no execution holds a lane that one before it asked for), from
which a document that moved under an execution has another writer, and counts documents
and links learned against attempts (`RoomHolds`); `RoomOfLinks` bounds the links by the
commit's events. `StoreAssumption` types the parameters and asks for finitely many
documents, written as natural numbers, which stands for "ids have a sort order".

**Lanes.** Active calls are totally ordered; a live lane's counter counts its
holders; its chain ends in the youngest of them; each holder awaits the next older
one. From the last, a run whose promises are all resolved has no older holder in
any of its lanes, which is exclusion. `LanesAssumption` asks for a finite number of
runs (the counter is compared with a cardinality) and for distinct sentinels.

**Transport store.** `RowsAgree` relates the rows to one another; `ClientOK` says what a
client's copies are worth at each await: `Installs`, `Admits` and `Advances` follow a row
from its reading to the insertion or update that rests on it, and `Chained` orders the
calls one operation makes. Rows are inserted once and never replaced, so a copy that
was true stays true (`Grows`); coverage is the exception, and its update compares. In
`LegacyTakeover` the invariant orders the clocks and checkpoints an execution has copied
against those of the document. `TransportAssumption` asks that `None` is not a row.

**Rabbit.** `KeptInv` names, for every notification that is not done with, where a copy
of it is (queue, delay, a slot of a channel that is open, or the dead letters by right).
`AgreeInv` describes each await of `start()` and `stop()` by what is in flight there, for
worker, deliveries and poller, since either call may overtake the other at any of them.

**Router.** Each route watches what was linked throughout and what was linked at any
time since it began, and `CallHolds` bounds by these what it has resolved, kept and
dropped. `RouterAssumption` asks that the sets of links in hand are finite.

**Batches.** A revision names the content under it (`RevisionNamesContent`): a batch
leaves its sequence on what it folds, and no other batch has that sequence. So a
document that stands at the revision the host read *is* what the host read, and a
session's view, apart from the writes it has applied, is the store it began with
(`OpenHolds`). The in-memory store applies a batch in one step that folds over its
writes; `StagedWhole` says what that fold leaves. `AtomicAssumption` is the property's
condition (sequences are positive and differ) and the types of the batches.

**Worker core.** What a storing run holds is what its targets held when it read them,
and what it put into the cache is that with its own events (`CacheHolds`); no two
storing runs share a target (`RunsApart`, from the lanes' order), so the one that is
committed leaves the other's entries alone. `PollHolds` accounts for each event between
a poll's start and its end: folded already or in one of its runs, so that a poll whose
runs are all acknowledged may move the cursor. `StraightHolds`, while polls take turns,
has every folded event in an acknowledged run, and those of ended polls in `seen`: what
a new poll finds fresh is in no document. `StatesReadAre`, `FreshIs` and `RunsForIs` say
what the reads of a run, the filter of a poll and the grouping of a push compute.
`WorkerAssumption` types the feed and its targets, of which there are finitely many.

**Legacy runtime.** `LegacyIInv` compares what a batch has loaded, and what is stored,
with what folding the log one commit at a time has put there by a position: a loaded
document holds what is due from the commits the batch has passed, a stored one what the
cursor covers, and the links are a superset of those due, which is what lets a broken
batch be folded again. While no batch has broken off they are equal, and between
batches nothing is loaded. `LeftBy` and `HeldOf` turn the reference fold into steps
(`CommitsTrace`). `LegacyAssumption`: finitely many documents, and none twice among the
targets of a commit (`uniqueDocumentIds`).

**Daemon.** `DaemonInv` says of every document which events it has folded, of every
dedupe key that its event is in all of its documents, and of the cursor that nothing of
the projected stream below it was passed over; a batch is a stretch of the log between
the cursor and its end. That holds with either store and for any log. For an orderly log
`SequentialInv` adds that documents and subscriptions are those of the events folded in
turn up to the cursor, and that a batch's staged copy is the store with the batch's events
so far. The second theorem is stated for the in-memory store: the Mongo
store upserts every staged link with `$setOnInsert`, a removal too, so that what stands
after a batch is not what its events leave in turn (section 3, `NoGhosts`).
`DaemonAssumption` types the events: one goes to documents or through a link, and names no
document twice.

**Inbound router and saga aggregate.** `OrderInv`: the calls of one key form a chain in
arrival order, in which nobody is entered before all earlier ones have settled.
`Sound` of a saga's state: windows are full or complete, entries follow from one another,
totals count them. `AppliedIsSound` keeps it through each event, for any `WindowLimit`.
`InboundAssumption` types the commands and asks that a saga is created under an id.

**Saga bridge.** Dispatches that overlap nothing hold, while they are in flight, all that
was written of their saga so far, so that what they write extends it; those that overlap
only add to the aggregate's counts. Each execution belongs to one effect since the
restart, ids not yet given out are above those that were, and an answer is held by the
execution of the effect that gave it (`BridgeIInv`). `BridgeAssumption` asks for finitely
many dispatches, each of a saga.

**Trigger table.** `SchedulerIInv`: the occurrences of a trigger are its own numbers, each
with its time; its next run is a whole number of intervals after its first; what was
handed out lies before the next run, and all of it if the trigger catches up on all.
Intervals may be 0, bounds of a catch-up are positive.

**Policy.** Once a tenant is past the threshold, each round serves another one that is,
and none of them twice. `WaitsAreSeen` counts them: a tenant that has waited `k` rounds
beyond a bound has seen `k` different ones served in the last `k`, less those that have
run out, and there are only so many others. The longest wait this gives is `5n - 7`
rounds for `n > 1` tenants, none for one. `3(n - 1)`, which instances of three
tenants satisfy, is not a bound from five on: tenants that run out lower the threshold
while others wait. `DeferredIsRight` says that a deferral for capacity found all of it used. `PolicyAssumption`: tenants are
`1 .. n`, weights, limits and lengths natural numbers.

**Audit history.** `AuditIInv`: the log of an execution has its entries at their sequence
numbers and they lead from one state to the next. A history sorts the entries of several
executions; its order is restated by *rank*, the number of entries not after one. What is
recorded later has a later time, hence leaves the ranks of old entries alone; so the old
entries keep their indexes, and a page read earlier agrees with the history at
hand (`PagesFollow`, `PagesAreWhole`). `AuditAssumption`: execution ids are natural
numbers ("ids have a sort order"), finitely many.

**Saga definitions.** A draft says, of each token, which registration came last; a
definition that was built keeps the calls made before it, and its handlers are the ones of
the draft, which later calls go on adding to; a turn emits in order and each request it
emitted names handlers of the definition it runs (`DefinitionIInv`). `DefinitionAssumption`
asks that the absent token is no token, request or number.

**Aggregates.** In `DemeineAggregate` the queue is the rest of what was sunk, what has
settled is the part before it, and the state holds the events of that part in order; a
reader's set of commands is behind it. In `LiveAggregate`, `MirageHolds` reads an
instance as the stream up to its baseline followed by its pending events, `SaveHolds` a
save as a copy of those, and `RestsOn` relates an event to what it was decided on;
`HandedHolds` accounts for effects. Assumed: the counts of events are natural numbers.
In `CommandEnvelope`, `EnvelopeIInv` follows an extension from the preparation that derived
it, through what is cached of a command that is awaited, to the events that carry it:
what is cached is sound for the payload it was prepared for, and a command nobody changed is
raw until its first dispatch and prepared ever after. `EnvelopeAssumption` lists, for each payload, the plugins that write headers.

**Paging.** A pass holds, between two steps: every position after the anchor up to its
own has been read and fits; a page under way is the next positions in order
(`PassHolds`). The Mongo reader keeps that row by row; that the next row of its cursor is
not the next position is the only way to a gap, which is a row the pass needed
(`Missed`). The indexed reader computes the same page with two folds: `QueriedInOrder`
and `BoundedIs` say what they return, and that a page which fails its check had such a
row in its window. `PagingAssumption` is what the poller requires of its limits when it
is built, that they are positive (`sourceTailPoller.ts:41-45`), and that sizes are.

**Folds.** Nothing can be instantiated in the library's induction theorems, which take an
operator. The proofs use that a set of naturals that contains 0 and successors is all of
them (`UpTo`, from `WFMin` and `NatLessThanWellFounded`, which take sets), applied to the
set of positions up to which a statement holds; `EventsFold`, `HandlersFold`,
`StagesFold`, `AmongFold`, `StatesFold`, `QueriedFold`, `BoundedFold` and `CommitsTrace` turn a
fold of the community modules into a sequence of intermediate values; `FlattenedStepwise`
and `SetAsSequence` do the same for `FlattenSeq` and `SetToSeq`.

**Only model-checked**: liveness and what needs `ENABLED` (out of the prover's reach):
`EventuallyCovered`, `EventuallyFolded`, `EveryRunStarts`, `OnlyAGateBlocks`, `CallsSettle`.
Of the safety properties, three: `PatchesLandWhole`, `EventsLandOnTheirEntity` and
`BuiltAsDeclared`. Each compares two computations that walk nested data of any depth (two
ways to write a patch, a chain of mounts into nested entities, a builder's calls and the
tree they make), and would need an induction over that data for every operator on the
way. `FoldsFollowTheLog` is proved for the in-memory store only; what holds of
both stores is `EventsAreFoldedOnce`.

## 5. What the models leave out

In the transport:

- Validation of malformed rows, digests, wire decoding and error texts: a row is
  well formed, malformed or absent. `Malformed` notifications stand for all that do
  not decode.
- What handlers compute. A document is the list, or count, of events it folded.
- The Mongo driver. A transaction is atomic and isolated; a `TransientTransactionError`
  is a failed call; a lost reply and an unknown outcome are actions of their own.
- `RetryUnconfirmed` leaves a delivery unsettled until its channel closes, as the
  code does; that such deliveries use up the prefetch window is a listed hazard.
- The recorded topology of a source probe is modelled with its unguarded
  read-modify-write, and no property is stated: the field is diagnostic.
- The retries of the adoption's `catch` are one look at the row, which may be late.

In the other pipelines:

- A second loop of the daemon, after `stop()` and `start()` before the batch in hand
  has ended (a listed hazard). The daemon's warnings, statistics and handler lookup.
  A handler stages at most one change of links: one that subscribes to and
  unsubscribes from the same aggregate is, in the code, one that unsubscribes.
- `PatchPlan`: documents have one level; tests on array elements, tests and removals of
  the root, and numeric field names are left out, a pipeline's `$set` is taken to
  replace the value, and the plan cache and telemetry do not appear.
- The router's default link store is keyed by aggregate alone, not by projection
  (`projection-router-core/src/index.ts:63`): the model has one projection.

In sagas and aggregates:

- `RetryPolicy`: a function of an attempt. Its jitter is applied after the cap
  `maxBackoffMs` (`RetryPolicy.ts:150-160`), so a delay may exceed it; no property.
- Matching of triggers, typing of the builders, parsing, plugin state reducers, snapshots
  and wire shapes. Of the aggregate builder: selectors, hooks, metadata, value objects,
  custom naming strategies, the suffixes `.command` and `.event`, and parents that have
  parents. `EntityTargets` starts from chains that are built already, one per wire.
- An entity mounted again at its own mount point without a command name keeps the name
  the earlier mount gave (`mountEntities.ts:98` only adds), while its events take the
  later mount's: `BuiltAsDeclared` states it so, no document says otherwise.
- Queries over executions sorted by `updatedAt` rather than by sequence: their pages
  shift as records are updated. A limit of 0 never progresses, a cleared
  `responseRef` leaves no entry, and a saga's own history is a rolling window.
- `onBeforeAppend` plugins change the payloads of pending events in place
  (`depotPlugins.ts:20`), so that a save that is tried again changes them twice; in
  `LiveAggregate` an event has no payload.
- Intent ids restart from 1 with the process (`sagaExecutionBridge.ts:229`), although
  `docs/reference/sagas-reference.md:413` calls them monotonic: an execution then
  takes over an older record, which `BridgeKeepsTheRecord` allows for.
- A cached extension may rest on an older state of the aggregate, by design
  (`packages/aggregate/ENVELOPES.md`). In the Demeine bridge a caller that reads and
  then clears drops what was applied in between, and a command sunk from inside another
  one waits for itself; both are the callers' to avoid.

**How much of the code this is.** The map covers about a fifth of the
implementation lines. Most of the rest has nothing for a model to say: type
declarations and typed fluent builders (`createSaga.ts` alone is 2000 lines, most of
them types), code generation, validation of wire rows field by field, index
management, error texts, and adapters that forward. What keeps state and is still
out is named above.

## 6. Plan

1. *Done*: the transport, its composition and the proofs of section 4; the other
   projection pipelines; sagas; aggregates.
2. **Proofs**: `EntityTargets` for chains of one mount, then `AggregateBuild` and
   `PatchPlan`. Abstract specifications worth adding: an atomic admission that
   `TransportStore` implements, a daemon that folds one event at a time.
3. **A second daemon loop**: `ProjectionDaemon` then needs its batch split at the
   reads, and one `pc` per loop.
4. **Retry delays** as a function checked over bounded policies; execution queries
   with the readers of `AuditHistory`.
