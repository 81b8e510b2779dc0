# QMTL: a TLA+ verification project

QMTL runs trading strategies as DAGs against shared services. This project models
the parts of it where several processes, tasks or coroutines change shared state,
checks them with TLC on small instances and proves the most important invariants
with TLAPS for every instance.

Contents: [1 the system](#1-the-system), [2 the modules](#2-the-modules),
[3 the runs](#3-the-runs), [4 fairness](#4-fairness), [5 what is proved](#5-what-is-proved),
[6 where the code and its documents differ](#6-where-the-code-and-its-documents-differ),
[7 what is not modelled](#7-what-is-not-modelled), [8 plan](#8-plan).

## 1 The system

| Component | State it keeps | Operations | Speaks to |
|---|---|---|---|
| **WorldService** (`services/worldservice`): decides which strategies of a world may trade, and with how much capital | worlds, policies, decisions, edge overrides, allocation runs, shares, evaluation runs with their history, risk snapshots (database); one activation document per world, dedupe marks (Redis); apply runs, locks, a memory of snapshots (process); an audit log | `POST /apply` (two-phase), `PUT /activation`, `POST /decisions`, `POST /allocations`, the risk hub and its consumer, evaluations with overrides, failures and extended validation, live promotion | publishes activation, policy, plan and snapshot events to the ControlBus (Kafka) |
| **Gateway** (`services/gateway`): the clients' front door | strategy hashes, the strategy queue and its locks (Redis); strategy status and events (database); resequencing buffers, a local queue, WebSocket connections, an activation cache with a circuit breaker (process); a transactional producer | `POST /strategies`, workers, the ControlBus relay, the WebSocket hub, `GET /activation`, `POST /rebalancing/execute`, the commit log | calls DAG Manager and WorldService, consumes the ControlBus, pushes to SDK clients |
| **DAG Manager** (`services/dagmanager`): global DAG and its Kafka topics | Neo4j graph, topics, sentinel weights, streams of results | diff, acknowledgements, garbage collection, buffer scheduling | Gateway, Kafka, ControlBus |
| **SDK** (`runtime/sdk`, `runtime/io`): runs a strategy in the client's process | activation state, backfill flights and coverage, the response cache, node caches | activation feed and order gate, backfill, data gates, warm-up | Gateway (HTTP and WebSocket), history tables, a backfill coordinator |
| Rest: CLI, configuration, templates, indicators, brokerage models | none that is shared | | |

What is hard here is not the arithmetic but the order of steps:

* every service is a set of asyncio coroutines: any `await` lets every other
  request run, and state read before it may be stale after it;
* a call of Redis, the database or a producer that raises may have been executed;
* the ControlBus delivers at least once, a restart or a reconnection starts again at
  the committed offset, and a failed publication leaves a gap in a run's numbers;
* locks and leases have a TTL, buffers and registries live in memory, and processes die.

What makes the components correct:

* **apply**: while decisions are switched no order passes; a run takes effect as a whole
  or leaves the world as it was, frozen; the world's lock is given back with the run settled;
* **relay**: a run's events are forwarded in order, a gap delays but never blocks them, and
  every event is handled;
* **hub and activation feed**: a connection sees events once and in order; the order gate ends
  up agreeing with WorldService, or closed while WorldService cannot be asked;
* **queue**: one worker per strategy, no strategy lost, states only along the FSM's edges,
  the database in step with Redis;
* **intake**: a DAG is accepted once, an accepted strategy is kept through degradation and is
  completed unless its handler fails;
* **diff**: nobody is bound to a topic the collector has dropped, contexts share no topic, a
  call that succeeds has all of its result;
* **data**: ranges are exact bar for bar, a window is filled without doubling what is there, an
  answer is judged when it is given;
* **risk hub**: a version has one content everywhere, and is announced and handled;
* **rebalancing**: plans are made from shares that stay, a run is executed once, no order of a
  shadow world reaches the commit log;
* **evaluation and promotion**: what an evaluation, an override or a failure was answered for is
  kept, and only a passing, approved paper run that fits the slots goes live.

The hazards, each at its line and with the properties that watch it, are in
`PROJECT.json` under `hazards`.

## 2 The modules

```
 ControlBus ─► ActivationRelay          MCRelay, MCGateway
                    │
                    ▼
               EventHub ═► OrderedFeed  MCPush        ═►  implements
               ActivationFeed           MCPush
 StrategyQueue ◄── StrategyIntake       MCQueue, MCGateway, MCIntake   ◄── extends
 TopicBinding   DiffStream              MCDag
 RangeMath ◄── RangeChecks
 RangeMath ◄── SeamlessBackfill         MCData
 DomainGate                             MCData
 ApplyFlow                              MCApply, MCWorld
 RiskHub   AllocationRuns   RebalanceOrders   EvaluationRuns     MCWorld
 Optional: the constant None
```

The theorems are in eight modules: `ApplyFlowProofs`, `StrategyProofs` (StrategyQueue and
StrategyIntake), `PushProofs` (EventHub, ActivationFeed, ActivationRelay), `DagProofs`
(TopicBinding, DiffStream), `DataProofs` (DomainGate, RangeMath, RangeChecks, SeamlessBackfill),
`RiskHubProofs`, `RebalancingProofs` (AllocationRuns, RebalanceOrders), `EvaluationRunsProofs`.

The `MC` modules give finite sets to the constants. `MCGateway`, `MCPush`, `MCDag`, `MCData` and
`MCWorld` hold several components that share no variable: the first state chooses one of them
(`part`), every step is of that one, and the fairness assumed is that of the chosen part. Such
a run checks each component exactly as a run of its own would; its state space is the sum of
theirs, not the product.
`Defect variant of X` marks an operator that changes `X` the way a plausible bug would; no
specification uses it. It is there to show that a property can fail (`mutants` in
`PROJECT.json`).

### ApplyFlow: two-phase apply (`apply_flow.py`, `activation.py`, `run_state.py`, `edge_overrides.py`)

One world (worlds share nothing). `pc` is where the coroutine holding the world's lock
is; a step is the code between two awaits. The request reads a context (`BuildContext`),
registers its run, disables edges (`SetEdge`), freezes every entry of the snapshot,
switches the decisions, notifies the policy topic, unfreezes and enables edges. One entry's
update is three steps: `PickEntry` (the sequence number and the GET of the document),
`StoreEntry` (the SET), `PublishEntry` (the event). `BodyFails` is an await that raises inside
the `try`: edges are restored, then the document, then the decisions, then everything is
frozen again. `Escapes` is an exception before or after the `try`. `PutLoad/PutStore/
PutPublish` and `PostDecisions` are the requests that do not take the lock, `Crash` loses the
registry and all coroutines.

Abstractions: `freeze` and `drain` are always set together here and are one flag; weights
and effective modes are left out; the order of a loop over a dict is arbitrary; the reads
of `_build_context` are one step; the target set is whatever the evaluator says; a bus is
configured. The risk hub snapshot after an update changes none of this state and can only
raise, which is a failure at the next `pick`. The `except HTTPException` branch is unreachable
from the calls in the `try`. Cancellation of the request is left out.

### ActivationRelay: the Gateway's resequencer (`controlbus_consumer.py`)

One world's partition (`log`), read by the broker task; a worker task takes gap timeouts
from a queue. Both drain a run's buffer with the same code, which suspends only while an
acknowledgement is published (`frame[t]` is that message; the WebSocket hub's enqueue is a
`put_nowait`). `seqs` is `_activation_sequence_states`: expected sequence, buffer, timer and
token; `timeouts` is the worker's queue. `Fire` and `HandleTimeout` are the timer and the worker,
`Reconnect` and `Restart` take the reader back to `committed`. A message is its run, its sequence (0: no
acknowledgement wanted) and its version field. Exceptions of message handling other than a
failing commit or acknowledgement are left out.

### EventHub and OrderedFeed: the WebSocket hub (`ws/hub.py`, `ws/dispatcher.py`, `ws/connections.py`, `ws/filters.py`)

The bounded queue with its drop-oldest rule and its special case for the sentinel, the
dispatcher (`TakeEvent`, one send per connection, removal of those that failed), the registry
(`Register`, `Refresh`, `Unregister`) and the shutdown that `_stop_background` begins while the
consumer still broadcasts (`BeginStop`, `PutSentinel`, `EndStop`). `OrderedFeed` is what a
subscriber is promised: of the events offered it receives some, each once and in the order of
their numbers. The refinement maps `offered` to `_seq_no` and `received` to what was sent to each
connection.

### ActivationFeed: from the document to the order gate (`activation_manager.py`, `world_client.py`, `caches.py`, `circuit_breaker.py`, `event_handlers.py`)

WorldService's document changes along a script. The change travels as an event through the
Gateway to the socket; GET /activation travels through the Gateway's client with its cache,
its failsafe and its breaker. The manager polls, receives the snapshot a new socket begins with
and the events, and applies all of them alike (`Applied`); `Allowed` is `allow_side`. Requests
fail, time out and are refused by the breaker; the socket is lost and connected again; the
subscription may be denied. The poll runs while the manager does.

### StrategyQueue: queue, workers, FSM (`redis_queue.py`, `worker.py`, `fsm.py`)

A step of a worker is one round trip: `Look` (LINDEX), `SetLock` (SET NX PX), `Pop` (LPOP),
`Acquire` (ownership manager), `Get/GetDb/Cache/Write/RecordStatus` (one FSM transition),
`Work` (context, diff, broadcast, handler), `ReleaseGet/ReleaseDel`, `Push`. Redis and
database calls may fail, a failing Redis call may have been executed. `Expire` ends a lock,
`Crash` a worker, `StatusRead/StatusCache` is a `GET /strategies/{id}/status` that finds no
answer in Redis. An LINDEX that fails and a lock that is refused leave the worker idle.
`Mixes` says which kinds of fault may come together in a behaviour.

The repository has no driver loop for `StrategyWorker`; its tests and documents call
`run_once` repeatedly. The model's workers do the same, and go on after an exception that
escapes it. The ownership manager answers as it likes (bounded by `MaxDenials`); `event_log`
is left out.

### StrategyIntake: submission and degradation (`strategy_manager.py`, `strategy_persistence.py`, `degradation.py`)

Extends StrategyQueue: the same workers run on the same keys. A submission goes through
`Arrive` (the middleware's level check), `SaveUnique` (the Lua script) or its fallback
(`FallbackGet/Set/Again/Hset`), `PublishSubmission` (commit log), `Enqueue` (Redis or the local
queue), `CreateState` and `InsertStatus` (`StrategyFSM.create`); a failing commit log or enqueue
rolls back (`UndoHash`, `UndoDag`). The monitor's `update` is `Check`, `FlushPush`/`FlushSkip`,
`FlushClear`, `SetLevel`. Every submission draws a new id, so the id stands for it. The level is
at least the number of failures among Redis and DAG Manager; the levels MINIMAL and STATIC admit
the same requests here and are one. World bindings, compute contexts and the diff in the answer are
left out.

### TopicBinding and DiffStream: the DAG Manager (`diff_service.py`, `kafka_admin.py`, `garbage_collector.py`, `grpc_server.py`, Gateway's `dagmanager_client.py`)

`TopicBinding`: a diff runs in a thread; it fetches the records of its nodes, decides for each
node whether the topic is reused, creates missing topics through the admin's breaker, stores
bindings and publishes a changed sentinel weight. The collector lists orphans and drops them
between any steps of the diffs. `overlap` remembers that two diffs have run at the same time.
`DiffStream`: the window, the acknowledgements without a chunk number that find their stream by
strategy id, the repeated sending after a timeout, the client's retry of a whole RPC, an RPC that
a failing publication ends.
`crossed` remembers that two RPCs of the strategy have overlapped.

### RangeMath, RangeChecks, SeamlessBackfill, DomainGate: the data path (`seamless_data_provider.py`, `history_coverage.py`, `auto_backfill.py`, `history_provider_facade.py`, `backfill_coordinator.py`, `runtime/io`)

`RangeMath` has the functions on ranges, written with folds; `RangeChecks` compares them with
sets of bars on every input. `SeamlessBackfill` is several processes over one table: flights,
lease, planner, the lock of a process, chunks with attempts, and the fallback to the bare
fetcher. A row counts how often each process has inserted it. `DomainGate` is what happens
around a fetch: cache, SLA policy, gates per domain, `as_of` of a live world.

A chunk is two passes over its gaps, `fill_missing` with both ends in and then `fetch` without
the end, each from `CoverChunk` (the coverage is read anew) over `FetchGap` and `WriteGap` for one
gap after the other to `PassEnds`, and a `ReadChunk`. Three things of the code shape it:

* A fetcher may answer with any part of the bars it was asked for, or none. That is no error to
  `ensure_range`: an empty frame is passed over (`auto_backfill.py:192-193`), a short one is written
  as it is. `CcxtOHLCVFetcher` stops at an empty batch, `BinanceFetcher` at 1000 rows. `short` has
  the bars a fetch did not get that way.
* `QuestDBBackend.read_range` raises when there is no row (`pl.from_dicts([])`,
  `historyprovider.py:56`); other backends return an empty frame. `raises` is the kind of backend.
  With one that raises, `ensure_range` cannot fill a gap that is wholly missing, because it reads
  the gap before it writes (`auto_backfill.py:195`): the chunk falls back to the bare fetcher and
  is stored nowhere (`EmptyRead`, `FetchDirectly`), and a fetch of a stored range of one bar, which
  is read without its end, fails (`RangeFails`).
* A claim of a lease that raises lets the backfill go on without one (`ClaimRaises`); one that
  returns None does not (`LeaseRefused`).

The model runs the chunks of one backfill one after another. The code starts them in a
`TaskGroup` behind a semaphore (`seamless_data_provider.py:1040-1045, 1137-1139`), where the lock of
the process lets one at a time through a pass, and a chunk that fails with its last attempt cancels
the others, as a call that fails would. The deadlines of an SLA (`_SLATracker`), which end a wait of
the planner with an error, are not in this module.

### RiskHub: snapshots and their consumer (`risk_hub.py`, `storage/repositories/risk_snapshots.py`, `routers/risk_hub.py`, `controlbus_consumer.py` of WorldService, `core_loop_hub.py`)

Several servers with a memory each, one table, one Redis key for the latest, one partition. A
POST goes through the memory, the table (`GetRow`, `InsertRow`, `RecheckRow`), `CacheLatest` and
the dispatch (`PublishUpdate`, `Schedule`); the consumer upserts, handles, marks and commits, and after
its last attempt gives the message up (`PublishDlq`), with a dead letter or, without a producer or
with a failing send, without one (`unsent`).
`ReadStore` is any GET that fills a memory. `StopConsumer` cancels the consumer, whose `finally`
commits; `CrashServer` does not.

### AllocationRuns: POST /allocations (`services.py`, `storage/persistent.py`)

`FindRun` reads the run; a new one takes the locks of its worlds in sorted order
(`LockWorld`), reads the shares (`ReadContext`), records the run, stores the shares one by one,
audits, executes and marks. Every call may fail after it was executed, and the process may
crash. A payload's content is its etag; the figures of the plan are left out, what it was
computed from is kept (`before`).

### RebalanceOrders: POST /rebalancing/execute?submit=true (`routes/rebalancing.py`, `commit_log.py`)

A request fetches a plan, reads the mode of each world, and publishes batches per world, then
the net orders, then those per strategy, each in a transaction of the producer that all
requests and all submissions of strategies share. A second `begin_transaction` raises while
one is open, and an abort that fails may leave the producer in it. The mode "overlay",
rounding and netting are left out.

### EvaluationRuns: evaluation store and live promotion (`services.py`, `storage/persistent.py`, `storage/repositories/evaluation_runs.py`, `extended_validation_worker.py`, `routers/promotions.py`)

Two tables, the row of a run and its history, and requests that take no lock. Whatever writes
a run goes through `NumberRevision` (SELECT MAX), `InsertRevision` and `WriteRow`: an
evaluation with a record made anew, an override or a failure with a changed copy of the one it
has read (`ReadRun`), the extended validation with copies it read all at once (`ListRuns`). A
promotion reads the approval (`CheckApproval`) or picks a paper run (`PickSource`), reads record
and decisions again (`ReadPlan`, `ReadCurrent`), is judged and applied; the apply is one step
here, ApplyFlow has its own. `Slips` is a failing write that may have been executed. Ghosts:
`acked` is what was answered with success since the last evaluation, `mixed` the runs two
writers had in hand at once, `tangled` that two promotions overlapped. Only promotions change
the decisions here. Timestamps (any paper run may be the freshest), metrics, the layers of the
validation, deletion of a world and the purge of the history are left out.

## 3 The runs

Every bound is a constant `Max...`; it limits how often the environment misbehaves, not the
code. One failure is where the handlers' error paths start; a second one hits the error path
itself and is included where the code promises something about it.

| Run | Instance | Checks | Shows |
|---|---|---|---|
| `apply_rollback` | 2 strategies on one side, 2 requests on a used document, edge overrides of two domains of which one is switched on again, an await up to the rollback may raise, one crash; fair | `TypeOK`, `GatedWhileSwitching`, `CompletedIsApplied`, `RolledBackIsFrozen`, `SettledWhenIdle`, `EveryRunSettles` | the switch is gated, completed means applied, rolled back means as before and frozen, and the lock is given back with the run settled, or abandoned ahead of the `try` with the world untouched |
| `gateway` | queue: 2 workers, 2 strategies, one perhaps twice in the queue; a failing handler, Redis call and database call and a crash, or an expired lock, a refusal and a failing handler; relay: five partitions with one gap, two gaps or copies, a failing commit and acknowledgement, two reconnections, a restart; fair | `TypeOK`, `OneHolder`, `ReleasesOwnLock`, `StatusAgrees`, `FsmSteps`, `HeldBackSafely`, `RunsInOrder`, `EveryEventHandled` | until a lock expires one holder, nobody deletes another's lock; while Redis and the database answer, states move along the FSM's edges and the database follows; no lost wake-up, nothing left behind in a buffer, order towards both sides, every event handled by a relay that is not restarted |
| `intake_dedupe` | 2 submissions of one DAG, 1 worker, the monitor; a failing Redis call, database and commit log, a refusal | `AcceptedOncePerDag` | one acceptance per DAG |
| `intake_settles` | 2 submissions, 1 worker, the monitor; a refusal or a failing handler; fair | `AcceptedIsKept`, `AcceptedSettles` | an accepted strategy is somewhere until it is completed, and is completed or its handler has failed |
| `push` | hub: 2 connections, queue of 2, 3 events, 2 hitches; feed: 2 strategies, two scripts of changes, 2 failures, 2 outages, a lost socket, a denial; fair | `QueuesSafe`, `ImplementsOrderedFeed`, `GateSettles`, `StopReturns` | the hub implements an ordered feed and keeps the newest events, its stop returns, the order gate settles on WorldService's answer or on "no" |
| `dag` | binding: 2 diffs, every pair of four requests, 3 graphs, a failing creation, binding and publication; stream: 2 callers, 1 or 2 chunks, window 1, a lost acknowledgement or a failing publication, a retry; fair | `TopicsKept`, `ContextsApart`, `WeightsSettle`, `AnswerTellsTruth`, `DiffEnds` | no dropped topic is named, contexts stay apart, the last weight is published, success means all chunks, every call ends |
| `data` | ranges: every table and window of 6 bars, chunks of 0 to 2; backfill: 2 processes, a window of 3 bars with the middle one stored, both kinds of backend, one mishap (a lost call, an error, a short answer, an expiry); gate: 2 clients, 3 kinds of request, 3 policies; fair | `RangesExact`, `BackfillSafe`, `CleanFetchFills`, `AnswersAreGated`, `FetchEnds`, `AsOfAdvances` | exact ranges, no bar twice, windows filled and returned but for the bars the fetcher left out and the last bars of ranges, fetches that end, answers judged when they are given |
| `world` | apply: 1 strategy, 2 requests, a PUT and a POST, an await may raise ahead of the `try`, at the switch and in the unfreeze; risk: 2 servers, 2 POSTs of 3 snapshots, 2 faults, one of them perhaps an outage; allocation: 3 POSTs of 4 payloads over 2 worlds, 2 at a time, 2 mishaps; orders: 2 requests, 2 losses; evaluation: 2 runs, 8 kinds of request, 2 at a time and 3 in all, manual or automatic promotion, 1 slot, a failing write | `RunsKeptApart`, `OneContentPerVersion`, `CommittedIsHandled`, `AllocationsInTurn`, `ExecutedInTurn`, `OrdersSound`, `RevisionsKept`, `PromotionsGoverned` | what concurrent requests may not do to each other: mixed timelines, two contents of a version, plans from shares that change, a second execution, orders of a shadow world, a producer that stays in a transaction, an answered override that left no trace, a promotion nobody approved |

Four more runs, `queue_lost`, `relay_stuck`, `risk_unannounced` and `alloc_twice`, end in a violation: section 6.

Several properties are conjunctions of named parts that stand next to them in the module
(`RunsInOrder == AcksMonotonic /\ NoOvertakingInRun`, `BackfillSafe`, `AllocationsInTurn`, ...).

Sizes: up to 1 600 000 states (`intake_dedupe`), each run between one minute and four. The sum of
`gateway` is 1.2 million states of the queue and 0.2 million of the relay; that of `world` is
0.4 million of the apply, 0.6 million of the risk hub and 0.4 million of the rest.

Two strategies, two runs and two workers are enough for the interference the properties are
about: each of them relates at most two such objects, and the third would only repeat the
part of the second. A partition has one gap per run or two in one run, which is what the
gap timer's life cycle (scheduled, fired, stale, rescheduled) needs. A hub queue of 2 with 3
events overflows; a window of 1 with 2 chunks fills; a stored bar
in the middle of three makes two gaps, in the planner and in a chunk, and the seams between chunks are
in `RangesExact` and in the proof of `CleanFetchFills`; three allocation requests are a first one, a concurrent one and a retry. Servers and
clients of `world` are symmetric: they are in no constant order and no property names one.
`CHECK_DEADLOCK FALSE` is given throughout because the bounded environments end: requests,
messages and strategies run out.

Many properties hold only under a condition. It is in the property, or in the constants of the
run, and TLC refutes each of these properties when it is given up:

| Property | Condition | Why |
|---|---|---|
| `GatedWhileSwitching` | no PUT /activation (`PutId = {}`) | a PUT does not take the world's lock and can reopen an entry in the middle of a switch |
| `SettledWhenIdle`, `EveryRunSettles` | `Abandoned` runs are left out | a failing first audit record leaves a run nobody works on, and 409 for everyone else |
| `SettledWhenIdle`, `CompletedIsApplied` | no PUT, no POST /decisions, no exception inside `_handle_failure` (`FailAt` without `UndoPC`) | a rollback that raises leaves the run halfway and gives the lock back |
| `CompletedIsRemembered` in `RunsKeptApart` | no other run started since, no crash | the registry keeps one run per world, in memory: after another run or a crash, a retry of the first takes effect again |
| `SequencePerRun` in `RunsKeptApart` | `StartedOnce` | the counter is the registry's: a run that is started again numbers its events from one again |
| `RunsInOrder`, `BufferIsAhead` in `HeldBackSafely` | `DeliveredOnce` | each task holds a copy of a message behind a gap while it waits for its acknowledgement; the one that ends last sets the expected sequence back (`relay_stuck`) |
| `EveryEventHandled` | no restart, `BufferIsAhead`, events that are not `Late` | the offset of a buffered event is committed; `relay_stuck`; an event below the expected sequence is dropped on purpose |
| `OneHolder`, `ReleasesOwnLock` | `Unexpired` | the owner of an expired lock goes on |
| `FsmSteps`, `StatusAgrees` | Redis and the database answer | the fallback of a status request writes what it has read from the database, although the state may have moved |
| `NothingLost`, `AcceptedIsKept` | one worker, a Redis that answers | `queue_lost`; an LPOP or RPUSH whose answer is lost |
| `AcceptedSettles` | a failed handler counts as settled | the FSM has no event out of `failed` that any code sends, and the strategy is pushed back for ever |
| `GateSettles` | a manager that is running | one whose subscription was denied keeps the activation it has fetched, and polls no more |
| `StopReturns` | not `LeftBehind` | the hub stops before the consumer; an event behind the sentinel keeps `join` waiting |
| `ContextsApart`, `WeightsSettle` | `~overlap`, no lost binding or publication | diffs decide on records and weights that others are about to change |
| `ContextsApart` | node ids stand for their code; one context per node at first | a request with other code for a node adds its context to the record and uses another topic; with three diffs the third one reuses the record's topic in that context |
| the second half of `AnswerTellsTruth` | `~crossed` | acknowledgements of one RPC are counted for another of the same strategy |
| `BackgroundAlone` in `BackfillSafe` | no lease ran out, no claim raised | the owner of an expired lease goes on; a claim that raises lets the backfill go on without one |
| `CleanFetchFills` | no error in the storage or the fetcher; bars the fetcher did not leave out (`short`); the result but for the last bars of ranges and gaps (`ends`) | `ensure_range` passes over an empty frame and takes a short one; ranges and chunks are read without their ends |
| `CommittedIsHandled` | no `stop()`; messages given up in `unsent` | its `finally` commits the message it interrupts; `_publish_dlq` returns without a producer and only logs a failing send, and the message is committed all the same |
| `ExecutedInTurn` | runs that are not `doubtful` | `alloc_twice`; an execution whose answer or mark was lost is repeated |
| `WriterIsFree` in `OrdersSound` | no failed abort | it is only logged |
| `SerialWritesKept` in `RevisionsKept` | runs that are not `mixed` | of two writers with a copy of the record each one takes back the other's change; a failing call leaves the history ahead of the row |
| `PromotionsGoverned` | approved at some revision; slots while not `tangled`; stage of an automatic promotion as it was picked | approval, plan and reasons come from separate reads, and slots are counted outside the lock |

## 4 Fairness

Weak fairness of what an event loop or a thread runs when it can; an await that hangs is one
that raises (client timeouts). Requests, failures, expiries and crashes are never fair.

* `ApplyFlow!FairSpec`: the handler.
* `ActivationRelay!RelayFairness`: the two tasks, a sleeping timer that fires, the end of a
  publication of an acknowledgement.
* `StrategyIntake!FairSpec`: started requests, workers and the monitor, and strong fairness of
  `Check(TRUE, TRUE)`: the DAG Manager and Redis are seen healthy again and again. Without
  it a strategy in the local queue rightly waits. Clients need not submit.
* `EventHub!HubFairness`: the dispatcher and the two halves of stop().
* `ActivationFeed!FeedFairness`: the relay of an event, the manager's start and subscription, its
  poll, the socket's reader and every started request. `GateSettles` needs no fairness of the
  circuit: its two halves assume that it stays closed, or stays open.
* `DiffStream!StreamFairness`: both sides of a call, the thread of a diff, and its timeout.
* `SeamlessBackfill!SeamlessFairness`: the loop of each process. `Busy` is `ENABLED LoopStep`
  written out; TLC takes long to evaluate it otherwise.

## 5 What is proved

TLAPS checks the following for every value of the constants that meets the named assumptions of
the modules: any number of requests, workers, servers, worlds, failures and crashes. The bounds
`Max...` are natural numbers in these assumptions and nothing more.

| Module | Theorem | States |
|---|---|---|
| `ApplyFlowProofs` | `TypeCorrect` | `Spec => []TypeOK` |
| | `SwitchIsGated`, `RollbackIsSafe` | `[]GatedWhileSwitching`, `[]RolledBackIsFrozen` (1) |
| | `SettledAlways`, `CompletedAlwaysApplied` | `[]SettledWhenIdle`, `[]CompletedIsApplied` (1, 2) |
| | `TimelineKept`, `RunsAlwaysKeptApart` | `[]AuditTimeline`, `[]UnfreezeFollowsSwitch`, `[]RunsKeptApart` |
| `StrategyProofs` | `QueueTypeCorrect`, `OneHolderAlways`, `ReleasesOwnLockAlways` | `[]TypeOK`, `[]OneHolder`, `ReleasesOwnLock` |
| | `StatusAlwaysAgrees`, `FsmStepsAlways` | `[]StatusAgrees`, `FsmSteps` |
| | `OneAcceptedPerDag`, `AcceptedAlwaysKept` | `[]AcceptedOncePerDag`, `[]AcceptedIsKept` (4) |
| `PushProofs` | `HubTypeCorrect`, `NewestKept`, `PushQueuesSafe` | `[]HubTypeOK`, `[]QueueIsNewest`, and with the feed `[]QueuesSafe` |
| | `HubImplementsFeed` | `HubSpec => ImplementsOrderedFeed`: the refinement |
| | `HeldBackAlwaysSafely`, `RunsAlwaysInOrder` | `[]HeldBackSafely`, `[]RunsInOrder` |
| `DagProofs` | `TopicsAlwaysKept`, `WeightsAlwaysSettle` | `[]TopicsKept`, `[]WeightsSettle` |
| | `ContextsAlwaysApart` | `[]ContextsApart` (3) |
| | `AnswersAlwaysTrue` | `[]AnswerTellsTruth` |
| `DataProofs` | `AnswersAlwaysGated`, `AsOfAlwaysAdvances` | `[]AnswersAreGated`, `AsOfAdvances` |
| | `RangesAlwaysExact` | `[]RangesExact`, as the input stays the same |
| | `BackfillAlwaysSafe`, `CleanFetchAlwaysFills` | `[]BackfillSafe`, `[]CleanFetchFills` |
| `RiskHubProofs` | `OneContentAlways`, `CommittedAlwaysHandled` | `[]OneContentPerVersion`, `[]CommittedIsHandled` |
| `RebalancingProofs` | `AllocationsAlwaysInTurn`, `RunsExecutedInTurn` | `[]AllocationsInTurn`, `[]ExecutedInTurn` |
| | `OrdersAlwaysSound` | `[]OrdersSound` |
| `EvaluationRunsProofs` | `RevisionsAlwaysKept`, `PromotionsAlwaysGoverned` | `[]RevisionsKept`, `[]PromotionsGoverned` |

Assumptions that are the theorem's own, and not those of its module:

1. `PutId = {}`, `PostLists = {}`: nobody uses PUT /activation or POST /decisions; neither is
   ordered with an apply by any lock, and with them the properties are false.
2. `UndoSucceeds`: no exception inside `_handle_failure`, which nothing catches.
3. `OneContextAtFirst`: the graph begins with one context per node at most. `IdsStandForCode`: a node
   of the graph has the code of those who ask for it; a node id is a digest over the code hash, and
   the Gateway refuses a DAG whose ids are not (`E_NODE_ID_MISMATCH`). The run `dag` also has
   requests with other code for a node; two diffs do not break the property, three do.
4. `SoleWorker`: there is one worker. A second one drops what it did not look at (`queue_lost`).

Assumptions of the modules that a proof rests on and that are not merely types: the worlds of
`AllocationRuns` are finitely many, and a payload without worlds is refused (422,
`services.py:578-580`); in `RebalanceOrders` the worlds without orders are among the worlds of the
plan; in `EvaluationRuns` an override, a failure and a promotion name their run (it is in the path
or the body of the request), what an evaluation or the worker may write are runs of the world, a
row that is there at the start has one revision, active sets are finite and those at the start fit
the slots; in `ActivationRelay` a message with a number names its run, and in `SeamlessBackfill` the window
asked for has two bars at least; None is none of the values it is compared with.

### The inductive invariants

Hardly any of the properties is inductive as it stands. Each is proved from a stronger invariant in three steps
(`...Init`, `...Step`, and that it implies the property), the second with one step per action.
All of them hold on the instances of the runs, where TLC has checked them (`ContextInv` with the
requests that have the same code).

* **`Inv`** of ApplyFlow says what the loops have done so far: the document a half-finished update
  has loaded is still the document; it is the snapshot until the freeze starts and after it is
  restored; in a freeze loop every entry that is not on the list any more is gated; in the edge
  loop every domain not on the list is restored; in the rollback the decisions are the previous
  ones once they are written. **`WholeInv`** adds the way forward: `LedgerInv` (the registry's run
  and the decisions at each point), `EdgesInv` and `OpenInv` (the loops over domains and over the
  keys to unfreeze, which are exactly the keys of the snapshot and of the target) and
  `AppliedInv` (a completed run stays applied until the next one has built its context).
  **`TimeInv`** says which record the audit log ends with at each point. It needs no assumption,
  because the requests that go round the lock write no records. **`ApartInv`** adds where a
  completed run is remembered (`RememberInv`: in the registry, or another run has started behind
  its record) and that what is published of the run at hand is numbered up to its counter
  (`NumberedInv`).
* **`TypeInv`** of StrategyQueue adds that a worker about to write has read a state from which its
  event is possible. **`LockInv`** adds that a worker between its SET NX and its DELETE is the owner
  in the lock key: a Redis call that fails after it was executed leaves a lock nobody uses, never
  two owners. **`AgreeInv`** adds, as long as nothing has failed, that a worker that writes has read
  the state that is still there: this is what the lock is for.
* **`IntakeInv`** of StrategyIntake: whoever has claimed a DAG, from the claim to the rollback, is
  the one in the hash key. A claim whose answer is lost has no owner, and the DAG is refused from
  then on rather than accepted twice. **`KeepInv`**, for one worker and while nothing has failed: what
  the worker has looked at is still the head of the queue; what it has read is still there, and a
  strategy without a state has no row either, so that a worker that meets it before it is created
  puts it back; what is about to be cleared from the local queue is in the queue, in the worker's
  hands or completed.
* **`HubInv`** of EventHub: numbers ascend in the queue, and are above the event being sent and
  above everything a connection was sent. Then a send is `Deliver` of the abstract feed, a
  numbered broadcast is `Offer`, and all else, drops included, is a stuttering step.
* ActivationFeed needs `FeedTypeOK` only, which is the feed's half of `QueuesSafe`.
* **`RelayInv`** of ActivationRelay is `HeldInv`, whatever is delivered (a drain works on a run that has
  a state; who leaves a gap behind leaves a timer, a timeout in the queue or a drain), and while
  nothing behind a gap is delivered twice `OnceInv`: a message in hand is the expected one and the
  two tasks have different runs in hand (`InHandInv`); what is held back is ahead of the expected
  sequence, once (`AheadInv`); no timeout is due for a run that the broker task drains
  (`TokenInv`), which is why the tasks never drain the same run; acknowledgements and the last
  delivery are behind the expected sequence (`BehindInv`); and what was read and came in time is
  handled, held back or in hand (`KeptInv`). Steps fall into those that carry one run on (`Carry`)
  and those that leave expected sequences and hands alone (`Quiet`).
* **`TopicsInv`** of TopicBinding: what is on the collector's list is old and nobody's; what a diff
  has bound is young or some node's. A topic on the old list cannot become either.
  **`WeightInv`**: the weight in the cache was told, or is held as an event by the diff that runs.
  **`ContextInv`**: a node has one context; what a diff has fetched is still true but for its own
  context, since no other diff ran (`SoleDiff`); a plan that passed has no node of another context.
* **`Travels`** and **`Counted`** of DiffStream: every chunk that was sent is on the wire or with the
  client; the acknowledged chunks and those outstanding are no more than the acknowledgements and
  the chunks sent, so that a wait that times out has a chunk without acknowledgement.
* **`GateInv`** of DomainGate is its types and the property: an answer is judged against the clock, the
  policy and the request as they are in the step that gives it, whatever the entry was when it was
  cached.
* **`SeamlessInv`** of SeamlessBackfill: a task between the coverage it has read and the end of its
  pass has the lock of its process, what it counts as covered is stored, and what it is to ask for or
  to write its process has not written (`FillInv`); the lease names the background backfill that
  runs (`LeaseInv`). Call a bar settled when it is stored or the fetcher left it out of an answer.
  As long as a fetch met no error, each bar of its window is settled or in a gap of its plan, and
  each bar of the result but the last ones is settled, got, or in a range or gap that is left
  (`FetchInv`); each bar of the first gap is settled or in a chunk that is still to come, and its
  bars are in the frame but for the ends (`GapInv`); each bar of the chunk is settled, missing or
  about to be written, and after the first pass settled (`ChunkInv`). `PlanInv` joins them. It rests on lemmas about `RangeMath` for lists of any length: merging
  keeps the bars (`MergeSound`), the runs of a table and their overlaps with the request hold stored
  bars only (`RunsSound`, `IntersectSound`), and what subtracting and cutting into chunks leave out
  is stored (`SubtractExact`, `SplitSound`, `ChunksSound`). A fold is a function on
  the sets of positions (`IsFold`, `FoldExists`), and each lemma is an induction over the number of
  elements taken so far, written as a property of every such number.
* `RangesExact` has no steps: every input is one initial state. Each of its four parts is a theorem about
  the operators of `RangeMath` for lists of any length, and for any number of bars per chunk (`Inputs`). The key
  is `Apart`: ranges in order with a bar at least between them. A list that is sorted without
  repetition is the only such list of its ranges (`StrictUnique`), so the runs of a table, its coverage
  merged from runs, and its coverage merged from single bars are the same list (`TableExact`).
  `Searched` is the invariant of the loop that looks for gaps: in front of the cursor the gaps are
  exactly the bars that no range has (`AddGapExact`, `MissingExact`). Cutting takes away exactly
  the bars of what is cut out (`CutOutExact`, `SubtractExact`), and a chunk ends where the next one
  begins (`ChunksTileExact`).
* **`RiskInv`** of RiskHub: all that is remembered or announced is a row, and rows have one content per
  version; up to the consumer's position all is handled or given up but the message in hand.
* **`AllocInv`** of AllocationRuns: a lock belongs to a request that waits for greater worlds only. In a
  set of requests that wait for each other, the one whose awaited world is greatest would wait
  for a lock whose owner waits for a greater one. `OnceInv` tells from a run's row and from
  where its one request is how often it was executed.
* **`OrderInv`** of RebalanceOrders: which batches a request has reached, which are in the log, and that
  a request in a transaction is the one the producer's transaction names. In the scope "global"
  every world of the plan has passed the scope "world", which is why no shadow world is in it.
* **`StoreInv`** of EvaluationRuns: a row is a revision; a draft carries what its request is about, and
  once its task is past the INSERT it is in the history, so that what is answered for is there.
  **`SerialInv`**: of two tasks that may write one run, that run is `mixed`; otherwise the draft of the
  one writer was made from the row as it still is, or anew (`Fresh`), and the row waits for the
  last revision while the writer is between the two tables.
  **`PromotionInv`**: what a promotion has read was a revision, and revisions stay (`HistoryGrows`):
  approval and stage are of some revision, the set and the reasons of one and the same. While
  promotions do not overlap, a plan is the difference to the decisions as they still are.

`PTL` combines the steps into the temporal statements; the leaves are for Z3 and Zenon.

### Only model-checked

* The liveness properties (`EveryRunSettles`, `EveryEventHandled`, `AcceptedSettles`, `GateSettles`,
  `StopReturns`, `DiffEnds`, `FetchEnds`): fairness and ENABLED are out of the prover's reach.
* The four properties that the code violates (section 6).

No module uses a `RECURSIVE` operator, so all of them stay open to proof.

## 6 Where the code and its documents differ

Four of these are runs that TLC must find violated; the quoted lines are in `PROJECT.json`
under `findings`.

| Run | What the code does |
|---|---|
| `queue_lost` | LPOP after a stale LINDEX drops another strategy |
| `relay_stuck` | after a redelivery both tasks drain one run, the expected sequence goes back, and a message stays in the buffer below it; every later gap timeout of the run looks at that lowest one and forces nothing |
| `risk_unannounced` | a GET that reads a new row before the POST that wrote it goes on makes the POST take it for a duplicate: it answers with success and announces nothing, and neither does a retry |
| `alloc_twice` | two POSTs of one run id both find no run, plan one after the other and execute twice |

The others are the conditions of the table in section 3, and what follows from reading the
code while modelling it; `hazards` has each at its line:

* a strategy whose handler failed is pushed back for ever, RETRY is never sent;
* a manager whose subscription was denied stays open, though its module says that orders
  remain gated off;
* two diffs of one node in two contexts that overlap reuse one topic;
* ranges are known with their last bar and read without it, so that the result of a fetch lacks
  the bar at each seam;
* with `QuestDBBackend`, a gap none of whose bars is stored is fetched and never stored, and a
  stored range of one bar makes a fetch fail;
* a fetcher's short or empty answer counts as a backfill that succeeded;
* a rollback's freeze events carry older etags than the events they undo;
* events are acknowledged and not forwarded when the document's version, which fills the
  field, is not 1;
* a client is told of a duplicate of a submission that is then rolled back;
* a strategy completed before its row is inserted stays queued in the database;
* an allocation run whose shares were not stored is answered as done when it is posted again;
* the batches of the worlds before a shadow world are published when the request is refused,
  and a world whose mode cannot be read counts as tradeable;
* an ex-post failure that was answered with success can vanish from the row, which the documents
  call an append-only log, when the extended validation or an override has an older copy; the
  history still has it;
* an evaluation that could not be recorded is answered with the URL of its run;
* two promotions that overlap can exceed the live slots together;
* a request is refused with 503 because another one has the producer's transaction open.

## 7 What is not modelled

`PROJECT.json` lists every component. The model is about shared state; the larger part of the
repository has none and is left out for good: CLI, configuration, templates, documentation
tools, indicators, brokerage and labelling models, feature pipelines (sequential or numeric),
the policy engine and the rebalancing planners (floating-point evaluation, in the models an
arbitrary answer), SDK submission and runner (sequential orchestration of calls whose other end
is modelled), node identity and validation of DAGs (hashing and parsing), CRUD of worlds,
policies and validation results, metrics and logging. The map therefore covers most of the
code of the modelled components and a small share of the repository.

Left out of modelled components: publication of artifacts, live feeds and the other strategies
of the Seamless provider; TTLs, blobs and covariances of the risk hub; queue, policy and
sentinel messages of the ControlBus; tag queries and the Neo4j schema; overlays; the commit
log's consumer. External and reduced to their answers: Kafka, Redis, the database, Neo4j, the
ownership manager, the executor. Restarts of the Gateway as a whole are in ActivationRelay only:
what the intake keeps in memory (the local queue) is plainly lost.

## 8 Plan

Done: the modules of section 2, the refinement of `OrderedFeed`, the proofs of section 5: every
safety invariant and action property of the runs is a theorem.

Next models: the commit log's consumer and its deduplication; the consumer that starts the
extended validation in production; the decision cache of the SDK; the policy engine's chain of
thresholds, top-k, correlation and hysteresis and the node cache with its ring buffers, each
against a reference definition; the path from ApplyFlow's bus through the relay and the hub to
the order gate as one composition (after a rollback every client ends up frozen).
