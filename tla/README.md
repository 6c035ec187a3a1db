# Formal model of Open-Audit

Open-Audit ingests Stellar (Soroban) contract events, translates them into human
readable records, stores them, and serves them over HTTP, GraphQL, WebSockets and
webhooks. This directory holds TLA+ modules translated from that code, the TLC
configurations that check them on small instances, and proofs checked by TLAPS.

    tlc -config MCIngestionPool.cfg MCIngestionPool     # check one instance
    tlapm IngestionPoolProofs.tla                       # check one proof module

`PROJECT.json` lists the components, the runs, the source lines behind every
definition, the hazards and the theorems. Paths below are relative to `src/`.

## 1. Inventory

| Component | Source | State it keeps | Operations | Hard behaviour | What makes it correct |
|---|---|---|---|---|---|
| Ingestion pool | `lib/stellar/ingestion-pool.ts` | partition queues (ring buffers), counters, parked producers, drain and stop promises | enqueue, consumer turn, settle, drain, stop | lost wake-ups, stop racing enqueue, growth of a buffer that has wrapped | order per contract, nothing lost, bounded overshoot, sound drain and stop |
| Event indexer | `lib/stellar/indexer.ts`, `indexer-persistent.ts`, `ingestion-state.ts`, `lib/cache/redisCache.ts` | ledger cursor, running flag, saved cursor, cached answers | fetch with retry, deliver, advance, save, stop | retries, crash between deliver and save, stale cache | no event below a cursor is undelivered; the saved cursor only grows |
| Historical ingester | `lib/stellar/historical-ingester.ts` | chunk loop, running total | fetch, hand over, fail, complete | partial failure, chunk boundaries | completion covers the range |
| Captive core supervisor | `lib/stellar/captive-core.ts` | child process, status, restart attempts, timers, frame buffer | launch, frame, exit, heartbeat, fail, restart, stop | several failures of one child, concurrent frame handlers, frames cut anywhere | no ledger passed over silently, never left without a watched core, each event found once |
| Circuit breaker | `lib/resilience/circuit-breaker.ts` | state, counters, reset timer, back-off | execute, record, open, half-open, close, dispose | late answers of an earlier state, timers | an open circuit can recover; only a run of failures opens it |
| Token bucket | `lib/resilience/token-bucket.ts` | tokens, waiting queue, refill timer | acquire, tryAcquire, refill, dispose | queue limit, dispose with waiters | rate bound, first come first served |
| Resilient client | `lib/resilience/resilient-client.ts` | one breaker per endpoint, one bucket | execute with failover | partial failure | backups in order, every call settles |
| Indexer worker | `src/worker/indexer.ts` | publish queue, connection flag, counts | handle event, publish, queue, flush | loss during a flush, rejected calls, calls the client sends again, full queue | once unless rejected, dropped or an answer was lost; counted once |
| Webhook delivery | `lib/webhooks/deliver.ts`, `app/api/webhooks` | subscriptions, delivery rows | register, read the active ones, start, attempt, back-off, deactivate | subscriptions that go off between the read and the deliveries, attempts that time out after the receiver took them | every delivery owed to a subscription read as active is accounted for; off only after a recorded failure |
| Job queues | `lib/jobs/queue.ts` | Bull jobs, database rows | add, run, fail, handle the event | rows are written by handlers that run after the job and may be rejected, dying workers | jobs run out of attempts, each run on record |
| Reconciliation | `lib/reconciliation/*.ts` | configuration, cron tasks, jobs and their rows, audit log | configure, start, stop, tick, trigger, run, log | requests that cross at an await, rejected calls, ends of the process | one cron task, and it follows the configuration; a run is never unrecorded |
| Retention | `lib/retention/{archiver,pruner,scheduler}.ts` | hot rows, archive files | select, archive, delete, clean up | crash between file and delete, two runs a day that share a file, failing batches and look-ups | no row leaves without an archive, but for listed causes |
| Bridge | `lib/bridge/*.ts`, `src/worker/evm-bridge-indexer.ts` | bridge rows, matches, block cursors | poll, create, match, publish, expire | chains polled in parallel, racing matchers, polls that outlive their cycle, publishing that always throws | no pair is missed, one match per row, the cursor passes no log |
| Realtime server, live feed | `server-decoupled.ts`, `lib/hooks/useLiveFeed.ts` | sockets, connections per address; feed buffer, timer | connect, broadcast, close; open, message, pause, reconnect | rejected connections, reconnect timers, pauses | exact counts; one socket; shown once in order |
| Rate limiters | `lib/auth/rateLimit.ts`, `lib/webhooks/ip-rate-limit.ts`, `lib/api/rateLimiter.ts` | windows per key | check | clocks read before the store is asked, window boundary | at most the limit per window; a promise to retry is kept |
| Sandbox runner | `lib/wasm-sandbox/*` | module cache, worker threads, timers | execute, time out, answer, exit | time-out racing an answer | each execution settles once and leaves nothing |
| DAG engine and panel | `lib/dag/engine.ts`, `lib/hooks/useExecutionDag.ts` | stack and nodes; requests under way | call, return, error; fetch | ignored calls, failed calls, crossing requests | a tree that follows the host, own costs add up |
| Soroban DSL | `native/soroban-dsl/src/*.rs` | position, depth, step budget | lex, parse, evaluate | limits, overflow | the grammar's tree; the exact value or an error |
| Decoders | `lib/translator/{secure-xdr-parser,parser-security,udt-decoder,generic-fallback-decoder}.ts` | metrics, cache of type maps | parse, validate, decode | nested limits, upgrades between two requests, payloads cut off | accepted if and only if it fits; a map is of one version |
| Native decoder | `native/soroban-xdr-decode/src/lib.rs`, `lib/native/xdr-binding.ts` | the addon, looked for once | decode one, topics, a batch | a binary built while the server runs, texts of unknown encoding, limbs of integers | a text is read alike for the life of the process; values stay apart |
| Custom ABIs, blueprints | `lib/translator/{custom-abi,blueprint-spec}.ts` | `localStorage`, the list of each tab | upload, remove, match | two tabs | what is stored is what was kept last |
| Translator, registry | `lib/translator/{core,registry,persistence}.ts` | pool of address objects, cache, rows | translate, persist | objects used again | a row shows its own addresses |
| GraphQL | `lib/graphql/*.ts`, `app/api/graphql/route.ts` | registered ABIs, cached schema | register, query | schema cached while ABIs change, interleaved resolvers | the schema is current; answers keep to the limit |
| Inclusion proofs | `lib/stellar/stellar-proof.ts`, `lib/crypto/zk-event-accumulator.ts`, `useInclusionProof.ts` | tree, proof under verification | build, prove, verify | pages, odd levels | a verdict is about the whole ledger |
| IPFS off-loading | `lib/ipfs/*.ts`, `useIpfsResolver.ts` | pointers in rows | off-load, resolve | a node that fails, answers for an earlier field | every field can be recovered |
| ClickHouse back-fill | `lib/db/clickhouse-ingest.ts`, `lib/db/clickhouse.ts`, `app/api/ingest-historical` | one buffer for all requests; the queue of the server | buffer, flush, write later | requests that take turns in one buffer, inserts that are answered before they are written | a row is in one place |
| Dashboard, bridge page, graph | `app/dashboard`, `components/dashboard/FilterBuilder.tsx`, `useUrlSync.ts`, `useEventFilters.ts`, `useBridgeMatches.ts`, `useGraphData.ts` | URL, filters and their inputs, pages, lists, nodes and links | navigate, filter, page, load more, add | crossing requests, inputs that write to the URL late, ties at a page boundary, caps | what is shown answers what was asked last |
| Exports | `components/dashboard/ExportDataDialog.tsx`, `lib/export-data.ts`, `app/api/v1/events/export/route.ts` | dialog, its timer, the stream of the route | open, choose, export, close; stream a chunk | a dialog closed and opened while it exports, rows that arrive while the route pages | a file holds what was asked for, once |
| Browser workers | `lib/workers/*`, `useEventTranslator.ts`, `chunkLoader.ts` | index, pending promises, chunks | build, search, translate | crossing builds and batches | answers belong to their request |
| Toasts | `lib/hooks/use-toast.ts` | list, timers | show, dismiss, remove | timers of earlier toasts | goes for a cause |
| Single-process server, shadow state, API keys, telemetry | `server.ts`, `lib/shadow-state`, ... | - | - | - | not modelled, see section 8 |
| CLI, scripts, preferences, layout | `cli`, `scripts`, `components` | - | - | - | not modelled |

How they interact. An ingestion source (the polling indexer, the captive core or a
Horizon stream through the pool) calls an `onEvents` or `process` callback; that
callback translates events and writes them to the database (persistent indexer), or
publishes them to Redis and dispatches webhooks (the worker). The realtime server
subscribes to Redis and broadcasts to browsers, whose live feed reconnects on its
own. Outgoing calls can go through the resilient client, which composes the token
bucket and the circuit breakers. Bull jobs run reconciliation, and cron schedulers queue it
and start retention, over the same database. The dashboard and the other pages
read that database through the REST and GraphQL routes, and translate, search and verify
in the browser.

## 2. Modules and the code

Node.js runs one callback at a time. An action is one synchronous stretch of code,
from one `await`, timer or event to the next; the order in which pending
continuations run is left open. Operators keep the names of the functions they
translate.

| Module | Models | State and actions |
|---|---|---|
| `KeyedChannel` | what the pool promises | per key the set of the items that wait and of the one in process; `Accept`, `Serve` |
| `IngestionPool` | `createIngestionPool` | `queues`, `processed`, `failed`, `running` are the closure's variables; `consumer` says where each consumer loop stands, `producer` who awaits backpressure; `Enqueue`, `Resume` (the waker's continuation), `Succeed`/`Fail` (the `finally` and another turn of the loop), `DrainCall`, `StopCall`/`StopConsumers`/`StopDone` (the three stretches of `stop`). `Channel` is `KeyedChannel` under the mapping that reads what waits for a key (`KeyPending`) and what is in process of it (`KeyActive`) out of the queues and the consumers |
| `EventIndexer` | `startEventIndexer`, `fetchEventsWithRetry`, the response cache and the file state store | `phase` is what the poll loop awaits; one action per outcome of each await (`LookupHit`, `FetchRetry`, `HandlerThrows`, `SaveFails`, ...) |
| `PersistentIndexer` | `startPersistentEventIndexer`: extends `EventIndexer` with the handler that stores a batch | `rows`, `dlq`, `dbCursor`; `PersistBatch`, `PersistCrash` |
| `HistoricalIngester` | `ingestHistoricalRange` | options as variables fixed by `Init`; `FetchOk`, `FetchRetry`, `ChunkFails`, `ChunkHanded`, `Complete` |
| `CaptiveCore` | `startCaptiveCoreIndexer` over stdio with a state store | one `stage` per call of `launch()`; frames in `handling`; `fail` and `FailEnds` are the two halves of `fail()` around its archive |
| `BreakerState` | the breaker's record and `transitionTo`, `recordSuccess`, `recordFailure`, `disposeBreaker` | no variables: shared by the next two |
| `CircuitBreaker` | one breaker, its callers, timer, fallback and manual controls | `execute` is `CallThrough`/`CallFallback`, then `Succeed`, `Fail`, `FailOther` |
| `TokenBucket` | `createTokenBucket` | tokens in tenths, so that a 100 ms tick adds whole numbers; `acquire`, `tryAcquire`, `refillTokens`, `dispose` |
| `ResilientClient` | `createResilientClient`: `TokenBucket` composed with one `BreakerState` record per endpoint | `Acquire`, `Admitted`, `Send`/`Skip`, `Succeed`/`Fail`/`FailOther` with `MoveOn` |
| `RingBuffer` | the queue of one partition | `buf`, `head`, `tail`; `EnqueueItem` with `grow`, `DequeueItem`; a history `fifo` is what it should hold |
| `EventPublisher` | `RedisPublisher` and `handleEvent` | `publishQueue`, running `flushes`, messages `sending`; `Ready`, `Loss`, `HandleEvent`, `TranslateFails` (what cannot be translated or written as JSON is counted and not published), `Published`/`PublishFails`, `FlushSend`/`FlushFails`, `Unanswered` (Redis published, the answer was lost, and the client sends the command again), `Stop`; a flush is the rest of the queue it took and whether its first message is sent, so the places of a message can be counted |
| `Webhooks` | `dispatchWebhooks` and the routes that register and deactivate | `FindSubscriptions` reads the active subscriptions, `StartDeliveries` starts what was read (`toStart`); one record per running delivery; `PostFails` (with or without a receipt, `taken`), `PostSucceeds`, `RecordFailure`, `Deactivate` |
| `Reconciliation` | the scheduler with its configuration, the queue of reconciliations, the run as far as it gets, the log | `UpdateConfig`, `ReadConfig`, `Schedule` are the stretches of `updateReconciliationConfig`; `CronTick`, `CreateJobRow`, `AddJob`; a job is where its run stands: `Start`, `Flag`, `JobFails`; `FailedHandler` runs afterwards; `ProcessExit` |
| `Retention` | first half: the archiver; second half: the pruner | rows, file of each day, overlapping runs, and of each run what became of its file (`whole`, `garbled` by another run, `gone`), also after its end; `OpenFile`, `ReadOldBatch`, `EndFile`, `DeleteBatch`, `RunFails`; `Fetch`, `FetchFails`, `Archive`, `Delete`, `BatchFails` |
| `Bridge` | the EVM indexer, the Stellar listener and the matcher | numbered tasks with the set of logs they have to store, rows, matches, cursors; `StartPolls`, `CreateRow` (a first log in chain order), `Find`, `Link`, `MarkUnmatched`; a poll that has handled a log ends with an error, since publishing it throws; `TaskFails`, `ExpiryFails`, `IndexerDies` between any two calls |
| `LiveFeed` | the decoupled server, and `useLiveFeed` at the other end of each socket | sockets with both ends and what is on its way; `Open`, `Connection`, `Broadcast`, `OnMessage`, `OnClose`, `Reconnect` |
| `SlidingWindow` | the three limiters | a request reads the clock (`Request`) and is judged later (`AuthCheck`, `IpCheck`, `ApiAdd` ...) |
| `SandboxRunner` | `WasmSandboxRunner` | phase, timer and thread of each execution; `Timeout`, `Answer`, `OnError`, `OnExit` |
| `Dashboard`, `BridgePage`, `BrowserWorkers`, `Panels`, `Exports`, `IpfsOffload` | pages and hooks of the browser with the routes they call | requests under way are part of the state; an answer is an action of its own, and so is what follows it in a later turn of the page: `FallBack` shows the first page of mock events, `ReceiveMock` the page the route answers when its database fails; a component renders (`MountToaster`) and listens later (`Listen`) |
| `GraphQL`, `ColumnStore`, `Blueprints` | stores behind the API and in `localStorage` | resolvers, back-fills and tabs take turns at every await; the server of `ColumnStore` answers an insert when it has queued it (`InsertReturns`), and writes or loses what it queued later (`ServerWrites`, `ServerLoses`) |
| `SecureParser`, `ContractDecoders`, `XdrDecoders` | decoding | values are trees with sizes; the functions of the code are operators, compared with a definition by paths, versions or distances. `XdrDecoders` has the frames and scalars of the captive core, and the native decoder with its TypeScript fallback: `getNative`, `decodeTopics`, `batchDecode`; `BuildNative` puts the binary in place or removes it |
| `DagBuilder`, `SorobanDsl`, `InclusionProof` | the engines | the input grows by a step, and the result is compared with a reference: the host's calls, a grammar, the integers, the ledger |
| `Application` | what the run of the pages and stores checks and the theorems state | no state of its own: it conjoins the properties of the modules above |
| `MC*` | instances for TLC | constants. `MCServices` and `MCApplication` are sums: the variable `part` picks the component a behaviour is about |
| `*Proofs` | theorems about the module in their name, in `IngestionPoolProofs` about `RingBuffer` as well; `ResilienceProofs` about `CircuitBreaker`, `TokenBucket` and `ResilientClient`, `ServicesProofs` about `SandboxRunner`, `Webhooks`, `Retention`, `LiveFeed`, `SlidingWindow` and `EventPublisher`, `ChainReadersProofs` about `HistoricalIngester`, `Reconciliation` and `Bridge`, `PagesProofs` about `Dashboard`, `BridgePage`, `BrowserWorkers`, `Panels`, `IpfsOffload` and `DagBuilder`, `StoresProofs` about `ColumnStore`, `GraphQL` and `Blueprints` | see section 5 |

Definitions whose comment starts with "Regression:" are not part of any
specification. Each is a plausible bug in the definition that follows it, kept to
show that the properties notice it: put in place of that definition it makes a
listed property fail (`PROJECT.json`, "mutants").

The actions of the environment are the network that closes ledgers, processes that
crash or hang, the clock, the health of an upstream, calls of a database or a node that
are rejected, a Redis connection that is lost, users that navigate, and chains that
produce blocks.

Data is kept as far as a property tells it apart. A hash is a constructor, so equal
hashes are equal contents; a character is its class; a byte of a length or of LEB128
holds two bits, and words of integers are 32 wide at most; a payload of a contract value
is its kind, its size and its items.

## 3. Runs

A run checks few properties, each a conjunction of named parts; the parts are given in
brackets, without the type invariant, which is one of them.

| Run | Configuration | Properties | What it shows |
|---|---|---|---|
| `pool` | two consumers, two producers, keys `a` and `c` sharing a partition, threshold 1, three items, a drain and a stop | `PerKeyOrder`, `NoItemLost`, `PromisesKept` (`Backpressure`, `DrainSound`, `StopSound`), `ImplementsChannel`, `EverythingSettles` (`EveryItemSettles`, `ParkedReleased`, `StopReturns`) | The pool implements one FIFO per contract. `drain` and `stop` resolve neither too early nor never, even when items arrive between the drain of `stop` and the clearing of the flag. |
| `indexer` | three ledgers with events, one retry, one crash, state store, expiring cache | `IndexerSafety` (`NoEventSkipped`), `SavedNeverRegresses`, `IndexerProgress` (`StopEndsLoop`, `EveryEventDelivered`) | Failures of the fetch, the handler or the save, stale cached answers and a crash at any await cause repeated deliveries only. |
| `indexer_cache_forever` | Redis without a time to live | `EveryEventDelivered` is violated | At the tip the cached answer is served again for ever; see section 7. |
| `persistent` | a crash in the middle of a batch, write errors, a ledger without events | `PersistenceSafety` (`ResumeCoversUndelivered`, `HealthyComplete`), `EveryEventStored` | The database cursor is behind what was handed to the store; with a working database every event is stored or filed as a dead letter. |
| `persistent_loss` | write errors, no crash | `CursorAfterPersistence` is violated | A swallowed write error lets the cursor pass an event that is nowhere; see section 7. |
| `backfill` | every range, chunk size and tip over four ledgers, one retry | `BackfillSafety` (`CompleteCoversRange`, `FailureStops`), `IngestEnds` | A completed back-fill covered its range, chunk by chunk. |
| `breaker` | three concurrent calls, thresholds 2, delays 1 to 3, fallback, two manual interventions | `BreakerSafety` (`TimerIffOpen`), `OpensProperly` (`TripsOnThreshold`, `BacksOff`), `Recovers` | Answers that arrive after the circuit has changed state never leave it stuck open. |
| `client` | three calls, two endpoints, a bucket of one token with one waiter | `BackupsInOrder`, `EndpointsApart` (`BlameIsOwn`, `EndpointRate`), `ServedInTurn` (`NoBarging`, `RateBound`), `EveryCallSettles` | Failover goes through the endpoints in order, errors count against the endpoint that made them, and dispose leaves no call hanging. |
| `captive` | two ledgers, two failures, two frames at once, one crash, one restart without a frame | `SupervisionSafety` (`NoSilentGap`, `NeverAbandoned`), `RestartsAndStops` (`EveryLedgerReceived`, `StopWindsDown`) | Overlapping failures, stale timers and frames of a replaced core leave no ledger out silently, the supervisor never waits for nothing, and a stop lets end what is under way and adds nothing. |
| `services` | one component at a time of `MCServices`, below | `RealtimeSafety`, `ReconciliationSafety`, `RetentionSafety`, `PrunerSafety`, `BridgeSafety`, `LimiterSafety`, `RingSafety` | The services around the database. |
| `ipfs_route` | the fields of events and their way through the IPFS node and back, alone | `StoredContentResolves` is violated | The route resolves none of the texts the node holds, though nothing failed; see section 7. |
| `application` | one component at a time of `MCApplication`, below | the ten `...Safety` properties below, `StepsHaveCause`, `WaitingEnds` | What runs in one process or one tab. |

The parts of `services`:

| Property | Parts | What they say |
|---|---|---|
| `RealtimeSafety` | `IpCountExact`, `SentInOrder`, `OneSocket`, `NeverStalls`, `ShownOnceInOrder` | A rejected connection is neither counted nor subtracted. A feed has one socket at most, a feed that is on has one or a timer, and it shows what its sockets received once and in order. |
| `ReconciliationSafety` | `TasksFollowConfig`, `RunsAreFlagged`, `AttemptsRunOut`, `StatusShowsNothing` | Unless requests overlapped, one cron task ticks at most, and none while the scheduler is disabled. Each run of a job left its entry in the log, unless a call failed or the process ended; a job ends with its last attempt or its second stall. No row is ever moved by a run: the status route shows nothing. |
| `RetentionSafety` | `PurgedIsArchived`, `PurgedWasOld`, `LossNeedsCause` | A deleted row was old and is in an archive, unless another run of the same day opened or wrote to the file, be it over by then or not, or an error of a run of the day removed it. |
| `PrunerSafety` | `DeletedIsArchived`, `NeverTurnsBack`, `LeftOnlyPassedOver` | A cycle leaves only rows of failed batches and rows whose id was passed, and it ends; only a cycle whose look-up failed leaves others. |
| `BridgeSafety` | `NoPairMissed`, `OneMatchEach`, `LinkNamesRow`, `NoLogPassed`, `FirstLogOnly`, `BurnStoredOnce` | Whatever tasks overlap, a pair finds itself, unless a call failed; rows may be matched twice only by events handled at once. The cursor never passes a log, since publishing its first one fails every poll of a chain: that log is stored again each time and no other ever. A burn on Stellar is stored once unless calls overlap. |
| `LimiterSafety` | `WindowLimit`, `InstantLimit`, `RetryFindsRoom` | No window holds more than the limit unless a request was overtaken; the API key limiter bounds instants, since requests of one instant are one member of its set. |
| `RingSafety` | `RingIsFifo`, `SlotsAreReleased`, `CapacityIsPowerOfTwo` | Wrapping and growing keep the order. |

The parts of `application`:

| Property | Parts | What they say |
|---|---|---|
| `PublisherSafety` | `ExactlyOnceUnlessRejected`, `RejectedIsKept`, `QueueBound`, `CountedOnce` | The worker's messages survive losses of the connection, during a flush as well; one is published again at most once for each loss that took the answer. What cannot be translated counts as an error and is not published. |
| `WebhookSafety` | `DeliveryAccounted`, `DeactivatedForCause` | What is owed to a subscription that was read as active has to start, is under way, has one row, or was ended by a fault, whatever goes off meanwhile; the receiver takes an event at most once per attempt, and after a success no more. |
| `SandboxSafety` | `FirstAnswerDecides`, `NothingLeftRunning` | Time-out, answer, error and exit in any order. |
| `DagSafety` | `NodesFormTree`, `StackFollowsHost` | The builder against the calls of the host. |
| `DslSafety` | `TokensTileSource`, `RefusedForCause`, `ParsesGrammar`, `LimitIsBrackets`, `ExactOrRefused`, `AmountKeepsValue`, `BudgetCountsNodes` | Lexer, parser and evaluator against lexemes, a grammar and the integers. |
| `BrowserWorkSafety` | `ShownInSequence`, `DoneIsWhole`, `StuckOnlyInSilence`, `AnsweredFromOwnIndex`, `PendingIsOnItsWay` | Batches and requests that cross. |
| `PagesSafety` | `SettledShowsUrl`, `FilterKept`, `InputShowsUrl`, `ButtonsArePages`, `ListedOnce`, `MissingAreTies`, `ShownIsLookedAt`, `ShownIsActive`, `ClosedWillGo` | The page shows what was asked for last. |
| `StoresSafety` | `SchemaIsCurrent`, `FreshRowsAreOwn`, `AnswerWithinComplexity`, `ColumnStoreSafety` (`RowsInOnePlace`, `SuccessAloneIsHandedOver`), `BlueprintsSafety`, `FieldsRecoverable` | What is stored is what was written, once; a back-fill that succeeded alone has handed over all its rows, written or not. |
| `DecodersSafety` | `AcceptedIffFits`, `MetricsAddUp`, `EntriesAreWhole`, `CachedIsOfAVersion`, `CallsAreCounted`, `StructIsWhole`, `FramesAreMessages`, `EventsFoundOnce`, `ScalarsAreThemselves`, `RefusalHasCause`, `ReadingTellsValues`, `ReadingIsStable` | What is decoded is what the payload says. A cached map of types is of a version of the contract; one whose section the parser refused is empty. |
| `ResultsSafety` | `VerdictIsRight`, `ProofSetIsWhole`, `AuditBindsEvents`, `HitsAreConjunction`, `LinksHaveEnds`, `ValIsMentions`, `FilterNarrows`, `ExportSafety` (`StreamIsWhole`, `FileReadsBack`, `ExportEnds`), `SelfCostIsOwn` | What is computed over a whole ledger, index, list or tree: a verdict is about the whole ledger, an audit about its events; hits hold every word; a file holds what was asked for and reads back; the costs of a call are its own. |
| `StepsHaveCause` | `GoesForCause`, `FilterRestartsPages` | What a step may never do: remove a toast that was not dismissed; change a filter and stay on its page. |
| `WaitingEnds` | `QueueDrains`, `RunSettles`, `PageArrives` | Liveness of the publisher, the sandbox and the dashboard. |

No run uses symmetry: liveness is checked in many, and the interesting keys,
partitions and endpoints are not interchangeable.

Bounds, and why they are enough:

- `pool`: `MaxItems` 3 lets one partition hold an item in process, one queued and one
  that arrives meanwhile; two keys on one partition tell order per key from order per
  partition; threshold 1 with two producers lets both be parked, the largest overshoot.
- `indexer`, `persistent`: three ledgers give a first batch, an overlapping one and a
  batch after the crash. One crash suffices for one lost update; the theorems cover
  any number for `NoEventSkipped` and `SavedNeverRegresses`.
- `backfill`: four ledgers and chunks of one to three give one to four chunks, with and
  without a short last one; a start of 0 and reversed ranges exercise the rejections.
- `breaker`: three calls are one more than the threshold, so an answer can be late for
  the opening the other two caused; delays 1 to 3 include a doubling and the cap.
- `client`: capacity 1 and a queue of one make every outcome of `acquire` happen within
  three calls; ticks stop being counted at three, not being taken.
- `captive`: a launch can outlive its successor's timers with two failures; two frames in
  flight give an overtaking save (about 600,000 states); one more ledger or failure makes
  it too long to run with every change.
- `services` (1.3 million states): three sockets of one client against a limit of one give
  a rejected, a replaced and a live one; two calls that switch the scheduler, so that they can
  cross; two jobs of two attempts that share a range of ledgers, and one failing call or end of
  the process at any place; two archive runs in two days of two ticks and one failure;
  two cycles over rows whose ids and times disagree, a failing batch or look-up; a burn that
  agrees with two mints on a chain polled a block at a time, beside another chain, one fault
  and at most three rows of events (`MaxRows`), so that the first log of a chain is stored
  again; a window of three ticks with a limit of two and four requests; a ring buffer of four
  slots that grows twice.
- `application` (300,000 states): a queue of one and three messages with two losses; three
  dispatches to one subscription with two attempts, which can all be read before the first
  deactivates it; three executions of two modules, one refused; two navigations over pages of
  one row, with mock events as well; one component that renders the toasts and listens later;
  batches on both sides of the thresholds; two exports of a row at a time, with and without a
  start ledger; two sets of documents and queries that ask for all, some or none of their
  words; a pool of four addresses under two requests; a type section and a value that are
  refused; three back-fills that share a buffer of two rows; values and limits that straddle
  each other; sources of four characters and streams of seven tokens over all kinds of
  tokens; expressions of four nodes over the integers -12 to 11 and a budget of four;
  ledgers on both sides of the limit of transactions; calls of up to two texts in each
  encoding, before and after the binary appears or goes.

Counters that the code only compares with a threshold stop at the threshold
(`BreakerState`). Other bounds are constants named `Max...` and appear in guards of
the environment or of callers, never in the guard of a reaction of the code, with
two exceptions in `CaptiveCore`: `MaxFailures` bounds failures, and
`MaxInFlight` the frames handled at once.

The two sums compose components that share no state in the code, in order to check them
in one run; nothing is concluded from that composition. Components that do share state
are composed in their modules: the server with its feeds, the node with the matcher and
all its chains, the bucket with the breakers, two limiters with one store, tabs with one
`localStorage`, back-fills with one buffer.

`CHECK_DEADLOCK FALSE` is set where the system may really stop: an indexer that was
stopped or whose state cannot be loaded, a client whose calls have all settled, a
supervisor that was stopped or has given up, and a component of the sums whose users,
chains and clients are done.

## 4. Fairness

Weak fairness stands for "the event loop runs a ready continuation, a timer fires, an
awaited call settles". Nobody is obliged to enqueue, call, stop, or close a ledger.
What is assumed beyond that, or only there:

- `EventIndexer`: strong fairness of `FetchOk` and `HandlerReturns`. The code retries for
  ever, so liveness can only be promised if what is retried for ever succeeds at last.
- `PersistentIndexer`: strong fairness of `FetchOk` only. The database may fail for ever;
  then `dbFailed` excuses the property.
- `CircuitBreaker`: strong fairness of `Succeed`, enabled only while the upstream is
  healthy: a healthy upstream does not answer every call with an error of its own.
  `Recovers` also needs callers that go on calling.
- `CaptiveCore`: a core that is alive sends its next frame (`Hang` and `Exit` end that),
  and when none is alive the silence lasts until a heartbeat notices.

- `EventPublisher`: `Ready`, and the steps of a flush and of a call under way. Redis may stay
  away for ever only by giving up.
- `SandboxRunner`: every execution takes its steps; a hanging module is ended by its timer.
- `Dashboard`: requests under way are answered or fail, effects run. Navigation is not fair,
  so `PageArrives` speaks of the last one.

## 5. What is proved

TLAPS proves the following for every value of the constants that satisfies the named
assumptions of the modules. These give the constants their types and finite sets of
processes, and say that capacities, thresholds, windows and delays are positive, and that
what the code holds in arrays is a list. Three
assumptions say more, and each only of a bound or of a configuration:
`SlidingWindowAssumption` lets the clock, which starts at `Window`, get as far
(`Window <= MaxClock`); `BridgeAssumption` lets a chain end no earlier than it began;
`RetentionAssumption` and `BridgeFeedAssumption` number rows by age, which is how the archiver
and the list of the bridge read them. `ColumnStoreAssumption` takes a row for what
one back-fill got from the node at one place, so what two of them get are two rows.

| Theorem | Statement | Inductive invariant |
|---|---|---|
| `IngestionPoolProofs!TypeCorrect` | `TypeOK` | itself |
| `OrderCorrect` | `PerKeyOrder` | `OrderInv` |
| `DrainCorrect`, `StopCorrect` | `DrainSound`, `StopSound` | `CountInv` |
| `BackpressureCorrect` | `Backpressure` | itself with `TypeOK` |
| `PromisesCorrect` | `PromisesKept` | from the four above |
| `NothingLost` | `NoItemLost` | `PlaceInv` |
| `ImplementsChannelSteps` | `ImplementsSteps`: each step of the pool is one of `KeyedChannel` or none | `CountInv`, before and after the step |
| `RingCorrect` | `RingSafety` of the ring buffer | `RingInv` |
| `EventIndexerProofs!IndexerTypeCorrect`, `NothingSkipped` | `TypeOK`, `NoEventSkipped` | `IndexInv` |
| `IndexerSafe` | `IndexerSafety` | from the two above |
| `SavedProgressKept` | `SavedNeverRegresses` | from `IndexInv` |
| `PersistenceCorrect` | `PersistenceSafety` of the persistent indexer | `PersistInv` |
| `ResilienceProofs!BreakerTypeCorrect`, `TimerCorrect` | `BreakerTypeOK`, `TimerIffOpen` | `BreakerInv` |
| `TripCorrect`, `BackOffCorrect` | `TripsOnThreshold`, `BacksOff` | from `BreakerInv` |
| `BreakerSafe`, `OpeningCorrect` | `BreakerSafety`, `OpensProperly` | from the four above |
| `ResilienceProofs!BucketTypeCorrect`, `RateCorrect` | `BucketTypeOK`, `RateBound` of the bucket | themselves |
| `FirstComeFirstServed` | `NoBarging` | `OrderInv` of the bucket |
| `ServiceCorrect` | `ServedInTurn` | from the two above |
| `ClientImplementsBucket` | `CSpec => Spec` of the bucket | step simulation |
| `ClientServedInTurn` | `ServedInTurn` of the client | from `ServiceCorrect` and the step simulation |
| `FailoverInOrder` | `BackupsInOrder` | `VisitInv` |
| `EndpointsKeptApart` | `EndpointsApart` | `ApartInv` |
| `CaptiveCoreProofs!SupervisionCorrect` | `SupervisionSafety` | `CoreInv` |
| `StopCorrect` | `StopWindsDown`, a property of steps | from `CoreInv` |
| `ChainReadersProofs!BackfillCorrect` | `BackfillSafety` | `IngestInv` |
| `ReconciliationCorrect` | `ReconciliationSafety` | `RecInv` |
| `BridgeCorrect` | `BridgeSafety` | `BridgeInv` |
| `ServicesProofs!SandboxCorrect` | `SandboxSafety` | `SandboxInv` |
| `WebhooksCorrect` | `WebhookSafety` | `HookInv` |
| `ArchiveCorrect` | `RetentionSafety` | `ArchiveInv` |
| `PrunerCorrect` | `PrunerSafety`, of states and steps | `PruneInv` |
| `RealtimeCorrect` | `RealtimeSafety` | `ClientsInv` |
| `LimitersCorrect` | `LimiterSafety` | `LimitInv` |
| `PublisherCorrect` | `PublisherSafety` | `PubInv` |
| `PagesProofs!DashboardCorrect` | `SettledShowsUrl`, `FilterKept`, `InputShowsUrl`, `ButtonsArePages` | `DashInv` |
| `FiltersRestart` | `FilterRestartsPages`, a property of steps, for each filter | from `DashInv` |
| `ListCorrect` | `ListedOnce`, `MissingAreTies` | `ListInv` |
| `TranslatorCorrect`, `SearchCorrect`, `BrowserWorkCorrect` | the halves of `BrowserWorkSafety`, and both | `XlatInv`, `SearchInv` |
| `IpfsCorrect` | `FieldsRecoverable`, `ShownIsLookedAt` | `IpfsInv` |
| `DagPanelCorrect` | `ShownIsActive` | `DagPanelInv` |
| `ToastsGo`, `ToastsGoForCause` | `ClosedWillGo`, and `GoesForCause` of steps | `ToastInv` |
| `DagCorrect` | `DagSafety` | `DagInv` |
| `PagesCorrect`, `CausesCorrect` | `PagesSafety`, `StepsHaveCause` | from those above |
| `StoresProofs!ColumnsCorrect` | `ColumnStoreSafety` | `ColumnInv` |
| `GraphQLCorrect` | `SchemaIsCurrent`, `FreshRowsAreOwn`, `AnswerWithinComplexity` | `GqlInv` |
| `BlueprintsCorrect` | `BlueprintsSafety` | `BpInv` |
| `StoresCorrect` | `StoresSafety` | from the three above and `IpfsCorrect` |

The theorems about `Application` speak of its parts side by side, each under the
specification of its own component: a property of the sum is a conjunction of implications,
and nothing is concluded from the components being next to each other.

A proof module has, component by component, the invariant, lemmas about the operators, one lemma
per action, and the theorem.

Why the invariants need strengthening:

- Pool order. `PerKeyOrder` speaks of items in process only. `OrderInv` adds that a queue
  is increasing and holds items of its own partition (`QueueInv`), that the item in
  process is older than the queued ones (`CurrentInv`), and that an accepted item which
  has not settled is in one of the two (`AccountInv`). Order per key then follows
  because keys never change partition.
- Drain and stop. The code counts; the property speaks of a set. `CountInv` adds that the
  finished items number `processed + failed` (`TallyInv`), which needs that nothing
  queued or in process has finished (`HeldInv`); hence
  `outstanding = 0` means that all have settled. For `stop`, consumers leave only
  with an empty queue and after the flag was cleared (`DoneInv`). For `NoItemLost`,
  `PlaceInv` adds that the item at place `n` of a queue was the `n`-th to be accepted or a
  later one, so that a queue is never longer than what was accepted.
- Refinement. Items are numbered in the order of their arrival, so a channel of `KeyedChannel`
  is the set of the numbers that wait, served from the least. A turn of a consumer loop ends
  one item and takes the next, of the same contract or of another of its partition: `Serve`
  does both. That the head of a queue is the oldest item of its contract needs `QueueInv`; that
  a contract has nothing in process when its next item is taken needs that only the consumer
  of its partition ever holds it (`CurrentInv`).
- Indexer. A batch is everything from the cursor to `latest`, so the cursor may move to
  `latest` after a delivery provided `latest` is not below it, which holds for cached
  answers as well (`BehindTip`). `SaveInv` relates the saved cursor to the one in memory
  while a save is pending. `PersistInv` adds that what lies
  below the cursor in the database was delivered, and that what was delivered has a row or a
  dead letter unless a write failed (`DbInv`).
- Breaker. `TripsOnThreshold` compares the code's counter with the history of failures
  recorded while closed: `CountInv` says that the counter never exceeds it in `CLOSED`.
  `BacksOff` needs that the stored back-off is the last delay (`WaitInv`) until a success.
- Bucket. A new call may take a token at once only because nobody waits while a whole
  token is there (`DryInv`); the queue holds exactly the waiting calls in order
  (`QueueInv`).
- Client. An endpoint is left behind only once it refused or failed the call, and a call
  that reached an endpoint was granted its token (`AdmittedInv`). That no endpoint is
  blamed for another's errors needs that a breaker counts no more than the errors its own
  endpoint made, and is not `CLOSED` only after a threshold of them (`BlameInv`); the rate
  needs that a request is sent by a call that took a token (`SentInv`).
- Captive core. A ledger is passed once it is below the saved one, received, in handling,
  or before the next frame of some core; `CoreInv` says that a ledger is passed only when it
  was handled or its loss is known, that one about to be saved is settled (`PassedInv`), and
  that the failures which wait were counted (`FailInv`).
- Back-fill. The chunks before the head are handed over or reported (`HandedInv`), and
  chunks tile the range (`ChunksCover`).
- Reconciliation. That tasks follow the configuration holds while no two requests met
  (`SchedInv`): one at most is under way (`OneRequest`), it knows the configuration
  (`KnowsConfig`), one that is to start a task finds none (`StartsAfresh`), and a task outlives
  its permission only until the request that took it back stops it (`StopsSoon`). Of jobs,
  `JobInv` adds that a run which is about to fail is on record (`ThrownIsFlagged`), and that a
  row is what it was when it was made (`RowsPending`).
- Bridge. `NoPairMissed` holds because of the later row of a pair: it is still handled
  (`Pairs`), and a search that finds nothing means there is nothing (`EarliestOf`).
  `OneMatchEach` needs that without overlap one event is handled at a time and that
  both rows of a match under way are unlinked (`Single`). The cursor argument is `Passed`:
  a poll that has not stored a log yet has all those of its range before it, and one that has
  never comes to its cursor. It is stated for chains whose first poll begins before the first
  log (`FromStart`). `BurnStoredOnce` needs that there is one call at a time and that it has
  found no row of its burn (`Burns`).
- Sandbox. Each execution is at a stage (`StageOf`): who may still settle it, and what it holds.
- Webhooks. What is owed is in one place: to start, under way, in a row or lost (`OneCourse`);
  what each stage has behind it ties posts and receipts to the attempt (`StageKnown`,
  `Receipt`).
- Retention. What a run may delete is kept, or a listed cause took it (`RunOK`). A file that is
  being written counts for nothing until its run has ended it, and it is whole then only if
  nobody else wrote to it or opened it (`FileOK`), which is remembered of runs that are over as
  well. `Clean` says that without overlap and failures there is no such cause.
- Pruner. A short batch has all that was left after the last one (`BatchInv`), and the last
  row of a batch is not among what is left (`LeftInv`); a cycle whose look-up failed is at a
  stage of its own, about which nothing is claimed. `LastOf` and `FirstOf` exist because
  a set of rows is finite: some row has the fewest rows after it.
- Ring buffer. The properties with the types are inductive (`RingInv`). That a capacity is a
  power of two needs that there is one above every number, and the provers know of
  exponentiation only that a set of `n` elements has `2 ^ n` subsets: `PowerOfTwo` and
  `PowerExceeds` are derived from that.
- Realtime. What is on its way on a socket rises and was published (`ServerInv`); a client is
  linked to one socket, the newest, driven by it or a timer (`Linked`, `Driven`), and what it
  was shown and what it buffers are older than what is on its way (`Viewed`).
- Limiters. The store remembers whatever was admitted in a window that can still be asked for
  (`StoresRemember`), unless a request was overtaken.
- Publisher. A message has at most one place in the queue, a call or a flush (`Accounted`), which
  needs that no two flushes were begun between the same losses (`FlushesApart`). Answers that
  were lost are counted apart: each loss takes the answer of a message once, since it is in one
  place (`Resent`).
- Dashboard. At most one request may still write, and it is for the URL, or the URL is shown, be it
  by mock events of its contract (`LiveIsForUrl`); unless two changes overlapped, the URL on its
  way has the filter chosen last, and page 1 or the filters it had (`OneOnItsWay`).
- List of the bridge. The rows shown are a listing (`IsListing`): newest first, and gaps are only
  ties at the last time of a page. That needs what a page is: its rows are the newest that the
  cursor admits (`AnswerHolds`), and the cursor is the time of the last row (`CursorIsLast`).
- Translator. The hook is idle, has asked, or is loading chunks; in each of the three it is known
  where the batch is (`IsIdle`, `IsAsked`, `IsLoading`), which is what "stuck only in silence"
  speaks of.
- Search. A pending call has its message or its answer on the way, in exactly one place
  (`SearchCarried`). While no builds crossed, whatever stands in front of a query in the channel
  leaves the worker with the index that was wanted (`IndexIsWanted`, `WillFind`).
- IPFS. Each field stored so far holds its text, or points to it on the node (`StoringInv`,
  `StoredInv`); only the request for the field looked at is live (`LookingInv`).
- Panels. At most one request is live, and it is for the active transaction (`OneLive`). Ids of
  toasts count down along the list (`IdsCountDown`), so a timer finds one toast at most; who
  listens shows the store, who has only rendered may show an older one (`AllShowIt`).
- DAG. The open nodes are a path from a root (`OpenPath`): each is listed, in the children of the
  one before. `Followed` ties it to the host's open calls while no call was ignored, and then
  only the first node is a root.
- Column store. A row is in the buffer, in one insert, with the server or known to be lost
  (`RowsSound`), and with the server in its queue, its table or dropped (`ServerSound`); a full
  buffer has a request that inserts, and what one request alone sent is through the buffer
  before it goes on (`FlowSound`). Rows may repeat neither within a request nor between
  requests, which is the assumption above.
- GraphQL. A row under construction knows how many addresses were taken from the pool since
  (`since`); while they are fewer than the pool has, its slots are its own (`ResolverSound`). What
  the length of a page is counts rows, and is proved from cardinalities.
- Blueprints. The store holds, for each contract, what was last kept, once (`OnePerContract`); a
  tab's copy may be older, so that its own last upload is in it is a part of `BpInv` by itself.

## 6. Only model-checked

- Every liveness property, since the proof system does not handle `ENABLED`.
- The fairness in `ImplementsChannel` of the pool, the refinement of `KeyedChannel`; its steps
  are proved (`ImplementsChannelSteps`).
- Of `application`: `DslSafety` and `DecodersSafety`, since the lexer, the parser, the evaluator and
  the decoders are RECURSIVE operators over sources and values, and `ResultsSafety`, where what
  folds over ledgers, documents, graphs, rows or nodes give is compared with a definition of the
  whole. Each needs an induction over data that the provers cannot instantiate; TLC compares
  both sides over bounded inputs.

## 7. Where the code and its documents differ

Shown by runs:

- `lib/cache/redisCache.ts:61` caches answers without expiry unless `REDIS_TTL_SECONDS` is
  set, under a key that holds only the start ledger. The continuous indexer
  (`lib/stellar/indexer.ts:306`) then never sees a new ledger after its first poll at the
  tip (`indexer_cache_forever`).
- `lib/stellar/indexer-persistent.ts:34` says that the cursor is updated after successful
  processing; failed writes are only counted (`persistent_loss`).
- `app/api/ipfs/resolve/route.ts:5` says that a CID is resolved with or without its prefix. The
  route takes the prefix off before it calls `resolveFromIpfs` (`route.ts:38`), which asks for
  one (`lib/ipfs/offloader.ts:22`, `:50`) and answers null without it: the node is never asked,
  and no field that was off-loaded is ever shown (`ipfs_route`).

Behaviour the models contain and a reader may not expect:

- The last ledger of a batch is fetched and delivered again by the next poll, although
  `IMPLEMENTATION_ARCHITECTURE_DOCS.md:432` says otherwise; deliveries are sets here.
- `lib/stellar/historical-ingester.ts:24`: `endLedger` is not sent, so the answers to
  successive chunks overlap.
- `lib/resilience/circuit-breaker.ts:36`: a late success recorded in `OPEN` resets the
  back-off and counts towards closing. `circuit-breaker.ts:144`: after `dispose` a late
  failure can arm a timer again, which is why `TimerIffOpen` excepts disposed breakers.
- `lib/resilience/resilient-client.ts:161`: one token pays for the requests to all
  endpoints of a call, so `EndpointRate` bounds each endpoint and not their sum.
- `lib/stellar/captive-core.ts:412`: `fail()` does not look whether it is running already,
  so one core that fails twice is replaced twice and two cores send frames.
  `captive-core.ts:439`: the restart timer survives `stop()`, and so does a launch or a failure
  under way; `StopWindsDown` says that these are all. A ledger whose handlers were
  cut short by a crash can lie below the saved one, because a later ledger was saved
  first; `NoSilentGap` counts it as known to be cut short, and the code does not
  fetch it again.
- `src/worker/indexer.ts:163`: a message whose publish call is rejected counts as an error
  and waits in the queue all the same; a queue that is not empty while the connection is
  up waits for the next `ready` event. The Redis client sends commands without an answer again
  when it is back (`maxRetriesPerRequest`, line 86), so a message may be published twice.
- `lib/webhooks/deliver.ts:158`: subscriptions are read before their deliveries start, so an event
  still goes to one that was deactivated meanwhile; an attempt that is aborted after five
  seconds may have been taken by the receiver.
- `lib/reconciliation/scheduler.ts:161`: two requests that enable the scheduler at once start two
  cron tasks, of which one can be stopped; `TasksFollowConfig` excepts requests that met.
- `lib/reconciliation/engine.ts:54` calls `updateMany` with two arguments, which Prisma rejects:
  every run fails there, is logged and tried again, and the comparison after it is not reached.
  The handlers of `lib/jobs/queue.ts:69` and `:87` call it in the same form, so the rows of jobs
  stay pending, and the rejection of `:87`, which nobody handles, may end the process.
- `src/worker/evm-bridge-indexer.ts:308`: a log holds its block as a BigInt, of which
  `JSON.stringify` (line 213) makes no string, so publishing throws for every log of a chain,
  after it was stored and matched. The poll ends there, its cursor stays, and the next poll
  stores the same log again.
- `lib/db/clickhouse.ts:12`: inserts are asynchronous and not waited for; a back-fill may answer
  with success and write its cursor though the server loses its rows. The table
  (`lib/db/clickhouse-schema.sql:29`) drops rows of one event in the background; `columns` is
  the set of them. A row counts as lost in `lostRows` when its flush failed, though ClickHouse
  may have taken it.
- `lib/translator/udt-decoder.ts:191`: a section that is refused, or takes too long, gives an empty
  map of types (line 285), which is cached like any other, for ever.
- `app/dashboard/DashboardClient.tsx:131`: when a request fails the page shows mock events as page 1,
  whatever page and type the URL names.
- `lib/auth/rateLimit.ts:64`: the member of the set is the time, so requests of one
  millisecond count once.
- `lib/retention/archiver.ts:151` truncates the file of the day, and `archiver.ts:249` deletes
  it after an error, in both cases with rows that were deleted from the table before, and a
  run that is still writing writes on; `PurgedIsArchived` names these causes. `pruner.ts:107`
  orders by time and continues by id, and `pruner.ts:104` is outside the `try`: a look-up that
  fails ends the cycle.
- `lib/wasm-sandbox/wasm-sandbox-runner.ts:336`: a worker that exits with code 0 and no message
  clears the timer and settles nothing; `RunSettles` excepts it.
- `lib/workers/eventSearch.worker.ts:102`: normalising the query removes the marks and capitals
  that the parser of queries looks for afterwards, so `OR` and exclusions never act.
- `useEventTranslator.ts:77`: a small batch is appended and never clears the list; an error
  the worker reports is ignored, and the hook goes on translating.
- `native/soroban-xdr-decode/src/lib.rs:56` takes base64 without `+`, `/` or padding for hex, though
  `index.d.ts:61` of the addon admits standard base64: a symbol of four letters, 12 bytes, is
  refused. The fallback (`lib/native/xdr-binding.ts:88`) takes hex without a prefix for base64 and
  shows every value as a string. `RefusalHasCause` names both. A value of type `Error` in a
  batch looks like an entry that failed.
- The DSL: `native/soroban-dsl/src/eval.rs:292` divides the smallest integer by -1 without a
  check; an amount between -1 and 0 loses its sign; the depth limit counts bracketed
  expressions only, not unary operators or blocks.
- `lib/db/clickhouse-ingest.ts:38` throws at an event whose time is no date, after the rows of
  its batch were taken out of the buffer.
- `lib/graphql/complexity.ts:44`: a variable that is not set counts as 1 and a fragment as 0,
  so the limit is stated for literal or absent limits.
- `lib/translator/secure-xdr-parser.ts`: sizes add up along a path, so siblings share nothing.
- `src/worker/evm-bridge-indexer.ts:72` splits `chain:url` at every colon and keeps two parts,
  which cuts a URL at its scheme; the model takes chains and URLs as configured.

Taken as it is meant, since the code as committed stops there:

- `archiveBatch`, which `pruner.ts:19` imports, is not exported by `archiver.ts`; the tests
  (`lib/retention/__tests__/retention.test.ts`) show that it writes a batch or, in a dry run,
  nothing.

## 8. Not modelled

- `startHorizonStreamingIndexer` and `startResilientEventIngestion`: they use names that are
  neither declared nor imported, so there is no behaviour to translate.
- Answers cut off at an RPC node's page limit. The code never sends a cursor, so such an
  answer makes it skip events; the models assume whole answers, and the hazard is listed.
- The TCP transport of the captive core, and reading of the bytes of XDR itself, which the SDK
  and a Rust library do.
- `lib/translator/registry.ts`: building the registry raises a TypeError while the module is
  loaded, and `translateEvent` uses a name it does not declare. There is no state of it to reach.
  The worker, the dashboard, the export route, the GraphQL schema, `persistence.ts` and
  `useEventTranslator.ts` import it, so none of them starts in this commit; they are modelled as
  they run once it loads, with a translation that answers or throws.
- The webhook half of `lib/jobs/queue.ts` (lines 170-322): it reads and writes columns that
  `prisma/schema.prisma:237-263` does not declare, so its calls are always rejected.
- The comparison and the fixes of reconciliation, which no run reaches (section 7);
  `comparator.ts:48` also imports a name that `lib/stellar/client.ts` does not export. The model
  takes the processors of `queue.ts` as started by the process that runs the jobs: no file calls
  `initializeQueueProcessors`, and `startReconciliationScheduler` is called only by
  `updateReconciliationConfig`. The row of the configuration exists; without it each update is
  rejected. `app/api/reconciliation/config/route.ts:9` imports `getReconciliationConfig` from a
  file that does not export it: the request that reads the configuration fails, the one that sets
  it is modelled. A task of node-cron 3.0.3 (`package.json:80`) has no `destroy()` (`ConfigUpdated` has both
  outcomes). One process runs them.
- Calls of the database or the queue that are carried out and whose answer is lost, except those
  of the pruner and the publisher, where it makes a difference to the properties stated.
- `lib/hooks/useDashboardPrefs.ts` and `lib/shadow-state/index.ts`, which use what is not imported or
  not exported; `server.ts`, the older form of the decoupled server; the
  API keys, telemetry and the other routes, which answer a request from one query; the CLI,
  the scripts and the layout of pages.
- Output types of the GraphQL schema, reports and statistics of the services, log lines.
- `executeWasmDirect` of the sandbox, which nothing calls.
- Real time. Delays are configuration: a timer may fire at any point after it was armed.

## 9. Plan

Done, in the order of importance for "no event is lost": the pool with its abstract
channel; the indexers; the breaker, the bucket and the client; the captive core; then
publishing and webhooks, the services around the database, realtime, the pages, the stores
behind the API, the decoders and the engines.

Proofs: every safety property of the runs has a theorem except the three of section 6. What is
left needs an induction theorem with an operator as its parameter; the first to
state with one would be `VerdictIsRight` and `StreamIsWhole`, whose recursive definitions are
over lists.

To widen: the indexers' models by a page limit of the node (`lib/stellar/indexer.ts:404`), the
one hazard no property covers.
