# A verification of the MISP-TAXII connector

TLA+ modules, TLC configurations and TLAPS proofs for the services of this
repository: `otx2taxii`, `taxii2misp` and `taxii-mv-proxy`.  Everything is
translated from the source; paths below are relative to the repository.

## 1. Inventory

```
            otx2taxii                                   taxii2misp
 OTX --> ingest.py --> pending/ --> main.py --> TAXII --> main.py --> MISP
         (writer)      *.json       (pusher)    server    (walker + pool)
                                      |           |          |
                                    Redis DB0   Postgres   Redis DB1
                                    id set        MV --> taxii-mv-proxy
```

`taxii-mv-proxy` answers the manifest and object requests of `taxii2misp`
from a materialized view of OpenTAXII's database.

### otx2taxii

| component | state | operations | interacts by |
|---|---|---|---|
| OTX client (`clients/otx_client.py`) | semaphore of concurrent requests, page counter, cached pulse fingerprints in Redis | iterate subscribed pulses, fetch indicators, retry and throttle | HTTP, Redis |
| pulse decay (`services/pulse_decay.py`) | none | decide whether a pulse is too old | called by both paths |
| pulse processor (`services/pulse_processor.py`) | none | a pulse and its indicators to a list of chunk bundles with deterministic ids | called by both paths |
| ingest (`ingest.py`) | the groupings written this cycle; files in `pending/` | one cycle per interval: fetch, build, skip or write each chunk; `--reset` | files |
| outbox pusher (`main.py`) | thread pool, futures, `pushed_so_far`; files in `pending/` and `processed/` | list, cap, submit, push, move, clean up | files, TAXII client |
| TAXII client (`clients/taxii_client.py`) | Redis set `taxii_ids:<collection>` | pre-validate, push with retries, cache ids, fetch the collection's ids | HTTP, Redis |
| legacy single process (`main.py`, `process_otx_to_taxii`) | as above, without files | fetch and push in one loop | all of the above |
| `supervisor.sh` | the two children | restart a child that died | processes |
| smoke test, Redis demo, examples | none | exercise the above by hand | |

### taxii2misp

| component | state | operations | interacts by |
|---|---|---|---|
| TAXII client (`clients/taxii_client.py`) | manifest cursor, checkpoint `taxii_global_progress` in Redis, buffers | walk the manifest, fetch objects in chunks, yield batches, parse groupings | HTTP, Redis; a generator consumed by `main.py` |
| `main.py` | pool of publishing threads | per batch: filter, convert, publish, mark | all below |
| STIX processor (`services/stix_processor.py`) | none | a grouping and the batch's objects to a MISP event | converter library |
| quality filter (`services/event_quality_filter.py`) | none | drop comment-only or empty events | called per grouping |
| duplicate checkers (`services/*duplicate_checker.py`) | Redis | is there already such an event | Redis, MISP |
| MISP client (`clients/misp_client.py`) | one HTTP session per thread | add an event, publish it | HTTP |
| Redis client (`clients/redis_client.py`) | processed set, grouping hashes, mappings | mark, filter | Redis |

### taxii-mv-proxy

| component | state | operations | interacts by |
|---|---|---|---|
| `proxy.py` | a database pool | manifest pages, object pages, one manifest record | SQL, HTTP |

### What is hard

* Two otx2taxii processes share a directory with no lock: the writer replaces
  files under names that the pusher's threads hold.
* The names of chunk files hold a count of objects, not their identity.
* A push can fail with the bundle stored, or succeed with parts refused.
* The id cache and pre-validation turn a false claim into a lost object.
* Each process may die between any two steps; both restart with no memory.
* `taxii2misp` keeps a checkpoint and several marks in Redis that must agree
  with what MISP holds, and publishes from several threads.
* The proxy's cursors must neither skip nor repeat rows of equal timestamp.

### What makes each component correct

| component | correct means |
|---|---|
| ingest + pusher | every bundle staged is delivered at least once; nothing leaves `pending/` undelivered; what OTX keeps serving arrives |
| TAXII client (push) | the id cache claims nothing that the collection lacks |
| pulse processor | chunks partition the indicators; groupings refer only to what is or will be there |
| OTX client | every eligible pulse is yielded in every cycle; no thread waits for itself |
| taxii2misp walk | every object of the collection reaches some batch, through crashes; the walk ends |
| taxii2misp publish | every grouping becomes exactly one event; nothing is marked processed that MISP does not hold |
| proxy | following cursors visits each row exactly once |

## 2. Plan

Ordered by importance.  A module per component; `MC*` modules instantiate for
TLC; proofs are in modules of their own.  No module has a RECURSIVE operator.

| # | modules | models | stated against | status |
|---|---|---|---|---|
| 1 | `PulseBundles`, `TaxiiPush`, `Outbox`, `Delivery` | otx2taxii's outbox | at-least-once delivery | checked, proved |
| 2 | `MvProxy`, `PageWalk`, `ManifestWalk` | the proxy's pages, a client that follows them, `taxii2misp`'s walk | every row is handed over again and again | checked, safety proved |
| 3 | `MispPublish`, `Publication` | `taxii2misp`'s batches | publication once, of what a batch offers | checked, proved |
| 4 | `PulseDecay`, `OtxClient` | the feed, its filters and failures, the request semaphore | the feed hands over what is fresh | checked, safety proved |
| 5 | `LegacyPush` | the single-process path with its three memories | a pulse is delivered whole | checked, safety proved |

Rows 2 and 3 meet in one assumption instead of a composed module.
`MispPublish` assumes that the walk yields each batch again and again, and
`ManifestWalk!EventuallyReceived` says that the walk does: whatever stays in
the collection is in some batch again and again, row by row.  How rows are cut
into batches is left open: a batch brings a grouping with some of its
indicators or all, and what is published is what it brings (`PublishedAsOffered`).
That this is not always the whole grouping is `PublishedInFull` in section 6.
Rows 4 and 1 meet in a hypothesis: `EventuallyDelivered` of `Outbox` and
`LegacyPush` speaks of the lists that the feed goes on giving to the process.
`OtxClient` says when it does (`FallbackComplete`), which is less than it should
(`FeedComplete`, section 6): after a successful update the feed yields nothing,
and nothing is promised.

Theorems stand in a module of their own beside each component
(`OutboxProofs`, ...); what several of them need of chunks is in
`PulseBundlesProofs`, and of pages in `MvProxyProofs`.

What could come next: an abstract specification for `LegacyPush`, of which so
far only the claims of its memories are stated; the conversion of one
grouping to several events, should the converter library become available to
the service.

## 3. Modules

### PulseBundles and Outbox

`PulseBundles` has the pure part of `pulse_processor.py`: how a list of
indicators is cut into chunks, what objects a chunk's bundle has, and what its
file is called.  The ids are uuid5 hashes, so an id is represented by what is
hashed.  `PulseObjects` is what a whole pulse should bring to the collection.

`Outbox` is `ingest.py` and `main.py` around their shared directory.

| state | in the code |
|---|---|
| `otx` | the lists the OTX service has; `ReviseFeed` changes one |
| `pending`, `processed` | the two directories, an entry for each possible file name |
| `server` | ids the TAXII collection holds |
| `cache` | Redis set `taxii_ids:<collection>` |
| `writer` | local variables of `run_one_ingest_cycle`: pulse, list, chunk, groupings written |
| `reset` | a run of `ingest.py --reset`: the directory it is in, the files it has listed and not yet removed |
| `phase`, `listed`, `worker`, `pushedSoFar` | `process_outbox_to_taxii`, its futures that no thread has taken, the threads of its pool, its counter |

| actions | in the code |
|---|---|
| `StartIngestCycle`, `FetchPulse`, `EndIngestCycle` | one pass over the feed; a failed fetch of indicators answers `[]` |
| `SkipChunk`, `OpenTempFile`, `ReplaceTempFile`, `WriteFails` | one chunk: known grouping, temporary file, `os.replace`, an error that is logged |
| `StartPushCycle`, `EndPushCycle` | cleanup, listing, cap, submission; the end of the `with` block |
| `TakeChunk`, `ReadChunk`, `DiscardChunk`, `Prevalidate` | `_push_one_outbox_chunk` up to the push |
| `PushAccepted`, `PushRetried`, `PushFailed` | `add_stix_bundle` and its retries: a Status, a retry, a failure |
| `CacheAccepted`, `MoveChunk` | the id cache, and the move to `processed/`, which may raise with the file left where it is |
| `StartReset`, `RemoveFile`, `EndResetOfDirectory` | `--reset`: first what it finds in `pending/`, file by file, then the same for `processed/`; a file it cannot remove stays |
| `CacheExpires`, `CrashIngest`, `CrashMain` | Redis' TTL, `supervisor.sh` |

With `DiskMayFail`, writes, moves and removals of files may raise; each is caught
and logged where it happens.

`Delivery` is what the outbox promises: a bundle stays staged until all of it
has been delivered.  `Outbox` implements it with `staged` the contents of
`pending/` and `delivered` the server's objects.

`TaxiiPush` has what the TAXII client makes of one bundle: pre-validation
(`FilterNew`), what the server may hold after a Status or an error, which ids
enter the cache.  `Outbox` and `LegacyPush` both use it.

### PulseDecay and OtxClient

`PulseDecay` is the decision on two dates; a date is the number of a day.
`OtxClient` is the generator of the feed, the threads that fetch indicators,
and the semaphore they share.

| state | in the code |
|---|---|
| `service`, `disk` | for each pulse the day it was last modified, on OTX and in the SDK's cache on disk |
| `permits` | the semaphore of `_install_request_throttle` |
| `pageCount` | `_throttled_list_page_count` |
| `walk` | the frame of `iter_subscribed_pulses`: the pages still to list, the author at hand, the pulses yielded; `handed` and `failed` are what the caller kept and which authors failed |
| `queue`, `fetcher` | pulses submitted, and the threads in `get_pulse_indicators` |

| actions | in the code |
|---|---|
| `StartCycle`, `EndCycle` | one call of `ingest.py`'s or `main.py`'s loop |
| `RequestListPage`, `RefuseListPage`, `ListPageAnswered`, `ListPageFails` | `otx.update()`, page by page through `throttled_get`; past the page limit an empty page |
| `BeginPass`, `YieldPulse`, `EndPass`, `PassFails` | the except clause: author by author what is on disk, the limit, the recency filter of the caller |
| `TakePulse`, `AcquireOuter`, `LookUpDetails`, `AcquireInner`, `DetailsEnd`, `ReleaseOuter` | `get_pulse_indicators`, which holds a permit around an SDK call that may take another |
| `NextDay`, `ModifyPulse`, `Crash` | time, OTX's authors, `supervisor.sh` |

With `Inline` the caller is `ingest.py`, which fetches in the thread that walks
the feed; without, it is the pool of the legacy `main.py`.  A cap of
`MAX_BUNDLES_TO_PUSH` that stops the walk early is in `Outbox` and
`LegacyPush`.  `last_fetched` and the `stix_uuid` keys are written to Redis and
never read, so they are left out; so are `get_all_subscribed_pulses` and the
listings by author, which nothing calls.

### LegacyPush

`LegacyPush` is `process_otx_to_taxii` and the loop around it, used when
`ENABLE_OUTBOX_MODE` is off.

| state | in the code |
|---|---|
| `otx`, `server`, `cache` | as in `Outbox` |
| `remembered` | Redis keys `otx_pulse:<id>`, their indicators; `NoList` when there is none |
| `phase`, `known`, `queued` | the scheduler's thread, `existing_stix_ids`, submitted futures |
| `worker` | the threads of the pool in `_process_single_pulse`: pulse, list, chunks left, whether all were pushed so far, the bundle being sent |

| actions | in the code |
|---|---|
| `ReadCachedIds`, `FetchIds` | `get_existing_stix_ids` from Redis, or by a walk of the collection that may be cut short and is stored as if it were all |
| `SubmitPulses`, `EndCycle` | the submit loop with its cap; the end of the `with` block |
| `TakePulse`, `FetchIndicators`, `BuildBundles` | a pulse whose list is as remembered is left alone; chunks whose grouping is known are not built |
| `Prevalidate`, `PushAccepted`, `PushRetried`, `PushFailed`, `CacheAccepted` | one chunk; a chunk with nothing new is passed over and does not count as pushed |
| `RememberPulse` | `_cache_pulse`, when every chunk was pushed |
| `CacheExpires`, `RememberedExpires`, `ReviseFeed`, `Crash` | the environment |

### MvProxy, PageWalk and ManifestWalk

`MvProxy` has the queries of `proxy.py` as operators on a set of rows: the
manifest page with its lookahead row, the objects page, the id filter, the
record of one object.  Rows are ordered by `(date_added, id, pk)`, which is a
total order, so a row has a number, its stamp, and a cursor is the stamp of a
row.  The view itself belongs to Postgres: `Refreshes` says how a refresh may
change it.  A new or changed object gets a new row at the end; with
`LateRows`, rows of transactions that commit late appear further up.

`PageWalk` is a client that follows the cursors while the view is refreshed.
`RequestPage` is a page that was served; `QueryFails` is a query that the
database refuses, which the proxy answers with an empty page and no next cursor
(`FailedPage`).  The client cannot tell it from the end of the view; `failed`,
which is not in the code, remembers that it was one.

`ManifestWalk` is `get_all_objects_with_resource_management`.  `walker` has the
generator's local variables, `checkpoint` the cursor in Redis, `batch` what
`main.py` is working on and `received` what it is done with.  `ReadManifest`
is one manifest request with what follows from the answer (`CollectMore`,
`StartFetching`, `RetryEmptyPage`, `EndOfWalk`); `ManifestFails` and
`UnexpectedBody` are the two ways an answer can be bad; `YieldBatch` and
`SkipChunk` are one objects request; `Resume` is `main.py` asking for more;
`EndPhase` goes back to the manifest.

`lost` is not in the code: the rows of the view that were let go of, until a
later walk hands them over.  A row gets there in four ways only: it appears
late, before a cursor (`Late`); its chunk is skipped (`SkipChunk`); it is beyond
what the proxy serves of one request (`CutOff`); or it is in memory, and the
checkpoint ahead of it, when the walk breaks off (`Dropped`).  A walk that
breaks off while it still collects loses nothing, and neither does a failing
or misleading manifest answer.

### MispPublish

One batch at a time goes through `process_batch_groupings`.

| state | in the code |
|---|---|
| `main` | local variables of the main thread: the batch, the groupings still to be converted, the work units no thread has taken |
| `worker` | the threads, with the unit each has: about to search, to add, to mark |
| `events` | MISP's events, each with its grouping and attributes |
| `processed` | Redis set `taxii2misp:processed_groupings` |
| `stopping` | `shutdown_requested` |
| `excused` | not in the code: the groupings whose event or mark was lost on the way, so that no client could know better |

| actions | in the code |
|---|---|
| `ReceiveBatch` | `extract_grouping_objects` and the filter; if Redis fails, every grouping counts as new |
| `Convert` | `process_grouping`, `_fallback_conversion`, the two quality checks |
| `StartPublishing`, `TakeUnit`, `EndBatch` | the thread pool and its `with` block |
| `CheckDuplicate` | the search by name, if configured |
| `AddEvent`, `AddRefused`, `AnswerLost` | `add_event`: stored, not stored, stored without an answer |
| `Mark`, `MarkFails` | the two marks at the end of `_publish_one` |
| `RequestShutdown`, `Restart`, `Crash` | signals, and a dead process that is started again |

The conversion is the fallback, since the converter library that is installed
has none of the functions `stix_processor.py` looks for.  A grouping gives at
most one event, with the indicators its batch brings (`UnitsOf`).  An indicator
whose pattern is not of a known kind becomes a text attribute; an event of text
and comments only is not published, and its grouping is not marked.  An
indicator whose attribute PyMISP refuses (`Refused`) raises out of the
conversion, and the grouping is dropped for this batch; the event that the
handler tries instead is made of the same attributes and raises again.  A batch
without groupings gets a synthetic one, which is represented by the set of its
indicators, since its id is their hash.

`Foreign` are the names of events that MISP has from elsewhere: the search for
duplicates takes them for events of this service.  The search reads at most
twenty events with a similar name, so it may miss one that exists; that is
`SearchMayFail`, as is a search that MISP refuses.

`Publication` is what this promises when the search for duplicates works: an id
gets one event, with what a batch offers of it (`Contents`), and is marked only
then.  `MispPublish` implements it with `published` MISP's events and `marked`
the processed set.

## 4. Runs

| run | shows | size |
|---|---|---|
| `outbox_safety` | two workers, a pulse that grows, retries, writes and moves that fail, a crash: the id cache, completeness of groupings, `processed/`, and `Delivery` | one pulse of one and then two chunks |
| `outbox_faults` | one worker under every fault of the server, of Redis and of the disk: the id cache stays sound | one chunk of two indicators, stored in parts, an unreadable file, `--reset`, cleanup, expiry, a crash |
| `outbox_live` | what OTX keeps serving and the feed keeps yielding is delivered | a replaced indicator, failed fetches, failed writes, a crash |
| `page_manifest` | a manifest walk skips and repeats nothing, queries that fail included, and is complete if none failed | four objects, pages of two, eight stamps |
| `walk_safety` | the cursor and the checkpoint pass only rows that are handed over, in hand, or lost in one of the four ways | three objects, one of them revised, phases of two pages, requests of two ids of which one is served, all faults, a crash |
| `otx_feed` | cycles end, a fallback hands over all it should | two pulses of two authors, one modified and one left to get too old, two fetchers and three permits, two list pages, three days, a crash |
| `otx_silent` | **violated** – see section 6 | one fetcher, two days |
| `legacy` | what the three memories claim is on the server; what OTX keeps serving and the feed keeps yielding is delivered | one pulse of two chunks with a replaced indicator, partial walks, failing pushes and Redis, a crash |
| `walk_live` | what stays in the collection is handed over again and again, and received | two objects, one revised, all faults, a crash |
| `walk_endless` | **violated** – see section 6 | two objects |
| `publish_safety` | a marked grouping has an event of just what a batch brought of it; a second event has an excuse | two workers, three groupings with shared indicators cut over six batches, an indicator that PyMISP refuses, an event from elsewhere, two crashes or shutdowns, all faults |
| `publish_checked` | with a working search: one event per grouping, every grouping gets it, and `Publication` is implemented | the same, one crash or shutdown |

### Bounds, and why they are enough

* `MaxCrashes`, `MaxStops`: a crash forgets all memory, so what a second crash
  can add is a crash in the state after the first.  `publish_safety` has two,
  because a second event needs a loss and its repetition.
* `MaxYields` (how often one ingest cycle meets a pulse): two, the least that
  makes `SkipChunk` happen.
* `MaxPushRetries`: one retry shows a bundle that is stored and sent again.
* Chunks: a pulse that goes from one to two chunks has all that matters of
  chunk names: same index, other total.
* `MaxStamp`: room for every object and for one row that moves to the end (four
  in `page_manifest`); `OneRowPerObject` and the proofs need no more.
* `PageSize`, `Limit`, `ChunkIds`, `BatchIds`: one to three, so that pages are
  full, end at the limit, end before it, and a phase has several pages or a
  request more ids than are served.
* `LimitPerRequest` (the size of a page when the collection's ids are fetched):
  six of at most eight objects, so that a walk cut short leaves some out.
* `Permits`: three for two fetchers, since with two the cycles do not end
  (section 6, `SomeoneProceeds`); `MaxListPages`: two, as many as the pulses
  need, so that the second cycle meets the limit; `MaxDay`: two with a
  `MaxAgeDays` of one, so that a pulse nobody modifies is at the limit on the
  second day and too old on the third; `Revised`: one of the two pulses, so that
  there is one of either kind.
* `MaxEvents`: four, as many as there are things worth an event in the batches
  (two groupings that the filter lets through and two synthetic ones), and two
  for each of two of them.
* Symmetry is used for interchangeable workers and objects, and only in runs
  that check no liveness property (`page_manifest` has an action property).

### Fairness, and why the code justifies it

* Both loops of otx2taxii, and `taxii2misp`'s, are endless, and a dead process
  is restarted: weak fairness of the loops and of each thread's step.
* Each walk yields every batch again and again: strong fairness of
  `ReceiveBatch`, because crashes may interrupt any walk.  `walk_live` shows it
  of every row, for walks that the proxy serves whole.
* A remote side does not refuse the same thing for ever: strong fairness of an
  accepted push (`AcceptedFrom`, `AcceptedGrouping`), a written file
  (`ReplacedTo`), a served page (`PageServed`), served objects (`ChunkServed`),
  an accepted event (`Accepted`).  Without it nothing can be promised.
* Python's semaphore wakes its waiters in turn, so a thread that could take a
  permit again and again does (strong fairness of `AcquireOuter`,
  `AcquireInner` and the list requests); requests end, because each has a
  timeout (weak fairness of the threads' steps).
* Nothing is assumed of crashes, Redis, operators, how OTX revises pulses, or of
  the feed.  `EventuallyDelivered` has as hypotheses that OTX keeps serving a
  list from some time on and that the process is given that list again and
  again (`Fetched`, `HasFetched`).  The second is the OTX client's part, and
  the code does it only while updates fail: `FeedComplete` in section 6.

## 5. Proofs

All are checked by TLAPS for every value of the constants that satisfies the
modules' assumptions.

| theorem | says | under |
|---|---|---|
| `OutboxProofs!TypeCorrect` | `[]TypeOK` | – |
| `OutboxProofs!CacheIsSound` | `[]CacheSound` | the server takes bundles whole, or lists what failed |
| `OutboxProofs!GroupingsAreComplete` | `[]GroupingComplete` | the server takes bundles whole |
| `OutboxProofs!ProcessedIsDelivered` | `[]ProcessedDelivered` | bundles whole, a name determines a content, no unreadable file at the start |
| `OutboxProofs!GrowingFeedsKeepNames` | a name determines a content | OTX only appends to pulses |
| `OutboxProofs!GrowingPulsesAreDelivered` | `[]ProcessedDelivered` | bundles whole, OTX only appends to pulses, no unreadable file at the start |
| `OutboxProofs!OutboxDelivers` | `Outbox` implements `Delivery` | as `ProcessedIsDelivered`, and no `--reset` |
| `PulseBundlesProofs!ChunksPartition` | every indicator of a list is in one chunk and in no other | – |
| `PulseBundlesProofs!ChunksFit` | no chunk is empty or larger than the limit (the one chunk of an empty list excepted) | – |
| `PulseBundlesProofs!ChunksComplete` | the chunks together bring the identity and every indicator, and nothing else but groupings | – |
| `PulseBundlesProofs!GrowthKeepsNames` | if one list extends the other, chunks of the same name have the same objects | – |
| `MispPublishProofs!TypeCorrect` | `[]TypeOK` | – |
| `MispPublishProofs!SecondEventIsExcused` | `[]SecondEventExcused` | – (all faults) |
| `MispPublishProofs!OneEvent` | `[]OneEventPerGrouping` | the search for duplicates is on and works |
| `MispPublishProofs!MarkedIsPublished` | `[]PublishedAsOffered` | – (all faults, any batches) |
| `MispPublishProofs!PublishesOnce` | `MispPublish` implements `Publication` | the search is on and works |
| `MvProxyProofs!PageSound` | a manifest page that was served holds just the rows from the cursor it was asked for to its own, no more than the limit, and has a next cursor exactly when rows remain | – |
| `MvProxyProofs!ObjectsPageLosesOne` | an objects page with a next one loses just the row its cursor is made from | – |
| `PageWalkProofs!ManifestSkipsNothing` | `[]NothingSkipped` | the manifest endpoint (queries may fail) |
| `PageWalkProofs!NothingIsRepeated` | `[]NothingRepeated` | – (either endpoint) |
| `PageWalkProofs!ManifestCompletes` | `LastPageCompletes`, of walks in which no query failed | the manifest endpoint |
| `ManifestWalkProofs!TypeCorrect` | `[]TypeOK` | – (all faults) |
| `ManifestWalkProofs!WalkSkipsNothing` | `[]NothingSkipped` | – (all faults) |
| `ManifestWalkProofs!StaleIdsAreServed` | `[]RequestIsAnswered`: some object of a requested chunk is served, although the view has changed since its ids were read | – (all faults) |
| `OtxClientProofs!TypeCorrect` | `[]TypeOK`, with it that permits are not given back twice | – |
| `OtxClientProofs!RequestsAreBounded` | `[]RequestsBounded` | – |
| `OtxClientProofs!OnlyNestingStopsThreads` | `[]StandstillIsNested`: when no thread can go on, as many fetchers as there are permits each hold one and wait for a second | – |
| `OtxClientProofs!FallbackIsComplete` | `[]FallbackComplete` | – |
| `LegacyPushProofs!TypeCorrect` | `[]TypeOK` | – |
| `LegacyPushProofs!CacheIsSound` | `[]CacheSound` | the server takes bundles whole, or lists what failed |
| `LegacyPushProofs!RememberedDelivered` | `[]RememberedIsDelivered` | the server takes bundles whole |

The arguments:

* **The id cache.**  `CacheSound` alone is not inductive: the ids enter the
  cache from a worker that was answered earlier.  The invariant adds that what
  a worker is about to cache is on the server already; the server only grows.
* **Groupings and files.**  What a worker pushes was cut out of what it loaded
  by a cache that claims only what the server has (`PushInv`), and what it
  loaded is the content of some chunk (`ContentInv`): so a pushed grouping's
  indicators are in the same bundle or on the server.  If a name determines a
  content, the file that a worker moves is the one it pushed, even when it has
  been replaced meanwhile.
* **Chunks.**  Chunk `k` has the positions from `(k-1)c+1` to `kc`, so position
  `j` is in chunk `(j+c-1) \div c` and no other.  A name holds how many chunks
  there are and how many indicators this one has.  If one list extends the
  other, the shorter list's chunk is contained in the longer's chunk of the same
  index, and equal counts make them equal; only a list that replaces an
  indicator can give one name to two contents.
* **Delivery.**  A replaced file stages its content, a push delivers a part, a
  move retires.  Moves retire only delivered bundles, by the theorem before;
  a content staged once is in one file only (`ExclusiveInv`), so that taking
  a file away takes the bundle away.
* **A second event.**  `SecondEventExcused` needs to know where a grouping is:
  to be converted, in a unit, or with one worker, never in two of these
  (`Phases`, `Apart`).  With it: every event of a grouping that is not excused
  is marked or about to be (`Known`), and no such grouping on its way to MISP
  has an event (`Untried`).  The filter reads Redis when all workers are idle,
  which is what makes `Untried` true at the start of a batch.
* **One event.**  After a search, until the event is added, no event of that
  grouping exists (`Searched`), since no other worker has it (`Apart`).
* **Published as offered.**  A unit is what some batch offers of its grouping
  while it waits and while a worker has it, a worker that is about to mark has
  added such an event, and events are never taken away (`OfferedInv`).
* **Publication.**  An added event is the first of its grouping (`Searched`) and
  one of its contents, being what a batch offers (`OfferedInv`): a `Publish`,
  also when the answer is lost.  A grouping that is marked has its event: a
  `Mark`, or no step at all if it was marked before.  Everything else leaves
  MISP and the processed set alone.
* **Pages.**  A cursor is always the stamp of a row that was in the view, or of
  one that a newer row of the same object has replaced (`Reached`), and so is
  the stamp of every row received (`ReceivedReached`).  A refresh puts new rows
  behind every reached stamp, so what lies before one never grows.  A page ends
  at the stamp of its last row (`PageRows`), which needs that a finite set of
  rows has a last one (`MvProxyProofs`' lemmas on ranks); there are rows behind
  it exactly if the query found one more than the limit (`FirstFew`), which
  `PageSound` adds.  What was received is therefore at all times a beginning of
  the view, also when a failed query stops the client early; it is all of the
  view when the last page came from a query.  At the objects endpoint the cursor
  is the stamp of the lookahead row: the page has all rows before it, the next
  page those behind it.  Nothing is repeated at either, for cursors move forward
  and a row received is not behind the cursor (`ReceivedBefore`).
* **The walk.**  The invariant says where the rows before the cursor are in each
  phase: received while collecting, or in the buffer, the batch or received
  while fetching, if they are not lost (`CollectedSoFar`, `FetchedSoFar`,
  `AsleepSoFar`), and that a buffered row is in the view or was replaced there
  (`BufferFromView`).  The last is what makes a request answered: of the ids
  within the limits, those whose row has not moved are on the page
  (`ChunkIsServed`), since no object that ranks before them in the view was not
  asked for; and since objects change but do not go away, the first of the ids
  honoured brings at least one (`SomethingIsServed`).  The defaults (500 ids
  asked for, 200 honoured) lose rows without any fault, which is why
  `NothingSkipped` says what is lost instead of assuming that nothing is.
* **The semaphore.**  Free permits and the holders' permits add up
  (`Accounted`), where a fetcher that requests holds two.  If no permit is free
  and no holder can go on, each holder has one and waits for its second, so
  there are as many of them as permits.  With fewer fetchers than permits that
  cannot be; with the default of one permit one fetcher is enough.
* **The fallback.**  While a fallback goes through the authors, a pulse that is
  on disk, fresh, let through by the whitelist, and not of an author whose pass
  failed (`Owed`) has been handed over, is in the pass at hand, or its author's
  pass is still to come (`Pending`).  Days only make pulses stale, and a limit
  that is reached stays reached, so nothing becomes owed later.
* **The remembered pulses.**  A thread that still counts its pulse as whole
  relies on the chunks behind it being on the server, and while it pushes, on
  the part of the chunk it left out (`Delivering`).  A chunk is left out
  because its grouping is known, and a known grouping vouches for the rest of
  its chunk only because bundles arrive whole (`Closed`).

Only model-checked: the liveness properties (`EventuallyDelivered`,
`EventuallyReceived`, `EventuallyPublished`, `CyclesEnd`), which are out of
this prover's reach.  Every other property of the passing runs is the
statement of a theorem.

## 6. What the code does not satisfy

Where the code disagrees with what its documentation says, the property that
states the documentation is in the module, and TLC finds it violated.  Two
have a run; for the others, the table says how to change a configuration
(the named `.cfg`, with the property instead of its own).  Five configurations
are kept for this table alone and violate their property as they are:
`MCOutboxOverwritten`, `MCOutboxTenChunks`, `MCManifestWalkTruncated`,
`MCMispPublishSplit` and `MCOtxClientOnePermit`.

| property | the code | its documentation | configuration |
|---|---|---|---|
| `Outbox!ProcessedDelivered` | `otx2taxii/main.py:532` moves what has the name now, which `ingest.py` may have replaced since it was read | `main.py:453` "Read one chunk JSON file, push to TAXII, move to processed/ on success." | `MCOutboxOverwritten` as it is |
| `ManifestWalk!EventuallyReceived` | `taxii2misp/clients/taxii_client.py:247` asks for up to 500 ids at once, of which the proxy honours 200 (`proxy.py:759`) | `taxii_client.py:196` "(in groups of `http_page_size`, default 200)" | `MCManifestWalkTruncated` as it is |
| `ManifestWalk!WalkEnds` | `taxii_client.py:446`: after a last page with objects, the walk starts over | `taxii_client.py:524` "If the manifest walk is fully complete and we still have nothing to yield, mark complete and stop." | run `walk_endless` |
| `MispPublish!PublishedInFull` | `stix_processor.py:72` takes what the batch has, and the grouping is marked | `stix_processor.py:345` "ensures complete bundling of all indicators from a grouping before creating MISP events" | `MCMispPublishSplit` as it is |
| `Outbox!PushCapHonoured` | `otx2taxii/main.py:606` compares the cap with a counter that only changes after all chunks have been submitted | `main.py:574` "Capped by MAX_BUNDLES_TO_PUSH (None = unlimited)." | `MCOutboxOverwritten`, `Indicator = {a, b, c}`, `Feeds <- ThreeChunks`, `MaxBundlesToPush = 1` |
| `Outbox!ChunksInOrder` | `main.py:413` sorts names as text, so `__10__` comes before `__1__` | `main.py:400` "Sorted by (pulse_id, chunk_idx) so chunks of the same pulse are pushed in order." | `MCOutboxTenChunks` as it is |
| `Outbox!GroupingIdentityPresent` | the second chunk, which lacks the identity, may be stored first | `pulse_processor.py:409` "Subsequent chunks rely on the identity already being there from chunk 1." | `MCOutboxOverwritten`, `Feeds <- FixedFeed` |
| `Outbox!ProcessedDelivered` | `taxii_client.py:663` answers True for any Status, failures or not | `taxii_client.py:588` "True if the bundle was successfully pushed, False otherwise." | `MCOutboxFaults` as it is |
| `Outbox!EventuallyDelivered` | the same: what a Status refused stays away while the grouping's other objects are in the cache | the same | `MCOutboxLive`, `AtomicServer = FALSE`, `Feeds <- SingleFeed` |
| `Outbox!CacheSound` | `taxii_client.py:638`: a Status that does not list its failures counts as complete | – | `MCOutboxFaults`, `StatusListsFailures = FALSE` |
| `PageWalk!NothingSkipped` | `proxy.py:476` makes the cursor from the lookahead row, which is then never served | `taxii-mv-proxy/README.md:85` "the connector library follows our cursors just like any other TAXII 2.1 server" | `MCPageWalkManifest`, `Endpoint = "objects"` |
| `PageWalk!NoMoreIsComplete` | `proxy.py:378` answers a query that failed with an empty page and no next cursor, as it does the end of the view | `proxy.py:308` "If next_cursor is None, the walk is complete (more=False)." | `MCPageWalkManifest` as it is |
| `PageWalk!RecordFound` | `proxy.py:725` reads one row of the first page and compares its id | `proxy.py:722` "single-object manifest record" | `MCPageWalkManifest` as it is |
| `ManifestWalk!NothingLost` | the checkpoint (`taxii_client.py:509`) is written before the batch it covers is processed, and before the chunks behind it are fetched | `SESSION.md:385` "waits for the caller (`main.py`) to finish processing, then advances the cursor" | `MCManifestWalkSafety`, with `LateRows = FALSE`, `ObjectsMayFail = FALSE`, `ChunkIds = 1` (a crash is enough) or `ObjectsMayFail = TRUE`, `MaxCrashes = 0` (a failed request is) |
| `MispPublish!OneEventPerGrouping` | without the search, a lost answer or mark leads to a second event | `taxii2misp/main.py:176` "Trust the batch-level Redis filter as the authoritative dedup gate" | `MCMispPublishSafety` as it is |
| `MispPublish!EventuallyPublished` | the search compares names (`enhanced_duplicate_checker.py:150`); a grown pulse keeps its name, so its new grouping is dropped each time | `main.py:180` "rely on Redis for normal dedup ... (defence in depth)" | `MCMispPublishChecked`, `Name <- SameNames` |
| `OtxClient!FeedComplete` | `otx2taxii/clients/otx_client.py:441` is the except clause of the update, and all that yields stands in it: after a successful update the generator ends without a pulse | `otx_client.py:394` "Same logic as get_all_subscribed_pulses, but yields each pulse as it's loaded from the on-disk OTX cache" | run `otx_silent` |
| `OtxClient!SomeoneProceeds` | `otx_client.py:1105` holds a permit around a call that takes another: with one permit the thread waits for itself, and with two threads and two permits each waits for the other | `otx2taxii/config/settings.py:63` "semaphore before each OTX HTTP call. Default 1 = fully serialised." | `MCOtxClientOnePermit` as it is |
| `OtxClient!EveryCycleLists` | `otx_client.py:1036`: the count of pages is never set back, so a later cycle is refused its first page | `otx2taxii/config/settings.py:92` "Optional cap on the number of OTX list pages to walk during a single run" | `MCOtxClientSilent` as it is |
| `OtxClient!RecentNotDropped` | the recency filter sees the copy on disk, which a failed update leaves as it was | `pulse_decay.py:12` "An old pulse that is still being updated (modified recently) is still relevant and is processed." | `MCOtxClientSilent`, `MaxDay = 2` |
| `LegacyPush!EventuallyDelivered` | `check_pulse_changed` compares indicators as sets, so a list in another order, which makes other chunks, counts as unchanged | – | `MCLegacyPushCycles`, `Feeds <- ReorderedFeed` |
| `LegacyPush!RememberedIsDelivered` | a Status that refuses objects counts as pushed, and the pulse is remembered | `main.py:180` "fully pushed" | `MCLegacyPushCycles`, `AtomicServer = FALSE` |

`walk_live` shows what `NothingSkipped` leaves open: since walks start over,
what one of them loses to a fault, a later one meets.  That is so only if the
proxy honours all ids of a request (`ChunkIds` is `MaxIds` there).  An id beyond
the 200 that it honours is lost again in every walk that cuts its chunks in the
same way: `MCManifestWalkTruncated`.

## 7. Not modelled

* Of the OTX client: `_patch_session_for_real_timeout` (what a request's timeout
  is; the model has only that there is one), the listings by author, the author statistics, and
  `get_all_subscribed_pulses`, which have no caller.
* Settings, logging, the Redis command-line tool, container files, the smoke
  test and the Redis demo: no behaviour of the running system.
* `duplicate_checker.py` is imported and never constructed; most fetch methods
  of `taxii2misp/clients/taxii_client.py` and most methods of `misp_client.py`
  have no caller in `main.py`.
* The proxy's handlers run one after the other, for `root_dynamic` is an
  `async def` whose database calls block; a request is one step.
* STIX and MISP formats: an object is its id, an event its grouping and the
  indicators it has as attributes.  An event's text attributes are not told
  apart from others, except in the decision whether to publish.
* Time: timeouts are steps that may happen; sleeps are not modelled.
