# Formal models of ott-ad-pipeline

TLA+ models of the ad pipeline in this repository, checked with TLC on small
instances and, for the modules with a `...Proofs` companion, proved with TLAPS
for every value of the constants.  The models are translated from the code and
the SQL; where a document disagrees with the code the code is modelled, and a
*violation* run states the claim and shows how the code breaks it.

Contents: [1 the system](#1-the-system) · [2 modules and code](#2-modules-and-code) ·
[3 runs](#3-runs) · [4 fairness](#4-fairness) · [5 proofs](#5-proofs) ·
[6 findings and known limits](#6-findings-and-known-limits) ·
[7 what is not modelled](#7-what-is-not-modelled) · [8 plan](#8-plan)

## 1 The system

An ad request is decided by **ad-decision**, which writes the request event into
an outbox table in the same transaction as the decision; worker threads move the
table to the Kafka topic `ad.request`.  Players and servers send beacons
(impression, click, video progress) to the **collector**, which publishes them to
Kafka or, when Kafka is slow, to a fallback file.  A **Flink job** aggregates the
four topics per minute in real time, **redis-writer** serves the results; a second
Flink job **archives** every record to Parquet, **Spark** settles the archive
every night and a **reconciliation** report compares the two paths.

```
 player ── /v1/ad-request ──> ad-decision ──(tx)── event_outbox ── workers ──┐
    │                                                                        v
    └──── beacons ──> collector ────── publish ─────────────────────────>  Kafka
                          │ timeout                                    ┌────┴─────┐
                          └─> fallback-<hour>.jsonl ── replay ──> publish         │
                                                                       v          v
                                                              Flink realtime   Flink archive
                                                                │        │        │
                                                       redis-writer  late_dropped Parquet
                                                                │        │        │
                                                                └──> reconcile <── settlement
```

| component | state it keeps | operations | what is hard | what makes it correct |
|---|---|---|---|---|
| ad-decision: outbox (`OutboxWorker.kt`, `DecisionService.kt`) | `event_outbox` rows and their `published` flag, ids acknowledged in this process, gauge and counter | insert in the decision's transaction; select with `SKIP LOCKED`, send one by one, flag, commit; refresh of the gauge | competing workers, a `get(5 s)` that gives up before the producer does, rollback or death between send and flag | nothing flagged is missing from the topic; nothing rolled back is in it; each duplicate has a fault behind it; the backlog drains |
| ad-decision: campaign cache (`CampaignCache.kt`) | two references, refreshed one after the other | refresh on a timer; candidate lookup | a decision between the two assignments | a decision uses campaigns and creatives of one refresh, or tolerates the mix |
| collector: publish, fallback, replay (`EventPublisher.kt`, `FallbackWriter.kt`, `AdminController.kt`) | hourly fallback files, their `.done` copies, the pending gauge | ingest, publish with a timeout, append a line, replay the files | the timeout races the acknowledgement; a replay races appends and other replays; crashes | every event is answered; an answered event is in Kafka or can still be replayed; a replay destroys no pending line |
| collector: validation, routing, signature | none | classify one event | spellings of types and the DLQ | each type reaches the topic the aggregation expects |
| Flink realtime job (`sql/pipeline.sql`) | offsets, watermark, deduplication ids with a TTL, open windows | read, deduplicate, judge lateness, count, emit; checkpoint, restart | disorder of partitions, idle partitions, duplicates, recovery without the sinks | counted once or recorded as late; an emitted window is final; a recovery leaves no hole; windows close |
| Flink archive job (`sql/archive.sql`) | Parquet files, committed per checkpoint | copy | which records a batch can see | a prefix of each partition |
| redis-writer (`writer.py`) | consumer position and offsets; hashes per window, an index of them, counters, TTLs | upsert a window result, count late rows, keep the newest alerts; sum a range | offsets committed before the handler runs, failing handlers, crashes, redelivery, expiry, an emptied Redis | what was passed is in Redis or skipped by a fault; repeats are bounded; the sum is that of the last results |
| Spark settlement (`batch_settlement.py`) | `daily_settlement`, `minute_settlement` | deduplicate, choose one SSAI impression per request, aggregate; replace one table after the other | twins across minutes and midnight, copies, a run that dies between two statements, two runs at once | each request is billed once; a rerun replaces; the day is the sum of its minutes |
| Spark reconciliation (`reconcile.py`) | none | read Redis, a settlement table and the late rows, compare | three reads at three moments, late rows, open windows, a range that cuts a pair of twins | a residual has a documented cause |
| event generator (`emitter.py`, `users.py`, `main.py`) | buffers, delayed copies, requests under way, counters | play ads, inject anomalies, flush, pause, stop | closing while copies sleep, requests are under way and sending is paused; a decision call that times out | what counts as sent is answered once; no impression without a fill |
| tracer, player (`app.py` of each) | the newest traces or plays, an offset per partition, the shared consumer | remember offsets, send, scan the topics on every question of the page | offsets older or newer than the first record, scans cut at a deadline, two requests at once, forgotten tracks | what is shown is exactly what lies between start and offset, once |
| dashboard (`api.py`) | the last samples, the snapshot | sample Redis and Kafka, publish | reads that are seconds apart, a read that fails among others that work, a writer that commits before it handles | a lag of zero means served; the last result is shown in the end |
| schema, scripts, tests | — | topic creation, submission, smoke tests | — | — |

The components interact through Kafka (every arrow into and out of it), through
PostgreSQL (outbox, settlement, `late_dropped`), through files on a volume
(fallback, Parquet) and through Redis.  The hazards this produces are listed with
their lines in `PROJECT.json`; the properties below are aimed at them.

## 2 Modules and code

| module | models | extends / composes |
|---|---|---|
| `AtLeastOnce` | abstract specification of an at-least-once hand-over | |
| `Outbox` | `DecisionService.decide`, `OutboxWorker`, producer, broker | implements `AtLeastOnce` |
| `Decision` | `DecisionService.decide` over `CampaignCache` | composed with `Outbox`, implements it |
| `Collector` | `EventIngestService`, `EventPublisher`, `FallbackWriter`, `AdminController` | implements `AtLeastOnce` |
| `Realtime` | `pipeline.sql` and what it relies on in Flink | |
| `Reconciliation` | `archive.sql`, the SSAI choice of `batch_settlement.py`, the sums of `writer.py`, `reconcile.py` | composed with `Realtime` |
| `RedisWriter` | `redis-writer/writer.py` and what it relies on in Kafka and Redis | |
| `Dashboard` | the sampler thread of `dashboard/api.py` | composed with `RedisWriter` |
| `Tracking` | the Kafka side of `tracer/app.py` and `player/app.py` | |
| `Settlement` | `batch_settlement.py` and `reconcile.py` as processes over shared tables | |
| `Generator` | `users.py` (`one_ad`), `addecision.py`, `emitter.py`, `main.py` | |
| `CollectorProofs`, `TrackingProofs`, `SettlementProofs`, `GeneratorProofs` | theorems | extend the module |
| `OutboxProofs`, `RealtimeProofs`, `RedisWriterProofs` | theorems about `Outbox` and `Decision`; about `Realtime` and `Reconciliation`; about `RedisWriter` and `Dashboard` | extend the composed module |
| `SumTheorems` | no code: the laws of finite sums, of counting by classes and of periods | extended by the proofs that need them |
| `MC...` | one instance per module for TLC | extend the module |

A definition marked `mutant` is a plausible bug in the definition next to it.
`PROJECT.json` says which property catches which mutant; none is part of `Next`.

### Outbox

A row is its BIGSERIAL id.  `tx[r]` is the state of the transaction that inserts
it, `published` the committed flag.  A worker is a program counter (`pc`) through
`poll()` with the locals of the function: `batch` (the rows the select returned,
and locked when `SkipLocked`), `row` (loop variable), `done` (`publishedIds`),
`rep`.  `seen`, `republished` and `backlog` are the fields of the class.  `dead` are
the workers whose session the database has ended; they do not know it before their
update.  `copies` is the topic, `late` holds the sends nobody waits for any more.

| action | code |
|---|---|
| `DecideInsert`, `DecideEnd` | the insert at `DecisionService.kt:157` and the end of the `@Transactional` method: the id is assigned before the row is visible, and may never become visible |
| `Select` | `OutboxWorker.kt:125-129` |
| `StartSend`, `SendRefused`, `BrokerAppend`, `SendAck`, `SendTimeout` | the loop at 131-141; `get(5 s)` gives up while `delivery.timeout.ms` (10 s) still keeps the record |
| `FinishEmpty`, `FinishUpdate`, `FinishSkip`, `FinishRollback`, `FinishDead` | 142-168: nothing to flag, the batch update, `update-fail-rate`, a failing update or commit, an update on a connection that is gone; all share `EndPoll` (clearing `seen`, the counter, the unlock) |
| `ConnectionDrops` | the database ends the session in the middle of `poll()`: rolled back and unlocked at once, while the loop goes on sending |
| `LateAppend`, `LateExpire` | the producer after the caller has gone |
| `RefreshBacklog` | 170-186 |
| `Crash` | the process dies; open transactions roll back, batches are unlocked |

`Rejected` rows are those the producer refuses each time (too large): they end the
batch and, since the select is ordered by id, come first again in the next.

### Decision

The cache is `cache` and `creatives`, two references read without a lock; `fetched`
and `refresh` are the locals of a refresh.  A request thread is `dpc[q]` with the
locals `campaign`, `creative`, `reason`; `rowOf[q]` is the row it inserts and
`payload[r]` what is in it.  A creative is named by its campaign.  Every read of a
reference is a step of its own, since a refresh can come between any two.

| action | code |
|---|---|
| `EditCampaign` | someone changes `campaigns.active` |
| `Fetch`, `SetCache`, `SetCreatives` | `CampaignCache.refresh`: the query, `cache.set`, `creatives.set` |
| `Begin`, `ByPreference`, `Draw`, `Reason`, `Creative` | `decide`: `wantFill`, `byId`, `pick`, `size() == 0`, `creativeFor` |
| `InsertRow`, `InsertFails` | the insert with the decision as payload: `DecideInsert` of `Outbox`; or its exception |
| `EndDecide`, `Answer` | the end of the transaction: `DecideEnd` of `Outbox`, with or without the caller knowing; the response |
| `OutboxStep`, `DCrash` | the workers and the broker; the death of the process, which empties the cache too |

`wanted` and `replaced` are history: the requests that were to be filled, and those
under which the cache was replaced since they drew from it.

### Collector

`sending`, `appended` and `spilling` are the publishes under way, each an `Op`
(by whom, event, line number).  `file[h]` and `done[h]` are the lines of
`fallback-<h>.jsonl` and of its `.done`.  `rpc`, `todo`, `cur`, `snap`, `rest`,
`ok`, `failed`, `total` are the locals of a replay.  A publish runs through
`BrokerAppend` and `Ack`, or `PublishFails` (at any of these points) and
`SpillWrite` / `SpillLost`; `Complete` hands the outcome to the client or to the
replay that called.  The producer has `acks=1` and one retry without idempotence,
so one send may append twice.  A replay is `ReplayStart` (list of files),
`ReplayRead` (`readAllLines`), `ReplaySend` per line (at most `Concurrency`), then
`ReplayKeep`, `ReplayError`, or `ReplayCheck` and `ReplayRename` for the file, and
`ReplayEnd`.  The last two are `Files.move` without `REPLACE_EXISTING`: it looks
whether both names are as they should be and then calls `rename(2)`, which would
replace its target; other replays and appends fall in between.  History: `missed`
are lines that were renamed though no replay had read them, `overwritten` lines of a
`.done` that a rename replaced, `overtaken` the replays about to do so.
Validation and routing are the constant `Invalid`: the event goes to the DLQ
through the same publisher and is answered as invalid whatever becomes of it.

### Realtime

`log[p]` is a partition of the source topics, `pos[p]` the job's offset, `high[p]`
the largest event time read, `idle` the idle partitions, `mark` the watermark the
SQL expressions see, `winMark` the one the window operator has reached.  `seen` is
the deduplication state, `acc` the open windows and `agg` the last result of each
window, both broken down by event so that "counted twice" can be said.  `dropped`
is the table `late_dropped`.

| action | code |
|---|---|
| `Produce` | an appended record: the collector, the outbox, a retry, a replay |
| `Read` with `FilterOut` or `FirstRow` | `all_events`, `deduped` (303-310), then both consumers of it: `agg_1m` (315-326) and `late_at_window` (328-353) |
| `GoIdle`, `AdvanceWatermark` | the `WATERMARK` clauses (57-143), `table.exec.source.idle-timeout` (34-40); windows that are passed are emitted and replace the earlier result of the window in Redis |
| `ForgetId` | `table.exec.state.ttl` (21-24) |
| `Checkpoint`, `Recover` | `execution.checkpointing.interval` (18-19); offsets, ids, open windows and the operator's watermark return to the checkpoint, the stream's watermark starts from nothing, what the sinks had not flushed may be missing |

A record passes all operators in one step.  `parallelism.default` is 1 and
one statement set shares the sources (387-438), so the operators see a record
between the same two watermarks.  `IsLate` and `WindowClosed` are nevertheless two
definitions over two variables, because the script computes lateness by itself
and the window operator drops by its own rule: that they agree is a property.

### Reconciliation

`Batch` is a settlement run over whatever prefix of each partition the archive job
has committed; the settled tables are functions of that prefix (`Deduped`,
`AllImpressions`, `Impressions`, `Settled`).  The report reads and writes nothing,
so it is a state function (`Realtime`, `Late`, `Ssai`, `Diff`, `Residual`), and an
invariant about it holds of a report printed at any moment.

### RedisWriter

`Log[p]` is what Flink writes to partition `p` of the three topics, `end[p]` how
much of it is written.  The consumer is `pos`, `committed` and `hand`, the message
`poll` has returned and its handler has not finished with.  Redis is `hash` and
`lateMinute` (a count and the time it expires), `index`, `lateTotal`, `alerts`,
`alertsTotal`.  A handler is one MULTI/EXEC, hence one step.

| action | code |
|---|---|
| `Poll`, `Handle` (`HandleAgg`, `HandleLate`, `HandleAlert`) | the loop of `run_consumer` and the three handlers |
| `HandleFails` | the `except` around the handler: the message is skipped; after a timeout Redis may have applied it all the same |
| `Commit` | `enable.auto.commit`: what `poll` has gone past, handled or not |
| `Stop`, `Crash`, `Start` | SIGTERM and `close()`; death; `restart: unless-stopped`, `auto.offset.reset=earliest` |
| `RedisRestart` | Redis has no volume and no append-only file |
| `SumRange` | `/agg/summary`, which the report calls |

### Dashboard

The sampler thread is a program counter `phase` over its reads, each a step of its
own beside the steps of the writer: `SampleIndex` and `SampleHashes` (two round
trips to Redis), `SampleEnd(p)` (one watermark after the other), `SampleOffsets`,
`Publish`.  A query that gets no answer leaves its part out (`QueryFails`,
`SampleNoTopics`), an exception ends the pass (`SampleFails`).  `snap` is `SNAP`.

### Tracking

A track is an event sent by the tracer or an ad played in the player.  `log[p]` is
a partition of the watched topics; `offsets[t]`, `found[t]` and `kept` are what the
process remembers (`TRACES`, `PLAYS`), `snapshot` is `_offsets_snapshot`, `holder`
the lock of the consumer.

| action | code |
|---|---|
| `AskTrace`, `KeepTrace` | `api_send`: read the ends, send, remember |
| `AskPlay`, `KeepPlay`, `FailPlay` | `ad_request`: call ad-decision, then copy the snapshot; or a 502 |
| `Refresh` | the thread of the player that takes the snapshot every 3 s |
| `Post`, `PublishAnswer`, `NudgeWatermark` | the records that reach the topics: through the collector, from the outbox, and of `nudge_watermark` |
| `ScanStart`, `ScanRecord`, `ScanEnd` | `scan_kafka`: assign under the lock, one record after the other, until the deadline |
| `Remember` | only the newest `Keep[s]` tracks of a process stay (40 traces, 20 plays) |

### Settlement

A run `j` is a program counter `stage[j]` with the rows it read (`result[j]`) and
the keys it has still to insert (`todo[j]`).  `Start` reads the archive; then
`TruncateDaily`, `InsertDaily` (any part of the keys, in a transaction of its own:
Spark's partitions), `EndDaily`, and the same for the minute table.  A row that
is there already makes `InsertFails`; `Crash` may come between any two steps.
Nothing keeps another run from doing the same at the same time.  What a run computes
(`LateChoices`, `Deduped`, `Impressions`, `DailyOf`, `MinuteOf`, `Amount`) are
operators over the rows.  The report is `ReadRealtime`, `ReadBatch`, `ReadLate` or
`LateUnreadable`, three reads at three moments.

### Generator

All coroutines run in one event loop, so an action is what happens between two
awaits.  `one_ad` is `Ask`, then `AnswerDecision`, `DecisionFails` or `DecideAlone`,
`Impression`, `PlayQuartile`, `EndAd`; `Decide` is ad-decision, which commits
whether or not the generator still waits.  The emitter is `Emit` / `EmitTwice`
(anomalies and buffers), `Wake` (delayed copies), `Flush`, `Answered`; `main` is
`Pause`, `Resume`, `Stop`, `Close`, `End`.

## 3 Runs

| run | instance | states | what it shows |
|---|---|---|---|
| `outbox` | 3 rows, the third refused, 2 workers, batches of 2, 2 faults of any kind, `seen` cleared above 1 | 473 712 | `Outbox` implements `AtLeastOnce` (so no loss); no ghosts, no second send of a flagged row, every duplicate explained by a fault, the counter never claims too much; rows ahead of a refused one are flagged in the end and the gauge drains |
| `decision` | 2 requests, one forced to no fill, 2 campaigns, 1 change of one, 1 row, 1 worker, 1 crash or lost connection | 922 116 | who is answered is in the outbox, and reaches the topic in the end; the topic holds decisions only; `crt-unknown` and a wrong `budget_exhausted` need a refresh in between |
| `collector_safety` | 2 events, one invalid, 2 replays at once, 2 hours, 2 faults (timeout or crash), failing disk | 493 545 | where an answered event can be; no step destroys a pending line, and a line of a `.done` only a replay that was overtaken inside `Files.move`; `Collector` implements `AtLeastOnce` |
| `collector_fail_open` | 2 events, 1 replay, 2 hours, failing disk, 6 timeouts | 145 514 | with a broker that owes nothing every event is answered and every replay ends |
| `collector_replay_again` | 2 events, 2 replays after each other, 1 hour | violation | finding 1 |
| `realtime_safety` | 4 events, 2 partitions, 3 records, 2 faults (recoveries or expired ids) | 658 642 | counted once or late; emitted windows are final; across recoveries no second count, and no hole but what one swallows |
| `recon` | 4 events, one sent as `ad_impression`, an SSAI pair in two minutes, a range that cuts it, 1 expired id, one partition with traffic | 97 593 | residuals have a cause; a request is billed once; windows close although the other partition is silent |
| `serving_writer` | 2 results of one window, a late event, an alert, 3 partitions, a clock past the retention, 2 faults of any kind | 671 851 | what was passed is served or skipped by a fault; repeats need crashes; `late:total` and the summary are exact |
| `serving_dashboard` | 2 partitions, 2 campaigns, 1 crash or failed query, Kafka sampled every second pass | 1 118 852 | lag zero means served; the last results are on display in the end |
| `tracking` | 2 traces, both remembered, in one partition, or 2 plays, one remembered at a time; 2 partitions, 1 nudge, 1 fault | 810 088 | each record shown once, none skipped; only the known early ones of a play are missed; a track that is scanned again and again shows all |
| `settlement` | 5 rows (a copy, an SSAI pair across midnight, a campaign with a click only), 2 runs or a run and a report, 1 fault | 1 822 192 | a rerun replaces; a table is of one run; the day is the sum of its minutes; the report's residual has a cause |
| `generator` | 1 ad, 1 quartile, POSTs of 2, bursts, 1 fault or event with anomalies, with or without ad-decision | 128 160 | what is sent is answered once, also when closing; impressions are backed by a fill |

Bounds, and why they suffice.

* **Rows, workers, batches.**  Interference needs two workers; three rows with
  batches of two give a full batch, a partial one and a row left over.  Theorems
  (section 5) remove these bounds for safety.
* **Faults.**  Two faults let a row be sent in vain twice, or a timeout be followed
  by a rollback, while a late record is still on its way.  `MaxTimeouts` of the
  collector also limits crashes; in `collector_fail_open` it is 6, which is more
  publishes than the instance can make fail (two requests, and one replay of at most
  two lines in each of two files), so it never excuses a broker.
* **Hours and replays.**  Two hours: a replay may spill its own lines into the file
  it reads or into a younger one.  Two replays at once are what it takes for one to
  find the file gone, or to replace the `.done` of the other.
* **Realtime.**  A window is two ticks and the delay one tick: the boundaries
  `end - 1`, `end` and `end + 1` all occur.  `a` and `b` share a window but not a
  partition, `c` lies in the next window, `pending` is filtered and only moves
  the watermark.  Three records are one event, its copy and a record that pushes the
  watermark past its window.  Two recoveries are what it takes to lose a record that
  the first one made the job read again (section 6); the fourth record that a
  smaller number of faults would allow adds no new case, and the theorems of
  `RealtimeProofs` have no bound at all.
* **Decision.**  Two campaigns, so that one may go while the other stays.  The
  requests share only the cache and the sequence of ids, so one row, which either of
  them may take, shows what there is to see; that two requests have a row of their
  own each is proved (`RowInv`), not checked.  Of two at once one is forced, which
  keeps the instance small; the theorems have any number.
* **Acknowledged ids.**  `SeenLimit` is 1 (200 000 in the code), so `seen` is cleared
  while rows are being sent again.
* **Redis-writer.**  Two results of a window let an older one be written again
  after the newer.  Two faults let a crash be followed by a skipped message, and
  Redis be emptied in between.  The clock runs to 3 with a retention of 2, so that
  keys expire while others are written.  In `serving_dashboard` it stands still: what
  expiry does to the sums is the question of the other run, and an instance
  with both does not finish.
* **Tracking.**  The processes share no state, so a session belongs to one of them.
  The two traces are remembered together: their scans contend for the lock of the
  one consumer, and in the one partition each has to pass over the records of the
  other.  Of the two plays the second pushes out the first, perhaps while its scan
  runs.  `play1` has its `ad_request` and its answer in one partition and a later
  event in the other; a scan can be cut between any two records.
* **Settlement.**  A day has two minutes.  The SSAI pair lies on both sides of
  midnight, one of its members has a copy, and the archive grows between any two
  steps, so two runs may choose different members.  The amount uses a cpm large enough
  that one impression pays, with a remainder that rounds.
* **Generator.**  One ad gives up to four messages and a copy or a twin: more
  than a POST holds.  Ads do not share state except the buffers.
* **Deadlock** is not checked where the instances run out of rows, events, records
  or faults: these systems stop when nothing arrives.

## 4 Fairness

* `Outbox!FairSpec`: weak fairness of each worker's own steps
  (`scheduleWithFixedDelay`, and `pollSafely` lets no exception out), of the broker
  answering a send someone waits for, and of the statistics timer.  Nobody has to
  call `decide`, commit, or fail.
* `Decision!DFairSpec`: the outbox's threads as above and nothing else.  No request
  has to be served, nobody has to change a campaign or refresh the cache; a client
  that was answered has its row, so the workers owe it the rest.
* `Collector!FairSpec`: weak fairness of the collector's own steps — publishes
  (`boundedElastic` threads, the Reactor timeout) and replays.  **No** fairness for
  the broker: fail-open means the answer does not depend on Kafka.
* `Realtime!Fairness` (used through `Reconciliation!RFairSpec`): reading, the idle
  timer and the periodic watermark.  A partition in `Live` never goes idle, which is
  what "has traffic" means.  When all traffic stops the last windows stay open
  (`scripts/flush-windows.sh` exists for this), so `WindowsClose` promises only what
  a live partition has passed.  Nobody has to run the batch.
* `Dashboard!DashFairSpec`: the writer's loop, Docker's restart, the clock and
  what Flink still writes (`RedisWriter!Fairness`), and the sampler's next step.
  Commits, faults and failing queries are not owed.
* `Tracking!FairSpec`: a running scan only.  Once it has the lock, Kafka hands out what
  it has and the deadline of 1.5 s comes.  **No** fairness for the pages: the tracer asks
  for its newest trace and stops after 300 s (`tracer/index.html:121-147`), the player
  for the selected ad, with automatic refresh or on the track route
  (`player/index.html:943-946`).  None for the lock either: a
  `threading.Lock` gives no turn to the one who waits longest.  So `AllFound` is
  conditional: **if** a track has the lock again and again, it shows in the end all
  that is in the topics for it, although each scan may be cut at its deadline and
  other tracks are scanned in between.
* `Generator!FairSpec`: timers and requests end (the client has a timeout of 20 s).
  `Flush` is strongly fair: in burst mode sending is switched off and on for ever,
  and each time it is on the flush loop runs many times.

## 5 Proofs

All theorems hold for every value of the constants that satisfies the named
`ASSUME` of the module.  `tlapm` checks every leaf.

Every invariant of every passing run is a theorem; so are the action properties and
the three refinements.  What a run adds is that the formula is not vacuous, and that a
plausible bug in the code breaks it.  A few theorems are not in a run by themselves,
since a property that is implies them: `NoLoss`, `AcceptedDelivered` and
`DonePublished` are what the contract says of `Outbox` and `Collector`,
`DisjointBatches` is the part of the lock invariant behind `NoResendAfterFlag`, and
`SettlementTypeCorrect` is proved beside the invariant of its module.

**OutboxProofs.**  The properties are not inductive: `published` is filled from a
worker's `done`, so the proof has to know what `done` means.  `IndInv` has four
parts.  `WorkerInv`: the locals agree with the place in `poll()`.  `DeliveryInv`:
what a worker selects is committed, and what it will flag is in the topic; it
yields `NoLoss` and `NoGhosts`.  `LockInv`: a row locked by a living
transaction has one holder and is not flagged; it yields `DisjointBatches` and
`NoResend`.  `AccountInv`: the copies of a
row, in the topic or late, exceed its sends in vain by at most one, and only if a
living worker has sent the row and not yet given up; it needs the lock (one holder),
and a worker that sends on after its session is gone pays for each copy at once
(`Unaccounted` says what a fault still has to pay for, `CrashAccount` that a crash
pays for all workers).  It gives `EveryDuplicateHasItsFault` and, without faults,
`NoFaultsNoDuplicates` for any number of workers.  `OutboxImplementsContract` maps
committed rows to accepted,
flagged rows to confirmed: every step is an `Accept`, a `Deliver`, a `Confirm`
or a stutter.  `CounterNeverOvercounts` compares two sums, the counts of the workers
and the duplicates in the topic.  `CounterInv` puts a third between them: per
row, the copies a worker no longer waits for, less one.  An id in `seen` has at least
one such copy, so an acknowledgement that counts a repeat adds one to this
budget, too; clearing `seen`, a restart or a rollback can only leave some of it unused.

About `Decision`, the central theorem is `DecisionImplementsOutbox`: requests, cache
and workers together are an `Outbox`, so that everything above holds of them.  The end
of a transaction is a step of `Outbox` only because the request has a row, and that
is an invariant of the composition (`RowInv`: from its insert on a request has a row,
its own, with its decision, and no row is without a request), which in turn needs the
outbox's own; `DecisionInv` therefore proves them together.  `AnswersAreRecorded`
and, with `NoGhosts`, `TopicIsDecided` follow.  `CacheInv` says that the references
are equal outside the two assignments, and gives `UnknownNeedsASwitch`; `DrawInv`
follows a request that drew nothing, and gives `ExhaustedNeedsARefresh`.

**CollectorProofs.**  `IndInv` adds to the properties: a publish waiting for its
acknowledgement has its record in the topic (`AppendedIsDelivered`), and as long as
no line of the file failed, every line a replay took is published or under way
(`ReplayCovers`).  From these follow `AcceptedDelivered`, `DonePublished` (a line
that was read is renamed only with its event in Kafka) and `AnsweredKept`.
`LinesKept` is the action property of the run, for any number of concurrent
replays: a pending line outlives every step, and a line of a `.done` every step but
the rename of a replay that another overtook since it looked (`NameIsFree`, an
invariant of its own: without being overtaken a replay renames onto a free name).
`LinesKeptOneAtATime` says what remains of the comment at `AdminController.kt:49-50`:
as long as no two replays run at the same time no step destroys any line.
`CollectorImplementsContract` maps received events to
accepted; confirmed are those answered ACCEPTED and those of lines renamed after they
were read.  That no confirmation is taken back needs more than the other
theorems: the publish of a request is in one place and not yet answered
(`IngestOnce`), a line is in one file, and a replaced one in none (`LinesOnce`), and whatever may still be
published is of a received event (`Known`).  Delivery in the end is not part of
the contract: a failed write or a line renamed unread is never confirmed.

**RealtimeProofs.**  `TypeCorrect` covers recoveries and expired ids.  `IndInv`
says, while nothing fails, that the two watermarks agree, that a counted event lies
in an open window and an emitted one in a closed window (`Agreeing`), and that each
event is in exactly one place (`CountedOrLate`).  The heart is `FilterAgrees`: the
condition written in the script, including its `NULL` case, decides exactly like
the window operator.  `CountedOnceOrLate` and `ResultsAreFinal` follow for every
window length, delay, number of partitions and order of reading.

Two theorems are about what happens when things do fail.  `RecoveryNeverDoubles`
bounds the counts of the current state and of the checkpoint alike (`LifeInv`), so
going back is no case of its own.  `NothingPublishedIsLost` needs to know what a
recovery will find: `StateInv` says of the current and of the saved state that what
was published is handled or still to be read, and `SavedBehind` that the
checkpoint is behind the job, holds or will read again whatever was counted
since, and has the same result for the windows closed by then.

About reports, `ReportsAreExplained` shows `Residual(c)` to be a difference of two
counts over one set of events (`ResidualIs`: late rows, SSAI twins and the cut of
the range cancel), and then looks for an event only one of them counts.  It holds
for any recoveries and expired ids, although the run has only the latter.
`RequestsBilledOnce` rests on the order of SSAI rows being strict and total, so
each request has exactly one first row.

**RedisWriterProofs.**  `PassedAccounted` is not inductive because a restart moves
the position back: the proof needs that a commit is never ahead of a running
consumer (`CommitBehind`), that the message in hand is the last one polled of its
partition (`HandPolled`), and that what the next start reads again has been applied
at most once per crash (`RereadBounded`).  With these, `PassedIsAccounted` and
`RepeatsAreBounded` hold for any topics and any number of faults.
`LateIsCounted` follows the two counters through the handler, which adds to both or
to neither (`LateInv`).  `SummaryIsExact` needs that a result is on its key as long
as the minute is retained, index and hash both (`KeyServed`), though one is trimmed
by the time of the minute and the other expires by the time of the last write; results
are of the past (`WrittenInPast`), so the last write is not the earlier of the two.
`ZeroLagIsServed` holds because the ends are read first and offsets only grow
(`DashInv`): what the sampler holds in the middle of a pass is a lower bound of what
is committed later.

**TrackingProofs.**  `SightingsExact` speaks of tracks at rest and in a scan alike.
The invariant adds that the cursor of a scan is the stored offset of its track
(`Scans`), that offsets lie in the log and not before the start (`Bounds`), that a
track not yet asked has nothing in the log (`Fresh`), which records of a play can
precede its start (`EarlyRecords`), and that a record is sighted once
(`SightedOnce`).

**SettlementProofs.**  `RerunIsIdempotent` needs to know the tables in the middle of
a run: while a run is alone its table is exactly what it would write without the
keys still to do, and nobody else writes (`AloneInv`, `TodoInv`).  It holds for
any contents earlier runs left, dead ones included.  `OverlappingRunsLeaveOneTable`
looks at the run that emptied a table last (`OwnerInv`): what it has inserted is there,
since no insert writes over another, so if it succeeds the table is its own when
nobody had other keys.  `DaysAreSumsOfMinutes` counts the events of a day minute by
minute.
`ResidualsHaveReasons` combines what a report has read so far (`DecidedInv`,
`ReportInv`: its figures are those of sets of events that were in Redis, in the tables
and among the late rows, and only grow) with that sum, since a report over a day
reads the daily table and one over a range the minute table.
`SettlementTypeCorrect` is more than types: `dupes_removed` is a difference and must not be negative.

**GeneratorProofs.**  `ImpressionsAreBacked` follows the impressions backwards from
the collector through requests, buffers and delayed copies (`Flow`, `Backed`) to the
ad that emitted them (`Playing`), for any batch size, anomalies and timeouts.
`CountsAddUp` needs that the places a message can be in are disjoint and free of
repetitions (`Placement`), that a viewer never emits what was emitted before
(`Fresh`, `Past`), and that cutting a buffer into POSTs is a partition of it
(`BatchesPart`).

**SumTheorems.**  The community modules define a sum by a fold over a recursive
function.  The library's induction theorems cannot be used here (they take the
predicate as an operator), so the laws are proved by taking a smallest
counterexample: a subset of the finite set for which the law fails and no smaller
one does (`SmallestSubset`), which rests on the well-foundedness of `<` on the
naturals.

**Only model-checked:** the liveness properties `EventuallyPublished`,
`BacklogDrains`, `AnsweredReachesTopic`, `EveryEventAnswered`, `EveryReplayEnds`,
`WindowsClose`, `LastResultShown`, `AllFound` and `EverythingAnswered`.
Reasoning about fairness and
`ENABLED` is out of the prover's reach.

## 6 Findings and known limits

The one finding with a run of its own is **an hour replayed twice**
(`collector_replay_again`).  If the hour spills again after its file was replayed,
`Files.move` finds `.done` and throws: the replay fails although every line was
accepted, and each retry publishes them again.

Documents that say more than the code does, seen while modelling and not given a
run of their own:

* `Properties.kt:17` and `README.md:734`: no duplicate with `update-fail-rate` 0.
  `get(5 s)` (`OutboxWorker.kt:133`) gives up before `delivery.timeout.ms` = 10 s: the
  row stays unflagged, its record arrives, and the next poll sends it again.  What
  remains true is `DuplicatesAccounted` and the theorem `NoFaultsNoDuplicates`.
* `FallbackWriter.kt:64` and `README.md:466`: the failed write is the only point of
  loss.  A line appended between `readAllLines` and `Files.move`
  (`AdminController.kt:75-96`) goes to `.done` unpublished; `AnsweredIsKept` shows
  that these two are the only ways.
* `AdminController.kt:49-50`: replayed files are renamed, "지우지 않고 남겨 관찰 가능하게"
  (not deleted but left to be looked at).  Two replays of an hour can both find no
  `.done`; one renames, the hour spills again, and the other's `rename(2)` replaces
  the `.done` of the first (`AdminController.kt:96`).  Those lines are published, or were
  renamed unread, so this adds no loss of events, but they can no longer be looked at.
  `LinesDestroyedOnlyWhenOvertaken` says that there is no other way.
* `pipeline.sql:193-195`: `late_dropped` counts exactly what the realtime discarded.
  After a restart it need not.  An event judged late, its row written, can be counted
  after a recovery, because the watermark is not restored; the row stays.  The other
  direction exists too: in the gap before the first watermark the filter says "not
  late" of an event whose window the operator has already closed, and it is neither
  counted nor recorded.  This is why `CountedOrLate` is stated while nothing fails.
* `docs/05-kafka-guide.md:100,111`, `docs/06-learning-path.md:111`: the writer commits
  after processing, at least once.  The client commits by itself what `poll` has
  returned: a crash can skip the message in hand (`PassedAccounted` counts it in
  `lost`).
* `docs/02-data-stores.md:106-107`: `late:total` and `alerts:total` expire after 48
  hours.  No expiry is set.
* `batch_settlement.py:67-70`: the order of copies is made definite so that two runs
  over the same files give the same result.  Copies tie on both sort columns; if one
  carries the mark `_late` and the other does not, `late_impressions` may differ.
* `reconcile.py:27-31` lists the causes of a residual.  For a negative one, another is an
  `event_type` of `ad_impression`: `TopicRouter.kt:11` sends it to `ad.impression`, the
  realtime counts every record there, and `batch_settlement.py:85` keeps `impression`.
  `ResidualExplained` names it (`NotInBatch`), and the causes a recovery adds: a
  swallowed event, or one that is both counted and in `late_dropped`.

What the attempts at a proof found:

* **An event that was published can be lost by two recoveries.**  The first loses its
  unflushed result and has the job read the event again.  This time the watermark
  passes the window before the event is read, a checkpoint is taken in between, and
  the second recovery clears the stream's watermark: the filter then says "not
  late" (its `NULL` case) while the window operator, which restored its own
  watermark, drops the event.  It is in no result and not in `late_dropped`.
  `PublishedKept` said otherwise; the invariant would not close, and TLC shows the
  two recoveries when `swallowed` is left out.  That history variable says which
  events meet this end, and `PublishedKept` that no others are lost.
* **A report's scope is exactly a day or a range** (`Scopes`).  `ReportExplained` for
  a day reads the daily table; for a scope that starts within a day the
  proof fails, rightly, and `reconcile.py:137-147` never builds one.

Limits seen in the models and not stated as properties:

* `outbox.republished` is a lower bound (`RepublishedNeverOvercounts`), not the
  number of duplicates: a send that timed out is not in `seen`, and `seen` is empty
  after a restart and after it was cleared at its size limit.
* A worker whose session the database has ended sends the rest of its batch without
  holding its locks, so another worker may send the same rows at the same time:
  `SKIP LOCKED` separates living transactions only (`DisjointBatches` and
  `NoResendAfterFlag` say so).  Nothing is lost, and each such copy is accounted to the
  dropped connection.
* An answer can be lost after the commit: the row is sent to the topic for a client
  that got an error.  `AnsweredIsRecorded` has no converse.
* A request that found no campaign is called `budget_exhausted` when a refresh fills
  the cache before `size()` is read (`DecisionService.kt:121`), and a fill gets
  `crt-unknown` between the two assignments of a refresh.  Both stay possible;
  `ExhaustedOnlyByChance` and `UnknownOnlyWhenSwitching` say that nothing else
  causes them.
* A refused row holds up all younger rows of the table when there is one worker;
  with `SKIP LOCKED` a second worker passes it only while the first holds it.
* `collector.fallback.pending` drifts: accepted lines of a file that stays pending
  are subtracted, then subtracted again by the next replay (it can go below 0), and
  a failed write is added.
* A restart of Redis empties every sum, and the writer does not read the topics again
  (`wiped`); `late:total` starts from 0.
* Two runs of the batch at once may both succeed and leave a mixed table when their
  keys differ; one ad request may then be paid in two rows (`OneRunPerTable` says when
  this cannot happen).  Nothing in the code locks.
* A report between TRUNCATE and the inserts compares with an empty or partial table,
  and late rows that cannot be read count as none; `ReportExplained` therefore asks
  for a whole result and a readable table.
* The player's page shows neither the `ad_request` event nor the `ad_response` when
  they arrive before the snapshot it takes (`OnlyEarlyMissed`).  The comment at
  `player/app.py:86-88` says that a snapshot of up to 3 s ago makes the scan begin earlier and
  that, since it filters by id, "결과는 같다" (the result is the same).  That is so of an old
  snapshot; one taken after the first records of the ad, but before the answer of
  ad-decision, lies behind them.
* The generator counts a copy in its statistics when it is scheduled, also one that is
  given up at the end.
* `/api/health` reads the snapshot of the dashboard without its lock
  (`api.py:435`), and can fall between `SNAP.clear()` and `SNAP.update()` (413-414): it
  then says "not ready" for a moment.  The snapshot itself is read under the lock.

## 7 What is not modelled

* **ad-decision:** the weights of the choice (any campaign of the list may be drawn),
  durations, click-through and the other fields of the answer; the endpoints that only
  read (`/v1/campaigns`, `/v1/outbox/stats`).
* **Collector's validation, routing and signatures** are pure functions of a request;
  `Collector` takes their verdict as the constant `Invalid`.  Also left out are the
  counters (other than the gauge), the sums of the batch endpoint, half-written lines
  (`readTree` would throw and the replay end as in `ReplayError`).
* **Outbox:** the counters other than `republished`; a select or a connection attempt
  that fails before anything is sent, which leaves everything as it was.
* **Realtime:** alerts, the lookup join of campaign names, parallelism above 1, a
  job resubmitted without state (`flink-submit.sh` starts at the latest offsets),
  other measures than the count.
* **Redis-writer:** eviction by memory, Kafka's retention, two partitions with results
  of the same window (their order is open, and nothing in the code settles it).
* **Settlement:** creation of the tables, rows without `event_id` or `event_time`.
* **Generator:** sessions, pings and pauses between ads, the choice of content, the
  control of the rate.
* **Tracer:** the call to ad-decision by a trace of kind `ad_request` is taken to succeed.
  When it fails after the decision was committed (`tracer/app.py:255-266`), the trace has no
  ids, its scan no target (`tracer/app.py:314`), and the page shows nothing although the
  `ad_response` comes to `ad.request`.  `SightingsExact` and `AllFound` do not speak of it.
* **Tracer, player, dashboard:** everything they show beside
  what is in section 2 is a single read for display, at most cached for seconds.
* **Schema, scripts, tests, docs:** tables and topics appear as the variables they
  hold; the scripts operate the system and keep no state.

## 8 Plan

Order: the two places where an event can be lost (outbox, collector), then the place
where it is counted (realtime), then the place where counts become money
(settlement, reconciliation), then what serves, produces and shows them.

| step | modules | abstract specification, properties, theorems | state |
|---|---|---|---|
| 1 | `Outbox`, `AtLeastOnce`, `OutboxProofs` | at-least-once contract; no loss, no ghosts, accounted duplicates | done |
| 2 | `Collector`, `CollectorProofs` | the same contract; where an answered event is; lines kept; fail-open | done |
| 3 | `Realtime`, `RealtimeProofs` | counted once or late; final windows; recovery; liveness | done |
| 4 | `Reconciliation`, theorems in `RealtimeProofs` | residual explained; billed once | done for impressions |
| 5 | `RedisWriter`, `RedisWriterProofs`, `Dashboard` | what was passed is served; bounded repeats; exact sums; lag zero; last result shown | done |
| 6 | `Settlement`, `SettlementProofs` | reruns replace; day equals minutes; report at three moments | done |
| 7 | `Tracking`, `TrackingProofs` | exact sightings; what can be missed; all found | done |
| 8 | `Generator`, `GeneratorProofs` | sent adds up; impressions backed; everything answered | done |
| 9 | `SumTheorems`; theorems for the states after a recovery, the counter of repeats, overlapping runs, sums and reports, the dashboard's lag, the generator's counts | every invariant the runs check is a theorem | done |
| 10 | `Ingest`: validation, routing and signature as operators | against a reference table of types and topics, in place of the constant `Invalid` | to do |
| 11 | `Decision`, `OutboxProofs` | composed with `Outbox` and shown to implement it; the row inserted is the decision answered; mixed answers explained | done |
| 12 | `pending` gauge of the collector with its history | what the drift of the gauge amounts to | to do |
