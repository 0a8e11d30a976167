# Pravaha in TLA+

Specifications of the parts of Pravaha in which the order of steps decides
whether events are lost, counted twice or reported wrongly. TLC checks them on
small instances; TLAPS proves most of their safety properties for every instance.
`PROJECT.json` has the machine-readable side: which definition models which
lines, what every run checks, the hazards and the theorems.

Check a module with `tlc -config <Run>.cfg <MCModule>`, the proofs with
`tlapm <Component>Proofs.tla`.

## 1. The system

Pravaha is an event-stream platform: an API (FastAPI) takes events, Kafka
carries them, asyncio workers consume them, PostgreSQL keeps what is durable and
Redis what is not.

```
producer -> API /events -> events.raw + events.validated -> persistence
                |                                        -> analytics  -> events.metrics -> anomaly
                +-> events.dlq + dead_letter_events       -> data quality                    -> alerts
operator -> API: replay jobs, schemas, pipelines, DLQ, investigations
replay runner: events table -> events.replay
```

### Components

| Component | State | Operations | Hard behaviour | Correct when |
|---|---|---|---|---|
| Stream consumer framework (`kafka/consumer.py`) | committed offsets (broker), positions, in-flight tasks, `event_processing_records`, DLQ topic and table | start, poll, task per message (check, handle, mark, retry, dead-letter), commit, stop | concurrent tasks of a batch, crash, SIGTERM and rebalance in the middle of it, every call may fail | a committed offset covers only settled messages; a record never claims work that was not done; every message is settled in the end |
| Analytics and watermark (`analytics/processor.py`, `processing/watermark.py`, `processing/state.py`) | watermark and open buckets in memory, counters in Redis, rows in PostgreSQL | handle, flush, stop, restart | handlers and flush interleave at every await; out-of-order and late events; idle time; memory lost in a crash, Redis not; counters that expire | no call of `handle()` is counted twice; rows shrink by expiry only; every bucket is closed |
| Ingestion (`api/routers/events.py`, `ingestion/service.py`) | Redis reservation, two Kafka topics, DLQ topic, rows of the request's transaction | single and batch ingest | the transaction rolls back, Redis and Kafka do not; retries by the producer; several events in one transaction | what is accepted is on both streams, at most once per reservation; what is rejected can be found |
| Replay (`api/routers/replay.py`, `replay/runner.py`, `replay/engine.py`) | `replay_jobs`, the events table, `events.replay` | create, cancel, claim, page, publish, progress, end | paging a table that changes, cancel racing every step, two runners, crash | a completed job replayed all that was there; its counts are right; cancel takes effect within a page |
| Schema registry (`registry/service.py`, `api/routers/schemas.py`) | versions, `is_active`, `active_version_id` | create, register, activate, deactivate | requests that read before they write | each unforced version is compatible with its predecessor; data stays readable |
| Pipeline versions (`api/routers/pipelines.py`) | versions, graph and node rows, `active_version_id` | create, edit draft, publish | the same | published versions are valid, immutable and alone |
| Pipeline graph (`processing/pipeline_spec.py`) | none (pure) | validate: static checks, acyclicity, reachability | graph algorithms over duplicate edges and loops | agrees with its definition |
| Windows and aggregators (`processing/windows.py`, `primitives.py`) | per-window state | assign, update, merge | boundaries, merge order, session merging | agrees with its definition |
| Data quality (`dataquality/`, the flags in `events/envelope.py`) | in-memory accumulator, rows | handle, flush, stop | two topics under one idempotency key; counting while the flush awaits | outside the windows the code leaves open no count is lost; every count too many has a failure or an overlap behind it |
| DLQ administration, persistence (`api/routers/dlq.py`, `analytics/persistence.py`) | status of a dead letter, `events` | retry, discard, insert | two operators, publish before commit | an entry is republished once unless requests overlap or fail |
| Anomalies and alerts (`consumers/anomaly_worker.py`, `anomaly/`, `alerting/`) | anomalies, alerts, rules with their last firing | detect, deduplicate, fire, publish, commit | publish before commit, concurrent tasks, stale cooldown | one row of a kind per window; alerts bounded per cooldown |
| Investigations (`ai/`, `consumers/ai_worker.py`) | investigations, evidence, hourly counter, status of the anomaly | take, create, agent loop, complete, fail, cancel | cancel racing completion, retry after a crash, budget, answers that are made up | nothing is forgotten, anomalies are given back, a cancel before the run is kept, conclusions are grounded, cost is bounded |
| API gateway (`api/deps.py`, `redis_client.py`, `producers/service.py`, `api/audit.py`, `consumers/audit_worker.py`) | producer row and key, sliding window in Redis, audit rows | authenticate, limit, create, rotate, enable, disable, update, log in | clock read before the script, row locks, rollback of audit rows, an audit worker that gives up | the limit holds over the window; the trail is complete |
| Real-time stream (`realtime/sse.py`, `api/routers/live.py`) | queue, seen ids | poll, push, send, disconnect | slow reader, alerts committed out of order | every alert is sent, queued or counted as dropped |
| Lag monitor (`consumers/lag_monitor.py`) | samples | sample | offsets and the start of the log that move between two reads | lag is overstated by no more than the records that expired |
| Retention, authentication of people, query APIs, Spark jobs, web console, simulators | | | little or none | |

Interactions: the framework calls `handle()` of each processor and gives it
at-least-once delivery; ingestion writes the topics the framework reads; replay
reads the table persistence writes; ingestion reads the active schema; the
analytics rows feed anomaly detection over `events.metrics`, and its anomalies
feed investigations over `events.anomalies`. All processes share
PostgreSQL in short transactions (READ COMMITTED, `autoflush=False`: a
transaction's writes appear at its commit, and the ORM writes only the values
that differ from the ones it loaded) and Redis in single commands.

## 2. Modules

| Module | Models | Composition |
|---|---|---|
| `AtLeastOnce` | what a consumer group promises: messages become settled and stay so; the committed offset of a partition only ever moves to a point below which all is settled | abstract |
| `StreamConsumer` | `kafka/consumer.py` and the group coordinator (external) | implements `AtLeastOnce` under `settled <- {s \in Slots : Settled(s)}` |
| `Analytics` | the analytics processor with its watermark, over the framework's promise | stands on what `StreamConsumer` guarantees |
| `Ingestion` | the two ingest endpoints, `ingest_event()`, the request's transaction | |
| `Replay` | API, runner and engine | |
| `SchemaRegistry` | registry and its compatibility check | |
| `PipelineGraph` | `validate_graph()`: `StaticErrors` and `IsValid` as operators, Kahn's loop and the reachability search as steps | |
| `Pipelines` | versions of a pipeline | extends `PipelineGraph`: a version is published when `IsValid` says so |
| `EventQuality` | the flags `assess_envelope()` gives an event and the scores of a row (pure) | |
| `DataQuality` | the quality processor over both topics | extends `EventQuality`, stands on what `StreamConsumer` guarantees |
| `DeadLetters` | retry and discard, and the persistence consumer | extends `DataQuality`: what a retry publishes is what it reads |
| `Anomalies` | detector tasks and alert rules | |
| `EvidenceTools` | the tools of an investigation, by the references they return | extends `Anomalies`, whose tables they read |
| `Investigations` | worker, agent loop, cancel, status of anomalies | extends `EvidenceTools`: takes the messages the detectors publish, possibly before they commit |
| `Gateway` | API keys, rate limiter, administration of a producer, logins, audit trail | |
| `Live` | the alert stream and the lag monitor | |
| `Windows` | window assignment and aggregators | |
| `StreamConsumerProofs`, `IngestionProofs`, `ReplayProofs`, `AnalyticsProofs`, `DeadLettersProofs` | theorems (section 4) | each extends the module it is named after |
| `CatalogueProofs` | theorems | extends `SchemaRegistry` and `Pipelines` |
| `ServicesProofs` | theorems | extends `Gateway` and `Live` |
| `IncidentsProofs` | theorems | extends `Investigations`, and with it `Anomalies` |
| `MC*` | values of the constants, symmetry sets; `MCCatalogue` and `MCServices` put components that share no state into one run, a behaviour following one of them (`focus`) | |

An action is the code between two awaits that reach a store or another process
(for the request handlers: one that reads, and one for the commit at which the
writes become visible). Task and request program counters (`pc`) are the place
in the coroutine; every other variable is a field, a row, a key or a topic of
the program, named after it, except those marked *history* or capped by a bound.
Definitions marked *Mutant* are plausible mistakes in the definition that
follows them; substituting one must break the property it is paired with. They
are not used by any specification.

### StreamConsumer

`Slots` are the (partition, offset) pairs of a fixed log. `Fetch` is
`getmany()`, which may return any shorter run, so a fixed log also stands for a
growing one. `Admit`, `Check`, `Handle`, `Mark`, `PublishDeadLetter`,
`InsertDeadLetter` and `MarkFailed` are `_process_one` and `_handle_with_retry`;
`BatchDone`, `Commit` and `StopCommit` are the end of the loop body and of
`stop()`. `Rebalance`, `Crash` and `Signal` are the environment: a rebalance
resets the positions of the members it assigns to the committed offsets and does
not tell a member in the middle of a batch; a commit of a lost partition is
refused whole. `Faults` names the calls that may raise; `"handled"` is a handler
that raises after its side effect, `"marked"` a `mark_processed` that raises after
its record was written.

What the model makes visible about the code:

* A failed commit is not retried; the next batch's commit covers it.
* After a member loses a partition and gets it back in the middle of a batch,
  its commit may move the committed offset backwards. This costs redelivery and
  no message, and `AtLeastOnce` allows it.
* `ProcessedIsFinal` holds for one member and a log that has each event once. With
  two members, with copies of an event in one batch, with a failing idempotency
  check, or with a mark that raises after it wrote on the last attempt, a
  `processed` record can be overwritten with `failed`: `mark_processed` upserts.
  `"check"` and `"marked"` are therefore not among the faults of
  `StreamConsumerFaults`; they are among those of `StreamConsumerGroup`.
* When both dead-letter writes fail the offset is committed all the same, so
  `NoSilentLoss` needs one sink that works; ADR 0008 promises it without that
  condition.

### Analytics

`Deliver` gives any process an event, and again after a crash, a rebalance or a
failed commit, while another may still handle it; `Skip` is the check that finds the
record. `Begin` is `handle()` up to its first await (observe, classify, remember the
bucket); `BumpLate` and `Contribute` are the awaited Redis increments;
`AttemptFails` is the retry in process and, after the last attempt, the dead letter.
`FlushStart`, `FlushRead`, `Persist` and `Emit` are `_flush()` and
`_finalize_bucket()`. `Expire` is the time to live that every increment renews
(`state.py:66`): a counter that has a value may vanish at any time. Each bucket has a
numerator, a denominator and a late count, which stand for the metric catalogue: a
ratio's numerator is incremented before its denominator and read after it.
`Watermark` and `Classify` keep the arithmetic, in small integers.

`watermark.py` speaks of the minimum over the partitions; the code keeps one
maximum for the process, which is what is modelled. ADR 0005 says that the flush
deletes the Redis state; the code keeps it, and that a late event adds to a row
instead of replacing it depends on that. It is kept for an hour: a bucket that is
reopened after its counters expired starts at zero, and the upsert puts the smaller
count over the row. `OnlyExpiryShrinksRows` says that nothing else does; deleting
the state with the flush is its mutant.

### Ingestion

A request walks through its events: `Parse`, `Reserve` (SET NX, failing open),
`Validate`, `PublishRaw`, `PublishValidated`, or `DlqPublish` and `DlqInsert`.
`rows` is the open transaction; `Commit` publishes it and answers; `Abort` rolls
it back. A publish that raises may have reached the broker. What decides the
path of an event (malformed, forbidden, invalid) is a constant.

An item of a batch that is no object (`Shapeless`) is ingested as `{}`, dead-
lettered, and then raises in the handler of its own rejection, which takes the
whole batch down; a timestamp that `from_input()` cannot read (`Undated`) ends
the request with an error and no dead letter.

### Replay

Each `session_scope()` block is a step. `Claim` locks only while it selects, so
two runners may claim the same job, and the status writes of `Begin`, `Finish`
and `Fail` are unconditional: CANCELLED may be overwritten. `Crash` is every way
in which a runner drops its job without a trace (the process dies, the first
block, `producer.start()` or the `except` block raises); a job dropped while
RUNNING stays RUNNING for good. The properties say what still holds. No consumer
subscribes to `events.replay`, although `docs/architecture/README.md` describes
metrics that recover through it; there is nothing to compose with.

### SchemaRegistry, Pipelines and PipelineGraph

A request loads, decides, and commits; the unique version number is the only
thing that orders two of them. What a session has loaded it keeps (`Held`, the
ORM's identity map): the sweep over the other versions of a registration sees the
flag of the version it was checked against as it was then, and the others as they
are now. `Compatible` translates
`check_backward_compatible()`; `Accepts` is what the validator library does with
the same parts of a document (external); `Reads` is the meaning of backward
compatibility. The node and edge rows of a version are represented by the graph
they were written from.

In `PipelineGraph` a graph is its node types and the multiplicity of each edge.
`ValidatorIsRight` shows that the verdict is that of the static checks alone:
edges must go to a later stage, so a graph that passes them has no cycle, and
Kahn's loop only confirms it. That every node is reachable is a warning in the
code, although the module's docstring (`pipeline_spec.py:12`) lists it among
what is enforced; its parts `OrderIsTopological` and `WarningIsRight` are about
the sort and the warning.

### EventQuality, DataQuality and DeadLetters

Each event has up to two copies on `events.raw` (the second is a retried dead
letter) and one on `events.validated` when it was accepted. A copy is checked,
counted and marked in steps of its own, each of which may fail (`CheckFails`,
`MarkFails`, with the record written or not); the last attempt dead-letters and puts
`failed` over whatever the record said, and a copy that was not committed comes again
(`Rebalance`, `Crash`). `FlushBegin` snapshots the closed
buckets, the transaction is awaited, `FlushPop` drops the entries. A publish of a
retry that raises may have reached the broker (`RepublishFails`), and a message that
persistence gave up may have been stored and may come again (`PersistFails`).

`spoiled` names the buckets that went through one of the windows of loss the code
leaves open; `doubts` and `strays` count, per event and per dead letter, the failures
and overlaps after which the code cannot know what was done. `RowsAreExact`,
`CountedOnce` and `RetryPublishesOnce` say that nothing else goes wrong: every count
or publish after the first needs a doubt or a stray of its own. `CountedOnce` is a lower
bound too: an event that was consumed from `events.validated` is in a total unless it
was given up (`GaveUp`) or its raw copy was marked first.

Scores are whole parts of `Unit` = 10000, rounded as `round(v, 4)` does (`Round4`).
Below 10000 events in a bucket every flag still lowers a score; above that it need not, and
`MCDeadLetters` has an instance in which one does not (`RoundingHides`). What the model makes visible:

* Ingestion publishes events that their schema rejects on `events.raw` too; only
  a malformed envelope never reaches a topic.
* When the raw copy of an accepted event is handled first it is marked as
  processed and the validated copy is skipped: the event is in no count.
  `CountedOnce` has to allow this case by name. A raw copy without flags opens a zero
  entry that can overwrite a good row.
* A flag for completeness or uniqueness is never counted by this processor, so
  those two scores are always 1.
* Retry publishes to `events.raw` "so it re-enters normal processing"
  (`dlq.py:120`), but the quality processor is the only reader of that topic, so
  what persistence gave up is not stored by it. A malformed payload that is retried is
  dead-lettered again, in a row of its own: the consumer always inserts (`kafka/consumer.py:445`), so an
  entry of `DeadLetters` is a processor, an event, a copy and a row number.

### Anomalies, EvidenceTools and Investigations

A detector task is one transaction; `Evaluate` is the insert that ignores a
conflict on the dedup key and waits for a transaction that has inserted it. The
score of a detector is a free choice: its statistics are floating-point. Alert
rules keep their arithmetic, with percentages multiplied out.

An agent is the worker's handler of one message or a request's background task.
A real model may answer anything: tool calls, text, a conclusion that cites what
it was given and what it made up. The mock walks its plan and applies
`mock_reason`. `elsewhere` are the rows of tables that no module keeps (events,
lags, quality records, producers, aggregations), fixed in a behaviour. The row of an investigation is read in one step and
written in another (`StartRead`, `Start`), as `cancel()` does too; people may set an
anomaly to any status, INVESTIGATING included (`byHand`, history). `Embedded` is what
the payloads of events hold under a key that `_extract_refs()` takes for a reference:
the tools that return payloads return it (`PayloadRefs`). What the model makes visible:

* The worker may take a message before the detector's commit; it then finds no
  row and drops it, although `ai_worker.py:7` says the anomaly is "already
  persisted". `NoAnomalyForgotten` names this and the other ways a message is
  dropped (limit, error).
* A cancel of a running investigation is overwritten by its end, and a cancel
  that read the row earlier overwrites a completion; a cancelled one leaves its
  anomaly INVESTIGATING. `AnomalyIsReleased` is about failures only. What a cancel
  can rely on is `CancelIsKept`: if no task has read the row to run it, the
  investigation stays cancelled and is not run.
* A conclusion cites what its tool calls returned (`GroundedConclusion`), which need
  not be a row: a reference in a payload counts as evidence.
* A retry after a database error runs a second investigation and leaves the
  first RUNNING.
* The quality tool returns no field `overall_score`, which the mock reads, so its
  hypothesis H4 is never chosen; and it cites only the references of
  `get_anomaly_context`, so H3 and H5 never cite any of their own.
* The cooldown of a rule does not leave one alert. `last_fired_at` is read before
  the row is locked, so tasks that read it together all fire; and a task that began
  earlier and commits later puts it back, after which the others may fire again. The
  bound that holds, and is reached, is k(k+1)/2 alerts within a cooldown for k
  concurrent tasks (`BoundedStorm`).

### Gateway, Live and Windows

`Stamp` and `Evaluate` are apart because the API reads the clock before Redis
runs the script; `RateBound` therefore speaks of spans shorter than the window
by the longest such delay (`MaxDelay`). A member of the sorted set is the time and
a random number, and Redis may seed a script's `math.random()` the same way every
time: requests of one millisecond that draw the same number are one member, and
`RateBound` counts members. A batch counts as one request, and Redis failures let
requests pass. A failed login's audit row is rolled back with its
request and only the topic's copy survives, where `audit_worker.py:4` says that
actions are written directly *and* emitted; a change whose commit fails (`undone`)
leaves a worker's row of something that did not happen; every successful action has
two rows. The audit worker may give a message up, and must when the actor is longer
than its column (`misfits`: the e-mail of a refused login is not cut); a message
stays on the topic until its offset is committed, so it may come again (`Consumed`).
`TrailIsComplete` counts the dead letter as part of the trail.

`Live` has the alert stream (poll, bounded queue that drops its oldest item,
error, disconnect; after an error the stream only sends pings) and the lag
monitor, whose failing group drops the whole sample. The log of a group has a start
that retention moves (`DropExpired`). A group without a commit, or with one below the
start, reads on at the start (`Position`; `auto_offset_reset` is earliest), while the
monitor measures from the commit, or from 0 without one: the difference, `Expired`,
is what a stored lag may be too high by.

`Windows` assigns panes to
events that arrive in any order at several workers and merges their states; the
reference definitions are over the set of events that have arrived, counted
directly. An event may have no amount (`NoAmount`: the aggregators differ in what
they make of it) or no user (`NoUser`). Amounts are whole numbers of a unit, `One` of
which make 1.0; a sum is rounded by `Float`, which changes nothing up to `Exact`
units and may do anything beyond, so sums are claimed to be those of the events,
in any order and grouping, up to there. Two sessions that touch, of one
worker or of two, are joined with `SessionWindower.merge()` and the aggregators'
`merge()` by a step of the environment (`JoinSessions`): the docstring leaves it to a
processor that the repository does not have. The rate aggregator compares by
`eq`. Top-N keeps counts; the order of ties is left free.

## 3. Runs

Bounds are named in the modules (`MaxCrashes`, `MaxStops`, `MaxMoves`,
`MaxRequests`, `MaxVersions`, `MaxChanges`, `MaxExpiries`, `MaxIdle`, `MaxFaults`,
`MaxClock`, `MaxOps`...). They bound the environment (crashes, signals, requests,
time), never what the code does with it; retries, pages, queues and batch sizes
are settings of the program.

Where a table row says "types", the module's type invariant is checked on its own
(`StreamConsumer`) or as the first conjunct of one of the invariants it names.

### Passing

| Run | Instance | Shows |
|---|---|---|
| `StreamConsumerFaults` | 1 member, 2 messages (1 malformed), 2 attempts, all faults but the check and the mark that was written, 2 crashes, 1 stop | types; `CommittedIsSettled`; `ProcessedWasApplied`; `ProcessedIsFinal` |
| `StreamConsumerGroup` | 2 members, 2 voluntary rebalances, 1 crash; checks, marks that were written, commits and the DLQ table fail | implements `AtLeastOnce`; `NoSilentLoss` |
| `StreamConsumerLiveness` | 2 members, 2 attempts, a crash, failing handlers and sinks | `EventuallyCaughtUp`: the log, every message of it settled, is committed for good |
| `AnalyticsFaults` | 1 event, delivered twice with 2 attempts each, Redis and PostgreSQL fail, a crash, an expiry | types; `NoOvercountPerAttempt`; `OnlyExpiryShrinksRows` |
| `AnalyticsStop` | 3 events out of order, 2 stops | no bucket left behind by a stop; every bucket is closed |
| `IngestionFaults` | 2 concurrent requests of up to 2 of 6 events (valid, invalid, malformed, forbidden, no object, unreadable time), failing calls, a crash, an expiry | types; accepted events are on both streams; `validated` is a sub-stream of `raw`; one copy per reservation; an answer "rejected" comes with its row |
| `ReplayRuns` | 2 runners on one job, pages of 2, an insert or a delete, failing blocks, cancel at any time, one drop | types; complete ranges; honest counts; the row of a completed job; cancel within a page; every job ends |
| `Catalogue` | registry: 3 concurrent requests, 4 versions of 4 documents; pipelines: 3 concurrent requests, 6 in all, 3 graphs; validator: all graphs of 3 nodes with up to 4 edges, loops and duplicates included, in 4 typings | types; `ChainIsCompatible`; `ClosedIsReadable`; `OnlyLatestIsDraft`; while requests do not overlap, flags agree and published versions are valid, immutable and alone with matching node rows; `ValidatorIsRight`: the order is topological, the verdict and the warning are right |
| `DeadLettersRun` | an accepted event, with or without flags, a rejected or a malformed one, or two of them, up to 3 calls, 2 raw copies, 2 operators, a failing check, mark, publish or flush, a rebalance or crash, a stop, 3 minutes | types; `RowsAreExact`; the scores tell every flag; `CountedOnce`; `RetryPublishesOnce` |
| `Incidents` | 2 detector tasks, 2 agents, 4 minutes, a cooldown of 3, a fault, 7 initial situations (nothing stored, or one anomaly, with different budgets of requests and faults and the hourly limit used or not) | types; `StoredIsPublishedOnce`; `BoundedStorm`, the commit that re-arms the rule included; `NoAnomalyForgotten`; `AnomalyIsReleased`; `GroundedConclusion`; `CostBound`, with the tool budget and the mock's plan; `CancelIsKept` |
| `Services` | gateway: 2 callers, window 3, delay 1, limits 1 and 2, 2 administrative requests, a fault; stream: 4 alerts, pages and queue of 2; lag: 2 groups, offsets to 2, retention; windows: 4 events (one without an amount, one without a user, one negative) at times 0, 1, 2 and 4, size 3, slide 2, gap 1, 2 workers, sums exact up to 2 | types; `RateBound`; `TrailIsComplete`; `StreamAccountsForAll`, late commits included; `LagOverstatesOnlyExpired`; `WindowsMatchEvents`: panes, sessions, and that merging states is the union of their events |

Why the bounds suffice for the cases that matter: two messages make one batch in
which one task is done and the other is not; two attempts make a first and a last
one; a crash at every point is followed by a full redelivery; two rebalances are
what a member needs to lose a partition and get it back within a batch. In
`AnalyticsFaults` idle time closes the event's bucket, and the second delivery, or
the second attempt, reopens it with or without its counters; out-of-order events,
late ones and several buckets are in `AnalyticsStop`, which has each event once and no
expiry. `IngestionFaults` leaves out the fault `dlqRow`,
under which an answer "rejected" may come without its row. Three keys in pages of
two have a full, a partial and an empty page. Two sessions make a stale read,
three make one that is stale twice. `overlapped` and `raced` are history variables
that separate what the code guarantees to requests that come one at a time from what
survives a race.

In `Incidents` the hourly limit is 1 and the tool budget 1 with up to two calls
in a response, so both are met and overrun; the situations split what would be
too large together (faults, requests, detectors and a full table) and cover every
pair that interacts. In `Services` the window is longer than the delay by two
and time runs past the expiry; the limiter and the trail of the gateway meet only in
the producer's row and are followed in turn (`focus`). Four events are two sessions
at either worker that touch; the amounts exceed what is exact, so that sums of the
same events do differ. Four alerts overrun page and queue.

Deadlock is checked wherever the system never stops. It is switched off where
bounded requests, faults or inputs run out: `ReplayRuns`, `Catalogue`,
`DeadLettersRun`, `Incidents` and `Services`.

### Violation

`IngestionRetry` checks `DuplicateMeansKnown` and TLC refutes it: the reservation
outlives the failed publish, so the producer's retry is told "duplicate" and the event
is nowhere. The sentence it contradicts is quoted in `PROJECT.json`.

Other disagreements that the models show and that have no run of their own:

* a handler that is between two increments while the flush reads its bucket
  leaves a row that is never completed (`processor.py:165`; ADR 0007:18 says the
  upsert "converges");
* `update_draft()` edits a version that was published after it was read
  (`pipelines.py:155`; README.md:181 "published versions are immutable",
  `models/pipelines.py:48`), and two publications that do not see each other
  leave two published versions;
* both dead-letter sinks down lose a message that ADR 0008 calls always visible;
* two copies of an event in one batch are both handled (ADR 0007), and an event
  that is delivered again or retried is counted twice by the Redis increments; after
  their time to live a late event replaces the row by its own count;
* `observe()` restarts the idle clock before `classify()`, so the event that ends
  an idle period counts as on time in a closed bucket (`watermark.py:14`); a
  too-late event is counted in Redis and never reaches its row (ADR 0005);
* the error response of the single ingest endpoint rolls back the dead-letter row
  of a malformed event (`ingestion/service.py:11`);
* a type for a property that had none, or a new typed property after an open
  document, passes the compatibility check (`registry/service.py:63`);
* an accepted event whose raw copy is handled first is in no quality total
  (`dataquality/processor.py:42`; lines 66-67 say "only count each event once: use
  events.validated for valid");
* an event that persistence gave up is retried to a topic that persistence does not
  read (`dlq.py:126`; line 120 says "re-enters normal processing");
* a field `ref` in the payload of an event is collected as evidence and may be cited
  (`investigator.py:231`; README.md:23 "every AI conclusion cites real evidence");
* records that expire before a group commits them stay in its lag although nothing is
  before it (`lag_monitor.py:117`; `docs/operations/performance.md:41` gives a steady
  lag of "~0");
* those listed with the modules in section 2.

### Fairness

Liveness runs assume weak fairness, and only of what the program's own
schedulers provide:

* asyncio runs every ready task: the member loop, each message task, each
  handler, the flush task, the runner;
* the wall clock runs (`Tick`);
* the supervisor restarts a process that is down (`Start`, `Restart`; the compose
  file's restart policy), and the coordinator reassigns the partitions of a
  member that left;
* a cancel request that was begun is finished (an HTTP handler).

No fairness is assumed of faults, crashes, signals, rebalances or requests.
`EventuallyCaughtUp` needs that commits do not fail for ever, so `"commit"` is
not among the faults of its run; `EveryJobEnds` and `EventuallyClosed` say nothing
after a runner dropped a job or a process crashed, because nothing in the code
picks up what was lost then.

## 4. Proofs

Each theorem holds for every value of the constants that satisfies the named
assumptions of its module, so for any number of members, requests, runners, tasks,
events and messages, any set of faults unless a hypothesis says otherwise, and any
bound on the environment, so in particular any number of crashes. The assumptions
are typing of the constants and finiteness of the sets that are counted
(`Runners`, `Jobs` and `Ids` of `Replay`, the processes and events of `Analytics`, the
events of `Windows`, `Admins`, `Detectors`, `Agents`, `Callers`, the nodes of a graph); besides that,
`IncidentAssumption` says that an initial situation is
a state the detectors can leave behind (distinct keys, no more messages than
minutes) and that a reference a model makes up, or that a payload holds, names no row, and `GateAssumption`
that the delay of a request is at most the window; `WindowAssumption` has a slide of
at most the size, as `SlidingWindower` demands, and `FloatAssumption` says of floats
only that whole numbers of units up to `Exact` are exact. TLC evaluates all of them.

Every inductive invariant is defined in the module it is about, after the
properties, and was checked by TLC on the instance of that module's run before it
was proved. (`WindowInv` only restates the property of the windows worker by worker and session by
session, and is defined with its proof.)

| Proof module | Theorem | States | Hypothesis |
|---|---|---|---|
| `StreamConsumerProofs` | `TypeCorrect`, `CommitSafety`, `DedupSafety` | `TypeOK`, `CommittedIsSettled`, `ProcessedWasApplied` | |
| | `NoLossWithOneSink` | `NoSilentLoss` | one dead-letter sink does not fail |
| | `FinalSafety` | `ProcessedIsFinal` | one member, each event once in the log, the check does not fail, the mark raises only when it wrote nothing |
| | `Refinement` | `Spec => ALO!Spec` | |
| `IngestionProofs` | `AcceptedSafety`, `ReservationSafety` | `AcceptedIsPublished`, `OneCopyPerReservation` | |
| | `RejectedSafety` | `RejectedIsInTable` | the dead-letter insert does not fail |
| `ReplayProofs` | `CompletedSafety`, `CountsSafety`, `CancelSafety` | `CompletedCoversRange`, `CountsAreHonest`, `CancelStopsWithinAPage` | |
| `CatalogueProofs` | `ChainSafety`, `ReadableSafety`, `FlagsSafety` | `ChainIsCompatible`, `ClosedIsReadable`, `FlagsAgree` | |
| | `DraftSafety`, `PublishedSafety`, `ImmutableSafety` | `OnlyLatestIsDraft`, `PublishedIsSound`, `AloneIsImmutable` | |
| | `ValidatorSafety` | `ValidatorIsRight` | |
| `AnalyticsProofs` | `CountSafety` | `NoOvercountPerAttempt` | |
| | `RowSafety` | `OnlyExpiryShrinksRows` | one process |
| | `StopSafety` | `GracefulStopKeepsBuckets` | no faults |
| `DeadLettersProofs` | `CountsExactness`, `CountedOnceSafety`, `RetrySafety` | `RowsAreExact`, `CountedOnce`, `RetryPublishesOnce` | |
| `ServicesProofs` | `TrailSafety`, `RateSafety` | `TrailIsComplete`, `RateBound` | |
| | `LagSafety`, `StreamSafety` | `LagOverstatesOnlyExpired`, `StreamAccountsForAll` | |
| | `WindowSafety` | `WindowsMatchEvents` | |
| | `NameSafety` | `NameIsUnique`, which no run lists | |
| `IncidentsProofs` | `StoredSafety`, `ForgottenSafety`, `ReleaseSafety`, `GroundedSafety`, `CostSafety`, `StormSafety`, `CancelSafety` | `StoredIsPublishedOnce`, `NoAnomalyForgotten`, `AnomalyIsReleased`, `GroundedConclusion`, `CostBound`, `BoundedStorm`, `CancelIsKept` | |

The hypotheses are conditions the code has: without them TLC finds the property
violated, for the reasons given with the modules. The theorems of `Pipelines`,
`PipelineGraph`, `Gateway`, `Live` and `Windows` are about `PipelineSpec`,
`ValidatorSpec`, `GateSpec`, `StreamSpec`, `LagSpec` and `WindowSpec`, the
specification of the component alone; the runs interleave nothing else with it.
Every safety property that a passing run checks is stated by a theorem.

### The arguments

**Stream consumer.** `CommittedIsSettled` is not inductive: it says nothing about
what a member will commit next. `IndInv` adds that everything up to a member's
position and up to its pending commit is settled or *in hand*, i.e. still worked
on by a task of that member (`CommitsAreInHand`); that a member outside `handling`
has no task (`TasksOnlyInBatch`), so that when it commits, in hand means settled;
and that a task about to mark has applied, a task about to record a failure has
settled (`TasksAreHonest`). The stale batch of a member that lost its partition is
covered because the invariant speaks of the member, not of the owner. With a sink
that does not fail nothing is ever in `lost` (`NothingGivenUp`). For `Refinement`,
every step keeps what is settled settled, and a step that moves a committed offset
moves it to where everything is settled, by the invariant. `FinalSafety` needs
`MarkedIsOver`: once the record says processed, the one task that could have the
event is in front of the check, which answers, or past everything that handles or
marks. Each hypothesis removes one way to have a second such task.

**Ingestion.** The two counting arguments compare a counter with the number of
requests that are about to change it. `RawIsAhead`: copies on `events.validated`
and the requests about to publish there are covered by copies on `events.raw`.
`ReservationsCover`: the same copies and all requests between the reservation and
the second publish are covered by the reservation in Redis and by those lost or
never made. `ResultsAreBacked` carries the answers: a result collected in the
request's list is already backed by the streams and by the open transaction, so
the commit makes the answer true.

**Replay.** `Paging(r)` is the loop invariant of keyset paging: below `last_id`
every row that was there all the time has been tried, and the page in hand is an
initial piece of the rows above. `RowTellsSent(j)` ties the runner's own counts to
what was sent while one runner at most has begun the job. `WithinBudget(j)` counts
what a cancel can still let through: the messages sent since, plus the rows in hand
and the pages about to be read (`Budget`), stay within a page per runner.

**Registry and pipelines.** `PendingIsChecked` says that a registration in progress
was checked against the version *before its number*. Other requests only append, so
this stays true, and the insert succeeds only when its number is the next one.
`CompatibleReads` shows that `Compatible` implies `Reads` when the older document is
closed and types all its properties; the hypothesis is needed, see the disagreements
above. For what holds only while requests do not overlap, `LoadedIsCurrent` and
`HeldIsCurrent` say that what the one request loaded is still what is stored (in
a registration, also the flag that its session holds);
`HeldExists` is the weaker part that survives races, which is enough for
`OnlyLatestIsDraft`: a version that was no draft when it was loaded has not become
one.

**Graph validator.** `SortInv` is the invariant of Kahn's loop: a count is the number
of listed edges from nodes that were not visited (`Entries`), so the nodes with count
zero are exactly those visited or queued, each once. When the queue is empty every
node left out has a predecessor that is left out. A longest path without repetition
that ends in such a node cannot be made longer, so the predecessor of its first node is
on it: the node is on a cycle or behind one (`CycleBehind`). The other direction is that
positions in the order grow along every path (`SortedIsTopological`). `SearchFrom` is the invariant of
`_reachable()`: what was found has a path through what was found (`Chain`, no node
twice, so it is never longer than the graph), and what was looked at has no successor
outside. That stages advance along every path makes the static checks the verdict.

**Analytics.** `RowsAreBehind` and `FlushReadsPast` order row, snapshot and counter, as
far as the counter has not expired. `attempts` counts the calls of `handle()` for a
bucket, and `Pending(b, k)` is the set of calls whose increment of a counter is still
ahead. `CountsHaveAttempts` bounds the sum of the counter and the size of that set: a
call enters the set as it is counted, an increment moves it into the counter, a
failure, a crash or an expiry only lowers the sum. `ReadsAheadOfRow` is what
`OnlyExpiryShrinksRows` needs: with one flush at a time nothing moves the row between
its reading and its writing.
`StopInv` says that each bucket that is counted or about to be has its row or is
remembered (`Remembered`), and that a forced flush has all of them to do
(`ForcedFlushCovers`).

**Data quality and dead letters.** `BucketIsExact` says of a bucket that is not
`spoiled` where its counts are: in memory while it is open, in the row afterwards,
and in both between the flush's commit and its pop. That the scores tell every flag is
arithmetic: a rounded ratio is 1.0 only for equal numbers while they are small enough
(`RoundTells`). `OnceInv` bounds the counts of an event plus the copies that are about
to count (`AboutToCount`) by one and its doubts, and says that a count without a
`processed` record and without a task is a doubtful one, so a copy that the check lets
through is paid for. `SeenInv` is the lower bound: a record that says `processed` has a
count behind it or was written by a raw copy that adds nothing, and a message that was
consumed has such a record, a dead letter or a task. `EntryIsOrderly` is the same for the retries of a dead letter, with
the requests that are about to publish (`AboutToPublish`) and its strays.

**Gateway and lag monitor.** `RequestIsOpen` follows a request through its `audit()`:
before it the operation has left no trace, after it its message is accounted for,
and no other request has the operation. A redelivered message of the worker, its dead
letter and the rollback of a request keep both.
`NameIsUnique` is inductive as it stands. `SampleIsHonest`: the distance of the end offset that was read from the commit is at
most what the group had before it and what had expired at that time; commits only grow,
and a start that moves later does not change what was read.
`LimiterInv` says when a member may have left the sorted set: not before its window
is over by the clock of Redis, because a call trims by a time that is at most
`MaxDelay` old and the key outlives its members. When a member is added, all members
within the window less the delay are therefore still in the set, and the script counts
them; `AdminInv` has the keys and requests that the type invariant speaks of.

**Alert stream.** `StreamInv` says what `Out`, the items sent and queued, consists of:
alerts met after the first poll, none twice, the error behind all of them and only
once the pump has ended. A poll adds what it has not seen, so the number of items put
out plus the number dropped grows by the number of alerts met; a full queue moves
items from one side of the sum to the other.

**Windows.** A state is related to the set of its events by `StateIs`; sums count units
of positive and of negative amounts, so what events add up to is a difference of
cardinalities, and the laws of `merge()` and `update()` (`MergeState`, `UpdateState`, from
`UnitsBoth` and `SumsBoth`) are those of the cardinality of a disjoint union: no
induction over events is needed. `FloatSum` is the step at which a sum is rounded: the
sum of two parts within `Exact` is within it too, and is a float. The starts that the two
windowers compute are shown to be the multiples of the step whose window covers the
event (`TumblingCovers`, `SlidingCovers`). For sessions, two chains of events (`IsChain`)
whose panes touch make one (`JoinedChain`): the event that ended the earlier pane is
followed by the first event of the later one, or was overtaken. Chains whose panes do
not touch have events further apart than the gap (`ChainsApart`), so the sessions that
are left when none touch are the same in whatever order they were joined.

**Incidents.** `KeysAreNew` says that an id or a key that an open transaction
inserted is nobody else's and not yet committed, `RowsArePublished` that only the
newest row of a task is not yet published; together they make the commit keep
`StoredIsPublishedOnce`. `TakenIsKnown` extends `NoAnomalyForgotten` to messages
whose row is not committed yet. `ReleaseIsDue` adds to `AnomalyIsReleased` that a
failing task of the investigation that keeps the anomaly has read that it must give
it back. `EvidenceIsStored` says that what a task collected is stored with its
investigation and names rows or comes from a payload, whatever the model answered, so
the filter of `validate_conclusion()` leaves only what the tools returned. `CancelIsKept`
follows from the reading of the row: a task runs an investigation (`Runs`) only after
it read it as not cancelled, and every write of its status is by such a task or a cancel. `CostIsCounted` bounds the
calls made plus the calls that metered tasks may still make (`CallsLeft`) by the
hourly counter; a retry of a message pays again, and a task takes its calls from the
set as it makes them. `SpanIsBounded(t)` is about the span of a cooldown from t on, with n the
tasks that did not begin before it: the alerts of the span, plus those that can still be
fired (all n while `last_fired_at` lies before the span, the pending ones otherwise), are
at most n(n+1)/2. Firing turns pending into fired; a stale task that commits last re-arms
the rule but is not stale any more, and the next n is larger by one, which makes room for
exactly one more round.

### Model-checked only

* Liveness (`EventuallyCaughtUp`, `EventuallyClosed`, `EveryJobEnds`): the prover
  does not handle fairness.
* `DuplicateMeansKnown`, which TLC refutes (section 3).
* The inductive invariants themselves are proved for all instances; that the runs
  reach the interesting cases is what TLC and its counterexamples for mutated models
  show.

## 5. Not modelled

* Metrics, logging, latencies and the lengths of backoffs; payloads beyond what
  decides a path; the contents of dead letters; prompts, wording and token costs.
* Spark jobs, the web console, the simulators, read-only APIs, password hashing
  and tokens, the HTTP client of the AI provider: no state of their own, or
  library code.
* The floating-point statistics of the detectors, which TLC cannot check; a score
  is a free choice.
* How long the time to live of the analytics counters is (a counter may expire at any
  time), distinct counts and top-N in the analytics
  processor. The runs have one analytics process; with two, their upserts race by
  last writer wins and a row can shrink.
* The Kafka producer's own start and stop (`_producer` is assigned before
  `start()` succeeds, so a failed start is not retried), and a consumer loop that
  dies of bytes that are not JSON.
* The overall score of a quality row, a weighted mean of the five that are modelled;
  the broker's forgetting of the offsets of a group that has been empty for long.
* Deletion of idempotency records and aggregations by retention; the Kafka tails
  of the other live streams; filter, map and enrich steps of `primitives.py`;
  user administration; acknowledging alerts.

The size and rate checks in front of ingestion are left out of `Ingestion`: a
refused request changes nothing there; the rate limiter itself is in `Gateway`.
Kafka, Redis and PostgreSQL are what their callers see of them: atomic single
commands, transactions under READ COMMITTED, a publish that may fail before or
after it took effect.

## 6. Plan

Done: the framework and its abstract specification, analytics,
ingestion, replay, the registry, pipeline versions and the graph
validator, data quality with dead letters and persistence, anomalies and alerts
with investigations and their tools, the gateway, the live stream, the lag
monitor, windows and aggregators; and the proofs of section 4.

Worth adding to the models: retention of idempotency records under redelivery,
composed with the framework; the producer's life cycle; what still holds of the
rows of two analytics processes.

Next theorems: an abstract specification of replay (a job's range, published at
least once, ended once) with its refinement. The liveness properties stay with TLC.
