# InferSight: TLA+ models, checks and proofs

InferSight puts a sidecar proxy in front of a vLLM server. The sidecar measures
every completion, exposes Prometheus metrics, and ships one record per request
to a hosted tier, which stores the records in SQLite, shows them and raises
alerts. This directory models the parts of it that keep state and run
concurrently, checks them with TLC and proves their main invariants with TLAPS.

## 1. The system

| Component | State | Operations | Hard part | Correct when |
|---|---|---|---|---|
| Hosted forwarder, `infersight/forwarder.py` and the lifespan in `proxy.py` | bounded deque, a local batch per `flush()` in flight | `enqueue`, `run`, `flush`, `_send`, `_requeue`, start and shutdown | two `flush()` calls at once during shutdown, requeue into a deque that grew, overflow, cancellation in a POST | no record is lost unaccounted or held twice, order is kept, only overflow discards, everything is shipped in the end, shutdown ends |
| Completion proxy, `_proxy_completion`, `_bounded_model_label` | gauge, counters, `_seen_models`, one coroutine or generator per request | request, POST, stream, abort | every exit path (upstream failure, client gone, odd payload) settles gauge, counter and record by hand | gauge is the work in progress, each request counted once, labels stable and bounded, bytes passed on |
| Stream measurement, `SSELineBuffer`, `StreamTimer`, `instrumented()` | line buffer, token tally, timer | feed, on_chunk, record | the network cuts lines anywhere; usage events and content mix | what is counted does not depend on the cuts, gaps and TTFT fit the duration |
| Metric store, `hosted/storage.py`, `POST /v1/ingest` | table `records`, an open SQLite transaction | insert_records, prune, other writers | an insert that fails halfway is not rolled back; answers get lost and batches come again | what was acknowledged is durable; nothing good is forgotten; only retries duplicate |
| Alert rules, `percentile`, `summary`, `_check_*` | the records in the windows | evaluate | late and early time stamps, ties, small samples, retention | a percentile is one, a slowdown is seen, retention changes no verdict |
| Alert loop, `AlertEngine`, `evaluation_loop` | `alert_events`, engine snapshots in memory, the round | evaluate, deliver, record | awaits between the cooldown check and the record; exceptions and restarts | cooldown kept, pages repeat only when unrecorded, nobody waits for ever |
| Shipping: forwarder, network, ingest handler | batches on their way, answers on their way back | POST, answer, timeout, cancellation | a POST that was given up still arrives; a record no store or encoder takes | what is counted as sent is stored, only retries duplicate, an unfit record stops nobody in front of it |
| Engine scraping, `_engine_scrape_loop`, `send_engine_state`, snapshots | gauges, the last snapshot per tenant | scrape, parse, ship | failures skip a reading or end the loop; a late snapshot replaces a newer one | what the engine shows gets to the registry and the hosted tier, and stays |
| Configuration and command line, `config.py`, `cli.py` | none after start-up | load, merge, `run`, `discover` | four layers with nested fields, environment in any order | the documented precedence, field by field |
| Discovery, `discovery.py` | one coroutine per target | probe | answers in any order, exceptions | the report is complete, in order, or there is none |
| Dashboard page and its API, `index.html`, `ingest.py` | controls, refreshes in flight, the data shown | type, connect, change window, interval, draw | refreshes overlap and each is four requests | a quiet page shows what is selected |
| Tenancy | table `tenants` | create, look up a key | - | a key answers for its tenant only |
| Passthrough proxy, rendering, mock engine | none of their own | relay, render | - | not modelled (section 8) |

How they interact. A request ends in `_proxy_completion()` or in the generator
`instrumented()`; both call `MetricsRegistry.observe_request()` and then
`forwarder.enqueue()`. The forwarder POSTs batches to `/v1/ingest`, whose handler
calls `MetricStore.insert_records()` in one step under the store's lock. A 2xx
(and a 3xx) or a 4xx settles the batch, a 5xx or a transport error brings it
back. The alert loop reads the store through `percentile()`, `summary()` and
`last_alert_ts()`, and writes `record_alert()`. `_prune_loop()` deletes records
and alert events beyond `RETENTION_SECONDS`. The scrape loop sends snapshots through
the forwarder's client to `/v1/ingest/engine-state`, from where the KV-cache rule reads
them. The dashboard polls the API with the key of a tenant. All of it is asyncio: what runs
between two awaits is atomic, and that is how the actions below are cut.

## 2. Modules

| Module | Models | Checked by | Proved in |
|---|---|---|---|
| `Forwarder` | the sidecar's forwarder with its lifespan | `MCForwarder` | `ForwarderProofs` |
| `Outbox` | what a forwarder promises: a set of pending records, shipped oldest first in bounded groups, shed only at capacity | as `PromiseKept` of `Forwarder` | `ForwarderProofs` |
| `Proxy` | completion requests: gauge, counters, labels, statuses, exit paths | `MCProxy` | `ProxyProofs` |
| `SseStream` | what is measured on one stream | `MCSseStream` | `SseStreamProofs` |
| `MetricStore` | the records table, its transaction, retries | `MCMetricStore` | `MetricStoreProofs` |
| `AlertRules` | rules, percentiles and the model comparison over records | `MCAlertRules` | `AlertRulesProofs` |
| `Alerting` | the alert loop, cooldown, delivery, restarts | `MCAlerting` | `AlertingProofs` |
| `Shipping` | `Forwarder` composed with the ingest handler over a lossy network | itself | `ForwarderProofs` |
| `Configuration` | `load()`, the environment and the flags as operators on trees | through `Sidecar` | `SidecarProofs` |
| `Sidecar` | the process of the sidecar: start-up, `discover`, the engine task and its snapshots | `MCSidecar` | `SidecarProofs` |
| `Dashboard` | the dashboard page, tenants and the API it polls | itself | `DashboardProofs` |

The MC modules give TLC its values and state what the repository says and its
code does not do (section 6). Operators named after a definition with what goes
wrong added, such as `RequeuedUnordered` beside `Requeued`, are plausible bugs:
each property of a passing run has one that makes TLC find it violated. None is
part of a specification.

### Forwarder

A record is the number of its `enqueue()` call. `queue` is the deque, oldest
first; `batch[f]` is the local of the `flush()` of caller `f`, which is
`"interval"` (the task `run()`) or `"final"` (the lifespan); `sent`, `refused`,
`evicted` and `cancelled` are histories of the ways a record leaves.
`IntervalFlush` pops a batch and starts the POST; `IntervalAccepted`,
`IntervalRefused` and `IntervalFailed` are the answers as `_send()` treats them;
`Shutdown` cancels the tasks and starts the final flush without waiting for them,
so `IntervalCancelled` is a step of its own; `Final...` are the answers to the
drain. `IntervalRaised` and `FinalRaised` are exceptions that are no
`httpx.HTTPError` (a record or key that cannot be encoded): nothing catches them, the
batch is in no queue, and `run()` ends for good (`raised`). A cancelled task is resumed before any answer to the final POST can be, so
the `Final...` actions wait for it. `Enqueue` stays possible to the end: the
generator of a stream whose client is gone is finalised by a task of its own.

The assumption `MaxBatch > 0` excludes a configuration the code accepts. With
`max_batch_size = 0` the inner loop of `flush()` pops nothing: `run()` posts an
empty batch every interval, and `flush(final=True)` posts empty batches for as
long as they are accepted, so that shutdown hangs.

### Proxy

`pc[r]` names the await a request is suspended at: `posting` and `opening`
(waiting for upstream), `reading` (the server waits for the next network read of
the stream), `sending` (the generator is suspended in `yield raw`), `closing`
(`await upstream.aclose()` in the `finally`). `Read` parses a network read before it is
yielded, as the code does. A usage is `usable`, `odd` (no object: `.get()` raises
AttributeError), `infinite` (`int()` raises OverflowError) or `negative`
(`Counter.inc()` raises ValueError); each raises at another line and is caught or
not accordingly. `Unforwardable` is a header httpx cannot encode. The client
leaves while the generator reads (CancelledError, the status becomes
`stream_aborted`) or while it is suspended at its yield (GeneratorExit, which no
`except` names, so the status stays upstream's).

### SseStream

The byte stream is a sequence of symbols: a newline, the parts of an event line,
a comment. A read takes any non-empty prefix of what is left. The buffer, the
tally of contents and usages, and the timer are the code's. Time is an integer
clock that advances by any delay up to a bound before a read and before the
record is made. Lines are found by the positions of their newlines (`LineEnds`, `Events`,
`Rest`), a payload is the symbol after `data:`. Symbols are not cut in two: cutting inside one and between two has the same
effect, the rest stays in the buffer until the newline comes. A usage whose count raises
(`proxy.py:207`) aborts the stream; that end of a request is in `Proxy` (`Read`), and the
usages here are the ones that count.

### MetricStore

`rows[r]` counts the committed rows of a record, `open[r]` those in the
connection's open transaction. Python's sqlite3 opens a transaction before an
INSERT and nothing rolls back when `executemany()` raises, so `PostUnstorable`
leaves rows open and `OtherWrite`, `Prune` or the next `PostStored` commits them.
Kinds of records are what the conversions make of them: `malformed` is skipped,
`infinite` raises through the loop, `unstorable` fails in SQLite. `Answer` lets
the answer to a batch get lost: the sidecar then still has it queued. `refused` is a batch that
was too large and is dropped, the one way in which a good record is forgotten by design.

### AlertRules and Alerting

`AlertRules` has the table of one tenant and evaluates the rules as operators in
every state: `Sample`, `Percentile`, `Summarised` follow the SQL, with fractions
for the probabilities. `Alerting` takes breaches as input (`RecordsChange`) and
models what happens to them: a round goes tenant by tenant (`Evaluate`), checks
the cooldown (`Skip`, `Deliver`), awaits each channel (`Answered`), and records
(`RecordAlert`). `Raise` is an exception that ends the round, `Restart` a stop of
the process, which forgets the snapshots and keeps the database.

`AlertRules` also has the rows of `model_comparison()` (`Compared`, `RowSample`),
which the dashboard shows beside `summary()`.

### Shipping

`Shipping` extends `Forwarder`: each of its steps is a step of `Forwarder` joined with
what it means for the request (`Taken`, `Dropped`, `GivenUp`, `Unsent`), a step of the
network or a step of the hosted tier. `Deliver` lets the handler see a batch and puts its status on
the way back; the caller may get it, or give up before or after (`GivenUp`: timeout,
broken connection, 5xx). A POST that is abandoned on its way is in `stray` and may arrive
at any later time. `Handled` is `insert_records()` with its open transaction;
`OtherWrite` and `Restart` commit or forget that. `Unstorable` records are
those with an integer above 64 bits, `Unencodable` ones a NaN or a lone surrogate.

### Configuration and Sidecar

A JSON object is a function from the paths of its leaves to their values.
`Merged` is `_deep_merge()`, `Assigned` one assignment of `_from_env()`, `Overrides` what
`main()` makes of the flags. `FirstSource` states the documented precedence without
merging anything. `Sidecar` starts the process from any combination, a file that is missing or
holds no JSON object (`readable`) included (`Fail`, `Discover`, `Serve`). `discover` has a coroutine per target at one of its two awaits (`ModelsAnswered`,
`MetricsAnswered`), joined by `gather()` (`Report`, `Crash`). The engine task is at one of
three awaits: `scraping`, `shipping`, `sleeping`; `ScrapeRaises` and `ShippingRaises` end
it. A snapshot arrives at the hosted tier while its sender waits (`SnapshotArrives`) or after it
gave up (`LateArrives`).

### Dashboard

A refresh in `flight` is the key and window it was sent with and the requests that are
still `pending`. `Draw` is the last of them, `Rejected` the first failure; both take the
refresh out and mark the older ones as `overtaken`. What a panel shows is the tenant and
the window it was computed for; `alerts` takes no window. `TypeKey`, `Connect` and
`ChangeWindow` are the user, `IntervalFires` the timer.

## 3. Runs

| Run | Distinct states | Bounds | What it shows |
|---|---|---|---|
| `forwarder` | 8,435 | queue 3, batch 2, 6 records | order, one place per record, overflow, the promise of `Outbox`, and both liveness properties |
| `proxy` | 42,002 | 2 requests, 2 models, 1 label, 2 reads, all usages | gauge, counting, labels, statuses, bytes, and that requests are counted in the end |
| `sse_cuts` | 274,967 | all streams of 1 to 3 lines, with and without a last newline; delay 0 or 1 | tally, gaps, record |
| `store_safety` | 5,700 | 4 batches (malformed, infinite, unstorable, too large), 2 posts per batch, time 0..3, retention 1 | durability, nothing good forgotten, copies |
| `alert_rules` | 235,867 | all tables of up to 3 records in 2 clusters, windows of 1, retention 2, skew 1, time 0..3 | percentile, slowdown, summary and comparison, retention |
| `alerting` | 74,760 | 2 tenants (one ships snapshots, one records), 2 rules, 1 channel, cooldown 2, retention 2, time 0..2, 1 failure | cooldown, repeats, prune, and that an incident of either tenant is recorded or passes |
| `shipping` | 52,837 | queue 3, batch 3, store cap 2, 5 records of which one cannot be stored and one cannot be encoded, 1 stray POST | stored, duplicates, progress ahead of unfit records |
| `sidecar` | 288,444 | 3 files and an unreadable one, all sequences of up to 2 of 6 environment variables, all subsets of 3 flags; 3 targets in 2 worlds; 3 pages, 2 changes | precedence, discovery, readings |
| `dashboard` | 336,972 | 2 tenants, 2 windows, 2 panels, 3 refreshes in flight, 4 acts of the user, 1 failure | the quiet page, and what it shows in the end |

Why these bounds are enough to see the interesting cases:

- `forwarder`: the queue (3) is no multiple of the batch (2), so there are whole
  and partial batches; six records fill the queue while one batch is in flight
  and overflow it by one and by a batch; both flushes can hold a batch at once,
  each behind the other.
- `proxy`: interactions between requests are through the gauge and the set of
  labels; two requests with two models and a cap of one share and exceed both.
  Two reads put a failure before, between and after reads that were sent.
- `sse_cuts`: three lines put a usage before, between and after contents, a null
  usage and a `[DONE]`; every cut between symbols is tried, so a line may come
  over several reads and several lines in one.
- `store_safety`: every pair of a failed insert and another writer's commit
  occurs, and a batch is sent again after each failure and after a lost answer.
- `alert_rules`: three records with four latencies and none, stamped before,
  within and after each window, have ties, single records and empty windows; the
  percentile 2/3 falls on whole and broken ranks.
- `alerting`: time passes the cooldown and reaches the retention; the failure can fall in every
  step of a delivery; the exception of the first tenant ends the round of the second.
- `shipping`: a batch can be all of the queue, so it is too large with three records
  and not with two; the two unfit records come alone, together and with fit ones before
  and after them. One stray POST is enough to insert a record again after its retry.
- `sidecar`: two variables are every pair of a field, its sibling and their object, in
  both orders; of three targets one raises, fails or differs while the others answer. A
  page has a gauge that is shown, absent, odd or infinite, and two changes put an absent
  one after a shown one.
- `dashboard`: three refreshes have one behind and one ahead of another; two panels
  are one that takes the window and one that does not. Deadlock is not checked: when the
  user stops and no timer is set, nothing need happen.

## 4. Properties

`forwarder`: `HeldInOrder` (across both batches and the deque), `EachRecordInOnePlace`,
`SettledBeforeHeld` (no overtaking by retries), `DiscardsOnlyOverflow`,
`PromiseKept` (refinement of `Outbox`), `HeldIsSettled`, `DrainEnds`.
`proxy`: `GaugeIsWorkInProgress`, `CountedOnce`, `LabelStable`, `LabelsBounded`,
`StatusTellsEnd`, `PassedThrough`, `CountedEventually`.
`sse_cuts`: `TallyIgnoresCuts` (against a definition over the whole byte stream),
`GapsTelescope`, `RecordConsistent`.
`store_safety`: `AcknowledgedIsDurable`, `GoodIsQueuedOrStored` (a good record is queued at the
sidecar or has a row, whatever its batch mates do to the insert), `CopiesFromPosts`.
`alert_rules`: `PercentileIsRank` (against the definition of a percentile),
`SlowdownSeen` (against a count of the last window of its own), `SummaryAmongRows` (the P99 of the summary lies between those of the rows of
the comparison), `PruneKeepsVerdicts`.
`alerting`: `CooldownKept`, `RepeatsOnlyUnrecorded`, `CooldownEndsByTime`,
`IncidentIsRecorded`.
`shipping`: `SentIsStored`, `DuplicatesAreRetries`, `FitIsSettled`.
`sidecar`: `PrecedenceKept` (against `FirstSource`, for environments in which `INFERSIGHT_HOSTED`
is an object and comes before the variables of its fields, `ObjectFirst`), `ReportIsComplete`, `ReadingArrives`.
`dashboard`: `QuietScreenIsRight`, `SelectionIsShown`.
`TypeOK` of `Forwarder`, `Proxy`, `SseStream` and `Alerting` is the type invariant of each;
that of `MetricStore` is proved and not run.

`PROJECT.json` lists the hazards of the code, line by line, with the properties
that would catch each.

### Fairness

- `Forwarder`: weak fairness on waking up, on the answers, on the delivery of a
  cancellation and on the answers to the drain: the event loop resumes what can
  run, and the client's 10 s timeout ends every POST. Strong fairness on `IntervalAccepted`: the
  hosted tier is not down for ever. Only `HeldIsSettled`
  needs it. It excludes the batch that is answered 500 for ever because the store
  cannot take it; `Shipping` does not.
- `Shipping`: as in `Forwarder`, and of infinitely many POSTs of the interval task some
  are delivered and some answers come back. What the answer is, is up to the handler.
- `Sidecar`: the engine task is resumed and its requests end; of infinitely many scrapes
  some are answered, of infinitely many snapshots some arrive. Nothing is assumed about
  late ones, and nothing is needed for safety.
- `Dashboard`: the interval fires and the oldest refresh is resolved, as the browser ends
  every request. The user is not obliged to anything.
- `Proxy`: weak fairness per request on the answers and on the steps of its
  stream: the timeouts of the httpx client end every wait for upstream, and a
  client takes what it is sent or leaves.
- `Alerting`: weak fairness on the loop: its sleep and its POSTs end. Nothing is
  assumed about the environment; failures are bounded by `MaxFailures`, so the
  property says that the loop recovers from those it meets.

## 5. Proofs

Every theorem is of the form `Spec => []Inv`, `Spec => [][A]_vars` or a refinement,
for all values of the constants under the named assumption of the module. The
MC bounds (`MaxRecords`, `MaxPosts`, `MaxClock`, `MaxFailures`, ...) are constants
like the others, so each holds for every bound.

| Theorem | Establishes | Along |
|---|---|---|
| `ForwarderProofs!TypeCorrect`, `NoRecordLostOrDuplicated`, `OrderKept`, `NoOvertaking`, `OnlyOverflowDiscards` | `TypeOK`, `EachRecordInOnePlace`, `HeldInOrder`, `SettledBeforeHeld`, `DiscardsOnlyOverflow` | the conjunction is inductive: a requeue keeps the order only because a batch precedes the deque, and the places stay disjoint only because what is held is ordered without repeats. Lemmas say what append, tail, split and requeue do to order and range |
| `ForwarderProofs!ForwarderImplementsOutbox` | `PromiseKept` | every step maps to a step of `Outbox` or a stutter; a batch is a group of oldest records by `HeldInOrder`, its size is that of an ordered sequence |
| `ProxyProofs!TypeCorrect`, `GaugeCorrect`, `CountingCorrect`, `LabelsCorrect`, `LabelCap`, `StatusCorrect`, `PassingCorrect` | `TypeOK`, `GaugeIsWorkInProgress`, `CountedOnce`, `LabelStable`, `LabelsBounded`, `StatusTellsEnd`, `PassedThrough` | for any finite set of requests. The labels need that `seen` never shrinks and that a model folded once finds the set full ever after; the statuses and the passing through need what is true at each suspension: the client lacks at most the chunk in its send |
| `SseStreamProofs!GapsCorrect`, `RecordCorrect` | `GapsTelescope`, `RecordConsistent` | the timer's part of the state is inductive whatever the buffer yields |
| `SseStreamProofs!TallyCorrect`, `TypeCorrect` | `TallyIgnoresCuts`, `TypeOK` | the buffer is the partial line at the end of what was received (`BufInv`), so the payloads of all that was received are those before it and, moved, those of the buffer and the read together (`AtSplits`): a bijection counts them, and the last usage report is the last of either. Events, which `feed()` finds by where a line begins, and payloads, which the property finds by their neighbours, are matched by an order-preserving bijection (`EventsArePayloads`) |
| `AlertRulesProofs!PercentilesAreRanks`, `SlowdownIsSeen`, `PruneIsUnseen`, `SummaryIsAmongRows` | `PercentileIsRank`, `SlowdownSeen`, `PruneKeepsVerdicts`, `SummaryAmongRows` | a sample's counts at most and below a number grow with it, so the least number that more than the offset of the sample reach is one of its latencies (`PercentileLemma`), at the share `P` by the arithmetic of the offset; from that the rule's two sides (with the requests of the last window among those `summary()` counts) and, as `prune()` takes nothing a window reaches, the verdicts. For the comparison, what is counted of a sample is the sum of what is counted of its rows (`RowsAddUp`): were every row above the summary, or every row below, the shares would not add up |
| `MetricStoreProofs!TypeCorrect`, `DurabilityCorrect`, `NothingGoodForgotten`, `CopiesCorrect` | `TypeOK`, `AcknowledgedIsDurable`, `GoodIsQueuedOrStored`, `CopiesFromPosts` | inductive together; durability needs that only `prune()` lowers a committed count, and that the batch which commits is inserted up to its last record; nothing good is forgotten because what the sidecar holds for accepted was acknowledged, and only a batch that is too large is refused (`AnswersFit`) |
| `ForwarderProofs!ShippingIsForwarding`, `SentIsDurable`, `OnlyRetriesDuplicate` | the composition implements `Forwarder`!`Spec`; `SentIsStored`, `DuplicatesAreRetries` | the first brings every invariant of the forwarder into the composition; a 2xx on its way back to a caller says that its batch is committed; a record is on its way, in the queue and inserted at most in one place unless it was put back |
| `DashboardProofs!QuietScreenRight` | `QuietScreenIsRight` | the newest refresh in flight is of the selected window, or one started after it is over: a refresh that is not overtaken and empties the flight was the newest |
| `SidecarProofs!PrecedenceCorrect`, `ReportCorrect` | `PrecedenceKept`, `ReportIsComplete` | places of different fields are not comparable, so a merge is decided field by field; an assignment takes nothing away but what it sets anew, as an object comes before its fields (`KeptLemma`), so after n assignments `_from_env()` has the leaves of the first n variables, of two the later (`EnvLemma`); what a probe says fits what listens, and `gather()` waits for all |
| `AlertingProofs!TypeCorrect` | `TypeOK` | the task is at a tenant whenever it is awake, and the first of the alerts is a rule's position |
| `AlertingProofs!CooldownCorrect`, `RepeatsCorrect`, `CooldownDurable` | `CooldownKept`, `RepeatsOnlyUnrecorded`, `CooldownEndsByTime` | what `prune()` took is older than the retention, hence than the cooldown; what the check at the start of a delivery found still holds when the alert is recorded, since nobody else records; a page is of the current alert, lost, or followed by its event |

Assumptions: `ForwarderAssumption` (positive capacities), `ProxyAssumption`
(finitely many requests, the reserved labels are no models; the proofs need no more),
`SseAssumption` (streams of the symbols, `"none"` is no usage payload), `RulesAssumption` (the
percentile is at most 1, and both windows are within the retention), `SidecarAssumption`
(variables of an environment differ, each is a leaf or an object below its name, and
flags are those the command line has), `StoreAssumption` (batches share no record), `AlertingAssumption`
(`Cooldown <= Retention`: 15 minutes and 14 days), `ShippingAssumption` and
`DashboardAssumption` (types and reserved names).

Inductions. The theorems of the library that state induction take an operator, which the
provers at hand cannot instantiate. Where the argument is an induction (the existence of
a greatest element and of a percentile, the sum over the rows of the comparison, the loop
of `_from_env()`), it is done as the descent of a least counterexample: `Least`, from the
well-foundedness of `<` on the naturals, gives one, and the step below it contradicts.
`SelectSeq` is never expanded: `discover` and its property pick from the same targets
(`Among`), and what is proved is that they pick the same ones. For the same reason the
alerts of a tenant are positions of rules.

Only model-checked: liveness under fairness (`HeldIsSettled`, `DrainEnds`,
`CountedEventually`, `IncidentIsRecorded`, `FitIsSettled`, `ReadingArrives`, `SelectionIsShown`)
is beyond the prover. Every invariant, action property and refinement of a passing run
is proved.

## 6. Where code and documentation part

Three runs check what the repository says and find it violated by what the code does.

- `forwarder_drop_oldest`: `docs/configuration.md:34` and `forwarder.py:5` say
  drop-oldest. `appendleft()` on a full deque discards at the right end: after a
  failed POST the newest records go.
- `proxy_gauge`: `metrics.py:119` describes the gauge as requests currently being
  served. A streamed request whose upstream request cannot be built raises after
  `inc()` and outside of every `try`; the gauge stays one too high for good.
- `store_skipped`: `storage.py:106` says malformed records are skipped and never
  cost the good ones. An infinite number raises OverflowError, and a NaN or a
  65-bit integer fails in SQLite; the batch is answered 500.

Other divergences seen while modelling, which the models show (or leave out) and
no run of their own checks:

- The batch of the interval task is lost when the lifespan cancels `run()` in its POST:
  `CancelledError` is no `httpx.HTTPError`, so nothing requeues it (`IntervalCancelled`),
  against "the whole backlog is drained" (`forwarder.py:46`).
- An alert is recorded after its channels were awaited; a restart or an exception in
  between repeats the page within the cooldown, against `alerting.py:11` (one page per
  incident). `RepeatsOnlyUnrecorded` says that nothing else repeats one.
- `--hosted-url` without `--hosted-api-key` is ignored (`cli.py:70`), against "Explicit CLI
  flags" first (`config.py:5`); `PrecedenceKept` names the exception.
- `INFERSIGHT_HOSTED` with a JSON object replaces what earlier `INFERSIGHT_HOSTED__...`
  variables set, and a string there makes a later one raise `TypeError` (`config.py:133`).
  `PrecedenceKept` is about the other environments (`ObjectFirst`).
- `send_engine_state()` "never raises" (`forwarder.py:89`), but an infinite gauge or a key
  that is not ASCII does, and the scrape loop ends for good (`ShippingRaises`). So does a
  number that `float()` does not take (`ScrapeRaises`).
- A cluster named `""` is no filter for `percentile()` (`storage.py:198`): its row of the
  comparison shows the percentile over all clusters (`RowSample`).
- A redirect is below 400 and counts as accepted (`forwarder.py:77`); httpx does not follow it.
- A 4xx to one slice ends the final drain with the slices behind it unsent
  (`FinalRefused`), against "the whole backlog is drained" (`forwarder.py:46`).
- A `usage` that is no object or holds an infinite number aborts a stream before
  its read is yielded, against "passed through untouched" (`proxy.py:7`); on a
  plain completion the infinite one ends in a 500 and no counter. `PassedThrough`
  and `CountedEventually` name these exceptions.
- A reported usage of 0 tokens is replaced by the count of chunks (`proxy.py:230`).
- A batch that is sent again has several rows per request, against
  `docs/architecture.md:51`; `CopiesFromPosts` bounds them by the number of posts.
- The regression rule compares `min_requests` with the number of requests, and
  the percentile may rest on the one that had a first token (`alerting.py:94`).
- A record the store can never take is answered 500, requeued in front and sent at every
  interval, against "drop rather than loop forever" (`forwarder.py:79`, said of malformed
  batches); it holds back everything behind it until overflow pushes it out.
- The regression rule counts records stamped in the future as requests, and its percentiles
  do not look at them: with a sidecar whose clock is ahead it fires on fewer than
  `min_requests` (`storage.py:157`). `SlowdownSeen` excepts such tables.

## 7. Plan

Done in this order, the most important behaviour first: `Forwarder` with `Outbox`
and its proofs, `Proxy`, `MetricStore`, `Alerting`, `SseStream`, `AlertRules`, then the
composition `Shipping`, the process `Sidecar` with `Configuration`, and `Dashboard`. What is
left:

1. `timeseries()` and `models()` in `AlertRules`, with buckets that the window cuts.
2. Snapshots of several replicas in one tenant: `Sidecar` composed with `Alerting`.

## 8. Not modelled

- Mock engine: a stand-in for demos and tests.
- Passthrough proxy: relays one request, counts nothing and keeps no state.
- `argparse`, printing, `--hosts` and `--ports`; the coercion of types by pydantic, but for a key
  that is a number.
- The admin token, and that each query names its tenant: a comparison and a textual
  property of the SQL. `timeseries()`, `models()` and the sums and means of the API.
- Rendering and histogram buckets: `prometheus_client`. A model name with a lone surrogate
  becomes a label it cannot encode, and `/metrics` fails from then on (`metrics.py:168`).
- External code is modelled from how the source uses it: asyncio (atomic between
  awaits; a cancelled task gets its CancelledError at its await), Starlette (a
  response is cancelled or its generator abandoned when the client leaves), httpx
  (timeouts, `HTTPError`, ASCII headers), SQLite through `sqlite3` with its
  implicit transactions, and the clock. `upstream.aclose()` is taken not to raise
  or be cancelled a second time.
- Bounds that only TLC needs are constants named `Max...` in each module.
