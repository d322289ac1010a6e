# HimalayaAir in TLA+

HimalayaAir collects air-quality readings of the Kathmandu valley, stores them
in TimescaleDB and shows them on a live map. This directory holds TLA+ models
of the parts of the system that keep state, move data between processes, or
decide what a user is told about the health of the data; the TLC runs that
check them on small instances; and theorems about them, proved with TLAPS.

Paths below are relative to the repository. `PROJECT.json` lists, for every
definition of a module, the source lines it models (`map`), every run, one
mutation per property that the run must catch, the hazards the properties are
for, and the theorems.

    tlc -config OpenAQPollerPair.cfg OpenAQPoller     # one of the runs
    tlapm OpenAQPollerProofs.tla                      # the proofs

## 1. Inventory

| Component | State it keeps | Operations | Talks to |
|---|---|---|---|
| OpenAQ poller `services/openaq_poller` | none between runs; the watermark is in `pipeline_runs` | `run_once`: window, fetch per sensor, ingest | OpenAQ API, direct ingestion, database |
| Direct ingestion `services/common/aq_ingestion.py` | none | transform, `write_batch`, `record_pipeline_run` | database |
| Worker `services/worker` | next tick and health of every component, in memory | the task loop, backoff, `/health` | poller, weather, forecast |
| Pipeline health `services/api/health_checks.py`, `service.py` | none | judges worker, database, coverage | worker `/health` |
| Spark stream `services/spark` | Spark checkpoint, rows, notifications, runs | micro-batches of `raw-aq-readings` | Kafka, database |
| Live feed `services/api/websocket.py`, `cache.py` | open sockets, last pushed timestamp, cache | notifier poll, broadcast, snapshot | database, browsers |
| Dashboard `frontend/src` | what is on the screen | socket events, refreshes | API |
| OpenAQ backfill `airflow/dags/himalayaair/openaq_backfill.py` | `backfill_manifest` | load past days, archive first, API second | OpenAQ archive and API, database |
| Weather backfill `.../weather_backfill.py` | `backfill_manifest` | load past months | Open-Meteo archive, database |
| Weather poller `services/weather_poller` | `weather_readings`, modeled readings | poll past and coming hours | Open-Meteo, database |
| Forecasting `services/forecasting` | `forecasts`, `forecast_accuracy` | one run over all stations | database |
| Data quality `.../data_quality.py` | `coverage_snapshots` | the check, deactivation of dead sensors | database |
| FIRMS load `.../firms.py` | `fire_events`, `backfill_manifest` | load the fires of a range of days | NASA FIRMS, database |
| Forecast hook `.../forecast_hook.py` | none | one call of the forecast run | forecasting |
| API queries `services/api/repository.py`, `domain.py`, `cache.py` | cached heatmaps | coverage mode, heatmap, advisory, other reads | database |
| AQI calculator `services/common/aqi_calculator.py` | none | concentration to index, index to category | ingestion, API, forecasts |
| Replay publisher, Kafka client `shared/kafka` | none | append messages to the raw topic | Kafka |
| Metadata sync `scripts/sync_openaq_metadata.py` | stations and sensors | upsert the registry | OpenAQ API, database |

What makes each of them correct, modelled or not:

* *OpenAQ poller, direct ingestion, metadata sync*: a published measurement is passed
  over only for reasons that can be named; the registry follows the rows.
* *Worker, pipeline health*: ticks neither burst nor stop, backoff is kept, a
  component that fails shows through every layer that reports health.
* *Spark stream, replay publisher, Kafka client*: every valid message that its batch
  still finds on the topic is applied once whatever crashes; a rejected one is kept;
  what is announced is stored.
* *Live feed, dashboard*: each advance reaches each socket once and the screen
  catches up with the database.
* *Weather poller, backfills*: a success on record means that the rows are there, and
  rows are counted by the writer that inserted them.
* *Forecasting*: a weaker model says why it was taken, a report matches the tables,
  every forecast with an observation is scored.
* *AQI calculator*: monotone, within the category of its breakpoints, defined at
  every boundary; an advisory says what its worst reading says.
* *Data quality*: its snapshot claims no better coverage than the API finds, unless the
  two look at different rows.
* *FIRMS load*: a day marked as loaded has its fires, and each is counted once.
* *API queries, coverage mode*: a heatmap shows what its mode stands for and nothing
  else, whatever is stored or cached while it is made.

The components share no memory. They meet in the database (`aq_readings`,
`station_sensors`, `pipeline_runs`, `backfill_manifest`), in Kafka topics, over
HTTP health checks and over the live socket. What makes the system hard is
therefore the order of small transactions of several processes: readings are
written in one transaction and the record that says so in another; the `full`
compose profile runs the worker *and* the standalone poller under one component
name; the stream may run a batch again after a crash; the API answers from a
cache while the notifier reads the database.

## 2. Modules

### OpenAQPoller (+ OpenAQPollerProofs)

`now`, what OpenAQ has `published` and which of it the table cannot hold (`refused`),
the tables `rows` (aq_readings), `datetimeLast` and `active` (station_sensors), `runs`
(the rows of pipeline_runs the window query can return) and one `job` per poller
process, which is the local state of `run_once` and `_poll_sensors`. Actions follow the
code: `BeginPoll` reads the watermark and the active sensors,
`FetchSensor`/`FetchSensorFails` is one turn of the sensor loop with its page limit,
`WriteBatch` and `RecordRun` are the two transactions of `ingest_messages`,
`RefuseBatch` is a batch with a value that the column cannot hold, which loses its
transaction on every attempt, and `Abandon` is every other exception that ends the run
and every crash. Pollers in `Manual` are started by hand with `--once`.

A measurement is published any of `Delays` after its timestamp, which is the start of
its period (`openaq_client.py:161`). The overlap of the windows is ten minutes by default,
while values "can take hours to show up" (report, line 22), so the model does not tie one
to the other. `missed` is a history variable: the measurements that were published when
a recorded window, or one under way that asks for its sensor no more, had passed their
timestamp by more than the overlap (`PassedBy`). Nothing in the code notices them.

Beside them, two others write the registry. `DeactivateDead` is the step of the
data-quality check that takes silent sensors out of the polls. `FetchMetadata` and
`SyncMetadata` are `sync_openaq_metadata.py`, which asks OpenAQ first and writes
later what it was told, over whatever the pollers have written in between.

* `NoSilentLoss` — the watermark never passes a published measurement unless it was
  `missed` or some counted run did not read its sensor in full. Two pollers, crashes,
  failed and refused transactions add nothing to these two reasons. Proved.
* `RegistryMatchesRows` — `datetime_last` is never behind a stored reading, except
  where a sync put it back (`overtaken`). Proved.
* `EventuallyStored` — a published measurement is stored in the end unless it was
  missed, the poller gets nothing stored for as long as the lookback, its sensor is
  deactivated or was read short. A refused measurement blocks all that share a window
  with it, and no longer: the property demands the others once the windows have left
  it behind. Only where the clock stops before that (`Blocked`) it demands nothing.
* `NoLostWindow` — what the report promises. **Violated**: a run in which a
  sensor failed is recorded as `success` and moves the watermark.

### Worker, MCWorker (+ WorkerProofs)

One task per component: `nextTick`, `started`, and the health record the worker
serves; then, as operators of that record, what `/health` and the API say.
`Succeed` and `Fail` take the time at which the result says it finished, which
may lie before the clock. `Watched` are the components that `health_checks.py`
maps to services; one of them that is not enabled is missing from the worker's answer
and counts as down. Properties: `RespectsBackoff`, `NoBurstNoGap`,
`FailingServiceShows`, `HealthyMeansNoneWaitsAfterFailure` and
`BrokenWorkerShows`, all proved, and `EventuallyRuns`: a run that hangs does not hold
up the other components.

### SparkStream, ReadingLog, MCSparkStream (+ SparkStreamProofs)

`ReadingLog` is what the stream promises: every message of the topic is applied to
aq_readings once, in order, and a row is never changed. `SparkStream` is how the code
does it: Spark's offset and commit logs (external), the transaction `write_batch`, the
notifications, the record of the run, each to another system. Kafka keeps a raw message
for 24 hours and the query is told not to mind what is gone (`failOnDataLoss` false,
`aq_stream_processor.py:668`): whenever a batch reads its offsets, any number of the
oldest may have expired (`BeginBatch`, `skipped`), in a batch that is run again too, and
the batch goes on and is committed without them. `ReadingLog` allows the same, and only
that. `AppliesOnce` states that `SparkStream` implements `ReadingLog`, with the offset
up to which batches are written as its `position`. `CommittedIsStored`,
`AnnouncedIsStored`, `RegistryCoversRows`, `RunsNeverOvercount` relate the topic, the
tables and the notifications, and are proved like `AppliesOnce`. `RunsNeverOvercount` is
about what pipeline_runs has: `records_processed`, which counts all readings of a batch,
so those of a replay again, and the duplicates in the metadata. The number of rows
written is not recorded; the difference of the two is what a reader of the table can
claim for it, and it is this difference that must not overcount. In `EventuallyStored`,
what has expired is excused, and what lies behind a message the database refuses, which
fails its batch on every restart, as long as that message has not expired itself.
`RejectedIsKept` is **violated**: a Kafka error while dead letters are published is only
logged and the batch is committed.

### LiveFeed (+ LiveFeedProofs)

The notifier's poll and broadcast (one send at a time, over a copy of the connections),
the socket handler, which accepts a socket (`Connect`) before it registers it
(`Register`), so that a broadcast in between misses it, the snapshot through the station
cache and a dashboard that refreshes when it is told to. `NoRepeatedPush` and
`OpenIsRegistered` are proved, `AdvanceReaches` is checked. `ScreenCatchesUp` is
**violated**: the refresh can be answered from a cache entry older than the reading.

### OpenAQBackfill, MCOpenAQBackfill (+ OpenAQBackfillProofs)

The manifest, the table and the local state of each run of the DAG: the units
(day, location) in order, the sensors not loaded yet, the file of the archive or
the answer of the API, the insert and the manifest row in two transactions.
`LoadedIsStored`, `SuccessIsComplete`, `ManifestNeverOvercounts`,
`CompletedIsSkipped` (for runs that do not overlap: of two overlapping runs one
may replace the other's success by its own failure, after which the day is
fetched again). All four are proved.

### WeatherBackfill

Rows, manifest and the local state of one run: the windows of the months in the
range, the check, the load and the manifest row, which is kept under the first
day of the month whatever part of it was asked for. `SuccessIsComplete` is
**violated**: a range that ends inside a month leaves a success behind which
makes later runs skip the rest of the month and still report success.

### WeatherPoller, Weather, MCWeather (+ WeatherProofs)

One `job` per poller is the local state of `run_once` and `_poll_locations`: the
calls still to make, those that raised, the readings collected. The order of the
calls is left open, since nothing but the batch depends on it. `InsertWeather` and
`InsertModeled` are the two transactions, `Record` the row of pipeline_runs and
`Update` the health that follows it. An hour is one row whatever its values, so that
an hour which was stored incomplete counts as stored, as it does for the code.
`Weather` puts the poller beside `WeatherBackfill` over the same `weather_readings`.
`SuccessIsStored`, `HealthIsRecorded` and `RowsAreClaimedOnce` relate what a run
claims to the calls it made, to the record and to the tables. All three are proved.

### Forecast (+ ForecastProofs)

The operators `Chosen`, `AfterFailure` and `Built` are the arbitration of the models
with their reasons; the actions are one run of `run_forecast_once`: the loop over
stations and pollutants in which a build may fail, then the three transactions `Write`,
`Score` and `Record`. `NeverSilent` checks the arbitration for every context it can
meet; `ReportIsTrue` relates the recorded outcome to the forecasts in the table (both
proved); `EventuallyScored` promises the score of every forecast whose target was
observed, though the run that should have scored it broke off or the reading came late.

### AqiCalculator, Coverage

Pure rules. `CalculateAqi` takes hundredths of a microgram and follows the code
through truncation (`Tenths`), the table, the interpolation with its rounding, and
`AqiCategory`. `Coverage` has the two rules that judge how good the data is:
`ChooseCoverageMode` of the API and `ClassifyQualityState` of Airflow.

### Readings

The tables that the API and the data-quality check read, and their statements as
operators: the counts, the points of a mode, the readings of a station. A reader is
one transaction at READ COMMITTED: `NOW()` stays the time it began (`asked`), but
each statement sees what was committed before that statement. So each statement of a
request is an action of the modules below, and `Write` may come between any two.

The weather poller stores modeled readings for hours to come, and with each the index
that Open-Meteo gives, or none: `Aqi` takes the stored index first, as
`fetch_modeled_points` does, and the calculator only without one. A run replaces the rows
of its locations and hour for every reader, who takes the newest run. The rows of
`aq_readings` carry the index that the ingestion calculated from the value. Their values
are hundredths, as the column keeps them; that a measurement with more decimals is indexed
before it is rounded is left out.

### Heatmap, Advisory, DataQuality

The three readers. `Heatmap`: requests for the interpolation, which find their mode,
look for a cached heatmap of that mode, else read the points and keep the grid.
`HeatmapIsHonest` says that no answer shows points of another kind or age than its
mode stands for. `Advisory`: the coverage, the nearest station, and if that has no AQI
the coverage again and the valley. `AdvisoryMatchesReadings` says that its category
and its advice are those of the worst point, judged by the index that came with it or
else by its concentration.

`DataQuality`: the check, statement by statement, its snapshot and its record in two
transactions. The windows are the check's own: `CheckWindows` are those that
`AIRFLOW_QUALITY_FRESH_HOURS`, `AIRFLOW_QUALITY_RECENT_HOURS` or the conf of a DAG run may
give (2 and 24 hours by default), while `FreshHours`, `RecentHours` and `ModeledHours` are
the API's (2, 24 and 24). The check looks for modeled rows as far back as its recent window
and as far ahead as there are any; the API within `ModeledHours` and three hours ahead.
`RulesAgree` says that the snapshot claims no more than the API finds in the same hour,
unless its window was longer than the API's or the only modeled rows are ones that the API
does not take for the present (`LooksFurther`). With the default settings the second is the
only cause left, and then all those rows lie more than three hours ahead. All three
properties are proved.

### Firms

Loads of fires, which may overlap: for each day the manifest is looked up, FIRMS is
asked, the fires are inserted and the day is recorded, in that order and in separate
transactions. A load of one day asks for `firms_day_range` days at once. `loaded` is a
history variable: the fires that the successful loads of a day were shown.
`FiresAreStored` relates it, the manifest and the recorded outcome to the table, and is
proved.

### AirQuality, MCAirQuality (+ AirQualityProofs)

Puts the readers and the load of the fires in one specification. No reader writes
what another one reads, so nothing is lost when a behaviour has one of them: `reader`
is chosen in the initial state. Two heatmap requests, which do share the cache, run
beside each other.

## 3. Runs and bounds

| Run | Instance | Shows |
|---|---|---|
| `poller_pair` | 1 sensor, a polling loop and a poller started by hand, overlap 1, lookback 2, delays 1 and 2, 2 measurements, 1 measurement per fetch, dead after 2, clock to 3, 1 event | types, `NoSilentLoss`, registry, liveness |
| `poller_lost_window` | 1 poller, delays 0 and 1, which the overlap covers, more measurements per fetch than there are, 1 failure | violation of `NoLostWindow` |
| `worker_schedule` | 2 components with periods 2 and 3, backoff 1 to 3, clock to 6, 1 restart | schedule, health, liveness |
| `spark_stream` | topic of 2 messages out of two readings of one key, one of a later key, a malformed one and one that the database refuses; batches of 2, any expiry, 3 recorded runs, 2 faults | refinement, safety, liveness |
| `spark_dead_letter` | topic of 2 messages, 1 fault | violation of `RejectedIsKept` |
| `live_feed` | 1 client with 2 sockets one after the other, 2 readings, 1 request at a time | sockets and pushes |
| `live_feed_screen` | 1 client, 1 socket, 1 reading | violation of `ScreenCatchesUp` |
| `openaq_backfill` | 3 sensors of which one has no location, 2 days, 1 reading, 2 runs, 1 fault | manifest and outcome |
| `weather_month` | 1 location, months of 3 days, ranges of up to 4 days, 2 runs | violation of `SuccessIsComplete` |
| `weather` | 1 location, 1 poller of both feeds, windows of 2 days, clock to 2; 2 runs of the backfill of a day each in one month; 1 fault of either | statuses, health, row counts |
| `air_quality` | 2 stations of which 2 make a coverage, 2 cells; fresh 0, recent 1, modeled 0 hours and none ahead for the API, the same or fresh 1 for the check; answers of Open-Meteo up to an hour ahead; clock to 1, 3 rows, 2 heatmap requests; 2 days with a fire each, 2 loads, 1 fault | heatmaps, advisories, the check, the fires |
| `forecast` | 1 station with 2 pollutants, horizon of 2 hours, clock to 2, 1 fault | reasons, report, scores |

The bounds are guards on counters that exist only in the models (`MaxTime`,
`MaxPublished`, `MaxEvents`, `MaxFaults`, `MaxRuns`, `MaxRows`, `MaxTopic`, `MaxSockets`,
...). Why they are enough:

* *Poller.* With lookback 2, overlap 1 and a clock to 3, both terms of the window's
  start decide, and a delay of 1 lies within the overlap while one of 2 does not, so that
  measurements are missed and are brought back. A page limit of 1 against two
  measurements makes truncation happen, and a sensor is silent for long enough to be dead.
  An event is a poll started by hand, a metadata sync, a failure of the loop or a value
  that the table refuses: one of them at any moment, with as many failures of the poll
  by hand as it can have. Two pollers suffice for every interleaving of one run
  with a foreign watermark; the theorems cover any number.
* *Worker.* Two components whose periods are coprime meet at 6, and three
  failures in a row reach the longest backoff.
* *Stream.* Two messages are one batch of both or two batches, the second after the
  commit of the first; two faults put a crash or an error before or after any step,
  and again in the batch that is run again. Keys occur twice and out of order. Retention
  removes any part of a batch, of a batch run again more than before.
* *Live feed.* Two sockets of one client are what a reconnect is, two readings what
  an advance during a broadcast is.
* *Backfill.* Two runs overlap or follow each other; two days separate a unit
  with rows from one without. The run is symmetric in the two runs and states no
  liveness.
* *Weather.* Consecutive windows overlap by a day, and the backfill asks for
  days that a poll has stored and for one it has not; two feeds of one location are
  enough for a call that fails beside a good one. The second run of the backfill
  skips the month of the first.
* *Air quality.* Two stations stand for the three of the code (`MinStations` is a
  constant), so that the coverage can be just missed and just reached; a window of no
  hour and one of an hour tell fresh from recent with a clock to 1. The samples are an
  observed reading below a breakpoint, an anomalous and a replayed one above it; the
  modeled value is of another category, with an index of a third or without one. An hour
  back or ahead is enough for a modeled row that the check counts and the API does not, and
  the second choice of `CheckWindows` for a fresh window that is longer than the API's.
  Three rows are what it takes for
  a second row of a station beside the two that make a coverage. What is cached
  expires within half a minute, so nothing survives two changes of the hour (`aging`).
  The run is symmetric in the requests, the stations and the cells and states no liveness.
  Two loads are what an overlap is, two days separate the range from the day asked for.
* *Forecast.* A fault costs the run of one hour, and the next run, an hour or
  more later, has to make up for it: clock and horizon of 2 leave room for both.
  One process stands for the worker and the DAG here. Two of them share only
  tables that grow, and `forecasts` and `accuracy` identify rows of one hour
  as the unique key of `forecast_accuracy` does.

`CHECK_DEADLOCK FALSE` is stated where a bound makes the model stop (all runs
begun, the topic full, the clock at its end); the code itself does not stop.

Each passing property has one mutation in `PROJECT.json`. It is defined next to
the definition it replaces, under a comment that begins with `Mutation:`, and is
used by no model: it stands for a plausible slip in the code, and the run
must report the property violated when it takes the place of the original.

## 4. Fairness

| Specification | Weakly fair | Because |
|---|---|---|
| `OpenAQPoller!FairSpec` | the clock and the next step of every poller that is not started by hand | time passes; `run_forever` loops, restarts after exceptions, and the container restarts after a crash; HTTP calls have timeouts |
| `Worker!FairSpec` | the clock, the restart, the start of a due component | one asyncio task per component, blocking runs in threads; `restart: unless-stopped`. The end of a run is **not** fair: a run may hang |
| `SparkStream!FairSpec` | the next step of an undisturbed query | the trigger fires at a fixed interval; the container is restarted and the checkpoint is on a volume |
| `LiveFeed!FairSpec` | expiry of the cache, the notifier, requests, socket handlers, the browser | they are tasks of one event loop; arrival of readings, page loads and disconnections are not fair |
| `Forecast!FairSpec` | the clock and the next step of a run | hourly schedule of the worker and of the DAG |

Failures, crashes, late publication and everything OpenAQ or a user does
are never fair, nor are syncs and the data-quality check. `OpenAQBackfill` and
`WeatherBackfill` are started by hand; they, `Weather` and `AirQuality` state safety
only.

## 5. Theorems

Every invariant and every action property that a run checks is also a theorem, for
every value of the constants that the assumptions of its module admit. So are the
refinement `AppliesOnce` and three facts that no run states. Each theorem follows from
an inductive invariant `IInv` of its module: `Init => IInv`, one lemma per action for
`IInv /\ [Next]_vars => IInv'`, and `IInv` implies the property. `IInv`, or the parts of
it that can be evaluated, held on the run of the component before it was proved.

### OpenAQPollerProofs

`NeverLosesSilently`: `Spec => []NoSilentLoss`, for any sensors,
pollers, overlap, delays, lookback, page limit and bounds. The only assumption is
`ConstantsAssumption` (types); nothing is said of how the delays relate to the overlap.
`OverlapCoversDelay` proves what that relation is worth: if no delay is longer than the
overlap, `missed` stays empty. `NoSilentLoss` is not inductive, because it says
nothing of the polls under way. `IInv` adds that

1. windows and watermarks lie in the past, and a window starts no later than the
   overlap or the lookback before its end (`InThePast`);
2. a poll that has written its batch has no sensor left to fetch
   (`WrittenIsComplete`);
3. what lies before a poll's window is stored, missed or beyond the lookback, unless
   its sensor was read short (`StoredBeforeWindow`);
4. what a poll has fetched is stored, missed or in its batch, up to the overlap before
   the end of its window (`FetchedInWindow`).

3 carries the watermark that a poll began with, 4 what it did since; when it
records its run, both together cover everything before the new watermark, also
when the other poller has moved it in the meantime. `TypeCorrect` proves the types, and
`RegistryFollows` `[]RegistryMatchesRows`, by an invariant which adds that what a poll
has fetched and what a sync has been told are published measurements.

### WorkerProofs

`BackoffRespected` and `FixedRate` for any components, intervals and backoffs, by an
invariant that adds to the two that a running component started when it was due
(`StartedWhenDue`). `BackoffBounded` and `NextTickFollows` are the arithmetic of
`_backoff_seconds` and `_next_tick`. `FailureShows`, `HealthyMeansNoneWaits`,
`BrokenWorkerIsSeen` and `TypeCorrect` need the strengthening `FailureOnRecord`: a
component with a failure in its count waits, and its record says `failed` unless it
runs again. The backoff is positive only because 2 ** n is, and `PowerOfTwo` is a recursive
function, of which nothing is known before it has been shown to exist. That is done
without induction: a number up to which there were no such function would be followed by
a least one, which the function of the number before it extends.

### SparkStreamProofs

`ImplementsLog` is the refinement `Spec => AppliesOnce`: the initial state maps to one
of `ReadingLog`, and every step, crash and repeated batch to a step of it or to a
stutter. The part that carries it is `Batches`: planned offsets rise, at most one batch
is under way, and the offset up to which the table is written is either where that batch
begins or where it ends. `OldestSkipped` says that what is left out of the batch under
way is a first part of it, which is the `lost` of `ReadingLog!Apply`. From these follow
`NoReadingLost` and `NothingAnnouncedEarly`, with the readings up to the written offset
in the table or expired (`AppliedIsStored`), and `RegistryFollows`. `NeverOvercounts` is
about a sum over the whole log of runs, which is shown to exist and to grow by one run
like `PowerOfTwo`.

### OpenAQBackfillProofs

`LoadedDaysAreStored`, `SuccessMeansComplete`, `ManifestIsHonest` and the action
property `LoadedDaysAreSkipped`, for any number of runs that overlap.
`NothingForgotten` carries a success: each day of each sensor is loaded or still ahead of a
run without a failure, which is a statement about positions in its list of units (a
recursive function again, `UpToExists`). `Alone` carries the action property. For the
manifest, the rows claimed are summed by a fold over a set in an order that CHOOSE
decides; `WrittenAdd`, `WrittenRemove` and `WrittenSubset` say what the sum does when the
set changes, and the sum of the manifest and of what runs have yet to record
(`ClaimsToCome`) stays below what was inserted. The proof of `TypeCorrect` failed at first:
with days that are not consecutive a run would plan days that are none.
`BackfillAssumption` now says that they are, as the days of a calendar are.

### LiveFeedProofs

`NoAdvanceTwice` needs `PushedIsKnown`: no socket has been told of more than the notifier
knows, so that an advance is news to all of them. `OpenStaysRegistered` is inductive with
the types: an open socket is registered or about to be.

### ForecastProofs

`WeakerIsNeverSilent` is a statement about `Built` for every context. `ReportsAreTrue`
needs that a run forgets none of its series (`NoneForgotten`) and that the results are in
the table from the first transaction on (`ResultsWritten`). `OnlyDueIsScored`, which no
run states: a score is of a forecast that was written, against a reading of its target
hour, which has begun.

### WeatherProofs

`SuccessMeansStored` and `HealthFollowsRecord` follow from what a poller knows between
its transactions (`JobOK`). `ClaimsAreRows` bounds `claimed`, a counter, together with
the sum over the manifest, by two tables: neither grows by what the other says. Instead of
relating sums, `Owned` says that the rows can be divided among owners (the
recorded runs, each poller, each month of the manifest, the backfill) so that nobody claims
more than it owns. An insert gives new rows to who inserted them, a record passes
them on; a claim that is dropped, by a crash or a replaced manifest row, leaves rows that
nobody claims. Only at the end are the claims added up (`SumBounded`). New assumptions:
the locations are finitely many, and the constants of the backfill are numbers
(`BackfillAssumption`).

### AirQualityProofs

`IndexInCategory` and `Monotone`, about the AQI calculator: for every integer number of
hundredths, the index lies in the category of its breakpoints, and a higher
concentration never has a lower index. The proof goes row by row; the solver does the
divisions by the constant widths.

`HeatmapsAreHonest`, `SnapshotsAreModest`, `AdvisoriesMatch` and `LoadedFiresAreStored`,
for any stations, samples, windows, requests, loads and bounds, and `TypeCorrect`. The
only assumptions are the types of the constants (`ReadingsAssumption`,
`CheckWindowsAssumption`, `FirmsAssumption`) and `MinStations > 0`. The parts of the
inductive invariant:

1. `TablesInv` — finitely many rows, and station and hour identify one. Every step of
   every process keeps it, and rows are never removed (`TablesGrow`).
2. `QualityInv` — what the check has counted with its own windows is still there (rows
   that arrive only raise a count: `StationsGrow`; a location and hour that had a modeled
   row keeps one: `ModeledStay`), and what the snapshot of this hour claims. A shorter
   window counts no more than a longer one (`LongerWindow`), so that only the causes in
   `LooksFurther` are left for a claim that the API does not share.
3. `HeatmapInv` — the cached heatmap of each mode is honest, and so is what each request
   has read so far. `HonestPoints` is the strengthening: it says what the points are
   before the grid is made, one of each station, so that counting the points is counting
   the stations (`OnePerStation`).
4. `AdvisoryInv` — the points are finitely many and have integer values, and a modeled
   one an index or none. The worst one exists (`LargestExists`, from the well-foundedness
   of finite sets); the two theorems about the calculator give its category when the
   concentration decides, `IndexCategoryFound` when the index does.
5. `FiresInv` — what a load knows between its transactions (`LoadOK`), and `Attributed`:
   the stored fires can be divided among the days of the manifest and the loads under way
   so that none is claimed twice. The sum over the days, a recursive function that has to be
   shown to exist (`SumsExist`), is then at most the number of fires (`ClaimsAreStored`).
6. `ReadingsTypeOK` and `QualityTypes` — the types that the four above do not give.

### What the provers do not reach

* Liveness: `EventuallyStored` of the poller and of the stream, `EventuallyRuns`,
  `AdvanceReaches` and `EventuallyScored`. They are about fairness, and so about ENABLED,
  which TLAPS cannot expand. TLC checks them under the fairness of section 4.
* Induction over data as a rule: the theorems of the library that state it take an
  operator as a parameter, which none of the provers can instantiate. Where a recursion
  had to be reasoned about, a least counterexample (of the numbers, or of the subsets of a
  finite set) takes its place.

## 6. Where the code and its documents disagree

Four runs are expected to find a violation; `PROJECT.json` quotes the document.

1. `poller_lost_window`: a run in which sensors failed is recorded as a success
   and moves the watermark over their measurements.
2. `spark_dead_letter`: a rejected payload can be missing from the dead-letter
   topic after its batch was committed.
3. `live_feed_screen`: the refresh that a new reading triggers may be answered
   from the cache without it, and nothing refreshes again.
4. `weather_month`: a part of a month that was loaded makes later runs skip the
   rest of it and report success.

Noticed while modelling, without a run of their own:

* The report (:419) says that the overlap and the lookback "prevent gaps when a reading
  arrives late". They do up to the overlap, ten minutes by default, after the start of the
  period that the reading covers (`OverlapCoversDelay`); a reading that appears later, as
  the report (:22) says readings do, stays out of every window once a run that counts has
  gone by. It is in `missed`.
* One value that NUMERIC(8, 2) cannot hold fails the batch of all sensors, and again in
  every poll until it is older than the lookback; the watermark stands still meanwhile.
* The report (:473) says that pipeline_runs has the written count of each batch. It has
  `records_processed`, which is the number of valid readings whether or not their rows were
  new, and `records_skipped_duplicate`; after a replay the sum of the first overcounts.
* What expires while the stream is down or stuck is passed over and its offsets are
  committed; no record of a run tells that anything was. The report (:461) names the choice.
* The data-quality check counts modeled rows without a limit ahead and over its recent
  window, so that its snapshot, which the dashboard reads (report, :487), can say
  MODELED_BASELINE while the API finds no modeled reading for the present.
* In MODELED_BASELINE the index shown is that of Open-Meteo where it gives one, and need
  not be in the category of the concentration beside it.
* `choose_forecast_model` names the source `modeled_aq_with_observed_bias` when
  both histories exist but share no hour; the report (:523) says the model
  source records that the model is unadjusted. The fallback reason does.
* A forecast is scored as soon as its target hour has begun, with the readings of
  its first minutes, and the score is never replaced.
* Two runs of one hour share a row of `forecast_accuracy`; the report (:635)
  promises one per run.
* `weather_readings` keeps the forecast that was stored first when a later run
  brings the analysis of the same hour, and an hour that was stored with values
  missing is never completed.
* Without the worker, `_check_http_health` reports a poller by the HTTP status of its
  `/health`, which is 200 whatever status the payload has.

* In the mode LIVE_OBSERVED or RECENT_OBSERVED the composite of the valley is the
  maximum over all readings of the recent window, a replayed one included; the report
  (:249) keeps replay apart from live data.
* The advisory names the mode of its first coverage, its number may come from a second
  one. In NO_DATA with a number it says that there is no safe estimate beside that number.
* `/api/stations` and `/api/valley/current` find different composites in
  MODELED_BASELINE when stale stations have readings within the recent window.
* Anomalous readings are left out of the summaries and of heatmaps, but count for the
  coverage and are used by the advisory of a station.
* A stored snapshot message up to a day old replaces the generated one, and may
  contradict the mode beside it; a check that finds invalid values records `failed` and
  NO_DATA while the API goes on with LIVE_OBSERVED.
* The cache of the timeline is not keyed by the mode.
* A replayed row of a sensor and hour keeps the real reading out of the table.
* A replay rebased to now writes rows whose timestamps lie ahead of the clock; the
  notifier compares with the newest timestamp, so it announces no real reading until the
  clock has passed them.
* The metadata sync can set `datetime_last` back, to NULL when OpenAQ leaves it out, so
  that the next data-quality check takes a delivering sensor for dead.
* Fires that FIRMS lists after their day was marked as loaded are never asked for again,
  except by a load of a single day whose range covers them.

## 7. Not modelled

Rendering, maps, charts and styles; the numbers of the interpolation; the read endpoints
that hand rows through (history, forecasts, fires, runs, timeline, wind); the forecast
hook, which calls the run that `Forecast` models; benchmarks and scripts that only read:
computations without a state that outlives them. The Kafka publisher of the standalone
poller and the Kafka consumer of the live feed, which the application does not start.
The numbers inside a reading or a forecast, except where two values are told apart.

## 8. Plan

What is left, in this order.

1. **Forecast** with scores that remember the readings they saw, and with two runs in
   one hour; then what a score can be proved to mean.
2. The weather backfill alone: that a success of runs over whole months is complete, which
   is what remains of `SuccessIsComplete`.
