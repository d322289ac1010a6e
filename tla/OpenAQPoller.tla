---------------------------- MODULE OpenAQPoller ----------------------------
(***************************************************************************)
(* The OpenAQ ingestion path: services/openaq_poller/main.py reads the     *)
(* measurements of every active sensor for a time window and hands them to *)
(* services/common/aq_ingestion.py, which stores them in aq_readings and   *)
(* then, in another transaction, records the run in pipeline_runs.  The    *)
(* window_to of the latest such record is the watermark from which the     *)
(* next run computes its own window, so the two tables together decide     *)
(* whether a measurement is ever asked for again.                          *)
(* Two others write the registry of the sensors: the data-quality check of *)
(* Airflow, which deactivates silent ones, and the metadata sync.          *)
(*                                                                         *)
(* A reading is <<sensor, timestamp>>: the primary key of aq_readings.     *)
(* Time is a number of ticks.  The timestamp is the start of the period a  *)
(* measurement covers; OpenAQ publishes it some delay later, which may be  *)
(* much longer than the overlap of the windows.                            *)
(***************************************************************************)
EXTENDS Integers, FiniteSets

CONSTANTS Sensors,    \* openaq rows of station_sensors
          Troubled,   \* those whose fetch may fail, or whose value may not fit
          Pollers,    \* processes that run the poller (worker, standalone service)
          Manual,     \* those started by hand, with --once
          Overlap,    \* overlap_minutes
          Lookback,   \* max(fallback_lookback_hours, 1)
          Delays,     \* how late OpenAQ may publish a measurement
          PageCap,    \* measurements_limit * max_pages
          DeadAfter,  \* sensor_dead_days: silent for longer, a sensor is dead
          MaxTime,    \* bound: the clock stops there
          MaxPublished, \* bound: number of measurements of a sensor
          MaxEvents   \* bound: number of metadata syncs, polls started by hand,
                      \* failures of the other pollers, and refused values

ASSUME ConstantsAssumption ==
    /\ Troubled \subseteq Sensors /\ Manual \subseteq Pollers
    /\ Overlap \in Nat /\ Delays \subseteq Nat /\ PageCap \in Nat /\ DeadAfter \in Nat
    /\ Lookback \in Nat \ {0}
    /\ MaxTime \in Nat /\ MaxPublished \in Nat /\ MaxEvents \in Nat

VARIABLES
    now,           \* utc_now()
    published,     \* OpenAQ: the timestamps each sensor has a measurement for
    refused,       \* those of them whose value NUMERIC(8, 2) cannot hold
    active,        \* station_sensors.active, of the stations that are monitors
    rows,          \* aq_readings
    datetimeLast,  \* station_sensors.datetime_last, -1 for NULL
    runs,          \* the rows of pipeline_runs the window query can return
    shortRead,     \* history: the sensors some counted run did not read in full
    missed,        \* history: measurements published behind a poll window
    overtaken,     \* history: the sensors whose datetime_last a sync put back
    job,           \* the poll each poller is in the middle of
    metadata,      \* the datetimeLast of each sensor that a sync has read
    events         \* the bounded events so far

source   == <<now, published, refused, missed, active>>
database == <<rows, datetimeLast, runs, shortRead>>
registry == <<overtaken, metadata>>
vars     == <<source, database, registry, job, events>>

Time     == 0..now
Reading  == Sensors \X Nat
NoTime   == -1

\* No sync is under way.
NoMetadata == <<>>

Larger(a, b) == IF a >= b THEN a ELSE b

-----------------------------------------------------------------------------
(* pipeline_runs and the window *)

\* _status(transform): what is recorded, whatever status_from_counts returns to
\* the caller of run_once.  Every message was built by build_raw_message, so it
\* validates again and no record is invalid.
RecordedStatus(j) == "success"

Statuses == {"success", "partial", "failed"}

\* A row of pipeline_runs.
Run == [at: Nat, to: Nat, status: Statuses]

\* The WHERE clause of latest_success_window_end, for the row that j records.
Counts(j) == RecordedStatus(j) \in {"success", "partial"} /\ j.polled # {}

\* The local variables of run_once and _poll_sensors: the PollWindow, the
\* sensors fetch_active_sensors returned, those not fetched yet, those not read
\* in full, all_messages, and finished_at.
Job == [pc: {"idle", "fetching", "written"}, from: Int, to: Nat,
        polled: SUBSET Sensors, todo: SUBSET Sensors, short: SUBSET Sensors,
        batch: SUBSET Reading, at: Nat]

\* Mutation: a poll starts without the time at which it finished.
IdleUnfinished == [pc |-> "idle", from |-> 0, to |-> 0, polled |-> {}, todo |-> {},
                   short |-> {}, batch |-> {}, at |-> NoTime]

Idle == [pc |-> "idle", from |-> 0, to |-> 0, polled |-> {}, todo |-> {},
         short |-> {}, batch |-> {}, at |-> 0]

\* ORDER BY run_at DESC LIMIT 1 keeps the rows with the greatest run_at, which
\* come in any order; a row once behind another is never read again.
LatestOf(log) == {r \in log : \A q \in log : q.at <= r.at}

\* Mutation: the overlap is forgotten.
WindowFromNoOverlap(w) == Larger(w, now - Lookback)

\* The start of the window after a counted run that ended at w.
WindowFrom(w) == Larger(w - Overlap, now - Lookback)

\* compute_poll_window over the possible answers of latest_success_window_end.
WindowStarts ==
    IF runs = {} THEN {now - Lookback} ELSE {WindowFrom(r.to) : r \in runs}

-----------------------------------------------------------------------------
Init ==
    /\ now = 0
    /\ published = [s \in Sensors |-> {}]
    /\ refused = {}
    /\ missed = {}
    /\ active = Sensors
    /\ rows = {}
    /\ datetimeLast = [s \in Sensors |-> NoTime]
    /\ runs = {}
    /\ shortRead = {}
    /\ overtaken = {}
    /\ job = [p \in Pollers |-> Idle]
    /\ metadata = NoMetadata
    /\ events = 0

\* The clock.
Tick ==
    /\ now < MaxTime
    /\ now' = now + 1
    /\ UNCHANGED <<published, refused, missed, active, database, registry, job, events>>

\* The overlap does not reach back to t after a recorded run, or after one under
\* way that will not ask for <<s, t>> any more.
PassedBy(s, t) ==
    \/ \E r \in runs : t < r.to - Overlap
    \/ \E p \in Pollers :
          /\ job[p].pc # "idle"
          /\ t < job[p].to - Overlap
          /\ s \in job[p].todo => t < job[p].from

\* OpenAQ makes a measurement of sensor s with timestamp t available.
Publish(s, t) ==
    /\ t \notin published[s]
    /\ now - t \in Delays
    /\ Cardinality(published[s]) < MaxPublished
    /\ published' = [published EXCEPT ![s] = @ \union {t}]
    /\ \/ UNCHANGED <<refused, events>>
       \/ /\ s \in Troubled /\ events < MaxEvents
          /\ refused' = refused \union {<<s, t>>}
          /\ events' = events + 1
    /\ missed' = IF PassedBy(s, t) THEN missed \union {<<s, t>>} ELSE missed
    /\ UNCHANGED <<now, active, database, registry, job>>

\* _deactivate_dead_sensors, a step of the data-quality check: the sensors were
\* created at time 0.
Dead(s) == IF datetimeLast[s] = NoTime THEN 0 < now - DeadAfter
           ELSE datetimeLast[s] < now - DeadAfter

DeactivateDead ==
    /\ \E s \in active : Dead(s)
    /\ active' = {s \in active : ~Dead(s)}
    /\ UNCHANGED <<now, published, refused, missed, database, registry, job, events>>

\* last_seen_utc of sensor s: the time of its newest measurement, which the
\* location list of OpenAQ may leave out.
DescribedLast(s) ==
    {NoTime} \union {t \in published[s] : \A u \in published[s] : u <= t}

\* sync_openaq_metadata.py has OpenAQ's description of every sensor.
FetchMetadata ==
    /\ metadata = NoMetadata
    /\ events < MaxEvents
    /\ events' = events + 1
    /\ metadata' \in [Sensors -> Time \union {NoTime}]
    /\ \A s \in Sensors : metadata'[s] \in DescribedLast(s)
    /\ UNCHANGED <<source, database, overtaken, job>>

\* It writes the description over the registry: upsert_sensor sets datetime_last,
\* without GREATEST, and makes every sensor of a pollable pollutant active.
SyncMetadata ==
    /\ metadata # NoMetadata
    /\ datetimeLast' = metadata
    /\ active' = Sensors
    /\ overtaken' = overtaken \union
          {s \in Sensors : \E t \in Time : <<s, t>> \in rows /\ metadata[s] < t}
    /\ metadata' = NoMetadata
    /\ UNCHANGED <<now, published, refused, missed, rows, runs, shortRead, job, events>>

\* run_once up to the loop over the sensors.
BeginPoll(p) ==
    /\ job[p].pc = "idle"
    /\ \E from \in WindowStarts :
          job' = [job EXCEPT ![p] = [Idle EXCEPT !.pc = "fetching",
                                                 !.from = from, !.to = now,
                                                 !.polled = active, !.todo = active]]
    /\ p \in Manual => events < MaxEvents
    /\ events' = IF p \in Manual THEN events + 1 ELSE events
    /\ UNCHANGED <<source, database, registry>>

InWindow(p, s) == {t \in published[s] : job[p].from <= t /\ t <= job[p].to}

\* The measurements of s that max_pages pages of the given limit return.
Pages(p, s) ==
    LET found == InWindow(p, s)
    IN  IF Cardinality(found) <= PageCap THEN {found}
        ELSE {page \in SUBSET found : Cardinality(page) = PageCap}

\* fetch_sensor_measurements returns and its messages are collected.
FetchSensor(p, s) ==
    /\ job[p].pc = "fetching" /\ s \in job[p].todo
    /\ \E page \in Pages(p, s) :
          job' = [job EXCEPT ![p].todo = @ \ {s},
                             ![p].batch = @ \union ({s} \X page),
                             ![p].short = IF page = InWindow(p, s) THEN @
                                          ELSE @ \union {s}]
    /\ UNCHANGED <<source, database, registry, events>>

\* A failure in poller p; a poll started by hand is counted when it starts.
Failure(p) ==
    /\ p \notin Manual => events < MaxEvents
    /\ events' = IF p \in Manual THEN events ELSE events + 1

\* It raises: rate limit, HTTP error, or a measurement that does not validate.
FetchSensorFails(p, s) ==
    /\ s \in Troubled
    /\ job[p].pc = "fetching" /\ s \in job[p].todo
    /\ Failure(p)
    /\ job' = [job EXCEPT ![p].todo = @ \ {s}, ![p].short = @ \union {s}]
    /\ UNCHANGED <<source, database, registry>>

\* Mutation: datetime_last takes the newest timestamp of the batch, without
\* GREATEST.
NewestInBatch(s, t, readings) ==
    LET times == {u \in Time : <<s, u>> \in readings}
    IN  /\ t \in IF times = {} THEN {datetimeLast[s]} ELSE times
        /\ \A u \in times : u <= t

\* datetime_last is t after the batch: the GREATEST of its old value and the
\* timestamps of the batch, whether or not their rows were new.
Newest(s, t, readings) ==
    LET times == {datetimeLast[s]} \union {u \in Time : <<s, u>> \in readings}
    IN  t \in times /\ \A u \in times : u <= t

\* write_batch: one transaction inserts the rows that are not there yet and
\* moves datetime_last of the sensors forward.
WriteBatch(p) ==
    /\ job[p].pc = "fetching" /\ job[p].todo = {}
    /\ job[p].batch \cap refused = {}
    /\ rows' = rows \union job[p].batch
    /\ datetimeLast' \in [Sensors -> Time \union {NoTime}]
    /\ \A s \in Sensors : Newest(s, datetimeLast'[s], job[p].batch)
    /\ job' = [job EXCEPT ![p].pc = "written", ![p].batch = {}, ![p].at = now]
    /\ UNCHANGED <<source, runs, shortRead, registry, events>>

\* One value that does not fit fails the transaction of the whole batch: no row
\* is written and no run recorded.
RefuseBatch(p) ==
    /\ job[p].pc = "fetching" /\ job[p].todo = {}
    /\ job[p].batch \cap refused # {}
    /\ job' = [job EXCEPT ![p] = Idle]
    /\ UNCHANGED <<source, database, registry, events>>

\* The sensors whose window the run did not read in full: not polled, failed,
\* or cut off by the page limit.
ShortSensors(j) == (Sensors \ j.polled) \union j.short

\* record_pipeline_run, a transaction of its own.
RecordRun(p) ==
    /\ job[p].pc = "written"
    /\ IF Counts(job[p])
       THEN /\ runs' = LatestOf(runs \union
                  {[at |-> job[p].at, to |-> job[p].to, status |-> RecordedStatus(job[p])]})
            /\ shortRead' = shortRead \union ShortSensors(job[p])
       ELSE UNCHANGED <<runs, shortRead>>
    /\ job' = [job EXCEPT ![p] = Idle]
    /\ UNCHANGED <<source, rows, datetimeLast, registry, events>>

\* A query or a transaction fails and is rolled back, or the process is
\* restarted: the run ends without another write.
Abandon(p) ==
    /\ job[p].pc # "idle"
    /\ Failure(p)
    /\ job' = [job EXCEPT ![p] = Idle]
    /\ UNCHANGED <<source, database, registry>>

Fetch(p) == \E s \in Sensors : FetchSensor(p, s) \/ FetchSensorFails(p, s)

Next ==
    \/ Tick
    \/ \E s \in Sensors, t \in Time : Publish(s, t)
    \/ DeactivateDead
    \/ FetchMetadata
    \/ SyncMetadata
    \/ \E p \in Pollers : \/ BeginPoll(p)
                          \/ Fetch(p)
                          \/ WriteBatch(p)
                          \/ RefuseBatch(p)
                          \/ RecordRun(p)
                          \/ Abandon(p)

Spec == Init /\ [][Next]_vars

\* The poll loop never ends: a poller that can take its next step takes it, and
\* time goes on.  A poll started by hand may stop anywhere.
Poll(p)  == BeginPoll(p) \/ Fetch(p) \/ WriteBatch(p) \/ RefuseBatch(p) \/ RecordRun(p)
FairSpec == Spec /\ WF_vars(Tick) /\ \A p \in Pollers \ Manual : WF_vars(Poll(p))

-----------------------------------------------------------------------------
(* Properties *)

TypeOK ==
    /\ now \in Nat
    /\ published \in [Sensors -> SUBSET Time]
    /\ refused \in SUBSET Reading
    /\ missed \in SUBSET Reading
    /\ active \in SUBSET Sensors
    /\ rows \in SUBSET Reading
    /\ datetimeLast \in [Sensors -> Time \union {NoTime}]
    /\ runs \in SUBSET Run
    /\ shortRead \in SUBSET Sensors
    /\ overtaken \in SUBSET Sensors
    /\ job \in [Pollers -> Job]
    /\ metadata \in [Sensors -> Time \union {NoTime}] \union {NoMetadata}
    /\ events \in Nat

\* A measurement that is published, not stored, and still within the lookback
\* lies inside the window of the next poll.
NotSkipped(s, exempt) ==
    \A t \in published[s] : \A r \in runs :
        <<s, t>> \in rows \union exempt \/ t < now - Lookback \/ t >= r.to - Overlap

\* No crash, failed or refused transaction, second poller or late publication
\* makes the watermark pass a measurement of a sensor that every run read in
\* full, unless a window had passed it by the time it was published.
NoSilentLoss == \A s \in Sensors \ shortRead : NotSkipped(s, missed)

\* What the report says of the poll window: "No gap and no lost window"
\* (fyp-report-draft.md, test case U4).
NoLostWindow == \A s \in Sensors : NotSkipped(s, {})

\* station_sensors.datetime_last is never older than a reading of the sensor in
\* aq_readings, however late or often the readings arrive and whichever poller
\* brings them, unless a sync wrote what OpenAQ had said before; and it is always
\* the time of a measurement that exists.
RegistryMatchesRows ==
    \A s \in Sensors :
        /\ s \in overtaken \/ \A t \in Time : <<s, t>> \in rows => t <= datetimeLast[s]
        /\ datetimeLast[s] \in published[s] \union {NoTime}

\* The clock has stopped with a refused measurement in every window.
Blocked == now = MaxTime /\ \E r \in refused : r[2] >= now - Lookback

\* Once OpenAQ publishes nothing more, every measurement is stored in the end,
\* those published beside a refused one included, unless the poller gets nothing
\* stored for as long as the lookback, its sensor stays deactivated, some run does
\* not read the sensor in full, or it was published behind a poll window.
EventuallyStored ==
    <>[](\A s \in Sensors : \A t \in published[s] :
            \/ <<s, t>> \in rows \union missed
            \/ t < now - Lookback \/ Blocked
            \/ s \notin active \/ s \in shortRead)
=============================================================================
