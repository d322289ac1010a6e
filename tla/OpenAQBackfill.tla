--------------------------- MODULE OpenAQBackfill ---------------------------
(***************************************************************************)
(* airflow/dags/himalayaair/openaq_backfill.py: a DAG started by hand      *)
(* loads past days of every active sensor, from a file of the OpenAQ       *)
(* archive when the location has one for the day, otherwise sensor by      *)
(* sensor from the API, and keeps in backfill_manifest what was loaded.    *)
(* Nothing keeps two runs of the DAG apart, and the poller writes the same *)
(* table.                                                                  *)
(*                                                                         *)
(* A reading is <<sensor, day, hour>>.                                     *)
(***************************************************************************)
EXTENDS Integers, Sequences, FiniteSets, FiniteSetsExt

CONSTANTS Sensors,    \* openaq sensors
          Locations,  \* the locations in their sorted order
          Location,   \* Location[s]: external_location_id of its station
          Unlocated,  \* sensors whose station has none
          Targets,    \* what fetch_active_sensors may return: sets of sensors
          Days, Hours,
          Reading,    \* the readings OpenAQ will ever have of sensors with a location
          MaxDays,    \* openaq_backfill_max_days
          Runs,       \* task instances that can be under way together
          MaxRuns,    \* bound: number of runs started
          MaxFaults   \* bound: number of exceptions and crashes

Located == Sensors \ Unlocated

\* The days are consecutive, as iter_dates counts them.
ASSUME BackfillAssumption ==
    /\ Unlocated \subseteq Sensors /\ IsFiniteSet(Sensors)
    /\ Targets \subseteq SUBSET Sensors
    /\ Locations \in Seq(STRING)
    /\ \A s \in Sensors \ Unlocated : \E i \in DOMAIN Locations : Location[s] = Locations[i]
    /\ Days \subseteq Nat /\ \A d, e \in Days : d..e \subseteq Days
    /\ Hours \subseteq Nat
    /\ Reading \subseteq Located \X Days \X Hours
    /\ MaxDays \in Nat \ {0} /\ MaxRuns \in Nat /\ MaxFaults \in Nat

VARIABLES
    published,   \* OpenAQ: the readings its API has
    rows,        \* aq_readings
    lastSeen,    \* datetime_last of a sensor, last_seen of its station, NoTime for NULL
    manifest,    \* backfill_manifest; rows that differ in their id only are one
    outcomes,    \* pipeline_runs of this component
    job,         \* the local variables of each run
    inserted,    \* history: number of rows the backfill inserted
    succeeded,   \* history: <<sensor, day>> ever recorded as loaded
    overlapped,  \* history: two runs were under way together
    begun, faults

database == <<rows, lastSeen, manifest, outcomes>>
history  == <<inserted, succeeded, overlapped>>
vars     == <<published, database, job, history, begun, faults>>

NoTime   == <<-1, 0>>
TimeOf(r) == <<r[2], r[3]>>
Newer(t, u) == t[1] > u[1] \/ (t[1] = u[1] /\ t[2] >= u[2])

\* OPENAQ_HISTORICAL_MANIFEST_SOURCES
Sources == {"openaq_archive", "openaq_live"}

\* A row of the manifest, with the readings fetched in place of their number.
Entry == [source: Sources, sensor: Sensors, day: Days, status: {"success", "failed"},
          fetched: SUBSET Reading, written: Nat]

\* A row of pipeline_runs, with the sensors of the run in place of their number.
Outcome == [from: Days, to: Days, targets: SUBSET Sensors,
            status: {"success", "partial", "failed"}]

\* A unit of work: a day of a location.
UnitsOf(d) == [i \in 1..Len(Locations) |-> [day |-> d, location |-> Locations[i]]]

\* iter_dates, and for every day the locations in order.
Units(from, to) ==
    LET upTo[d \in from - 1 .. to] == IF d = from - 1 THEN <<>> ELSE upTo[d - 1] \o UnitsOf(d)
    IN  upTo[to]

Idle == [pc |-> "idle", from |-> 0, to |-> 0, targets |-> {}, todo |-> <<>>, eligible |-> {},
         file |-> {}, sensor |-> "", fetched |-> {}, written |-> 0,
         failures |-> 0, attempted |-> 0, skipped |-> 0, total |-> 0]

Unit(r)   == Head(job[r].todo)
Source(r) == IF job[r].pc \in {"load", "loaded"} THEN "openaq_archive" ELSE "openaq_live"

-----------------------------------------------------------------------------
(* backfill_manifest *)

\* Mutation: only the archive's rows are looked at.
LoadedFromArchive(s, d) == \E m \in manifest :
    m.source = "openaq_archive" /\ m.sensor = s /\ m.day = d /\ m.status = "success"

\* successful_manifest_exists
Loaded(s, d) == \E m \in manifest :
    m.source \in Sources /\ m.sensor = s /\ m.day = d /\ m.status = "success"

Result(source, s, d, status, fetched, written) ==
    [source |-> source, sensor |-> s, day |-> d, status |-> status,
     fetched |-> fetched, written |-> written]

\* ON CONFLICT DO UPDATE; a NULL location conflicts with nothing.
Upsert(m) ==
    {old \in manifest : \/ <<old.source, old.sensor, old.day>> # <<m.source, m.sensor, m.day>>
                        \/ old.sensor \in Unlocated} \union {m}

\* Mutation: a status no reader of pipeline_runs knows.
StatusUnknown(j) == IF j.failures = 0 THEN "success" ELSE "incomplete"

\* Mutation: failures are not counted.
StatusByRows(j) == IF j.attempted + j.skipped > 0 THEN "success" ELSE "failed"

\* _status
Status(j) ==
    IF j.failures = 0 THEN "success"
    ELSE IF j.total > 0 \/ j.skipped > 0 \/ j.attempted > j.failures THEN "partial"
    ELSE "failed"

-----------------------------------------------------------------------------
Init ==
    /\ published = {} /\ rows = {}
    /\ lastSeen = [who \in Sensors \union {Location[s] : s \in Located} |-> NoTime]
    /\ manifest = {} /\ outcomes = {}
    /\ job = [r \in Runs |-> Idle]
    /\ inserted = 0 /\ succeeded = {} /\ overlapped = FALSE
    /\ begun = 0 /\ faults = 0

\* OpenAQ makes a reading available, on its day or later.
Publish(x) ==
    /\ x \notin published
    /\ published' = published \union {x}
    /\ UNCHANGED <<database, job, history, begun, faults>>

\* GREATEST over the readings of an insert.
Seen(who, readings) ==
    LET times == {lastSeen[who]} \union
                 {TimeOf(x) : x \in {x \in readings : who \in {x[1], Location[x[1]]}}}
    IN  CHOOSE t \in times : \A u \in times : Newer(t, u)

\* The poller stores a reading.
WriteElsewhere(x) ==
    /\ x \in published \ rows
    /\ rows' = rows \union {x}
    /\ lastSeen' = [who \in DOMAIN lastSeen |-> Seen(who, {x})]
    /\ UNCHANGED <<published, manifest, outcomes, job, history, begun, faults>>

\* The run is triggered, with the dates of its configuration or the default
\* ones, and first records the sensors without a location as failed.
Begin(r) ==
    /\ job[r].pc = "idle" /\ begun < MaxRuns
    /\ \E from, to \in Days, targets \in Targets :
          /\ from <= to /\ to - from < MaxDays
          /\ job' = [job EXCEPT ![r] = [Idle EXCEPT
                !.pc = "unit", !.from = from, !.to = to, !.targets = targets,
                !.todo = Units(from, to), !.failures = Cardinality(targets \ Located)]]
          /\ manifest' = manifest \union
                {Result("openaq_archive", s, from, "failed", {}, 0) : s \in targets \ Located}
    /\ overlapped' = (overlapped \/ \E q \in Runs : job[q].pc # "idle")
    /\ begun' = begun + 1
    /\ UNCHANGED <<published, rows, lastSeen, outcomes, inserted, succeeded, faults>>

\* The sensors of the next unit that no run has loaded yet (one query each,
\* asked here at once); a unit without one is skipped.
Check(r) ==
    LET here == {s \in job[r].targets \cap Located : Location[s] = Unit(r).location}
        left == {s \in here : ~Loaded(s, Unit(r).day)}
    IN  /\ job[r].pc = "unit" /\ job[r].todo # <<>>
        /\ job' = [job EXCEPT
              ![r].skipped = @ + Cardinality(here \ left),
              ![r].eligible = left,
              ![r].pc = IF left = {} THEN "unit" ELSE "archive",
              ![r].todo = IF left = {} THEN Tail(@) ELSE @]
        /\ UNCHANGED <<published, database, history, begun, faults>>

\* fetch_location_day returns a file: the archive lags behind the API.
ArchiveReturns(r) ==
    /\ job[r].pc = "archive"
    /\ \E file \in SUBSET {x \in published : x[1] \in job[r].eligible /\ x[2] = Unit(r).day} :
          job' = [job EXCEPT ![r].pc = "load", ![r].file = file]
    /\ UNCHANGED <<published, database, history, begun, faults>>

\* There is no file, or the archive cannot be read.
ArchiveFails(r) ==
    /\ job[r].pc = "archive"
    /\ job' = [job EXCEPT ![r].pc = "api"]
    /\ UNCHANGED <<published, database, history, begun, faults>>

\* fetch_api_backfill_readings returns.
ApiReturns(r, s) ==
    /\ job[r].pc = "api" /\ s \in job[r].eligible
    /\ job' = [job EXCEPT ![r].pc = "fetched", ![r].sensor = s,
                          ![r].fetched = {x \in published : x[1] = s /\ x[2] = Unit(r).day}]
    /\ UNCHANGED <<published, database, history, begun, faults>>

\* Mutation: rowcount is taken for the number of readings sent.
RowCountAll(readings) == Cardinality(readings)

\* cursor.rowcount, summed up: ON CONFLICT (sensor_id, timestamp) DO NOTHING.
RowCount(readings) == Cardinality(readings \ rows)

\* Mutation: the transaction is not committed.
InsertUncommitted(r, s, readings, pc) ==
    /\ job' = [job EXCEPT ![r].pc = pc, ![r].sensor = s, ![r].fetched = readings,
                          ![r].written = RowCount(readings)]
    /\ UNCHANGED <<published, database, history, begun, faults>>

\* insert_aq_readings: one transaction.
Insert(r, s, readings, pc) ==
    /\ rows' = rows \union readings
    /\ lastSeen' = [who \in DOMAIN lastSeen |-> Seen(who, readings)]
    /\ inserted' = inserted + Cardinality(readings \ rows)
    /\ job' = [job EXCEPT ![r].pc = pc, ![r].sensor = s, ![r].fetched = readings,
                          ![r].written = RowCount(readings),
                          ![r].total = @ + RowCount(readings)]
    /\ UNCHANGED <<published, manifest, outcomes, succeeded, overlapped, begun, faults>>

InsertFromArchive(r, s) ==
    /\ job[r].pc = "load" /\ s \in job[r].eligible
    /\ Insert(r, s, {x \in job[r].file : x[1] = s}, "loaded")

InsertFromApi(r) ==
    /\ job[r].pc = "fetched"
    /\ Insert(r, job[r].sensor, job[r].fetched, "inserted")

\* The run after it recorded a result for sensor s.
Settled(r, s, failed, loop) ==
    LET left == job[r].eligible \ {s}
    IN  [job[r] EXCEPT !.pc = IF left = {} THEN "unit" ELSE loop,
                       !.todo = IF left = {} THEN Tail(@) ELSE @,
                       !.file = IF left = {} THEN {} ELSE @,
                       !.eligible = left, !.sensor = "", !.fetched = {}, !.written = 0,
                       !.attempted = @ + 1, !.failures = @ + failed]

\* record_backfill_manifest with status success.
Record(r) ==
    /\ job[r].pc \in {"loaded", "inserted"}
    /\ manifest' = Upsert(Result(Source(r), job[r].sensor, Unit(r).day, "success",
                                 job[r].fetched, job[r].written))
    /\ succeeded' = succeeded \union {<<job[r].sensor, Unit(r).day>>}
    /\ job' = [job EXCEPT ![r] = Settled(r, job[r].sensor, 0,
                                         IF job[r].pc = "loaded" THEN "load" ELSE "api")]
    /\ UNCHANGED <<published, rows, lastSeen, outcomes, inserted, overlapped, begun, faults>>

\* OpenAQClientError, or there is no API key.
ApiFails(r, s) ==
    /\ job[r].pc = "api" /\ s \in job[r].eligible
    /\ manifest' = Upsert(Result("openaq_live", s, Unit(r).day, "failed", {}, 0))
    /\ job' = [job EXCEPT ![r] = Settled(r, s, 1, "api")]
    /\ UNCHANGED <<published, rows, lastSeen, outcomes, history, begun, faults>>

\* record_outcome
Outcomes(r, status) ==
    outcomes \union {[from |-> job[r].from, to |-> job[r].to,
                      targets |-> job[r].targets, status |-> status]}

Finish(r) ==
    /\ job[r].pc = "unit" /\ job[r].todo = <<>>
    /\ outcomes' = Outcomes(r, Status(job[r]))
    /\ job' = [job EXCEPT ![r] = Idle]
    /\ UNCHANGED <<published, rows, lastSeen, manifest, history, begun, faults>>

\* Any other exception ends the run as failed, if that can still be recorded.
Abort(r) ==
    /\ job[r].pc # "idle" /\ faults < MaxFaults
    /\ faults' = faults + 1
    /\ outcomes' \in {outcomes, Outcomes(r, "failed")}
    /\ job' = [job EXCEPT ![r] = Idle]
    /\ UNCHANGED <<published, rows, lastSeen, manifest, history, begun>>

\* The next step of a run.
Work(r) ==
    \/ Check(r) \/ ArchiveReturns(r) \/ ArchiveFails(r)
    \/ \E s \in Located : ApiReturns(r, s) \/ ApiFails(r, s) \/ InsertFromArchive(r, s)
    \/ InsertFromApi(r) \/ Record(r) \/ Finish(r)

Next ==
    \/ \E x \in Reading : Publish(x) \/ WriteElsewhere(x)
    \/ \E r \in Runs : Begin(r) \/ Work(r) \/ Abort(r)

Spec == Init /\ [][Next]_vars

-----------------------------------------------------------------------------
(* Properties *)

TypeOK ==
    /\ published \subseteq Reading /\ rows \subseteq Reading
    /\ \A who \in DOMAIN lastSeen : lastSeen[who] \in (Days \X Hours) \union {NoTime}
    /\ manifest \subseteq Entry /\ outcomes \subseteq Outcome
    /\ \A r \in Runs : job[r].eligible \subseteq Located /\ job[r].fetched \subseteq Reading
    /\ inserted \in Nat /\ succeeded \subseteq Sensors \X Days /\ overlapped \in BOOLEAN
    /\ begun \in Nat /\ faults \in Nat

\* A day the manifest calls loaded is in the table with every reading that was
\* fetched for it, wherever runs overlap or break off: a later run will not
\* fetch it again.
LoadedIsStored ==
    \A m \in manifest : m.status = "success" => m.fetched \subseteq rows

\* A run is reported as a success only if every sensor had each of its days
\* loaded, by it or by another run.
SuccessIsComplete ==
    \A o \in outcomes : o.status = "success" => o.targets \X (o.from..o.to) \subseteq succeeded

\* The manifest never claims more rows than were inserted, whichever run, or the
\* poller, stored a reading first.
ManifestNeverOvercounts == MapThenSumSet(LAMBDA m : m.written, manifest) <= inserted

\* "A completed date is skipped on the next run" (fyp-report-draft.md): as long
\* as runs do not overlap no run fetches a day that was loaded.
CompletedIsSkipped ==
    [][\A r \in Runs : job[r].pc = "unit" /\ job'[r].pc = "archive" /\ ~overlapped =>
          (job'[r].eligible \X {Unit(r).day}) \cap succeeded = {}]_vars
=============================================================================
