--------------------------- MODULE WeatherPoller ---------------------------
(***************************************************************************)
(* services/weather_poller: a poll asks Open-Meteo for the weather and the *)
(* modeled air quality of every location, past and coming days together,   *)
(* stores each feed in a transaction of its own, records the run and then  *)
(* brings its health up to date.                                           *)
(*                                                                         *)
(* Time is counted in days: the hours of a day are fetched and stored      *)
(* together, and model_run_at, the hour of the run, is its day.            *)
(***************************************************************************)
EXTENDS Integers, FiniteSets

CONSTANTS Locations,  \* weather_locations
          Pollers,
          Feeds,      \* Feeds[p]: WEATHER_POLL_COMPONENTS of the poller
          Past, Ahead,  \* past_days, and forecast_days - 1
          MaxTime,    \* bound: the clock stops there
          MaxFaults   \* bound: number of failures and crashes

ASSUME PollerAssumption ==
    /\ IsFiniteSet(Locations)
    /\ \A p \in Pollers : Feeds[p] \subseteq {"weather", "modeled_aq"} /\ Feeds[p] # {}
    /\ Past \in Nat /\ Ahead \in Nat /\ MaxTime \in Nat /\ MaxFaults \in Nat

VARIABLES
    now,       \* days since the oldest day a poll can ask for
    weather,   \* weather_readings: location and day
    modeled,   \* modeled_aq_readings: location, day and run
    report,    \* the latest row of pipeline_runs of each poller
    health,    \* HealthState._status of each poller
    claimed,   \* the sum of records_processed over pipeline_runs
    job,       \* the local variables of run_once of each poller
    faults

database == <<weather, modeled, report, claimed>>
vars == <<now, database, health, job, faults>>

Day == Nat
Reading == [feed: {"weather"}, location: Locations, day: Day, run: {0}]
           \union [feed: {"modeled_aq"}, location: Locations, day: Day, run: Day]
Call == Locations \X {"weather", "modeled_aq"}

\* The days that fetch_weather and fetch_modeled_aq ask for.
Window(day) == day - Past .. day + Ahead

Statuses == {"success", "partial", "failed"}

\* The result of a run that was recorded, or could not be, the locations polled, the calls not made yet, those that raised, the readings
\* collected, how many of them were inserted, and the status of a run that raised.
Job == [pc: {"idle", "fetching", "weather", "modeled", "stored", "failed", "recorded"},
        at: Day, status: Statuses,
        locations: SUBSET Locations, todo: SUBSET Call, errors: SUBSET Call,
        batch: SUBSET Reading, inserted: Nat]

Idle == [pc |-> "idle", at |-> 0, status |-> "failed", locations |-> {}, todo |-> {}, errors |-> {},
         batch |-> {}, inserted |-> 0]

\* A location failed if each of its calls did.
FailedLocations(p) ==
    {l \in job[p].locations : {l} \X Feeds[p] \subseteq job[p].errors}

\* Mutation: the feed of a location that failed beside a good one is forgotten.
StatusByLocation(p) ==
    IF job[p].pc = "failed" \/ FailedLocations(p) = job[p].locations THEN "failed"
    ELSE IF FailedLocations(p) # {} THEN "partial" ELSE "success"

\* Mutation: a status that the readers of pipeline_runs do not know.
StatusUnknown(p) ==
    IF job[p].errors # {} THEN "rate_limited" ELSE StatusByLocation(p)

\* _failed_result, or _status of a run that came to its end.
Status(p) ==
    IF job[p].pc = "failed" \/ FailedLocations(p) = job[p].locations THEN "failed"
    ELSE IF job[p].errors # {} THEN "partial" ELSE "success"

Stored(r) == IF r.feed = "weather" THEN <<r.location, r.day>> \in weather
             ELSE <<r.location, r.day, r.run>> \in modeled

\* A row of pipeline_runs, with the calls that were not answered and the
\* readings that are not in the tables.
Report == [status: Statuses, missing: SUBSET Call, unstored: SUBSET Reading]

Recorded(p) ==
    [status |-> Status(p), missing |-> job[p].errors \union job[p].todo,
     unstored |-> {r \in job[p].batch : ~Stored(r)}]

\* Mutation: a partial run is healthy.
HealthByFailure(status) == IF status = "failed" THEN "failed" ELSE "ok"

\* HealthState.update
HealthOf(status) ==
    IF status = "success" THEN "ok" ELSE IF status = "failed" THEN "failed" ELSE "degraded"

-----------------------------------------------------------------------------
Init ==
    /\ now = Past
    /\ weather = {} /\ modeled = {} /\ claimed = 0
    /\ report = [p \in Pollers |-> [status |-> "failed", missing |-> {}, unstored |-> {}]]
    /\ health = [p \in Pollers |-> "degraded"]
    /\ job = [p \in Pollers |-> Idle]
    /\ faults = 0

Tick ==
    /\ now < MaxTime
    /\ now' = now + 1
    /\ UNCHANGED <<database, health, job, faults>>

\* fetch_active_locations
Begin(p) ==
    /\ job[p].pc = "idle"
    /\ \E active \in {{}, Locations} :
          job' = [job EXCEPT ![p] = [Idle EXCEPT !.pc = "fetching", !.at = now,
                     !.locations = active, !.todo = active \X Feeds[p]]]
    /\ UNCHANGED <<now, database, health, faults>>

\* Open-Meteo answers a call for location c[1] and feed c[2], with all of the
\* window or without its last day; an hour without any value makes no reading.
Fetch(p, c) ==
    /\ job[p].pc = "fetching" /\ c \in job[p].todo
    /\ \E days \in {Window(job[p].at), Window(job[p].at) \ {job[p].at + Ahead}} :
          job' = [job EXCEPT ![p].todo = @ \ {c}, ![p].batch = @ \union
                    {[feed |-> c[2], location |-> c[1], day |-> d,
                      run |-> IF c[2] = "weather" THEN 0 ELSE job[p].at] : d \in days}]
    /\ UNCHANGED <<now, database, health, faults>>

\* OpenMeteoRateLimitError or OpenMeteoClientError, also of the normalisation.
FetchFails(p, c) ==
    /\ job[p].pc = "fetching" /\ c \in job[p].todo
    /\ faults < MaxFaults
    /\ faults' = faults + 1
    /\ job' = [job EXCEPT ![p].todo = @ \ {c}, ![p].errors = @ \union {c}]
    /\ UNCHANGED <<now, database, health>>

\* ON CONFLICT (location_id, timestamp) DO NOTHING
NewWeather(p) == {<<r.location, r.day>> : r \in {r \in job[p].batch : r.feed = "weather"}} \ weather

\* ON CONFLICT (model_location_id, pollutant, timestamp, model_run_at) DO NOTHING
NewModeled(p) ==
    {<<r.location, r.day, r.run>> : r \in {r \in job[p].batch : r.feed = "modeled_aq"}} \ modeled

\* Mutation: the readings sent are counted, not those inserted.
InsertedAll(p, new, feed) == Cardinality({r \in job[p].batch : r.feed = feed})

\* cursor.rowcount, summed.
Inserted(p, new, feed) == Cardinality(new)

InsertWeather(p) ==
    /\ job[p].pc = "fetching" /\ job[p].todo = {}
    /\ weather' = weather \union NewWeather(p)
    /\ job' = [job EXCEPT ![p].pc = "weather",
                          ![p].inserted = @ + Inserted(p, NewWeather(p), "weather")]
    /\ UNCHANGED <<now, modeled, report, claimed, health, faults>>

InsertModeled(p) ==
    /\ job[p].pc = "weather"
    /\ modeled' = modeled \union NewModeled(p)
    /\ job' = [job EXCEPT ![p].pc = "stored",
                          ![p].inserted = @ + Inserted(p, NewModeled(p), "modeled_aq")]
    /\ UNCHANGED <<now, weather, report, claimed, health, faults>>

\* A database error, or a payload that cannot be read, makes the run a failed one.
Raise(p) ==
    /\ job[p].pc \in {"fetching", "weather"}
    /\ faults < MaxFaults
    /\ faults' = faults + 1
    /\ job' = [job EXCEPT ![p].pc = "failed", ![p].inserted = 0]
    /\ UNCHANGED <<now, database, health>>

\* record_pipeline_run
Record(p) ==
    /\ job[p].pc \in {"stored", "failed"}
    /\ report' = [report EXCEPT ![p] = Recorded(p)]
    /\ claimed' = claimed + job[p].inserted
    /\ job' = [job EXCEPT ![p] = [Idle EXCEPT !.pc = "recorded", !.status = Status(p)]]
    /\ UNCHANGED <<now, weather, modeled, health, faults>>

\* A run that cannot be recorded has failed.
RecordFails(p) ==
    /\ job[p].pc \in {"stored", "failed"}
    /\ faults < MaxFaults
    /\ faults' = faults + 1
    /\ job' = [job EXCEPT ![p] = [Idle EXCEPT !.pc = "recorded", !.status = "failed"]]
    /\ UNCHANGED <<now, database, health>>

\* health_state.update, after run_once
Update(p) ==
    /\ job[p].pc = "recorded"
    /\ health' = [health EXCEPT ![p] = HealthOf(job[p].status)]
    /\ job' = [job EXCEPT ![p] = Idle]
    /\ UNCHANGED <<now, database, faults>>

\* The process dies and is restarted.
Crash(p) ==
    /\ job[p].pc # "idle"
    /\ faults < MaxFaults
    /\ faults' = faults + 1
    /\ health' = [health EXCEPT ![p] = "degraded"]
    /\ job' = [job EXCEPT ![p] = Idle]
    /\ UNCHANGED <<now, database>>

Poll(p) ==
    \/ Begin(p) \/ InsertWeather(p) \/ InsertModeled(p) \/ Record(p) \/ Update(p)
    \/ \E c \in job[p].todo : Fetch(p, c)

Next ==
    \/ Tick
    \/ \E p \in Pollers :
          \/ Poll(p) \/ Raise(p) \/ RecordFails(p) \/ Crash(p)
          \/ \E c \in job[p].todo : FetchFails(p, c)
=============================================================================
