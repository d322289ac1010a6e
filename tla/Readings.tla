------------------------------ MODULE Readings ------------------------------
(***************************************************************************)
(* The tables that estimates are made from, and the statements the API and *)
(* the data-quality check of Airflow read them with: services/api/         *)
(* repository.py and airflow/dags/himalayaair/database.py.                 *)
(*                                                                         *)
(* A reader is one transaction at READ COMMITTED: NOW() is the time it     *)
(* began, here `asked`, and each statement sees what was committed before  *)
(* that statement.  So every statement is a step, and rows arrive between  *)
(* them.  Time is in hours; the rows are of the PM2.5 sensor of each       *)
(* station, and every station is active.  Modeled rows may lie ahead: the  *)
(* weather poller stores the hours that Open-Meteo forecasts.              *)
(***************************************************************************)
EXTENDS Coverage, AqiCalculator, FiniteSets

CONSTANTS Stations,       \* active rows of stations
          Samples,        \* what is measured: [kind, value, anomaly]
          Cells,          \* the weather locations, which modeled readings belong to
          ModeledSamples, \* what Open-Meteo answers for an hour: [value, aqi]
          FreshHours,     \* fresh_hours
          RecentHours,    \* recent_hours
          ModeledHours,   \* modeled_hours
          ModeledAhead,   \* 3: how far ahead a modeled reading stands for the present
          ForecastHours,  \* bound: how far ahead Open-Meteo answers
          MaxTime,        \* bound: the clock stops there
          MaxRows         \* bound: number of rows stored

ASSUME ReadingsAssumption ==
    /\ IsFiniteSet(Stations) /\ IsFiniteSet(Cells)
    /\ Samples \subseteq [kind: {"observed", "replay"}, value: Int, anomaly: BOOLEAN]
    /\ ModeledSamples \subseteq [value: Int, aqi: Nat \union {NoAqi}]
    /\ FreshHours \in Nat /\ RecentHours \in Nat
    /\ ModeledHours \in Nat /\ ModeledAhead \in Nat /\ ForecastHours \in Nat
    /\ MaxTime \in Nat /\ MaxRows \in Nat

VARIABLES
    now,       \* NOW()
    readings,  \* aq_readings
    modeled    \* modeled_aq_readings: of each location and hour the newest run

tables == <<now, readings, modeled>>

Time   == 0..now
NoTime == -1
None   == "none"

Reading(s, t, sample) ==
    [station |-> s, at |-> t, kind |-> sample.kind, value |-> sample.value,
     anomaly |-> sample.anomaly]

\* us_aqi is the index that Open-Meteo gives with the concentration, if it does;
\* with it, the value may be NULL and is not looked at.
ModeledReading(c, t, sample) ==
    [station |-> c, at |-> t, kind |-> "modeled", value |-> sample.value,
     aqi |-> sample.aqi, anomaly |-> FALSE]

HasIndex(r) == r.kind = "modeled" /\ r.aqi # NoAqi

\* The index stored with a reading goes before the calculator.  The writers of
\* aq_readings store what the calculator makes of the value.
Aqi(r) == IF HasIndex(r) THEN r.aqi ELSE CalculateAqi(r.value)

Largest(S) == CHOOSE x \in S : \A y \in S : y <= x

Since(asked, hours) == {r \in readings : r.at >= asked - hours}

OfKind(rs, kind) == {r \in rs : r.kind = kind}

StationCount(rs) == Cardinality({r.station : r \in rs})

\* The first statement of fetch_coverage_metadata.
CountStations(asked) ==
    [fresh  |-> StationCount(OfKind(Since(asked, FreshHours), "observed")),
     recent |-> StationCount(OfKind(Since(asked, RecentHours), "observed")),
     replay |-> StationCount(OfKind(Since(asked, RecentHours), "replay"))]

NoCounts == [fresh |-> 0, recent |-> 0, replay |-> 0]

\* The modeled rows that the API takes for the present.
PresentModeled(asked) ==
    {r \in modeled : asked - ModeledHours <= r.at /\ r.at <= asked + ModeledAhead}

\* _modeled_available of the API.
ModeledAvailable(asked) == PresentModeled(asked) # {}

\* The mode that fetch_coverage_metadata returns after its other statements.
ModeFrom(counts, asked) ==
    ChooseCoverageMode(counts, ModeledAvailable(asked), Cardinality(Stations))

\* DISTINCT ON (station_id) ORDER BY timestamp DESC
LatestOf(rs) == {r \in rs : \A q \in rs : q.station = r.station => q.at <= r.at}

Usable(rs) == {r \in rs : ~r.anomaly}

\* fetch_modeled_points
ModeledPoints(asked) == LatestOf(PresentModeled(asked))

HoursOf(mode) == IF mode = "LIVE_OBSERVED" THEN FreshHours ELSE RecentHours

\* The WHERE clause of fetch_interpolation_points.
PointRows(mode, asked) ==
    OfKind(Usable(Since(asked, HoursOf(mode))), ObservationTypeOf(mode))

\* fetch_interpolation_points, which is called for the modes that have a surface.
InterpolationPoints(mode, asked) ==
    CASE mode = "MODELED_BASELINE" -> ModeledPoints(asked)
      [] mode \in {"STATION_ONLY", "NO_DATA"} -> {}
      [] OTHER -> LatestOf(PointRows(mode, asked))

\* fetch_station_current_readings: anomalies included.
CurrentReadings(s, asked) ==
    LatestOf({r \in Since(asked, RecentHours) : r.station = s})

\* get_valley_current_response: the points composite_aqi is the maximum of.
ValleyPoints(mode, asked) ==
    IF mode = "MODELED_BASELINE" THEN ModeledPoints(asked)
    ELSE LatestOf(Usable(Since(asked, RecentHours)))

WithAqi(points) == {r \in points : Aqi(r) # NoAqi}

\* _max_station, _max_point, current_aqi_from_readings
MaxAqi(points) ==
    IF WithAqi(points) = {} THEN NoAqi ELSE Largest({Aqi(r) : r \in WithAqi(points)})

\* health_recommendation: the number of the text, 0 for "no safe estimate".
RecommendedUpTo == <<50, 100, 150, 200, 300>>

HealthRecommendation(aqi, mode) ==
    IF mode = "NO_DATA" \/ aqi = NoAqi THEN 0
    ELSE 1 + Cardinality({i \in 1..5 : aqi > RecommendedUpTo[i]})

-----------------------------------------------------------------------------
ReadingsInit == now = 0 /\ readings = {} /\ modeled = {}

StoredRows == Cardinality(readings) + Cardinality(modeled)

\* Spark, the pollers or the backfill insert a row: ON CONFLICT DO NOTHING on
\* the sensor and the timestamp.  The replay writes the same table.
Store(s, t, sample) ==
    /\ StoredRows < MaxRows
    /\ \A r \in readings : ~(r.station = s /\ r.at = t)
    /\ readings' = readings \union {Reading(s, t, sample)}
    /\ UNCHANGED <<now, modeled>>

\* A run of the weather poller inserts an hour's rows of the locations it has an
\* answer for, which from now on go before the rows of earlier runs.
StoreModeled(t, answered) ==
    /\ StoredRows < MaxRows
    /\ modeled' = {r \in modeled : ~(r.station \in DOMAIN answered /\ r.at = t)}
                      \union {ModeledReading(c, t, answered[c]) : c \in DOMAIN answered}
    /\ UNCHANGED <<now, readings>>
    /\ StoredRows' <= MaxRows

\* What a poll can bring for an hour.
Answers == UNION {[located -> ModeledSamples] : located \in (SUBSET Cells) \ {{}}}

Write ==
    \/ \E t \in 0..now + ForecastHours, answered \in Answers : StoreModeled(t, answered)
    \/ \E s \in Stations, t \in Time, sample \in Samples : Store(s, t, sample)

\* The clock.
NextHour ==
    /\ now < MaxTime
    /\ now' = now + 1
    /\ UNCHANGED <<readings, modeled>>

ReadingsTypeOK ==
    /\ now \in Nat
    /\ modeled \subseteq {ModeledReading(c, t, sample) :
                             c \in Cells, t \in 0..now + ForecastHours, sample \in ModeledSamples}
    /\ readings \subseteq {Reading(s, t, sample) : s \in Stations, t \in Time, sample \in Samples}
=============================================================================
