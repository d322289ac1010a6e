------------------------------- MODULE Firms -------------------------------
(***************************************************************************)
(* airflow/dags/himalayaair/firms.py: the daily load of the fires that     *)
(* NASA FIRMS has detected.  A load asks for each of its days, inserts     *)
(* what it is shown into fire_events, and then records the day in          *)
(* backfill_manifest, in another transaction.  Loads may overlap: the      *)
(* schedule starts one every day, and others are started by hand.          *)
(*                                                                         *)
(* A fire is <<day, number>>; its event_hash identifies it.                *)
(***************************************************************************)
EXTENDS Integers, FiniteSets

CONSTANTS LastDay,     \* bound: the days are 1..LastDay
          Detections,  \* the fires of a day, at most
          DayRange,    \* firms_day_range, for a load of a single day
          Loads,       \* loads under way at a time, at most
          MaxLoads,    \* bound: number of loads started
          MaxFaults    \* bound: number of errors and crashes

VARIABLES
    shown,     \* the fires FIRMS lists
    events,    \* fire_events
    manifest,  \* backfill_manifest: status and rows_written of each day
    loaded,    \* history: the fires that the successful loads of a day were shown
    outcome,   \* pipeline_runs: what the latest load recorded, and its days
    load,      \* the local variables of each load
    begun, faults

Days == 1..LastDay
Fire == Days \X Detections

Unloaded == [pc |-> "idle", days |-> {}, todo |-> {}, range |-> 1, found |-> {}, inserted |-> 0,
             written |-> 0, skipped |-> 0, failures |-> 0, attempted |-> 0]

FirmsInit ==
    /\ shown = {} /\ events = {}
    /\ manifest = [d \in Days |-> [status |-> "none", written |-> 0]]
    /\ loaded = [d \in Days |-> {}]
    /\ outcome = [status |-> "none", days |-> {}]
    /\ load = [l \in Loads |-> Unloaded]
    /\ begun = 0 /\ faults = 0

\* FIRMS lists a fire.
Detect(f) ==
    /\ f \notin shown
    /\ shown' = shown \union {f}
    /\ UNCHANGED <<events, manifest, loaded, outcome, load, begun, faults>>

\* date_window_from_conf; a load of more than one day asks for one day at a time.
BeginLoad(l) ==
    /\ load[l].pc = "idle" /\ begun < MaxLoads
    /\ \E from, to \in Days :
          /\ from <= to
          /\ load' = [load EXCEPT ![l] =
                [Unloaded EXCEPT !.pc = "next", !.days = from..to, !.todo = from..to,
                                 !.range = IF from = to THEN DayRange ELSE 1]]
    /\ begun' = begun + 1
    /\ UNCHANGED <<shown, events, manifest, loaded, outcome, faults>>

\* FIRMS_MAP_KEY is not set: a failed run is recorded, and nothing is loaded.
BeginWithoutKey ==
    /\ begun < MaxLoads
    /\ begun' = begun + 1
    /\ outcome' = [status |-> "failed", days |-> {}]
    /\ UNCHANGED <<shown, events, manifest, loaded, load, faults>>

\* request_date
RequestDate(l) == CHOOSE d \in load[l].todo : \A e \in load[l].todo : d <= e

\* successful_manifest_exists
SkipDay(l) ==
    /\ load[l].pc = "next" /\ load[l].todo # {}
    /\ manifest[RequestDate(l)].status = "success"
    /\ load' = [load EXCEPT ![l].todo = @ \ {RequestDate(l)}, ![l].skipped = @ + 1]
    /\ UNCHANGED <<shown, events, manifest, loaded, outcome, begun, faults>>

\* It does not: fetch_area_csv, and parse_firms_csv of what it returns.
FetchDay(l) ==
    /\ load[l].pc = "next" /\ load[l].todo # {}
    /\ manifest[RequestDate(l)].status # "success"
    /\ load' = [load EXCEPT ![l].pc = "fetched", ![l].found =
          {f \in shown : f[1] \in RequestDate(l)..(RequestDate(l) + load[l].range - 1)}]
    /\ UNCHANGED <<shown, events, manifest, loaded, outcome, begun, faults>>

\* FirmsClientError after the retries.
FetchDayFails(l) ==
    /\ load[l].pc = "next" /\ load[l].todo # {}
    /\ manifest[RequestDate(l)].status # "success"
    /\ faults < MaxFaults
    /\ faults' = faults + 1
    /\ load' = [load EXCEPT ![l].pc = "failing", ![l].failures = @ + 1, ![l].attempted = @ + 1]
    /\ UNCHANGED <<shown, events, manifest, loaded, outcome, begun>>

\* Mutation: every fire counts as inserted.
NewEventsOfAll(found) == Cardinality(found)

\* The rows that ON CONFLICT (event_hash) DO NOTHING leaves.
NewEvents(found) == Cardinality(found \ events)

\* insert_fire_events, one transaction.
InsertEvents(l) ==
    /\ load[l].pc = "fetched"
    /\ events' = events \union load[l].found
    /\ load' = [load EXCEPT ![l].pc = "inserted", ![l].inserted = NewEvents(load[l].found),
                            ![l].written = @ + NewEvents(load[l].found),
                            ![l].attempted = @ + 1]
    /\ UNCHANGED <<shown, manifest, loaded, outcome, begun, faults>>

\* record_backfill_manifest, an upsert of the day.
RecordDay(l) ==
    /\ load[l].pc \in {"inserted", "failing"}
    /\ manifest' = [manifest EXCEPT ![RequestDate(l)] =
          IF load[l].pc = "inserted" THEN [status |-> "success", written |-> load[l].inserted]
          ELSE [status |-> "failed", written |-> 0]]
    /\ loaded' = [loaded EXCEPT ![RequestDate(l)] = @ \union load[l].found]
    /\ load' = [load EXCEPT ![l].pc = "next", ![l].todo = @ \ {RequestDate(l)}, ![l].found = {},
                            ![l].inserted = 0]
    /\ UNCHANGED <<shown, events, outcome, begun, faults>>

\* Mutation: a status of its own for a load that found every day loaded.
LoadStatusOrSkipped(j) ==
    IF j.failures = 0 /\ j.attempted = 0 THEN "skipped"
    ELSE IF j.failures = 0 THEN "success"
    ELSE IF j.written > 0 \/ j.skipped > 0 \/ j.attempted > j.failures THEN "partial"
    ELSE "failed"

\* _status
LoadStatus(j) ==
    IF j.failures = 0 THEN "success"
    ELSE IF j.written > 0 \/ j.skipped > 0 \/ j.attempted > j.failures THEN "partial"
    ELSE "failed"

\* The loop is over: record_outcome.
FinishLoad(l) ==
    /\ load[l].pc = "next" /\ load[l].todo = {}
    /\ outcome' = [status |-> LoadStatus(load[l]), days |-> load[l].days]
    /\ load' = [load EXCEPT ![l] = Unloaded]
    /\ UNCHANGED <<shown, events, manifest, loaded, begun, faults>>

\* Any other exception: the run is recorded as failed, unless that fails as well
\* or the worker is killed.
AbortLoad(l) ==
    /\ load[l].pc # "idle" /\ faults < MaxFaults
    /\ faults' = faults + 1
    /\ outcome' \in {outcome, [status |-> "failed", days |-> load[l].days]}
    /\ load' = [load EXCEPT ![l] = Unloaded]
    /\ UNCHANGED <<shown, events, manifest, loaded, begun>>

FirmsNext ==
    \/ \E f \in Fire : Detect(f)
    \/ BeginWithoutKey
    \/ \E l \in Loads : \/ BeginLoad(l)
                        \/ SkipDay(l) \/ FetchDay(l) \/ FetchDayFails(l)
                        \/ InsertEvents(l) \/ RecordDay(l)
                        \/ FinishLoad(l) \/ AbortLoad(l)

-----------------------------------------------------------------------------
(* Properties *)

FirmsTypeOK ==
    /\ shown \subseteq Fire /\ events \subseteq shown
    /\ \A d \in Days : /\ manifest[d].status \in {"none", "success", "failed"}
                       /\ manifest[d].written \in Nat
    /\ outcome.status \in {"none", "success", "partial", "failed"} /\ outcome.days \subseteq Days
    /\ \A l \in Loads : load[l].todo \subseteq load[l].days /\ load[l].days \subseteq Days

\* The rows that the manifest claims for the days up to d.
WrittenUpTo[d \in 0..LastDay] ==
    IF d = 0 THEN 0 ELSE WrittenUpTo[d - 1] + manifest[d].written

\* What a load does to the fires is recorded as it was: a day is marked as loaded
\* only after the fires it was shown were stored, a run that is a success leaves
\* no day of its window without a manifest row, and the rows that the manifest
\* claims were written exist, each claimed once, though loads overlap, are killed
\* between their transactions and ask again for fires that are stored.
FiresAreStored ==
    /\ \A d \in Days : loaded[d] \subseteq events
    /\ outcome.status = "success" => \A d \in outcome.days : manifest[d].status # "none"
    /\ WrittenUpTo[LastDay] <= Cardinality(events)
=============================================================================
