-------------------------- MODULE WeatherBackfill --------------------------
(***************************************************************************)
(* airflow/dags/himalayaair/weather_backfill.py: a DAG started by hand     *)
(* loads past days of weather for every location.  It fetches month by     *)
(* month, and keeps in backfill_manifest which months of which location    *)
(* were loaded.  Runs do not overlap here.                                 *)
(*                                                                         *)
(* A row of weather_readings is <<location, day>>: the hours of a day are  *)
(* fetched and stored together.                                            *)
(***************************************************************************)
EXTENDS Integers, Sequences, FiniteSets

CONSTANTS Locations,    \* the active weather locations
          MonthLength,  \* days of a month
          LastDay,      \* bound: the day before the last run
          MaxDays,      \* weather_backfill_max_months * 31
          MaxRuns,      \* bound: number of runs started
          MaxFaults     \* bound: number of exceptions and crashes

VARIABLES
    rows,      \* weather_readings
    manifest,  \* backfill_manifest: status and rows_written of each month of a location
    outcomes,  \* pipeline_runs of this component
    job,       \* the local variables of the run
    begun, faults

vars == <<rows, manifest, outcomes, job, begun, faults>>

Days == 0..LastDay
Month(day) == day \div MonthLength

Idle == [pc |-> "idle", from |-> 0, to |-> 0, todo |-> {}, fetched |-> {}, written |-> 0,
         failures |-> 0, attempted |-> 0, skipped |-> 0, total |-> 0]

\* month_windows_for_range: the part of each month that lies in the range.
MonthWindows(from, to) ==
    {[month |-> m, days |-> {d \in from..to : Month(d) = m}] : m \in Month(from)..Month(to)}

\* _status
Status(j) ==
    IF j.failures = 0 THEN "success"
    ELSE IF j.total > 0 \/ j.skipped > 0 \/ j.attempted > j.failures THEN "partial"
    ELSE "failed"

Init ==
    /\ rows = {} /\ outcomes = {}
    /\ manifest = [key \in Locations \X (Month(0)..Month(LastDay)) |-> [status |-> "none", written |-> 0]]
    /\ job = Idle
    /\ begun = 0 /\ faults = 0

\* date_window_from_conf, and the work of the run: every window of every location.
Begin ==
    /\ job.pc = "idle" /\ begun < MaxRuns
    /\ \E from, to \in Days :
          /\ from <= to /\ to - from < MaxDays
          /\ job' = [Idle EXCEPT !.pc = "next", !.from = from, !.to = to,
                                 !.todo = Locations \X MonthWindows(from, to)]
    /\ begun' = begun + 1
    /\ UNCHANGED <<rows, manifest, outcomes, faults>>

\* The manifest says that the month was loaded.
Skip(w) ==
    /\ job.pc = "next" /\ w \in job.todo
    /\ manifest[<<w[1], w[2].month>>].status = "success"
    /\ job' = [job EXCEPT !.todo = @ \ {w}, !.skipped = @ + 1]
    /\ UNCHANGED <<rows, manifest, outcomes, begun, faults>>

\* fetch_weather_history and insert_weather_readings.
Load(w) ==
    LET readings == {w[1]} \X w[2].days
    IN  /\ job.pc = "next" /\ w \in job.todo
        /\ manifest[<<w[1], w[2].month>>].status # "success"
        /\ rows' = rows \union readings
        /\ job' = [job EXCEPT !.pc = "loaded", !.fetched = {w},
                              !.written = Cardinality(readings \ rows),
                              !.total = @ + Cardinality(readings \ rows)]
        /\ UNCHANGED <<manifest, outcomes, begun, faults>>

\* record_backfill_manifest, under the first day of the month.
Record ==
    /\ job.pc = "loaded"
    /\ \E w \in job.fetched :
          /\ manifest' = [manifest EXCEPT ![<<w[1], w[2].month>>] =
                                             [status |-> "success", written |-> job.written]]
          /\ job' = [job EXCEPT !.pc = "next", !.fetched = {}, !.written = 0, !.todo = @ \ {w},
                                !.attempted = @ + 1]
    /\ UNCHANGED <<rows, outcomes, begun, faults>>

\* OpenMeteoClientError
LoadFails(w) ==
    /\ job.pc = "next" /\ w \in job.todo
    /\ manifest[<<w[1], w[2].month>>].status # "success"
    /\ manifest' = [manifest EXCEPT ![<<w[1], w[2].month>>] = [status |-> "failed", written |-> 0]]
    /\ job' = [job EXCEPT !.todo = @ \ {w}, !.attempted = @ + 1, !.failures = @ + 1]
    /\ UNCHANGED <<rows, outcomes, begun, faults>>

\* record_outcome
Finish ==
    /\ job.pc = "next" /\ job.todo = {}
    /\ outcomes' = outcomes \union {[from |-> job.from, to |-> job.to, status |-> Status(job)]}
    /\ job' = Idle
    /\ UNCHANGED <<rows, manifest, begun, faults>>

\* Any other exception ends the run as failed, if that can still be recorded.
Abort ==
    /\ job.pc # "idle" /\ faults < MaxFaults
    /\ faults' = faults + 1
    /\ outcomes' \in {outcomes, outcomes \union
                         {[from |-> job.from, to |-> job.to, status |-> "failed"]}}
    /\ job' = Idle
    /\ UNCHANGED <<rows, manifest, begun>>

Next ==
    \/ Begin
    \/ \E w \in job.todo : Skip(w) \/ Load(w) \/ LoadFails(w)
    \/ Record \/ Finish \/ Abort

Spec == Init /\ [][Next]_vars

-----------------------------------------------------------------------------
(* Properties *)

\* "A completed date is skipped on the next run" (fyp-report-draft.md), and no
\* other date: after a run that is reported as a success every location has every
\* day of the requested range.
SuccessIsComplete ==
    \A o \in outcomes : o.status = "success" => Locations \X (o.from..o.to) \subseteq rows
=============================================================================
