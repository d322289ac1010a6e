------------------------------ MODULE Weather ------------------------------
(***************************************************************************)
(* The weather pollers and the weather backfill beside each other: both    *)
(* write weather_readings, and neither replaces a row that it finds.       *)
(***************************************************************************)
EXTENDS WeatherPoller, FiniteSetsExt

CONSTANTS MonthLength, LastDay, MaxDays, MaxRuns, MaxAborts

ASSUME BackfillAssumption == MonthLength \in Nat \ {0} /\ LastDay \in Nat

VARIABLES manifest, outcomes, load, begun, aborts

Backfill == INSTANCE WeatherBackfill
    WITH rows <- weather, job <- load, faults <- aborts, MaxFaults <- MaxAborts

others == <<manifest, outcomes, load, begun, aborts>>

WeatherInit == Init /\ Backfill!Init

\* The backfill leaves the pollers alone, and the pollers the backfill.
WeatherNext ==
    \/ Next /\ UNCHANGED others
    \/ Backfill!Next /\ UNCHANGED <<now, modeled, report, claimed, health, job, faults>>

Spec == WeatherInit /\ [][WeatherNext]_<<vars, others>>

-----------------------------------------------------------------------------
(* Properties *)

TypeOK ==
    /\ now \in Day
    /\ weather \subseteq Locations \X Day
    /\ modeled \subseteq Locations \X Day \X Day
    /\ report \in [Pollers -> Report]
    /\ health \in [Pollers -> {"ok", "degraded", "failed"}]
    /\ claimed \in Nat /\ faults \in Nat
    /\ job \in [Pollers -> Job]
    /\ \A key \in DOMAIN manifest : manifest[key].status \in {"none", "success", "failed"}

\* A poll that is recorded as a success asked every location for every feed, and
\* all it was given is in the tables: no feed that was rate limited and no
\* transaction that failed after another is hidden by the status.
SuccessIsStored ==
    \A p \in Pollers : report[p].status = "success" =>
        report[p].missing = {} /\ report[p].unstored = {}

\* A poller is healthy only if the run on record was a success, but for the time
\* from the record to the update: a run may fail to be recorded, and the process
\* may die between the two.
HealthIsRecorded ==
    \A p \in Pollers : health[p] = "ok" =>
        report[p].status = "success" \/ job[p].pc = "recorded"

Written == MapThenSumSet(LAMBDA key : manifest[key].written, DOMAIN manifest)

\* pipeline_runs and backfill_manifest together never claim more rows than the
\* tables have, though pollers and backfill fetch the same days again.
RowsAreClaimedOnce == claimed + Written <= Cardinality(weather) + Cardinality(modeled)
=============================================================================
