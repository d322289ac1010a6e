---------------------------- MODULE DataQuality ----------------------------
(***************************************************************************)
(* The data-quality check of Airflow, airflow/dags/himalayaair/            *)
(* data_quality.py: one transaction judges the readings, statement by      *)
(* statement, and writes a row of coverage_snapshots, another writes       *)
(* pipeline_runs.                                                          *)
(***************************************************************************)
EXTENDS Readings

CONSTANT CheckWindows    \* [fresh, recent]: the hours the settings or a run's conf give

ASSUME CheckWindowsAssumption == CheckWindows \subseteq [fresh: Nat, recent: Nat]

VARIABLES
    snapshot,  \* the latest row of coverage_snapshots; history: its windows
    quality,   \* status of the latest run of the check in pipeline_runs
    check      \* the local variables of the check

qualityVars == <<snapshot, quality, check>>

NoWindows == [fresh |-> 0, recent |-> 0]

NoCheck == [pc |-> "idle", asked |-> NoTime, windows |-> NoWindows, fresh |-> 0, recent |-> 0,
            modeled |-> FALSE, invalid |-> 0, state |-> None]

QualityInit ==
    /\ snapshot = [mode |-> None, at |-> NoTime, windows |-> NoWindows]
    /\ quality = None
    /\ check = NoCheck

\* Mutation: replayed readings count.
CountStationsOfAnyType(asked, hours) == StationCount(Since(asked, hours))

\* _count_distinct_stations: all observed rows come from OpenAQ.
CountDistinctStations(asked, hours) == StationCount(OfKind(Since(asked, hours), "observed"))

\* _modeled_available of the check, in which hours ahead count without a limit.
\* All rows are of the source that it asks for.
CheckModeledAvailable(asked, hours) == \E r \in modeled : r.at >= asked - hours

\* _invalid_value_count: PM2.5 below zero or above 1000.
Invalid(rs) == {r \in rs : r.value < 0 \/ r.value > 100000}

\* evaluate_data_quality opens its transaction and counts the fresh stations.
BeginCheck ==
    /\ check.pc = "idle"
    /\ \E windows \in CheckWindows :
          check' = [NoCheck EXCEPT !.pc = "fresh", !.asked = now, !.windows = windows,
                                   !.fresh = CountDistinctStations(now, windows.fresh)]
    /\ UNCHANGED <<tables, snapshot, quality>>

CountRecent ==
    /\ check.pc = "fresh"
    /\ check' = [check EXCEPT !.pc = "recent",
                     !.recent = CountDistinctStations(check.asked, check.windows.recent)]
    /\ UNCHANGED <<tables, snapshot, quality>>

CheckModeled ==
    /\ check.pc = "recent"
    /\ check' = [check EXCEPT !.pc = "modeled",
                     !.modeled = CheckModeledAvailable(check.asked, check.windows.recent)]
    /\ UNCHANGED <<tables, snapshot, quality>>

CountInvalid ==
    /\ check.pc = "modeled"
    /\ check' = [check EXCEPT !.pc = "invalid",
                     !.invalid = Cardinality(Invalid(Since(check.asked, check.windows.recent)))]
    /\ UNCHANGED <<tables, snapshot, quality>>

\* _anomaly_rate, the last statement that reads, and the row of coverage_snapshots;
\* COMMIT.  Dead sensors are deactivated in the same transaction: OpenAQPoller has
\* that part.
Snapshot ==
    /\ check.pc = "invalid"
    /\ LET recent  == Since(check.asked, check.windows.recent)
           verdict == ClassifyQualityState(check.fresh, check.recent, check.modeled,
                          check.invalid, Cardinality(recent \ Usable(recent)),
                          Cardinality(recent))
       IN  /\ snapshot' = [mode |-> verdict[2], at |-> check.asked, windows |-> check.windows]
           /\ check' = [NoCheck EXCEPT !.pc = "evaluated", !.state = verdict[1]]
    /\ UNCHANGED <<tables, quality>>

\* QUALITY_PIPELINE_STATUS
PipelineStatus(state) ==
    CASE state = "healthy" -> "success" [] state = "degraded" -> "partial" [] OTHER -> "failed"

\* record_outcome, a transaction of its own.
RecordCheck ==
    /\ check.pc = "evaluated"
    /\ quality' = PipelineStatus(check.state)
    /\ check' = NoCheck
    /\ UNCHANGED <<tables, snapshot>>

\* A transaction fails: the handler records the failure, if it can.
CheckFails ==
    /\ check.pc # "idle"
    /\ quality' \in {quality, "failed"}
    /\ check' = NoCheck
    /\ UNCHANGED <<tables, snapshot>>

QualityCheck == BeginCheck \/ CountRecent \/ CheckModeled \/ CountInvalid \/ Snapshot
                \/ RecordCheck \/ CheckFails

QualityNext ==
    \/ NextHour /\ UNCHANGED qualityVars
    \/ Write /\ UNCHANGED qualityVars
    \/ QualityCheck

-----------------------------------------------------------------------------
(* Properties *)

QualityTypeOK ==
    /\ snapshot.mode \in Modes \union {None} /\ snapshot.at \in Time \union {NoTime}
    /\ quality \in {None, "success", "partial", "failed"}
    /\ check.pc \in {"idle", "fresh", "recent", "modeled", "invalid", "evaluated"}
    /\ check.state \in {None, "healthy", "degraded", "down"}

\* Where the two sides look at different rows: the check was given a longer window
\* than the API has, or it counts a modeled row that the API does not take for the
\* present.
LooksFurther ==
    \/ snapshot.mode = "LIVE_OBSERVED" /\ snapshot.windows.fresh > FreshHours
    \/ snapshot.mode = "RECENT_OBSERVED" /\ snapshot.windows.recent > RecentHours
    \/ /\ snapshot.mode = "MODELED_BASELINE"
       /\ \E r \in modeled \ PresentModeled(now) : r.at >= now - snapshot.windows.recent

\* The snapshot of the data-quality check claims no better coverage than the API
\* finds within the hour, though the two count by different queries and settings
\* and the check sees other commits from statement to statement; if it does, the
\* cause is one of those three differences and no other.
RulesAgree ==
    \/ snapshot.at # now
    \/ LooksFurther
    \/ NoBetter(snapshot.mode, ModeFrom(CountStations(now), now))
=============================================================================
