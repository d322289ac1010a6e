------------------------------ MODULE Forecast ------------------------------
(***************************************************************************)
(* services/forecasting: run_forecast_once builds a forecast for every     *)
(* station and pollutant (a series), writes those that could be built in   *)
(* one transaction, scores the earlier forecasts whose target has passed   *)
(* in another, and records the run in a third.  The worker and the         *)
(* forecast_recompute DAG both run it every hour.                          *)
(*                                                                         *)
(* Time is counted in hours.  The rows of one hour, series and horizon     *)
(* that several runs wrote are one: scores cannot tell them apart.         *)
(***************************************************************************)
EXTENDS Integers, FiniteSets

CONSTANTS Stations, Pollutants,
          Runners,    \* processes that run it
          Horizon,    \* horizon_hours
          MaxTime,    \* bound: the clock stops there
          MaxFaults   \* bound: number of failures and crashes

ASSUME ForecastAssumption ==
    /\ Horizon \in Nat \ {0} /\ MaxTime \in Nat /\ MaxFaults \in Nat

VARIABLES
    now,        \* the current hour
    readings,   \* hours for which a series has a usable reading
    forecasts,  \* forecasts: series and created_at
    accuracy,   \* forecast_accuracy: series, created_at and horizon_hours
    report,     \* the latest row of pipeline_runs of this component
    job,        \* the local variables of each run
    forced,     \* whether FORECAST_FORCE_MODEL is set in this deployment
    faults

database == <<forecasts, accuracy, report>>
vars == <<now, readings, database, job, forced, faults>>

Series == Stations \X Pollutants

-----------------------------------------------------------------------------
(* The choice of the model *)

\* The checks of _sarimax_rejection_reasons.
Checks == {"available", "observed", "weather", "futureWeather"}

\* What build_context found: the failed checks, whether the fit will work, and
\* whether the modeled series is complete and overlaps the observed one.
Context == [failed: SUBSET Checks, fits: BOOLEAN, modeled: BOOLEAN, overlap: BOOLEAN]

\* A selection, and a forecast, is a model and a fallback reason: the set of
\* what was found wanting, {} for NULL.
Forced == [model |-> "ml_gbt_placeholder", reason |-> {"forced"}]

\* The tiers below SARIMAX.
Weaker(context, reasons) ==
    IF context.modeled
    THEN [model |-> "modeled_bias", reason |-> reasons]
    ELSE [model |-> "persistence", reason |-> reasons \union {"modeled"}]

\* choose_forecast_model
Chosen(context) ==
    IF forced THEN Forced
    ELSE IF context.failed = {} THEN [model |-> "sarimax", reason |-> {}]
    ELSE Weaker(context, context.failed)

\* Mutation: the failed fit leaves no reason.
AfterFailureQuietly(context) == Weaker(context, {})

\* _selection_after_sarimax_failure
AfterFailure(context) == Weaker(context, {"fit"})

\* _build_forecast, with the reason that build_modeled_bias_forecast adds.
Built(context) ==
    LET chosen == Chosen(context)
        used   == IF chosen.model = "sarimax" /\ ~context.fits THEN AfterFailure(context)
                  ELSE chosen
    IN  IF used.model = "modeled_bias" /\ ~context.overlap
        THEN [used EXCEPT !.reason = @ \union {"overlap"}] ELSE used

-----------------------------------------------------------------------------
(* A run *)

Job == [pc: {"idle", "building", "written", "scored"}, at: Nat,
        attempted: SUBSET Series, todo: SUBSET Series,
        results: SUBSET Series, failed: SUBSET Series]

Idle == [pc |-> "idle", at |-> 0, attempted |-> {}, todo |-> {},
         results |-> {}, failed |-> {}]

\* Mutation: a status that pipeline_runs does not know.
StatusUnknown(j) == IF j.failed # {} THEN "degraded" ELSE "success"

\* Mutation: only stations without any result count as failures.
StatusByStation(j) ==
    IF {s[1] : s \in j.results} = {s[1] : s \in j.attempted} /\ j.attempted # {} THEN "success"
    ELSE IF j.results # {} THEN "partial" ELSE "failed"

Status(j) ==
    IF {s[1] : s \in j.results} = {s[1] : s \in j.attempted} /\ j.failed = {}
       /\ j.attempted # {} THEN "success"
    ELSE IF j.results # {} THEN "partial" ELSE "failed"

\* The errors name the series that failed.
ReportOf(j) ==
    [at |-> j.at, attempted |-> j.attempted, failed |-> j.failed, status |-> Status(j)]

Init ==
    /\ now = 0
    /\ readings = {} /\ forecasts = {} /\ accuracy = {}
    /\ report = ReportOf(Idle)
    /\ job = [r \in Runners |-> Idle]
    /\ forced \in BOOLEAN
    /\ faults = 0

Tick ==
    /\ now < MaxTime
    /\ now' = now + 1
    /\ UNCHANGED <<readings, database, job, forced, faults>>

\* The ingestion stores a reading of this hour or, late, of an earlier one.  No
\* forecast has a target in hour 0.
Observe(s, hour) ==
    /\ <<s, hour>> \notin readings
    /\ readings' = readings \union {<<s, hour>>}
    /\ UNCHANGED <<now, database, job, forced, faults>>

\* The run is started, for all stations or for the one of its configuration.
Begin(r) ==
    /\ job[r].pc = "idle"
    /\ \E stations \in {Stations} \union {{s} : s \in Stations} :
          job' = [job EXCEPT ![r] = [Idle EXCEPT !.pc = "building", !.at = now,
                                        !.attempted = stations \X Pollutants,
                                        !.todo = stations \X Pollutants]]
    /\ UNCHANGED <<now, readings, database, forced, faults>>

\* There is no active station.
BeginWithout(r) ==
    /\ job[r].pc = "idle"
    /\ report' = ReportOf([Idle EXCEPT !.at = now])
    /\ UNCHANGED <<now, readings, forecasts, accuracy, job, forced, faults>>

\* The forecast of series s is built, by one model or another ...
Build(r, s) ==
    /\ job[r].pc = "building" /\ s \in job[r].todo
    /\ job' = [job EXCEPT ![r].todo = @ \ {s}, ![r].results = @ \union {s}]
    /\ UNCHANGED <<now, readings, database, forced, faults>>

\* ... or an exception is noted, and the loop goes on.
BuildFails(r, s) ==
    /\ job[r].pc = "building" /\ s \in job[r].todo
    /\ faults < MaxFaults
    /\ faults' = faults + 1
    /\ job' = [job EXCEPT ![r].todo = @ \ {s}, ![r].failed = @ \union {s}]
    /\ UNCHANGED <<now, readings, database, forced>>

\* write_forecast_run; a run without results writes and scores nothing.
Write(r) ==
    /\ job[r].pc = "building" /\ job[r].todo = {}
    /\ forecasts' = forecasts \union (job[r].results \X {job[r].at})
    /\ job' = [job EXCEPT ![r].pc = IF job[r].results = {} THEN "scored" ELSE "written"]
    /\ UNCHANGED <<now, readings, accuracy, report, forced, faults>>

\* Mutation: only the forecasts of the hour before are looked at.
ElapsedLately(at) ==
    {<<f[1], f[2], h>> : f \in {f \in forecasts : f[2] = at - 1}, h \in {1}}

\* The forecasts whose target has passed at the given hour.
Elapsed(at) ==
    {k \in {<<f[1], f[2], h>> : f \in forecasts, h \in 1..Horizon} : k[2] + k[3] <= at}

\* compute_elapsed_accuracy: joins them to the readings of the target hour; a
\* score that exists is kept.
Score(r) ==
    /\ job[r].pc = "written"
    /\ accuracy' = accuracy \union
          {k \in Elapsed(job[r].at) : <<k[1], k[2] + k[3]>> \in readings}
    /\ job' = [job EXCEPT ![r].pc = "scored"]
    /\ UNCHANGED <<now, readings, forecasts, report, forced, faults>>

\* _record_pipeline: an error is only logged.
Record(r) ==
    /\ job[r].pc = "scored"
    /\ report' \in {report, ReportOf(job[r])}
    /\ job' = [job EXCEPT ![r] = Idle]
    /\ UNCHANGED <<now, readings, forecasts, accuracy, forced, faults>>

\* A transaction fails and the exception ends the run, or the process dies.
Abort(r) ==
    /\ job[r].pc # "idle"
    /\ faults < MaxFaults
    /\ faults' = faults + 1
    /\ job' = [job EXCEPT ![r] = Idle]
    /\ UNCHANGED <<now, readings, database, forced>>

Work(r) == Begin(r) \/ (\E s \in Series : Build(r, s)) \/ Write(r) \/ Score(r) \/ Record(r)

Next ==
    \/ Tick
    \/ \E s \in Series, hour \in 1..now : Observe(s, hour)
    \/ \E r \in Runners :
          \/ Work(r) \/ BeginWithout(r) \/ Abort(r)
          \/ \E s \in Series : BuildFails(r, s)

Spec == Init /\ [][Next]_vars

\* Time passes and runs are started every hour.
FairSpec == Spec /\ WF_vars(Tick) /\ \A r \in Runners : WF_vars(Work(r))

-----------------------------------------------------------------------------
(* Properties *)

TypeOK ==
    /\ now \in Nat
    /\ readings \subseteq Series \X Nat
    /\ forecasts \subseteq Series \X Nat
    /\ accuracy \subseteq Series \X Nat \X (1..Horizon)
    /\ report \in [at: Nat, attempted: SUBSET Series, failed: SUBSET Series,
                   status: {"success", "partial", "failed"}]
    /\ job \in [Runners -> Job]
    /\ forced \in BOOLEAN
    /\ faults \in Nat

\* "A weaker forecast is never silent" (fyp-report-draft.md): whatever a series
\* has and whatever fails on the way, a forecast has a reason exactly when it is
\* not SARIMAX's, and unless the model was forced every failed check is among
\* its reasons, and a failed fit of a SARIMAX that was chosen.
NeverSilent ==
    \A context \in Context :
        LET built == Built(context)
        IN  /\ (built.reason = {}) <=> (built.model = "sarimax")
            /\ ~forced => context.failed \subseteq built.reason
            /\ ~forced /\ context.failed = {} /\ ~context.fits => "fit" \in built.reason

\* What a run reports is in the table: every series it attempted has the
\* forecast of the run's hour unless the report names it, and a success names none.
ReportIsTrue ==
    /\ \A s \in report.attempted \ report.failed : <<s, report.at>> \in forecasts
    /\ report.status = "success" => report.failed = {}

\* Every forecast is scored once its target is observed, though the run that
\* wrote it broke off before it scored, and the reading came late.
EventuallyScored ==
    \A s \in Series : \A at \in 0..MaxTime : \A h \in 1..Horizon :
        at + h <= MaxTime =>
            (<<s, at>> \in forecasts /\ <<s, at + h>> \in readings ~> <<s, at, h>> \in accuracy)
=============================================================================
