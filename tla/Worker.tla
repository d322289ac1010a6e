------------------------------- MODULE Worker -------------------------------
(***************************************************************************)
(* services/worker: one asyncio task per component (openaq, weather,       *)
(* forecast) runs it in a thread at a fixed rate, backs off exponentially  *)
(* after failed runs, and keeps the health record the worker serves on     *)
(* /health.  The API reads that record when it reports on the pipeline     *)
(* (services/api/health_checks.py and _overall_pipeline_status).           *)
(*                                                                         *)
(* A tick of the clock stands for any number of seconds.  A run may take   *)
(* any number of ticks, or never end.                                      *)
(***************************************************************************)
EXTENDS Integers

CONSTANTS Components,      \* the enabled components
          Watched,         \* those health_checks.py maps to services, enabled or not
          Interval,        \* Interval[c]: interval_seconds of component c
          BackoffInitial,  \* WORKER_BACKOFF_INITIAL_SECONDS
          BackoffMax,      \* WORKER_BACKOFF_MAX_SECONDS
          MaxTime,         \* bound: the clock stops there
          MaxRestarts      \* bound: number of crashes of the worker

\* _int_env keeps every setting at one or more, and main refuses a maximum
\* below the initial delay.
ASSUME SettingsAssumption ==
    /\ Interval \in [Components -> Nat \ {0}]
    /\ BackoffInitial \in Nat \ {0} /\ BackoffMax \in Nat
    /\ BackoffInitial <= BackoffMax
    /\ MaxTime \in Nat /\ MaxRestarts \in Nat

VARIABLES
    now,       \* utc_now()
    alive,     \* the worker process is up
    nextTick,  \* next_tick of _run_component_loop
    started,   \* started_at of the run under way, None while the task sleeps
    health,    \* WorkerHealthState._components
    restarts   \* crashes so far

vars == <<now, alive, nextTick, started, health, restarts>>

None == -1

\* A component's health record, with last_success_at kept as whether it is set.
Health == [status: {"idle", "running", "success", "partial", "failed"},
           finished: Nat \union {None}, succeeded: BOOLEAN,
           failures: Nat, backoffUntil: Int]

IdleHealth == [status |-> "idle", finished |-> None, succeeded |-> FALSE,
               failures |-> 0, backoffUntil |-> None]

Running(c) == started[c] # None
Later(a, b) == IF a >= b THEN a ELSE b

-----------------------------------------------------------------------------
(* Scheduling *)

\* Mutation: the ticks missed during a long run are caught up one by one.
NextTickCatchUp(c, previous, t) == previous + Interval[c]

\* _next_tick: the first tick of the component's schedule after t.
NextTick(c, previous, t) ==
    IF t < previous THEN previous
    ELSE previous + ((t - previous) \div Interval[c] + 1) * Interval[c]

\* 2 ** n
PowerOfTwo[n \in Nat] == IF n = 0 THEN 1 ELSE 2 * PowerOfTwo[n - 1]

\* _backoff_seconds
BackoffSeconds(n) ==
    LET delay == BackoffInitial * PowerOfTwo[n - 1]
    IN  IF n <= 0 THEN 0 ELSE IF delay <= BackoffMax THEN delay ELSE BackoffMax

\* Mutation: the schedule goes on as if the run had succeeded.
TickAfterFailureOnSchedule(c, t, delay) == NextTick(c, nextTick[c], t)

TickAfterFailure(c, t, delay) == Later(NextTick(c, nextTick[c], t), t + delay)

-----------------------------------------------------------------------------
(* The health record *)

\* Mutation: a new run wipes the backoff of the failed one.
MarkStartedClears(h) == [h EXCEPT !.status = "running", !.backoffUntil = None]

MarkStarted(h) == [h EXCEPT !.status = "running"]

MarkSucceeded(h, t, status) ==
    [status |-> status, finished |-> t, succeeded |-> TRUE,
     failures |-> 0, backoffUntil |-> None]

\* Mutation: the failures are counted in a status of their own.
MarkFailedUnknown(h, t) ==
    [status |-> "backoff", finished |-> t, succeeded |-> h.succeeded,
     failures |-> h.failures + 1,
     backoffUntil |-> t + BackoffSeconds(h.failures + 1)]

MarkFailed(h, t) ==
    [status |-> "failed", finished |-> t, succeeded |-> h.succeeded,
     failures |-> h.failures + 1,
     backoffUntil |-> t + BackoffSeconds(h.failures + 1)]

-----------------------------------------------------------------------------
Init ==
    /\ now = 0
    /\ alive = TRUE
    /\ nextTick = [c \in Components |-> 0]
    /\ started = [c \in Components |-> None]
    /\ health = [c \in Components |-> IdleHealth]
    /\ restarts = 0

Tick ==
    /\ now < MaxTime
    /\ now' = now + 1
    /\ UNCHANGED <<alive, nextTick, started, health, restarts>>

\* Mutation: the components share one thread.
DueAlone(c) == now >= nextTick[c] /\ \A d \in Components : ~Running(d)

\* The task of c has slept until its next tick.
Due(c) == now >= nextTick[c]

Start(c) ==
    /\ alive /\ ~Running(c) /\ Due(c)
    /\ started' = [started EXCEPT ![c] = now]
    /\ health' = [health EXCEPT ![c] = MarkStarted(@)]
    /\ UNCHANGED <<now, alive, nextTick, restarts>>

Sleep(c) == started' = [started EXCEPT ![c] = None]

\* run_once returns a result that says when it finished.
Succeed(c, t, status) ==
    /\ alive /\ Running(c) /\ t \in started[c]..now
    /\ health' = [health EXCEPT ![c] = MarkSucceeded(@, t, status)]
    /\ nextTick' = [nextTick EXCEPT ![c] = NextTick(c, @, t)]
    /\ Sleep(c)
    /\ UNCHANGED <<now, alive, restarts>>

\* The result has status failed, or run_once raises (and then t is now).
Fail(c, t) ==
    /\ alive /\ Running(c) /\ t \in started[c]..now
    /\ health' = [health EXCEPT ![c] = MarkFailed(@, t)]
    /\ nextTick' = [nextTick EXCEPT ![c] =
                       TickAfterFailure(c, t, BackoffSeconds(health[c].failures + 1))]
    /\ Sleep(c)
    /\ UNCHANGED <<now, alive, restarts>>

\* The process stops ...
Crash ==
    /\ alive
    /\ restarts < MaxRestarts
    /\ alive' = FALSE
    /\ restarts' = restarts + 1
    /\ UNCHANGED <<now, nextTick, started, health>>

\* ... and is started again (restart: unless-stopped): nothing was persisted.
Restart ==
    /\ ~alive
    /\ alive' = TRUE
    /\ nextTick' = [c \in Components |-> now]
    /\ started' = [c \in Components |-> None]
    /\ health' = [c \in Components |-> IdleHealth]
    /\ UNCHANGED <<now, restarts>>

Times == 0..MaxTime

Next ==
    \/ Tick
    \/ Crash
    \/ Restart
    \/ \E c \in Components :
          \/ Start(c)
          \/ \E t \in Times : \/ \E status \in {"success", "partial"} : Succeed(c, t, status)
                              \/ Fail(c, t)

Spec == Init /\ [][Next]_vars

\* Time passes, sleeping tasks are woken and the container is restarted.
\* Nothing says that a run ever ends.
FairSpec == Spec /\ WF_vars(Tick) /\ WF_vars(Restart)
                 /\ \A c \in Components : WF_vars(Start(c))

-----------------------------------------------------------------------------
(* What the API makes of the worker's health *)

\* Mutation: only the backoff tells a failing component.
FailingByBackoff(h) == h.backoffUntil > now

Failing(h) == h.status = "failed" \/ h.backoffUntil > now

\* _aggregate_status
AggregateStatus ==
    IF \A c \in Components : ~health[c].succeeded THEN "down"
    ELSE IF \E c \in Components : Failing(health[c]) THEN "degraded" ELSE "healthy"

\* _from_worker_component: a component that is not enabled is missing from the
\* worker's answer.
ServiceStatus(c) ==
    IF c \notin Components \/ health[c].status = "failed" THEN "down"
    ELSE IF health[c].backoffUntil # None \/ ~health[c].succeeded THEN "degraded" ELSE "ok"

\* Mutation: a worker that does not answer has no service that is down.
ExternalStatusNoAnswer ==
    IF alive /\ \E c \in Watched : ServiceStatus(c) = "down"
    THEN "degraded" ELSE "ok"

\* _check_worker_health: the status of the worker as a whole is not looked at.
ExternalStatus ==
    IF ~alive \/ \E c \in Watched : ServiceStatus(c) = "down"
    THEN "degraded" ELSE "ok"

\* _overall_pipeline_status of the database check and the coverage mode, with the
\* Kafka check at its default (disabled).
PipelineStatus(databaseUp, mode) ==
    IF ~databaseUp \/ mode = "NO_DATA" THEN "down"
    ELSE IF ExternalStatus = "degraded" \/ mode # "LIVE_OBSERVED" THEN "degraded"
    ELSE "healthy"

-----------------------------------------------------------------------------
(* Properties *)

TypeOK ==
    /\ now \in Nat
    /\ alive \in BOOLEAN
    /\ nextTick \in [Components -> Nat]
    /\ started \in [Components -> Nat \union {None}]
    /\ health \in [Components -> Health]
    /\ restarts \in Nat

\* A component that failed is left alone until its backoff is over, whatever
\* its schedule says and however late its result was reported.
RespectsBackoff ==
    \A c \in Components : health[c].backoffUntil <= IF Running(c) THEN started[c]
                                                    ELSE nextTick[c]

\* A run that took long is not followed by a burst of runs to catch up, and
\* neither a long run nor a row of failures puts the next run off by more than
\* an interval or the longest backoff.
NoBurstNoGap ==
    \A c \in Components :
        ~Running(c) /\ health[c].finished # None =>
            /\ nextTick[c] > health[c].finished
            /\ nextTick[c] <= health[c].finished + Later(Interval[c], BackoffMax)

\* The service of a component that keeps failing never shows as ok, not even
\* while it is being retried.
FailingServiceShows ==
    \A c \in Components : health[c].failures > 0 => ServiceStatus(c) # "ok"

\* The worker is healthy only if no component has failed and waits for its
\* next run.
HealthyMeansNoneWaitsAfterFailure ==
    AggregateStatus = "healthy" =>
        \A c \in Components : health[c].failures = 0 \/ Running(c)

\* The pipeline is never healthy while the worker is gone or a watched
\* component is disabled or waits after a failure.
BrokenWorkerShows ==
    PipelineStatus(TRUE, "LIVE_OBSERVED") = "healthy" =>
        /\ alive
        /\ \A c \in Watched : c \in Components /\ (health[c].failures = 0 \/ Running(c))

\* Every component runs when its tick comes, even if the run of another one
\* never ends.
EventuallyRuns ==
    \A c \in Components : alive /\ nextTick[c] <= MaxTime ~> Running(c) \/ ~alive
=============================================================================
