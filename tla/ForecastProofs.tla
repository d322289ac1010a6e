--------------------------- MODULE ForecastProofs ---------------------------
(***************************************************************************)
(* Proof that a weaker forecast is never silent, that a report is true to  *)
(* the table, and that a score is of a forecast whose target has been      *)
(* observed, for any stations, pollutants, horizons and number of runs.    *)
(***************************************************************************)
EXTENDS Forecast, TLAPS

-----------------------------------------------------------------------------
(* The inductive invariant *)

\* Every series a run attempts is still to do, built or noted as failed.
NoneForgotten == \A r \in Runners :
    job[r].attempted \subseteq job[r].todo \union job[r].results \union job[r].failed

\* After write_forecast_run nothing is left to do and the table has the results.
ResultsWritten == \A r \in Runners :
    job[r].pc \in {"written", "scored"} =>
        job[r].todo = {} /\ job[r].results \X {job[r].at} \subseteq forecasts

\* No run is of a later hour than this one.
RunsHaveBegun == \A r \in Runners : job[r].at <= now

\* A score is of a forecast that was written, against a reading of its target
\* hour, which has begun.
ScoresAreDue == \A k \in accuracy :
    /\ <<k[1], k[2]>> \in forecasts
    /\ <<k[1], k[2] + k[3]>> \in readings
    /\ k[2] + k[3] <= now

IInv == TypeOK /\ NoneForgotten /\ ResultsWritten /\ RunsHaveBegun /\ ScoresAreDue /\ ReportIsTrue

-----------------------------------------------------------------------------
(* Lemmas *)

\* A tier below SARIMAX has the reasons it was given, and another model than
\* SARIMAX; persistence adds that the modeled series is missing.
LEMMA WeakerExplained ==
    ASSUME NEW context \in Context, NEW reasons
    PROVE  /\ Weaker(context, reasons).model # "sarimax"
           /\ reasons \subseteq Weaker(context, reasons).reason
BY DEF Weaker

\* The local variables before a run.
LEMMA IdleTyped == Idle \in Job /\ Idle.attempted = {} /\ Idle.at = 0 /\ Idle.pc = "idle"
BY DEF Idle, Job

\* The report of a run that a job describes.
LEMMA ReportTyped ==
    ASSUME NEW j \in Job
    PROVE  ReportOf(j) \in [at: Nat, attempted: SUBSET Series, failed: SUBSET Series,
                            status: {"success", "partial", "failed"}]
BY DEF Job, ReportOf, Status

\* A report of success names no failed series.
LEMMA SuccessNamesNone ==
    ASSUME NEW j \in Job, Status(j) = "success"
    PROVE  j.failed = {}
BY DEF Status

\* The forecasts whose target has passed.
LEMMA ElapsedDue ==
    ASSUME TypeOK, NEW at, NEW k \in Elapsed(at)
    PROVE  /\ k \in Series \X Nat \X (1..Horizon)
           /\ <<k[1], k[2]>> \in forecasts /\ k[2] + k[3] <= at
<1>1. PICK f \in forecasts, h \in 1..Horizon : k = <<f[1], f[2], h>> /\ k[2] + k[3] <= at
  BY DEF Elapsed
<1>2. f \in Series \X Nat
  BY DEF TypeOK
<1>3. f = <<f[1], f[2]>> /\ f[1] \in Series /\ f[2] \in Nat
  BY <1>2
<1>. QED  BY <1>1, <1>3

-----------------------------------------------------------------------------
(* The choice of the model *)

\* The reasons of a forecast, whatever was found.
LEMMA Explained == NeverSilent
<1>. SUFFICES ASSUME NEW context \in Context
              PROVE  /\ (Built(context).reason = {}) <=> (Built(context).model = "sarimax")
                     /\ ~forced => context.failed \subseteq Built(context).reason
                     /\ ~forced /\ context.failed = {} /\ ~context.fits
                           => "fit" \in Built(context).reason
  BY DEF NeverSilent
<1>. DEFINE chosen == Chosen(context)
            used   == IF chosen.model = "sarimax" /\ ~context.fits THEN AfterFailure(context)
                      ELSE chosen
\* What was chosen carries the failed checks, and what is used the failed fit.
<1>1. /\ (chosen.model = "sarimax") <=> (~forced /\ context.failed = {})
      /\ (chosen.reason = {}) <=> (chosen.model = "sarimax")
      /\ ~forced => context.failed \subseteq chosen.reason
      /\ chosen.model = "sarimax" => chosen = [model |-> "sarimax", reason |-> {}]
  <2>1. CASE forced
    BY <2>1 DEF Chosen, Forced
  <2>2. CASE ~forced /\ context.failed = {}
    BY <2>2 DEF Chosen
  <2>3. CASE ~forced /\ context.failed # {}
    <3>1. chosen = Weaker(context, context.failed)
      BY <2>3 DEF Chosen
    <3>2. chosen.model # "sarimax" /\ context.failed \subseteq chosen.reason
      BY <3>1, WeakerExplained
    <3>. QED  BY <2>3, <3>2
  <2>. QED  BY <2>1, <2>2, <2>3
<1>2. /\ (used.reason = {}) <=> (used.model = "sarimax")
      /\ ~forced => context.failed \subseteq used.reason
      /\ ~forced /\ context.failed = {} /\ ~context.fits => "fit" \in used.reason
  <2>1. CASE chosen.model = "sarimax" /\ ~context.fits
    <3>1. used.model # "sarimax" /\ "fit" \in used.reason
      BY <2>1, WeakerExplained DEF AfterFailure
    <3>. QED  BY <1>1, <2>1, <3>1
  <2>2. CASE ~(chosen.model = "sarimax" /\ ~context.fits)
    BY <1>1, <2>2
  <2>. QED  BY <2>1, <2>2
<1>3. Built(context) = IF used.model = "modeled_bias" /\ ~context.overlap
                       THEN [used EXCEPT !.reason = @ \union {"overlap"}] ELSE used
  BY DEF Built
<1>4. used = [model |-> used.model, reason |-> used.reason]
  BY DEF Chosen, AfterFailure, Weaker, Forced
<1>. HIDE DEF used
<1>5. CASE used.model = "modeled_bias" /\ ~context.overlap
  <2>1. Built(context).model = used.model /\ Built(context).reason = used.reason \union {"overlap"}
    BY <1>3, <1>4, <1>5
  <2>. QED  BY <1>2, <1>5, <2>1
<1>6. CASE ~(used.model = "modeled_bias" /\ ~context.overlap)
  BY <1>2, <1>3, <1>6
<1>. QED  BY <1>5, <1>6

-----------------------------------------------------------------------------
(* The steps *)

\* No run is under way, and there is nothing to score.
LEMMA InitInv == Init => IInv
<1>. SUFFICES ASSUME Init PROVE IInv
  OBVIOUS
<1>1. TypeOK
  BY IdleTyped, ReportTyped DEF Init, TypeOK
<1>2. NoneForgotten /\ ResultsWritten /\ RunsHaveBegun
  BY IdleTyped DEF Init, NoneForgotten, ResultsWritten, RunsHaveBegun
<1>3. ScoresAreDue
  BY DEF Init, ScoresAreDue
<1>4. ReportIsTrue
  BY DEF Init, ReportIsTrue, ReportOf, Idle, Status
<1>. QED  BY <1>1, <1>2, <1>3, <1>4 DEF IInv

\* What a step of run r may do to its local variables: they become j.
Becomes(r, j) ==
    /\ job' = [job EXCEPT ![r] = j]
    /\ j \in Job
    /\ j.attempted \subseteq j.todo \union j.results \union j.failed
    /\ j.pc \in {"written", "scored"} => j.todo = {} /\ j.results \X {j.at} \subseteq forecasts'
    /\ j.at <= now

\* Such a step keeps what the invariant says of the runs.
LEMMA JobStep ==
    ASSUME IInv, NEW r \in Runners, NEW j, Becomes(r, j),
           now' = now, forecasts \subseteq forecasts'
    PROVE  job' \in [Runners -> Job] /\ NoneForgotten' /\ ResultsWritten' /\ RunsHaveBegun'
<1>1. job \in [Runners -> Job] /\ job' = [job EXCEPT ![r] = j] /\ j \in Job
  BY DEF IInv, TypeOK, Becomes
<1>2. job'[r] = j /\ \A q \in Runners : q # r => job'[q] = job[q]
  BY <1>1
<1>3. NoneForgotten'
  BY <1>2 DEF IInv, NoneForgotten, Becomes
<1>4. ResultsWritten'
  BY <1>2 DEF IInv, ResultsWritten, Becomes
<1>5. RunsHaveBegun'
  BY <1>2 DEF IInv, RunsHaveBegun, Becomes
<1>. QED  BY <1>1, <1>3, <1>4, <1>5

\* A run is started, or ends.
LEMMA StartStep ==
    ASSUME IInv, NEW r \in Runners, Begin(r) \/ Abort(r) \/ BeginWithout(r)
    PROVE  IInv'
<1>1. TypeOK /\ UNCHANGED <<now, readings, forecasts, accuracy, forced>>
  BY DEF IInv, Begin, Abort, BeginWithout, database
<1>2. CASE Begin(r)
  <2>1. PICK stations \in {Stations} \union {{s} : s \in Stations} :
           job' = [job EXCEPT ![r] = [Idle EXCEPT !.pc = "building", !.at = now,
                                         !.attempted = stations \X Pollutants,
                                         !.todo = stations \X Pollutants]]
    BY <1>2 DEF Begin
  <2>. DEFINE j == [Idle EXCEPT !.pc = "building", !.at = now,
                       !.attempted = stations \X Pollutants, !.todo = stations \X Pollutants]
  <2>2. stations \X Pollutants \subseteq Series
    BY DEF Series
  <2>3. Becomes(r, j)
    <3>1. now \in Nat /\ now <= now /\ job' = [job EXCEPT ![r] = j]
      BY <1>1, <2>1 DEF TypeOK
    <3>2. /\ j.pc = "building" /\ j.at = now
          /\ j.attempted = stations \X Pollutants /\ j.todo = stations \X Pollutants
      BY DEF Idle
    <3>3. j \in Job
      BY <2>2, <3>1 DEF Idle, Job
    <3>. HIDE DEF j
    <3>. QED  BY <3>1, <3>2, <3>3 DEF Becomes
  <2>4. job' \in [Runners -> Job] /\ NoneForgotten' /\ ResultsWritten' /\ RunsHaveBegun'
    BY <1>1, <2>3, JobStep
  <2>5. UNCHANGED <<report, faults>>
    BY <1>2 DEF Begin, database
  <2>. QED  BY <1>1, <2>4, <2>5 DEF IInv, TypeOK, ScoresAreDue, ReportIsTrue
<1>3. CASE Abort(r)
  <2>1. Becomes(r, Idle)
    BY <1>1, <1>3 DEF Abort, Becomes, Idle, Job, TypeOK
  <2>2. job' \in [Runners -> Job] /\ NoneForgotten' /\ ResultsWritten' /\ RunsHaveBegun'
    BY <1>1, <2>1, JobStep
  <2>3. report' = report /\ faults' \in Nat
    BY <1>1, <1>3 DEF Abort, database, TypeOK
  <2>. QED  BY <1>1, <2>2, <2>3 DEF IInv, TypeOK, ScoresAreDue, ReportIsTrue
<1>4. CASE BeginWithout(r)
  <2>1. report' = ReportOf([Idle EXCEPT !.at = now]) /\ UNCHANGED <<job, faults>>
    BY <1>4 DEF BeginWithout
  <2>2. [Idle EXCEPT !.at = now] \in Job
    BY <1>1 DEF Idle, Job, TypeOK
  <2>3. TypeOK'
    BY <1>1, <2>1, <2>2, ReportTyped DEF TypeOK
  <2>4. ReportIsTrue'
    BY <2>1 DEF ReportIsTrue, ReportOf, Idle, Status
  <2>. QED  BY <1>1, <2>1, <2>3, <2>4 DEF IInv, NoneForgotten, ResultsWritten, RunsHaveBegun, ScoresAreDue
<1>. QED  BY <1>2, <1>3, <1>4

\* A series is built, or its failure is noted.
LEMMA BuildStep ==
    ASSUME IInv, NEW r \in Runners, NEW s \in Series, Build(r, s) \/ BuildFails(r, s)
    PROVE  IInv'
<1>1. /\ TypeOK /\ job[r] \in Job /\ job[r].pc = "building"
      /\ job[r].attempted \subseteq job[r].todo \union job[r].results \union job[r].failed
      /\ job[r].at <= now
  BY DEF IInv, TypeOK, NoneForgotten, RunsHaveBegun, Build, BuildFails
<1>2. UNCHANGED <<now, readings, database, forced>> /\ faults' \in Nat
  BY <1>1 DEF Build, BuildFails, TypeOK
<1>3. \E j : Becomes(r, j)
  <2>1. CASE Build(r, s)
    <3>. DEFINE j == [job[r] EXCEPT !.todo = @ \ {s}, !.results = @ \union {s}]
    <3>1. job' = [job EXCEPT ![r] = j]
      BY <1>1, <2>1 DEF Build, TypeOK
    <3>2. j \in Job
      BY <1>1 DEF Job
    <3>3. /\ j.todo = job[r].todo \ {s} /\ j.results = job[r].results \union {s}
          /\ j.attempted = job[r].attempted /\ j.failed = job[r].failed
          /\ j.at = job[r].at /\ j.pc = "building"
      BY <1>1 DEF Job
    <3>. HIDE DEF j
    <3>4. j.attempted \subseteq j.todo \union j.results \union j.failed
      BY <1>1, <3>3
    <3>5. Becomes(r, j)
      BY <1>1, <3>1, <3>2, <3>3, <3>4 DEF Becomes
    <3>. QED  BY <3>5
  <2>2. CASE BuildFails(r, s)
    <3>. DEFINE j == [job[r] EXCEPT !.todo = @ \ {s}, !.failed = @ \union {s}]
    <3>1. job' = [job EXCEPT ![r] = j]
      BY <1>1, <2>2 DEF BuildFails, TypeOK
    <3>2. j \in Job
      BY <1>1 DEF Job
    <3>3. /\ j.todo = job[r].todo \ {s} /\ j.failed = job[r].failed \union {s}
          /\ j.attempted = job[r].attempted /\ j.results = job[r].results
          /\ j.at = job[r].at /\ j.pc = "building"
      BY <1>1 DEF Job
    <3>. HIDE DEF j
    <3>4. j.attempted \subseteq j.todo \union j.results \union j.failed
      BY <1>1, <3>3
    <3>5. Becomes(r, j)
      BY <1>1, <3>1, <3>2, <3>3, <3>4 DEF Becomes
    <3>. QED  BY <3>5
  <2>. QED  BY <2>1, <2>2
<1>4. job' \in [Runners -> Job] /\ NoneForgotten' /\ ResultsWritten' /\ RunsHaveBegun'
  BY <1>2, <1>3, JobStep DEF database
<1>. QED  BY <1>1, <1>2, <1>4 DEF IInv, TypeOK, database, ScoresAreDue, ReportIsTrue

\* The results are written.
LEMMA WriteStep ==
    ASSUME IInv, NEW r \in Runners, Write(r)
    PROVE  IInv'
<1>. DEFINE j == [job[r] EXCEPT !.pc = IF job[r].results = {} THEN "scored" ELSE "written"]
<1>1. /\ TypeOK /\ job[r] \in Job /\ job[r].todo = {}
      /\ job[r].attempted \subseteq job[r].todo \union job[r].results \union job[r].failed
      /\ job[r].at <= now
  BY DEF IInv, TypeOK, NoneForgotten, RunsHaveBegun, Write
<1>2. /\ forecasts' = forecasts \union (job[r].results \X {job[r].at})
      /\ job' = [job EXCEPT ![r] = j]
      /\ UNCHANGED <<now, readings, accuracy, report, forced, faults>>
  BY <1>1 DEF Write, TypeOK
<1>3. Becomes(r, j)
  BY <1>1, <1>2 DEF Becomes, Job
<1>4. job' \in [Runners -> Job] /\ NoneForgotten' /\ ResultsWritten' /\ RunsHaveBegun'
  BY <1>2, <1>3, JobStep
<1>5. TypeOK'
  BY <1>1, <1>2, <1>4 DEF TypeOK, Job
<1>. QED  BY <1>2, <1>4, <1>5 DEF IInv, ScoresAreDue, ReportIsTrue

\* The forecasts whose target has passed are scored.
LEMMA ScoreStep ==
    ASSUME IInv, NEW r \in Runners, Score(r)
    PROVE  IInv'
<1>. DEFINE j == [job[r] EXCEPT !.pc = "scored"]
            due == {k \in Elapsed(job[r].at) : <<k[1], k[2] + k[3]>> \in readings}
<1>1. /\ TypeOK /\ job[r] \in Job /\ job[r].pc = "written"
      /\ job[r].todo = {} /\ job[r].results \X {job[r].at} \subseteq forecasts
      /\ job[r].attempted \subseteq job[r].todo \union job[r].results \union job[r].failed
      /\ job[r].at <= now
  BY DEF IInv, TypeOK, NoneForgotten, RunsHaveBegun, ResultsWritten, Score
<1>2. /\ accuracy' = accuracy \union due
      /\ job' = [job EXCEPT ![r] = j]
      /\ UNCHANGED <<now, readings, forecasts, report, forced, faults>>
  BY <1>1 DEF Score, TypeOK
<1>3. Becomes(r, j)
  BY <1>1, <1>2 DEF Becomes, Job
<1>4. job' \in [Runners -> Job] /\ NoneForgotten' /\ ResultsWritten' /\ RunsHaveBegun'
  BY <1>2, <1>3, JobStep
<1>5. ASSUME NEW k \in due
      PROVE  /\ k \in Series \X Nat \X (1..Horizon)
             /\ <<k[1], k[2]>> \in forecasts /\ <<k[1], k[2] + k[3]>> \in readings
             /\ k[2] + k[3] <= now
  <2>1. /\ k \in Series \X Nat \X (1..Horizon)
        /\ <<k[1], k[2]>> \in forecasts /\ <<k[1], k[2] + k[3]>> \in readings
        /\ k[2] + k[3] <= job[r].at
    BY <1>1, ElapsedDue
  <2>2. k[2] \in Nat /\ k[3] \in Nat /\ job[r].at \in Nat /\ now \in Nat
    BY <1>1, <2>1 DEF Job, TypeOK
  <2>. QED  BY <1>1, <2>1, <2>2
<1>. HIDE DEF due, j
<1>6. TypeOK'
  BY <1>1, <1>2, <1>4, <1>5 DEF TypeOK
<1>7. ScoresAreDue'
  BY <1>2, <1>5 DEF IInv, ScoresAreDue
<1>. QED  BY <1>2, <1>4, <1>6, <1>7 DEF IInv, ReportIsTrue

\* The run is recorded, or only logged.
LEMMA RecordStep ==
    ASSUME IInv, NEW r \in Runners, Record(r)
    PROVE  IInv'
<1>1. /\ TypeOK /\ job[r] \in Job
      /\ job[r].todo = {} /\ job[r].results \X {job[r].at} \subseteq forecasts
      /\ job[r].attempted \subseteq job[r].todo \union job[r].results \union job[r].failed
  BY DEF IInv, TypeOK, NoneForgotten, ResultsWritten, Record
<1>2. /\ report' \in {report, ReportOf(job[r])} /\ job' = [job EXCEPT ![r] = Idle]
      /\ UNCHANGED <<now, readings, forecasts, accuracy, forced, faults>>
  BY DEF Record
<1>3. Becomes(r, Idle)
  BY <1>1, <1>2 DEF Becomes, Idle, Job, TypeOK
<1>4. job' \in [Runners -> Job] /\ NoneForgotten' /\ ResultsWritten' /\ RunsHaveBegun'
  BY <1>2, <1>3, JobStep
<1>5. TypeOK'
  BY <1>1, <1>2, <1>4, ReportTyped DEF TypeOK
<1>6. ReportIsTrue'
  <2>1. CASE report' = report
    BY <1>2, <2>1 DEF IInv, ReportIsTrue
  <2>2. CASE report' = ReportOf(job[r])
    <3>1. /\ report'.at = job[r].at /\ report'.attempted = job[r].attempted
          /\ report'.failed = job[r].failed /\ report'.status = Status(job[r])
      BY <2>2 DEF ReportOf
    <3>2. \A s \in report'.attempted \ report'.failed : <<s, report'.at>> \in forecasts'
      BY <1>1, <1>2, <3>1
    <3>. QED  BY <1>1, <3>1, <3>2, SuccessNamesNone DEF ReportIsTrue
  <2>. QED  BY <1>2, <2>1, <2>2
<1>. QED  BY <1>2, <1>4, <1>5, <1>6 DEF IInv, ScoresAreDue

\* One case for every action.
LEMMA StepInv == IInv /\ [Next]_vars => IInv'
<1>. SUFFICES ASSUME IInv, [Next]_vars PROVE IInv'
  OBVIOUS
<1>1. CASE Tick
  BY <1>1 DEF Tick, database, IInv, TypeOK, NoneForgotten, ResultsWritten, RunsHaveBegun,
              ScoresAreDue, ReportIsTrue, Job
<1>2. CASE \E s \in Series, hour \in 1..now : Observe(s, hour)
  <2>1. PICK s \in Series, hour \in 1..now : Observe(s, hour)
    BY <1>2
  <2>. QED
    BY <2>1 DEF Observe, database, IInv, TypeOK, NoneForgotten, ResultsWritten, RunsHaveBegun,
                ScoresAreDue, ReportIsTrue
<1>3. ASSUME NEW r \in Runners, Work(r) \/ BeginWithout(r) \/ Abort(r)
      PROVE  IInv'
  BY <1>3, StartStep, BuildStep, WriteStep, ScoreStep, RecordStep DEF Work
<1>4. ASSUME NEW r \in Runners, NEW s \in Series, BuildFails(r, s)
      PROVE  IInv'
  BY <1>4, BuildStep
<1>5. CASE UNCHANGED vars
  BY <1>5 DEF vars, database, IInv, TypeOK, NoneForgotten, ResultsWritten, RunsHaveBegun,
              ScoresAreDue, ReportIsTrue
<1>. QED  BY <1>1, <1>2, <1>3, <1>4, <1>5 DEF Next

\* The invariant holds from the start and through every step.
LEMMA Invariant == Spec => []IInv
BY InitInv, StepInv, PTL DEF Spec

-----------------------------------------------------------------------------
(* The properties *)

\* The clock, tables and runs stay within their types.
THEOREM TypeCorrect == Spec => []TypeOK
<1>1. IInv => TypeOK
  BY DEF IInv
<1>. QED  BY Invariant, <1>1, PTL

\* A forecast has a reason exactly when it is not SARIMAX's, and its reasons name
\* every failed check and a failed fit, in every state and for whatever a series has.
THEOREM WeakerIsNeverSilent == Spec => []NeverSilent
BY Explained, PTL

\* What a run reports is in the table, for any series and any runs beside it.
THEOREM ReportsAreTrue == Spec => []ReportIsTrue
<1>1. IInv => ReportIsTrue
  BY DEF IInv
<1>. QED  BY Invariant, <1>1, PTL

\* No forecast is scored before its target hour has begun, nor without a reading
\* of that hour, though readings come late and runs take longer than an hour.
THEOREM OnlyDueIsScored == Spec => []ScoresAreDue
<1>1. IInv => ScoresAreDue
  BY DEF IInv
<1>. QED  BY Invariant, <1>1, PTL
=============================================================================
