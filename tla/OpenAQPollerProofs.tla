------------------------- MODULE OpenAQPollerProofs -------------------------
(***************************************************************************)
(* Proof that the poller never skips a measurement of a sensor it read in  *)
(* full, unless it was published behind a window, for any number of        *)
(* sensors and pollers, any overlap, lookback and delay of publication,    *)
(* any page limit, and however many crashes and failed transactions; and   *)
(* that datetime_last follows the rows.                                    *)
(***************************************************************************)
EXTENDS OpenAQPoller, TLAPS

\* The runs and the polls under way end no later than the clock, and a poll
\* window starts no later than the overlap or the lookback before its end.
InThePast ==
    /\ \A r \in runs : r.to <= now
    /\ \A p \in Pollers : job[p].pc # "idle" =>
          /\ job[p].to <= now
          /\ \/ job[p].from <= job[p].to - Overlap
             \/ job[p].from <= job[p].to - Lookback

\* A poll that has stored its batch has fetched every sensor.
WrittenIsComplete ==
    \A p \in Pollers : job[p].pc = "written" => job[p].todo = {} /\ job[p].batch = {}

\* What lies before the window of a poll is stored, or came too late.
StoredBeforeWindow ==
    \A p \in Pollers : job[p].pc # "idle" =>
        \A s \in Sensors \ shortRead : \A t \in published[s] :
            t < job[p].from => <<s, t>> \in rows \union missed \/ t < now - Lookback

\* What a poll has fetched is stored or collected, up to the overlap, which the
\* next poll reads again.
FetchedInWindow ==
    \A p \in Pollers : job[p].pc # "idle" =>
        \A s \in Sensors \ (job[p].todo \union ShortSensors(job[p])) :
            \A t \in published[s] :
                job[p].from <= t /\ t < job[p].to - Overlap
                    => <<s, t>> \in rows \union missed \union job[p].batch

IInv == /\ TypeOK
        /\ InThePast
        /\ WrittenIsComplete
        /\ StoredBeforeWindow
        /\ FetchedInWindow
        /\ NoSilentLoss

\* The strengthened invariant holds with an empty database and idle pollers.
LEMMA InitInv == Init => IInv
  <1> USE ConstantsAssumption
  <1> SUFFICES ASSUME Init PROVE IInv
    OBVIOUS
  <1>1. Idle \in Job
    BY DEF Idle, Job, Reading
  <1>2. TypeOK
    BY <1>1 DEF Init, TypeOK, Time, NoTime, NoMetadata
  <1>3. InThePast /\ WrittenIsComplete /\ StoredBeforeWindow /\ FetchedInWindow
    BY DEF Init, Idle, InThePast, WrittenIsComplete, StoredBeforeWindow, FetchedInWindow
  <1>4. NoSilentLoss
    BY DEF Init, NoSilentLoss, NotSkipped
  <1> QED
    BY <1>2, <1>3, <1>4 DEF IInv

\* Every step keeps the types of the tables and of the local state of a poll.
LEMMA TypeStep == TypeOK /\ [Next]_vars => TypeOK'
  <1> USE ConstantsAssumption DEF TypeOK
  <1> SUFFICES ASSUME TypeOK, [Next]_vars PROVE TypeOK'
    OBVIOUS
  <1>0. Idle \in Job
    BY DEF Idle, Job, Reading
  <1>1. CASE Tick
    BY <1>1 DEF Tick, Time, database, registry
  <1>2. ASSUME NEW s \in Sensors, NEW t \in Time, Publish(s, t) PROVE TypeOK'
    <2>1. /\ published' \in [Sensors -> SUBSET Time]
          /\ missed' \in SUBSET Reading /\ refused' \in SUBSET Reading
      BY <1>2 DEF Publish, Time, Reading
    <2>2. events' \in Nat
      BY <1>2 DEF Publish
    <2> QED
      BY <1>2, <2>1, <2>2 DEF Publish, Time, database, registry
  <1>3. CASE DeactivateDead \/ FetchMetadata \/ SyncMetadata
    <2>1. CASE DeactivateDead
      BY <2>1 DEF DeactivateDead, Time, database, registry
    <2>2. CASE FetchMetadata
      BY <2>2 DEF FetchMetadata, Time, source, database, registry
    <2>3. CASE SyncMetadata
      <3>1. datetimeLast' \in [Sensors -> Time \union {NoTime}]
        BY <2>3 DEF SyncMetadata
      <3> QED
        BY <2>3, <3>1 DEF SyncMetadata, Time
    <2> QED
      BY <1>3, <2>1, <2>2, <2>3
  <1>4. ASSUME NEW p \in Pollers, BeginPoll(p) PROVE TypeOK'
    <2> PICK from \in WindowStarts :
          job' = [job EXCEPT ![p] = [Idle EXCEPT !.pc = "fetching",
                                                 !.from = from, !.to = now,
                                                 !.polled = active, !.todo = active]]
      BY <1>4 DEF BeginPoll
    <2>1. from \in Int
      BY DEF WindowStarts, WindowFrom, Larger, Run
    <2>2. [Idle EXCEPT !.pc = "fetching", !.from = from, !.to = now,
                       !.polled = active, !.todo = active] \in Job
      BY <2>1 DEF Idle, Job, Reading
    <2>3. events' \in Nat
      BY <1>4 DEF BeginPoll
    <2>4. job' \in [Pollers -> Job]
      BY <2>2
    <2> QED
      BY <1>4, <2>3, <2>4 DEF BeginPoll, Time, source, database, registry
  <1>5. ASSUME NEW p \in Pollers, NEW s \in Sensors, FetchSensor(p, s) PROVE TypeOK'
    <2> PICK page \in Pages(p, s) :
          job' = [job EXCEPT ![p].todo = @ \ {s},
                             ![p].batch = @ \union ({s} \X page),
                             ![p].short = IF page = InWindow(p, s) THEN @
                                          ELSE @ \union {s}]
      BY <1>5 DEF FetchSensor
    <2>1. page \in SUBSET Nat
      BY DEF Pages, InWindow, Time
    <2>2. job' \in [Pollers -> Job]
      <3> DEFINE cut == IF page = InWindow(p, s) THEN job[p].short
                        ELSE job[p].short \union {s}
      <3>1. job[p] \in Job
        OBVIOUS
      <3>2. cut \in SUBSET Sensors /\ job[p].batch \union ({s} \X page) \in SUBSET Reading
        BY <2>1, <3>1 DEF Job, Reading
      <3> HIDE DEF cut
      <3>3. [job[p] EXCEPT !.todo = @ \ {s}, !.batch = @ \union ({s} \X page),
                           !.short = cut] \in Job
        BY <3>1, <3>2 DEF Job
      <3> QED
        BY <3>3 DEF cut
    <2> QED
      BY <1>5, <2>2 DEF FetchSensor, source, database, registry, Time
  <1>6. ASSUME NEW p \in Pollers, NEW s \in Sensors, FetchSensorFails(p, s) PROVE TypeOK'
    <2>1. job' \in [Pollers -> Job]
      <3>1. [job[p] EXCEPT !.todo = @ \ {s}, !.short = @ \union {s}] \in Job
        BY DEF Job
      <3> QED
        BY <1>6, <3>1 DEF FetchSensorFails
    <2> QED
      BY <1>6, <2>1 DEF FetchSensorFails, Failure, source, database, registry, Time
  <1>7. ASSUME NEW p \in Pollers, WriteBatch(p) PROVE TypeOK'
    <2>1. job[p].batch \in SUBSET Reading
      BY DEF Job
    <2>2. job' \in [Pollers -> Job]
      <3>1. [job[p] EXCEPT !.pc = "written", !.batch = {}, !.at = now] \in Job
        BY DEF Job
      <3> QED
        BY <1>7, <3>1 DEF WriteBatch
    <2> QED
      BY <1>7, <2>1, <2>2 DEF WriteBatch, source, registry, Time
  <1>8. ASSUME NEW p \in Pollers, RecordRun(p) PROVE TypeOK'
    <2>1. RecordedStatus(job[p]) \in Statuses
      BY DEF RecordedStatus, Statuses
    <2>2. runs' \in SUBSET Run /\ shortRead' \in SUBSET Sensors
      BY <1>8, <2>1 DEF RecordRun, LatestOf, Run, Job, ShortSensors
    <2> QED
      BY <1>0, <1>8, <2>2 DEF RecordRun, source, registry, Time
  <1>9. ASSUME NEW p \in Pollers, Abandon(p) \/ RefuseBatch(p) PROVE TypeOK'
    BY <1>0, <1>9 DEF Abandon, RefuseBatch, Failure, source, database, registry, Time
  <1>10. CASE UNCHANGED vars
    BY <1>10 DEF vars, source, database, registry, Time
  <1> QED
    BY <1>1, <1>2, <1>3, <1>4, <1>5, <1>6, <1>7, <1>8, <1>9, <1>10 DEF Next, Fetch

\* The parts of the invariant that speak of time and of what is stored.
Safe == InThePast /\ WrittenIsComplete /\ StoredBeforeWindow /\ FetchedInWindow
            /\ NoSilentLoss

\* A step of the clock, of OpenAQ, or of the registry.
LEMMA SourceStep ==
    ASSUME IInv, Tick \/ (\E s \in Sensors, t \in Time : Publish(s, t))
                      \/ DeactivateDead \/ FetchMetadata \/ SyncMetadata
    PROVE  Safe'
  <1> USE ConstantsAssumption DEF IInv, TypeOK
  <1>0. /\ rows' = rows /\ runs' = runs /\ shortRead' = shortRead /\ job' = job
        /\ now' \in Nat /\ now <= now' /\ missed \subseteq missed'
    BY DEF Tick, Publish, DeactivateDead, FetchMetadata, SyncMetadata, source, database, registry
  <1>1. ASSUME NEW s \in Sensors, NEW t \in published'[s], t \notin published[s]
        PROVE  t \in Int /\ (PassedBy(s, t) => <<s, t>> \in missed')
    <2> PICK u \in Sensors, v \in Time : Publish(u, v)
      BY <1>1 DEF Tick, DeactivateDead, FetchMetadata, SyncMetadata, source, database
    <2>1. u = s /\ v = t
      BY <1>1 DEF Publish
    <2> QED
      BY <2>1 DEF Publish, Time
  <1>2. InThePast'
    BY <1>0 DEF InThePast, Job, Run
  <1>3. WrittenIsComplete'
    BY <1>0 DEF WrittenIsComplete
  <1>4. \A p \in Pollers : job[p].from \in Int /\ job[p].to \in Int
    BY DEF Job
  <1>8. ASSUME NEW t \in Int, t < now - Lookback PROVE t < now' - Lookback
    <2>1. now \in Int /\ now' \in Int /\ Lookback \in Int /\ now <= now'
      BY <1>0
    <2>2. ASSUME NEW a \in Int, NEW b \in Int, a <= b
          PROVE  t < a - Lookback => t < b - Lookback
      BY <2>1, <2>2
    <2> QED
      BY <1>8, <2>1, <2>2
  <1>5. StoredBeforeWindow'
    <2> SUFFICES ASSUME NEW p \in Pollers, job[p].pc # "idle",
                        NEW s \in Sensors \ shortRead, NEW t \in published'[s],
                        t < job[p].from
                 PROVE  <<s, t>> \in rows \union missed' \/ t < now' - Lookback
      BY <1>0 DEF StoredBeforeWindow
    <2>1. CASE t \in published[s]
      <3>1. <<s, t>> \in rows \union missed \/ t < now - Lookback
        BY <2>1 DEF StoredBeforeWindow
      <3>2. t \in Int
        BY <2>1 DEF Time
      <3> QED
        BY <1>0, <1>8, <3>1, <3>2
    <2>2. CASE t \notin published[s]
      <3>1. t \in Int /\ (PassedBy(s, t) => <<s, t>> \in missed')
        BY <1>1, <2>2
      <3>2. CASE job[p].from <= job[p].to - Overlap
        BY <1>4, <3>1, <3>2 DEF PassedBy
      <3>3. CASE job[p].from <= job[p].to - Lookback
        <4>1. job[p].to <= now
          BY DEF InThePast
        <4>2. t < now - Lookback
          BY <1>4, <3>1, <3>3, <4>1
        <4> QED
          BY <1>8, <3>1, <4>2
      <3> QED
        BY <3>2, <3>3 DEF InThePast
    <2> QED
      BY <2>1, <2>2
  <1>6. FetchedInWindow'
    <2> SUFFICES ASSUME NEW p \in Pollers, job[p].pc # "idle",
                        NEW s \in Sensors \ (job[p].todo \union ShortSensors(job[p])),
                        NEW t \in published'[s],
                        job[p].from <= t, t < job[p].to - Overlap
                 PROVE  <<s, t>> \in rows \union missed' \union job[p].batch
      BY <1>0 DEF FetchedInWindow
    <2>1. CASE t \in published[s]
      BY <1>0, <2>1 DEF FetchedInWindow
    <2>2. CASE t \notin published[s]
      BY <1>1, <2>2 DEF PassedBy
    <2> QED
      BY <2>1, <2>2
  <1>7. NoSilentLoss'
    <2> SUFFICES ASSUME NEW s \in Sensors \ shortRead, NEW t \in published'[s], NEW r \in runs
                 PROVE  \/ <<s, t>> \in rows \union missed'
                        \/ t < now' - Lookback \/ t >= r.to - Overlap
      BY <1>0 DEF NoSilentLoss, NotSkipped
    <2>0. r.to \in Int
      BY DEF Run
    <2>1. CASE t \in published[s]
      <3>1. <<s, t>> \in rows \union missed \/ t < now - Lookback \/ t >= r.to - Overlap
        BY <2>1 DEF NoSilentLoss, NotSkipped
      <3>2. t \in Int
        BY <2>1 DEF Time
      <3> QED
        BY <1>0, <1>8, <3>1, <3>2
    <2>2. CASE t \notin published[s]
      <3>1. t \in Int /\ (t < r.to - Overlap => <<s, t>> \in missed')
        BY <1>1, <2>2 DEF PassedBy
      <3> QED
        BY <2>0, <3>1
    <2> QED
      BY <2>1, <2>2
  <1> QED
    BY <1>2, <1>3, <1>5, <1>6, <1>7 DEF Safe

\* A new poll: its window starts where the latest run and the lookback say.
LEMMA BeginStep ==
    ASSUME IInv, NEW p \in Pollers, BeginPoll(p)
    PROVE  Safe'
  <1> USE ConstantsAssumption DEF IInv, TypeOK
  <1> PICK from \in WindowStarts :
        job' = [job EXCEPT ![p] = [Idle EXCEPT !.pc = "fetching",
                                               !.from = from, !.to = now,
                                               !.polled = active, !.todo = active]]
    BY DEF BeginPoll
  <1>0. UNCHANGED <<now, published, missed, active, rows, runs, shortRead>>
    BY DEF BeginPoll, source, database, registry
  <1>1. /\ job'[p].pc = "fetching" /\ job'[p].from = from /\ job'[p].to = now
        /\ job'[p].polled = active /\ job'[p].todo = active
        /\ job'[p].short = {}
        /\ \A q \in Pollers \ {p} : job'[q] = job[q]
    BY DEF Idle
  <1>2. /\ from \in Int
        /\ from = now - Lookback \/ \E r \in runs : from = WindowFrom(r.to)
    BY DEF WindowStarts, WindowFrom, Larger, Run
  <1>3. from <= now - Overlap \/ from <= now - Lookback
    BY <1>2 DEF InThePast, WindowFrom, Larger, Run
  <1>4. ASSUME NEW s \in Sensors \ shortRead, NEW t \in published[s], t < from
        PROVE  <<s, t>> \in rows \union missed \/ t < now - Lookback
    <2>1. t \in Int
      BY DEF Time
    <2>2. ASSUME NEW r \in runs, from = WindowFrom(r.to)
          PROVE  <<s, t>> \in rows \union missed \/ t < now - Lookback
      <3>1. <<s, t>> \in rows \union missed \/ t < now - Lookback \/ t >= r.to - Overlap
        BY DEF NoSilentLoss, NotSkipped
      <3> QED
        BY <1>4, <2>1, <2>2, <3>1 DEF WindowFrom, Larger, Run
    <2> QED
      BY <1>2, <1>4, <2>1, <2>2
  <1>5. InThePast'
    BY <1>0, <1>1, <1>3 DEF InThePast
  <1>6. WrittenIsComplete'
    BY <1>1 DEF WrittenIsComplete
  <1>7. StoredBeforeWindow'
    BY <1>0, <1>1, <1>4 DEF StoredBeforeWindow
  <1>8. FetchedInWindow'
    BY <1>0, <1>1 DEF FetchedInWindow, ShortSensors
  <1>9. NoSilentLoss'
    BY <1>0 DEF NoSilentLoss, NotSkipped
  <1> QED
    BY <1>5, <1>6, <1>7, <1>8, <1>9 DEF Safe

\* One sensor of a poll: read, or failed.
LEMMA FetchStep ==
    ASSUME IInv, NEW p \in Pollers, Fetch(p)
    PROVE  Safe'
  <1> USE ConstantsAssumption DEF IInv, TypeOK
  <1>0. UNCHANGED <<now, published, missed, active, rows, runs, shortRead>>
    BY DEF Fetch, FetchSensor, FetchSensorFails, source, database, registry
  <1> PICK s \in Sensors : FetchSensor(p, s) \/ FetchSensorFails(p, s)
    BY DEF Fetch
  <1>1. /\ job[p].pc = "fetching" /\ job'[p].pc = "fetching"
        /\ job'[p].from = job[p].from /\ job'[p].to = job[p].to
        /\ job'[p].polled = job[p].polled /\ job'[p].todo = job[p].todo \ {s}
        /\ \A q \in Pollers \ {p} : job'[q] = job[q]
        /\ job[p].batch \subseteq job'[p].batch
        /\ ShortSensors(job[p]) \subseteq ShortSensors(job'[p])
    <2>0. job[p] \in Job
      OBVIOUS
    <2>1. CASE FetchSensorFails(p, s)
      BY <2>0, <2>1 DEF FetchSensorFails, Job, ShortSensors
    <2>2. CASE FetchSensor(p, s)
      <3> PICK page \in Pages(p, s) :
            job' = [job EXCEPT ![p].todo = @ \ {s},
                               ![p].batch = @ \union ({s} \X page),
                               ![p].short = IF page = InWindow(p, s) THEN @
                                            ELSE @ \union {s}]
        BY <2>2 DEF FetchSensor
      <3>1. /\ job'[p].pc = job[p].pc /\ job'[p].from = job[p].from
            /\ job'[p].to = job[p].to /\ job'[p].polled = job[p].polled
            /\ job[p].short \subseteq job'[p].short
            /\ job'[p].todo = job[p].todo \ {s}
            /\ job'[p].batch = job[p].batch \union ({s} \X page)
        BY <2>0 DEF Job
      <3> QED
        BY <2>2, <3>1 DEF FetchSensor, ShortSensors
    <2> QED
      BY <2>1, <2>2
  <1>2. ASSUME s \notin ShortSensors(job'[p]), NEW t \in InWindow(p, s)
        PROVE  <<s, t>> \in job'[p].batch
    <2>1. CASE FetchSensorFails(p, s)
      BY <1>2, <2>1 DEF FetchSensorFails, Job, ShortSensors
    <2>2. CASE FetchSensor(p, s)
      <3> PICK page \in Pages(p, s) :
            job' = [job EXCEPT ![p].todo = @ \ {s},
                               ![p].batch = @ \union ({s} \X page),
                               ![p].short = IF page = InWindow(p, s) THEN @
                                            ELSE @ \union {s}]
        BY <2>2 DEF FetchSensor
      <3>1. page = InWindow(p, s)
        BY <1>2 DEF Job, ShortSensors
      <3> QED
        BY <3>1 DEF Job
    <2> QED
      BY <2>1, <2>2
  <1>3. InThePast' /\ WrittenIsComplete' /\ StoredBeforeWindow'
    BY <1>0, <1>1 DEF InThePast, WrittenIsComplete, StoredBeforeWindow
  <1>4. FetchedInWindow'
    <2> SUFFICES ASSUME NEW u \in Sensors \ (job'[p].todo \union ShortSensors(job'[p])),
                        NEW t \in published[u],
                        job[p].from <= t, t < job[p].to - Overlap
                 PROVE  <<u, t>> \in rows \union missed \union job'[p].batch
      BY <1>0, <1>1 DEF FetchedInWindow
    <2>1. CASE u = s
      <3>1. t \in InWindow(p, s)
        BY <2>1 DEF InWindow, Time, Job
      <3> QED
        BY <1>2, <2>1, <3>1
    <2>2. CASE u # s
      BY <1>1, <2>2 DEF FetchedInWindow
    <2> QED
      BY <2>1, <2>2
  <1>5. NoSilentLoss'
    BY <1>0 DEF NoSilentLoss, NotSkipped
  <1> QED
    BY <1>3, <1>4, <1>5 DEF Safe

\* The batch is stored.
LEMMA WriteStep ==
    ASSUME IInv, NEW p \in Pollers, WriteBatch(p)
    PROVE  Safe'
  <1> USE ConstantsAssumption DEF IInv, TypeOK
  <1>0. /\ UNCHANGED <<now, published, missed, active, runs, shortRead>>
        /\ rows' = rows \union job[p].batch
    BY DEF WriteBatch, source
  <1>1. /\ job[p].pc = "fetching" /\ job[p].todo = {}
        /\ job'[p].pc = "written" /\ job'[p].batch = {} /\ job'[p].todo = job[p].todo
        /\ job'[p].from = job[p].from /\ job'[p].to = job[p].to
        /\ ShortSensors(job'[p]) = ShortSensors(job[p])
        /\ \A q \in Pollers \ {p} : job'[q] = job[q]
    <2>1. job[p] \in Job
      OBVIOUS
    <2> QED
      BY <2>1 DEF WriteBatch, Job, ShortSensors
  <1>2. InThePast' /\ WrittenIsComplete' /\ StoredBeforeWindow'
    BY <1>0, <1>1 DEF InThePast, WrittenIsComplete, StoredBeforeWindow
  <1>3. FetchedInWindow'
    BY <1>0, <1>1 DEF FetchedInWindow
  <1>4. NoSilentLoss'
    BY <1>0 DEF NoSilentLoss, NotSkipped
  <1> QED
    BY <1>2, <1>3, <1>4 DEF Safe

\* The run is recorded: the watermark may move to its window_to.
LEMMA RecordStep ==
    ASSUME IInv, NEW p \in Pollers, RecordRun(p)
    PROVE  Safe'
  <1> USE ConstantsAssumption DEF IInv, TypeOK
  <1>0. /\ UNCHANGED <<now, published, missed, active, rows>>
        /\ job' = [job EXCEPT ![p] = Idle]
        /\ job[p].pc = "written" /\ job[p].todo = {} /\ job[p].batch = {}
        /\ job[p].from \in Int /\ job[p].to \in Int
        /\ shortRead \subseteq shortRead'
    <2>1. job[p].pc = "written" /\ UNCHANGED <<now, published, missed, active, rows>>
          /\ job' = [job EXCEPT ![p] = Idle]
      BY DEF RecordRun, source
    <2>2. job[p].todo = {} /\ job[p].batch = {}
      BY <2>1 DEF WrittenIsComplete
    <2>3. job[p] \in Job
      OBVIOUS
    <2>4. job[p].from \in Int /\ job[p].to \in Int
      BY <2>3 DEF Job
    <2>5. shortRead \subseteq shortRead'
      <3>1. CASE Counts(job[p])
        BY <3>1 DEF RecordRun
      <3>2. CASE ~Counts(job[p])
        BY <3>2 DEF RecordRun
      <3> QED
        BY <3>1, <3>2
    <2> QED
      BY <2>1, <2>2, <2>4, <2>5
  <1>1. \A q \in Pollers : (q # p /\ job'[q] = job[q]) \/ (q = p /\ job'[q].pc = "idle")
    BY <1>0 DEF Idle
  <1>2. \A r \in runs' : r \in runs \/ /\ r.to = job[p].to
                                       /\ ShortSensors(job[p]) \subseteq shortRead'
    <2>1. job[p] \in Job
      OBVIOUS
    <2>2. CASE Counts(job[p])
      <3> DEFINE new == [at |-> job[p].at, to |-> job[p].to,
                         status |-> RecordedStatus(job[p])]
      <3>1. runs' \subseteq runs \union {new} /\ shortRead' = shortRead \union ShortSensors(job[p])
        BY <2>2 DEF RecordRun, LatestOf
      <3> QED
        BY <3>1
    <2>3. CASE ~Counts(job[p])
      BY <2>3 DEF RecordRun
    <2> QED
      BY <2>2, <2>3
  <1>3. InThePast'
    BY <1>0, <1>1, <1>2 DEF InThePast
  <1>4. WrittenIsComplete'
    BY <1>1 DEF WrittenIsComplete, Idle
  <1>5. StoredBeforeWindow'
    BY <1>0, <1>1 DEF StoredBeforeWindow
  <1>6. FetchedInWindow'
    BY <1>0, <1>1 DEF FetchedInWindow
  <1>7. NoSilentLoss'
    <2> SUFFICES ASSUME NEW s \in Sensors \ shortRead', NEW t \in published[s], NEW r \in runs'
                 PROVE  <<s, t>> \in rows \union missed \/ t < now - Lookback \/ t >= r.to - Overlap
      BY <1>0 DEF NoSilentLoss, NotSkipped
    <2>1. CASE r \in runs
      BY <1>0, <2>1 DEF NoSilentLoss, NotSkipped
    <2>2. CASE r.to = job[p].to /\ ShortSensors(job[p]) \subseteq shortRead'
      <3>1. s \notin shortRead /\ s \notin ShortSensors(job[p]) /\ t \in Int
        BY <1>0, <2>2 DEF Time
      <3>2. t < job[p].from => <<s, t>> \in rows \union missed \/ t < now - Lookback
        BY <1>0, <3>1 DEF StoredBeforeWindow
      <3>3. job[p].from <= t /\ t < job[p].to - Overlap => <<s, t>> \in rows \union missed
        BY <1>0, <3>1 DEF FetchedInWindow
      <3> QED
        BY <1>0, <2>2, <3>1, <3>2, <3>3
    <2> QED
      BY <1>2, <2>1, <2>2
  <1> QED
    BY <1>3, <1>4, <1>5, <1>6, <1>7 DEF Safe

\* A poll that breaks off, or whose batch is refused, drops its local state and
\* leaves the database as it is.
LEMMA AbandonStep ==
    ASSUME IInv, NEW p \in Pollers, Abandon(p) \/ RefuseBatch(p)
    PROVE  Safe'
  <1> USE DEF IInv, TypeOK
  <1>0. UNCHANGED <<now, published, missed, active, rows, runs, shortRead>>
    BY DEF Abandon, RefuseBatch, source, database, registry
  <1>1. \A q \in Pollers : (q # p /\ job'[q] = job[q]) \/ (q = p /\ job'[q] = Idle)
    BY DEF Abandon, RefuseBatch
  <1>2. InThePast' /\ WrittenIsComplete'
    BY <1>0, <1>1 DEF InThePast, WrittenIsComplete, Idle
  <1>3. StoredBeforeWindow' /\ FetchedInWindow'
    BY <1>0, <1>1 DEF StoredBeforeWindow, FetchedInWindow, Idle
  <1>4. NoSilentLoss'
    BY <1>0 DEF NoSilentLoss, NotSkipped
  <1> QED
    BY <1>2, <1>3, <1>4 DEF Safe

\* TypeOK is invariant: every watermark, row and poll that run_once and
\* ingest_messages leave behind has its type, for all values of the constants.
THEOREM TypeCorrect == Spec => []TypeOK
  <1>1. Init => TypeOK
    BY InitInv DEF IInv
  <1> QED
    BY <1>1, TypeStep, PTL DEF Spec

\* The strengthened invariant is inductive.
LEMMA InvStep == IInv /\ [Next]_vars => IInv'
  <1> SUFFICES ASSUME IInv, [Next]_vars PROVE IInv'
    OBVIOUS
  <1>1. CASE UNCHANGED vars
    BY <1>1, TypeStep DEF IInv, InThePast, WrittenIsComplete, StoredBeforeWindow,
         FetchedInWindow, NoSilentLoss, NotSkipped, vars, source, database
  <1>2. CASE Next
    <2>1. Safe'
      BY <1>2, SourceStep, BeginStep, FetchStep, WriteStep, RecordStep, AbandonStep DEF Next
    <2> QED
      BY <2>1, TypeStep DEF IInv, Safe
  <1> QED
    BY <1>1, <1>2

\* However polls crash, fail halfway, are refused, or overlap with those of
\* another process, and however late OpenAQ publishes, the recorded watermark
\* passes a measurement of a sensor that every counted run read in full only if a
\* window had passed it before it was published.
THEOREM NeverLosesSilently == Spec => []NoSilentLoss
  <1>1. IInv => NoSilentLoss
    BY DEF IInv
  <1> QED
    BY InitInv, InvStep, <1>1, PTL DEF Spec

\* What the overlap is worth: while OpenAQ publishes no later than the overlap is
\* long, no measurement is published behind a window, so the excuse of
\* NoSilentLoss never applies.
THEOREM OverlapCoversDelay == (\A d \in Delays : d <= Overlap) => (Spec => [](missed = {}))
  <1> SUFFICES ASSUME \A d \in Delays : d <= Overlap
               PROVE  Spec => [](missed = {})
    OBVIOUS
  <1> DEFINE Prompt == IInv /\ missed = {}
  <1>1. Init => Prompt
    BY InitInv DEF Init
  <1>2. Prompt /\ [Next]_vars => Prompt'
    <2> SUFFICES ASSUME Prompt, [Next]_vars PROVE missed' = {}
      BY InvStep
    <2>1. ASSUME NEW s \in Sensors, NEW t \in Time, Publish(s, t) PROVE missed' = {}
      <3> USE ConstantsAssumption
      <3>1. now - t <= Overlap /\ now \in Int /\ t \in Int /\ Overlap \in Int
        BY <2>1 DEF Publish, IInv, TypeOK, Time
      <3>2. \A r \in runs : r.to \in Int /\ r.to <= now
        BY DEF IInv, TypeOK, InThePast, Run
      <3>3. \A p \in Pollers : job[p].pc # "idle" => job[p].to \in Int /\ job[p].to <= now
        BY DEF IInv, TypeOK, InThePast, Job
      <3>4. ~PassedBy(s, t)
        BY <3>1, <3>2, <3>3 DEF PassedBy
      <3> QED
        BY <2>1, <3>4 DEF Publish
    <2>2. CASE UNCHANGED missed
      BY <2>2
    <2>3. ASSUME NEW p \in Pollers,
                 BeginPoll(p) \/ Fetch(p) \/ WriteBatch(p) \/ RefuseBatch(p)
                     \/ RecordRun(p) \/ Abandon(p)
          PROVE  UNCHANGED missed
      BY <2>3 DEF BeginPoll, Fetch, FetchSensor, FetchSensorFails, WriteBatch, RefuseBatch,
           RecordRun, Abandon, source
    <2>4. Tick \/ DeactivateDead \/ FetchMetadata \/ SyncMetadata => UNCHANGED missed
      BY DEF Tick, DeactivateDead, FetchMetadata, SyncMetadata, source
    <2>5. UNCHANGED vars => UNCHANGED missed
      BY DEF vars, source
    <2> QED
      BY <2>1, <2>2, <2>3, <2>4, <2>5 DEF Next
  <1> QED
    BY <1>1, <1>2, PTL DEF Spec

-----------------------------------------------------------------------------
(* The registry *)

\* What is stored, collected or described was published.
OnlyPublished ==
    \A s \in Sensors :
        /\ \A t \in Nat : <<s, t>> \in rows => t \in published[s]
        /\ \A p \in Pollers : \A t \in Nat : <<s, t>> \in job[p].batch => t \in published[s]
        /\ metadata # NoMetadata => metadata[s] \in published[s] \union {NoTime}

RegistryInv == TypeOK /\ OnlyPublished /\ RegistryMatchesRows

\* The steps that touch neither a row, nor a batch, nor the registry.
LEMMA QuietStep ==
    ASSUME RegistryInv, TypeOK',
           Tick \/ (\E s \in Sensors, t \in Time : Publish(s, t)) \/ DeactivateDead
                \/ (UNCHANGED <<now, published, rows, datetimeLast, overtaken, metadata>>
                    /\ \A p \in Pollers : job'[p].batch \subseteq job[p].batch)
    PROVE  OnlyPublished' /\ RegistryMatchesRows'
  <1> USE DEF RegistryInv
  <1>1. UNCHANGED <<rows, datetimeLast, overtaken, metadata>>
    BY DEF Tick, Publish, DeactivateDead, database, registry
  <1>2. /\ \A p \in Pollers : job'[p].batch \subseteq job[p].batch
        /\ \A s \in Sensors : published[s] \subseteq published'[s]
    <2>1. CASE UNCHANGED <<job, published>>
      BY <2>1
    <2>2. ASSUME NEW u \in Sensors, NEW v \in Time, Publish(u, v)
          PROVE  /\ \A p \in Pollers : job'[p].batch \subseteq job[p].batch
                 /\ \A s \in Sensors : published[s] \subseteq published'[s]
      BY <2>2 DEF Publish, TypeOK
    <2> QED
      BY <2>1, <2>2 DEF Tick, DeactivateDead
  <1>3. OnlyPublished'
    BY <1>1, <1>2 DEF OnlyPublished
  <1>4. RegistryMatchesRows'
    <2> SUFFICES ASSUME NEW s \in Sensors
                 PROVE  /\ s \in overtaken \/ \A t \in Time' : <<s, t>> \in rows => t <= datetimeLast[s]
                        /\ datetimeLast[s] \in published'[s] \union {NoTime}
      BY <1>1 DEF RegistryMatchesRows
    <2>1. ASSUME NEW t \in Time', <<s, t>> \in rows PROVE t \in Time
      BY <2>1 DEF OnlyPublished, TypeOK, Time
    <2> QED
      BY <1>2, <2>1 DEF RegistryMatchesRows
  <1> QED
    BY <1>3, <1>4

\* A sensor is fetched: its batch holds what OpenAQ had published.
LEMMA RegistryFetch ==
    ASSUME RegistryInv, TypeOK', NEW p \in Pollers, Fetch(p)
    PROVE  OnlyPublished' /\ RegistryMatchesRows'
  <1> USE DEF RegistryInv, TypeOK
  <1>1. UNCHANGED <<now, published, rows, datetimeLast, overtaken, metadata>>
    BY DEF Fetch, FetchSensor, FetchSensorFails, source, database, registry
  <1>2. ASSUME NEW q \in Pollers, NEW s \in Sensors, NEW t \in Nat, <<s, t>> \in job'[q].batch
        PROVE  t \in published[s]
    <2>0. job[p] \in Job /\ job[q] \in Job
      OBVIOUS
    <2>1. CASE <<s, t>> \in job[q].batch
      BY <2>1 DEF OnlyPublished
    <2>2. CASE <<s, t>> \notin job[q].batch
      <3> PICK u \in Sensors : FetchSensor(p, u) \/ FetchSensorFails(p, u)
        BY DEF Fetch
      <3>1. ~FetchSensorFails(p, u)
        <4>1. FetchSensorFails(p, u) => job'[q].batch = job[q].batch
          <5>1. [job[p] EXCEPT !.todo = @ \ {u}, !.short = @ \union {u}].batch = job[p].batch
            BY <2>0 DEF Job
          <5> QED
            BY <5>1 DEF FetchSensorFails
        <4> QED
          BY <1>2, <2>2, <4>1
      <3> PICK page \in Pages(p, u) :
            job' = [job EXCEPT ![p].todo = @ \ {u},
                               ![p].batch = @ \union ({u} \X page),
                               ![p].short = IF page = InWindow(p, u) THEN @
                                            ELSE @ \union {u}]
        BY <3>1 DEF FetchSensor
      <3>2. page \subseteq published[u]
        BY DEF Pages, InWindow
      <3>3. q = p /\ job'[p].batch = job[p].batch \union ({u} \X page)
        BY <1>2, <2>0, <2>2 DEF Job
      <3> QED
        BY <1>2, <2>2, <3>2, <3>3
    <2> QED
      BY <2>1, <2>2
  <1>3. OnlyPublished'
    BY <1>1, <1>2 DEF OnlyPublished
  <1>4. RegistryMatchesRows'
    BY <1>1 DEF RegistryMatchesRows, Time
  <1> QED
    BY <1>3, <1>4

\* The batch is stored and datetime_last moves with it.
LEMMA RegistryWrite ==
    ASSUME RegistryInv, TypeOK', NEW p \in Pollers, WriteBatch(p)
    PROVE  OnlyPublished' /\ RegistryMatchesRows'
  <1> USE DEF RegistryInv, TypeOK
  <1>1. /\ UNCHANGED <<now, published, overtaken, metadata>>
        /\ rows' = rows \union job[p].batch
        /\ \A s \in Sensors : Newest(s, datetimeLast'[s], job[p].batch)
    BY DEF WriteBatch, source, registry
  <1>2. \A q \in Pollers : job'[q].batch \subseteq job[q].batch
    <2>1. job[p] \in Job
      OBVIOUS
    <2> QED
      BY <2>1 DEF WriteBatch, Job
  <1>3. OnlyPublished'
    BY <1>1, <1>2 DEF OnlyPublished
  <1>4. RegistryMatchesRows'
    <2> SUFFICES ASSUME NEW s \in Sensors
                 PROVE  /\ s \in overtaken \/ \A t \in Time : <<s, t>> \in rows' => t <= datetimeLast'[s]
                        /\ datetimeLast'[s] \in published[s] \union {NoTime}
      BY <1>1 DEF RegistryMatchesRows, Time
    <2> DEFINE times == {datetimeLast[s]} \union {u \in Time : <<s, u>> \in job[p].batch}
    <2>1. datetimeLast'[s] \in times /\ \A u \in times : u <= datetimeLast'[s]
      BY <1>1 DEF Newest
    <2>2. datetimeLast'[s] \in published[s] \union {NoTime}
      BY <2>1 DEF OnlyPublished, RegistryMatchesRows, Time
    <2>3. ASSUME s \notin overtaken, NEW t \in Time, <<s, t>> \in rows'
          PROVE  t <= datetimeLast'[s]
      <3>1. CASE <<s, t>> \in job[p].batch
        BY <2>1, <3>1
      <3>2. CASE <<s, t>> \in rows
        <4>1. t <= datetimeLast[s] /\ datetimeLast[s] <= datetimeLast'[s]
          BY <2>1, <2>3, <3>2 DEF RegistryMatchesRows
        <4>2. /\ t \in Int
              /\ datetimeLast[s] \in Time \union {NoTime}
              /\ datetimeLast'[s] \in Time \union {NoTime}
          BY <1>1 DEF Time
        <4> QED
          BY <4>1, <4>2 DEF Time, NoTime
      <3> QED
        BY <1>1, <2>3, <3>1, <3>2
    <2> QED
      BY <2>2, <2>3
  <1> QED
    BY <1>3, <1>4

\* The sync writes what OpenAQ had described over the registry.
LEMMA RegistrySync ==
    ASSUME RegistryInv, TypeOK', FetchMetadata \/ SyncMetadata
    PROVE  OnlyPublished' /\ RegistryMatchesRows'
  <1> USE DEF RegistryInv, TypeOK
  <1>1. UNCHANGED <<now, published, rows, job>>
    BY DEF FetchMetadata, SyncMetadata, source, database
  <1>2. CASE FetchMetadata
    <2>1. UNCHANGED <<datetimeLast, overtaken>>
      BY <1>2 DEF FetchMetadata, database
    <2>2. \A s \in Sensors : metadata'[s] \in published[s] \union {NoTime}
      BY <1>2 DEF FetchMetadata, DescribedLast
    <2> QED
      BY <1>1, <2>1, <2>2 DEF OnlyPublished, RegistryMatchesRows, Time
  <1>3. CASE SyncMetadata
    <2>1. /\ datetimeLast' = metadata /\ metadata # NoMetadata /\ metadata' = NoMetadata
          /\ overtaken' = overtaken \union
                {s \in Sensors : \E t \in Time : <<s, t>> \in rows /\ metadata[s] < t}
      BY <1>3 DEF SyncMetadata
    <2>2. OnlyPublished'
      BY <1>1, <2>1 DEF OnlyPublished
    <2>3. metadata \in [Sensors -> Time \union {NoTime}]
      BY <2>1
    <2>4. RegistryMatchesRows'
      <3> SUFFICES ASSUME NEW s \in Sensors
                   PROVE  /\ s \in overtaken' \/ \A t \in Time : <<s, t>> \in rows => t <= metadata[s]
                          /\ metadata[s] \in published[s] \union {NoTime}
        BY <1>1, <2>1 DEF RegistryMatchesRows, Time
      <3>1. metadata[s] \in published[s] \union {NoTime}
        BY <2>1 DEF OnlyPublished
      <3>2. ASSUME s \notin overtaken', NEW t \in Time, <<s, t>> \in rows
            PROVE  t <= metadata[s]
        <4>1. ~(metadata[s] < t)
          BY <2>1, <3>2
        <4>2. metadata[s] \in Int /\ t \in Int
          BY <2>3 DEF Time, NoTime
        <4> QED
          BY <4>1, <4>2
      <3> QED
        BY <3>1, <3>2
    <2> QED
      BY <2>2, <2>4
  <1> QED
    BY <1>2, <1>3

\* However polls interleave and fail, datetime_last is behind the stored readings
\* of a sensor only where a metadata sync put it back, and it is never the time
\* of a measurement that does not exist.
THEOREM RegistryFollows == Spec => []RegistryMatchesRows
  <1>1. Init => RegistryInv
    <2> SUFFICES ASSUME Init PROVE OnlyPublished /\ RegistryMatchesRows
      BY InitInv DEF IInv, RegistryInv
    <2> QED
      BY DEF Init, OnlyPublished, RegistryMatchesRows, Idle
  <1>2. RegistryInv /\ [Next]_vars => RegistryInv'
    <2> SUFFICES ASSUME RegistryInv, [Next]_vars PROVE RegistryInv'
      OBVIOUS
    <2>0. TypeOK'
      BY TypeStep DEF RegistryInv
    <2>1. ASSUME NEW p \in Pollers, BeginPoll(p) \/ RecordRun(p) \/ Abandon(p) \/ RefuseBatch(p)
          PROVE  OnlyPublished' /\ RegistryMatchesRows'
      <3>1. UNCHANGED <<now, published, rows, datetimeLast, overtaken, metadata>>
        BY <2>1 DEF BeginPoll, RecordRun, Abandon, RefuseBatch, source, database, registry
      <3>2. \A q \in Pollers : job'[q].batch \subseteq job[q].batch
        <4>0. job \in [Pollers -> Job]
          BY DEF RegistryInv, TypeOK
        <4>1. CASE BeginPoll(p)
          <5> PICK from \in WindowStarts :
                job' = [job EXCEPT ![p] = [Idle EXCEPT !.pc = "fetching",
                                                       !.from = from, !.to = now,
                                                       !.polled = active, !.todo = active]]
            BY <4>1 DEF BeginPoll
          <5>1. job'[p].batch = {} /\ \A q \in Pollers \ {p} : job'[q] = job[q]
            BY <4>0 DEF Idle
          <5> QED
            BY <5>1
        <4>2. CASE RecordRun(p) \/ Abandon(p) \/ RefuseBatch(p)
          BY <4>0, <4>2 DEF RecordRun, Abandon, RefuseBatch, Idle
        <4> QED
          BY <2>1, <4>1, <4>2
      <3> QED
        BY <2>0, <3>1, <3>2, QuietStep
    <2>2. CASE UNCHANGED vars
      <3>1. UNCHANGED <<now, published, rows, datetimeLast, overtaken, metadata, job>>
        BY <2>2 DEF vars, source, database, registry
      <3> QED
        BY <2>0, <3>1 DEF RegistryInv, OnlyPublished, RegistryMatchesRows, Time
    <2>3. CASE Next
      <3>1. OnlyPublished' /\ RegistryMatchesRows'
        BY <2>0, <2>1, <2>3, QuietStep, RegistryFetch, RegistryWrite, RegistrySync DEF Next
      <3> QED
        BY <2>0, <3>1 DEF RegistryInv
    <2> QED
      BY <2>2, <2>3
  <1>3. RegistryInv => RegistryMatchesRows
    BY DEF RegistryInv
  <1> QED
    BY <1>1, <1>2, <1>3, PTL DEF Spec

=============================================================================
