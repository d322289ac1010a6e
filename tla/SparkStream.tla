---------------------------- MODULE SparkStream ----------------------------
(***************************************************************************)
(* services/spark/jobs/aq_stream_processor.py: the streaming query that    *)
(* takes raw-aq-readings into aq_readings in micro-batches.                *)
(*                                                                         *)
(* Spark (external) logs the end offset of a batch before it calls         *)
(* foreach_batch and commits the batch after foreach_batch returned; after *)
(* a restart a batch that was logged and not committed is run again, with  *)
(* the same offsets and the same batch id.  Kafka keeps a message for 24   *)
(* hours; what has expired when a batch reads its offsets is passed over   *)
(* without an error (failOnDataLoss false).  process_payload_batch writes  *)
(* the readings, publishes a summary and the dead letters, and records the *)
(* run, each to another system and none together with another.             *)
(***************************************************************************)
EXTENDS Integers, Sequences, FiniteSets

CONSTANTS Sensors,
          Station,    \* Station[s]: the station of sensor s
          Reading,    \* the storable readings: their key, and a value
          OtherKinds, \* the messages that are no storable reading
          MaxTopic,   \* bound: number of messages
          MaxBatch,   \* maxOffsetsPerTrigger
          MaxRuns,    \* bound: number of rows of pipeline_runs
          MaxFaults   \* bound: number of failures and crashes

ASSUME StreamAssumption ==
    /\ Station \in [Sensors -> STRING]
    /\ Reading \subseteq [kind: {"reading"}, sensor: Sensors, time: Nat, value: Nat]
    /\ OtherKinds \subseteq {"malformed", "orphan"}
    /\ MaxTopic \in Nat /\ MaxBatch \in Nat \ {0}
    /\ MaxRuns \in Nat /\ MaxFaults \in Nat

VARIABLES
    topic,       \* raw-aq-readings, one partition: all that was ever published
    origin,      \* the offset the checkpoint starts from, -1 without one
    planned,     \* Spark's offset log: the last offset of every batch
    committed,   \* Spark's commit log: the number of batches committed
    skipped,     \* the offsets that had expired when their batch read them
    job,         \* where the driver process is
    rows,        \* aq_readings
    lastSeen,    \* datetime_last of a sensor, last_seen of a station, -1 for NULL
    summaries,   \* processed-aq-readings: batch id and readings of each summary
    deadLetters, \* raw-aq-readings-dlq, by offset of the original
    runs,        \* pipeline_runs
    stored,      \* history: the offset up to which batches were written
    inserted,    \* history: number of rows the stream inserted
    faults       \* faults so far

kafka      == <<summaries, deadLetters>>
checkpoint == <<origin, planned, committed, skipped>>
database   == <<rows, lastSeen, inserted>>
vars == <<topic, checkpoint, job, database, kafka, runs, stored, faults>>

\* A "malformed" message fails the schema or lacks an internal id.  An "orphan"
\* is valid but names a station or sensor that has no row, or holds a value that
\* its column cannot: the insert violates a constraint.
Message == Reading \union [kind: OtherKinds]

IsReading(m) == m.kind = "reading"
Key(m)       == <<m.sensor, m.time>>

Idle == [pc |-> "down", written |-> 0]
Job  == [pc: {"down", "waiting", "running", "written", "notified", "recorded"}, written: Nat]

\* record_pipeline_run: status, records_processed, and of the metadata batch_id
\* and records_skipped_duplicate.  How many rows were written is not recorded.
Run == [batch: Nat, status: {"success", "partial", "failed"}, processed: Nat, duplicates: Nat]

-----------------------------------------------------------------------------
(* Batches *)

LastPlanned == IF planned = <<>> THEN origin ELSE planned[Len(planned)]

\* The batch the query works on, counted from one.
Current == committed + 1

BatchStart(b) == IF b = 1 THEN origin ELSE planned[b - 1]
Span(b)       == BatchStart(b) + 1 .. planned[b]

\* The offsets of the batch that collect() returned a message for.
Offsets(b) == Span(b) \ skipped

OfKind(b, kind) == {i \in Offsets(b) : topic[i].kind = kind}

\* The rows ON CONFLICT (sensor_id, timestamp) DO NOTHING lets through: of the
\* readings of one key the first, and none if the key has a row.
Fresh(b) ==
    {topic[i] : i \in {i \in OfKind(b, "reading") :
        /\ \A r \in rows : Key(r) # Key(topic[i])
        /\ \A j \in OfKind(b, "reading") : j < i => Key(topic[j]) # Key(topic[i])}}

\* Mutation: ON CONFLICT DO UPDATE.
UpsertUpdates(b) ==
    {r \in rows : \A i \in OfKind(b, "reading") : Key(topic[i]) # Key(r)} \union
    {topic[i] : i \in {i \in OfKind(b, "reading") :
        \A j \in OfKind(b, "reading") : j > i => Key(topic[j]) # Key(topic[i])}}

\* aq_readings after the batch.
Upsert(b) == rows \union Fresh(b)

\* Mutation: the newest reading of the batch, without GREATEST.
SeenLatest(who, readings) ==
    LET times == {r.time : r \in {r \in readings : who \in {r.sensor, Station[r.sensor]}}}
    IN  IF times = {} THEN lastSeen[who] ELSE CHOOSE t \in times : \A u \in times : u <= t

\* GREATEST over the readings of the batch.
Seen(who, readings) ==
    LET times == {lastSeen[who]} \union
                 {r.time : r \in {r \in readings : who \in {r.sensor, Station[r.sensor]}}}
    IN  CHOOSE t \in times : \A u \in times : u <= t

\* Mutation: every reading of the batch counts as written.
RowCountAll(b) == Cardinality(OfKind(b, "reading"))

\* cursor.rowcount, summed up
RowCount(b) == Cardinality(Fresh(b))

\* Mutation: a status no reader of pipeline_runs knows.
StatusUnknown(b) == IF OfKind(b, "malformed") = {} THEN "ok" ELSE "failed"

Status(b) ==
    IF OfKind(b, "malformed") = {} THEN "success"
    ELSE IF OfKind(b, "reading") = {} THEN "failed" ELSE "partial"

\* build_processed_summary: for every station its latest reading.
Latest(b) ==
    {topic[i] : i \in {i \in OfKind(b, "reading") :
        \A j \in OfKind(b, "reading") :
            Station[topic[j].sensor] = Station[topic[i].sensor] =>
                \/ topic[j].time < topic[i].time
                \/ topic[j].time = topic[i].time /\ j >= i}}

-----------------------------------------------------------------------------
Init ==
    /\ topic = <<>>
    /\ origin = -1 /\ planned = <<>> /\ committed = 0 /\ skipped = {}
    /\ job = Idle
    /\ rows = {} /\ inserted = 0
    /\ lastSeen = [who \in Sensors \union {Station[s] : s \in Sensors} |-> -1]
    /\ summaries = {} /\ deadLetters = {}
    /\ runs = <<>>
    /\ stored = -1
    /\ faults = 0

\* A producer (replay publisher, smoke script) appends a message.
Publish(m) ==
    /\ Len(topic) < MaxTopic
    /\ topic' = Append(topic, m)
    /\ UNCHANGED <<checkpoint, job, database, kafka, runs, stored, faults>>

\* The direct ingestion of the worker, or of the replay publisher in its mode
\* direct-db-fallback, writes a reading of the same key with the same write_batch.
WriteElsewhere(m) ==
    /\ \A r \in rows : Key(r) # Key(m)
    /\ rows' = rows \union {m}
    /\ lastSeen' = [who \in DOMAIN lastSeen |-> Seen(who, {m})]
    /\ UNCHANGED <<topic, checkpoint, job, kafka, runs, stored, inserted, faults>>

\* Mutation: the query is started without a checkpoint location.
StartQueryAfresh ==
    /\ job.pc = "down"
    /\ job' = [job EXCEPT !.pc = "waiting"]
    /\ origin' = Len(topic) /\ planned' = <<>> /\ committed' = 0
    /\ stored' = Len(topic)
    /\ UNCHANGED <<topic, skipped, database, kafka, runs, faults>>

\* run_stream: without a checkpoint the topic is read from its end
\* (startingOffsets latest), with one from where it says, whether or not the
\* messages from there on still exist.
StartQuery ==
    /\ job.pc = "down"
    /\ job' = [job EXCEPT !.pc = "waiting"]
    /\ origin' = IF origin = -1 THEN Len(topic) ELSE origin
    /\ stored' = IF origin = -1 THEN Len(topic) ELSE stored
    /\ UNCHANGED <<topic, planned, committed, skipped, database, kafka, runs, faults>>

\* The trigger fires: Spark logs the offsets of the next batch, those of expired
\* messages among them.
PlanBatch ==
    /\ job.pc = "waiting" /\ committed = Len(planned) /\ LastPlanned < Len(topic)
    /\ planned' = Append(planned, IF LastPlanned + MaxBatch <= Len(topic)
                                  THEN LastPlanned + MaxBatch ELSE Len(topic))
    /\ UNCHANGED <<topic, origin, committed, skipped, job, database, kafka, runs, stored, faults>>

\* foreach_batch up to the transform: collect() reads the messages of the batch
\* but for the oldest, those up to n, that retention has removed by now.
BeginBatch ==
    /\ job.pc = "waiting" /\ committed < Len(planned)
    /\ job' = [job EXCEPT !.pc = "running"]
    /\ \E n \in BatchStart(Current)..planned[Current] :
          skipped' = skipped \union (BatchStart(Current) + 1 .. n)
    /\ UNCHANGED <<topic, origin, planned, committed, database, kafka, runs, stored, faults>>

\* write_batch: one transaction.
WriteBatch ==
    /\ job.pc = "running" /\ OfKind(Current, "orphan") = {}
    /\ rows' = Upsert(Current)
    /\ inserted' = inserted + Cardinality(Fresh(Current))
    /\ lastSeen' = LET readings == {topic[i] : i \in OfKind(Current, "reading")}
                   IN  [who \in DOMAIN lastSeen |-> Seen(who, readings)]
    /\ job' = [pc |-> "written", written |-> RowCount(Current)]
    /\ stored' = IF stored < planned[Current] THEN planned[Current] ELSE stored
    /\ UNCHANGED <<topic, checkpoint, kafka, runs, faults>>

\* Mutation: the summary is published before the transaction.
NotifyFirst ==
    /\ job.pc = "running"
    /\ summaries' = summaries \union {[batch |-> Current, latest |-> Latest(Current)]}
    /\ job' = [job EXCEPT !.pc = "notified"]
    /\ UNCHANGED <<topic, checkpoint, database, deadLetters, runs, stored, faults>>

\* publish_notifications: the summary, then the dead letters one by one.  An
\* error ends the publishing and not the batch.
Notify ==
    LET letters == OfKind(Current, "malformed")
    IN  /\ job.pc = "written"
        /\ \/ \E n \in Span(Current) :
                 /\ faults < MaxFaults
                 /\ faults' = faults + 1
                 /\ summaries' \in {summaries, summaries \union
                                       {[batch |-> Current, latest |-> Latest(Current)]}}
                 /\ deadLetters' = IF summaries' = summaries THEN deadLetters
                                   ELSE deadLetters \union {i \in letters : i < n}
           \/ /\ summaries' = summaries \union {[batch |-> Current, latest |-> Latest(Current)]}
              /\ deadLetters' = deadLetters \union letters
              /\ UNCHANGED faults
        /\ job' = [job EXCEPT !.pc = "notified"]
        /\ UNCHANGED <<topic, checkpoint, database, runs, stored>>

\* _processor_result: all readings of the batch count as processed, those that
\* had a row are reported as duplicates.
FinishedRun ==
    LET processed == Cardinality(OfKind(Current, "reading"))
    IN  [batch |-> Current, status |-> Status(Current), processed |-> processed,
         duplicates |-> IF processed > job.written THEN processed - job.written ELSE 0]

\* record_pipeline_run
RecordRun ==
    /\ job.pc = "notified"
    /\ runs' = Append(runs, FinishedRun)
    /\ job' = [job EXCEPT !.pc = "recorded"]
    /\ UNCHANGED <<topic, checkpoint, database, kafka, stored, faults>>

\* foreach_batch has returned: Spark commits the batch.
CommitBatch ==
    /\ job.pc = "recorded"
    /\ committed' = committed + 1
    /\ job' = [pc |-> "waiting", written |-> 0]
    /\ UNCHANGED <<topic, origin, planned, skipped, database, kafka, runs, stored, faults>>

\* _failed_result
FailedRun == [batch |-> Current, status |-> "failed", processed |-> 0, duplicates |-> 0]

\* The transaction is refused: the failed run is recorded and the exception
\* ends the query, and with it the process.
RefuseBatch ==
    /\ job.pc = "running" /\ OfKind(Current, "orphan") # {}
    /\ runs' = IF Len(runs) < MaxRuns THEN Append(runs, FailedRun) ELSE runs
    /\ job' = Idle
    /\ UNCHANGED <<topic, checkpoint, database, kafka, stored, faults>>

\* Mutation: the exception is not raised again, so Spark takes the batch for done.
FailBatchSwallowed ==
    /\ job.pc = "running"
    /\ faults < MaxFaults
    /\ faults' = faults + 1
    /\ runs' = Append(runs, FailedRun)
    /\ job' = [job EXCEPT !.pc = "recorded"]
    /\ UNCHANGED <<topic, checkpoint, database, kafka, stored>>

\* A query or the transaction fails, and the failed run is recorded or not.
FailBatch ==
    /\ job.pc = "running"
    /\ faults < MaxFaults
    /\ faults' = faults + 1
    /\ runs' \in {runs, Append(runs, FailedRun)}
    /\ job' = Idle
    /\ UNCHANGED <<topic, checkpoint, database, kafka, stored>>

\* The process dies, or record_pipeline_run of a finished batch raises.
Crash ==
    /\ job.pc # "down"
    /\ faults < MaxFaults
    /\ faults' = faults + 1
    /\ job' = Idle
    /\ UNCHANGED <<topic, checkpoint, database, kafka, runs, stored>>

\* The next step of a query that nothing disturbs.
Advance == StartQuery \/ PlanBatch \/ BeginBatch \/ WriteBatch \/ Notify \/ RecordRun
           \/ CommitBatch \/ RefuseBatch

Next ==
    \/ \E m \in Message : Publish(m)
    \/ \E m \in Reading : WriteElsewhere(m)
    \/ Advance
    \/ FailBatch
    \/ Crash

Spec == Init /\ [][Next]_vars

\* The container is restarted and the trigger keeps firing.
FairSpec == Spec /\ WF_vars(Advance)

-----------------------------------------------------------------------------
(* Properties *)

TypeOK ==
    /\ topic \in Seq(Message)
    /\ origin \in Int /\ planned \in Seq(Int) /\ committed \in 0..Len(planned)
    /\ skipped \subseteq 1..Len(topic)
    /\ job \in Job
    /\ rows \subseteq Reading /\ inserted \in Nat
    /\ lastSeen \in [Sensors \union {Station[s] : s \in Sensors} -> Nat \union {-1}]
    /\ summaries \subseteq [batch: Nat, latest: SUBSET Reading]
    /\ deadLetters \subseteq Nat
    /\ runs \in Seq(Run)
    /\ stored \in Int /\ faults \in Nat

\* However batches fail, crash and run again, the stream does to aq_readings
\* what applying every message once would, apart from expired messages.
AppliedOnce == INSTANCE ReadingLog WITH position <- stored
AppliesOnce == AppliedOnce!Spec

HasRow(i) == i \in DOMAIN topic /\ IsReading(topic[i]) /\ \E r \in rows : Key(r) = Key(topic[i])

\* A reading whose offset is committed is stored, unless retention removed it
\* before its batch read it: no crash between the checkpoint and the database,
\* and no batch run again over expired messages, loses another one.
CommittedIsStored ==
    \A b \in 1..committed : \A i \in Span(b) :
        IsReading(topic[i]) => HasRow(i) \/ i \in skipped

\* A summary never announces a reading that is not in the database yet.
AnnouncedIsStored ==
    \A s \in summaries : \A m \in s.latest : \E r \in rows : Key(r) = Key(m)

\* A sensor and its station were last seen at their newest row or later.
RegistryCoversRows ==
    \A r \in rows : r.time <= lastSeen[r.sensor] /\ r.time <= lastSeen[Station[r.sensor]]

\* The rows a run claims to have added.
Claimed(run) == run.processed - run.duplicates

Total(log) == LET upTo[n \in 0..Len(log)] ==
                      IF n = 0 THEN 0 ELSE upTo[n - 1] + Claimed(log[n])
              IN  upTo[Len(log)]

\* pipeline_runs never claims more new rows than were inserted, though a batch may
\* be run and recorded several times: what processed counts again, the duplicates
\* take off.
RunsNeverOvercount == Total(runs) <= inserted

\* "The raw-aq-readings-dlq topic holds payloads that fail validation" and "No
\* reading is dropped silently" (fyp-report-draft.md).
RejectedIsKept ==
    \A b \in 1..committed : OfKind(b, "malformed") \subseteq deadLetters

\* The message at offset i arrived after the query first started.
Arrived(i) == origin # -1 /\ i \in origin + 1 .. Len(topic)

\* A message the database refuses is on the topic.
HeldUp == \E j \in 1..Len(topic) : Arrived(j) /\ topic[j].kind = "orphan" /\ j \notin skipped

\* Every reading that arrives after the first start is stored in the end or has
\* expired before its batch read it, unless a message the database refuses holds
\* up the stream for good; once retention removes that one, the stream goes on.
EventuallyStored ==
    \A i \in 1..MaxTopic :
        \/ (Arrived(i) /\ IsReading(topic[i])) ~> (HasRow(i) \/ i \in skipped)
        \/ <>[]HeldUp
=============================================================================
