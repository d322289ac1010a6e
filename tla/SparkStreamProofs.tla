------------------------- MODULE SparkStreamProofs -------------------------
(***************************************************************************)
(* Proof that the stream implements ReadingLog, and of its invariants, for *)
(* any messages, batch size, expiry and number of failures: no crash       *)
(* between the offset log, the database, Kafka, pipeline_runs and the      *)
(* commit log loses a reading that its batch still found on the topic,     *)
(* applies one twice or claims a row twice.                                *)
(***************************************************************************)
EXTENDS SparkStream, FiniteSetTheorems, SequenceTheorems, TLAPS

-----------------------------------------------------------------------------
(* The inductive invariant *)

\* What Spark's logs, the process and the history of the writes say of each
\* other: at most one batch is under way, and all before it is written.
Batches ==
    /\ origin \in -1..Len(topic)
    /\ \A b \in 1..Len(planned) : origin < planned[b] /\ planned[b] <= Len(topic)
    /\ \A a, b \in 1..Len(planned) : a < b => planned[a] < planned[b]
    /\ Len(planned) <= Current
    /\ origin = -1 => planned = <<>> /\ job.pc = "down"
    /\ \/ stored = BatchStart(Current)
       \/ Current <= Len(planned) /\ stored = planned[Current]
    /\ job.pc \notin {"down", "waiting"} => Current <= Len(planned)
    /\ job.pc \in {"written", "notified", "recorded"} => stored = planned[Current]

\* The end of the batch under way, or else of the last one.
LastBatchEnd == IF Current <= Len(planned) THEN planned[Current] ELSE BatchStart(Current)

\* No batch skipped a message beyond its end, and the batch under way those at
\* its beginning.
OldestSkipped ==
    \A i \in skipped : /\ i <= LastBatchEnd
                       /\ \A j \in BatchStart(Current) + 1 .. i : j \in skipped

\* The readings up to the last written offset are stored, but for the expired.
AppliedIsStored ==
    \A i \in origin + 1 .. stored :
        IsReading(topic[i]) => i \in skipped \/ \E r \in rows : Key(r) = Key(topic[i])

\* The runs on record, and the one about to be recorded, claim no more rows than
\* were inserted.
ClaimsAreInserted ==
    Total(runs) + (IF job.pc \in {"written", "notified"} THEN job.written ELSE 0) <= inserted

IInv == /\ TypeOK
        /\ Batches
        /\ OldestSkipped
        /\ AppliedIsStored
        /\ AnnouncedIsStored
        /\ RegistryCoversRows
        /\ ClaimsAreInserted

-----------------------------------------------------------------------------
(* Sums of rows over pipeline_runs *)

\* A set of numbers that is not empty has a least one.
LEMMA LeastNumber ==
    ASSUME NEW S \in SUBSET Nat, S # {}
    PROVE  \E m \in S : \A k \in S : m <= k
<1>. DEFINE R == OpToRel(<, Nat)
<1>1. IsWellFoundedOn(R, Nat)
  BY NatLessThanWellFounded
<1>2. \A k, m \in Nat : k < m => <<k, m>> \in R
  BY DEF OpToRel
<1>. HIDE DEF R
<1>3. PICK m \in S : \A k \in S : ~(<<k, m>> \in R)
  BY <1>1, WFMin
<1>4. m \in Nat /\ \A k \in S : k \in Nat /\ ~(k < m)
  BY <1>2, <1>3
<1>. QED  BY <1>4

\* The function that Total evaluates, up to n.
IsSum(f, log, n) == f = [i \in 0..n |-> IF i = 0 THEN 0 ELSE f[i - 1] + Claimed(log[i])]

\* The function that sums a log exists up to every row: it is extended by one.
LEMMA SumExists ==
    ASSUME NEW log \in Seq(Run), NEW n \in 0..Len(log)
    PROVE  \E f : IsSum(f, log, n) /\ f \in [0..n -> Int]
<1>. DEFINE Without == {k \in 0..Len(log) : ~\E f : IsSum(f, log, k) /\ f \in [0..k -> Int]}
<1>1. SUFFICES Without = {}
  OBVIOUS
<1>2. SUFFICES ASSUME Without # {} PROVE FALSE
  OBVIOUS
<1>3. PICK m \in Without : \A k \in Without : m <= k
  <2>1. Without \in SUBSET Nat
    OBVIOUS
  <2>. HIDE DEF Without
  <2>. QED  BY <1>2, <2>1, LeastNumber
<1>4. m \in 0..Len(log) /\ Len(log) \in Nat
  OBVIOUS
<1>5. CASE m = 0
  <2>. DEFINE f == [i \in 0..0 |-> 0]
  <2>1. f = [i \in 0..0 |-> IF i = 0 THEN 0 ELSE f[i - 1] + Claimed(log[i])]
    OBVIOUS
  <2>2. IsSum(f, log, 0) /\ f \in [0..0 -> Int]
    BY <2>1 DEF IsSum
  <2>. QED  BY <1>5, <2>2
<1>6. CASE m # 0
  <2>1. m - 1 \in 0..Len(log) /\ m - 1 \notin Without
    <3>1. m - 1 \in 0..Len(log) /\ ~(m <= m - 1)
      BY <1>4, <1>6
    <3>2. m - 1 \in Without => m <= m - 1
      <4>. HIDE DEF Without
      <4>. QED  BY <1>3
    <3>. QED  BY <3>1, <3>2
  <2>2. PICK g : IsSum(g, log, m - 1) /\ g \in [0..m - 1 -> Int]
    BY <2>1
  <2>3. log[m] \in Run /\ Claimed(log[m]) \in Int
    <3>1. m \in 1..Len(log)
      BY <1>4, <1>6
    <3>2. log[m] \in Run
      BY <3>1, ElementOfSeq
    <3>. QED  BY <3>2 DEF Run, Claimed
  <2>. DEFINE f == [i \in 0..m |-> IF i = m THEN g[m - 1] + Claimed(log[m]) ELSE g[i]]
  <2>4. f \in [0..m -> Int]
    BY <1>4, <1>6, <2>2, <2>3
  <2>5. \A i \in 0..m : f[i] = IF i = 0 THEN 0 ELSE f[i - 1] + Claimed(log[i])
    <3>. SUFFICES ASSUME NEW i \in 0..m
                  PROVE  f[i] = IF i = 0 THEN 0 ELSE f[i - 1] + Claimed(log[i])
      OBVIOUS
    <3>1. CASE i = m
      BY <1>4, <1>6, <3>1
    <3>2. CASE i # m
      <4>1. i \in 0..m - 1 /\ f[i] = g[i]
        BY <1>4, <3>2
      <4>2. g[i] = IF i = 0 THEN 0 ELSE g[i - 1] + Claimed(log[i])
        BY <2>2, <4>1 DEF IsSum
      <4>3. i # 0 => f[i - 1] = g[i - 1]
        BY <1>4, <3>2
      <4>. QED  BY <4>1, <4>2, <4>3
    <3>. QED  BY <3>1, <3>2
  <2>6. IsSum(f, log, m)
    <3>1. f = [i \in 0..m |-> f[i]]
      BY <2>4
    <3>. HIDE DEF f
    <3>. QED  BY <2>5, <3>1 DEF IsSum
  <2>. HIDE DEF f
  <2>. QED  BY <2>4, <2>6
<1>. QED  BY <1>5, <1>6

Agree(log, longer, n) == \A i \in 1..n : log[i] = longer[i]

\* Two logs that agree up to n have the same sums up to n.
LEMMA SumUnique ==
    ASSUME NEW log, NEW longer, NEW n \in Nat, NEW m \in Nat, n <= m,
           Agree(log, longer, n), NEW f, NEW g, IsSum(f, log, n), IsSum(g, longer, m)
    PROVE  \A k \in 0..n : f[k] = g[k]
<1>. DEFINE Differ == {k \in 0..n : f[k] # g[k]}
<1>1. SUFFICES ASSUME Differ # {} PROVE FALSE
  OBVIOUS
<1>2. PICK k \in Differ : \A j \in Differ : k <= j
  <2>1. Differ \in SUBSET Nat
    OBVIOUS
  <2>. HIDE DEF Differ
  <2>. QED  BY <1>1, <2>1, LeastNumber
<1>3. f[k] = IF k = 0 THEN 0 ELSE f[k - 1] + Claimed(log[k])
  BY DEF IsSum
<1>4. g[k] = IF k = 0 THEN 0 ELSE g[k - 1] + Claimed(longer[k])
  BY DEF IsSum
<1>5. k # 0 => k - 1 \in 0..n /\ k - 1 \notin Differ
  BY <1>2
<1>6. k # 0 => log[k] = longer[k]
  BY DEF Agree
<1>. QED  BY <1>3, <1>4, <1>5, <1>6

\* Total is what its recursion says.
LEMMA TotalIsSum ==
    ASSUME NEW log \in Seq(Run)
    PROVE  \E f \in [0..Len(log) -> Int] : IsSum(f, log, Len(log)) /\ Total(log) = f[Len(log)]
<1>. DEFINE f == CHOOSE g : IsSum(g, log, Len(log))
<1>1. Len(log) \in Nat
  OBVIOUS
<1>2. PICK g : IsSum(g, log, Len(log)) /\ g \in [0..Len(log) -> Int]
  BY <1>1, SumExists
<1>3. IsSum(f, log, Len(log))
  BY <1>2
<1>4. Total(log) = f[Len(log)]
  BY DEF Total, IsSum
<1>. HIDE DEF f
<1>5. f[Len(log)] = g[Len(log)]
  <2>1. Agree(log, log, Len(log))
    BY DEF Agree
  <2>2. \A k \in 0..Len(log) : f[k] = g[k]
    BY <1>1, <1>2, <1>3, <2>1, SumUnique
  <2>. QED  BY <1>1, <2>2
<1>. QED  BY <1>2, <1>4, <1>5

\* A run more adds its rows.
LEMMA TotalAppend ==
    ASSUME NEW log \in Seq(Run), NEW run \in Run
    PROVE  /\ Total(log) \in Int
           /\ Total(Append(log, run)) = Total(log) + Claimed(run)
<1>. DEFINE longer == Append(log, run)
            n == Len(log)
<1>1. /\ longer \in Seq(Run) /\ Len(longer) = n + 1 /\ n \in Nat
      /\ longer[n + 1] = run /\ \A i \in 1..n : log[i] = longer[i]
  BY AppendProperties
<1>2. PICK f \in [0..n -> Int] : IsSum(f, log, n) /\ Total(log) = f[n]
  BY TotalIsSum
<1>3. PICK g \in [0..n + 1 -> Int] : IsSum(g, longer, n + 1) /\ Total(longer) = g[n + 1]
  BY <1>1, TotalIsSum
<1>4. f[n] = g[n]
  <2>1. \A k \in 0..n : f[k] = g[k]
    <3>. DEFINE m == n + 1
    <3>1. n \in Nat /\ m \in Nat /\ n <= m
      BY <1>1
    <3>2. Agree(log, longer, n)
      BY <1>1 DEF Agree
    <3>3. IsSum(f, log, n) /\ IsSum(g, longer, m)
      BY <1>2, <1>3
    <3>. HIDE DEF longer, n, m
    <3>. QED  BY <3>1, <3>2, <3>3, SumUnique
  <2>. QED  BY <1>1, <2>1
<1>5. g[n + 1] = g[n] + Claimed(longer[n + 1])
  BY <1>1, <1>3 DEF IsSum
<1>. QED  BY <1>1, <1>2, <1>3, <1>4, <1>5

\* An empty log claims nothing.
LEMMA TotalEmpty == Total(<<>>) = 0
<1>1. <<>> \in Seq(Run) /\ Len(<<>>) = 0
  OBVIOUS
<1>2. PICK f \in [0..0 -> Int] : IsSum(f, <<>>, 0) /\ Total(<<>>) = f[0]
  BY <1>1, TotalIsSum
<1>. QED  BY <1>2 DEF IsSum

-----------------------------------------------------------------------------
(* The registry: the greatest of finitely many times *)

\* Finitely many numbers have a greatest one: of the sets of those above each, a
\* smallest exists, and it is empty.
LEMMA GreatestNumber ==
    ASSUME NEW S \in SUBSET Int, IsFiniteSet(S), S # {}
    PROVE  \E t \in S : \A u \in S : u <= t
<1>. DEFINE Above(x) == {y \in S : x < y}
            family == {Above(x) : x \in S}
            R == StrictSubsetOrdering(S)
<1>1. IsWellFoundedOn(R, SUBSET S)
  BY FS_StrictSubsetOrderingWellFounded, FS_FiniteSubsetsOfFinite
<1>2. family \subseteq SUBSET S /\ family # {}
  OBVIOUS
<1>. HIDE DEF R
<1>3. PICK A \in family : \A B \in family : ~(<<B, A>> \in R)
  BY <1>1, <1>2, WFMin
<1>4. PICK t \in S : A = Above(t)
  BY <1>3
<1>5. \A u \in S : u <= t
  <2>. SUFFICES ASSUME NEW u \in S, t < u PROVE FALSE
    OBVIOUS
  <2>1. t \in Int /\ u \in Int /\ \A y \in S : u < y => t < y
    OBVIOUS
  <2>2. Above(u) \subseteq Above(t)
    BY <2>1
  <2>3. u \in Above(t)
    OBVIOUS
  <2>4. u \notin Above(u)
    BY <2>1
  <2>5. Above(u) # Above(t)
    BY <2>3, <2>4
  <2>6. <<Above(u), Above(t)>> \in R
    BY <2>2, <2>5 DEF R, StrictSubsetOrdering
  <2>. QED  BY <1>3, <1>4, <2>6
<1>. QED  BY <1>5

\* A function on a finite set has finitely many values.
LEMMA FiniteRange ==
    ASSUME NEW S, IsFiniteSet(S), NEW f
    PROVE  IsFiniteSet({f[x] : x \in S})
<1>. DEFINE T == {f[x] : x \in S}
            g == [x \in S |-> f[x]]
<1>1. g \in Surjection(S, T)
  BY DEF Surjection
<1>. HIDE DEF g
<1>. QED  BY <1>1, FS_Surjection

\* GREATEST is not below what was there, nor below any reading of the insert.
LEMMA SeenCovers ==
    ASSUME NEW who, lastSeen[who] \in Nat \union {-1},
           NEW readings \in SUBSET Reading, IsFiniteSet(readings)
    PROVE  /\ Seen(who, readings) \in Nat \union {-1}
           /\ lastSeen[who] <= Seen(who, readings)
           /\ \A r \in readings :
                 who \in {r.sensor, Station[r.sensor]} => r.time <= Seen(who, readings)
<1>. DEFINE mine == {r \in readings : who \in {r.sensor, Station[r.sensor]}}
            time == [r \in mine |-> r.time]
            times == {lastSeen[who]} \union {r.time : r \in mine}
<1>1. \A r \in readings : r.time \in Nat
  BY StreamAssumption
<1>2. times \subseteq Nat \union {-1} /\ lastSeen[who] \in times
  BY <1>1
<1>3. IsFiniteSet(times)
  <2>1. IsFiniteSet(mine)
    BY FS_Subset
  <2>2. {r.time : r \in mine} = {time[r] : r \in mine}
    OBVIOUS
  <2>3. IsFiniteSet({time[r] : r \in mine})
    <3>. HIDE DEF time, mine
    <3>. QED  BY <2>1, FiniteRange
  <2>4. IsFiniteSet({r.time : r \in mine} \union {lastSeen[who]})
    BY <2>2, <2>3, FS_AddElement
  <2>5. times = {r.time : r \in mine} \union {lastSeen[who]}
    OBVIOUS
  <2>. QED  BY <2>4, <2>5
<1>4. \A r \in mine : r.time \in times
  OBVIOUS
<1>5. Seen(who, readings) = CHOOSE t \in times : \A u \in times : u <= t
  BY DEF Seen
<1>6. Seen(who, readings) \in times /\ \A u \in times : u <= Seen(who, readings)
  <2>. HIDE DEF times
  <2>1. \E t \in times : \A u \in times : u <= t
    <3>1. times \in SUBSET Int /\ times # {}
      BY <1>2
    <3>. QED  BY <1>3, <3>1, GreatestNumber
  <2>. QED  BY <1>5, <2>1
<1>. QED  BY <1>2, <1>4, <1>6

-----------------------------------------------------------------------------
(* Messages and batches *)

\* A message is a reading by its kind, and only then has a time and a sensor.
LEMMA MessageKinds ==
    /\ \A m \in Message : IsReading(m) <=> m \in Reading
    /\ \A m \in Reading : m.time \in Nat /\ m.sensor \in Sensors
BY StreamAssumption DEF Message, IsReading

\* The batch under way is the last one that Spark logged, and lies in the topic.
LEMMA CurrentBatch ==
    ASSUME TypeOK, Batches, Current <= Len(planned)
    PROVE  /\ Current \in 1..Len(planned) /\ Current = Len(planned)
           /\ origin \in Nat /\ BatchStart(Current) \in Int /\ planned[Current] \in Int
           /\ origin <= BatchStart(Current) /\ BatchStart(Current) < planned[Current]
           /\ planned[Current] <= Len(topic)
<1>1. /\ Len(planned) \in Nat /\ Len(topic) \in Nat /\ committed \in Nat /\ origin \in Int
      /\ \A b \in 1..Len(planned) : planned[b] \in Int
  BY DEF TypeOK
<1>2. Current \in 1..Len(planned) /\ Current = Len(planned)
  BY <1>1 DEF Current, Batches
<1>3. origin \in Nat
  <2>1. planned # <<>>
    BY <1>1, <1>2
  <2>. QED  BY <1>1, <2>1 DEF Batches
<1>4. planned[Current] \in Int /\ planned[Current] <= Len(topic) /\ origin < planned[Current]
  BY <1>1, <1>2 DEF Batches
<1>5. CASE Current = 1
  BY <1>1, <1>2, <1>3, <1>4, <1>5 DEF BatchStart
<1>6. CASE Current # 1
  <2>1. Current - 1 \in 1..Len(planned)
    BY <1>2, <1>6
  <2>2. planned[Current - 1] \in Int /\ planned[Current - 1] < planned[Current]
        /\ origin < planned[Current - 1]
    BY <1>1, <1>2, <2>1 DEF Batches
  <2>. QED  BY <1>2, <1>3, <1>4, <1>6, <2>2 DEF BatchStart
<1>. QED  BY <1>5, <1>6

\* The offsets that the batch under way reads are in the topic, and finitely many.
LEMMA OffsetsInTopic ==
    ASSUME TypeOK, Batches, Current <= Len(planned)
    PROVE  /\ Span(Current) \subseteq 1..Len(topic) /\ IsFiniteSet(Span(Current))
           /\ Span(Current) \subseteq origin + 1 .. planned[Current]
           /\ Offsets(Current) \subseteq Span(Current) /\ IsFiniteSet(Offsets(Current))
           /\ \A i \in OfKind(Current, "reading") : topic[i] \in Reading
<1>1. /\ origin \in Nat /\ BatchStart(Current) \in Int /\ planned[Current] \in Int
      /\ origin <= BatchStart(Current) /\ planned[Current] <= Len(topic)
  BY CurrentBatch
<1>2. Len(topic) \in Nat /\ \A i \in 1..Len(topic) : topic[i] \in Message
  BY DEF TypeOK
<1>3. /\ Span(Current) \subseteq 1..Len(topic)
      /\ Span(Current) \subseteq origin + 1 .. planned[Current]
      /\ Offsets(Current) \subseteq Span(Current)
  BY <1>1, <1>2 DEF Offsets, Span
<1>4. IsFiniteSet(Span(Current)) /\ IsFiniteSet(Offsets(Current))
  <2>1. BatchStart(Current) + 1 \in Int
    BY <1>1
  <2>2. IsFiniteSet(Span(Current))
    BY <1>1, <2>1, FS_Interval DEF Span
  <2>. QED  BY <1>3, <2>2, FS_Subset
<1>5. \A i \in OfKind(Current, "reading") : topic[i] \in Reading
  BY <1>2, <1>3, MessageKinds DEF OfKind, IsReading
<1>. QED  BY <1>3, <1>4, <1>5

\* The readings of the batch, as a finite set.
BatchReadings == {topic[i] : i \in OfKind(Current, "reading")}

\* The readings of a batch, and those that are new to the table, are finitely many.
LEMMA ReadingsFinite ==
    ASSUME TypeOK, Batches, Current <= Len(planned)
    PROVE  /\ Cardinality(OfKind(Current, "reading")) \in Nat
           /\ BatchReadings \in SUBSET Reading /\ IsFiniteSet(BatchReadings)
           /\ Fresh(Current) \subseteq BatchReadings
           /\ Cardinality(Fresh(Current)) \in Nat
<1>1. IsFiniteSet(OfKind(Current, "reading"))
  BY OffsetsInTopic, FS_Subset DEF OfKind
<1>2. IsFiniteSet(BatchReadings)
  BY <1>1, FiniteRange DEF BatchReadings
<1>3. BatchReadings \in SUBSET Reading
  BY OffsetsInTopic DEF BatchReadings
<1>4. Fresh(Current) \subseteq BatchReadings
  BY DEF Fresh, BatchReadings
<1>5. Cardinality(Fresh(Current)) \in Nat
  BY <1>2, <1>4, FS_Subset, FS_CardinalityType
<1>. QED  BY <1>1, <1>2, <1>3, <1>4, <1>5, FS_CardinalityType

\* After the upsert every reading of the batch has a row: it had one, or the
\* first reading of the batch with its key is inserted.
LEMMA UpsertCovers ==
    ASSUME TypeOK, Batches, Current <= Len(planned), NEW i \in OfKind(Current, "reading")
    PROVE  \E r \in Upsert(Current) : Key(r) = Key(topic[i])
<1>1. CASE \E r \in rows : Key(r) = Key(topic[i])
  BY <1>1 DEF Upsert
<1>2. CASE \A r \in rows : Key(r) # Key(topic[i])
  <2>. DEFINE same == {j \in OfKind(Current, "reading") : Key(topic[j]) = Key(topic[i])}
  <2>1. same \in SUBSET Nat /\ same # {}
    BY OffsetsInTopic DEF OfKind
  <2>2. PICK m \in same : \A j \in same : m <= j
    <3>. HIDE DEF same
    <3>. QED  BY <2>1, LeastNumber
  <2>3. \A j \in OfKind(Current, "reading") : j < m => Key(topic[j]) # Key(topic[m])
    BY <2>1, <2>2
  <2>4. topic[m] \in Fresh(Current)
    BY <1>2, <2>2, <2>3 DEF Fresh
  <2>. QED  BY <2>2, <2>4 DEF Upsert
<1>. QED  BY <1>1, <1>2

-----------------------------------------------------------------------------
(* Types *)

\* The stream starts with the right types.
LEMMA InitTypeOK == Init => TypeOK
BY StreamAssumption DEF Init, TypeOK, Idle, Job

\* lastSeen after an insert of some readings.
LEMMA SeenType ==
    ASSUME TypeOK, NEW readings \in SUBSET Reading, IsFiniteSet(readings)
    PROVE  [who \in DOMAIN lastSeen |-> Seen(who, readings)]
               \in [Sensors \union {Station[s] : s \in Sensors} -> Nat \union {-1}]
<1>1. DOMAIN lastSeen = Sensors \union {Station[s] : s \in Sensors}
  BY DEF TypeOK
<1>2. \A who \in DOMAIN lastSeen : Seen(who, readings) \in Nat \union {-1}
  <2>. TAKE who \in DOMAIN lastSeen
  <2>1. lastSeen[who] \in Nat \union {-1}
    BY DEF TypeOK
  <2>. QED  BY <2>1, SeenCovers
<1>. QED  BY <1>1, <1>2

\* A notification of the latest readings of a batch has the type of one.
LEMMA LatestType ==
    ASSUME TypeOK, Batches, Current <= Len(planned)
    PROVE  [batch |-> Current, latest |-> Latest(Current)] \in [batch: Nat, latest: SUBSET Reading]
<1>1. Current \in Nat
  BY DEF TypeOK, Current
<1>2. Latest(Current) \subseteq Reading
  BY OffsetsInTopic DEF Latest
<1>. QED  BY <1>1, <1>2

\* A row of pipeline_runs, of a batch that ended or failed, has the type of one.
LEMMA RunType ==
    ASSUME TypeOK, Batches
    PROVE  /\ FailedRun \in Run /\ Claimed(FailedRun) = 0
           /\ Current <= Len(planned) =>
                 FinishedRun \in Run /\ Claimed(FinishedRun) <= job.written
<1>1. Current \in Nat /\ job.written \in Nat
  BY DEF TypeOK, Current, Job
<1>2. Status(Current) \in {"success", "partial", "failed"}
  BY DEF Status
<1>3. FailedRun \in Run /\ Claimed(FailedRun) = 0
  BY <1>1 DEF Run, FailedRun, Claimed
<1>4. ASSUME Current <= Len(planned)
      PROVE  FinishedRun \in Run /\ Claimed(FinishedRun) <= job.written
  <2>. DEFINE processed == Cardinality(OfKind(Current, "reading"))
              duplicates == IF processed > job.written THEN processed - job.written ELSE 0
  <2>1. processed \in Nat
    BY <1>4, ReadingsFinite
  <2>2. FinishedRun = [batch |-> Current, status |-> Status(Current),
                       processed |-> processed, duplicates |-> duplicates]
    BY DEF FinishedRun
  <2>. HIDE DEF processed
  <2>3. duplicates \in Nat /\ processed - duplicates <= job.written
    BY <1>1, <2>1
  <2>. HIDE DEF duplicates
  <2>. QED  BY <1>1, <1>2, <2>1, <2>2, <2>3 DEF Run, Claimed
<1>. QED  BY <1>3, <1>4

\* A job that only goes on has its type.
LEMMA JobType ==
    ASSUME TypeOK, NEW pc \in {"down", "waiting", "running", "written", "notified", "recorded"}
    PROVE  [job EXCEPT !.pc = pc] \in Job /\ Idle \in Job
BY DEF TypeOK, Job, Idle

\* One case for every action of the stream.
LEMMA TypeStep ==
    ASSUME TypeOK, Batches, [Next]_vars
    PROVE  TypeOK'
<1>. USE DEF TypeOK, checkpoint, database, kafka
<1>1. CASE \E m \in Message : Publish(m)
  <2>1. PICK m \in Message : Publish(m)
    BY <1>1
  <2>2. topic' \in Seq(Message)
    BY <2>1, AppendProperties DEF Publish
  <2>3. skipped' \subseteq 1..Len(topic')
    BY <2>1, AppendProperties DEF Publish
  <2>. QED  BY <2>1, <2>2, <2>3 DEF Publish
<1>2. CASE \E m \in Reading : WriteElsewhere(m)
  <2>1. PICK m \in Reading : WriteElsewhere(m)
    BY <1>2
  <2>2. lastSeen' \in [Sensors \union {Station[s] : s \in Sensors} -> Nat \union {-1}]
    <3>1. {m} \in SUBSET Reading /\ IsFiniteSet({m})
      BY FS_Singleton
    <3>. QED  BY <2>1, <3>1, SeenType DEF WriteElsewhere
  <2>. QED  BY <2>1, <2>2 DEF WriteElsewhere
<1>3. CASE StartQuery
  <2>1. job' \in Job
    BY <1>3, JobType DEF StartQuery
  <2>2. origin' \in Int /\ stored' \in Int
    BY <1>3 DEF StartQuery
  <2>. QED  BY <1>3, <2>1, <2>2 DEF StartQuery
<1>4. CASE PlanBatch
  <2>1. LastPlanned \in Int
    BY DEF LastPlanned
  <2>. DEFINE last == IF LastPlanned + MaxBatch <= Len(topic) THEN LastPlanned + MaxBatch
                      ELSE Len(topic)
  <2>2. last \in Int
    BY <2>1, StreamAssumption
  <2>3. planned' = Append(planned, last) /\ committed = Len(planned)
    BY <1>4 DEF PlanBatch
  <2>. HIDE DEF last
  <2>4. planned' \in Seq(Int) /\ Len(planned') = Len(planned) + 1
    BY <2>2, <2>3, AppendProperties
  <2>. QED  BY <1>4, <2>3, <2>4 DEF PlanBatch
<1>5. CASE BeginBatch
  <2>1. Current <= Len(planned)
    BY <1>5 DEF BeginBatch, Current
  <2>2. skipped' \subseteq skipped \union Span(Current)
    BY <1>5, <2>1, CurrentBatch DEF BeginBatch, Span
  <2>3. skipped' \subseteq 1..Len(topic)
    BY <2>1, <2>2, OffsetsInTopic
  <2>. QED  BY <1>5, <2>3, JobType DEF BeginBatch
<1>6. CASE WriteBatch
  <2>1. Current <= Len(planned)
    BY <1>6 DEF WriteBatch, Batches
  <2>2. rows' \subseteq Reading /\ inserted' \in Nat
    BY <1>6, <2>1, ReadingsFinite DEF WriteBatch, Upsert
  <2>3. lastSeen' \in [Sensors \union {Station[s] : s \in Sensors} -> Nat \union {-1}]
    <3>1. lastSeen' = [who \in DOMAIN lastSeen |-> Seen(who, BatchReadings)]
      BY <1>6 DEF WriteBatch, BatchReadings
    <3>. QED  BY <2>1, <3>1, ReadingsFinite, SeenType
  <2>4. job' \in Job
    BY <1>6, <2>1, ReadingsFinite DEF WriteBatch, RowCount, Job
  <2>5. stored' \in Int
    BY <1>6, <2>1, CurrentBatch DEF WriteBatch
  <2>. QED  BY <1>6, <2>2, <2>3, <2>4, <2>5 DEF WriteBatch
<1>7. CASE Notify
  <2>1. Current <= Len(planned)
    BY <1>7 DEF Notify, Batches
  <2>2. summaries' \subseteq [batch: Nat, latest: SUBSET Reading]
    <3>. DEFINE summary == [batch |-> Current, latest |-> Latest(Current)]
    <3>1. summary \in [batch: Nat, latest: SUBSET Reading]
      BY <2>1, LatestType
    <3>2. summaries' \in {summaries, summaries \union {summary}}
      BY <1>7 DEF Notify
    <3>. HIDE DEF summary
    <3>. QED  BY <3>1, <3>2
  <2>3. deadLetters' \subseteq Nat
    <3>1. OfKind(Current, "malformed") \subseteq Nat
      BY <2>1, OffsetsInTopic DEF OfKind
    <3>2. deadLetters' \subseteq deadLetters \union OfKind(Current, "malformed")
      BY <1>7 DEF Notify
    <3>. QED  BY <3>1, <3>2
  <2>4. faults' \in Nat /\ job' \in Job
    BY <1>7, JobType DEF Notify
  <2>. QED  BY <1>7, <2>2, <2>3, <2>4 DEF Notify
<1>8. CASE RecordRun
  <2>1. runs' \in Seq(Run)
    <3>1. Current <= Len(planned)
      BY <1>8 DEF RecordRun, Batches
    <3>. QED  BY <1>8, <3>1, RunType, AppendProperties DEF RecordRun
  <2>2. job' \in Job
    BY <1>8, JobType DEF RecordRun
  <2>. QED  BY <1>8, <2>1, <2>2 DEF RecordRun
<1>9. CASE CommitBatch
  <2>1. committed' \in 0..Len(planned)
    <3>1. Current <= Len(planned)
      BY <1>9 DEF CommitBatch, Batches
    <3>. QED  BY <1>9, <3>1 DEF CommitBatch, Current
  <2>2. job' \in Job
    BY <1>9 DEF CommitBatch, Job
  <2>. QED  BY <1>9, <2>1, <2>2 DEF CommitBatch
<1>10. CASE RefuseBatch
  <2>1. runs' \in Seq(Run)
    <3>1. Append(runs, FailedRun) \in Seq(Run)
      BY RunType, AppendProperties
    <3>. QED  BY <1>10, <3>1 DEF RefuseBatch
  <2>. QED  BY <1>10, <2>1, JobType DEF RefuseBatch
<1>11. CASE FailBatch
  <2>1. runs' \in Seq(Run)
    <3>1. Append(runs, FailedRun) \in Seq(Run)
      BY RunType, AppendProperties
    <3>. QED  BY <1>11, <3>1 DEF FailBatch
  <2>2. faults' \in Nat
    BY <1>11 DEF FailBatch
  <2>. QED  BY <1>11, <2>1, <2>2, JobType DEF FailBatch
<1>12. CASE Crash
  <2>1. faults' \in Nat
    BY <1>12 DEF Crash
  <2>. QED  BY <1>12, <2>1, JobType DEF Crash
<1>13. CASE UNCHANGED vars
  BY <1>13 DEF vars
<1>. QED
  BY <1>1, <1>2, <1>3, <1>4, <1>5, <1>6, <1>7, <1>8, <1>9, <1>10, <1>11, <1>12, <1>13
     DEF Next, Advance

-----------------------------------------------------------------------------
(* Spark's logs and the process *)

\* No batch is planned before the first trigger.
LEMMA InitBatches == Init => Batches
BY DEF Init, Batches, Current, BatchStart, Idle

\* What a step leaves alone, if it neither starts the query, nor plans, writes or
\* commits a batch: then only the place of the process changes.
LEMMA SameBatches ==
    ASSUME TypeOK, Batches, UNCHANGED <<topic, origin, planned, committed, stored>>,
           \/ job'.pc = "down"
           \/ Current <= Len(planned) /\ job'.pc = "running"
           \/ job.pc \in {"written", "notified"} /\ job'.pc \in {"notified", "recorded"}
           \/ UNCHANGED job
    PROVE  Batches'
<1>1. BatchStart(Current)' = BatchStart(Current) /\ Current' = Current
  BY DEF BatchStart, Current
<1>2. /\ job'.pc \notin {"down", "waiting"} => Current <= Len(planned)
      /\ job'.pc \in {"written", "notified", "recorded"} => stored = planned[Current]
      /\ origin = -1 => job'.pc = "down"
  <2>1. origin = -1 => planned = <<>> /\ job.pc = "down" /\ ~(Current <= Len(planned))
    BY DEF Batches, TypeOK, Current
  <2>. QED  BY <2>1 DEF Batches
<1>. QED  BY <1>1, <1>2 DEF Batches

\* Offsets are planned in order and never beyond the topic, and a commit follows its plan.
LEMMA BatchesStep ==
    ASSUME TypeOK, Batches, [Next]_vars
    PROVE  Batches'
<1>. USE DEF checkpoint, database, kafka
<1>1. /\ Len(planned) \in Nat /\ Len(topic) \in Nat /\ committed \in Nat /\ origin \in Int
      /\ \A b \in 1..Len(planned) : planned[b] \in Int
  BY DEF TypeOK
<1>2. CASE \E m \in Message : Publish(m)
  <2>1. PICK m \in Message : Publish(m)
    BY <1>2
  <2>2. Len(topic') = Len(topic) + 1
    BY <2>1, AppendProperties DEF Publish, TypeOK
  <2>3. UNCHANGED <<origin, planned, committed, stored, job>>
    BY <2>1 DEF Publish
  <2>4. BatchStart(Current)' = BatchStart(Current) /\ Current' = Current
    BY <2>3 DEF BatchStart, Current
  <2>. QED  BY <1>1, <2>2, <2>3, <2>4 DEF Batches
<1>3. CASE StartQuery
  <2>1. CASE origin # -1
    <3>1. UNCHANGED <<topic, origin, planned, committed, stored>>
      BY <1>3, <2>1 DEF StartQuery
    <3>2. job.pc = "down" /\ job'.pc = "waiting"
      BY <1>3 DEF StartQuery, TypeOK, Job
    <3>3. BatchStart(Current)' = BatchStart(Current) /\ Current' = Current
      BY <3>1 DEF BatchStart, Current
    <3>. QED  BY <2>1, <3>1, <3>2, <3>3 DEF Batches
  <2>2. CASE origin = -1
    <3>1. planned = <<>> /\ committed = 0
      BY <1>1, <2>2 DEF Batches, TypeOK
    <3>2. /\ origin' = Len(topic) /\ stored' = Len(topic) /\ job'.pc = "waiting"
          /\ UNCHANGED <<topic, planned, committed>>
      BY <1>3, <2>2 DEF StartQuery, TypeOK, Job
    <3>3. Current' = 1 /\ BatchStart(Current)' = Len(topic) /\ Len(planned) = 0
      BY <3>1, <3>2 DEF Current, BatchStart
    <3>4. Len(planned') = 0 /\ planned' = <<>> /\ topic' = topic
      BY <3>1, <3>2
    <3>. QED  BY <1>1, <3>2, <3>3, <3>4 DEF Batches
  <2>. QED  BY <2>1, <2>2
<1>4. CASE PlanBatch
  <2>. DEFINE last == IF LastPlanned + MaxBatch <= Len(topic) THEN LastPlanned + MaxBatch
                      ELSE Len(topic)
  <2>1. /\ job.pc = "waiting" /\ committed = Len(planned) /\ LastPlanned < Len(topic)
        /\ planned' = Append(planned, last)
        /\ UNCHANGED <<topic, origin, committed, stored, job>>
    BY <1>4 DEF PlanBatch
  <2>2. LastPlanned \in Int /\ origin # -1
    BY <1>1, <2>1 DEF LastPlanned, Batches
  <2>3. last \in Int /\ LastPlanned < last /\ last <= Len(topic)
    BY <1>1, <2>1, <2>2, StreamAssumption
  <2>4. LastPlanned = BatchStart(Current) /\ Current = Len(planned) + 1
    BY <1>1, <2>1 DEF LastPlanned, BatchStart, Current
  <2>. HIDE DEF last
  <2>5. /\ Len(planned') = Len(planned) + 1 /\ planned'[Len(planned) + 1] = last
        /\ \A b \in 1..Len(planned) : planned'[b] = planned[b]
    BY <2>1, <2>3, AppendProperties DEF TypeOK
  <2>6. \A b \in 1..Len(planned) : planned[b] <= LastPlanned
    <3>. SUFFICES ASSUME NEW b \in 1..Len(planned) PROVE planned[b] <= LastPlanned
      OBVIOUS
    <3>1. LastPlanned = planned[Len(planned)] /\ Len(planned) \in 1..Len(planned)
      BY <1>1 DEF LastPlanned
    <3>2. b < Len(planned) => planned[b] < planned[Len(planned)]
      BY <3>1 DEF Batches
    <3>. QED  BY <1>1, <3>1, <3>2
  <2>7. origin <= LastPlanned
    <3>1. planned # <<>> => Len(planned) \in 1..Len(planned)
      BY <1>1
    <3>. QED  BY <1>1, <3>1 DEF LastPlanned, Batches
  <2>8. \A b \in 1..Len(planned') : origin < planned'[b] /\ planned'[b] <= Len(topic)
    BY <1>1, <2>2, <2>3, <2>5, <2>7 DEF Batches
  <2>9. \A a, b \in 1..Len(planned') : a < b => planned'[a] < planned'[b]
    <3>. SUFFICES ASSUME NEW a \in 1..Len(planned'), NEW b \in 1..Len(planned'), a < b
                  PROVE  planned'[a] < planned'[b]
      OBVIOUS
    <3>1. a \in 1..Len(planned)
      BY <1>1, <2>5
    <3>2. CASE b \in 1..Len(planned)
      BY <2>5, <3>1, <3>2 DEF Batches
    <3>3. CASE b = Len(planned) + 1
      BY <1>1, <2>2, <2>3, <2>5, <2>6, <3>1, <3>3
    <3>. QED  BY <1>1, <2>5, <3>2, <3>3
  <2>10. Current' = Current /\ stored' = BatchStart(Current)'
    <3>1. stored = BatchStart(Current)
      BY <1>1, <2>4 DEF Batches
    <3>2. Current' = Current
      BY <2>1 DEF Current
    <3>3. BatchStart(Current)' = BatchStart(Current)
      <4>1. CASE Current = 1
        BY <2>1, <3>2, <4>1 DEF BatchStart
      <4>2. CASE Current # 1
        <5>1. Current - 1 \in 1..Len(planned)
          BY <1>1, <2>4, <4>2
        <5>. QED  BY <2>5, <3>2, <4>2, <5>1 DEF BatchStart
      <4>. QED  BY <4>1, <4>2
    <3>. QED  BY <2>1, <3>1, <3>2, <3>3
  <2>11. Len(planned') <= Current'
    BY <1>1, <2>4, <2>5, <2>10
  <2>12. origin' \in -1..Len(topic')
    BY <2>1 DEF Batches
  <2>. QED  BY <2>1, <2>2, <2>8, <2>9, <2>10, <2>11, <2>12 DEF Batches
<1>5. CASE WriteBatch
  <2>1. job.pc = "running" /\ Current <= Len(planned)
    BY <1>5 DEF WriteBatch, Batches
  <2>2. UNCHANGED <<topic, origin, planned, committed>> /\ job'.pc = "written"
    BY <1>5 DEF WriteBatch
  <2>3. stored' = planned[Current]
    <3>1. BatchStart(Current) < planned[Current]
      BY <2>1, CurrentBatch
    <3>. QED  BY <1>5, <2>1, <3>1, CurrentBatch DEF WriteBatch, Batches
  <2>4. Current' = Current
    BY <2>2 DEF Current
  <2>5. origin # -1
    BY <2>1, CurrentBatch
  <2>. QED  BY <2>1, <2>2, <2>3, <2>4, <2>5 DEF Batches
<1>6. CASE CommitBatch
  <2>1. job.pc = "recorded" /\ Current <= Len(planned) /\ stored = planned[Current]
    BY <1>6 DEF CommitBatch, Batches
  <2>2. UNCHANGED <<topic, origin, planned, stored>> /\ job'.pc = "waiting"
    BY <1>6 DEF CommitBatch
  <2>3. Current' = Current + 1 /\ Current \in Nat \ {0}
    BY <1>1, <1>6 DEF CommitBatch, Current
  <2>4. BatchStart(Current)' = planned[Current]
    BY <2>2, <2>3 DEF BatchStart
  <2>5. origin # -1
    BY <2>1, CurrentBatch
  <2>6. Len(planned) <= Current'
    BY <1>1, <2>3 DEF Batches
  <2>. QED  BY <2>1, <2>2, <2>4, <2>5, <2>6 DEF Batches
<1>7. CASE \/ BeginBatch \/ Notify \/ RecordRun \/ RefuseBatch \/ FailBatch \/ Crash
           \/ UNCHANGED vars \/ \E m \in Reading : WriteElsewhere(m)
  <2>1. UNCHANGED <<topic, origin, planned, committed, stored>>
    BY <1>7 DEF BeginBatch, Notify, RecordRun, RefuseBatch, FailBatch, Crash, vars, WriteElsewhere
  <2>2. \/ job'.pc = "down"
        \/ Current <= Len(planned) /\ job'.pc = "running"
        \/ job.pc \in {"written", "notified"} /\ job'.pc \in {"notified", "recorded"}
        \/ UNCHANGED job
    <3>1. CASE BeginBatch
      BY <1>1, <3>1 DEF BeginBatch, TypeOK, Job, Current
    <3>2. CASE Notify \/ RecordRun
      BY <3>2 DEF Notify, RecordRun, TypeOK, Job
    <3>3. CASE RefuseBatch \/ FailBatch \/ Crash
      BY <3>3 DEF RefuseBatch, FailBatch, Crash, Idle
    <3>4. CASE UNCHANGED vars \/ \E m \in Reading : WriteElsewhere(m)
      BY <3>4 DEF vars, WriteElsewhere
    <3>. QED  BY <1>7, <3>1, <3>2, <3>3, <3>4
  <2>. QED  BY <2>1, <2>2, SameBatches
<1>. QED
  BY <1>2, <1>3, <1>4, <1>5, <1>6, <1>7 DEF Next, Advance

\* While the logs stay, so do the bounds of the batch under way.
LEMMA SameSpan ==
    ASSUME UNCHANGED <<origin, planned, committed>>
    PROVE  /\ Current' = Current /\ BatchStart(Current)' = BatchStart(Current)
           /\ LastBatchEnd' = LastBatchEnd
BY DEF Current, BatchStart, LastBatchEnd

\* A batch skips messages from its beginning on.
LEMMA SkipStep ==
    ASSUME TypeOK, Batches, OldestSkipped, [Next]_vars
    PROVE  OldestSkipped'
<1>. USE DEF checkpoint, database, kafka
<1>1. /\ Len(planned) \in Nat /\ committed \in Nat /\ origin \in Int
      /\ skipped \subseteq Int /\ \A b \in 1..Len(planned) : planned[b] \in Int
  BY DEF TypeOK
<1>2. CASE StartQuery
  <2>1. CASE origin # -1
    BY <1>2, <2>1, SameSpan DEF StartQuery, OldestSkipped
  <2>2. CASE origin = -1
    <3>1. LastBatchEnd = -1
      BY <1>1, <2>2 DEF Batches, TypeOK, LastBatchEnd, Current, BatchStart
    <3>2. skipped = {}
      BY <3>1 DEF OldestSkipped, TypeOK
    <3>. QED  BY <1>2, <3>2 DEF StartQuery, OldestSkipped
  <2>. QED  BY <2>1, <2>2
<1>3. CASE PlanBatch
  <2>1. /\ committed = Len(planned) /\ UNCHANGED <<origin, committed, skipped>>
        /\ Len(planned') = Len(planned) + 1
        /\ \A b \in 1..Len(planned) : planned'[b] = planned[b]
    <3>. DEFINE last == IF LastPlanned + MaxBatch <= Len(topic) THEN LastPlanned + MaxBatch
                        ELSE Len(topic)
    <3>1. /\ planned' = Append(planned, last) /\ committed = Len(planned)
          /\ UNCHANGED <<origin, committed, skipped>>
      BY <1>3 DEF PlanBatch
    <3>2. last \in Int
      BY StreamAssumption DEF TypeOK, LastPlanned
    <3>. HIDE DEF last
    <3>. QED  BY <3>1, <3>2, AppendProperties DEF TypeOK
  <2>2. Current' = Current /\ Current = Len(planned) + 1 /\ Current = Len(planned')
    BY <2>1 DEF Current
  <2>3. BatchStart(Current)' = BatchStart(Current)
    BY <1>1, <2>1, <2>2 DEF BatchStart
  <2>4. LastBatchEnd = BatchStart(Current) /\ LastBatchEnd' = planned'[Current]
    BY <1>1, <2>2 DEF LastBatchEnd
  <2>5. /\ BatchStart(Current)' \in Int /\ planned'[Current] \in Int
        /\ BatchStart(Current)' < planned'[Current]
    <3>1. planned' \in Seq(Int) /\ origin' \in Int /\ Batches'
      BY TypeStep, BatchesStep DEF TypeOK
    <3>2. Current \in 1..Len(planned') /\ planned'[Current] \in Int
      BY <1>1, <2>1, <2>2, <3>1
    <3>3. CASE Current = 1
      BY <2>2, <3>1, <3>2, <3>3 DEF Batches, BatchStart
    <3>4. CASE Current # 1
      <4>1. Current - 1 \in 1..Len(planned') /\ planned'[Current - 1] \in Int
        BY <3>1, <3>2, <3>4
      <4>2. planned'[Current - 1] < planned'[Current]
        BY <3>1, <3>2, <4>1 DEF Batches
      <4>. QED  BY <2>2, <3>2, <3>4, <4>1, <4>2 DEF BatchStart
    <3>. QED  BY <3>3, <3>4
  <2>. QED  BY <1>1, <2>1, <2>2, <2>3, <2>4, <2>5 DEF OldestSkipped
<1>4. CASE BeginBatch
  <2>1. Current <= Len(planned)
    BY <1>1, <1>4 DEF BeginBatch, Current
  <2>2. PICK n \in BatchStart(Current)..planned[Current] :
           skipped' = skipped \union (BatchStart(Current) + 1 .. n)
    BY <1>4 DEF BeginBatch
  <2>3. /\ BatchStart(Current)' = BatchStart(Current) /\ LastBatchEnd' = LastBatchEnd
        /\ LastBatchEnd = planned[Current]
    BY <1>4, <2>1, SameSpan DEF BeginBatch, LastBatchEnd
  <2>4. BatchStart(Current) \in Int /\ planned[Current] \in Int
    BY <2>1, CurrentBatch
  <2>. QED  BY <1>1, <2>2, <2>3, <2>4 DEF OldestSkipped
<1>5. CASE CommitBatch
  <2>1. Current <= Len(planned)
    BY <1>5 DEF CommitBatch, Batches
  <2>2. Current' = Current + 1 /\ UNCHANGED <<planned, skipped>> /\ Current \in Nat
    BY <1>1, <1>5 DEF CommitBatch, Current
  <2>3. BatchStart(Current)' = planned[Current] /\ LastBatchEnd = planned[Current]
    BY <1>1, <2>1, <2>2 DEF BatchStart, LastBatchEnd, Current
  <2>4. LastBatchEnd' = planned[Current] /\ planned[Current] \in Int
    BY <1>1, <2>1, <2>2, <2>3, CurrentBatch DEF LastBatchEnd
  <2>. QED  BY <1>1, <2>2, <2>3, <2>4 DEF OldestSkipped
<1>6. CASE \/ WriteBatch \/ Notify \/ RecordRun \/ RefuseBatch \/ FailBatch \/ Crash
           \/ UNCHANGED vars \/ \E m \in Reading : WriteElsewhere(m)
           \/ \E m \in Message : Publish(m)
  <2>1. UNCHANGED <<origin, planned, committed, skipped>>
    BY <1>6 DEF WriteBatch, Notify, RecordRun, RefuseBatch, FailBatch, Crash, vars,
       WriteElsewhere, Publish
  <2>. QED  BY <2>1, SameSpan DEF OldestSkipped
<1>. QED
  BY <1>2, <1>3, <1>4, <1>5, <1>6 DEF Next, Advance

-----------------------------------------------------------------------------
(* The readings *)

\* rows only grows, what is on the topic stays, and what has expired is gone.
LEMMA Growth ==
    ASSUME TypeOK, [Next]_vars
    PROVE  /\ rows \subseteq rows' /\ skipped \subseteq skipped'
           /\ \A i \in 1..Len(topic) : i \in 1..Len(topic') /\ topic'[i] = topic[i]
<1>. USE DEF checkpoint, database, kafka
<1>1. CASE \E m \in Message : Publish(m)
  BY <1>1, AppendProperties DEF Publish, TypeOK
<1>2. CASE \E m \in Reading : WriteElsewhere(m)
  BY <1>2 DEF WriteElsewhere
<1>3. CASE WriteBatch
  BY <1>3 DEF WriteBatch, Upsert
<1>4. CASE \/ StartQuery \/ PlanBatch \/ BeginBatch \/ Notify \/ RecordRun \/ CommitBatch
           \/ RefuseBatch \/ FailBatch \/ Crash \/ UNCHANGED vars
  BY <1>4 DEF StartQuery, PlanBatch, BeginBatch, Notify, RecordRun, CommitBatch, RefuseBatch,
     FailBatch, Crash, vars
<1>. QED  BY <1>1, <1>2, <1>3, <1>4 DEF Next, Advance

\* The offset up to which batches were written moves only when the query first
\* starts and when a batch is written.
LEMMA StoredMoves ==
    ASSUME [Next]_vars, ~StartQuery, ~WriteBatch
    PROVE  UNCHANGED <<origin, stored>>
BY DEF Next, Advance, vars, checkpoint, database, kafka, Publish, WriteElsewhere, PlanBatch,
   BeginBatch, Notify, RecordRun, CommitBatch, RefuseBatch, FailBatch, Crash

\* What is stored lies in the topic.
LEMMA StoredInTopic ==
    ASSUME TypeOK, Batches
    PROVE  origin + 1 .. stored \subseteq 1..Len(topic)
<1>1. CASE origin = -1
  BY <1>1 DEF Batches, TypeOK, BatchStart, Current
<1>2. CASE origin # -1
  <2>1. /\ Len(planned) \in Nat /\ Len(topic) \in Nat /\ committed \in Nat /\ origin \in Nat
        /\ \A b \in 1..Len(planned) : planned[b] \in Int /\ planned[b] <= Len(topic)
    BY <1>2 DEF TypeOK, Batches
  <2>2. committed <= Len(planned)
    BY DEF TypeOK
  <2>3. BatchStart(Current) \in Int /\ BatchStart(Current) <= Len(topic)
    BY <2>1, <2>2 DEF BatchStart, Current, Batches
  <2>4. stored <= Len(topic)
    BY <2>1, <2>3 DEF Batches, Current
  <2>. QED  BY <2>1, <2>4 DEF TypeOK
<1>. QED  BY <1>1, <1>2

\* A batch that got past its insert keeps its rows in the table.
LEMMA AppliedStep ==
    ASSUME TypeOK, Batches, AppliedIsStored, [Next]_vars
    PROVE  AppliedIsStored'
<1>1. \A i \in origin + 1 .. stored :
         IsReading(topic'[i]) => i \in skipped' \/ \E r \in rows' : Key(r) = Key(topic'[i])
  <2>. TAKE i \in origin + 1 .. stored
  <2>1. topic'[i] = topic[i] /\ rows \subseteq rows' /\ skipped \subseteq skipped'
    BY StoredInTopic, Growth
  <2>. QED  BY <2>1 DEF AppliedIsStored
<1>2. CASE ~StartQuery /\ ~WriteBatch
  BY <1>1, <1>2, StoredMoves DEF AppliedIsStored
<1>3. CASE StartQuery
  <2>1. CASE origin = -1
    <3>1. origin' = Len(topic) /\ stored' = Len(topic) /\ Len(topic) \in Nat
      BY <1>3, <2>1 DEF StartQuery, TypeOK
    <3>2. \A i \in Int : ~(i \in origin' + 1 .. stored')
      BY <3>1
    <3>. QED  BY <3>1, <3>2 DEF AppliedIsStored
  <2>2. CASE origin # -1
    <3>1. UNCHANGED <<origin, stored>>
      BY <1>3, <2>2 DEF StartQuery
    <3>. QED  BY <1>1, <3>1 DEF AppliedIsStored
  <2>. QED  BY <2>1, <2>2
<1>4. CASE WriteBatch
  <2>1. Current <= Len(planned)
    BY <1>4 DEF WriteBatch, Batches
  <2>2. UNCHANGED <<topic, origin, skipped>> /\ rows' = Upsert(Current)
    BY <1>4 DEF WriteBatch, checkpoint
  <2>3. stored' \in {stored, planned[Current]} /\ stored \in {BatchStart(Current), planned[Current]}
    BY <1>4 DEF WriteBatch, Batches
  <2>4. \A i \in origin + 1 .. planned[Current] :
           i \in Span(Current) \/ i \in origin + 1 .. BatchStart(Current)
    BY <2>1, CurrentBatch DEF Span
  <2>5. \A i \in origin + 1 .. BatchStart(Current) : i \in origin + 1 .. stored
    BY <2>1, <2>3, CurrentBatch DEF TypeOK
  <2>6. \A i \in origin + 1 .. stored' : i \in origin + 1 .. planned[Current]
    BY <2>1, <2>3, CurrentBatch DEF TypeOK
  <2>7. \A i \in Span(Current) :
           IsReading(topic[i]) => i \in skipped \/ \E r \in rows' : Key(r) = Key(topic[i])
    BY <2>1, <2>2, UpsertCovers DEF OfKind, IsReading, Offsets
  <2>. QED  BY <1>1, <2>2, <2>4, <2>5, <2>6, <2>7 DEF AppliedIsStored
<1>. QED  BY <1>2, <1>3, <1>4

\* A notification goes out with the rows in the table.
LEMMA AnnouncedStep ==
    ASSUME TypeOK, Batches, AppliedIsStored, AnnouncedIsStored, [Next]_vars
    PROVE  AnnouncedIsStored'
<1>1. CASE Notify
  <2>1. Current <= Len(planned) /\ stored = planned[Current] /\ UNCHANGED rows
    BY <1>1 DEF Notify, Batches, database
  <2>2. \A m \in Latest(Current) : \E r \in rows : Key(r) = Key(m)
    <3>. TAKE m \in Latest(Current)
    <3>1. PICK i \in OfKind(Current, "reading") : m = topic[i]
      BY DEF Latest
    <3>2. i \in origin + 1 .. stored /\ IsReading(topic[i]) /\ i \notin skipped
      BY <2>1, OffsetsInTopic DEF OfKind, Offsets, IsReading
    <3>. QED  BY <3>1, <3>2 DEF AppliedIsStored
  <2>3. \A s \in summaries' : s \in summaries \/ s.latest = Latest(Current)
    BY <1>1 DEF Notify
  <2>. QED  BY <2>1, <2>2, <2>3 DEF AnnouncedIsStored
<1>2. CASE ~Notify
  <2>1. UNCHANGED summaries
    BY <1>2 DEF Next, Advance, vars, checkpoint, database, kafka, Publish, WriteElsewhere,
       StartQuery, PlanBatch, BeginBatch, WriteBatch, RecordRun, CommitBatch, RefuseBatch,
       FailBatch, Crash
  <2>. QED  BY <2>1, Growth DEF AnnouncedIsStored
<1>. QED  BY <1>1, <1>2

\* An insert of readings of which some are new rows: no row is newer than what
\* the registry says of its sensor and station.
LEMMA RegistryAfterInsert ==
    ASSUME TypeOK, RegistryCoversRows, NEW readings \in SUBSET Reading, IsFiniteSet(readings),
           rows' \subseteq rows \union readings,
           lastSeen' = [who \in DOMAIN lastSeen |-> Seen(who, readings)]
    PROVE  RegistryCoversRows'
<1>. SUFFICES ASSUME NEW r \in rows', NEW who \in {r.sensor, Station[r.sensor]}
              PROVE  r.time <= lastSeen'[who]
  BY DEF RegistryCoversRows
<1>1. r \in Reading /\ r.time \in Nat /\ r.sensor \in Sensors
  BY MessageKinds DEF TypeOK
<1>2. who \in DOMAIN lastSeen /\ lastSeen[who] \in Nat \union {-1}
  BY <1>1 DEF TypeOK
<1>3. /\ Seen(who, readings) \in Nat \union {-1} /\ lastSeen[who] <= Seen(who, readings)
      /\ \A q \in readings :
            who \in {q.sensor, Station[q.sensor]} => q.time <= Seen(who, readings)
  BY <1>2, SeenCovers
<1>4. lastSeen'[who] = Seen(who, readings)
  BY <1>2
<1>5. CASE r \in readings
  BY <1>3, <1>4, <1>5
<1>6. CASE r \in rows
  <2>1. r.time <= lastSeen[who]
    BY <1>6 DEF RegistryCoversRows
  <2>. QED  BY <1>1, <1>2, <1>3, <1>4, <2>1
<1>. QED  BY <1>5, <1>6

\* Sensors are registered in the transaction that inserts their first rows.
LEMMA RegistryStep ==
    ASSUME TypeOK, Batches, RegistryCoversRows, [Next]_vars
    PROVE  RegistryCoversRows'
<1>1. CASE \E m \in Reading : WriteElsewhere(m)
  <2>1. PICK m \in Reading : WriteElsewhere(m)
    BY <1>1
  <2>2. {m} \in SUBSET Reading /\ IsFiniteSet({m})
    BY FS_Singleton
  <2>3. /\ rows' = rows \union {m}
        /\ lastSeen' = [who \in DOMAIN lastSeen |-> Seen(who, {m})]
    BY <2>1 DEF WriteElsewhere
  <2>. QED  BY <2>2, <2>3, RegistryAfterInsert
<1>2. CASE WriteBatch
  <2>1. Current <= Len(planned)
    BY <1>2 DEF WriteBatch, Batches
  <2>2. lastSeen' = [who \in DOMAIN lastSeen |-> Seen(who, BatchReadings)]
    BY <1>2 DEF WriteBatch, BatchReadings
  <2>3. rows' \subseteq rows \union BatchReadings
    BY <1>2, <2>1, ReadingsFinite DEF WriteBatch, Upsert
  <2>. QED  BY <2>1, <2>2, <2>3, ReadingsFinite, RegistryAfterInsert
<1>3. CASE ~WriteBatch /\ ~\E m \in Reading : WriteElsewhere(m)
  <2>1. UNCHANGED <<rows, lastSeen>>
    BY <1>3 DEF Next, Advance, vars, checkpoint, database, kafka, Publish, StartQuery, PlanBatch,
       BeginBatch, Notify, RecordRun, CommitBatch, RefuseBatch, FailBatch, Crash
  <2>. QED  BY <2>1 DEF RegistryCoversRows
<1>. QED  BY <1>1, <1>2, <1>3

\* A run claims no more rows than its batch inserted, and a batch repeated inserts none.
LEMMA ClaimsStep ==
    ASSUME TypeOK, Batches, ClaimsAreInserted, [Next]_vars
    PROVE  ClaimsAreInserted'
<1>. USE DEF checkpoint, database, kafka
<1>. DEFINE claim == IF job.pc \in {"written", "notified"} THEN job.written ELSE 0
<1>1. Total(runs) \in Int /\ inserted \in Nat /\ claim \in Nat
  BY RunType, TotalAppend DEF TypeOK, Job
<1>2. Total(Append(runs, FailedRun)) = Total(runs)
  BY <1>1, RunType, TotalAppend DEF TypeOK
<1>3. CASE WriteBatch
  <2>1. Current <= Len(planned) /\ Cardinality(Fresh(Current)) \in Nat
    BY <1>3, ReadingsFinite DEF WriteBatch, Batches
  <2>2. /\ inserted' = inserted + Cardinality(Fresh(Current)) /\ UNCHANGED runs
        /\ job'.pc = "written" /\ job'.written = Cardinality(Fresh(Current))
    BY <1>3 DEF WriteBatch, RowCount
  <2>3. Total(runs) <= inserted
    BY <1>1 DEF ClaimsAreInserted
  <2>. QED  BY <1>1, <2>1, <2>2, <2>3 DEF ClaimsAreInserted
<1>4. CASE RecordRun
  <2>1. /\ job.pc = "notified" /\ runs' = Append(runs, FinishedRun) /\ UNCHANGED inserted
        /\ job'.pc = "recorded"
    BY <1>4 DEF RecordRun, TypeOK, Job
  <2>2. FinishedRun \in Run /\ Claimed(FinishedRun) <= job.written
    BY <2>1, RunType DEF Batches
  <2>3. Total(runs') = Total(runs) + Claimed(FinishedRun) /\ Claimed(FinishedRun) \in Int
    BY <2>1, <2>2, TotalAppend DEF TypeOK, Claimed, Run
  <2>4. Total(runs) + job.written <= inserted /\ job.written \in Nat
    BY <2>1 DEF ClaimsAreInserted, TypeOK, Job
  <2>5. Total(runs') \in Int /\ Total(runs') <= inserted
    BY <1>1, <2>2, <2>3, <2>4
  <2>. QED  BY <2>1, <2>5 DEF ClaimsAreInserted
<1>5. CASE Notify
  <2>1. /\ job.pc = "written" /\ job'.pc = "notified" /\ job'.written = job.written
        /\ UNCHANGED <<runs, inserted>>
    BY <1>5 DEF Notify, TypeOK, Job
  <2>. QED  BY <2>1 DEF ClaimsAreInserted
<1>6. CASE RefuseBatch \/ FailBatch
  <2>1. /\ job.pc = "running" /\ job'.pc = "down" /\ UNCHANGED inserted
        /\ runs' \in {runs, Append(runs, FailedRun)}
    BY <1>6 DEF RefuseBatch, FailBatch, Idle
  <2>2. Total(runs') = Total(runs)
    BY <1>2, <2>1
  <2>. QED  BY <1>1, <2>1, <2>2 DEF ClaimsAreInserted
<1>7. CASE StartQuery \/ BeginBatch \/ CommitBatch \/ Crash
  <2>1. job'.pc \in {"down", "waiting", "running"} /\ UNCHANGED <<runs, inserted>>
    BY <1>7 DEF StartQuery, BeginBatch, CommitBatch, Crash, Idle, TypeOK, Job
  <2>. QED  BY <1>1, <2>1 DEF ClaimsAreInserted
<1>8. CASE \/ PlanBatch \/ UNCHANGED vars \/ \E m \in Message : Publish(m)
           \/ \E m \in Reading : WriteElsewhere(m)
  <2>1. UNCHANGED <<runs, inserted, job>>
    BY <1>8 DEF PlanBatch, vars, Publish, WriteElsewhere
  <2>. QED  BY <2>1 DEF ClaimsAreInserted
<1>. QED
  BY <1>3, <1>4, <1>5, <1>6, <1>7, <1>8 DEF Next, Advance

-----------------------------------------------------------------------------
(* The inductive invariant holds *)

\* The stream starts in the invariant.
LEMMA InitInv == Init => IInv
<1>. SUFFICES ASSUME Init PROVE IInv
  OBVIOUS
<1>1. OldestSkipped /\ AppliedIsStored /\ AnnouncedIsStored /\ RegistryCoversRows
  BY DEF Init, OldestSkipped, AppliedIsStored, AnnouncedIsStored, RegistryCoversRows
<1>2. ClaimsAreInserted
  BY TotalEmpty DEF Init, Idle, ClaimsAreInserted
<1>. QED  BY <1>1, <1>2, InitTypeOK, InitBatches DEF IInv

\* Every step keeps the parts of the invariant together: each needs the ones before it.
LEMMA StepInv == IInv /\ [Next]_vars => IInv'
BY TypeStep, BatchesStep, SkipStep, AppliedStep, AnnouncedStep, RegistryStep, ClaimsStep DEF IInv

\* The invariant holds from the start and through every step.
LEMMA Invariant == Spec => []IInv
BY InitInv, StepInv, PTL DEF Spec

\* The state of the topic, Spark, the database and Kafka stays within its types.
THEOREM TypeCorrect == Spec => []TypeOK
<1>1. IInv => TypeOK
  BY DEF IInv
<1>. QED  BY Invariant, <1>1, PTL

\* What a committed batch could still read is stored: Spark commits only what
\* foreach_batch returned from, and what lies before the current batch was written.
THEOREM NoReadingLost == Spec => []CommittedIsStored
<1>1. IInv => CommittedIsStored
  <2>. SUFFICES ASSUME IInv, NEW b \in 1..committed, NEW i \in Span(b), IsReading(topic[i])
                PROVE  HasRow(i) \/ i \in skipped
    BY DEF CommittedIsStored
  <2>1. /\ Len(planned) \in Nat /\ committed \in Nat /\ committed <= Len(planned)
        /\ origin \in Int /\ stored \in Int /\ \A k \in 1..Len(planned) : planned[k] \in Int
    BY DEF IInv, TypeOK
  <2>2. b \in 1..Len(planned)
    BY <2>1
  <2>3. origin <= BatchStart(b) /\ BatchStart(b) \in Int
    <3>1. CASE b = 1
      BY <2>1, <3>1 DEF BatchStart
    <3>2. CASE b # 1
      <4>1. b - 1 \in 1..Len(planned)
        BY <2>2, <3>2
      <4>. QED  BY <2>1, <3>2, <4>1 DEF BatchStart, IInv, Batches
    <3>. QED  BY <3>1, <3>2
  <2>4. planned[b] <= stored
    <3>1. Current # 1 /\ BatchStart(Current) = planned[committed] /\ committed \in 1..Len(planned)
      BY <2>1, <2>2 DEF Current, BatchStart
    <3>2. planned[b] <= planned[committed]
      BY <2>1, <2>2, <3>1 DEF IInv, Batches
    <3>3. Current <= Len(planned) => planned[committed] < planned[Current]
      BY <2>1, <3>1 DEF IInv, Batches, Current
    <3>. QED  BY <2>1, <2>2, <3>1, <3>2, <3>3 DEF IInv, Batches, Current
  <2>5. i \in origin + 1 .. stored
    BY <2>1, <2>2, <2>3, <2>4 DEF Span
  <2>6. i \in DOMAIN topic
    BY <2>5, StoredInTopic DEF IInv, TypeOK
  <2>. QED  BY <2>5, <2>6 DEF IInv, AppliedIsStored, HasRow
<1>. QED  BY Invariant, <1>1, PTL

\* No summary is published before the transaction of its readings.
THEOREM NothingAnnouncedEarly == Spec => []AnnouncedIsStored
<1>1. IInv => AnnouncedIsStored
  BY DEF IInv
<1>. QED  BY Invariant, <1>1, PTL

\* GREATEST keeps the registry at the newest row of each sensor and station,
\* whatever is written beside the stream.
THEOREM RegistryFollows == Spec => []RegistryCoversRows
<1>1. IInv => RegistryCoversRows
  BY DEF IInv
<1>. QED  BY Invariant, <1>1, PTL

\* A batch that is run again counts its readings again, and all of them as duplicates.
THEOREM NeverOvercounts == Spec => []RunsNeverOvercount
<1>1. IInv => RunsNeverOvercount
  <2>. SUFFICES ASSUME IInv PROVE RunsNeverOvercount
    OBVIOUS
  <2>1. Total(runs) \in Int /\ inserted \in Nat /\ job.written \in Nat
    BY RunType, TotalAppend DEF IInv, TypeOK, Job
  <2>. QED  BY <2>1 DEF IInv, ClaimsAreInserted, RunsNeverOvercount
<1>. QED  BY Invariant, <1>1, PTL

-----------------------------------------------------------------------------
(* The stream implements ReadingLog *)

\* The readings of the batch are those of the interval that ReadingLog applies.
LEMMA SameFresh ==
    ASSUME TypeOK, Batches, Current <= Len(planned)
    PROVE  AppliedOnce!Fresh(Offsets(Current), rows) = Fresh(Current)
<1>1. \A i \in Offsets(Current) : AppliedOnce!IsReading(topic[i]) <=> i \in OfKind(Current, "reading")
  BY OffsetsInTopic, MessageKinds DEF TypeOK, OfKind, IsReading, AppliedOnce!IsReading
<1>2. OfKind(Current, "reading") \subseteq Offsets(Current)
  BY DEF OfKind
<1>3. \A m : AppliedOnce!Key(m) = Key(m)
  BY DEF Key, AppliedOnce!Key
<1>. QED  BY <1>1, <1>2, <1>3 DEF Fresh, AppliedOnce!Fresh

\* What a batch reads is what lies behind the last message it skipped.
LEMMA ReadsTheRest ==
    ASSUME TypeOK, Batches, OldestSkipped, Current <= Len(planned)
    PROVE  \E lost \in BatchStart(Current)..planned[Current] :
              Offsets(Current) = lost + 1 .. planned[Current]
<1>. DEFINE gone == (Span(Current) \intersect skipped) \union {BatchStart(Current)}
<1>1. BatchStart(Current) \in Int /\ planned[Current] \in Int
      /\ BatchStart(Current) < planned[Current]
  BY CurrentBatch
<1>2. IsFiniteSet(gone)
  <2>1. IsFiniteSet(Span(Current) \intersect skipped)
    BY OffsetsInTopic, FS_Subset
  <2>. QED  BY <2>1, FS_AddElement
<1>3. gone \in SUBSET Int /\ gone # {}
  BY <1>1 DEF Span
<1>4. PICK lost \in gone : \A i \in gone : i <= lost
  <2>. HIDE DEF gone
  <2>. QED  BY <1>2, <1>3, GreatestNumber
<1>5. lost \in BatchStart(Current)..planned[Current]
  BY <1>1, <1>4 DEF Span
<1>6. \A j \in BatchStart(Current) + 1 .. lost : j \in skipped
  BY <1>1, <1>4, <1>5 DEF OldestSkipped
<1>7. \A j \in Span(Current) : j \in skipped => j <= lost
  BY <1>4
<1>8. Offsets(Current) = lost + 1 .. planned[Current]
  BY <1>1, <1>5, <1>6, <1>7 DEF Offsets, Span
<1>. QED  BY <1>5, <1>8

\* A batch whose offsets were written before inserts nothing.
LEMMA WrittenAgain ==
    ASSUME TypeOK, Batches, AppliedIsStored, Current <= Len(planned), stored = planned[Current]
    PROVE  Upsert(Current) = rows
<1>1. \A i \in OfKind(Current, "reading") : \E r \in rows : Key(r) = Key(topic[i])
  BY OffsetsInTopic DEF OfKind, Offsets, AppliedIsStored, IsReading
<1>2. Fresh(Current) = {}
  BY <1>1 DEF Fresh
<1>. QED  BY <1>2 DEF Upsert

\* Each step of the stream is a step of ReadingLog or leaves its variables alone:
\* a batch is applied when its transaction commits for the first time.
LEMMA StepImplements ==
    IInv /\ [Next]_vars => [AppliedOnce!Next]_(AppliedOnce!vars)
<1>. SUFFICES ASSUME IInv, [Next]_vars
              PROVE  AppliedOnce!Next \/ UNCHANGED <<topic, rows, stored>>
  BY DEF AppliedOnce!vars
<1>. USE DEF checkpoint, database, kafka
<1>1. CASE \E m \in Message : Publish(m)
  <2>1. PICK m \in Message : Publish(m)
    BY <1>1
  <2>2. AppliedOnce!Publish(m)
    BY <2>1 DEF Publish, AppliedOnce!Publish
  <2>. QED  BY <2>2 DEF AppliedOnce!Next
<1>2. CASE \E m \in Reading : WriteElsewhere(m)
  <2>1. PICK m \in Reading : WriteElsewhere(m)
    BY <1>2
  <2>2. m \in Message /\ AppliedOnce!WriteElsewhere(m)
    BY <2>1 DEF WriteElsewhere, AppliedOnce!WriteElsewhere, AppliedOnce!IsReading,
       AppliedOnce!Key, Key, Message
  <2>. QED  BY <2>2 DEF AppliedOnce!Next
<1>3. CASE StartQuery
  <2>1. CASE origin = -1
    <3>1. stored = -1
      <4>1. planned = <<>> /\ committed = 0
        BY <2>1 DEF IInv, Batches, TypeOK
      <4>. QED  BY <2>1, <4>1 DEF IInv, Batches, TypeOK, Current, BatchStart
    <3>2. AppliedOnce!Start
      BY <1>3, <2>1, <3>1 DEF StartQuery, AppliedOnce!Start
    <3>. QED  BY <3>2 DEF AppliedOnce!Next
  <2>2. CASE origin # -1
    BY <1>3, <2>2 DEF StartQuery
  <2>. QED  BY <2>1, <2>2
<1>4. CASE WriteBatch
  <2>1. Current <= Len(planned) /\ TypeOK /\ Batches /\ AppliedIsStored
    BY <1>4 DEF WriteBatch, IInv, Batches
  <2>2. rows' = Upsert(Current) /\ UNCHANGED topic
    BY <1>4 DEF WriteBatch
  <2>3. CASE stored = planned[Current]
    <3>1. stored' = stored
      BY <1>4, <2>3 DEF WriteBatch
    <3>. QED  BY <2>1, <2>2, <2>3, <3>1, WrittenAgain
  <2>4. CASE stored # planned[Current]
    <3>1. stored = BatchStart(Current) /\ stored' = planned[Current]
      BY <1>4, <2>1, <2>4, CurrentBatch DEF WriteBatch, Batches
    <3>2. /\ stored \in Nat /\ planned[Current] \in stored + 1 .. Len(topic)
          /\ planned[Current] \in 1..Len(topic)
      BY <2>1, <3>1, CurrentBatch DEF TypeOK
    <3>3. PICK lost \in stored..planned[Current] :
             Offsets(Current) = lost + 1 .. planned[Current]
      BY <2>1, <3>1, ReadsTheRest DEF IInv
    <3>4. rows' = rows \union AppliedOnce!Fresh(lost + 1 .. planned[Current], rows)
      BY <2>1, <2>2, <3>3, SameFresh DEF Upsert
    <3>5. AppliedOnce!Apply(planned[Current])
      BY <2>2, <3>1, <3>2, <3>4 DEF AppliedOnce!Apply
    <3>. QED  BY <3>2, <3>5 DEF AppliedOnce!Next
  <2>. QED  BY <2>3, <2>4
<1>5. CASE \/ PlanBatch \/ BeginBatch \/ Notify \/ RecordRun \/ CommitBatch \/ RefuseBatch
           \/ FailBatch \/ Crash \/ UNCHANGED vars
  BY <1>5 DEF PlanBatch, BeginBatch, Notify, RecordRun, CommitBatch, RefuseBatch, FailBatch,
     Crash, vars
<1>. QED  BY <1>1, <1>2, <1>3, <1>4, <1>5 DEF Next, Advance

\* However batches fail, crash and run again, the stream does to aq_readings what
\* applying every message once, in order, would, apart from those that had expired.
THEOREM ImplementsLog == Spec => AppliesOnce
<1>1. Init => AppliedOnce!Init
  BY DEF Init, AppliedOnce!Init
<1>. QED  BY <1>1, StepImplements, Invariant, PTL DEF Spec, AppliesOnce, AppliedOnce!Spec
=============================================================================
