--------------------------- MODULE WeatherProofs ---------------------------
(***************************************************************************)
(* Proof that the records of the weather pollers and of the weather        *)
(* backfill are true to the tables that both write: for any locations,     *)
(* feeds, windows, months and number of pollers.                           *)
(***************************************************************************)
EXTENDS Weather, FiniteSetTheorems, WellFoundedInduction, TLAPS

-----------------------------------------------------------------------------
(* The inductive invariant *)

Keys == Locations \X (Backfill!Month(0)..Backfill!Month(LastDay))

Windows == Locations \X [month: Int, days: SUBSET (0..LastDay)]

\* The local variables of a run of the backfill.
Load == [pc: {"idle", "next", "loaded"}, from: Int, to: Int, todo: SUBSET Windows,
         fetched: SUBSET Windows, written: Nat, failures: Nat, attempted: Nat,
         skipped: Nat, total: Nat]

Typed ==
    /\ now \in Nat /\ now >= Past
    /\ weather \subseteq Locations \X Day /\ IsFiniteSet(weather)
    /\ modeled \subseteq Locations \X Day \X Day /\ IsFiniteSet(modeled)
    /\ report \in [Pollers -> Report]
    /\ health \in [Pollers -> {"ok", "degraded", "failed"}]
    /\ claimed \in Nat /\ faults \in Nat
    /\ job \in [Pollers -> Job]
    /\ manifest \in [Keys -> [status: {"none", "success", "failed"}, written: Nat]]
    /\ load \in Load

\* What poller p knows while it is at j: what it has collected is finite and, from
\* transaction to transaction, in the tables; and the status that it keeps for its
\* health is the one it has recorded.
JobOK(p, j) ==
    /\ IsFiniteSet(j.batch)
    /\ j.pc = "fetching" => j.at >= Past
    /\ j.pc \in {"weather", "stored"} =>
          /\ j.todo = {}
          /\ \A r \in j.batch : r.feed = "weather" => <<r.location, r.day>> \in weather
    /\ j.pc = "stored" =>
          \A r \in j.batch : r.feed = "modeled_aq" => <<r.location, r.day, r.run>> \in modeled
    /\ j.pc = "recorded" /\ j.status = "success" => report[p].status = "success"

JobsOK == \A p \in Pollers : JobOK(p, job[p])

\* Every row of the two tables has an owner: the records of the pollers, a poller
\* that has not recorded it yet, a month of the manifest, or the backfill.
Rows == ({"weather"} \X weather) \union ({"modeled_aq"} \X modeled)

Recorders  == [kind |-> "runs", who |-> "all"]
Poller(p)  == [kind |-> "poller", who |-> p]
MonthOf(k) == [kind |-> "month", who |-> k]
Backfiller == [kind |-> "backfill", who |-> "all"]

Of(own, t) == {r \in DOMAIN own : own[r] = t}

\* Nobody claims more rows than there are of its own.
Owners(own) ==
    /\ own = [r \in Rows |-> own[r]]
    /\ claimed <= Cardinality(Of(own, Recorders))
    /\ \A p \in Pollers : job[p].inserted <= Cardinality(Of(own, Poller(p)))
    /\ \A k \in Keys : manifest[k].written <= Cardinality(Of(own, MonthOf(k)))
    /\ load.written <= Cardinality(Of(own, Backfiller))

Owned == \E own : Owners(own)

IInv == Typed /\ JobsOK /\ Owned /\ SuccessIsStored /\ HealthIsRecorded

-----------------------------------------------------------------------------
(* Owners *)

\* An owner of finitely many rows has a number of them.
LEMMA OfFinite ==
    ASSUME NEW R, IsFiniteSet(R), NEW own, own = [r \in R |-> own[r]], NEW t
    PROVE  IsFiniteSet(Of(own, t)) /\ Cardinality(Of(own, t)) \in Nat
<1>1. Of(own, t) \in SUBSET R
  BY DEF Of
<1>. QED  BY <1>1, FS_Subset, FS_CardinalityType

\* Two disjoint sets are counted one after the other.
LEMMA Disjoint ==
    ASSUME NEW A, NEW B, IsFiniteSet(A), IsFiniteSet(B), A \cap B = {},
           NEW C, C = A \union B
    PROVE  Cardinality(C) = Cardinality(A) + Cardinality(B)
<1>1. Cardinality(A) \in Nat /\ Cardinality(B) \in Nat /\ Cardinality(A \cap B) = 0
  BY FS_EmptySet, FS_CardinalityType
<1>2. Cardinality(A \union B) = Cardinality(A) + Cardinality(B) - Cardinality(A \cap B)
  BY FS_Union
<1>. QED  BY <1>1, <1>2

\* New rows get the owner t: t has so many more, and nobody has fewer.
LEMMA NewRows ==
    ASSUME NEW R, IsFiniteSet(R), NEW N, IsFiniteSet(N), R \cap N = {},
           NEW own, own = [r \in R |-> own[r]], NEW t,
           NEW new, new = [r \in R \union N |-> IF r \in R THEN own[r] ELSE t]
    PROVE  /\ new = [r \in R \union N |-> new[r]]
           /\ \A u : Cardinality(Of(own, u)) <= Cardinality(Of(new, u))
           /\ Cardinality(Of(new, t)) = Cardinality(Of(own, t)) + Cardinality(N)
<1>1. new = [r \in R \union N |-> new[r]] /\ IsFiniteSet(R \union N)
  BY FS_Union
<1>2. ASSUME NEW u PROVE Cardinality(Of(own, u)) <= Cardinality(Of(new, u))
  <2>1. Of(own, u) \subseteq Of(new, u)
    BY DEF Of
  <2>2. IsFiniteSet(Of(new, u))
    BY <1>1, OfFinite
  <2>. QED  BY <2>1, <2>2, FS_Subset
<1>3. Cardinality(Of(new, t)) = Cardinality(Of(own, t)) + Cardinality(N)
  <2>1. Of(new, t) = Of(own, t) \union N /\ Of(own, t) \cap N = {}
    BY DEF Of
  <2>2. IsFiniteSet(Of(own, t))
    BY OfFinite
  <2>. QED  BY <2>1, <2>2, Disjoint
<1>. QED  BY <1>1, <1>2, <1>3

\* The rows of t are given to u: u has so many more, and only t has fewer.
LEMMA GivenRows ==
    ASSUME NEW R, IsFiniteSet(R), NEW own, own = [r \in R |-> own[r]],
           NEW t, NEW u, t # u,
           NEW new, new = [r \in R |-> IF own[r] = t THEN u ELSE own[r]]
    PROVE  /\ new = [r \in R |-> new[r]]
           /\ \A v : v # t => Cardinality(Of(own, v)) <= Cardinality(Of(new, v))
           /\ Cardinality(Of(new, u)) = Cardinality(Of(own, u)) + Cardinality(Of(own, t))
           /\ Cardinality(Of(new, t)) = 0
<1>1. new = [r \in R |-> new[r]]
  OBVIOUS
<1>2. ASSUME NEW v, v # t PROVE Cardinality(Of(own, v)) <= Cardinality(Of(new, v))
  <2>1. Of(own, v) \subseteq Of(new, v)
    BY <1>2 DEF Of
  <2>2. IsFiniteSet(Of(new, v))
    BY <1>1, OfFinite
  <2>. QED  BY <2>1, <2>2, FS_Subset
<1>3. Cardinality(Of(new, u)) = Cardinality(Of(own, u)) + Cardinality(Of(own, t))
  <2>1. Of(new, u) = Of(own, u) \union Of(own, t) /\ Of(own, u) \cap Of(own, t) = {}
    BY DEF Of
  <2>2. IsFiniteSet(Of(own, u)) /\ IsFiniteSet(Of(own, t))
    BY OfFinite
  <2>. QED  BY <2>1, <2>2, Disjoint
<1>4. Of(new, t) = {}
  BY DEF Of
<1>. QED  BY <1>1, <1>2, <1>3, <1>4, FS_EmptySet

\* The rows of the two tables are finitely many, each counted once.
LEMMA RowsCounted ==
    ASSUME IsFiniteSet(weather), IsFiniteSet(modeled)
    PROVE  /\ IsFiniteSet(Rows)
           /\ Cardinality(Rows) = Cardinality(weather) + Cardinality(modeled)
<1>. DEFINE W == {"weather"} \X weather
            M == {"modeled_aq"} \X modeled
<1>1. /\ IsFiniteSet({"weather"}) /\ Cardinality({"weather"}) = 1
      /\ IsFiniteSet({"modeled_aq"}) /\ Cardinality({"modeled_aq"}) = 1
  BY FS_Singleton
<1>2. Cardinality(weather) \in Nat /\ Cardinality(modeled) \in Nat
  BY FS_CardinalityType
<1>3. IsFiniteSet(W) /\ Cardinality(W) = Cardinality(weather)
  <2>1. IsFiniteSet(W) /\ Cardinality(W) = Cardinality({"weather"}) * Cardinality(weather)
    BY <1>1, FS_Product
  <2>. QED  BY <1>1, <1>2, <2>1
<1>4. IsFiniteSet(M) /\ Cardinality(M) = Cardinality(modeled)
  <2>1. IsFiniteSet(M) /\ Cardinality(M) = Cardinality({"modeled_aq"}) * Cardinality(modeled)
    BY <1>1, FS_Product
  <2>. QED  BY <1>1, <1>2, <2>1
<1>5. W \cap M = {}
  OBVIOUS
<1>. HIDE DEF W, M
<1>6. Rows = W \union M
  BY DEF Rows, W, M
<1>7. IsFiniteSet(W \union M)
  BY <1>3, <1>4, FS_Union
<1>8. Cardinality(Rows) = Cardinality(W) + Cardinality(M)
  BY <1>3, <1>4, <1>5, <1>6, Disjoint
<1>. QED  BY <1>3, <1>4, <1>6, <1>7, <1>8

-----------------------------------------------------------------------------
(* Steps that leave the tables alone *)

\* The claims of a step that adds no row and raises no claim are covered as before.
LEMMA OwnedKept ==
    ASSUME Typed, Typed', Owned, weather' = weather, modeled' = modeled, claimed' = claimed,
           \A p \in Pollers : job'[p].inserted <= job[p].inserted,
           \A k \in Keys : manifest'[k].written <= manifest[k].written,
           load'.written <= load.written
    PROVE  Owned'
<1>1. PICK own : Owners(own)
  BY DEF Owned
<1>2. Rows' = Rows
  BY DEF Rows
<1>3. IsFiniteSet(Rows) /\ own = [r \in Rows |-> own[r]]
  BY <1>1, RowsCounted DEF Typed, Owners
<1>4. \A t : Cardinality(Of(own, t)) \in Nat
  BY <1>3, OfFinite
<1>5. \A p \in Pollers : job'[p].inserted <= Cardinality(Of(own, Poller(p)))
  <2>. SUFFICES ASSUME NEW p \in Pollers
                PROVE  job'[p].inserted <= Cardinality(Of(own, Poller(p)))
    OBVIOUS
  <2>1. job[p].inserted \in Nat /\ job'[p].inserted \in Nat
    BY DEF Typed, Job
  <2>2. Cardinality(Of(own, Poller(p))) \in Nat
    BY <1>4
  <2>3. job[p].inserted <= Cardinality(Of(own, Poller(p)))
    BY <1>1 DEF Owners
  <2>. QED  BY <2>1, <2>2, <2>3
<1>6. \A k \in Keys : manifest'[k].written <= Cardinality(Of(own, MonthOf(k)))
  <2>. SUFFICES ASSUME NEW k \in Keys
                PROVE  manifest'[k].written <= Cardinality(Of(own, MonthOf(k)))
    OBVIOUS
  <2>1. manifest[k].written \in Nat /\ manifest'[k].written \in Nat
    BY DEF Typed, Keys
  <2>2. Cardinality(Of(own, MonthOf(k))) \in Nat
    BY <1>4
  <2>3. manifest[k].written <= Cardinality(Of(own, MonthOf(k)))
    BY <1>1 DEF Owners
  <2>. QED  BY <2>1, <2>2, <2>3
<1>7. load'.written <= Cardinality(Of(own, Backfiller))
  <2>1. load.written \in Nat /\ load'.written \in Nat
    BY DEF Typed, Load
  <2>2. Cardinality(Of(own, Backfiller)) \in Nat
    BY <1>4
  <2>3. load.written <= Cardinality(Of(own, Backfiller))
    BY <1>1 DEF Owners
  <2>. QED  BY <2>1, <2>2, <2>3
<1>8. claimed' <= Cardinality(Of(own, Recorders))
  BY <1>1 DEF Owners
<1>9. own = [r \in Rows' |-> own[r]]
  BY <1>2, <1>3
<1>10. Keys' = Keys
  BY DEF Keys
<1>11. Owners(own)'
  BY <1>5, <1>6, <1>7, <1>8, <1>9, <1>10 DEF Owners, Of, Poller, MonthOf, Backfiller, Recorders
<1>. QED  BY <1>11 DEF Owned

\* A poller comes to j while tables and records only grow, and the others wait.
LEMMA JobBecomes ==
    ASSUME Typed, JobsOK, NEW p \in Pollers, NEW j \in Job, job' = [job EXCEPT ![p] = j],
           weather \subseteq weather', modeled \subseteq modeled',
           \A q \in Pollers \ {p} : report'[q] = report[q], JobOK(p, j)'
    PROVE  job' \in [Pollers -> Job] /\ JobsOK'
<1>1. job \in [Pollers -> Job]
  BY DEF Typed
<1>2. ASSUME NEW q \in Pollers PROVE JobOK(q, job[q])'
  <2>1. CASE q = p
    BY <1>1, <2>1
  <2>2. CASE q # p
    <3>1. job'[q] = job[q] /\ report'[q] = report[q]
      BY <1>1, <2>2
    <3>2. JobOK(q, job[q])
      BY DEF JobsOK
    <3>. QED  BY <3>1, <3>2 DEF JobOK
  <2>. QED  BY <2>1, <2>2
<1>. QED  BY <1>1, <1>2 DEF JobsOK

\* A step of poller p, and of it alone, that writes nothing to the database.
LEMMA QuietPoll ==
    ASSUME IInv, NEW p \in Pollers, NEW j \in Job, job' = [job EXCEPT ![p] = j], JobOK(p, j),
           j.inserted <= job[p].inserted,
           NEW h \in {"ok", "degraded", "failed"}, health' = [health EXCEPT ![p] = h],
           h = "ok" => report[p].status = "success" \/ j.pc = "recorded",
           faults' \in Nat, now' = now, UNCHANGED database, UNCHANGED others
    PROVE  IInv'
<1>. USE DEF database, others
<1>1. JobOK(p, j)'
  BY DEF JobOK
<1>2. job' \in [Pollers -> Job] /\ JobsOK'
  BY <1>1, JobBecomes DEF IInv
<1>3. Typed'
  BY <1>2 DEF IInv, Typed, Keys
<1>4. Owned'
  <2>1. job \in [Pollers -> Job]
    BY DEF IInv, Typed
  <2>2. \A q \in Pollers : job'[q].inserted <= job[q].inserted
    BY <2>1 DEF Job
  <2>3. \A k \in Keys : manifest'[k].written <= manifest[k].written
    BY DEF IInv, Typed
  <2>4. load'.written <= load.written
    BY DEF IInv, Typed, Load
  <2>. QED  BY <1>3, <2>2, <2>3, <2>4, OwnedKept DEF IInv
<1>5. SuccessIsStored'
  BY DEF IInv, SuccessIsStored
<1>6. HealthIsRecorded'
  BY DEF IInv, Typed, HealthIsRecorded
<1>. QED  BY <1>2, <1>3, <1>4, <1>5, <1>6 DEF IInv

\* Time alone changes nothing that is claimed.
LEMMA TickStep == ASSUME IInv, Tick, UNCHANGED others PROVE IInv'
<1>. USE DEF Tick, database, others
<1>1. Typed'
  BY PollerAssumption DEF IInv, Typed, Keys
<1>2. JobsOK'
  BY DEF IInv, JobsOK, JobOK
<1>3. Owned'
  <2>1. \A q \in Pollers : job'[q].inserted <= job[q].inserted
    BY DEF IInv, Typed, Job
  <2>2. \A k \in Keys : manifest'[k].written <= manifest[k].written
    BY DEF IInv, Typed
  <2>3. load'.written <= load.written
    BY DEF IInv, Typed, Load
  <2>. QED  BY <1>1, <2>1, <2>2, <2>3, OwnedKept DEF IInv
<1>4. SuccessIsStored' /\ HealthIsRecorded'
  BY DEF IInv, SuccessIsStored, HealthIsRecorded
<1>. QED  BY <1>1, <1>2, <1>3, <1>4 DEF IInv

\* What IInv says of one poller.
LEMMA JobTyped ==
    ASSUME IInv, NEW p \in Pollers
    PROVE  /\ job \in [Pollers -> Job] /\ job[p] \in Job /\ JobOK(p, job[p])
           /\ health \in [Pollers -> {"ok", "degraded", "failed"}]
           /\ health[p] \in {"ok", "degraded", "failed"}
           /\ health = [health EXCEPT ![p] = health[p]]
           /\ health[p] = "ok" => report[p].status = "success" \/ job[p].pc = "recorded"
BY DEF IInv, Typed, JobsOK, HealthIsRecorded

\* A poll starts with the calls of the locations that it found.
LEMMA BeginStep ==
    ASSUME IInv, NEW p \in Pollers, Begin(p), UNCHANGED others
    PROVE  IInv'
<1>1. PICK active \in {{}, Locations} :
         job' = [job EXCEPT ![p] = [Idle EXCEPT !.pc = "fetching", !.at = now,
                    !.locations = active, !.todo = active \X Feeds[p]]]
  BY DEF Begin
<1>. PICK j : j = [Idle EXCEPT !.pc = "fetching", !.at = now,
                       !.locations = active, !.todo = active \X Feeds[p]]
  OBVIOUS
<1>2. j \in Job /\ j.inserted = 0 /\ j.pc = "fetching" /\ j.batch = {} /\ j.at = now
  <2>1. active \X Feeds[p] \in SUBSET Call
    BY PollerAssumption DEF Call
  <2>2. now \in Day
    BY DEF IInv, Typed, Day
  <2>. QED  BY <2>1, <2>2 DEF Idle, Job, Statuses
<1>3. JobOK(p, j)
  BY <1>2, FS_EmptySet DEF JobOK, IInv, Typed
<1>4. j.inserted <= job[p].inserted
  BY <1>2, JobTyped DEF Job
<1>5. health[p] = "ok" => report[p].status = "success"
  BY JobTyped DEF Begin
<1>6. /\ job' = [job EXCEPT ![p] = j] /\ health' = [health EXCEPT ![p] = health[p]]
      /\ health[p] \in {"ok", "degraded", "failed"}
      /\ faults' \in Nat /\ now' = now /\ UNCHANGED database
  BY <1>1, JobTyped DEF Begin, IInv, Typed
<1>. QED  BY <1>2, <1>3, <1>4, <1>5, <1>6, QuietPoll

\* An answer adds the readings of its window to the batch.
LEMMA FetchStep ==
    ASSUME IInv, NEW p \in Pollers, NEW c \in job[p].todo, Fetch(p, c), UNCHANGED others
    PROVE  IInv'
<1>1. PICK days \in {Window(job[p].at), Window(job[p].at) \ {job[p].at + Ahead}} :
         job' = [job EXCEPT ![p].todo = @ \ {c}, ![p].batch = @ \union
                   {[feed |-> c[2], location |-> c[1], day |-> d,
                     run |-> IF c[2] = "weather" THEN 0 ELSE job[p].at] : d \in days}]
  BY DEF Fetch
<1>. PICK new : new = {[feed |-> c[2], location |-> c[1], day |-> d,
                        run |-> IF c[2] = "weather" THEN 0 ELSE job[p].at] : d \in days}
  OBVIOUS
<1>. PICK j : j = [job[p] EXCEPT !.todo = @ \ {c}, !.batch = @ \union new]
  OBVIOUS
<1>2. job[p] \in Job /\ job[p].pc = "fetching" /\ job[p].at \in Nat /\ job[p].at >= Past
  BY JobTyped DEF Fetch, JobOK, Job, Day
<1>3. days \in SUBSET Day /\ IsFiniteSet(days)
  <2>1. Window(job[p].at) \in SUBSET Day
    BY <1>2, PollerAssumption DEF Window, Day
  <2>2. IsFiniteSet(Window(job[p].at))
    <3>1. job[p].at - Past \in Int /\ job[p].at + Ahead \in Int
      BY <1>2, PollerAssumption
    <3>2. IsFiniteSet((job[p].at - Past)..(job[p].at + Ahead))
      BY <3>1, FS_Interval
    <3>. QED  BY <3>2 DEF Window
  <2>3. days \subseteq Window(job[p].at)
    OBVIOUS
  <2>. QED  BY <2>1, <2>2, <2>3, FS_Subset
<1>4. new \in SUBSET Reading
  <2>1. c \in Locations \X {"weather", "modeled_aq"}
    BY <1>2 DEF Job, Call
  <2>2. c[1] \in Locations /\ c[2] \in {"weather", "modeled_aq"}
    BY <2>1
  <2>. QED  BY <1>2, <1>3, <2>2 DEF Reading, Day
<1>5. IsFiniteSet(new)
  <2>. DEFINE f == [d \in days |-> [feed |-> c[2], location |-> c[1], day |-> d,
                                    run |-> IF c[2] = "weather" THEN 0 ELSE job[p].at]]
  <2>1. f \in Surjection(days, new)
    BY DEF Surjection
  <2>. HIDE DEF f
  <2>. QED  BY <1>3, <2>1, FS_Surjection
<1>6. /\ j \in Job /\ j.inserted = job[p].inserted /\ j.pc = "fetching"
      /\ j.at = job[p].at /\ j.batch = job[p].batch \union new
  BY <1>2, <1>4 DEF Job
<1>7. JobOK(p, j)
  <2>1. IsFiniteSet(j.batch)
    <3>1. IsFiniteSet(job[p].batch)
      BY JobTyped DEF JobOK
    <3>2. IsFiniteSet(job[p].batch \union new)
      BY <1>5, <3>1, FS_Union
    <3>. QED  BY <1>6, <3>2
  <2>. QED  BY <1>2, <1>6, <2>1 DEF JobOK
<1>8. j.inserted <= job[p].inserted
  <2>1. job[p].inserted \in Nat
    BY <1>2 DEF Job
  <2>. QED  BY <1>6, <2>1
<1>9. health[p] = "ok" => report[p].status = "success"
  BY <1>2, JobTyped
<1>10. job' = [job EXCEPT ![p] = j]
  BY <1>1, JobTyped
<1>11. /\ health' = [health EXCEPT ![p] = health[p]]
       /\ health[p] \in {"ok", "degraded", "failed"}
       /\ faults' \in Nat /\ now' = now /\ UNCHANGED database
  BY JobTyped DEF Fetch, IInv, Typed
<1>. QED  BY <1>6, <1>7, <1>8, <1>9, <1>10, <1>11, QuietPoll

\* A call that failed is kept among the errors.
LEMMA FetchFailsStep ==
    ASSUME IInv, NEW p \in Pollers, NEW c \in job[p].todo, FetchFails(p, c), UNCHANGED others
    PROVE  IInv'
<1>. PICK j : j = [job[p] EXCEPT !.todo = @ \ {c}, !.errors = @ \union {c}]
  OBVIOUS
<1>1. job[p] \in Job /\ job[p].pc = "fetching" /\ JobOK(p, job[p])
  BY JobTyped DEF FetchFails
<1>2. /\ j \in Job /\ j.inserted = job[p].inserted /\ j.pc = "fetching"
      /\ j.at = job[p].at /\ j.batch = job[p].batch
  BY <1>1 DEF Job
<1>3. JobOK(p, j)
  BY <1>1, <1>2 DEF JobOK
<1>4. j.inserted <= job[p].inserted
  BY <1>1, <1>2 DEF Job
<1>5. health[p] = "ok" => report[p].status = "success"
  BY <1>1, JobTyped
<1>6. job' = [job EXCEPT ![p] = j]
  BY JobTyped DEF FetchFails
<1>7. /\ health' = [health EXCEPT ![p] = health[p]]
      /\ health[p] \in {"ok", "degraded", "failed"}
      /\ faults' \in Nat /\ now' = now /\ UNCHANGED database
  BY JobTyped DEF FetchFails, IInv, Typed
<1>. QED  BY <1>2, <1>3, <1>4, <1>5, <1>6, <1>7, QuietPoll

\* A run that raised claims no rows.
LEMMA RaiseStep ==
    ASSUME IInv, NEW p \in Pollers, Raise(p), UNCHANGED others
    PROVE  IInv'
<1>. PICK j : j = [job[p] EXCEPT !.pc = "failed", !.inserted = 0]
  OBVIOUS
<1>1. job[p] \in Job /\ job[p].pc # "recorded" /\ JobOK(p, job[p])
  BY JobTyped DEF Raise
<1>2. j \in Job /\ j.inserted = 0 /\ j.pc = "failed" /\ j.batch = job[p].batch
  BY <1>1 DEF Job
<1>3. JobOK(p, j)
  BY <1>1, <1>2 DEF JobOK
<1>4. j.inserted <= job[p].inserted
  BY <1>1, <1>2 DEF Job
<1>5. health[p] = "ok" => report[p].status = "success"
  BY <1>1, JobTyped
<1>6. job' = [job EXCEPT ![p] = j]
  BY JobTyped DEF Raise
<1>7. /\ health' = [health EXCEPT ![p] = health[p]]
      /\ health[p] \in {"ok", "degraded", "failed"}
      /\ faults' \in Nat /\ now' = now /\ UNCHANGED database
  BY JobTyped DEF Raise, IInv, Typed
<1>. QED  BY <1>2, <1>3, <1>4, <1>5, <1>6, <1>7, QuietPoll

\* A run that could not be recorded has failed, and says so to its health.
LEMMA RecordFailsStep ==
    ASSUME IInv, NEW p \in Pollers, RecordFails(p), UNCHANGED others
    PROVE  IInv'
<1>. PICK j : j = [Idle EXCEPT !.pc = "recorded", !.status = "failed"]
  OBVIOUS
<1>1. job[p] \in Job /\ job[p].pc # "recorded"
  BY JobTyped DEF RecordFails
<1>2. /\ j \in Job /\ j.inserted = 0 /\ j.pc = "recorded" /\ j.status = "failed"
      /\ j.batch = {}
  BY DEF Idle, Job, Statuses, Day
<1>3. JobOK(p, j)
  BY <1>2, FS_EmptySet DEF JobOK
<1>4. j.inserted <= job[p].inserted
  BY <1>1, <1>2 DEF Job
<1>5. /\ job' = [job EXCEPT ![p] = j] /\ health' = [health EXCEPT ![p] = health[p]]
      /\ health[p] \in {"ok", "degraded", "failed"}
      /\ faults' \in Nat /\ now' = now /\ UNCHANGED database
  BY JobTyped DEF RecordFails, IInv, Typed
<1>. QED  BY <1>2, <1>3, <1>4, <1>5, QuietPoll

\* A job that is over: nothing is known of it.
LEMMA IdleTyped ==
    ASSUME IInv, NEW p \in Pollers
    PROVE  Idle \in Job /\ Idle.inserted <= job[p].inserted /\ JobOK(p, Idle)
<1>1. /\ Idle \in Job /\ Idle.inserted = 0 /\ Idle.pc = "idle" /\ Idle.batch = {}
  BY DEF Idle, Job, Statuses, Day
<1>2. JobOK(p, Idle)
  BY <1>1, FS_EmptySet DEF JobOK
<1>. QED  BY <1>1, <1>2, JobTyped DEF Job

\* The health follows the status that has just been recorded.
LEMMA UpdateStep ==
    ASSUME IInv, NEW p \in Pollers, Update(p), UNCHANGED others
    PROVE  IInv'
<1>. PICK h : h = HealthOf(job[p].status)
  OBVIOUS
<1>1. h \in {"ok", "degraded", "failed"}
  BY DEF HealthOf
<1>2. h = "ok" => report[p].status = "success"
  BY JobTyped DEF Update, HealthOf, JobOK
<1>3. /\ job' = [job EXCEPT ![p] = Idle] /\ health' = [health EXCEPT ![p] = h]
      /\ faults' \in Nat /\ now' = now /\ UNCHANGED database
  BY DEF Update, IInv, Typed
<1>. QED  BY <1>1, <1>2, <1>3, IdleTyped, QuietPoll

\* A poller that is restarted is degraded until its next run.
LEMMA CrashStep ==
    ASSUME IInv, NEW p \in Pollers, Crash(p), UNCHANGED others
    PROVE  IInv'
<1>1. /\ job' = [job EXCEPT ![p] = Idle] /\ health' = [health EXCEPT ![p] = "degraded"]
      /\ faults' \in Nat /\ now' = now /\ UNCHANGED database
  BY DEF Crash, IInv, Typed
<1>. QED  BY <1>1, IdleTyped, QuietPoll

-----------------------------------------------------------------------------
(* Steps that insert rows or record them *)

\* The rows N are inserted, and t says so: no other claim is raised.
LEMMA OwnedInserted ==
    ASSUME Typed, Typed', Owned, NEW N, IsFiniteSet(N), Rows \cap N = {},
           Rows' = Rows \union N, claimed' = claimed, manifest' = manifest, NEW t,
           \A p \in Pollers : \/ job'[p].inserted = job[p].inserted
                             \/ /\ t = Poller(p)
                                /\ job'[p].inserted = job[p].inserted + Cardinality(N),
           \/ load'.written = load.written
           \/ t = Backfiller /\ load'.written = Cardinality(N),
           t.kind \in {"poller", "backfill"}
    PROVE  Owned'
<1>1. PICK own : Owners(own)
  BY DEF Owned
<1>. PICK new : new = [r \in Rows \union N |-> IF r \in Rows THEN own[r] ELSE t]
  OBVIOUS
<1>2. IsFiniteSet(Rows) /\ own = [r \in Rows |-> own[r]]
  BY <1>1, RowsCounted DEF Typed, Owners
<1>3. /\ new = [r \in Rows \union N |-> new[r]]
      /\ \A u : Cardinality(Of(own, u)) <= Cardinality(Of(new, u))
      /\ Cardinality(Of(new, t)) = Cardinality(Of(own, t)) + Cardinality(N)
  BY <1>2, NewRows
<1>4. /\ IsFiniteSet(Rows \union N) /\ Cardinality(N) \in Nat
      /\ \A u : Cardinality(Of(own, u)) \in Nat
  BY <1>2, FS_Union, FS_CardinalityType, OfFinite
<1>5. \A u : Cardinality(Of(new, u)) \in Nat
  BY <1>3, <1>4, OfFinite
<1>6. ASSUME NEW p \in Pollers PROVE job'[p].inserted <= Cardinality(Of(new, Poller(p)))
  <2>1. job[p].inserted \in Nat /\ job[p].inserted <= Cardinality(Of(own, Poller(p)))
    BY <1>1 DEF Typed, Job, Owners
  <2>2. CASE job'[p].inserted = job[p].inserted
    <3>1. /\ Cardinality(Of(own, Poller(p))) <= Cardinality(Of(new, Poller(p)))
          /\ Cardinality(Of(own, Poller(p))) \in Nat
      BY <1>3, <1>4
    <3>2. Cardinality(Of(new, Poller(p))) \in Nat
      BY <1>5
    <3>. QED  BY <2>1, <2>2, <3>1, <3>2
  <2>3. CASE t = Poller(p) /\ job'[p].inserted = job[p].inserted + Cardinality(N)
    <3>1. Cardinality(Of(new, Poller(p))) = Cardinality(Of(own, Poller(p))) + Cardinality(N)
      BY <1>3, <2>3
    <3>2. Cardinality(Of(own, Poller(p))) \in Nat
      BY <1>4
    <3>. QED  BY <1>4, <2>1, <2>3, <3>1, <3>2
  <2>. QED  BY <2>2, <2>3
<1>7. load'.written <= Cardinality(Of(new, Backfiller))
  <2>1. load.written \in Nat /\ load.written <= Cardinality(Of(own, Backfiller))
    BY <1>1 DEF Typed, Load, Owners
  <2>2. CASE load'.written = load.written
    <3>1. /\ Cardinality(Of(own, Backfiller)) <= Cardinality(Of(new, Backfiller))
          /\ Cardinality(Of(own, Backfiller)) \in Nat
      BY <1>3, <1>4
    <3>2. Cardinality(Of(new, Backfiller)) \in Nat
      BY <1>5
    <3>. QED  BY <2>1, <2>2, <3>1, <3>2
  <2>3. CASE t = Backfiller /\ load'.written = Cardinality(N)
    <3>1. Cardinality(Of(new, Backfiller)) = Cardinality(Of(own, Backfiller)) + Cardinality(N)
      BY <1>3, <2>3
    <3>2. Cardinality(Of(own, Backfiller)) \in Nat
      BY <1>4
    <3>. QED  BY <1>4, <2>3, <3>1, <3>2
  <2>. QED  BY <2>2, <2>3
<1>8. ASSUME NEW k \in Keys PROVE manifest'[k].written <= Cardinality(Of(new, MonthOf(k)))
  <2>1. manifest[k].written \in Nat /\ manifest[k].written <= Cardinality(Of(own, MonthOf(k)))
    BY <1>1 DEF Typed, Owners
  <2>. QED  BY <1>3, <1>4, <1>5, <2>1
<1>9. claimed' <= Cardinality(Of(new, Recorders))
  <2>1. claimed \in Nat /\ claimed <= Cardinality(Of(own, Recorders))
    BY <1>1 DEF Typed, Owners
  <2>. QED  BY <1>3, <1>4, <1>5, <2>1
<1>10. new = [r \in Rows' |-> new[r]]
  BY <1>3
<1>11. Keys' = Keys
  BY DEF Keys
<1>12. Owners(new)'
  BY <1>6, <1>7, <1>8, <1>9, <1>10, <1>11 DEF Owners, Of, Poller, MonthOf, Backfiller, Recorders
<1>. QED  BY <1>12 DEF Owned

\* As many rows as elements.
LEMMA Tagged ==
    ASSUME NEW x, NEW S, IsFiniteSet(S)
    PROVE  IsFiniteSet({x} \X S) /\ Cardinality({x} \X S) = Cardinality(S)
<1>1. IsFiniteSet({x}) /\ Cardinality({x}) = 1
  BY FS_Singleton
<1>2. Cardinality(S) \in Nat
  BY FS_CardinalityType
<1>3. IsFiniteSet({x} \X S) /\ Cardinality({x} \X S) = Cardinality({x}) * Cardinality(S)
  BY <1>1, FS_Product
<1>. QED  BY <1>1, <1>2, <1>3

\* What a poller inserts is finite, new and of the right type.
LEMMA NewTyped ==
    ASSUME IInv, NEW p \in Pollers
    PROVE  /\ IsFiniteSet(NewWeather(p)) /\ NewWeather(p) \subseteq Locations \X Day
           /\ NewWeather(p) \cap weather = {}
           /\ IsFiniteSet(NewModeled(p)) /\ NewModeled(p) \subseteq Locations \X Day \X Day
           /\ NewModeled(p) \cap modeled = {}
<1>. DEFINE W == {r \in job[p].batch : r.feed = "weather"}
            M == {r \in job[p].batch : r.feed = "modeled_aq"}
            w == [r \in W |-> <<r.location, r.day>>]
            m == [r \in M |-> <<r.location, r.day, r.run>>]
<1>1. job[p].batch \in SUBSET Reading /\ IsFiniteSet(job[p].batch)
  BY JobTyped DEF Job, JobOK
<1>2. IsFiniteSet(W) /\ IsFiniteSet(M)
  BY <1>1, FS_Subset
<1>3. IsFiniteSet({<<r.location, r.day>> : r \in W})
  <2>1. w \in Surjection(W, {<<r.location, r.day>> : r \in W})
    BY DEF Surjection
  <2>. HIDE DEF w, W
  <2>. QED  BY <1>2, <2>1, FS_Surjection
<1>4. IsFiniteSet({<<r.location, r.day, r.run>> : r \in M})
  <2>1. m \in Surjection(M, {<<r.location, r.day, r.run>> : r \in M})
    BY DEF Surjection
  <2>. HIDE DEF m, M
  <2>. QED  BY <1>2, <2>1, FS_Surjection
<1>5. {<<r.location, r.day>> : r \in W} \subseteq Locations \X Day
  BY <1>1 DEF Reading
<1>6. {<<r.location, r.day, r.run>> : r \in M} \subseteq Locations \X Day \X Day
  BY <1>1 DEF Reading, Day
<1>. HIDE DEF w, m
<1>7. /\ NewWeather(p) = {<<r.location, r.day>> : r \in W} \ weather
      /\ NewModeled(p) = {<<r.location, r.day, r.run>> : r \in M} \ modeled
  BY DEF NewWeather, NewModeled
<1>. HIDE DEF W, M
<1>8. IsFiniteSet(NewWeather(p))
  <2>1. NewWeather(p) \in SUBSET {<<r.location, r.day>> : r \in W}
    BY <1>7
  <2>. QED  BY <1>3, <2>1, FS_Subset
<1>9. IsFiniteSet(NewModeled(p))
  <2>1. NewModeled(p) \in SUBSET {<<r.location, r.day, r.run>> : r \in M}
    BY <1>7
  <2>. QED  BY <1>4, <2>1, FS_Subset
<1>. QED  BY <1>5, <1>6, <1>7, <1>8, <1>9

\* The poller owns the rows of weather that it was the first to insert.
LEMMA InsertWeatherStep ==
    ASSUME IInv, NEW p \in Pollers, InsertWeather(p), UNCHANGED others
    PROVE  IInv'
<1>. PICK new : new = NewWeather(p)
  OBVIOUS
<1>1. /\ IsFiniteSet(new) /\ new \subseteq Locations \X Day /\ new \cap weather = {}
      /\ Cardinality(new) \in Nat
  BY NewTyped, FS_CardinalityType
<1>2. /\ job[p] \in Job /\ job[p].inserted \in Nat /\ JobOK(p, job[p])
      /\ job[p].pc = "fetching" /\ job \in [Pollers -> Job]
  BY JobTyped DEF InsertWeather, Job
<1>3. /\ weather' = weather \union new /\ job[p].todo = {}
      /\ UNCHANGED <<now, modeled, report, claimed, health, faults>>
  BY <1>2 DEF InsertWeather, JobOK
<1>4. PICK n \in Nat : n = job[p].inserted + Cardinality(new)
  BY <1>1, <1>2
<1>. PICK j : j = [job[p] EXCEPT !.pc = "weather", !.inserted = n]
  OBVIOUS
<1>5. job' = [job EXCEPT ![p] = j]
  BY <1>2, <1>4 DEF InsertWeather, Inserted
<1>6. /\ j \in Job /\ j.inserted = n /\ j.pc = "weather" /\ j.todo = {}
      /\ j.batch = job[p].batch
  BY <1>2, <1>3 DEF Job
<1>7. JobOK(p, j)'
  <2>1. IsFiniteSet(j.batch)
    BY <1>2, <1>6 DEF JobOK
  <2>2. \A r \in j.batch : r.feed = "weather" => <<r.location, r.day>> \in weather'
    BY <1>3, <1>6 DEF InsertWeather, NewWeather
  <2>. QED  BY <1>6, <2>1, <2>2 DEF JobOK
<1>8. job' \in [Pollers -> Job] /\ JobsOK'
  <2>1. \A q \in Pollers \ {p} : report'[q] = report[q]
    BY <1>3
  <2>. QED  BY <1>3, <1>5, <1>6, <1>7, <2>1, JobBecomes DEF IInv
<1>9. Typed'
  <2>1. IsFiniteSet(weather') /\ weather' \subseteq Locations \X Day
    BY <1>1, <1>3, FS_Union DEF IInv, Typed
  <2>. QED  BY <1>3, <1>8, <2>1 DEF IInv, Typed, Keys, others
<1>10. Owned'
  <2>. DEFINE N == {"weather"} \X new
  <2>1. IsFiniteSet(N) /\ Cardinality(N) = Cardinality(new)
    BY <1>1, Tagged
  <2>2. Rows \cap N = {} /\ Rows' = Rows \union N
    BY <1>1, <1>3 DEF Rows
  <2>. HIDE DEF N
  <2>3. \A q \in Pollers : \/ job'[q].inserted = job[q].inserted
                            \/ /\ Poller(p) = Poller(q)
                               /\ job'[q].inserted = job[q].inserted + Cardinality(N)
    BY <1>2, <1>4, <1>5, <1>6, <2>1
  <2>4. Poller(p).kind \in {"poller", "backfill"}
    BY DEF Poller
  <2>5. claimed' = claimed /\ manifest' = manifest /\ load'.written = load.written
    BY <1>3 DEF others
  <2>. QED  BY <1>9, <2>1, <2>2, <2>3, <2>4, <2>5, OwnedInserted DEF IInv
<1>11. SuccessIsStored'
  BY <1>3 DEF IInv, SuccessIsStored
<1>12. HealthIsRecorded'
  BY <1>2, <1>3, <1>5 DEF IInv, HealthIsRecorded
<1>. QED  BY <1>8, <1>9, <1>10, <1>11, <1>12 DEF IInv

\* The same for the modeled air quality.
LEMMA InsertModeledStep ==
    ASSUME IInv, NEW p \in Pollers, InsertModeled(p), UNCHANGED others
    PROVE  IInv'
<1>. PICK new : new = NewModeled(p)
  OBVIOUS
<1>1. /\ IsFiniteSet(new) /\ new \subseteq Locations \X Day \X Day /\ new \cap modeled = {}
      /\ Cardinality(new) \in Nat
  BY NewTyped, FS_CardinalityType
<1>2. /\ job[p] \in Job /\ job[p].inserted \in Nat /\ JobOK(p, job[p])
      /\ job[p].pc = "weather" /\ job \in [Pollers -> Job]
  BY JobTyped DEF InsertModeled, Job
<1>3. /\ modeled' = modeled \union new /\ job[p].todo = {}
      /\ UNCHANGED <<now, weather, report, claimed, health, faults>>
  BY <1>2 DEF InsertModeled, JobOK
<1>4. PICK n \in Nat : n = job[p].inserted + Cardinality(new)
  BY <1>1, <1>2
<1>. PICK j : j = [job[p] EXCEPT !.pc = "stored", !.inserted = n]
  OBVIOUS
<1>5. job' = [job EXCEPT ![p] = j]
  BY <1>2, <1>4 DEF InsertModeled, Inserted
<1>6. /\ j \in Job /\ j.inserted = n /\ j.pc = "stored" /\ j.todo = {}
      /\ j.batch = job[p].batch
  BY <1>2, <1>3 DEF Job
<1>7. JobOK(p, j)'
  <2>1. IsFiniteSet(j.batch)
    BY <1>2, <1>6 DEF JobOK
  <2>2. \A r \in j.batch : r.feed = "weather" => <<r.location, r.day>> \in weather'
    BY <1>2, <1>3, <1>6 DEF JobOK
  <2>3. \A r \in j.batch : r.feed = "modeled_aq" => <<r.location, r.day, r.run>> \in modeled'
    BY <1>3, <1>6 DEF InsertModeled, NewModeled
  <2>. QED  BY <1>6, <2>1, <2>2, <2>3 DEF JobOK
<1>8. job' \in [Pollers -> Job] /\ JobsOK'
  <2>1. \A q \in Pollers \ {p} : report'[q] = report[q]
    BY <1>3
  <2>. QED  BY <1>3, <1>5, <1>6, <1>7, <2>1, JobBecomes DEF IInv
<1>9. Typed'
  <2>1. IsFiniteSet(modeled') /\ modeled' \subseteq Locations \X Day \X Day
    BY <1>1, <1>3, FS_Union DEF IInv, Typed
  <2>. QED  BY <1>3, <1>8, <2>1 DEF IInv, Typed, Keys, others
<1>10. Owned'
  <2>. DEFINE N == {"modeled_aq"} \X new
  <2>1. IsFiniteSet(N) /\ Cardinality(N) = Cardinality(new)
    BY <1>1, Tagged
  <2>2. Rows \cap N = {} /\ Rows' = Rows \union N
    BY <1>1, <1>3 DEF Rows
  <2>. HIDE DEF N
  <2>3. \A q \in Pollers : \/ job'[q].inserted = job[q].inserted
                            \/ /\ Poller(p) = Poller(q)
                               /\ job'[q].inserted = job[q].inserted + Cardinality(N)
    BY <1>2, <1>4, <1>5, <1>6, <2>1
  <2>4. Poller(p).kind \in {"poller", "backfill"}
    BY DEF Poller
  <2>5. claimed' = claimed /\ manifest' = manifest /\ load'.written = load.written
    BY <1>3 DEF others
  <2>. QED  BY <1>9, <2>1, <2>2, <2>3, <2>4, <2>5, OwnedInserted DEF IInv
<1>11. SuccessIsStored'
  BY <1>3 DEF IInv, SuccessIsStored
<1>12. HealthIsRecorded'
  BY <1>2, <1>3, <1>5 DEF IInv, HealthIsRecorded
<1>. QED  BY <1>8, <1>9, <1>10, <1>11, <1>12 DEF IInv

\* The rows of a poller become rows on record.
LEMMA OwnedRecorded ==
    ASSUME Typed, Typed', Owned, NEW p \in Pollers, weather' = weather, modeled' = modeled,
           claimed' = claimed + job[p].inserted, job'[p].inserted = 0,
           \A q \in Pollers \ {p} : job'[q].inserted = job[q].inserted,
           manifest' = manifest, load' = load
    PROVE  Owned'
<1>1. PICK own : Owners(own)
  BY DEF Owned
<1>. PICK t : t = Poller(p)
  OBVIOUS
<1>. PICK new : new = [r \in Rows |-> IF own[r] = t THEN Recorders ELSE own[r]]
  OBVIOUS
<1>2. /\ IsFiniteSet(Rows) /\ own = [r \in Rows |-> own[r]] /\ Rows' = Rows
      /\ t # Recorders /\ t # Backfiller /\ \A k : t # MonthOf(k)
  BY <1>1, RowsCounted DEF Typed, Owners, Rows, Poller, Recorders, Backfiller, MonthOf
<1>3. /\ new = [r \in Rows |-> new[r]]
      /\ \A v : v # t => Cardinality(Of(own, v)) <= Cardinality(Of(new, v))
      /\ Cardinality(Of(new, Recorders)) = Cardinality(Of(own, Recorders)) + Cardinality(Of(own, t))
  BY <1>2, GivenRows
<1>4. \A v : Cardinality(Of(own, v)) \in Nat /\ Cardinality(Of(new, v)) \in Nat
  BY <1>2, <1>3, OfFinite
<1>5. ASSUME NEW v, v # t, NEW n \in Nat, n <= Cardinality(Of(own, v))
      PROVE  n <= Cardinality(Of(new, v))
  <2>1. /\ Cardinality(Of(own, v)) <= Cardinality(Of(new, v))
        /\ Cardinality(Of(own, v)) \in Nat /\ Cardinality(Of(new, v)) \in Nat
    BY <1>3, <1>4, <1>5
  <2>. QED  BY <1>5, <2>1
<1>6. claimed' <= Cardinality(Of(new, Recorders))
  <2>1. /\ claimed \in Nat /\ claimed <= Cardinality(Of(own, Recorders))
        /\ job[p].inserted \in Nat /\ job[p].inserted <= Cardinality(Of(own, t))
    BY <1>1 DEF Typed, Job, Owners
  <2>2. Cardinality(Of(own, Recorders)) \in Nat /\ Cardinality(Of(own, t)) \in Nat
    BY <1>4
  <2>. QED  BY <1>3, <2>1, <2>2
<1>7. ASSUME NEW q \in Pollers PROVE job'[q].inserted <= Cardinality(Of(new, Poller(q)))
  <2>1. CASE q = p
    <3>1. Cardinality(Of(new, Poller(q))) \in Nat
      BY <1>4
    <3>. QED  BY <2>1, <3>1
  <2>2. CASE q # p
    <3>1. Poller(q) # t
      BY <2>2 DEF Poller
    <3>2. /\ job'[q].inserted = job[q].inserted /\ job[q].inserted \in Nat
          /\ job[q].inserted <= Cardinality(Of(own, Poller(q)))
      BY <1>1, <2>2 DEF Typed, Job, Owners
    <3>. QED  BY <1>5, <3>1, <3>2
  <2>. QED  BY <2>1, <2>2
<1>8. ASSUME NEW k \in Keys PROVE manifest'[k].written <= Cardinality(Of(new, MonthOf(k)))
  <2>1. manifest[k].written \in Nat /\ manifest[k].written <= Cardinality(Of(own, MonthOf(k)))
    BY <1>1 DEF Typed, Owners
  <2>. QED  BY <1>2, <1>5, <2>1
<1>9. load'.written <= Cardinality(Of(new, Backfiller))
  <2>1. load.written \in Nat /\ load.written <= Cardinality(Of(own, Backfiller))
    BY <1>1 DEF Typed, Load, Owners
  <2>. QED  BY <1>2, <1>5, <2>1
<1>10. new = [r \in Rows' |-> new[r]] /\ Keys' = Keys
  BY <1>2, <1>3 DEF Keys
<1>11. Owners(new)'
  BY <1>6, <1>7, <1>8, <1>9, <1>10 DEF Owners, Of, Poller, MonthOf, Backfiller, Recorders
<1>. QED  BY <1>11 DEF Owned

\* A run that ended without an error has left nothing out, and the tables have it all.
LEMMA RecordStep ==
    ASSUME IInv, NEW p \in Pollers, Record(p), UNCHANGED others
    PROVE  IInv'
<1>. PICK rep : rep = Recorded(p)
  OBVIOUS
<1>. PICK j : j = [Idle EXCEPT !.pc = "recorded", !.status = Status(p)]
  OBVIOUS
<1>1. /\ job[p] \in Job /\ job[p].inserted \in Nat /\ JobOK(p, job[p])
      /\ job[p].pc \in {"stored", "failed"} /\ job \in [Pollers -> Job]
  BY JobTyped DEF Record, Job
<1>2. /\ report' = [report EXCEPT ![p] = rep] /\ claimed' = claimed + job[p].inserted
      /\ job' = [job EXCEPT ![p] = j] /\ UNCHANGED <<now, weather, modeled, health, faults>>
  BY DEF Record
<1>3. Status(p) \in Statuses /\ rep.status = Status(p)
  BY DEF Status, Statuses, Recorded
<1>4. rep \in Report
  <2>1. job[p].errors \union job[p].todo \in SUBSET Call
    BY <1>1 DEF Job
  <2>2. {r \in job[p].batch : ~Stored(r)} \in SUBSET Reading
    BY <1>1 DEF Job
  <2>. QED  BY <1>3, <2>1, <2>2 DEF Recorded, Report
<1>5. rep.status = "success" => rep.missing = {} /\ rep.unstored = {}
  <2>. SUFFICES ASSUME rep.status = "success" PROVE rep.missing = {} /\ rep.unstored = {}
    OBVIOUS
  <2>1. job[p].pc = "stored" /\ job[p].errors = {}
    BY <1>1, <1>3 DEF Status
  <2>2. job[p].todo = {}
    BY <1>1, <2>1 DEF JobOK
  <2>3. \A r \in job[p].batch : Stored(r)
    <3>1. \A r \in job[p].batch : r.feed \in {"weather", "modeled_aq"}
      BY <1>1 DEF Job, Reading
    <3>. QED  BY <1>1, <2>1, <3>1 DEF JobOK, Stored
  <2>. QED  BY <2>1, <2>2, <2>3 DEF Recorded
<1>6. /\ j \in Job /\ j.pc = "recorded" /\ j.status = rep.status /\ j.batch = {}
      /\ j.inserted = 0
  BY <1>3 DEF Idle, Job, Day
<1>7. report \in [Pollers -> Report]
  BY DEF IInv, Typed
<1>8. JobOK(p, j)'
  BY <1>2, <1>6, <1>7, FS_EmptySet DEF JobOK
<1>9. job' \in [Pollers -> Job] /\ JobsOK'
  <2>1. \A q \in Pollers \ {p} : report'[q] = report[q]
    BY <1>2, <1>7
  <2>. QED  BY <1>2, <1>6, <1>8, <2>1, JobBecomes DEF IInv
<1>10. Typed'
  <2>1. report' \in [Pollers -> Report]
    BY <1>2, <1>4, <1>7
  <2>2. claimed' \in Nat
    BY <1>1, <1>2 DEF IInv, Typed
  <2>. QED  BY <1>2, <1>9, <2>1, <2>2 DEF IInv, Typed, Keys, others
<1>11. Owned'
  <2>1. /\ job'[p].inserted = 0
        /\ \A q \in Pollers \ {p} : job'[q].inserted = job[q].inserted
    BY <1>1, <1>2, <1>6
  <2>. QED  BY <1>2, <1>10, <2>1, OwnedRecorded DEF IInv, others
<1>12. SuccessIsStored'
  BY <1>2, <1>5, <1>7 DEF IInv, SuccessIsStored
<1>13. HealthIsRecorded'
  BY <1>1, <1>2, <1>6, <1>7 DEF IInv, HealthIsRecorded
<1>. QED  BY <1>9, <1>10, <1>11, <1>12, <1>13 DEF IInv

-----------------------------------------------------------------------------
(* Steps of the backfill *)

pollerVars == <<now, modeled, report, claimed, health, job, faults>>

\* A step of the backfill keeps what is known of the pollers.
LEMMA PollersKept ==
    ASSUME IInv, UNCHANGED pollerVars, weather \subseteq weather',
           weather' \subseteq Locations \X Day, IsFiniteSet(weather'),
           manifest' \in [Keys -> [status: {"none", "success", "failed"}, written: Nat]],
           load' \in Load
    PROVE  Typed' /\ JobsOK' /\ SuccessIsStored' /\ HealthIsRecorded'
<1>1. Typed'
  BY DEF IInv, Typed, Keys, pollerVars
<1>2. JobsOK'
  BY DEF IInv, JobsOK, JobOK, pollerVars
<1>3. SuccessIsStored' /\ HealthIsRecorded'
  BY DEF IInv, SuccessIsStored, HealthIsRecorded, pollerVars
<1>. QED  BY <1>1, <1>2, <1>3

\* A step of the backfill that inserts nothing and raises no claim.
LEMMA QuietLoad ==
    ASSUME IInv, UNCHANGED pollerVars, weather' = weather,
           NEW l \in Load, load' = l, l.written <= load.written,
           manifest' \in [Keys -> [status: {"none", "success", "failed"}, written: Nat]],
           \A k \in Keys : manifest'[k].written <= manifest[k].written
    PROVE  IInv'
<1>1. Typed' /\ JobsOK' /\ SuccessIsStored' /\ HealthIsRecorded'
  BY PollersKept DEF IInv, Typed
<1>2. \A q \in Pollers : job'[q].inserted <= job[q].inserted
  BY DEF pollerVars, IInv, Typed, Job
<1>3. Owned'
  BY <1>1, <1>2, OwnedKept DEF IInv, pollerVars
<1>. QED  BY <1>1, <1>3 DEF IInv

\* What IInv says of the backfill.
LEMMA LoadTyped ==
    ASSUME IInv
    PROVE  /\ load \in Load /\ load.written \in Nat
           /\ manifest \in [Keys -> [status: {"none", "success", "failed"}, written: Nat]]
           /\ \A k \in Keys : manifest[k].written <= manifest[k].written
           /\ Backfill!Idle \in Load /\ Backfill!Idle.written <= load.written
<1>1. load \in Load /\ load.written \in Nat
  BY DEF IInv, Typed, Load
<1>2. manifest \in [Keys -> [status: {"none", "success", "failed"}, written: Nat]]
  BY DEF IInv, Typed
<1>3. \A k \in Keys : manifest[k].written <= manifest[k].written
  BY <1>2
<1>4. Backfill!Idle \in Load /\ Backfill!Idle.written = 0
  BY DEF Backfill!Idle, Load
<1>. QED  BY <1>1, <1>2, <1>3, <1>4

\* A run plans the months of its range for every location.
LEMMA BackfillBegins == ASSUME IInv, Backfill!Begin, UNCHANGED pollerVars PROVE IInv'
<1>1. PICK from \in Backfill!Days, to \in Backfill!Days :
         load' = [Backfill!Idle EXCEPT !.pc = "next", !.from = from, !.to = to,
                     !.todo = Locations \X Backfill!MonthWindows(from, to)]
  BY DEF Backfill!Begin
<1>2. /\ from \in Int /\ to \in Int
      /\ \A d \in from..to : d \in 0..LastDay
  BY BackfillAssumption DEF Backfill!Days
<1>3. Locations \X Backfill!MonthWindows(from, to) \in SUBSET Windows
  <2>1. ASSUME NEW m \in Backfill!Month(from)..Backfill!Month(to)
        PROVE  /\ m \in Int
               /\ {d \in from..to : Backfill!Month(d) = m} \in SUBSET (0..LastDay)
    BY <1>2
  <2>2. Backfill!MonthWindows(from, to) \subseteq [month: Int, days: SUBSET (0..LastDay)]
    BY <2>1 DEF Backfill!MonthWindows
  <2>. QED  BY <2>2 DEF Windows
<1>. PICK l : l = [Backfill!Idle EXCEPT !.pc = "next", !.from = from, !.to = to,
                     !.todo = Locations \X Backfill!MonthWindows(from, to)]
  OBVIOUS
<1>4. l \in Load /\ l.written = 0
  BY <1>2, <1>3 DEF Backfill!Idle, Load
<1>5. load' = l /\ weather' = weather /\ manifest' = manifest
  BY <1>1 DEF Backfill!Begin
<1>6. l.written <= load.written
  BY <1>4, LoadTyped
<1>. QED  BY <1>4, <1>5, <1>6, LoadTyped, QuietLoad

\* A month that is skipped writes nothing.
LEMMA MonthSkipped ==
    ASSUME IInv, NEW w \in load.todo, Backfill!Skip(w), UNCHANGED pollerVars
    PROVE  IInv'
<1>1. load.skipped + 1 \in Nat
  BY LoadTyped DEF Load
<1>. PICK n \in Nat : n = load.skipped + 1
  BY <1>1
<1>. PICK l : l = [load EXCEPT !.todo = @ \ {w}, !.skipped = n]
  OBVIOUS
<1>2. l \in Load /\ l.written = load.written
  BY LoadTyped DEF Load
<1>3. l.written <= load.written
  BY <1>2, LoadTyped
<1>4. load' = l /\ weather' = weather /\ manifest' = manifest
  BY DEF Backfill!Skip
<1>. QED  BY <1>2, <1>3, <1>4, LoadTyped, QuietLoad

\* A month that failed claims no rows.
LEMMA MonthFails ==
    ASSUME IInv, NEW w \in load.todo, Backfill!LoadFails(w), UNCHANGED pollerVars
    PROVE  IInv'
<1>1. load.attempted + 1 \in Nat /\ load.failures + 1 \in Nat
  BY LoadTyped DEF Load
<1>. PICK m \in Nat, n \in Nat : m = load.attempted + 1 /\ n = load.failures + 1
  BY <1>1
<1>. PICK l : l = [load EXCEPT !.todo = @ \ {w}, !.attempted = m, !.failures = n]
  OBVIOUS
<1>. PICK key : key = <<w[1], w[2].month>>
  OBVIOUS
<1>2. l \in Load /\ l.written = load.written
  BY LoadTyped DEF Load
<1>3. l.written <= load.written
  BY <1>2, LoadTyped
<1>4. /\ load' = l /\ weather' = weather
      /\ manifest' = [manifest EXCEPT ![key] = [status |-> "failed", written |-> 0]]
  BY DEF Backfill!LoadFails
<1>5. manifest' \in [Keys -> [status: {"none", "success", "failed"}, written: Nat]]
  BY <1>4, LoadTyped
<1>6. \A k \in Keys : manifest'[k].written <= manifest[k].written
  BY <1>4, LoadTyped
<1>. QED  BY <1>2, <1>3, <1>4, <1>5, <1>6, QuietLoad

\* Between two runs the backfill claims nothing that is not in the manifest.
LEMMA BackfillFinishes == ASSUME IInv, Backfill!Finish, UNCHANGED pollerVars PROVE IInv'
<1>1. load' = Backfill!Idle /\ weather' = weather /\ manifest' = manifest
  BY DEF Backfill!Finish
<1>. QED  BY <1>1, LoadTyped, QuietLoad

\* A run that dies leaves rows that nobody claims.
LEMMA BackfillAborts == ASSUME IInv, Backfill!Abort, UNCHANGED pollerVars PROVE IInv'
<1>1. load' = Backfill!Idle /\ weather' = weather /\ manifest' = manifest
  BY DEF Backfill!Abort
<1>. QED  BY <1>1, LoadTyped, QuietLoad

\* The backfill owns the rows of the month that it was the first to insert.
LEMMA MonthLoaded ==
    ASSUME IInv, NEW w \in load.todo, Backfill!Load(w), UNCHANGED pollerVars
    PROVE  IInv'
<1>. PICK readings : readings = {w[1]} \X w[2].days
  OBVIOUS
<1>. PICK new : new = readings \ weather
  OBVIOUS
<1>1. readings \subseteq Locations \X Day /\ IsFiniteSet(readings)
  <2>1. w \in Windows
    BY LoadTyped DEF Load
  <2>2. w[1] \in Locations /\ w[2].days \in SUBSET (0..LastDay)
    BY <2>1 DEF Windows
  <2>3. IsFiniteSet(w[2].days)
    <3>1. IsFiniteSet(0..LastDay)
      BY BackfillAssumption, FS_Interval
    <3>. QED  BY <2>2, <3>1, FS_Subset
  <2>4. 0..LastDay \subseteq Day
    BY BackfillAssumption DEF Day
  <2>. QED  BY <2>2, <2>3, <2>4, Tagged
<1>2. IsFiniteSet(new) /\ Cardinality(new) \in Nat
  <2>1. new \in SUBSET readings
    OBVIOUS
  <2>. QED  BY <1>1, <2>1, FS_Subset, FS_CardinalityType
<1>3. PICK n \in Nat : n = Cardinality(new)
  BY <1>2
<1>4. load.total + n \in Nat
  BY LoadTyped DEF Load
<1>. PICK total \in Nat : total = load.total + n
  BY <1>4
<1>. PICK l : l = [load EXCEPT !.pc = "loaded", !.fetched = {w}, !.written = n, !.total = total]
  OBVIOUS
<1>5. l \in Load /\ l.written = n
  BY LoadTyped DEF Load
<1>6. load' = l /\ weather' = weather \union readings /\ manifest' = manifest
  BY <1>3 DEF Backfill!Load, Backfill!Cardinality, Cardinality
<1>7. weather' \subseteq Locations \X Day /\ IsFiniteSet(weather')
  BY <1>1, <1>6, FS_Union DEF IInv, Typed
<1>8. Typed' /\ JobsOK' /\ SuccessIsStored' /\ HealthIsRecorded'
  BY <1>5, <1>6, <1>7, LoadTyped, PollersKept
<1>9. Owned'
  <2>. DEFINE N == {"weather"} \X new
  <2>1. IsFiniteSet(N) /\ Cardinality(N) = n
    BY <1>2, <1>3, Tagged
  <2>2. Rows \cap N = {} /\ Rows' = Rows \union N
    BY <1>6 DEF Rows, pollerVars
  <2>. HIDE DEF N
  <2>3. \A q \in Pollers : job'[q].inserted = job[q].inserted
    BY DEF pollerVars
  <2>4. load'.written = Cardinality(N)
    BY <1>5, <1>6, <2>1
  <2>5. Backfiller.kind \in {"poller", "backfill"} /\ claimed' = claimed
    BY DEF Backfiller, pollerVars
  <2>. QED  BY <1>6, <1>8, <2>1, <2>2, <2>3, <2>4, <2>5, OwnedInserted DEF IInv
<1>. QED  BY <1>8, <1>9 DEF IInv

\* The rows of the backfill become rows of a month of the manifest.
LEMMA OwnedListed ==
    ASSUME Typed, Typed', Owned, NEW key, weather' = weather, modeled' = modeled,
           claimed' = claimed, job' = job, load'.written = 0,
           key \in Keys => manifest'[key].written = load.written,
           \A k \in Keys \ {key} : manifest'[k].written = manifest[k].written
    PROVE  Owned'
<1>1. PICK own : Owners(own)
  BY DEF Owned
<1>. PICK new : new = [r \in Rows |-> IF own[r] = Backfiller THEN MonthOf(key) ELSE own[r]]
  OBVIOUS
<1>2. /\ IsFiniteSet(Rows) /\ own = [r \in Rows |-> own[r]] /\ Rows' = Rows
      /\ Backfiller # Recorders /\ \A p : Backfiller # Poller(p)
      /\ \A k : Backfiller # MonthOf(k)
  BY <1>1, RowsCounted DEF Typed, Owners, Rows, Poller, Recorders, Backfiller, MonthOf
<1>3. /\ new = [r \in Rows |-> new[r]]
      /\ \A v : v # Backfiller => Cardinality(Of(own, v)) <= Cardinality(Of(new, v))
      /\ Cardinality(Of(new, MonthOf(key)))
            = Cardinality(Of(own, MonthOf(key))) + Cardinality(Of(own, Backfiller))
  BY <1>2, GivenRows
<1>4. \A v : Cardinality(Of(own, v)) \in Nat /\ Cardinality(Of(new, v)) \in Nat
  BY <1>2, <1>3, OfFinite
<1>5. ASSUME NEW v, v # Backfiller, NEW n \in Nat, n <= Cardinality(Of(own, v))
      PROVE  n <= Cardinality(Of(new, v))
  <2>1. /\ Cardinality(Of(own, v)) <= Cardinality(Of(new, v))
        /\ Cardinality(Of(own, v)) \in Nat /\ Cardinality(Of(new, v)) \in Nat
    BY <1>3, <1>4, <1>5
  <2>. QED  BY <1>5, <2>1
<1>6. claimed' <= Cardinality(Of(new, Recorders))
  <2>1. claimed \in Nat /\ claimed <= Cardinality(Of(own, Recorders))
    BY <1>1 DEF Typed, Owners
  <2>. QED  BY <1>2, <1>5, <2>1
<1>7. ASSUME NEW q \in Pollers PROVE job'[q].inserted <= Cardinality(Of(new, Poller(q)))
  <2>1. job[q].inserted \in Nat /\ job[q].inserted <= Cardinality(Of(own, Poller(q)))
    BY <1>1 DEF Typed, Job, Owners
  <2>. QED  BY <1>2, <1>5, <2>1
<1>8. ASSUME NEW k \in Keys PROVE manifest'[k].written <= Cardinality(Of(new, MonthOf(k)))
  <2>1. CASE k = key
    <3>1. /\ manifest'[k].written = load.written /\ load.written \in Nat
          /\ load.written <= Cardinality(Of(own, Backfiller))
      BY <1>1, <2>1 DEF Typed, Load, Owners
    <3>2. /\ Cardinality(Of(new, MonthOf(k)))
               = Cardinality(Of(own, MonthOf(k))) + Cardinality(Of(own, Backfiller))
          /\ Cardinality(Of(own, MonthOf(k))) \in Nat
          /\ Cardinality(Of(own, Backfiller)) \in Nat
      BY <1>3, <1>4, <2>1
    <3>. QED  BY <3>1, <3>2
  <2>2. CASE k # key
    <3>1. /\ manifest'[k].written = manifest[k].written /\ manifest[k].written \in Nat
          /\ manifest[k].written <= Cardinality(Of(own, MonthOf(k)))
      BY <1>1, <2>2 DEF Typed, Owners
    <3>. QED  BY <1>2, <1>5, <3>1
  <2>. QED  BY <2>1, <2>2
<1>9. load'.written <= Cardinality(Of(new, Backfiller))
  BY <1>4
<1>10. new = [r \in Rows' |-> new[r]] /\ Keys' = Keys
  BY <1>2, <1>3 DEF Keys
<1>11. Owners(new)'
  BY <1>6, <1>7, <1>8, <1>9, <1>10 DEF Owners, Of, Poller, MonthOf, Backfiller, Recorders
<1>. QED  BY <1>11 DEF Owned

\* The row of the manifest claims what was inserted for it.
LEMMA MonthRecorded == ASSUME IInv, Backfill!Record, UNCHANGED pollerVars PROVE IInv'
<1>1. PICK w \in load.fetched :
         /\ manifest' = [manifest EXCEPT ![<<w[1], w[2].month>>] =
                                            [status |-> "success", written |-> load.written]]
         /\ load' = [load EXCEPT !.pc = "next", !.fetched = {}, !.written = 0, !.todo = @ \ {w},
                                 !.attempted = @ + 1]
  BY DEF Backfill!Record
<1>. PICK key : key = <<w[1], w[2].month>>
  OBVIOUS
<1>2. load.attempted + 1 \in Nat
  BY LoadTyped DEF Load
<1>. PICK n \in Nat : n = load.attempted + 1
  BY <1>2
<1>. PICK l : l = [load EXCEPT !.pc = "next", !.fetched = {}, !.written = 0, !.todo = @ \ {w},
                              !.attempted = n]
  OBVIOUS
<1>3. l \in Load /\ l.written = 0 /\ load' = l
  BY <1>1, LoadTyped DEF Load
<1>4. weather' = weather
  BY DEF Backfill!Record
<1>5. manifest' = [manifest EXCEPT ![key] = [status |-> "success", written |-> load.written]]
  BY <1>1
<1>6. manifest' \in [Keys -> [status: {"none", "success", "failed"}, written: Nat]]
  BY <1>5, LoadTyped
<1>7. Typed' /\ JobsOK' /\ SuccessIsStored' /\ HealthIsRecorded'
  BY <1>3, <1>4, <1>6, PollersKept DEF IInv, Typed
<1>8. key \in Keys => manifest'[key].written = load.written
  BY <1>5, LoadTyped
<1>9. \A k \in Keys \ {key} : manifest'[k].written = manifest[k].written
  BY <1>5, LoadTyped
<1>10. Owned'
  BY <1>3, <1>4, <1>7, <1>8, <1>9, OwnedListed DEF IInv, pollerVars
<1>. QED  BY <1>7, <1>10 DEF IInv

-----------------------------------------------------------------------------
(* The invariant *)

\* The tables are empty, and nothing is claimed.
LEMMA InitInv == ASSUME WeatherInit PROVE IInv
<1>. USE DEF WeatherInit, Init, Backfill!Init
<1>1. Typed
  <2>1. now \in Nat /\ now >= Past
    BY PollerAssumption
  <2>2. /\ IsFiniteSet({}) /\ weather = {} /\ modeled = {} /\ claimed = 0 /\ faults = 0
    BY FS_EmptySet
  <2>3. report \in [Pollers -> Report]
    BY DEF Report, Statuses
  <2>4. job \in [Pollers -> Job]
    BY DEF Idle, Job, Statuses, Day
  <2>5. load \in Load
    BY DEF Backfill!Idle, Load
  <2>6. manifest \in [Keys -> [status: {"none", "success", "failed"}, written: Nat]]
    BY DEF Keys
  <2>. QED  BY <2>1, <2>2, <2>3, <2>4, <2>5, <2>6 DEF Typed
<1>2. JobsOK
  BY FS_EmptySet DEF JobsOK, JobOK, Idle
<1>3. Owned
  <2>. DEFINE own == [r \in Rows |-> Recorders]
  <2>1. \A t : Cardinality(Of(own, t)) \in Nat
    BY <1>1, RowsCounted, OfFinite DEF Typed
  <2>2. own = [r \in Rows |-> own[r]]
    OBVIOUS
  <2>. HIDE DEF own
  <2>3. \A t : 0 <= Cardinality(Of(own, t))
    BY <2>1
  <2>4. /\ claimed = 0 /\ load.written = 0
        /\ \A p \in Pollers : job[p].inserted = 0
        /\ \A k \in Keys : manifest[k].written = 0
    BY DEF Idle, Backfill!Idle, Keys
  <2>5. Owners(own)
    BY <2>2, <2>3, <2>4 DEF Owners
  <2>. QED  BY <2>5 DEF Owned
<1>4. SuccessIsStored /\ HealthIsRecorded
  BY DEF SuccessIsStored, HealthIsRecorded
<1>. QED  BY <1>1, <1>2, <1>3, <1>4 DEF IInv

\* One case for every action of the pollers.
LEMMA PollStep ==
    ASSUME IInv, Next, UNCHANGED others
    PROVE  IInv'
<1>1. CASE Tick
  BY <1>1, TickStep
<1>2. CASE \E p \in Pollers : Poll(p)
  <2>1. PICK p \in Pollers : Poll(p)
    BY <1>2
  <2>. QED  BY <2>1, BeginStep, FetchStep, InsertWeatherStep, InsertModeledStep, RecordStep,
               UpdateStep DEF Poll
<1>3. CASE \E p \in Pollers : Raise(p) \/ RecordFails(p) \/ Crash(p)
  BY <1>3, RaiseStep, RecordFailsStep, CrashStep
<1>4. CASE \E p \in Pollers : \E c \in job[p].todo : FetchFails(p, c)
  BY <1>4, FetchFailsStep
<1>. QED  BY <1>1, <1>2, <1>3, <1>4 DEF Next

\* One case for every action of the backfill.
LEMMA BackfillStep ==
    ASSUME IInv, Backfill!Next, UNCHANGED pollerVars
    PROVE  IInv'
BY BackfillBegins, MonthSkipped, MonthLoaded, MonthFails, MonthRecorded, BackfillFinishes,
   BackfillAborts DEF Backfill!Next

\* A step is one of the pollers or one of the backfill.
LEMMA StepInv == IInv /\ [WeatherNext]_<<vars, others>> => IInv'
<1>. SUFFICES ASSUME IInv, [WeatherNext]_<<vars, others>> PROVE IInv'
  OBVIOUS
<1>1. CASE Next /\ UNCHANGED others
  BY <1>1, PollStep
<1>2. CASE Backfill!Next /\ UNCHANGED <<now, modeled, report, claimed, health, job, faults>>
  BY <1>2, BackfillStep DEF pollerVars
<1>3. CASE UNCHANGED <<vars, others>>
  <2>. USE DEF vars, database, others
  <2>1. load \in Load /\ load' = load /\ manifest' = manifest /\ weather' = weather
    BY <1>3, LoadTyped
  <2>. QED  BY <1>3, <2>1, LoadTyped, QuietLoad DEF pollerVars
<1>. QED  BY <1>1, <1>2, <1>3 DEF WeatherNext

\* The invariant holds from the start and through every step.
LEMMA Invariant == Spec => []IInv
<1>1. WeatherInit => IInv
  BY InitInv
<1>. QED  BY <1>1, StepInv, PTL DEF Spec

-----------------------------------------------------------------------------
(* The rows that the manifest claims, summed over its months *)

Sum(S) == MapThenSumSet(LAMBDA key : manifest[key].written, S)

\* The sum as the fold makes it: f adds up every subset of S, in an order that
\* CHOOSE decides.
Some(S) == CHOOSE x \in S : TRUE

Tallies(f, S) ==
    \A T \in SUBSET S : f[T] = IF T = {} THEN 0 ELSE manifest[Some(T)].written + f[T \ {Some(T)}]

\* Of the finite sets with a property that some set has, one has it and no set
\* strictly within it does.
LEMMA SmallestSubset ==
    ASSUME NEW S, IsFiniteSet(S), NEW family \in SUBSET SUBSET S, family # {}
    PROVE  \E A \in family : \A B \in family : B \subseteq A => B = A
<1>. DEFINE R == StrictSubsetOrdering(S)
<1>1. IsWellFoundedOn(R, SUBSET S)
  BY FS_StrictSubsetOrderingWellFounded, FS_FiniteSubsetsOfFinite
<1>. HIDE DEF R
<1>2. PICK A \in family : \A B \in family : ~(<<B, A>> \in R)
  BY <1>1, WFMin
<1>3. ASSUME NEW B \in family, B \subseteq A, B # A PROVE FALSE
  <2>1. <<B, A>> \in R
    BY <1>3 DEF R, StrictSubsetOrdering
  <2>. QED  BY <1>2, <2>1
<1>. QED  BY <1>3

\* Two of these functions agree wherever both are defined.
LEMMA TalliesAgree ==
    ASSUME NEW S, IsFiniteSet(S), NEW f, NEW g, Tallies(f, S), Tallies(g, S)
    PROVE  f[S] = g[S]
<1>. DEFINE Differ == {T \in SUBSET S : f[T] # g[T]}
<1>1. SUFFICES ASSUME Differ # {} PROVE FALSE
  OBVIOUS
<1>2. PICK T \in Differ : \A B \in Differ : B \subseteq T => B = T
  <2>1. Differ \in SUBSET SUBSET S
    OBVIOUS
  <2>. HIDE DEF Differ
  <2>. QED  BY <1>1, <2>1, SmallestSubset
<1>3. /\ f[T] = IF T = {} THEN 0 ELSE manifest[Some(T)].written + f[T \ {Some(T)}]
      /\ g[T] = IF T = {} THEN 0 ELSE manifest[Some(T)].written + g[T \ {Some(T)}]
  BY DEF Tallies
<1>4. T # {} => f[T \ {Some(T)}] = g[T \ {Some(T)}]
  <2>1. ASSUME T # {} PROVE Some(T) \in T
    BY <2>1 DEF Some
  <2>2. T # {} => T \ {Some(T)} # T /\ T \ {Some(T)} \in SUBSET S /\ T \ {Some(T)} \subseteq T
    BY <2>1
  <2>. QED  BY <1>2, <2>2
<1>. QED  BY <1>3, <1>4

\* For every finite set there is such a function.
LEMMA TalliesExist ==
    ASSUME NEW S, IsFiniteSet(S)
    PROVE  \E f : Tallies(f, S)
<1>. DEFINE Without == {T \in SUBSET S : ~\E f : Tallies(f, T)}
<1>1. SUFFICES ASSUME Without # {} PROVE FALSE
  OBVIOUS
<1>2. PICK T \in Without : \A B \in Without : B \subseteq T => B = T
  <2>1. Without \in SUBSET SUBSET S
    OBVIOUS
  <2>. HIDE DEF Without
  <2>. QED  BY <1>1, <2>1, SmallestSubset
<1>. DEFINE On(U) == CHOOSE f : Tallies(f, U)
            f == [U \in SUBSET T |-> IF U = {} THEN 0
                                     ELSE manifest[Some(U)].written + On(U \ {Some(U)})[U \ {Some(U)}]]
<1>3. \A U \in SUBSET T : U # {} => Some(U) \in U
  BY DEF Some
<1>4. \A U \in SUBSET T : U # T => Tallies(On(U), U) /\ IsFiniteSet(U)
  <2>. SUFFICES ASSUME NEW U \in SUBSET T, U # T PROVE Tallies(On(U), U) /\ IsFiniteSet(U)
    OBVIOUS
  <2>1. U \in SUBSET S /\ U \notin Without
    BY <1>2
  <2>2. \E h : Tallies(h, U)
    BY <2>1
  <2>. QED  BY <2>1, <2>2, FS_Subset
<1>. HIDE DEF On
<1>5. ASSUME NEW U \in SUBSET T, U # T PROVE f[U] = On(U)[U]
  <2>1. Tallies(On(U), U)
    BY <1>4, <1>5
  <2>2. On(U)[U] = IF U = {} THEN 0 ELSE manifest[Some(U)].written + On(U)[U \ {Some(U)}]
    BY <2>1 DEF Tallies
  <2>3. CASE U # {}
    <3>. DEFINE V == U \ {Some(U)}
    <3>1. V \in SUBSET T /\ V # T /\ V \subseteq U
      BY <1>5
    <3>2. Tallies(On(V), V) /\ IsFiniteSet(V)
      BY <1>4, <3>1
    <3>3. Tallies(On(U), V)
      BY <2>1, <3>1 DEF Tallies
    <3>. HIDE DEF V
    <3>4. On(V)[V] = On(U)[V]
      BY <3>2, <3>3, TalliesAgree
    <3>. QED  BY <2>2, <2>3, <3>4 DEF V
  <2>. QED  BY <2>2, <2>3
<1>6. Tallies(f, T)
  <2>. SUFFICES ASSUME NEW U \in SUBSET T
                PROVE  f[U] = IF U = {} THEN 0 ELSE manifest[Some(U)].written + f[U \ {Some(U)}]
    BY DEF Tallies
  <2>1. CASE U # {}
    <3>1. Some(U) \in U
      BY <1>3, <2>1
    <3>2. U \ {Some(U)} \in SUBSET T /\ U \ {Some(U)} # T
      BY <3>1
    <3>3. f[U \ {Some(U)}] = On(U \ {Some(U)})[U \ {Some(U)}]
      BY <1>5, <3>2
    <3>. QED  BY <2>1, <3>3
  <2>. QED  BY <2>1
<1>. HIDE DEF f
<1>. QED  BY <1>6

\* The sum is what the fold's recursion says.
LEMMA SumFolds ==
    ASSUME NEW S, IsFiniteSet(S), S # {}
    PROVE  /\ Some(S) \in S
           /\ Sum(S) = manifest[Some(S)].written + Sum(S \ {Some(S)})
<1>. DEFINE IsFold(f, T) == f = [U \in SUBSET T |-> IF U = {} THEN 0
                                    ELSE LET x == CHOOSE x \in U : TRUE
                                         IN  manifest[x].written + f[U \ {x}]]
            Fold(T) == CHOOSE f : IsFold(f, T)
<1>1. \A T : Sum(T) = Fold(T)[T]
  BY DEF Sum, MapThenSumSet, MapThenFoldSet
<1>2. \A T : IsFiniteSet(T) => Tallies(Fold(T), T)
  <2>. SUFFICES ASSUME NEW T, IsFiniteSet(T) PROVE Tallies(Fold(T), T)
    OBVIOUS
  <2>1. PICK g : Tallies(g, T)
    BY TalliesExist
  <2>. DEFINE f == [U \in SUBSET T |-> g[U]]
  <2>2. f = [U \in SUBSET T |-> IF U = {} THEN 0
                                ELSE LET x == CHOOSE x \in U : TRUE IN manifest[x].written + f[U \ {x}]]
    <3>1. ASSUME NEW U \in SUBSET T
          PROVE  f[U] = IF U = {} THEN 0
                        ELSE LET x == CHOOSE x \in U : TRUE IN manifest[x].written + f[U \ {x}]
      <4>1. f[U] = IF U = {} THEN 0 ELSE manifest[Some(U)].written + g[U \ {Some(U)}]
        BY <2>1 DEF Tallies
      <4>2. U \ {Some(U)} \in SUBSET T
        OBVIOUS
      <4>3. f[U \ {Some(U)}] = g[U \ {Some(U)}]
        BY <4>2
      <4>. HIDE DEF f
      <4>. QED  BY <4>1, <4>3 DEF Some
    <3>2. f = [U \in SUBSET T |-> f[U]]
      OBVIOUS
    <3>. HIDE DEF f
    <3>. QED  BY <3>1, <3>2
  <2>3. IsFold(f, T)
    BY <2>2
  <2>. HIDE DEF f
  <2>4. IsFold(Fold(T), T)
    BY <2>3
  <2>. DEFINE h == Fold(T)
  <2>5. h = [U \in SUBSET T |-> IF U = {} THEN 0
                                ELSE LET x == CHOOSE x \in U : TRUE IN manifest[x].written + h[U \ {x}]]
    BY <2>4
  <2>. HIDE DEF h
  <2>6. Tallies(h, T)
    BY <2>5 DEF Tallies, Some
  <2>. QED  BY <2>6 DEF h
<1>. HIDE DEF Fold
<1>3. Some(S) \in S
  BY DEF Some
<1>. DEFINE T == S \ {Some(S)}
<1>4. IsFiniteSet(T) /\ T \subseteq S
  BY FS_Subset
<1>5. Tallies(Fold(S), T)
  BY <1>2, <1>4 DEF Tallies
<1>6. Fold(S)[T] = Fold(T)[T]
  <2>. HIDE DEF T
  <2>. QED  BY <1>2, <1>4, <1>5, TalliesAgree
<1>7. Fold(S)[S] = manifest[Some(S)].written + Fold(S)[T]
  BY <1>2 DEF Tallies
<1>. QED  BY <1>1, <1>3, <1>6, <1>7

\* No months claim no rows.
LEMMA SumEmpty == Sum({}) = 0
<1>1. IsFiniteSet({})
  BY FS_EmptySet
<1>. DEFINE IsFold(f) == f = [U \in SUBSET {} |-> IF U = {} THEN 0
                                ELSE LET x == CHOOSE x \in U : TRUE IN manifest[x].written + f[U \ {x}]]
            f == [U \in SUBSET {} |-> 0]
<1>2. \A U \in SUBSET {} : U = {}
  OBVIOUS
<1>3. IsFold(f)
  BY <1>2
<1>. HIDE DEF f
<1>. DEFINE g == CHOOSE h : IsFold(h)
<1>4. IsFold(g)
  BY <1>3
<1>5. Sum({}) = g[{}]
  BY DEF Sum, MapThenSumSet, MapThenFoldSet
<1>6. {} \in SUBSET {}
  OBVIOUS
<1>. HIDE DEF g
<1>. QED  BY <1>4, <1>5, <1>6

\* The rows that months of S own.
OfMonths(own, S) == {r \in DOMAIN own : \E k \in S : own[r] = MonthOf(k)}

\* The months of a set claim no more than they own.
LEMMA SumBounded ==
    ASSUME Typed, NEW R, IsFiniteSet(R), NEW own, own = [r \in R |-> own[r]],
           \A k \in Keys : manifest[k].written <= Cardinality(Of(own, MonthOf(k))),
           IsFiniteSet(Keys)
    PROVE  Sum(Keys) \in Nat /\ Sum(Keys) <= Cardinality(OfMonths(own, Keys))
<1>. DEFINE Wrong == {S \in SUBSET Keys :
                         ~(Sum(S) \in Nat /\ Sum(S) <= Cardinality(OfMonths(own, S)))}
<1>1. SUFFICES ASSUME Wrong # {} PROVE FALSE
  OBVIOUS
<1>2. PICK S \in Wrong : \A B \in Wrong : B \subseteq S => B = S
  <2>1. Wrong \in SUBSET SUBSET Keys
    OBVIOUS
  <2>. HIDE DEF Wrong
  <2>. QED  BY <1>1, <2>1, SmallestSubset
<1>3. \A T : IsFiniteSet(OfMonths(own, T)) /\ Cardinality(OfMonths(own, T)) \in Nat
  <2>. SUFFICES ASSUME NEW T
                PROVE  IsFiniteSet(OfMonths(own, T)) /\ Cardinality(OfMonths(own, T)) \in Nat
    OBVIOUS
  <2>1. OfMonths(own, T) \in SUBSET R
    BY DEF OfMonths
  <2>. QED  BY <2>1, FS_Subset, FS_CardinalityType
<1>4. S # {}
  <2>1. ASSUME S = {} PROVE Sum(S) \in Nat /\ Sum(S) <= Cardinality(OfMonths(own, S))
    BY <1>3, <2>1, SumEmpty
  <2>. QED  BY <2>1
<1>5. IsFiniteSet(S)
  BY FS_Subset
<1>. PICK k : k = Some(S)
  OBVIOUS
<1>. PICK T : T = S \ {k}
  OBVIOUS
<1>6. k \in S /\ Sum(S) = manifest[k].written + Sum(T)
  BY <1>4, <1>5, SumFolds
<1>7. Sum(T) \in Nat /\ Sum(T) <= Cardinality(OfMonths(own, T))
  <2>1. T \in SUBSET Keys /\ T # S /\ T \subseteq S
    BY <1>6
  <2>. QED  BY <1>2, <2>1
<1>8. /\ manifest[k].written \in Nat
      /\ manifest[k].written <= Cardinality(Of(own, MonthOf(k)))
  BY <1>6 DEF Typed
<1>9. Cardinality(OfMonths(own, S)) = Cardinality(OfMonths(own, T)) + Cardinality(Of(own, MonthOf(k)))
  <2>1. OfMonths(own, S) = OfMonths(own, T) \union Of(own, MonthOf(k))
    BY <1>6 DEF OfMonths, Of
  <2>2. OfMonths(own, T) \cap Of(own, MonthOf(k)) = {}
    <3>1. \A l \in T : MonthOf(l) # MonthOf(k)
      BY DEF MonthOf
    <3>. QED  BY <3>1 DEF OfMonths, Of
  <2>3. IsFiniteSet(Of(own, MonthOf(k)))
    BY OfFinite
  <2>. QED  BY <1>3, <2>1, <2>2, <2>3, Disjoint
<1>10. Sum(S) \in Nat /\ Sum(S) <= Cardinality(OfMonths(own, S))
  <2>1. /\ Cardinality(Of(own, MonthOf(k))) \in Nat /\ Cardinality(OfMonths(own, T)) \in Nat
    BY <1>3, OfFinite
  <2>. QED  BY <1>6, <1>7, <1>8, <1>9, <2>1
<1>. QED  BY <1>10

\* The months that the backfill can load are finitely many.
LEMMA KeysFinite == IsFiniteSet(Keys)
<1>1. Backfill!Month(0) \in Int /\ Backfill!Month(LastDay) \in Int
  BY BackfillAssumption DEF Backfill!Month
<1>2. IsFiniteSet(Backfill!Month(0)..Backfill!Month(LastDay)) /\ IsFiniteSet(Locations)
  BY <1>1, PollerAssumption, FS_Interval
<1>. QED  BY <1>2, FS_Product DEF Keys

-----------------------------------------------------------------------------
(* The properties *)

\* Readings, reports and the variables of the pollers have the types of the tables
\* and of services/weather_poller/main.py, and the manifest knows three statuses.
THEOREM TypeCorrect == Spec => []TypeOK
<1>1. IInv => TypeOK
  BY DEF IInv, Typed, TypeOK, Day, Keys
<1>. QED  BY Invariant, <1>1, PTL

\* A poll that main.py records as a success asked every location for every feed, and
\* all that it was given is in the tables.
THEOREM SuccessMeansStored == Spec => []SuccessIsStored
BY Invariant, PTL DEF IInv

\* A poller that says it is healthy has a success on record, but for the time from
\* the record to HealthState.update.
THEOREM HealthFollowsRecord == Spec => []HealthIsRecorded
BY Invariant, PTL DEF IInv

\* pipeline_runs and backfill_manifest together never claim more rows than there are,
\* whatever days pollers and backfill fetch again.
THEOREM ClaimsAreRows == Spec => []RowsAreClaimedOnce
<1>1. IInv => RowsAreClaimedOnce
  <2>. SUFFICES ASSUME IInv PROVE RowsAreClaimedOnce
    OBVIOUS
  <2>1. PICK own : Owners(own)
    BY DEF IInv, Owned
  <2>2. /\ IsFiniteSet(Rows) /\ own = [r \in Rows |-> own[r]]
        /\ Cardinality(Rows) = Cardinality(weather) + Cardinality(modeled)
    BY <2>1, RowsCounted DEF IInv, Typed, Owners
  <2>3. Written = Sum(Keys)
    BY DEF Written, Sum, IInv, Typed
  <2>4. Sum(Keys) \in Nat /\ Sum(Keys) <= Cardinality(OfMonths(own, Keys))
    BY <2>1, <2>2, KeysFinite, SumBounded DEF IInv, Owners
  <2>5. claimed \in Nat /\ claimed <= Cardinality(Of(own, Recorders))
    BY <2>1 DEF IInv, Typed, Owners
  <2>6. /\ IsFiniteSet(OfMonths(own, Keys)) /\ Cardinality(OfMonths(own, Keys)) \in Nat
        /\ IsFiniteSet(Of(own, Recorders)) /\ Cardinality(Of(own, Recorders)) \in Nat
    <3>1. OfMonths(own, Keys) \in SUBSET Rows
      BY <2>2 DEF OfMonths
    <3>. QED  BY <2>2, <3>1, OfFinite, FS_Subset, FS_CardinalityType
  <2>. PICK C : C = Of(own, Recorders) \union OfMonths(own, Keys)
    OBVIOUS
  <2>7. Cardinality(C) = Cardinality(Of(own, Recorders)) + Cardinality(OfMonths(own, Keys))
    <3>1. Of(own, Recorders) \cap OfMonths(own, Keys) = {}
      <4>1. \A k \in Keys : MonthOf(k) # Recorders
        BY DEF Recorders, MonthOf
      <4>. QED  BY <4>1 DEF Of, OfMonths
    <3>. QED  BY <2>6, <3>1, Disjoint
  <2>8. Cardinality(C) <= Cardinality(Rows)
    <3>1. C \in SUBSET Rows
      BY <2>2 DEF Of, OfMonths
    <3>. QED  BY <2>2, <3>1, FS_Subset
  <2>9. Cardinality(Rows) \in Nat
    BY <2>2, FS_CardinalityType
  <2>10. claimed + Sum(Keys) <= Cardinality(Rows)
    BY <2>4, <2>5, <2>6, <2>7, <2>8, <2>9
  <2>. QED  BY <2>2, <2>3, <2>10 DEF RowsAreClaimedOnce
<1>. QED  BY Invariant, <1>1, PTL
=============================================================================
