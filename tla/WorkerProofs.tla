---------------------------- MODULE WorkerProofs ----------------------------
(***************************************************************************)
(* Proof that the worker respects its backoff and its fixed rate, and that *)
(* its health and what the API makes of it show every failure, for any     *)
(* components, intervals and backoff settings main accepts, and however    *)
(* long its runs take.                                                     *)
(***************************************************************************)
EXTENDS Worker, WellFoundedInduction, NaturalsInduction, TLAPS

\* A run started no earlier than its tick: this is what makes the time of its
\* result a time after that tick, from which NextTick can count.
StartedWhenDue == \A c \in Components : Running(c) => nextTick[c] <= started[c]

\* What is on record of a component that failed: while it waits its status says
\* so, and while it is retried the backoff of its last failure still does.
FailureOnRecord ==
    \A c \in Components :
        health[c].failures > 0 =>
            /\ health[c].backoffUntil # None
            /\ Running(c) \/ health[c].status = "failed"

IInv == TypeOK /\ StartedWhenDue /\ RespectsBackoff /\ NoBurstNoGap /\ FailureOnRecord

-----------------------------------------------------------------------------
(* 2 ** n: a recursive function over Nat has to be shown to exist *)

\* A set of numbers that is not empty has a least one.
LEMMA LeastNumber ==
    ASSUME NEW S \in SUBSET Nat, S # {}
    PROVE  \E m \in S : \A k \in S : m <= k
  <1> DEFINE R == OpToRel(<, Nat)
  <1>1. IsWellFoundedOn(R, Nat)
    BY NatLessThanWellFounded
  <1>2. \A k, m \in Nat : k < m => <<k, m>> \in R
    BY DEF OpToRel
  <1> HIDE DEF R
  <1>3. PICK m \in S : \A k \in S : ~(<<k, m>> \in R)
    BY <1>1, WFMin
  <1>4. m \in Nat /\ \A k \in S : k \in Nat /\ ~(k < m)
    BY <1>2, <1>3
  <1> QED
    BY <1>4

\* What PowerOfTwo says of each number up to n, of any function f.
Doubles(f, n) == \A i \in 0..n : f[i] = IF i = 0 THEN 1 ELSE 2 * f[i - 1]

\* There is such a function up to every n.
LEMMA DoublesExist ==
    ASSUME NEW n \in Nat
    PROVE  \E f : Doubles(f, n)
  <1> DEFINE Without == {k \in Nat : ~\E f : Doubles(f, k)}
  <1>1. SUFFICES ASSUME Without # {} PROVE FALSE
    OBVIOUS
  <1>2. PICK m \in Without : \A k \in Without : m <= k
    <2>1. Without \in SUBSET Nat
      OBVIOUS
    <2> HIDE DEF Without
    <2> QED
      BY <1>1, <2>1, LeastNumber
  <1>3. CASE m = 0
    <2> DEFINE f == [i \in 0..0 |-> 1]
    <2>1. Doubles(f, 0)
      BY DEF Doubles
    <2> QED
      BY <1>3, <2>1
  <1>4. CASE m # 0
    <2>1. m - 1 \in Nat /\ m - 1 \notin Without
      BY <1>2, <1>4
    <2>2. PICK g : Doubles(g, m - 1)
      BY <2>1
    <2> DEFINE f == [i \in 0..m |-> IF i = m THEN 2 * g[m - 1] ELSE g[i]]
    <2>3. ASSUME NEW i \in 0..m PROVE f[i] = IF i = 0 THEN 1 ELSE 2 * f[i - 1]
      <3>1. CASE i = m
        BY <1>4, <3>1
      <3>2. CASE i # m
        <4>1. i \in 0..m - 1 /\ f[i] = g[i] /\ (i # 0 => f[i - 1] = g[i - 1])
          BY <3>2
        <4>2. g[i] = IF i = 0 THEN 1 ELSE 2 * g[i - 1]
          BY <2>2, <4>1 DEF Doubles
        <4> QED
          BY <4>1, <4>2
      <3> QED
        BY <3>1, <3>2
    <2>4. Doubles(f, m)
      <3> HIDE DEF f
      <3> QED
        BY <2>3 DEF Doubles
    <2> QED
      BY <2>4
  <1> QED
    BY <1>3, <1>4

\* Any two of them agree as far as the shorter one goes.
LEMMA DoublesAgree ==
    ASSUME NEW n \in Nat, NEW m \in Nat, n <= m,
           NEW f, NEW g, Doubles(f, n), Doubles(g, m)
    PROVE  f[n] = g[n]
  <1> DEFINE Differ == {k \in 0..n : f[k] # g[k]}
  <1>1. SUFFICES ASSUME Differ # {} PROVE FALSE
    BY <1>1
  <1>2. PICK k \in Differ : \A j \in Differ : k <= j
    <2>1. Differ \in SUBSET Nat
      OBVIOUS
    <2> HIDE DEF Differ
    <2> QED
      BY <1>1, <2>1, LeastNumber
  <1>3. /\ f[k] = IF k = 0 THEN 1 ELSE 2 * f[k - 1]
        /\ g[k] = IF k = 0 THEN 1 ELSE 2 * g[k - 1]
    BY DEF Doubles
  <1>4. k # 0 => f[k - 1] = g[k - 1]
    BY <1>2
  <1> QED
    BY <1>3, <1>4

\* PowerOfTwo is what its recursion says.
LEMMA PowerOfTwoDoubles ==
    ASSUME NEW n \in Nat
    PROVE  PowerOfTwo[n] = IF n = 0 THEN 1 ELSE 2 * PowerOfTwo[n - 1]
  <1> DEFINE Upto(k) == CHOOSE f : Doubles(f, k)
             F == [k \in Nat |-> Upto(k)[k]]
  <1>1. \A k \in Nat : Doubles(Upto(k), k)
    <2> TAKE k \in Nat
    <2>1. \E f : Doubles(f, k)
      BY DoublesExist
    <2> QED
      BY <2>1
  <1> HIDE DEF Upto
  <1>2. ASSUME NEW k \in Nat PROVE F[k] = IF k = 0 THEN 1 ELSE 2 * F[k - 1]
    <2>1. Upto(k)[k] = IF k = 0 THEN 1 ELSE 2 * Upto(k)[k - 1]
      BY <1>1 DEF Doubles
    <2>2. CASE k # 0
      <3>1. k - 1 \in Nat /\ k - 1 <= k /\ Doubles(Upto(k - 1), k - 1) /\ Doubles(Upto(k), k)
        BY <1>1, <2>2
      <3>2. Doubles(Upto(k), k - 1)
        BY <3>1 DEF Doubles
      <3>3. Upto(k - 1)[k - 1] = Upto(k)[k - 1]
        BY <3>1, DoublesAgree
      <3> QED
        BY <2>1, <2>2, <3>1, <3>3
    <2> QED
      BY <2>1, <2>2
  <1>3. F = [k \in Nat |-> IF k = 0 THEN 1 ELSE 2 * F[k - 1]]
    <2>1. F = [k \in Nat |-> F[k]]
      OBVIOUS
    <2> HIDE DEF F
    <2> QED
      BY <1>2, <2>1
  <1> HIDE DEF F
  <1>4. PowerOfTwo = [k \in Nat |-> IF k = 0 THEN 1 ELSE 2 * PowerOfTwo[k - 1]]
    BY <1>3 DEF PowerOfTwo
  <1> QED
    BY <1>4

\* No power of two is zero, whatever the number of failures.
LEMMA PowerOfTwoPositive ==
    ASSUME NEW n \in Nat
    PROVE  PowerOfTwo[n] \in Nat \ {0}
  <1> DEFINE Wrong == {k \in Nat : PowerOfTwo[k] \notin Nat \ {0}}
  <1>1. SUFFICES ASSUME Wrong # {} PROVE FALSE
    OBVIOUS
  <1>2. PICK m \in Wrong : \A k \in Wrong : m <= k
    <2>1. Wrong \in SUBSET Nat
      OBVIOUS
    <2> HIDE DEF Wrong
    <2> QED
      BY <1>1, <2>1, LeastNumber
  <1>3. PowerOfTwo[m] = IF m = 0 THEN 1 ELSE 2 * PowerOfTwo[m - 1]
    BY PowerOfTwoDoubles
  <1>4. CASE m # 0
    <2>1. m - 1 \in Nat /\ m - 1 \notin Wrong
      BY <1>2, <1>4
    <2>2. PowerOfTwo[m - 1] \in Nat \ {0}
      BY <2>1
    <2> QED
      BY <1>3, <1>4, <2>2
  <1> QED
    BY <1>3, <1>4

-----------------------------------------------------------------------------
(* The delays *)

\* _backoff_seconds never returns more than the maximum, nor, after a failure,
\* less than a second.
LEMMA BackoffBounded ==
    ASSUME NEW n \in Nat \ {0}
    PROVE  BackoffSeconds(n) \in Nat \ {0} /\ BackoffSeconds(n) <= BackoffMax
  <1>1. n - 1 \in Nat /\ ~(n <= 0)
    OBVIOUS
  <1>2. PowerOfTwo[n - 1] \in Nat \ {0}
    BY <1>1, PowerOfTwoPositive
  <1> DEFINE delay == BackoffInitial * PowerOfTwo[n - 1]
  <1>3. delay \in Nat \ {0}
    BY <1>2, SettingsAssumption
  <1>4. BackoffSeconds(n) = IF delay <= BackoffMax THEN delay ELSE BackoffMax
    BY <1>1 DEF BackoffSeconds
  <1> HIDE DEF delay
  <1> QED
    BY <1>3, <1>4, SettingsAssumption

\* The next tick lies after t, by at most an interval.
LEMMA NextTickFollows ==
    ASSUME NEW c \in Components, NEW previous \in Nat, NEW t \in Nat, previous <= t
    PROVE  /\ NextTick(c, previous, t) \in Nat
           /\ t < NextTick(c, previous, t)
           /\ NextTick(c, previous, t) <= t + Interval[c]
  <1> DEFINE I == Interval[c]
             k == (t - previous) \div I
  <1>1. I \in Nat \ {0}
    BY SettingsAssumption
  <1> HIDE DEF I
  <1>2. k \in Nat /\ k * I <= t - previous /\ t - previous < (k + 1) * I
    BY <1>1
  <1>3. (k + 1) * I = k * I + I /\ k * I \in Nat
    BY <1>1, <1>2
  <1>4. NextTick(c, previous, t) = previous + (k + 1) * I
    BY DEF NextTick, I
  <1> HIDE DEF k
  <1>5. /\ previous + (k + 1) * I \in Nat
        /\ t < previous + (k + 1) * I
        /\ previous + (k + 1) * I <= t + I
    BY <1>1, <1>2, <1>3
  <1> QED
    BY <1>4, <1>5 DEF I

\* Initially no component has run.
LEMMA InitInv == Init => IInv
  BY SettingsAssumption DEF Init, IInv, TypeOK, Health, IdleHealth, None, StartedWhenDue,
     RespectsBackoff, NoBurstNoGap, FailureOnRecord, Running

\* A run begins: its tick lies behind it, and so does the backoff.
LEMMA StartStep ==
    ASSUME IInv, NEW c \in Components, Start(c)
    PROVE  IInv'
  <1> USE DEF IInv, TypeOK
  <1>1. health[c] \in Health
    OBVIOUS
  <1>2. /\ health' = [health EXCEPT ![c] = MarkStarted(health[c])]
        /\ started' = [started EXCEPT ![c] = now] /\ now \in Nat
        /\ nextTick[c] <= now
        /\ UNCHANGED <<now, alive, nextTick, restarts>>
    BY DEF Start, Due
  <1>3. /\ MarkStarted(health[c]) \in Health
        /\ MarkStarted(health[c]).backoffUntil = health[c].backoffUntil
        /\ MarkStarted(health[c]).failures = health[c].failures
    BY <1>1 DEF MarkStarted, Health
  <1>4. TypeOK'
    BY <1>2, <1>3
  <1>5. ~Running(c) /\ started'[c] = now /\ now # None
    BY <1>2 DEF Start, None
  <1>6. \A d \in Components \ {c} : started'[d] = started[d] /\ health'[d] = health[d]
    BY <1>2
  <1>7. StartedWhenDue' /\ NoBurstNoGap'
    BY <1>2, <1>5, <1>6 DEF StartedWhenDue, NoBurstNoGap, Running
  <1>8. health[c].backoffUntil \in Int /\ health[c].backoffUntil <= nextTick[c]
    BY <1>1, <1>5 DEF RespectsBackoff, Health, None
  <1>9. health'[c].backoffUntil <= now
    BY <1>2, <1>3, <1>8
  <1>10. RespectsBackoff'
    BY <1>2, <1>5, <1>6, <1>9 DEF RespectsBackoff, Running
  <1>11. FailureOnRecord'
    BY <1>2, <1>3, <1>5, <1>6 DEF FailureOnRecord, Running
  <1> QED
    BY <1>4, <1>7, <1>10, <1>11

\* What a run leaves behind when it has ended at t, whatever its result: the
\* health record h and the next tick u.
LEMMA EndStep ==
    ASSUME IInv, NEW c \in Components, NEW t \in Nat, NEW h \in Health, NEW u \in Nat,
           health' = [health EXCEPT ![c] = h],
           nextTick' = [nextTick EXCEPT ![c] = u],
           Sleep(c), UNCHANGED <<now, alive, restarts>>,
           h.finished = t, h.backoffUntil <= u,
           h.failures > 0 => h.backoffUntil # None /\ h.status = "failed",
           t < u, u <= t + Later(Interval[c], BackoffMax)
    PROVE  IInv'
  <1> USE DEF IInv, TypeOK
  <1>1. started' = [started EXCEPT ![c] = None]
    BY DEF Sleep
  <1>2. TypeOK'
    BY <1>1
  <1>3. health'[c] = h /\ nextTick'[c] = u /\ started'[c] = None
    BY <1>1
  <1>4. \A d \in Components \ {c} :
           started'[d] = started[d] /\ health'[d] = health[d] /\ nextTick'[d] = nextTick[d]
    BY <1>1
  <1>5. StartedWhenDue' /\ RespectsBackoff'
    BY <1>3, <1>4 DEF StartedWhenDue, RespectsBackoff, Running
  <1>6. NoBurstNoGap'
    BY <1>3, <1>4 DEF NoBurstNoGap, Running
  <1>7. FailureOnRecord'
    BY <1>3, <1>4 DEF FailureOnRecord, Running
  <1> QED
    BY <1>2, <1>5, <1>6, <1>7

\* A run that succeeds: the next tick of the schedule.
LEMMA SucceedStep ==
    ASSUME IInv, NEW c \in Components, NEW t \in Times,
           NEW status \in {"success", "partial"}, Succeed(c, t, status)
    PROVE  IInv'
  <1> DEFINE h == MarkSucceeded(health[c], t, status)
             u == NextTick(c, nextTick[c], t)
  <1>1. t \in Nat /\ nextTick[c] \in Nat /\ nextTick[c] <= t
    BY SettingsAssumption DEF Succeed, IInv, TypeOK, StartedWhenDue, Times, Running, None
  <1>2. u \in Nat /\ t < u /\ u <= t + Interval[c]
    BY <1>1, NextTickFollows
  <1>3. u <= t + Later(Interval[c], BackoffMax)
    BY <1>1, <1>2, SettingsAssumption DEF Later
  <1>4. h \in Health /\ h.finished = t /\ h.backoffUntil = None /\ h.failures = 0
    BY <1>1 DEF MarkSucceeded, Health, None
  <1>5. h.backoffUntil <= u
    BY <1>2, <1>4 DEF None
  <1>6. /\ health' = [health EXCEPT ![c] = h]
        /\ nextTick' = [nextTick EXCEPT ![c] = u]
        /\ Sleep(c) /\ UNCHANGED <<now, alive, restarts>>
    BY DEF Succeed
  <1>7. ~(h.failures > 0)
    BY <1>4
  <1> HIDE DEF h, u
  <1> QED
    BY <1>1, <1>2, <1>3, <1>4, <1>5, <1>6, <1>7, EndStep

\* A run that fails: the later of the next tick and the end of the backoff.
LEMMA FailStep ==
    ASSUME IInv, NEW c \in Components, NEW t \in Times, Fail(c, t)
    PROVE  IInv'
  <1> DEFINE h == MarkFailed(health[c], t)
             delay == BackoffSeconds(health[c].failures + 1)
             u == TickAfterFailure(c, t, delay)
  <1>1. t \in Nat /\ nextTick[c] \in Nat /\ nextTick[c] <= t /\ health[c] \in Health
    BY SettingsAssumption DEF Fail, IInv, TypeOK, StartedWhenDue, Times, Running, None
  <1>2. delay \in Nat \ {0} /\ delay <= BackoffMax
    BY <1>1, BackoffBounded DEF Health
  <1> HIDE DEF delay
  <1>3. /\ NextTick(c, nextTick[c], t) \in Nat /\ t < NextTick(c, nextTick[c], t)
        /\ NextTick(c, nextTick[c], t) <= t + Interval[c]
    BY <1>1, NextTickFollows
  <1>4. u \in Nat /\ t < u /\ t + delay <= u /\ u <= t + Later(Interval[c], BackoffMax)
    BY <1>1, <1>2, <1>3, SettingsAssumption DEF TickAfterFailure, Later
  <1>5. /\ h.finished = t /\ h.backoffUntil = t + delay /\ h.status = "failed"
        /\ h \in Health
    <2>1. health[c].failures + 1 \in Nat /\ t + delay \in Int
      BY <1>1, <1>2 DEF Health
    <2>2. h = [status |-> "failed", finished |-> t, succeeded |-> health[c].succeeded,
               failures |-> health[c].failures + 1, backoffUntil |-> t + delay]
      BY <1>1 DEF MarkFailed, Health, delay
    <2>3. health[c].succeeded \in BOOLEAN
      BY <1>1 DEF Health
    <2> HIDE DEF h
    <2> QED
      BY <1>1, <2>1, <2>2, <2>3 DEF Health
  <1>6. /\ health' = [health EXCEPT ![c] = h]
        /\ nextTick' = [nextTick EXCEPT ![c] = u]
        /\ Sleep(c) /\ UNCHANGED <<now, alive, restarts>>
    BY DEF Fail, delay
  <1>7. h.backoffUntil <= u /\ h.backoffUntil # None
    BY <1>1, <1>2, <1>4, <1>5 DEF None
  <1> HIDE DEF h, u
  <1> QED
    BY <1>1, <1>4, <1>5, <1>6, <1>7, EndStep

\* The worker is restarted: every component starts afresh.
LEMMA RestartStep == IInv /\ Restart => IInv'
  BY SettingsAssumption DEF IInv, Restart, TypeOK, Health, IdleHealth, None,
     StartedWhenDue, RespectsBackoff, NoBurstNoGap, FailureOnRecord, Running

\* Every step keeps the invariant.
LEMMA StepInv == IInv /\ [Next]_vars => IInv'
  <1> SUFFICES ASSUME IInv, [Next]_vars PROVE IInv'
    OBVIOUS
  <1>1. CASE Tick \/ Crash
    <2>1. now' \in Nat /\ alive' \in BOOLEAN /\ restarts' \in Nat
      <3>1. CASE Tick
        BY <3>1 DEF Tick, IInv, TypeOK
      <3>2. CASE Crash
        <4>1. alive' \in BOOLEAN
          BY <3>2, Zenon DEF Crash
        <4>2. now' \in Nat /\ restarts' \in Nat
          BY <3>2 DEF Crash, IInv, TypeOK
        <4> QED
          BY <4>1, <4>2
      <3> QED
        BY <1>1, <3>1, <3>2
    <2>2. UNCHANGED <<nextTick, started, health>>
      BY <1>1 DEF Tick, Crash
    <2> QED
      BY <2>1, <2>2 DEF IInv, TypeOK, StartedWhenDue, RespectsBackoff, NoBurstNoGap, FailureOnRecord, Running
  <1>2. CASE UNCHANGED vars
    BY <1>2 DEF vars, IInv, TypeOK, StartedWhenDue, RespectsBackoff, NoBurstNoGap, FailureOnRecord, Running
  <1> QED
    BY <1>1, <1>2, StartStep, SucceedStep, FailStep, RestartStep DEF Next

\* The invariant holds from the start and through every step.
LEMMA Invariant == Spec => []IInv
  BY InitInv, StepInv, PTL DEF Spec

-----------------------------------------------------------------------------
(* The properties *)

\* The worker's state stays within its types, for any settings main accepts.
THEOREM TypeCorrect == Spec => []TypeOK
  <1>1. IInv => TypeOK
    BY DEF IInv
  <1> QED
    BY Invariant, <1>1, PTL

\* A failed component waits until its backoff is over, for every schedule.
THEOREM BackoffRespected == Spec => []RespectsBackoff
  <1>1. IInv => RespectsBackoff
    BY DEF IInv
  <1> QED
    BY Invariant, <1>1, PTL

\* No run is repeated to catch up and none is put off by more than the longer
\* of the interval and the longest backoff.
THEOREM FixedRate == Spec => []NoBurstNoGap
  <1>1. IInv => NoBurstNoGap
    BY DEF IInv
  <1> QED
    BY Invariant, <1>1, PTL

\* The API never shows the service of a component that keeps failing as ok, for
\* any number of failures: no backoff is so short that it leaves no trace.
THEOREM FailureShows == Spec => []FailingServiceShows
  <1>1. IInv => FailingServiceShows
    BY DEF IInv, FailureOnRecord, FailingServiceShows, ServiceStatus
  <1> QED
    BY Invariant, <1>1, PTL

\* A component that waits after a failure keeps the worker from being healthy.
THEOREM HealthyMeansNoneWaits == Spec => []HealthyMeansNoneWaitsAfterFailure
  <1>1. ASSUME IInv PROVE HealthyMeansNoneWaitsAfterFailure
    <2>1. \A c \in Components : health[c].failures \in Nat
      BY <1>1 DEF IInv, TypeOK, Health
    <2>2. AggregateStatus = "healthy" => \A c \in Components : health[c].status # "failed"
      BY DEF AggregateStatus, Failing
    <2>3. \A c \in Components :
             health[c].failures = 0 \/ Running(c) \/ health[c].status = "failed"
      <3>1. \A c \in Components : health[c].failures = 0 \/ health[c].failures > 0
        <4>1. \A n \in Nat : n = 0 \/ n > 0
          OBVIOUS
        <4> QED
          BY <2>1, <4>1, Zenon
      <3>2. FailureOnRecord
        BY <1>1 DEF IInv
      <3> QED
        BY <3>1, <3>2 DEF FailureOnRecord
    <2> QED
      BY <2>2, <2>3 DEF HealthyMeansNoneWaitsAfterFailure
  <1> QED
    BY Invariant, <1>1, PTL

\* A worker that is gone, or a watched component that is disabled or waits after a
\* failure, keeps the pipeline from being healthy, for any mapping of the components.
THEOREM BrokenWorkerIsSeen == Spec => []BrokenWorkerShows
  <1>1. ASSUME IInv PROVE BrokenWorkerShows
    <2>1. \A c \in Components : health[c].failures \in Nat
      BY <1>1 DEF IInv, TypeOK, Health
    <2>2. ASSUME PipelineStatus(TRUE, "LIVE_OBSERVED") = "healthy"
          PROVE  alive /\ \A c \in Watched : c \in Components /\ health[c].status # "failed"
      <3>1. ExternalStatus # "degraded"
        BY <2>2 DEF PipelineStatus
      <3> QED
        BY <3>1 DEF ExternalStatus, ServiceStatus
    <2> QED
      BY <1>1, <2>1, <2>2 DEF IInv, FailureOnRecord, BrokenWorkerShows
  <1> QED
    BY Invariant, <1>1, PTL
=============================================================================
