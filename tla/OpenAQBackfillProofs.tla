------------------------ MODULE OpenAQBackfillProofs ------------------------
(***************************************************************************)
(* Proof that the historical backfill loses no day it calls loaded, claims *)
(* no row twice, and reports a success only of a complete one, for any     *)
(* sensors, locations, dates and number of runs under way together, and    *)
(* wherever they break off.                                                *)
(***************************************************************************)
EXTENDS OpenAQBackfill, FiniteSetTheorems, SequenceTheorems, TLAPS

-----------------------------------------------------------------------------
(* The inductive invariant *)

WorkUnit == [day: Days, location: STRING]

Job == [pc: {"idle", "unit", "archive", "load", "loaded", "api", "fetched", "inserted"},
        from: Nat, to: Nat, targets: SUBSET Sensors,
        todo: Seq(WorkUnit), eligible: SUBSET Located,
        file: SUBSET Reading, sensor: Sensors \union {""}, fetched: SUBSET Reading,
        written: Nat, failures: Nat, attempted: Nat, skipped: Nat, total: Nat]

Working(r) == job[r].pc # "idle"
InUnit(r)  == job[r].pc \notin {"idle", "unit"}
Pending(r) == job[r].pc \in {"loaded", "inserted"}

\* What the local variables of a run say of each other and of the table.
Jobs ==
    /\ job \in [Runs -> Job]
    /\ \A r \in Runs :
          /\ Working(r) => job[r].from \in Days /\ job[r].to \in Days
          /\ InUnit(r) => job[r].todo # <<>>
          /\ job[r].pc \in {"loaded", "fetched", "inserted"} => job[r].sensor \in job[r].eligible
          /\ Pending(r) => job[r].fetched \subseteq rows

\* Nothing the backfill counts is infinite.
Finite ==
    /\ IsFiniteSet(published) /\ IsFiniteSet(manifest)
    /\ IsFiniteSet({r \in Runs : Working(r)})
    /\ \A r \in Runs : IsFiniteSet(job[r].file) /\ IsFiniteSet(job[r].fetched)

\* Only what was loaded is called loaded.
LoadedIsRecorded ==
    \A m \in manifest : m.status = "success" => <<m.sensor, m.day>> \in succeeded

\* A run without a failure has each day of each of its sensors still before it,
\* unless it was loaded.
Ahead(r, s, d) ==
    /\ s \in Located
    /\ \E i \in 1..Len(job[r].todo) :
          /\ job[r].todo[i].day = d /\ job[r].todo[i].location = Location[s]
          /\ i = 1 => job[r].pc = "unit" \/ s \in job[r].eligible

Remembers(r) ==
    Working(r) /\ job[r].failures = 0 =>
        \A s \in job[r].targets, d \in job[r].from .. job[r].to :
            <<s, d>> \in succeeded \/ Ahead(r, s, d)

NothingForgotten == \A r \in Runs : Remembers(r)

\* While runs do not overlap, what was loaded stays on record, and a run works
\* only on what was not.
Alone ==
    ~overlapped =>
        /\ \A q, r \in Runs : Working(q) /\ Working(r) => q = r
        /\ \A x \in succeeded : Loaded(x[1], x[2])
        /\ \A r \in Runs : InUnit(r) =>
              \A s \in job[r].eligible : <<s, job[r].todo[1].day>> \notin succeeded

\* The rows of the manifest, and for each run that has inserted readings and not
\* yet recorded it the row to come.
ClaimsToCome == {[run |-> r, written |-> job[r].written] : r \in {r \in Runs : Pending(r)}}

Claims == manifest \union ClaimsToCome

Written(S) == MapThenSumSet(LAMBDA m : m.written, S)

ClaimsAreInserted == Written(Claims) <= inserted

IInv == /\ TypeOK /\ Jobs /\ Finite
        /\ LoadedIsStored /\ LoadedIsRecorded
        /\ NothingForgotten /\ SuccessIsComplete
        /\ Alone /\ ClaimsAreInserted

-----------------------------------------------------------------------------
(* Sums of the rows written over a finite set of records *)

\* The sum as the fold makes it: f adds up every subset of S, in an order that
\* CHOOSE decides.
Some(S) == CHOOSE x \in S : TRUE

Tallies(f, S) ==
    \A T \in SUBSET S : f[T] = IF T = {} THEN 0 ELSE Some(T).written + f[T \ {Some(T)}]

\* Of the finite sets with a property that some set has, one has it and no set
\* strictly within it does.
LEMMA SmallestSubset ==
    ASSUME NEW S, IsFiniteSet(S), NEW family \in SUBSET SUBSET S, family # {}
    PROVE  \E A \in family : \A B \in family : B \subseteq A => B = A
<1>. DEFINE R == StrictSubsetOrdering(S)
<1>1. IsWellFoundedOn(R, SUBSET S)
  BY FS_StrictSubsetOrderingWellFounded, FS_FiniteSubsetsOfFinite
<1>. HIDE DEF R
<1>2. PICK A \in family : \A B \in family : ~(<<B, A>> \in R)
  BY <1>1, WFMin
<1>3. ASSUME NEW B \in family, B \subseteq A, B # A PROVE FALSE
  <2>1. <<B, A>> \in R
    BY <1>3 DEF R, StrictSubsetOrdering
  <2>. QED  BY <1>2, <2>1
<1>. QED  BY <1>3

\* Two of these functions agree wherever both are defined.
LEMMA TalliesAgree ==
    ASSUME NEW S, IsFiniteSet(S), NEW f, NEW g, Tallies(f, S), Tallies(g, S)
    PROVE  f[S] = g[S]
<1>. DEFINE Differ == {T \in SUBSET S : f[T] # g[T]}
<1>1. SUFFICES ASSUME Differ # {} PROVE FALSE
  OBVIOUS
<1>2. PICK T \in Differ : \A B \in Differ : B \subseteq T => B = T
  <2>1. Differ \in SUBSET SUBSET S
    OBVIOUS
  <2>. HIDE DEF Differ
  <2>. QED  BY <1>1, <2>1, SmallestSubset
<1>3. /\ f[T] = IF T = {} THEN 0 ELSE Some(T).written + f[T \ {Some(T)}]
      /\ g[T] = IF T = {} THEN 0 ELSE Some(T).written + g[T \ {Some(T)}]
  BY DEF Tallies
<1>4. T # {} => f[T \ {Some(T)}] = g[T \ {Some(T)}]
  <2>1. ASSUME T # {} PROVE Some(T) \in T
    BY <2>1 DEF Some
  <2>2. T # {} => T \ {Some(T)} # T /\ T \ {Some(T)} \in SUBSET S /\ T \ {Some(T)} \subseteq T
    BY <2>1
  <2>. QED  BY <1>2, <2>2
<1>. QED  BY <1>3, <1>4

\* For every finite set there is such a function.
LEMMA TalliesExist ==
    ASSUME NEW S, IsFiniteSet(S)
    PROVE  \E f : Tallies(f, S)
<1>. DEFINE Without == {T \in SUBSET S : ~\E f : Tallies(f, T)}
<1>1. SUFFICES ASSUME Without # {} PROVE FALSE
  OBVIOUS
<1>2. PICK T \in Without : \A B \in Without : B \subseteq T => B = T
  <2>1. Without \in SUBSET SUBSET S
    OBVIOUS
  <2>. HIDE DEF Without
  <2>. QED  BY <1>1, <2>1, SmallestSubset
<1>. DEFINE On(U) == CHOOSE f : Tallies(f, U)
            f == [U \in SUBSET T |-> IF U = {} THEN 0
                                     ELSE Some(U).written + On(U \ {Some(U)})[U \ {Some(U)}]]
<1>3. \A U \in SUBSET T : U # {} => Some(U) \in U
  BY DEF Some
<1>4. \A U \in SUBSET T : U # T => Tallies(On(U), U) /\ IsFiniteSet(U)
  <2>. SUFFICES ASSUME NEW U \in SUBSET T, U # T PROVE Tallies(On(U), U) /\ IsFiniteSet(U)
    OBVIOUS
  <2>1. U \in SUBSET S /\ U \notin Without
    BY <1>2
  <2>2. \E h : Tallies(h, U)
    BY <2>1
  <2>. QED  BY <2>1, <2>2, FS_Subset
<1>. HIDE DEF On
<1>5. ASSUME NEW U \in SUBSET T, U # T PROVE f[U] = On(U)[U]
  <2>1. Tallies(On(U), U)
    BY <1>4, <1>5
  <2>2. On(U)[U] = IF U = {} THEN 0 ELSE Some(U).written + On(U)[U \ {Some(U)}]
    BY <2>1 DEF Tallies
  <2>3. CASE U # {}
    <3>. DEFINE V == U \ {Some(U)}
    <3>1. V \in SUBSET T /\ V # T /\ V \subseteq U
      BY <1>5
    <3>2. Tallies(On(V), V) /\ IsFiniteSet(V)
      BY <1>4, <3>1
    <3>3. Tallies(On(U), V)
      BY <2>1, <3>1 DEF Tallies
    <3>. HIDE DEF V
    <3>4. On(V)[V] = On(U)[V]
      BY <3>2, <3>3, TalliesAgree
    <3>. QED  BY <2>2, <2>3, <3>4 DEF V
  <2>. QED  BY <2>2, <2>3
<1>6. Tallies(f, T)
  <2>. SUFFICES ASSUME NEW U \in SUBSET T
                PROVE  f[U] = IF U = {} THEN 0 ELSE Some(U).written + f[U \ {Some(U)}]
    BY DEF Tallies
  <2>1. CASE U # {}
    <3>1. Some(U) \in U
      BY <1>3, <2>1
    <3>2. U \ {Some(U)} \in SUBSET T /\ U \ {Some(U)} # T
      BY <3>1
    <3>3. f[U \ {Some(U)}] = On(U \ {Some(U)})[U \ {Some(U)}]
      BY <1>5, <3>2
    <3>. QED  BY <2>1, <3>3
  <2>. QED  BY <2>1
<1>. HIDE DEF f
<1>. QED  BY <1>6

\* Written is what the fold's recursion says.
LEMMA WrittenFolds ==
    ASSUME NEW S, IsFiniteSet(S), S # {}
    PROVE  /\ Some(S) \in S
           /\ Written(S) = Some(S).written + Written(S \ {Some(S)})
<1>. DEFINE IsFold(f, T) == f = [U \in SUBSET T |-> IF U = {} THEN 0
                                    ELSE LET x == CHOOSE x \in U : TRUE
                                         IN  x.written + f[U \ {x}]]
            Fold(T) == CHOOSE f : IsFold(f, T)
<1>1. \A T : Written(T) = Fold(T)[T]
  BY DEF Written, MapThenSumSet, MapThenFoldSet
<1>2. \A T : IsFiniteSet(T) => Tallies(Fold(T), T)
  <2>. SUFFICES ASSUME NEW T, IsFiniteSet(T) PROVE Tallies(Fold(T), T)
    OBVIOUS
  <2>1. PICK g : Tallies(g, T)
    BY TalliesExist
  <2>. DEFINE f == [U \in SUBSET T |-> g[U]]
  <2>2. f = [U \in SUBSET T |-> IF U = {} THEN 0
                                ELSE LET x == CHOOSE x \in U : TRUE IN x.written + f[U \ {x}]]
    <3>1. ASSUME NEW U \in SUBSET T
          PROVE  f[U] = IF U = {} THEN 0
                        ELSE LET x == CHOOSE x \in U : TRUE IN x.written + f[U \ {x}]
      <4>1. f[U] = IF U = {} THEN 0 ELSE Some(U).written + g[U \ {Some(U)}]
        BY <2>1 DEF Tallies
      <4>2. U \ {Some(U)} \in SUBSET T
        OBVIOUS
      <4>3. f[U \ {Some(U)}] = g[U \ {Some(U)}]
        BY <4>2
      <4>. HIDE DEF f
      <4>. QED  BY <4>1, <4>3 DEF Some
    <3>2. f = [U \in SUBSET T |-> f[U]]
      OBVIOUS
    <3>. HIDE DEF f
    <3>. QED  BY <3>1, <3>2
  <2>3. IsFold(f, T)
    BY <2>2
  <2>. HIDE DEF f
  <2>4. IsFold(Fold(T), T)
    BY <2>3
  <2>. DEFINE h == Fold(T)
  <2>5. h = [U \in SUBSET T |-> IF U = {} THEN 0
                                ELSE LET x == CHOOSE x \in U : TRUE IN x.written + h[U \ {x}]]
    BY <2>4
  <2>. HIDE DEF h
  <2>6. Tallies(h, T)
    BY <2>5 DEF Tallies, Some
  <2>. QED  BY <2>6 DEF h
<1>. HIDE DEF Fold
<1>3. Some(S) \in S
  BY DEF Some
<1>. DEFINE T == S \ {Some(S)}
<1>4. IsFiniteSet(T) /\ T \subseteq S
  BY FS_Subset
<1>5. Tallies(Fold(S), T)
  BY <1>2, <1>4 DEF Tallies
<1>6. Fold(S)[T] = Fold(T)[T]
  <2>. HIDE DEF T
  <2>. QED  BY <1>2, <1>4, <1>5, TalliesAgree
<1>7. Fold(S)[S] = Some(S).written + Fold(S)[T]
  BY <1>2 DEF Tallies
<1>. QED  BY <1>1, <1>3, <1>6, <1>7

\* Nothing has been written of nothing.
LEMMA WrittenEmpty == Written({}) = 0
<1>1. IsFiniteSet({})
  BY FS_EmptySet
<1>. DEFINE IsFold(f) == f = [U \in SUBSET {} |-> IF U = {} THEN 0
                                ELSE LET x == CHOOSE x \in U : TRUE IN x.written + f[U \ {x}]]
            f == [U \in SUBSET {} |-> 0]
<1>2. \A U \in SUBSET {} : U = {}
  OBVIOUS
<1>3. IsFold(f)
  BY <1>2
<1>. HIDE DEF f
<1>. DEFINE g == CHOOSE h : IsFold(h)
<1>4. IsFold(g)
  BY <1>3
<1>5. Written({}) = g[{}]
  BY DEF Written, MapThenSumSet, MapThenFoldSet
<1>6. {} \in SUBSET {}
  OBVIOUS
<1>. HIDE DEF g
<1>. QED  BY <1>4, <1>5, <1>6

\* A finite set of records that say how many rows were written.
Counts(S) == IsFiniteSet(S) /\ \A x \in S : x.written \in Nat

\* Their sum is a number.
LEMMA WrittenNat ==
    ASSUME NEW S, Counts(S)
    PROVE  Written(S) \in Nat
<1>. DEFINE Wrong == {T \in SUBSET S : Written(T) \notin Nat}
<1>1. SUFFICES ASSUME Wrong # {} PROVE FALSE
  OBVIOUS
<1>2. PICK T \in Wrong : \A B \in Wrong : B \subseteq T => B = T
  <2>1. Wrong \in SUBSET SUBSET S /\ IsFiniteSet(S)
    BY DEF Counts
  <2>. HIDE DEF Wrong
  <2>. QED  BY <1>1, <2>1, SmallestSubset
<1>3. T # {}
  BY WrittenEmpty
<1>4. IsFiniteSet(T)
  BY FS_Subset DEF Counts
<1>5. Some(T) \in T /\ Written(T) = Some(T).written + Written(T \ {Some(T)})
  BY <1>3, <1>4, WrittenFolds
<1>6. T \ {Some(T)} \in SUBSET S /\ T \ {Some(T)} # T /\ T \ {Some(T)} \subseteq T
  BY <1>5
<1>7. Written(T \ {Some(T)}) \in Nat
  BY <1>2, <1>6
<1>8. Some(T).written \in Nat
  BY <1>5 DEF Counts
<1>. QED  BY <1>5, <1>7, <1>8

\* The order of the sum does not matter: any record can be taken out of it.
LEMMA WrittenRemove ==
    ASSUME NEW S, Counts(S), NEW x \in S
    PROVE  Written(S) = x.written + Written(S \ {x})
<1>. DEFINE Wrong == {T \in SUBSET S : \E y \in T : Written(T) # y.written + Written(T \ {y})}
<1>1. SUFFICES ASSUME Wrong # {} PROVE FALSE
  OBVIOUS
<1>2. PICK T \in Wrong : \A B \in Wrong : B \subseteq T => B = T
  <2>1. Wrong \in SUBSET SUBSET S /\ IsFiniteSet(S)
    BY DEF Counts
  <2>. HIDE DEF Wrong
  <2>. QED  BY <1>1, <2>1, SmallestSubset
<1>3. PICK y \in T : Written(T) # y.written + Written(T \ {y})
  BY <1>2
<1>. DEFINE z == Some(T)
<1>4. IsFiniteSet(T)
  BY FS_Subset DEF Counts
<1>5. z \in T /\ Written(T) = z.written + Written(T \ {z})
  BY <1>3, <1>4, WrittenFolds
<1>. HIDE DEF z
<1>6. y # z
  BY <1>3, <1>5
<1>7. ASSUME NEW u \in T, NEW v \in T, u # v
      PROVE  Written(T \ {u}) = v.written + Written(T \ {u, v})
  <2>1. T \ {u} \in SUBSET S /\ T \ {u} \subseteq T /\ T \ {u} # T /\ v \in T \ {u}
    BY <1>7
  <2>2. T \ {u} \notin Wrong
    BY <1>2, <2>1
  <2>3. Written(T \ {u}) = v.written + Written((T \ {u}) \ {v})
    BY <2>1, <2>2
  <2>4. (T \ {u}) \ {v} = T \ {u, v}
    OBVIOUS
  <2>. QED  BY <2>3, <2>4
<1>8. Written(T \ {z}) = y.written + Written(T \ {z, y})
  BY <1>5, <1>6, <1>7
<1>9. Written(T \ {y}) = z.written + Written(T \ {z, y})
  <2>1. T \ {y, z} = T \ {z, y}
    OBVIOUS
  <2>. QED  BY <1>5, <1>6, <1>7, <2>1
<1>10. y.written \in Nat /\ z.written \in Nat /\ Written(T \ {z, y}) \in Nat
  <2>1. Counts(T \ {z, y})
    BY <1>4, FS_Subset DEF Counts
  <2>. QED  BY <1>5, <2>1, WrittenNat DEF Counts
<1>. QED  BY <1>3, <1>5, <1>8, <1>9, <1>10

\* A record more adds its rows.
LEMMA WrittenAdd ==
    ASSUME NEW S, Counts(S), NEW x, x \notin S, x.written \in Nat
    PROVE  /\ Counts(S \union {x})
           /\ Written(S \union {x}) = Written(S) + x.written
<1>1. Counts(S \union {x})
  BY FS_AddElement DEF Counts
<1>2. (S \union {x}) \ {x} = S
  OBVIOUS
<1>3. Written(S \union {x}) = x.written + Written(S)
  BY <1>1, <1>2, WrittenRemove
<1>4. Written(S) \in Nat
  BY WrittenNat
<1>. QED  BY <1>1, <1>3, <1>4

\* Fewer records, fewer rows.
LEMMA WrittenSubset ==
    ASSUME NEW S, Counts(S), NEW A \in SUBSET S
    PROVE  Counts(A) /\ Written(A) \in Nat /\ Written(S) \in Nat /\ Written(A) <= Written(S)
<1>1. \A T \in SUBSET S : Counts(T) /\ Written(T) \in Nat
  <2>. SUFFICES ASSUME NEW T \in SUBSET S PROVE Counts(T) /\ Written(T) \in Nat
    OBVIOUS
  <2>1. Counts(T)
    BY FS_Subset DEF Counts
  <2>. QED  BY <2>1, WrittenNat
<1>. DEFINE Wrong == {T \in SUBSET S : A \subseteq T /\ ~(Written(A) <= Written(T))}
<1>2. SUFFICES ASSUME Wrong # {} PROVE FALSE
  BY <1>1
<1>3. PICK T \in Wrong : \A B \in Wrong : B \subseteq T => B = T
  <2>1. Wrong \in SUBSET SUBSET S /\ IsFiniteSet(S)
    BY DEF Counts
  <2>. HIDE DEF Wrong
  <2>. QED  BY <1>2, <2>1, SmallestSubset
<1>4. PICK x \in T : x \notin A
  <2>1. A # T
    BY <1>1, <1>3
  <2>. QED  BY <1>3, <2>1
<1>5. T \ {x} \in SUBSET S /\ T \ {x} # T /\ T \ {x} \subseteq T /\ A \subseteq T \ {x}
  BY <1>3, <1>4
<1>6. Written(A) <= Written(T \ {x})
  BY <1>3, <1>5
<1>7. Written(T) = x.written + Written(T \ {x})
  BY <1>1, <1>3, <1>4, WrittenRemove
<1>8. x.written \in Nat
  BY <1>3, <1>4 DEF Counts
<1>9. Written(A) \in Nat /\ Written(T \ {x}) \in Nat
  BY <1>1, <1>5
<1>. QED  BY <1>3, <1>6, <1>7, <1>8, <1>9

\* Records of no rows change nothing.
LEMMA WrittenZero ==
    ASSUME NEW S, Counts(S), NEW Z, IsFiniteSet(Z), \A z \in Z : z.written = 0
    PROVE  Counts(S \union Z) /\ Written(S \union Z) = Written(S)
<1>1. ASSUME NEW U \in SUBSET Z PROVE Counts(S \union U)
  <2>1. IsFiniteSet(S \union U)
    <3>1. IsFiniteSet(U) /\ IsFiniteSet(S)
      BY FS_Subset DEF Counts
    <3>. QED  BY <3>1, FS_Union
  <2>2. \A x \in S \union U : x.written \in Nat
    <3>1. ASSUME NEW x \in U PROVE x.written = 0
      OBVIOUS
    <3>. QED  BY <3>1 DEF Counts
  <2>. QED  BY <2>1, <2>2 DEF Counts
<1>. DEFINE Wrong == {U \in SUBSET Z : Written(S \union U) # Written(S)}
<1>2. SUFFICES ASSUME Wrong # {} PROVE FALSE
  BY <1>1
<1>3. PICK U \in Wrong : \A B \in Wrong : B \subseteq U => B = U
  <2>1. Wrong \in SUBSET SUBSET Z
    OBVIOUS
  <2>. HIDE DEF Wrong
  <2>. QED  BY <1>2, <2>1, SmallestSubset
<1>4. PICK z \in U : z \notin S
  <2>1. S \union U # S
    BY <1>3
  <2>. QED  BY <2>1
<1>5. U \ {z} \in SUBSET Z /\ U \ {z} # U /\ U \ {z} \subseteq U
  BY <1>3, <1>4
<1>6. Written(S \union (U \ {z})) = Written(S)
  BY <1>3, <1>5
<1>7. /\ S \union U = (S \union (U \ {z})) \union {z} /\ z \notin S \union (U \ {z})
      /\ z.written = 0
  BY <1>3, <1>4
<1>8. Written(S \union U) = Written(S) + 0
  <2>. DEFINE V == S \union (U \ {z})
  <2>1. Counts(V) /\ z \notin V /\ z.written \in Nat /\ S \union U = V \union {z}
    <3>1. Counts(V)
      BY <1>1, <1>5
    <3>2. z.written \in Nat
      BY <1>7
    <3>. QED  BY <1>7, <3>1, <3>2
  <2>. HIDE DEF V
  <2>2. Written(V \union {z}) = Written(V) + z.written
    BY <2>1, WrittenAdd
  <2>. QED  BY <1>6, <1>7, <2>1, <2>2 DEF V
<1>9. Written(S) \in Nat
  BY WrittenNat
<1>. QED  BY <1>3, <1>8, <1>9

-----------------------------------------------------------------------------
(* The units of a run: every day of every location *)

\* A sequence of units that has every location on every day from the first.
Covers(units, from, d) ==
    /\ units \in Seq(WorkUnit)
    /\ \A e \in from..d, i \in 1..Len(Locations) :
          \E j \in 1..Len(units) : units[j] = [day |-> e, location |-> Locations[i]]

\* A day more.
LEMMA CoversNext ==
    ASSUME NEW from \in Int, NEW d \in Days, NEW units, Covers(units, from, d - 1)
    PROVE  Covers(units \o UnitsOf(d), from, d)
<1>. DEFINE n == Len(Locations)
            of == UnitsOf(d)
            all == units \o of
<1>1. d \in Nat /\ n \in Nat /\ \A i \in 1..n : Locations[i] \in STRING
  <2>1. Locations \in Seq(STRING)
    BY BackfillAssumption
  <2>2. \A i \in 1..n : Locations[i] \in STRING
    BY <2>1, ElementOfSeq
  <2>. QED  BY <2>1, <2>2, BackfillAssumption
<1>2. of \in Seq(WorkUnit) /\ Len(of) = n
      /\ \A i \in 1..n : of[i] = [day |-> d, location |-> Locations[i]]
  <2>1. of = [i \in 1..n |-> [day |-> d, location |-> Locations[i]]]
    BY DEF UnitsOf
  <2>. HIDE DEF of, n
  <2>2. \A i \in 1..n : [day |-> d, location |-> Locations[i]] \in WorkUnit
    BY <1>1 DEF WorkUnit
  <2>. QED  BY <1>1, <2>1, <2>2
<1>3. units \in Seq(WorkUnit)
  BY DEF Covers
<1>. HIDE DEF of, n
<1>4. /\ all \in Seq(WorkUnit) /\ Len(all) = Len(units) + n
      /\ \A j \in 1 .. Len(units) + n :
            all[j] = IF j <= Len(units) THEN units[j] ELSE of[j - Len(units)]
  BY <1>2, <1>3, ConcatProperties
<1>5. Len(units) \in Nat
  BY <1>3
<1>. HIDE DEF all
<1>6. ASSUME NEW e \in from..d, NEW i \in 1..n
      PROVE  \E j \in 1..Len(all) : all[j] = [day |-> e, location |-> Locations[i]]
  <2>1. CASE e = d
    <3>1. Len(units) + i \in 1..Len(all)
      BY <1>1, <1>4, <1>5
    <3>2. all[Len(units) + i] = of[i]
      BY <1>1, <1>4, <1>5
    <3>. QED  BY <1>2, <2>1, <3>1, <3>2
  <2>2. CASE e # d
    <3>1. e \in from .. d - 1
      BY <1>1, <2>2
    <3>2. PICK j \in 1..Len(units) : units[j] = [day |-> e, location |-> Locations[i]]
      BY <3>1 DEF Covers, n
    <3>3. j \in 1..Len(all) /\ all[j] = units[j]
      BY <1>1, <1>4, <1>5
    <3>. QED  BY <3>2, <3>3
  <2>. QED  BY <2>1, <2>2
<1>. QED  BY <1>4, <1>6 DEF Covers, all, of, n

\* A set of numbers that is not empty has a least one.
LEMMA LeastNumber ==
    ASSUME NEW S \in SUBSET Nat, S # {}
    PROVE  \E m \in S : \A k \in S : m <= k
<1>. DEFINE R == OpToRel(<, Nat)
<1>1. IsWellFoundedOn(R, Nat)
  BY NatLessThanWellFounded
<1>2. \A k, m \in Nat : k < m => <<k, m>> \in R
  BY DEF OpToRel
<1>. HIDE DEF R
<1>3. PICK m \in S : \A k \in S : ~(<<k, m>> \in R)
  BY <1>1, WFMin
<1>4. m \in Nat /\ \A k \in S : k \in Nat /\ ~(k < m)
  BY <1>2, <1>3
<1>. QED  BY <1>4

\* What Units says of each day up to the last one, of any function f.
IsUpTo(f, from, to) ==
    f = [d \in from - 1 .. to |-> IF d = from - 1 THEN <<>> ELSE f[d - 1] \o UnitsOf(d)]

\* For every n there is a function that lists the units of n days.
LEMMA UpToExists ==
    ASSUME NEW from \in Int, NEW n \in Nat
    PROVE  \E f : IsUpTo(f, from, from - 1 + n)
<1>. DEFINE Without == {k \in Nat : ~\E f : IsUpTo(f, from, from - 1 + k)}
<1>1. SUFFICES ASSUME Without # {} PROVE FALSE
  OBVIOUS
<1>2. PICK m \in Without : \A k \in Without : m <= k
  <2>1. Without \in SUBSET Nat
    OBVIOUS
  <2>. HIDE DEF Without
  <2>. QED  BY <1>1, <2>1, LeastNumber
<1>3. CASE m = 0
  <2>. DEFINE f == [d \in from - 1 .. from - 1 |-> <<>>]
  <2>1. f = [d \in from - 1 .. from - 1 |-> IF d = from - 1 THEN <<>> ELSE f[d - 1] \o UnitsOf(d)]
    OBVIOUS
  <2>2. IsUpTo(f, from, from - 1)
    BY <2>1 DEF IsUpTo
  <2>. QED  BY <1>3, <2>2
<1>4. CASE m # 0
  <2>1. m - 1 \in Nat /\ m - 1 \notin Without
    BY <1>2, <1>4
  <2>. DEFINE to == from - 1 + m
  <2>2. PICK g : IsUpTo(g, from, to - 1)
    <3>1. from - 1 + (m - 1) = to - 1
      OBVIOUS
    <3>. QED  BY <2>1, <3>1
  <2>3. to \in Int /\ to # from - 1 /\ from - 1 <= to - 1
    BY <1>4
  <2>. HIDE DEF to
  <2>. DEFINE f == [d \in from - 1 .. to |-> IF d = to THEN g[to - 1] \o UnitsOf(to) ELSE g[d]]
  <2>4. ASSUME NEW d \in from - 1 .. to
        PROVE  f[d] = IF d = from - 1 THEN <<>> ELSE f[d - 1] \o UnitsOf(d)
    <3>1. CASE d = to
      <4>1. to - 1 \in from - 1 .. to /\ to - 1 # to
        BY <2>3
      <4>2. f[to - 1] = g[to - 1] /\ f[to] = g[to - 1] \o UnitsOf(to)
        BY <2>3, <4>1
      <4>. HIDE DEF f
      <4>. QED  BY <2>3, <3>1, <4>2
    <3>2. CASE d # to
      <4>1. d \in from - 1 .. to - 1 /\ f[d] = g[d] /\ (d # from - 1 => f[d - 1] = g[d - 1])
        BY <2>3, <3>2
      <4>2. g[d] = IF d = from - 1 THEN <<>> ELSE g[d - 1] \o UnitsOf(d)
        BY <2>2, <4>1 DEF IsUpTo
      <4>. HIDE DEF f
      <4>. QED  BY <4>1, <4>2
    <3>. QED  BY <3>1, <3>2
  <2>5. f = [d \in from - 1 .. to |-> f[d]]
    OBVIOUS
  <2>. HIDE DEF f
  <2>6. IsUpTo(f, from, to)
    BY <2>4, <2>5 DEF IsUpTo
  <2>. QED  BY <2>6 DEF to
<1>. QED  BY <1>3, <1>4

\* The units of a run have every location on every day.
LEMMA UnitsCover ==
    ASSUME NEW from \in Days, NEW to \in Days, from <= to
    PROVE  Covers(Units(from, to), from, to)
<1>. DEFINE f == CHOOSE g : IsUpTo(g, from, to)
<1>1. from \in Nat /\ to \in Nat /\ from..to \subseteq Days
  BY BackfillAssumption
<1>2. IsUpTo(f, from, to)
  <2>1. to - from + 1 \in Nat /\ from - 1 + (to - from + 1) = to
    BY <1>1
  <2>2. \A n \in Nat : \E g : IsUpTo(g, from, from - 1 + n)
    <3>1. from \in Int
      BY <1>1
    <3>. QED  BY <3>1, UpToExists
  <2>3. \E g : IsUpTo(g, from, to)
    BY <2>1, <2>2
  <2>. QED  BY <2>3
<1>3. Units(from, to) = f[to]
  BY DEF Units, IsUpTo
<1>. HIDE DEF f
<1>4. \A d \in from - 1 .. to : f[d] = IF d = from - 1 THEN <<>> ELSE f[d - 1] \o UnitsOf(d)
  BY <1>2 DEF IsUpTo
<1>. DEFINE Wrong == {k \in Nat : k <= to - from + 1 /\ ~Covers(f[from - 1 + k], from, from - 1 + k)}
<1>5. Wrong = {}
  <2>. SUFFICES ASSUME Wrong # {} PROVE FALSE
    OBVIOUS
  <2>1. PICK m \in Wrong : \A k \in Wrong : m <= k
    <3>1. Wrong \in SUBSET Nat
      OBVIOUS
    <3>. HIDE DEF Wrong
    <3>. QED  BY <3>1, LeastNumber
  <2>. DEFINE d == from - 1 + m
  <2>2. d \in from - 1 .. to /\ d \in Int
    BY <1>1
  <2>3. CASE m = 0
    <3>1. d = from - 1 /\ from..d = {}
      BY <1>1, <2>3
    <3>2. f[d] = <<>>
      BY <1>4, <2>2, <3>1
    <3>3. Covers(<<>>, from, d)
      BY <3>1 DEF Covers
    <3>. QED  BY <2>1, <3>2, <3>3
  <2>4. CASE m # 0
    <3>1. m - 1 \in Nat /\ m - 1 \notin Wrong /\ m - 1 <= to - from + 1
      BY <1>1, <2>1, <2>4
    <3>2. from - 1 + (m - 1) = d - 1
      BY <1>1
    <3>3. Covers(f[d - 1], from, d - 1)
      BY <3>1, <3>2
    <3>4. d \in from..to /\ d # from - 1
      BY <1>1, <2>2, <2>4
    <3>5. d \in Days /\ f[d] = f[d - 1] \o UnitsOf(d)
      <4>. HIDE DEF d
      <4>. QED  BY <1>1, <1>4, <2>2, <3>4
    <3>6. Covers(f[d], from, d)
      <4>. HIDE DEF d
      <4>. QED  BY <1>1, <3>3, <3>5, CoversNext
    <3>. QED  BY <2>1, <3>6
  <2>. QED  BY <2>3, <2>4
<1>6. Covers(f[to], from, to)
  <2>1. to - from + 1 \in Nat /\ from - 1 + (to - from + 1) = to
    BY <1>1
  <2>2. to - from + 1 \notin Wrong
    BY <1>5, Zenon
  <2>. QED  BY <2>1, <2>2
<1>. QED  BY <1>3, <1>6

-----------------------------------------------------------------------------
(* What the steps of a run do to its local variables *)

Others(r) == job' \in [Runs -> Job] /\ \A q \in Runs \ {r} : job'[q] = job[q]

\* The dates, the sensors and the failures of the run stay.
SamePlan(r) ==
    /\ job'[r].from = job[r].from /\ job'[r].to = job[r].to
    /\ job'[r].targets = job[r].targets

SameUnit(r) ==
    /\ SamePlan(r) /\ job'[r].failures = job[r].failures
    /\ job'[r].todo = job[r].todo /\ job'[r].eligible = job[r].eligible

\* The job between two runs is a job.
LEMMA IdleJob == Idle \in Job
<1>1. <<>> \in Seq(WorkUnit)
  OBVIOUS
<1>. QED  BY <1>1 DEF Idle, Job

\* The fields of a run's record have their types.
LEMMA JobFields ==
    ASSUME Jobs, NEW r \in Runs
    PROVE  /\ job[r] \in Job
           /\ job[r].from \in Nat /\ job[r].to \in Nat /\ job[r].targets \subseteq Sensors
           /\ job[r].todo \in Seq(WorkUnit) /\ job[r].eligible \subseteq Located
           /\ job[r].file \subseteq Reading /\ job[r].fetched \subseteq Reading
           /\ job[r].written \in Nat /\ job[r].failures \in Nat /\ job[r].attempted \in Nat
           /\ job[r].skipped \in Nat /\ job[r].total \in Nat
<1>1. job[r] \in Job
  BY DEF Jobs
<1>. QED  BY <1>1 DEF Job

\* The unit a run works on is a day and a location, and what follows it are units too.
LEMMA UnitTyped ==
    ASSUME Jobs, NEW r \in Runs, job[r].todo # <<>>
    PROVE  /\ Unit(r) = job[r].todo[1] /\ Unit(r) \in WorkUnit
           /\ Unit(r).day \in Days
           /\ Len(job[r].todo) \in Nat \ {0}
           /\ Tail(job[r].todo) \in Seq(WorkUnit)
           /\ Len(Tail(job[r].todo)) = Len(job[r].todo) - 1
           /\ \A i \in 1 .. Len(job[r].todo) - 1 : Tail(job[r].todo)[i] = job[r].todo[i + 1]
<1>1. job[r].todo \in Seq(WorkUnit)
  BY DEF Jobs, Job
<1>2. Head(job[r].todo) \in WorkUnit /\ Head(job[r].todo) = job[r].todo[1]
  BY <1>1, HeadTailProperties
<1>3. Head(job[r].todo).day \in Days
  BY <1>2 DEF WorkUnit
<1>. QED  BY <1>1, <1>2, <1>3, HeadTailProperties, EmptySeq DEF Unit

\* What a started run plans: the units of its range, for the sensors it was given.
LEMMA BeginView ==
    ASSUME Jobs, NEW r \in Runs, Begin(r)
    PROVE  /\ Others(r) /\ ~Working(r)
           /\ \E from, to \in Days, targets \in Targets :
                 /\ from <= to /\ targets \subseteq Sensors /\ IsFiniteSet(targets)
                 /\ job'[r] = [Idle EXCEPT
                       !.pc = "unit", !.from = from, !.to = to, !.targets = targets,
                       !.todo = Units(from, to), !.failures = Cardinality(targets \ Located)]
                 /\ Cardinality(targets \ Located) \in Nat
                 /\ Covers(Units(from, to), from, to)
                 /\ manifest' = manifest \union
                       {Result("openaq_archive", s, from, "failed", {}, 0) : s \in targets \ Located}
<1>1. PICK from \in Days, to \in Days, targets \in Targets :
         /\ from <= to
         /\ job' = [job EXCEPT ![r] = [Idle EXCEPT
                       !.pc = "unit", !.from = from, !.to = to, !.targets = targets,
                       !.todo = Units(from, to), !.failures = Cardinality(targets \ Located)]]
         /\ manifest' = manifest \union
               {Result("openaq_archive", s, from, "failed", {}, 0) : s \in targets \ Located}
  BY DEF Begin
<1>2. targets \subseteq Sensors /\ IsFiniteSet(targets) /\ Cardinality(targets \ Located) \in Nat
  <2>1. targets \subseteq Sensors /\ IsFiniteSet(targets)
    BY BackfillAssumption, FS_Subset
  <2>2. IsFiniteSet(targets \ Located)
    BY <2>1, FS_Subset
  <2>. QED  BY <2>1, <2>2, FS_CardinalityType
<1>3. Covers(Units(from, to), from, to)
  BY <1>1, UnitsCover
<1>4. [Idle EXCEPT !.pc = "unit", !.from = from, !.to = to, !.targets = targets,
                   !.todo = Units(from, to), !.failures = Cardinality(targets \ Located)] \in Job
  <2>1. Units(from, to) \in Seq(WorkUnit) /\ from \in Nat /\ to \in Nat
    BY <1>3, BackfillAssumption DEF Covers
  <2>. QED  BY <1>2, <2>1, IdleJob DEF Job
<1>5. Others(r)
  BY <1>1, <1>4 DEF Others, Jobs
<1>6. job'[r] = [Idle EXCEPT
                   !.pc = "unit", !.from = from, !.to = to, !.targets = targets,
                   !.todo = Units(from, to), !.failures = Cardinality(targets \ Located)]
  BY <1>1 DEF Jobs
<1>. QED  BY <1>1, <1>2, <1>3, <1>5, <1>6 DEF Begin, Working

\* What a run takes from the manifest: the sensors of the unit that are not loaded.
LEMMA CheckView ==
    ASSUME Jobs, NEW r \in Runs, Check(r)
    PROVE  /\ Others(r) /\ SamePlan(r) /\ job'[r].failures = job[r].failures
           /\ job[r].pc = "unit" /\ job[r].todo # <<>>
           /\ job'[r].eligible = {s \in job[r].targets \cap Located :
                 Location[s] = Unit(r).location /\ ~Loaded(s, Unit(r).day)}
           /\ job'[r].file = job[r].file /\ job'[r].fetched = job[r].fetched
           /\ \/ /\ job'[r].eligible = {} /\ job'[r].pc = "unit"
                 /\ job'[r].todo = Tail(job[r].todo)
              \/ /\ job'[r].eligible # {} /\ job'[r].pc = "archive"
                 /\ job'[r].todo = job[r].todo
<1>. DEFINE here == {s \in job[r].targets \cap Located : Location[s] = Unit(r).location}
            left == {s \in here : ~Loaded(s, Unit(r).day)}
            n == Cardinality(here \ left)
            d == Unit(r).day
<1>1. /\ job[r].pc = "unit" /\ job[r].todo # <<>>
      /\ job' = [job EXCEPT ![r].skipped = @ + n, ![r].eligible = left,
                            ![r].pc = IF left = {} THEN "unit" ELSE "archive",
                            ![r].todo = IF left = {} THEN Tail(@) ELSE @]
  BY DEF Check
<1>2. n \in Nat
  <2>1. IsFiniteSet(here \ left)
    <3>1. here \ left \subseteq Sensors
      BY DEF Located
    <3>. QED  BY <3>1, BackfillAssumption, FS_Subset
  <2>. QED  BY <2>1, FS_CardinalityType
<1>3. left = {s \in job[r].targets \cap Located :
                 Location[s] = Unit(r).location /\ ~Loaded(s, Unit(r).day)}
      /\ left \subseteq Located
  OBVIOUS
<1>4. Tail(job[r].todo) \in Seq(WorkUnit)
  BY <1>1, UnitTyped
<1>. HIDE DEF n, left
<1>. DEFINE j == [job[r] EXCEPT !.skipped = @ + n, !.eligible = left,
                               !.pc = IF left = {} THEN "unit" ELSE "archive",
                               !.todo = IF left = {} THEN Tail(@) ELSE @]
<1>5. job' = [job EXCEPT ![r] = j]
  BY <1>1 DEF Jobs
<1>6. j \in Job
  <2>1. job[r] \in Job /\ job[r].skipped + n \in Nat
    BY <1>2, JobFields
  <2>2. (IF left = {} THEN Tail(job[r].todo) ELSE job[r].todo) \in Seq(WorkUnit)
    BY <1>4, <2>1 DEF Job
  <2>. QED  BY <1>3, <2>1, <2>2 DEF Job
<1>7. job' \in [Runs -> Job]
  BY <1>5, <1>6 DEF Jobs
<1>8. \A q \in Runs \ {r} : job'[q] = job[q]
  BY <1>1 DEF Jobs
<1>9. job'[r] = j /\ job[r] \in Job
  BY <1>5 DEF Jobs
<1>10. /\ SamePlan(r) /\ job'[r].failures = job[r].failures
       /\ job'[r].file = job[r].file /\ job'[r].fetched = job[r].fetched
       /\ job'[r].eligible = left
       /\ job'[r].pc = IF left = {} THEN "unit" ELSE "archive"
       /\ job'[r].todo = IF left = {} THEN Tail(job[r].todo) ELSE job[r].todo
  BY <1>9 DEF Job, SamePlan
<1>. QED  BY <1>1, <1>3, <1>7, <1>8, <1>10 DEF Others

\* What is fetched: from the archive, or from the API for a sensor.
Fetch(r) ==
    \/ ArchiveReturns(r) \/ ArchiveFails(r)
    \/ \E s \in Located : ApiReturns(r, s)

\* What a fetch leaves alone, and where its file comes from.
LEMMA FetchView ==
    ASSUME TypeOK, Jobs, NEW r \in Runs, Fetch(r)
    PROVE  /\ Others(r) /\ SameUnit(r)
           /\ job[r].pc \in {"archive", "api"}
           /\ job'[r].pc \in {"load", "api", "fetched"}
           /\ job'[r].pc = "fetched" => job'[r].sensor \in job[r].eligible
           /\ \/ job'[r].file = job[r].file
              \/ job'[r].file \subseteq published
           /\ \/ job'[r].fetched = job[r].fetched
              \/ job'[r].fetched \subseteq published
           /\ UNCHANGED <<published, database, history, begun, faults>>
<1>0. job[r] \in Job /\ job \in [Runs -> Job]
  BY DEF Jobs
<1>1. CASE ArchiveReturns(r)
  <2>1. PICK file : file \subseteq published /\ job' = [job EXCEPT ![r].pc = "load", ![r].file = file]
    BY <1>1 DEF ArchiveReturns
  <2>2. job[r].pc = "archive" /\ UNCHANGED <<published, database, history, begun, faults>>
    BY <1>1 DEF ArchiveReturns
  <2>. DEFINE j == [job[r] EXCEPT !.pc = "load", !.file = file]
  <2>3. job' = [job EXCEPT ![r] = j]
    BY <2>1 DEF Jobs
  <2>4. j \in Job
    BY <1>0, <2>1 DEF Job, TypeOK
  <2>5. Others(r) /\ job'[r] = j
    BY <1>0, <2>3, <2>4 DEF Others
  <2>. QED  BY <1>0, <2>1, <2>2, <2>5 DEF SameUnit, SamePlan, Job
<1>2. CASE ArchiveFails(r)
  <2>1. /\ job' = [job EXCEPT ![r].pc = "api"] /\ job[r].pc = "archive"
        /\ UNCHANGED <<published, database, history, begun, faults>>
    BY <1>2 DEF ArchiveFails
  <2>. DEFINE j == [job[r] EXCEPT !.pc = "api"]
  <2>3. job' = [job EXCEPT ![r] = j]
    BY <2>1 DEF Jobs
  <2>4. j \in Job
    BY <1>0 DEF Job
  <2>5. Others(r) /\ job'[r] = j
    BY <1>0, <2>3, <2>4 DEF Others
  <2>. QED  BY <1>0, <2>1, <2>5 DEF SameUnit, SamePlan, Job
<1>3. ASSUME NEW s \in Located, ApiReturns(r, s)
      PROVE  /\ Others(r) /\ SameUnit(r)
             /\ job[r].pc = "api" /\ job'[r].pc = "fetched"
             /\ job'[r].sensor \in job[r].eligible
             /\ job'[r].file = job[r].file
             /\ job'[r].fetched \subseteq published
             /\ UNCHANGED <<published, database, history, begun, faults>>
  <2>. DEFINE readings == {x \in published : x[1] = s /\ x[2] = Unit(r).day}
              j == [job[r] EXCEPT !.pc = "fetched", !.sensor = s, !.fetched = readings]
  <2>1. /\ job' = [job EXCEPT ![r].pc = "fetched", ![r].sensor = s, ![r].fetched = readings]
        /\ job[r].pc = "api" /\ s \in job[r].eligible
        /\ UNCHANGED <<published, database, history, begun, faults>>
    BY <1>3 DEF ApiReturns
  <2>2. readings \subseteq published /\ readings \subseteq Reading
    BY DEF TypeOK
  <2>. HIDE DEF readings
  <2>3. job' = [job EXCEPT ![r] = j]
    BY <2>1 DEF Jobs
  <2>4. j \in Job
    BY <1>0, <2>2 DEF Job, Located
  <2>5. Others(r) /\ job'[r] = j
    BY <1>0, <2>3, <2>4 DEF Others
  <2>. QED  BY <1>0, <2>1, <2>2, <2>5 DEF SameUnit, SamePlan, Job
<1>. QED  BY <1>1, <1>2, <1>3 DEF Fetch

\* Some run inserts the readings it holds of one of its sensors.
LEMMA InsertView ==
    ASSUME TypeOK, Jobs, Finite, NEW r \in Runs,
           InsertFromApi(r) \/ \E s \in Located : InsertFromArchive(r, s)
    PROVE  \E s \in Located, readings \in SUBSET Reading, n \in Nat :
              /\ Others(r) /\ SameUnit(r) /\ IsFiniteSet(readings)
              /\ job[r].pc \in {"load", "fetched"} /\ s \in job[r].eligible
              /\ job'[r].pc \in {"loaded", "inserted"}
              /\ job'[r].sensor = s /\ job'[r].fetched = readings
              /\ job'[r].written = n /\ job'[r].file = job[r].file
              /\ rows' = rows \union readings /\ inserted' = inserted + n
              /\ lastSeen' = [who \in DOMAIN lastSeen |-> Seen(who, readings)]
              /\ UNCHANGED <<published, manifest, outcomes, succeeded, overlapped, begun, faults>>
<1>0. job[r] \in Job /\ job \in [Runs -> Job]
  BY DEF Jobs
<1>1. PICK s \in Located, readings \in SUBSET Reading, pc \in {"loaded", "inserted"} :
         /\ Insert(r, s, readings, pc) /\ job[r].pc \in {"load", "fetched"}
         /\ s \in job[r].eligible
         /\ IsFiniteSet(readings)
  <2>1. CASE InsertFromApi(r)
    <3>1. /\ job[r].pc = "fetched"
          /\ Insert(r, job[r].sensor, job[r].fetched, "inserted")
      BY <2>1 DEF InsertFromApi
    <3>2. job[r].sensor \in job[r].eligible /\ IsFiniteSet(job[r].fetched)
      BY <3>1 DEF Jobs, Finite
    <3>3. job[r].eligible \subseteq Located /\ job[r].fetched \subseteq Reading
      BY JobFields
    <3>. QED  BY <3>1, <3>2, <3>3
  <2>2. CASE \E s \in Located : InsertFromArchive(r, s)
    <3>1. PICK s \in Located : InsertFromArchive(r, s)
      BY <2>2
    <3>. DEFINE readings == {x \in job[r].file : x[1] = s}
    <3>2. Insert(r, s, readings, "loaded") /\ job[r].pc = "load" /\ s \in job[r].eligible
      BY <3>1 DEF InsertFromArchive
    <3>3. IsFiniteSet(readings) /\ readings \in SUBSET Reading
      BY FS_Subset, JobFields DEF Finite
    <3>. HIDE DEF readings
    <3>. QED  BY <3>2, <3>3
  <2>. QED  BY <2>1, <2>2
<1>2. readings \in SUBSET Reading /\ IsFiniteSet(readings)
  BY <1>1
<1>3. Cardinality(readings \ rows) \in Nat
  BY <1>2, FS_Subset, FS_CardinalityType
<1>. DEFINE n == Cardinality(readings \ rows)
            j == [job[r] EXCEPT !.pc = pc, !.sensor = s, !.fetched = readings,
                                !.written = n, !.total = @ + n]
<1>4. /\ job' = [job EXCEPT ![r].pc = pc, ![r].sensor = s, ![r].fetched = readings,
                            ![r].written = n, ![r].total = @ + n]
      /\ rows' = rows \union readings /\ inserted' = inserted + n
      /\ lastSeen' = [who \in DOMAIN lastSeen |-> Seen(who, readings)]
      /\ UNCHANGED <<published, manifest, outcomes, succeeded, overlapped, begun, faults>>
  BY <1>1 DEF Insert, RowCount
<1>. HIDE DEF n
<1>5. job' = [job EXCEPT ![r] = j]
  BY <1>4 DEF Jobs
<1>6. j \in Job
  <2>1. n \in Nat /\ job[r].total + n \in Nat
    BY <1>3, JobFields DEF n
  <2>. QED  BY <1>0, <1>2, <2>1 DEF Job, Located
<1>7. Others(r) /\ job'[r] = j
  BY <1>0, <1>5, <1>6 DEF Others
<1>8. /\ SameUnit(r) /\ job'[r].pc \in {"loaded", "inserted"} /\ job'[r].sensor = s
      /\ job'[r].fetched = readings /\ job'[r].written = n /\ job'[r].file = job[r].file
  BY <1>0, <1>1, <1>7 DEF SameUnit, SamePlan, Job
<1>9. n \in Nat
  BY <1>3 DEF n
<1>. QED  BY <1>1, <1>2, <1>4, <1>7, <1>8, <1>9

\* A result is recorded for one of the sensors of the unit.
Settles(r, s, failed, loop) == job' = [job EXCEPT ![r] = Settled(r, s, failed, loop)]

\* What becomes of a run when a sensor of its unit is done, well or not.
LEMMA SettledView ==
    ASSUME Jobs, NEW r \in Runs, NEW s \in job[r].eligible, NEW failed \in {0, 1},
           NEW loop \in {"load", "api"}, job[r].todo # <<>>,
           Settles(r, s, failed, loop)
    PROVE  /\ Others(r) /\ SamePlan(r)
           /\ job'[r].failures = job[r].failures + failed
           /\ job'[r].eligible = job[r].eligible \ {s}
           /\ job'[r].fetched = {} /\ (job'[r].file = job[r].file \/ job'[r].file = {})
           /\ \/ /\ job'[r].eligible = {} /\ job'[r].pc = "unit"
                 /\ job'[r].todo = Tail(job[r].todo)
              \/ /\ job'[r].eligible # {} /\ job'[r].pc = loop
                 /\ job'[r].todo = job[r].todo
<1>0. job[r] \in Job /\ job \in [Runs -> Job]
  BY DEF Jobs
<1>. DEFINE left == job[r].eligible \ {s}
            j == Settled(r, s, failed, loop)
            rest == IF left = {} THEN Tail(job[r].todo) ELSE job[r].todo
            file == IF left = {} THEN {} ELSE job[r].file
            pc == IF left = {} THEN "unit" ELSE loop
<1>1. rest \in Seq(WorkUnit)
  BY UnitTyped
<1>2. j = [job[r] EXCEPT !.pc = pc, !.todo = rest, !.file = file,
              !.eligible = left, !.sensor = "", !.fetched = {}, !.written = 0,
              !.attempted = job[r].attempted + 1, !.failures = job[r].failures + failed]
  BY DEF Settled
<1>3. left \subseteq Located /\ file \subseteq Reading /\ pc \in {"unit", "load", "api"}
      /\ job[r].attempted + 1 \in Nat /\ job[r].failures + failed \in Nat
  BY JobFields
<1>. HIDE DEF j, rest, file, pc, left
<1>4. j \in Job
  BY <1>0, <1>1, <1>2, <1>3 DEF Job
<1>5. Others(r) /\ job'[r] = j
  BY <1>0, <1>4 DEF Others, Settles, j
<1>6. /\ j.from = job[r].from /\ j.to = job[r].to /\ j.targets = job[r].targets
      /\ j.failures = job[r].failures + failed
      /\ j.eligible = left /\ j.fetched = {} /\ j.file = file /\ j.pc = pc /\ j.todo = rest
  BY <1>0, <1>2 DEF Job
<1>7. /\ SamePlan(r) /\ job'[r].failures = job[r].failures + failed
      /\ job'[r].eligible = left /\ job'[r].fetched = {} /\ job'[r].file = file
      /\ job'[r].pc = pc /\ job'[r].todo = rest
  BY <1>5, <1>6 DEF SamePlan
<1>. QED  BY <1>5, <1>7 DEF left, rest, file, pc

-----------------------------------------------------------------------------
(* Parts of the invariant that several steps have to keep *)

\* Of finitely many times there is a latest one.
LEMMA LatestTime ==
    ASSUME NEW S \in SUBSET (Nat \X Nat \union {NoTime}), IsFiniteSet(S), S # {}
    PROVE  \E t \in S : \A u \in S : Newer(t, u)
<1>. DEFINE After(t) == {u \in S : ~Newer(t, u)}
            family == {After(t) : t \in S}
<1>1. family \in SUBSET SUBSET S /\ family # {}
  <2>1. \A t \in S : After(t) \in SUBSET S
    OBVIOUS
  <2>. HIDE DEF After
  <2>. QED  BY <2>1
<1>2. PICK A \in family : \A B \in family : B \subseteq A => B = A
  <2>. HIDE DEF family
  <2>. QED  BY <1>1, SmallestSubset
<1>3. PICK t \in S : A = After(t)
  BY <1>2
<1>4. \A x \in S : x[1] \in Int /\ x[2] \in Int
  BY DEF NoTime
<1>5. ASSUME NEW u \in S, ~Newer(t, u) PROVE FALSE
  <2>1. \A y \in S : ~Newer(u, y) => ~Newer(t, y)
    BY <1>4, <1>5 DEF Newer
  <2>2. Newer(u, u)
    BY <1>4 DEF Newer
  <2>3. After(u) \subseteq After(t) /\ u \in After(t) /\ u \notin After(u)
    BY <1>5, <2>1, <2>2
  <2>. HIDE DEF After
  <2>4. After(u) \in family
    BY DEF family
  <2>. QED  BY <1>2, <1>3, <2>3, <2>4
<1>. QED  BY <1>5

\* GREATEST over an insert is a time.
LEMMA SeenTyped ==
    ASSUME TypeOK, NEW readings \in SUBSET Reading, IsFiniteSet(readings),
           NEW who \in DOMAIN lastSeen
    PROVE  Seen(who, readings) \in (Days \X Hours) \union {NoTime}
<1>. DEFINE mine == {x \in readings : who \in {x[1], Location[x[1]]}}
            time == [x \in mine |-> TimeOf(x)]
            times == {lastSeen[who]} \union {TimeOf(x) : x \in mine}
<1>1. times \subseteq (Days \X Hours) \union {NoTime}
  <2>1. \A x \in mine : TimeOf(x) \in Days \X Hours
    BY BackfillAssumption DEF TimeOf
  <2>. QED  BY <2>1 DEF TypeOK
<1>2. times \subseteq Nat \X Nat \union {NoTime}
  BY <1>1, BackfillAssumption
<1>3. IsFiniteSet(times)
  <2>1. IsFiniteSet(mine)
    BY FS_Subset
  <2>2. time \in Surjection(mine, {TimeOf(x) : x \in mine})
    BY DEF Surjection
  <2>3. IsFiniteSet({TimeOf(x) : x \in mine})
    <3>. HIDE DEF time, mine
    <3>. QED  BY <2>1, <2>2, FS_Surjection
  <2>4. times = {TimeOf(x) : x \in mine} \union {lastSeen[who]}
    OBVIOUS
  <2>5. IsFiniteSet({TimeOf(x) : x \in mine} \union {lastSeen[who]})
    <3>. HIDE DEF mine
    <3>. QED  BY <2>3, FS_AddElement
  <2>. HIDE DEF times, mine
  <2>. QED  BY <2>4, <2>5
<1>4. times # {} /\ Seen(who, readings) = CHOOSE t \in times : \A u \in times : Newer(t, u)
  BY DEF Seen
<1>. HIDE DEF times
<1>5. \E t \in times : \A u \in times : Newer(t, u)
  BY <1>2, <1>3, <1>4, LatestTime
<1>6. Seen(who, readings) \in times
  BY <1>4, <1>5
<1>. QED  BY <1>1, <1>6

\* The rows that the manifest claims, and will claim, can be summed up.
LEMMA ClaimsCount ==
    ASSUME TypeOK, Jobs, Finite
    PROVE  /\ Counts(Claims) /\ Counts(ClaimsToCome) /\ Counts(manifest)
           /\ Written(Claims) \in Nat
           /\ ClaimsToCome \cap Entry = {}
<1>1. IsFiniteSet(ClaimsToCome)
  <2>. DEFINE pending == {r \in Runs : Pending(r)}
              claim == [r \in pending |-> [run |-> r, written |-> job[r].written]]
  <2>1. IsFiniteSet(pending)
    <3>1. pending \subseteq {r \in Runs : Working(r)}
      BY DEF Pending, Working
    <3>. QED  BY <3>1, FS_Subset DEF Finite
  <2>2. claim \in Surjection(pending, ClaimsToCome)
    BY DEF Surjection, ClaimsToCome
  <2>. HIDE DEF pending, claim
  <2>. QED  BY <2>1, <2>2, FS_Surjection
<1>2. \A x \in ClaimsToCome : x.written \in Nat
  BY JobFields DEF ClaimsToCome
<1>3. Counts(ClaimsToCome)
  BY <1>1, <1>2 DEF Counts
<1>4. Counts(manifest)
  BY DEF Counts, Finite, TypeOK, Entry
<1>5. Counts(Claims)
  BY <1>1, <1>2, <1>4, FS_Union DEF Counts, Claims
<1>6. ClaimsToCome \cap Entry = {}
  BY DEF ClaimsToCome, Entry
<1>. QED  BY <1>3, <1>4, <1>5, <1>6, WrittenNat

\* A step of a run that neither begins nor ends an insert leaves the rows to come.
LEMMA SameClaimsToCome ==
    ASSUME NEW r, \A q \in Runs \ {r} : job'[q] = job[q], ~Pending(r), ~Pending(r)'
    PROVE  ClaimsToCome' = ClaimsToCome
BY DEF ClaimsToCome, Pending

\* A run that does nothing goes on remembering.
LEMMA RemembersIdle ==
    ASSUME NEW r, Remembers(r), job'[r] = job[r], succeeded \subseteq succeeded'
    PROVE  Remembers(r)'
<1>1. Working(r)' = Working(r) /\ \A s, d : Ahead(r, s, d)' = Ahead(r, s, d)
  BY DEF Working, Ahead
<1>. QED  BY <1>1 DEF Remembers

\* A run goes on remembering while it stays in its unit.
LEMMA RemembersKept ==
    ASSUME NEW r \in Runs, Remembers(r), Working(r), SameUnit(r),
           job[r].pc = "unit" => job'[r].pc = "unit", succeeded \subseteq succeeded'
    PROVE  Remembers(r)'
<1>. SUFFICES ASSUME job'[r].failures = 0,
                     NEW s \in job[r].targets, NEW d \in job[r].from .. job[r].to,
                     <<s, d>> \notin succeeded'
              PROVE  Ahead(r, s, d)'
  BY DEF Remembers, SameUnit, SamePlan
<1>1. Ahead(r, s, d)
  BY DEF Remembers, SameUnit
<1>. QED  BY <1>1 DEF Ahead, SameUnit

\* A run remembers when it settles a sensor, or the sensors, of its unit.
LEMMA RemembersCut ==
    ASSUME Jobs, NEW r \in Runs, Remembers(r), Working(r), SamePlan(r),
           job[r].todo # <<>>, succeeded \subseteq succeeded',
           job'[r].failures = 0 => job[r].failures = 0,
           \A s \in job[r].targets \cap Located :
               Location[s] = Unit(r).location /\ (job[r].pc = "unit" \/ s \in job[r].eligible)
                   => s \in job'[r].eligible \/ <<s, Unit(r).day>> \in succeeded',
           \/ /\ job'[r].eligible = {} /\ job'[r].pc = "unit"
              /\ job'[r].todo = Tail(job[r].todo)
           \/ /\ job'[r].eligible # {}
              /\ job'[r].todo = job[r].todo
    PROVE  Remembers(r)'
<1>. SUFFICES ASSUME job'[r].failures = 0,
                     NEW s \in job[r].targets, NEW d \in job[r].from .. job[r].to,
                     <<s, d>> \notin succeeded'
              PROVE  Ahead(r, s, d)'
  BY DEF Remembers, SamePlan
<1>1. s \in Located /\ Ahead(r, s, d)
  BY DEF Remembers, Ahead
<1>2. PICK i \in 1..Len(job[r].todo) :
         /\ job[r].todo[i].day = d /\ job[r].todo[i].location = Location[s]
         /\ i = 1 => job[r].pc = "unit" \/ s \in job[r].eligible
  BY <1>1 DEF Ahead
<1>3. /\ Unit(r) = job[r].todo[1] /\ Len(job[r].todo) \in Nat \ {0}
      /\ Len(Tail(job[r].todo)) = Len(job[r].todo) - 1
      /\ \A k \in 1 .. Len(job[r].todo) - 1 : Tail(job[r].todo)[k] = job[r].todo[k + 1]
  BY UnitTyped
<1>4. i = 1 => s \in job'[r].eligible
  BY <1>1, <1>2, <1>3
<1>5. CASE job'[r].todo = job[r].todo
  BY <1>1, <1>2, <1>4, <1>5 DEF Ahead
<1>6. CASE job'[r].eligible = {} /\ job'[r].pc = "unit" /\ job'[r].todo = Tail(job[r].todo)
  <2>1. i - 1 \in 1 .. Len(job[r].todo) - 1
    BY <1>3, <1>4, <1>6
  <2>2. job'[r].todo[i - 1] = job[r].todo[i] /\ i - 1 \in 1 .. Len(job'[r].todo)
    BY <1>3, <1>6, <2>1
  <2>. QED  BY <1>1, <1>2, <1>6, <2>2 DEF Ahead
<1>. QED  BY <1>5, <1>6

-----------------------------------------------------------------------------
(* The steps *)

\* Initially nothing was loaded and no run is under way.
LEMMA InitInv == Init => IInv
<1>. SUFFICES ASSUME Init PROVE IInv
  OBVIOUS
<1>1. Jobs
  BY IdleJob DEF Init, Jobs, Idle, Working, InUnit, Pending
<1>2. Finite
  <2>1. {r \in Runs : Working(r)} = {}
    BY DEF Init, Working, Idle
  <2>. QED  BY <2>1, FS_EmptySet DEF Init, Finite, Idle
<1>3. TypeOK
  BY DEF Init, TypeOK, Idle
<1>4. LoadedIsStored /\ LoadedIsRecorded /\ SuccessIsComplete
  BY DEF Init, LoadedIsStored, LoadedIsRecorded, SuccessIsComplete
<1>5. \A r \in Runs : ~Working(r)
  BY DEF Init, Working, Idle
<1>6. NothingForgotten /\ Alone
  BY <1>5 DEF Init, NothingForgotten, Remembers, Alone, Working, InUnit
<1>7. Claims = {}
  BY <1>5 DEF Init, Claims, ClaimsToCome, Pending, Working
<1>8. ClaimsAreInserted
  BY <1>7, WrittenEmpty DEF Init, ClaimsAreInserted
<1>. QED  BY <1>1, <1>2, <1>3, <1>4, <1>6, <1>8 DEF IInv

\* OpenAQ publishes a reading, or the poller stores one.
LEMMA OutsideStep ==
    ASSUME IInv, NEW x \in Reading, Publish(x) \/ WriteElsewhere(x)
    PROVE  IInv'
<1>. USE DEF IInv
<1>1. /\ UNCHANGED <<manifest, outcomes, job, history, begun, faults>>
      /\ rows \subseteq rows'
  BY DEF Publish, WriteElsewhere, database
<1>2. TypeOK'
  <2>1. /\ published' \subseteq Reading /\ rows' \subseteq Reading
    BY DEF TypeOK, Publish, WriteElsewhere, database
  <2>2. \A who \in DOMAIN lastSeen' : lastSeen'[who] \in (Days \X Hours) \union {NoTime}
    <3>1. CASE lastSeen' = lastSeen
      BY <3>1 DEF TypeOK
    <3>2. CASE lastSeen' = [who \in DOMAIN lastSeen |-> Seen(who, {x})]
      <4>1. {x} \in SUBSET Reading /\ IsFiniteSet({x})
        BY FS_Singleton
      <4>2. \A who \in DOMAIN lastSeen : Seen(who, {x}) \in (Days \X Hours) \union {NoTime}
        BY <4>1, SeenTyped
      <4>. QED  BY <3>2, <4>2
    <3>. QED  BY <3>1, <3>2 DEF Publish, WriteElsewhere, database
  <2>. QED  BY <1>1, <2>1, <2>2 DEF TypeOK, history
<1>3. Jobs'
  BY <1>1 DEF Jobs, Working, InUnit, Pending
<1>4. Finite'
  <2>1. IsFiniteSet(published')
    BY FS_AddElement DEF Finite, Publish, WriteElsewhere
  <2>. QED  BY <1>1, <2>1 DEF Finite, Working
<1>5. LoadedIsStored' /\ LoadedIsRecorded' /\ SuccessIsComplete'
  BY <1>1 DEF LoadedIsStored, LoadedIsRecorded, SuccessIsComplete, history
<1>6. NothingForgotten' /\ Alone'
  BY <1>1 DEF NothingForgotten, Remembers, Ahead, Alone, Working, InUnit, Loaded, history
<1>7. ClaimsAreInserted'
  <2>1. Claims' = Claims /\ inserted' = inserted
    BY <1>1 DEF Claims, ClaimsToCome, Pending, history
  <2>. QED  BY <2>1 DEF ClaimsAreInserted
<1>. QED  BY <1>2, <1>3, <1>4, <1>5, <1>6, <1>7

\* A run begins: all units lie before it.
LEMMA BeginStep ==
    ASSUME IInv, NEW r \in Runs, Begin(r)
    PROVE  IInv'
<1>. USE DEF IInv
<1>1. PICK from \in Days, to \in Days, targets \in Targets :
         /\ from <= to /\ targets \subseteq Sensors /\ IsFiniteSet(targets)
         /\ job'[r] = [Idle EXCEPT
               !.pc = "unit", !.from = from, !.to = to, !.targets = targets,
               !.todo = Units(from, to), !.failures = Cardinality(targets \ Located)]
         /\ Cardinality(targets \ Located) \in Nat
         /\ Covers(Units(from, to), from, to)
         /\ manifest' = manifest \union
               {Result("openaq_archive", s, from, "failed", {}, 0) : s \in targets \ Located}
  BY BeginView
<1>2. Others(r) /\ ~Working(r)
  BY BeginView
<1>3. /\ UNCHANGED <<published, rows, lastSeen, outcomes, inserted, succeeded, faults>>
      /\ begun' = begun + 1
      /\ overlapped' = (overlapped \/ \E q \in Runs : Working(q))
  BY DEF Begin, Working
<1>4. /\ job'[r].pc = "unit" /\ job'[r].from = from /\ job'[r].to = to
      /\ job'[r].targets = targets /\ job'[r].todo = Units(from, to)
      /\ job'[r].failures = Cardinality(targets \ Located)
      /\ job'[r].eligible = {} /\ job'[r].file = {} /\ job'[r].fetched = {}
  BY <1>1 DEF Idle
<1>. DEFINE new == {Result("openaq_archive", s, from, "failed", {}, 0) : s \in targets \ Located}
<1>5. /\ \A m \in new : m \in Entry /\ m.status = "failed" /\ m.written = 0
      /\ IsFiniteSet(new)
  <2>1. \A m \in new : m \in Entry /\ m.status = "failed" /\ m.written = 0
    BY <1>1 DEF Result, Entry, Sources
  <2>. DEFINE rest == targets \ Located
              result == [s \in rest |-> Result("openaq_archive", s, from, "failed", {}, 0)]
  <2>2. IsFiniteSet(rest) /\ result \in Surjection(rest, new)
    BY <1>1, FS_Subset DEF Surjection
  <2>3. IsFiniteSet(new)
    <3>. HIDE DEF rest, result, new
    <3>. QED  BY <2>2, FS_Surjection
  <2>. QED  BY <2>1, <2>3
<1>6. manifest' = manifest \union new
  BY <1>1
<1>. HIDE DEF new
<1>7. TypeOK'
  <2>1. \A q \in Runs : job'[q].eligible \subseteq Located /\ job'[q].fetched \subseteq Reading
    BY <1>2, <1>4 DEF Others, TypeOK
  <2>2. overlapped' \in BOOLEAN
    BY <1>3
  <2>. QED  BY <1>3, <1>5, <1>6, <2>1, <2>2 DEF TypeOK
<1>8. Jobs'
  <2>1. job' \in [Runs -> Job]
    BY <1>2 DEF Others
  <2>2. \A q \in Runs \ {r} : job'[q] = job[q]
    BY <1>2 DEF Others
  <2>. QED  BY <1>3, <1>4, <2>1, <2>2 DEF Jobs, Working, InUnit, Pending
<1>9. \A q \in Runs \ {r} : job'[q] = job[q]
  BY <1>2 DEF Others
<1>10. Finite'
  <2>1. IsFiniteSet(manifest')
    BY <1>5, <1>6, FS_Union DEF Finite
  <2>2. IsFiniteSet({q \in Runs : Working(q)}')
    <3>1. {q \in Runs : Working(q)}' = {q \in Runs : Working(q)} \union {r}
      BY <1>4, <1>9 DEF Working
    <3>. QED  BY <3>1, FS_AddElement DEF Finite
  <2>3. \A q \in Runs : IsFiniteSet(job'[q].file) /\ IsFiniteSet(job'[q].fetched)
    BY <1>4, <1>9, FS_EmptySet DEF Finite
  <2>. QED  BY <1>3, <2>1, <2>2, <2>3 DEF Finite
<1>11. LoadedIsStored' /\ LoadedIsRecorded' /\ SuccessIsComplete'
  BY <1>3, <1>5, <1>6 DEF LoadedIsStored, LoadedIsRecorded, SuccessIsComplete
<1>12. NothingForgotten'
  <2>1. ASSUME NEW q \in Runs \ {r} PROVE Remembers(q)'
    <3>1. Remembers(q) /\ job'[q] = job[q] /\ succeeded \subseteq succeeded'
      BY <1>3, <1>9 DEF NothingForgotten
    <3>. QED  BY <3>1, RemembersIdle
  <2>2. Remembers(r)'
    <3>. SUFFICES ASSUME Cardinality(targets \ Located) = 0,
                         NEW s \in targets, NEW d \in from..to
                  PROVE  Ahead(r, s, d)'
      BY <1>4 DEF Remembers
    <3>1. s \in Located
      <4>1. IsFiniteSet(targets \ Located)
        BY <1>1, FS_Subset
      <4>2. targets \ Located = {}
        BY <4>1, FS_EmptySet
      <4>. QED  BY <4>2
    <3>2. PICK i \in 1..Len(Locations) : Location[s] = Locations[i]
      <4>1. Locations \in Seq(STRING) /\ \E i \in DOMAIN Locations : Location[s] = Locations[i]
        BY <3>1, BackfillAssumption DEF Located
      <4>. QED  BY <4>1
    <3>3. PICK j \in 1..Len(Units(from, to)) :
             Units(from, to)[j] = [day |-> d, location |-> Locations[i]]
      BY <1>1 DEF Covers
    <3>. QED  BY <1>4, <3>1, <3>2, <3>3 DEF Ahead
  <2>. QED  BY <2>1, <2>2 DEF NothingForgotten
<1>13. Alone'
  <2>. SUFFICES ASSUME ~overlapped'
                PROVE  /\ \A q, u \in Runs : Working(q)' /\ Working(u)' => q = u
                       /\ \A x \in succeeded' : Loaded(x[1], x[2])'
                       /\ \A q \in Runs : InUnit(q)' =>
                             \A s \in job'[q].eligible : <<s, job'[q].todo[1].day>> \notin succeeded'
    BY DEF Alone
  <2>1. ~overlapped /\ \A q \in Runs : ~Working(q)
    BY <1>3
  <2>2. \A q \in Runs \ {r} : ~Working(q)'
    BY <1>9, <2>1 DEF Working
  <2>3. \A x \in succeeded' : Loaded(x[1], x[2])'
    BY <1>3, <1>6, <2>1 DEF Alone, Loaded
  <2>4. \A q \in Runs : ~InUnit(q)'
    BY <1>4, <2>2 DEF InUnit, Working
  <2>. QED  BY <2>2, <2>3, <2>4
<1>14. ClaimsAreInserted'
  <2>1. ClaimsToCome' = ClaimsToCome
    BY <1>2, <1>4, <1>9, SameClaimsToCome DEF Pending, Working
  <2>2. Claims' = Claims \union new
    BY <1>6, <2>1 DEF Claims
  <2>3. Written(Claims \union new) = Written(Claims)
    BY <1>5, ClaimsCount, WrittenZero
  <2>. QED  BY <1>3, <2>2, <2>3 DEF ClaimsAreInserted
<1>. QED  BY <1>7, <1>8, <1>10, <1>11, <1>12, <1>13, <1>14

\* A step of a run that writes nothing.
LEMMA QuietStep ==
    ASSUME IInv, NEW r \in Runs, Others(r), Working(r), Working(r)', ~Pending(r), ~Pending(r)',
           UNCHANGED <<published, database, history, begun, faults>>,
           job'[r].from = job[r].from /\ job'[r].to = job[r].to,
           InUnit(r)' => job'[r].todo # <<>>,
           job'[r].pc = "fetched" => job'[r].sensor \in job'[r].eligible,
           IsFiniteSet(job'[r].file), IsFiniteSet(job'[r].fetched),
           Remembers(r)',
           ~overlapped /\ InUnit(r)' =>
               \A s \in job'[r].eligible : <<s, job'[r].todo[1].day>> \notin succeeded
    PROVE  IInv'
<1>. USE DEF IInv
<1>1. /\ job' \in [Runs -> Job] /\ \A q \in Runs \ {r} : job'[q] = job[q]
      /\ UNCHANGED <<published, rows, lastSeen, manifest, outcomes, inserted, succeeded,
                     overlapped, begun, faults>>
  BY DEF Others, database, history
<1>2. TypeOK'
  <2>1. \A q \in Runs : job'[q].eligible \subseteq Located /\ job'[q].fetched \subseteq Reading
    BY <1>1 DEF Job
  <2>. QED  BY <1>1, <2>1 DEF TypeOK
<1>3. Jobs'
  BY <1>1 DEF Jobs, Working, InUnit, Pending
<1>4. Finite'
  <2>1. {q \in Runs : Working(q)}' = {q \in Runs : Working(q)}
    BY <1>1 DEF Working
  <2>. QED  BY <1>1, <2>1 DEF Finite
<1>5. LoadedIsStored' /\ LoadedIsRecorded' /\ SuccessIsComplete'
  BY <1>1 DEF LoadedIsStored, LoadedIsRecorded, SuccessIsComplete
<1>6. NothingForgotten'
  <2>1. ASSUME NEW q \in Runs \ {r} PROVE Remembers(q)'
    <3>1. Remembers(q) /\ job'[q] = job[q] /\ succeeded \subseteq succeeded'
      BY <1>1 DEF NothingForgotten
    <3>. QED  BY <3>1, RemembersIdle
  <2>. QED  BY <2>1 DEF NothingForgotten
<1>7. Alone'
  BY <1>1 DEF Alone, Loaded, InUnit, Working
<1>8. ClaimsAreInserted'
  <2>1. ClaimsToCome' = ClaimsToCome
    BY <1>1, SameClaimsToCome
  <2>. QED  BY <1>1, <2>1 DEF ClaimsAreInserted, Claims
<1>. QED  BY <1>2, <1>3, <1>4, <1>5, <1>6, <1>7, <1>8

\* A run looks at its next unit.
LEMMA CheckStep ==
    ASSUME IInv, NEW r \in Runs, Check(r)
    PROVE  IInv'
<1>. USE DEF IInv
<1>1. /\ Others(r) /\ SamePlan(r) /\ job'[r].failures = job[r].failures
      /\ job[r].pc = "unit" /\ job[r].todo # <<>>
      /\ job'[r].eligible = {s \in job[r].targets \cap Located :
            Location[s] = Unit(r).location /\ ~Loaded(s, Unit(r).day)}
      /\ job'[r].file = job[r].file /\ job'[r].fetched = job[r].fetched
  BY CheckView
<1>2. \/ /\ job'[r].eligible = {} /\ job'[r].pc = "unit"
         /\ job'[r].todo = Tail(job[r].todo)
      \/ /\ job'[r].eligible # {} /\ job'[r].pc = "archive"
         /\ job'[r].todo = job[r].todo
  BY CheckView
<1>3. UNCHANGED <<published, database, history, begun, faults>>
  BY DEF Check
<1>4. \A s \in Sensors, d \in Days : Loaded(s, d) => <<s, d>> \in succeeded
  BY DEF Loaded, LoadedIsRecorded
<1>5. Unit(r) = job[r].todo[1] /\ Unit(r).day \in Days
  BY <1>1, UnitTyped
<1>6. Remembers(r)'
  <2>1. ASSUME NEW s \in job[r].targets \cap Located, Location[s] = Unit(r).location
        PROVE  s \in job'[r].eligible \/ <<s, Unit(r).day>> \in succeeded'
    BY <1>1, <1>3, <1>4, <1>5, <2>1 DEF history, Located
  <2>2. Remembers(r) /\ Working(r) /\ succeeded \subseteq succeeded'
    BY <1>1, <1>3 DEF NothingForgotten, Working, history
  <2>. QED  BY <1>1, <1>2, <2>1, <2>2, RemembersCut
<1>7. ~overlapped /\ InUnit(r)' =>
         \A s \in job'[r].eligible : <<s, job'[r].todo[1].day>> \notin succeeded
  <2>. SUFFICES ASSUME ~overlapped, InUnit(r)', NEW s \in job'[r].eligible
                PROVE  <<s, job'[r].todo[1].day>> \notin succeeded
    OBVIOUS
  <2>1. job'[r].todo[1] = Unit(r)
    BY <1>2, <1>5 DEF InUnit
  <2>2. ~Loaded(s, Unit(r).day)
    BY <1>1
  <2>3. \A x \in succeeded : Loaded(x[1], x[2])
    BY DEF Alone
  <2>. QED  BY <2>1, <2>2, <2>3
<1>. QED  BY <1>1, <1>2, <1>3, <1>6, <1>7, QuietStep DEF Working, InUnit, Pending, SamePlan, Finite

\* A run fetches readings.
LEMMA FetchStep ==
    ASSUME IInv, NEW r \in Runs, Fetch(r)
    PROVE  IInv'
<1>. USE DEF IInv
<1>1. /\ Others(r) /\ SameUnit(r)
      /\ job[r].pc \in {"archive", "api"}
      /\ job'[r].pc \in {"load", "api", "fetched"}
      /\ job'[r].pc = "fetched" => job'[r].sensor \in job[r].eligible
      /\ job'[r].file = job[r].file \/ job'[r].file \subseteq published
      /\ job'[r].fetched = job[r].fetched \/ job'[r].fetched \subseteq published
      /\ UNCHANGED <<published, database, history, begun, faults>>
  BY FetchView
<1>2. IsFiniteSet(job'[r].file) /\ IsFiniteSet(job'[r].fetched)
  <2>1. IsFiniteSet(job[r].file) /\ IsFiniteSet(job[r].fetched) /\ IsFiniteSet(published)
    BY DEF Finite
  <2>2. \A S \in SUBSET published : IsFiniteSet(S)
    BY <2>1, FS_Subset
  <2>. QED  BY <1>1, <2>1, <2>2
<1>3. Remembers(r)'
  <2>1. Remembers(r) /\ Working(r) /\ succeeded \subseteq succeeded'
    BY <1>1 DEF NothingForgotten, Working, history
  <2>. QED  BY <1>1, <2>1, RemembersKept
<1>4. InUnit(r) /\ job[r].todo # <<>>
  BY <1>1 DEF InUnit, Jobs
<1>5. ~overlapped => \A s \in job[r].eligible : <<s, job[r].todo[1].day>> \notin succeeded
  BY <1>4 DEF Alone
<1>. QED  BY <1>1, <1>2, <1>3, <1>4, <1>5, QuietStep DEF Working, InUnit, Pending, SamePlan, SameUnit

\* A run inserts readings: the rows it will claim are those it inserted.
LEMMA InsertStep ==
    ASSUME IInv, NEW r \in Runs, InsertFromApi(r) \/ \E s \in Located : InsertFromArchive(r, s)
    PROVE  IInv'
<1>. USE DEF IInv
<1>1. PICK s \in Located, readings \in SUBSET Reading, n \in Nat :
         /\ Others(r) /\ SameUnit(r) /\ IsFiniteSet(readings)
         /\ job[r].pc \in {"load", "fetched"} /\ s \in job[r].eligible
         /\ job'[r].pc \in {"loaded", "inserted"}
         /\ job'[r].sensor = s /\ job'[r].fetched = readings
         /\ job'[r].written = n /\ job'[r].file = job[r].file
         /\ rows' = rows \union readings /\ inserted' = inserted + n
         /\ lastSeen' = [who \in DOMAIN lastSeen |-> Seen(who, readings)]
         /\ UNCHANGED <<published, manifest, outcomes, succeeded, overlapped, begun, faults>>
  BY InsertView
<1>2. job' \in [Runs -> Job] /\ \A q \in Runs \ {r} : job'[q] = job[q]
  BY <1>1 DEF Others
<1>3. job'[r].todo = job[r].todo /\ job'[r].eligible = job[r].eligible
      /\ job'[r].from = job[r].from /\ job'[r].to = job[r].to
  BY <1>1 DEF SameUnit, SamePlan
<1>4. Working(r) /\ InUnit(r) /\ ~Pending(r) /\ Working(r)' /\ InUnit(r)' /\ Pending(r)'
  BY <1>1 DEF Working, InUnit, Pending
<1>5. TypeOK'
  <2>1. \A q \in Runs : job'[q].eligible \subseteq Located /\ job'[q].fetched \subseteq Reading
    BY <1>2 DEF Job
  <2>2. \A who \in DOMAIN lastSeen : Seen(who, readings) \in (Days \X Hours) \union {NoTime}
    BY <1>1, SeenTyped
  <2>3. \A who \in DOMAIN lastSeen' : lastSeen'[who] \in (Days \X Hours) \union {NoTime}
    BY <1>1, <2>2
  <2>4. inserted' \in Nat /\ rows' \subseteq Reading
    BY <1>1 DEF TypeOK
  <2>. QED  BY <1>1, <2>1, <2>3, <2>4 DEF TypeOK
<1>6. Jobs'
  <2>1. ASSUME NEW q \in Runs
        PROVE  /\ Working(q)' => job'[q].from \in Days /\ job'[q].to \in Days
               /\ InUnit(q)' => job'[q].todo # <<>>
               /\ job'[q].pc \in {"loaded", "fetched", "inserted"}
                     => job'[q].sensor \in job'[q].eligible
               /\ Pending(q)' => job'[q].fetched \subseteq rows'
    BY <1>1, <1>2, <1>3, <1>4 DEF Jobs, Working, InUnit, Pending
  <2>. QED  BY <1>2, <2>1 DEF Jobs
<1>7. Finite'
  <2>1. {q \in Runs : Working(q)}' = {q \in Runs : Working(q)}
    BY <1>2, <1>4 DEF Working
  <2>2. \A q \in Runs : IsFiniteSet(job'[q].file) /\ IsFiniteSet(job'[q].fetched)
    BY <1>1, <1>2 DEF Finite
  <2>. QED  BY <1>1, <2>1, <2>2 DEF Finite
<1>8. LoadedIsStored' /\ LoadedIsRecorded' /\ SuccessIsComplete'
  BY <1>1 DEF LoadedIsStored, LoadedIsRecorded, SuccessIsComplete
<1>9. NothingForgotten'
  <2>1. ASSUME NEW q \in Runs \ {r} PROVE Remembers(q)'
    <3>1. Remembers(q) /\ job'[q] = job[q] /\ succeeded \subseteq succeeded'
      BY <1>1, <1>2 DEF NothingForgotten
    <3>. QED  BY <3>1, RemembersIdle
  <2>2. Remembers(r)'
    <3>1. Remembers(r) /\ succeeded \subseteq succeeded' /\ job[r].pc # "unit"
      BY <1>1 DEF NothingForgotten
    <3>. QED  BY <1>1, <1>4, <3>1, RemembersKept
  <2>. QED  BY <2>1, <2>2 DEF NothingForgotten
<1>10. Alone'
  <2>1. \A q \in Runs : Working(q)' = Working(q) /\ InUnit(q)' = InUnit(q)
    BY <1>2, <1>4 DEF Working, InUnit
  <2>2. \A q \in Runs : job'[q].todo = job[q].todo /\ job'[q].eligible = job[q].eligible
    BY <1>2, <1>3
  <2>. QED  BY <1>1, <2>1, <2>2 DEF Alone, Loaded
<1>11. ClaimsAreInserted'
  <2>. DEFINE claim == [run |-> r, written |-> n]
  <2>1. ClaimsToCome' = ClaimsToCome \union {claim}
    BY <1>1, <1>2, <1>4 DEF ClaimsToCome, Pending
  <2>2. claim \notin Claims
    <3>1. claim \notin ClaimsToCome
      BY <1>4 DEF ClaimsToCome
    <3>2. claim \notin Entry
      BY DEF Entry
    <3>. QED  BY <3>1, <3>2 DEF Claims, TypeOK
  <2>3. Claims' = Claims \union {claim}
    BY <1>1, <2>1 DEF Claims
  <2>4. Written(Claims \union {claim}) = Written(Claims) + n
    <3>1. claim.written = n
      OBVIOUS
    <3>. HIDE DEF claim
    <3>. QED  BY <2>2, <3>1, ClaimsCount, WrittenAdd
  <2>5. Written(Claims) \in Nat /\ inserted \in Nat
    BY ClaimsCount DEF TypeOK
  <2>. QED  BY <1>1, <2>3, <2>4, <2>5 DEF ClaimsAreInserted
<1>. QED  BY <1>5, <1>6, <1>7, <1>8, <1>9, <1>10, <1>11

\* A run records a result for one of the sensors of its unit: that it was loaded,
\* with the readings fetched and the rows inserted, or that it failed.
LEMMA SettleStep ==
    ASSUME IInv, NEW r \in Runs, NEW s \in job[r].eligible, NEW failed \in {0, 1},
           NEW loop \in {"load", "api"}, InUnit(r),
           NEW m \in Entry, manifest' = Upsert(m),
           m.sensor = s, m.day = Unit(r).day,
           Settles(r, s, failed, loop),
           \/ /\ failed = 1 /\ m.status = "failed" /\ m.written = 0
              /\ succeeded' = succeeded /\ ~Pending(r)
           \/ /\ failed = 0 /\ m.status = "success" /\ Pending(r)
              /\ m.fetched = job[r].fetched /\ m.written = job[r].written
              /\ succeeded' = succeeded \union {<<s, Unit(r).day>>},
           UNCHANGED <<published, rows, lastSeen, outcomes, inserted, overlapped, begun, faults>>
    PROVE  IInv'
<1>. USE DEF IInv
<1>1. job[r].todo # <<>> /\ Working(r)
  BY DEF Jobs, InUnit, Working
<1>2. /\ Unit(r) = job[r].todo[1] /\ Unit(r).day \in Days
      /\ s \in Located /\ s \in Sensors /\ job[r].failures \in Nat
  BY <1>1, UnitTyped, JobFields DEF Located
<1>3. /\ Others(r) /\ SamePlan(r)
      /\ job'[r].failures = job[r].failures + failed
      /\ job'[r].eligible = job[r].eligible \ {s}
      /\ job'[r].fetched = {} /\ (job'[r].file = job[r].file \/ job'[r].file = {})
      /\ \/ /\ job'[r].eligible = {} /\ job'[r].pc = "unit"
            /\ job'[r].todo = Tail(job[r].todo)
         \/ /\ job'[r].eligible # {} /\ job'[r].pc = loop
            /\ job'[r].todo = job[r].todo
  BY <1>1, SettledView
<1>4. job' \in [Runs -> Job] /\ \A q \in Runs \ {r} : job'[q] = job[q]
  BY <1>3 DEF Others
<1>5. Working(r)' /\ ~Pending(r)' /\ (InUnit(r)' => job'[r].todo = job[r].todo)
      /\ job'[r].pc \in {"unit", "load", "api"}
  BY <1>3 DEF Working, Pending, InUnit
<1>6. manifest' \subseteq manifest \union {m} /\ m \in manifest' /\ succeeded \subseteq succeeded'
  BY DEF Upsert
<1>7. TypeOK'
  <2>1. \A q \in Runs : job'[q].eligible \subseteq Located /\ job'[q].fetched \subseteq Reading
    BY <1>4 DEF Job
  <2>2. succeeded' \subseteq Sensors \X Days
    BY <1>2 DEF TypeOK
  <2>. QED  BY <1>6, <2>1, <2>2 DEF TypeOK
<1>8. Jobs'
  <2>1. ASSUME NEW q \in Runs
        PROVE  /\ Working(q)' => job'[q].from \in Days /\ job'[q].to \in Days
               /\ InUnit(q)' => job'[q].todo # <<>>
               /\ job'[q].pc \in {"loaded", "fetched", "inserted"}
                     => job'[q].sensor \in job'[q].eligible
               /\ Pending(q)' => job'[q].fetched \subseteq rows'
    <3>1. CASE q = r
      BY <1>1, <1>3, <1>5, <3>1 DEF Jobs, SamePlan
    <3>2. CASE q # r
      BY <1>4, <3>2 DEF Jobs, Working, InUnit, Pending
    <3>. QED  BY <3>1, <3>2
  <2>. QED  BY <1>4, <2>1 DEF Jobs
<1>9. Finite'
  <2>1. {q \in Runs : Working(q)}' = {q \in Runs : Working(q)}
    BY <1>1, <1>4, <1>5 DEF Working
  <2>2. \A q \in Runs : IsFiniteSet(job'[q].file) /\ IsFiniteSet(job'[q].fetched)
    BY <1>3, <1>4, FS_EmptySet DEF Finite
  <2>3. IsFiniteSet(manifest')
    <3>1. IsFiniteSet(manifest \union {m})
      BY FS_AddElement DEF Finite
    <3>. QED  BY <1>6, <3>1, FS_Subset
  <2>. QED  BY <2>1, <2>2, <2>3 DEF Finite
<1>10. LoadedIsStored' /\ LoadedIsRecorded' /\ SuccessIsComplete'
  <2>1. m.status = "success" => m.fetched \subseteq rows /\ <<m.sensor, m.day>> \in succeeded'
    BY DEF Jobs
  <2>. QED  BY <1>6, <2>1 DEF LoadedIsStored, LoadedIsRecorded, SuccessIsComplete
<1>11. NothingForgotten'
  <2>1. ASSUME NEW q \in Runs \ {r} PROVE Remembers(q)'
    <3>1. Remembers(q) /\ job'[q] = job[q] /\ succeeded \subseteq succeeded'
      BY <1>4, <1>6 DEF NothingForgotten
    <3>. QED  BY <3>1, RemembersIdle
  <2>2. Remembers(r)'
    <3>1. CASE failed = 1
      BY <1>2, <1>3, <3>1 DEF Remembers
    <3>2. CASE failed = 0
      <4>1. job'[r].failures = job[r].failures
        BY <1>2, <1>3, <3>2
      <4>2. \A u \in job[r].targets \cap Located :
               Location[u] = Unit(r).location /\ (job[r].pc = "unit" \/ u \in job[r].eligible)
                   => u \in job'[r].eligible \/ <<u, Unit(r).day>> \in succeeded'
        BY <1>3, <3>2 DEF InUnit
      <4>3. Remembers(r)
        BY DEF NothingForgotten
      <4>. QED  BY <1>1, <1>3, <1>6, <4>1, <4>2, <4>3, RemembersCut
    <3>. QED  BY <3>1, <3>2
  <2>. QED  BY <2>1, <2>2 DEF NothingForgotten
<1>12. Alone'
  <2>. SUFFICES ASSUME ~overlapped'
                PROVE  /\ \A q, u \in Runs : Working(q)' /\ Working(u)' => q = u
                       /\ \A x \in succeeded' : Loaded(x[1], x[2])'
                       /\ \A q \in Runs : InUnit(q)' =>
                             \A u \in job'[q].eligible : <<u, job'[q].todo[1].day>> \notin succeeded'
    BY DEF Alone
  <2>1. \A q \in Runs : Working(q)' = Working(q)
    BY <1>1, <1>4, <1>5 DEF Working
  <2>2. \A q, u \in Runs : Working(q)' /\ Working(u)' => q = u
    BY <2>1 DEF Alone
  <2>3. \A u \in job[r].eligible : <<u, Unit(r).day>> \notin succeeded
    BY <1>2 DEF Alone
  <2>4. ASSUME NEW x \in succeeded' PROVE Loaded(x[1], x[2])'
    <3>1. CASE x = <<s, Unit(r).day>>
      <4>1. m.status = "success"
        BY <2>3, <3>1
      <4>. QED  BY <1>6, <3>1, <4>1 DEF Loaded, Entry
    <3>2. CASE x # <<s, Unit(r).day>>
      <4>1. x \in succeeded /\ x \in Sensors \X Days
        BY <3>2 DEF TypeOK
      <4>2. PICK old \in manifest : old.source \in Sources /\ old.sensor = x[1]
                                    /\ old.day = x[2] /\ old.status = "success"
        BY <4>1 DEF Alone, Loaded
      <4>3. <<old.source, old.sensor, old.day>> # <<m.source, m.sensor, m.day>>
        BY <3>2, <4>1, <4>2
      <4>4. old \in manifest'
        BY <4>3 DEF Upsert
      <4>. QED  BY <4>2, <4>4 DEF Loaded
    <3>. QED  BY <3>1, <3>2
  <2>5. ASSUME NEW q \in Runs, InUnit(q)', NEW u \in job'[q].eligible
        PROVE  <<u, job'[q].todo[1].day>> \notin succeeded'
    <3>1. q = r
      BY <1>5, <2>2, <2>5 DEF InUnit, Working
    <3>2. u \in job[r].eligible /\ u # s /\ job'[q].todo[1] = Unit(r)
      BY <1>2, <1>3, <1>5, <2>5, <3>1
    <3>. QED  BY <2>3, <3>2
  <2>. QED  BY <2>2, <2>4, <2>5
<1>13. ClaimsAreInserted'
  <2>1. Counts(Claims) /\ Written(Claims) \in Nat /\ m.written \in Nat
    BY ClaimsCount DEF Entry
  <2>2. CASE failed = 1
    <3>1. ClaimsToCome' = ClaimsToCome
      BY <1>4, <1>5, <2>2, SameClaimsToCome
    <3>2. Claims' \in SUBSET (Claims \union {m})
      BY <1>6, <3>1 DEF Claims
    <3>3. Counts(Claims \union {m}) /\ Written(Claims \union {m}) = Written(Claims)
      <4>1. IsFiniteSet({m}) /\ \A z \in {m} : z.written = 0
        <5>1. m.written = 0
          BY <2>2
        <5>. QED  BY <5>1, FS_Singleton
      <4>. QED  BY <2>1, <4>1, WrittenZero
    <3>4. Written(Claims') <= Written(Claims)
      BY <3>2, <3>3, WrittenSubset
    <3>5. Written(Claims') \in Nat
      BY <3>2, <3>3, WrittenSubset
    <3>. QED  BY <2>1, <3>4, <3>5 DEF ClaimsAreInserted, TypeOK
  <2>3. CASE failed = 0
    <3>. DEFINE claim == [run |-> r, written |-> job[r].written]
                rest == Claims \ {claim}
    <3>1. claim \in Claims /\ claim.written = m.written
      BY <2>3 DEF Claims, ClaimsToCome
    <3>2. ClaimsToCome' = ClaimsToCome \ {claim}
      BY <1>4, <1>5 DEF ClaimsToCome, Pending
    <3>3. claim \notin Entry
      BY DEF Entry
    <3>4. Claims' \in SUBSET (rest \union {m})
      BY <1>6, <3>2, <3>3 DEF Claims, TypeOK
    <3>. HIDE DEF claim
    <3>5. Counts(rest) /\ Written(rest) \in Nat /\ Written(Claims) = m.written + Written(rest)
      BY <2>1, <3>1, WrittenRemove, WrittenSubset
    <3>. HIDE DEF rest
    <3>6. Counts(rest \union {m}) /\ Written(rest \union {m}) <= Written(rest) + m.written
      <4>1. CASE m \in rest
        <5>1. rest \union {m} = rest
          BY <4>1
        <5>2. Written(rest) <= Written(rest) + m.written
          BY <2>1, <3>5
        <5>. QED  BY <3>5, <5>1, <5>2
      <4>2. CASE m \notin rest
        <5>1. Counts(rest \union {m}) /\ Written(rest \union {m}) = Written(rest) + m.written
          BY <2>1, <3>5, <4>2, WrittenAdd
        <5>. QED  BY <2>1, <3>5, <5>1
      <4>. QED  BY <4>1, <4>2
    <3>7. /\ Written(Claims') \in Nat /\ Written(rest \union {m}) \in Nat
          /\ Written(Claims') <= Written(rest \union {m})
      BY <3>4, <3>6, WrittenSubset
    <3>. QED  BY <2>1, <3>5, <3>6, <3>7 DEF ClaimsAreInserted, TypeOK
  <2>. QED  BY <2>2, <2>3
<1>. QED  BY <1>7, <1>8, <1>9, <1>10, <1>11, <1>12, <1>13

\* A sensor of the unit was loaded.
LEMMA RecordStep ==
    ASSUME IInv, NEW r \in Runs, Record(r)
    PROVE  IInv'
<1>. USE DEF IInv
<1>. DEFINE s == job[r].sensor
            m == Result(Source(r), s, Unit(r).day, "success", job[r].fetched, job[r].written)
            loop == IF job[r].pc = "loaded" THEN "load" ELSE "api"
<1>1. Pending(r) /\ InUnit(r) /\ s \in job[r].eligible
  BY DEF Record, Pending, InUnit, Jobs
<1>2. job[r].todo # <<>>
  BY <1>1 DEF Jobs
<1>3. /\ Unit(r).day \in Days /\ s \in Sensors /\ job[r].fetched \in SUBSET Reading
      /\ job[r].written \in Nat
  BY <1>1, <1>2, UnitTyped, JobFields DEF Located
<1>4. /\ m \in Entry /\ m.sensor = s /\ m.day = Unit(r).day /\ m.status = "success"
      /\ m.fetched = job[r].fetched /\ m.written = job[r].written
  BY <1>3 DEF Result, Entry, Source, Sources
<1>5. /\ manifest' = Upsert(m) /\ succeeded' = succeeded \union {<<s, Unit(r).day>>}
      /\ Settles(r, s, 0, loop)
      /\ UNCHANGED <<published, rows, lastSeen, outcomes, inserted, overlapped, begun, faults>>
  BY DEF Record, Settles
<1>6. loop \in {"load", "api"} /\ 0 \in {0, 1}
  OBVIOUS
<1>. HIDE DEF m, s, loop
<1>. QED  BY <1>1, <1>4, <1>5, <1>6, SettleStep

\* The API gave nothing for a sensor of the unit.
LEMMA ApiFailsStep ==
    ASSUME IInv, NEW r \in Runs, NEW s \in Located, ApiFails(r, s)
    PROVE  IInv'
<1>. USE DEF IInv
<1>. DEFINE m == Result("openaq_live", s, Unit(r).day, "failed", {}, 0)
<1>1. InUnit(r) /\ ~Pending(r) /\ s \in job[r].eligible
  BY DEF ApiFails, Pending, InUnit
<1>2. job[r].todo # <<>>
  BY <1>1 DEF Jobs
<1>3. Unit(r).day \in Days /\ s \in Sensors
  BY <1>2, UnitTyped DEF Located
<1>4. /\ m \in Entry /\ m.sensor = s /\ m.day = Unit(r).day /\ m.status = "failed"
      /\ m.written = 0
  BY <1>3 DEF Result, Entry, Sources
<1>5. /\ manifest' = Upsert(m) /\ succeeded' = succeeded
      /\ Settles(r, s, 1, "api")
      /\ UNCHANGED <<published, rows, lastSeen, outcomes, inserted, overlapped, begun, faults>>
  BY DEF ApiFails, Settles, history
<1>6. "api" \in {"load", "api"} /\ 1 \in {0, 1}
  OBVIOUS
<1>. HIDE DEF m
<1>. QED  BY <1>1, <1>4, <1>5, <1>6, SettleStep

\* A run ends, as it should or with an exception: it may be called a success only
\* when nothing lies before it any more.
LEMMA EndStep ==
    ASSUME IInv, NEW r \in Runs, Finish(r) \/ Abort(r)
    PROVE  IInv'
<1>. USE DEF IInv
<1>1. /\ job' = [job EXCEPT ![r] = Idle]
      /\ UNCHANGED <<published, rows, lastSeen, manifest, inserted, succeeded, overlapped, begun>>
      /\ faults' \in Nat /\ Working(r)
  BY DEF Finish, Abort, history, TypeOK, Working
<1>2. /\ job' \in [Runs -> Job] /\ \A q \in Runs \ {r} : job'[q] = job[q]
      /\ job'[r] = Idle
  BY <1>1, IdleJob DEF Jobs
<1>3. /\ ~Working(r)' /\ ~InUnit(r)' /\ ~Pending(r)'
      /\ job'[r].pc = "idle" /\ job'[r].file = {} /\ job'[r].fetched = {}
  <2>1. job'[r].pc = "idle" /\ job'[r].file = {} /\ job'[r].fetched = {}
    <3>1. Idle.pc = "idle" /\ Idle.file = {} /\ Idle.fetched = {}
      BY Zenon DEF Idle
    <3>. QED  BY <1>2, <3>1, Zenon
  <2>. QED  BY <2>1 DEF Working, InUnit, Pending
<1>4. /\ outcomes' \subseteq outcomes \union Outcomes(r, "failed") \union Outcomes(r, Status(job[r]))
      /\ \A o \in outcomes' \ outcomes :
            /\ o.from = job[r].from /\ o.to = job[r].to /\ o.targets = job[r].targets
            /\ o \in Outcome
            /\ o.status = "success" => job[r].todo = <<>> /\ job[r].failures = 0
  <2>1. job[r].from \in Days /\ job[r].to \in Days /\ job[r].targets \in SUBSET Sensors
    BY <1>1, JobFields DEF Jobs
  <2>2. CASE Finish(r)
    <3>1. Status(job[r]) \in {"success", "partial", "failed"}
          /\ (Status(job[r]) = "success" => job[r].failures = 0)
      BY DEF Status
    <3>2. outcomes' = Outcomes(r, Status(job[r])) /\ job[r].todo = <<>>
      BY <2>2 DEF Finish
    <3>. QED  BY <2>1, <3>1, <3>2 DEF Outcomes, Outcome
  <2>3. CASE Abort(r)
    <3>1. outcomes' = outcomes \/ outcomes' = Outcomes(r, "failed")
      BY <2>3 DEF Abort
    <3>. QED  BY <2>1, <3>1 DEF Outcomes, Outcome
  <2>. QED  BY <2>2, <2>3
<1>5. TypeOK'
  <2>1. \A q \in Runs : job'[q].eligible \subseteq Located /\ job'[q].fetched \subseteq Reading
    BY <1>2 DEF Job
  <2>2. outcomes' \subseteq Outcome
    BY <1>4 DEF TypeOK
  <2>. QED  BY <1>1, <2>1, <2>2 DEF TypeOK
<1>6. Jobs'
  BY <1>1, <1>2, <1>3 DEF Jobs, Working, InUnit, Pending, Idle
<1>7. Finite'
  <2>1. IsFiniteSet({q \in Runs : Working(q)}')
    <3>1. {q \in Runs : Working(q)}' \subseteq {q \in Runs : Working(q)}
      BY <1>2, <1>3 DEF Working
    <3>. QED  BY <3>1, FS_Subset DEF Finite
  <2>2. \A q \in Runs : IsFiniteSet(job'[q].file) /\ IsFiniteSet(job'[q].fetched)
    BY <1>2, <1>3, FS_EmptySet DEF Finite
  <2>. QED  BY <1>1, <2>1, <2>2 DEF Finite
<1>8. LoadedIsStored' /\ LoadedIsRecorded'
  BY <1>1 DEF LoadedIsStored, LoadedIsRecorded
<1>9. SuccessIsComplete'
  <2>. SUFFICES ASSUME NEW o \in outcomes', o.status = "success"
                PROVE  o.targets \X (o.from..o.to) \subseteq succeeded
    BY <1>1 DEF SuccessIsComplete
  <2>1. CASE o \in outcomes
    BY <2>1 DEF SuccessIsComplete
  <2>2. CASE o \notin outcomes
    <3>1. /\ o.from = job[r].from /\ o.to = job[r].to /\ o.targets = job[r].targets
          /\ job[r].todo = <<>> /\ job[r].failures = 0
      BY <1>4, <2>2
    <3>2. \A s, d : ~Ahead(r, s, d)
      BY <3>1 DEF Ahead
    <3>3. \A s \in job[r].targets, d \in job[r].from .. job[r].to : <<s, d>> \in succeeded
      BY <1>1, <3>1, <3>2 DEF NothingForgotten, Remembers
    <3>. QED  BY <3>1, <3>3
  <2>. QED  BY <2>1, <2>2
<1>10. NothingForgotten'
  <2>1. ASSUME NEW q \in Runs \ {r} PROVE Remembers(q)'
    <3>1. Remembers(q) /\ job'[q] = job[q] /\ succeeded \subseteq succeeded'
      BY <1>1, <1>2 DEF NothingForgotten
    <3>. QED  BY <3>1, RemembersIdle
  <2>. QED  BY <1>3, <2>1 DEF NothingForgotten, Remembers
<1>11. Alone'
  <2>1. \A q \in Runs : q # r => Working(q)' = Working(q) /\ InUnit(q)' = InUnit(q)
    BY <1>2 DEF Working, InUnit
  <2>. QED  BY <1>1, <1>2, <1>3, <2>1 DEF Alone, Loaded
<1>12. ClaimsAreInserted'
  <2>1. Claims' \in SUBSET Claims
    BY <1>1, <1>2, <1>3 DEF Claims, ClaimsToCome, Pending
  <2>2. /\ Written(Claims') \in Nat /\ Written(Claims) \in Nat
        /\ Written(Claims') <= Written(Claims)
    BY <2>1, ClaimsCount, WrittenSubset
  <2>. QED  BY <1>1, <2>2 DEF ClaimsAreInserted, TypeOK
<1>. QED  BY <1>5, <1>6, <1>7, <1>8, <1>9, <1>10, <1>11, <1>12

\* Every step keeps the invariant.
LEMMA StepInv == IInv /\ [Next]_vars => IInv'
<1>. SUFFICES ASSUME IInv, [Next]_vars PROVE IInv'
  OBVIOUS
<1>1. CASE UNCHANGED vars
  <2>1. UNCHANGED <<published, rows, lastSeen, manifest, outcomes, job, inserted, succeeded,
                    overlapped, begun, faults>>
    BY <1>1 DEF vars, database, history
  <2>2. TypeOK' /\ Jobs' /\ Finite' /\ LoadedIsStored' /\ LoadedIsRecorded'
    BY <2>1 DEF IInv, TypeOK, Jobs, Finite, LoadedIsStored, LoadedIsRecorded, Working, InUnit,
                Pending
  <2>3. NothingForgotten' /\ SuccessIsComplete' /\ Alone'
    BY <2>1 DEF IInv, NothingForgotten, Remembers, Ahead, SuccessIsComplete, Alone, Loaded,
                Working, InUnit
  <2>4. ClaimsAreInserted'
    <3>1. Claims' = Claims
      BY <2>1 DEF Claims, ClaimsToCome, Pending
    <3>. QED  BY <2>1, <3>1 DEF IInv, ClaimsAreInserted
  <2>. QED  BY <2>2, <2>3, <2>4 DEF IInv
<1>2. CASE \E x \in Reading : Publish(x) \/ WriteElsewhere(x)
  BY <1>2, OutsideStep
<1>3. ASSUME NEW r \in Runs, Begin(r) \/ Work(r) \/ Abort(r) PROVE IInv'
  <2>1. CASE Begin(r)
    BY <2>1, BeginStep
  <2>2. CASE Check(r)
    BY <2>2, CheckStep
  <2>3. CASE Fetch(r)
    BY <2>3, FetchStep
  <2>4. CASE InsertFromApi(r) \/ \E s \in Located : InsertFromArchive(r, s)
    BY <2>4, InsertStep
  <2>5. CASE Record(r)
    BY <2>5, RecordStep
  <2>6. CASE \E s \in Located : ApiFails(r, s)
    BY <2>6, ApiFailsStep
  <2>7. CASE Finish(r) \/ Abort(r)
    BY <2>7, EndStep
  <2>. QED  BY <1>3, <2>1, <2>2, <2>3, <2>4, <2>5, <2>6, <2>7 DEF Work, Fetch
<1>. QED  BY <1>1, <1>2, <1>3 DEF Next

\* The invariant holds from the start and through every step.
LEMMA Invariant == Spec => []IInv
BY InitInv, StepInv, PTL DEF Spec

-----------------------------------------------------------------------------
(* The properties *)

\* The manifest, the table and the runs stay within their types.
THEOREM TypeCorrect == Spec => []TypeOK
<1>1. IInv => TypeOK
  BY DEF IInv
<1>. QED  BY Invariant, <1>1, PTL

\* A day the manifest calls loaded is in the table with every reading that was
\* fetched for it, for any runs that overlap or break off.
THEOREM LoadedDaysAreStored == Spec => []LoadedIsStored
<1>1. IInv => LoadedIsStored
  BY DEF IInv
<1>. QED  BY Invariant, <1>1, PTL

\* A run is recorded as a success only when each of its sensors had each of its
\* days loaded, for any dates, sensors and locations.
THEOREM SuccessMeansComplete == Spec => []SuccessIsComplete
<1>1. IInv => SuccessIsComplete
  BY DEF IInv
<1>. QED  BY Invariant, <1>1, PTL

\* The rows the manifest claims, summed up, were inserted by the backfill, for any
\* number of runs that insert the same readings at the same time.
THEOREM ManifestIsHonest == Spec => []ManifestNeverOvercounts
<1>1. ASSUME IInv PROVE ManifestNeverOvercounts
  <2>1. Counts(Claims) /\ manifest \in SUBSET Claims
    BY <1>1, ClaimsCount DEF IInv, Claims
  <2>2. Written(manifest) \in Nat /\ Written(Claims) \in Nat /\ Written(manifest) <= Written(Claims)
    BY <2>1, WrittenSubset
  <2>3. Written(manifest) <= inserted
    BY <1>1, <2>2 DEF IInv, ClaimsAreInserted, TypeOK
  <2>. QED  BY <2>3 DEF ManifestNeverOvercounts, Written
<1>. QED  BY Invariant, <1>1, PTL

\* While no two runs overlap, no run fetches a day that was loaded before.
THEOREM LoadedDaysAreSkipped == Spec => CompletedIsSkipped
<1>1. ASSUME IInv, [Next]_vars, NEW r \in Runs,
             job[r].pc = "unit", job'[r].pc = "archive", ~overlapped
      PROVE  (job'[r].eligible \X {Unit(r).day}) \cap succeeded = {}
  <2>1. Jobs /\ TypeOK /\ Finite
    BY <1>1 DEF IInv
  <2>2. Check(r)
    <3>1. job' # job
      BY <1>1
    <3>2. PICK q \in Runs : Begin(q) \/ Work(q) \/ Abort(q)
      <4>1. \A x \in Reading : ~(Publish(x) \/ WriteElsewhere(x))
        BY <3>1 DEF Publish, WriteElsewhere
      <4>. QED  BY <1>1, <3>1, <4>1 DEF Next, vars
    <3>3. CASE Begin(q)
      <4>1. Others(q) /\ ~Working(q) /\ job'[q].pc = "unit"
        <5>1. Others(q) /\ ~Working(q)
          BY <2>1, <3>3, BeginView
        <5>2. job'[q].pc = "unit"
          BY <2>1, <3>3 DEF Begin, Jobs, Idle
        <5>. QED  BY <5>1, <5>2
      <4>. QED  BY <1>1, <4>1 DEF Others, Working
    <3>4. CASE Check(q)
      <4>1. Others(q)
        BY <2>1, <3>4, CheckView
      <4>. QED  BY <1>1, <3>4, <4>1 DEF Others
    <3>5. CASE Fetch(q)
      <4>1. Others(q) /\ job[q].pc \in {"archive", "api"}
        BY <2>1, <3>5, FetchView
      <4>. QED  BY <1>1, <4>1 DEF Others
    <3>6. CASE InsertFromApi(q) \/ \E s \in Located : InsertFromArchive(q, s)
      <4>1. Others(q) /\ job[q].pc \in {"load", "fetched"}
        BY <2>1, <3>6, InsertView
      <4>. QED  BY <1>1, <4>1 DEF Others
    <3>7. CASE Record(q) \/ \E s \in Located : ApiFails(q, s)
      <4>1. job[q].pc \in {"loaded", "inserted", "api"} /\ \A u \in Runs \ {q} : job'[u] = job[u]
        BY <2>1, <3>7 DEF Record, ApiFails, Jobs
      <4>. QED  BY <1>1, <4>1
    <3>8. CASE Finish(q) \/ Abort(q)
      <4>1. job' = [job EXCEPT ![q] = Idle]
        BY <3>8 DEF Finish, Abort
      <4>2. job'[q].pc = "idle" /\ \A u \in Runs \ {q} : job'[u] = job[u]
        BY <2>1, <4>1 DEF Jobs, Idle
      <4>. QED  BY <1>1, <4>2
    <3>. QED  BY <3>2, <3>3, <3>4, <3>5, <3>6, <3>7, <3>8 DEF Work, Fetch
  <2>3. \A s \in job'[r].eligible : ~Loaded(s, Unit(r).day)
    BY <2>1, <2>2, CheckView
  <2>4. \A x \in succeeded : Loaded(x[1], x[2])
    BY <1>1 DEF IInv, Alone
  <2>. QED  BY <2>3, <2>4
<1>2. IInv /\ [Next]_vars =>
         [\A r \in Runs : job[r].pc = "unit" /\ job'[r].pc = "archive" /\ ~overlapped =>
             (job'[r].eligible \X {Unit(r).day}) \cap succeeded = {}]_vars
  BY <1>1
<1>. QED  BY Invariant, <1>2, PTL DEF Spec, CompletedIsSkipped
=============================================================================
