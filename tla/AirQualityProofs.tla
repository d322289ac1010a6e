-------------------------- MODULE AirQualityProofs --------------------------
(***************************************************************************)
(* Theorems about the AQI, the readers of the stored readings and the load *)
(* of the fires, for every concentration and any stations, readings,       *)
(* windows, requests and loads.                                            *)
(***************************************************************************)
EXTENDS AirQuality, FiniteSetTheorems, WellFoundedInduction, NaturalsInduction, TLAPS

-----------------------------------------------------------------------------
(* The AQI: for every concentration it lies in the category of its breakpoints, and
   more pollution never gives a lower index.  No value is left out here. *)

\* A concentration in tenths that has an AQI.
Measured == 0..ExtendedMax

\* Row i is the row of concentration c: the last one has no upper end.
RowOf(i, c) ==
    /\ PM25Breakpoints[i].low <= c
    /\ i = Hazardous \/ c <= PM25Breakpoints[i].high

\* A concentration belongs to the row that BreakpointFor returns.
LEMMA RowFound ==
    ASSUME NEW c \in Measured
    PROVE  BreakpointFor(c) \in Rows /\ RowOf(BreakpointFor(c), c)
<1>1. CASE \E i \in Rows : InRow(i, c)
  <2>1. BreakpointFor(c) = CHOOSE i \in Rows : InRow(i, c)
    BY <1>1 DEF BreakpointFor
  <2>2. BreakpointFor(c) \in Rows /\ InRow(BreakpointFor(c), c)
    BY <1>1, <2>1
  <2>. QED  BY <2>2 DEF InRow, RowOf
<1>2. CASE ~ \E i \in Rows : InRow(i, c)
  <2>1. /\ ~InRow(1, c) /\ ~InRow(2, c) /\ ~InRow(3, c)
        /\ ~InRow(4, c) /\ ~InRow(5, c) /\ ~InRow(6, c)
    BY <1>2 DEF Rows
  <2>2. c > 3254
    BY <2>1 DEF InRow, PM25Breakpoints, Measured, ExtendedMax, Breakpoint
  <2>3. BreakpointFor(c) = 6
    BY <1>2 DEF BreakpointFor, Hazardous
  <2>4. RowOf(6, c)
    BY <2>2 DEF RowOf, PM25Breakpoints, Hazardous, Measured, ExtendedMax, Breakpoint
  <2>. QED  BY <2>3, <2>4 DEF Rows
<1>. QED  BY <1>1, <1>2

\* The interpolation in each row, with the numbers of the table.
LEMMA LinearInRows ==
    ASSUME NEW c \in Int
    PROVE  /\ LinearAqi(c, PM25Breakpoints[1]) = (100 * c + 90) \div 180
           /\ LinearAqi(c, PM25Breakpoints[2]) = 51 + (98 * (c - 91) + 263) \div 526
           /\ LinearAqi(c, PM25Breakpoints[3]) = 101 + (98 * (c - 355) + 199) \div 398
           /\ LinearAqi(c, PM25Breakpoints[4]) = 151 + (98 * (c - 555) + 699) \div 1398
           /\ LinearAqi(c, PM25Breakpoints[5]) = 201 + (198 * (c - 1255) + 999) \div 1998
           /\ LinearAqi(c, PM25Breakpoints[6]) = 301 + (398 * (c - 2255) + 999) \div 1998
BY DEF LinearAqi, PM25Breakpoints, Breakpoint

\* The index stays between the ends of its row, the last one being open.
LEMMA IndexInRow ==
    ASSUME NEW c \in Measured, NEW i \in Rows, RowOf(i, c)
    PROVE  /\ LinearAqi(c, PM25Breakpoints[i]) \in Int
           /\ PM25Breakpoints[i].indexLow <= LinearAqi(c, PM25Breakpoints[i])
           /\ \/ i = Hazardous
              \/ LinearAqi(c, PM25Breakpoints[i]) <= PM25Breakpoints[i].indexHigh
<1>. c \in Int  BY DEF Measured
<1>1. CASE i = 1
  <2>1. 0 <= c /\ c <= 90
    BY <1>1 DEF RowOf, PM25Breakpoints, Hazardous, Breakpoint
  <2>2. (100 * c + 90) \div 180 \in 0..50
    BY <2>1
  <2>3. PM25Breakpoints[i].indexLow = 0 /\ PM25Breakpoints[i].indexHigh = 50
    BY <1>1 DEF PM25Breakpoints, Breakpoint
  <2>4. LinearAqi(c, PM25Breakpoints[i]) = (100 * c + 90) \div 180
    BY <1>1, LinearInRows
  <2>. QED  BY <1>1, <2>2, <2>3, <2>4
<1>2. CASE i = 2
  <2>1. 91 <= c /\ c <= 354
    BY <1>2 DEF RowOf, PM25Breakpoints, Hazardous, Breakpoint
  <2>2. 51 + (98 * (c - 91) + 263) \div 526 \in 51..100
    BY <2>1
  <2>3. PM25Breakpoints[i].indexLow = 51 /\ PM25Breakpoints[i].indexHigh = 100
    BY <1>2 DEF PM25Breakpoints, Breakpoint
  <2>4. LinearAqi(c, PM25Breakpoints[i]) = 51 + (98 * (c - 91) + 263) \div 526
    BY <1>2, LinearInRows
  <2>. QED  BY <1>2, <2>2, <2>3, <2>4
<1>3. CASE i = 3
  <2>1. 355 <= c /\ c <= 554
    BY <1>3 DEF RowOf, PM25Breakpoints, Hazardous, Breakpoint
  <2>2. 101 + (98 * (c - 355) + 199) \div 398 \in 101..150
    BY <2>1
  <2>3. PM25Breakpoints[i].indexLow = 101 /\ PM25Breakpoints[i].indexHigh = 150
    BY <1>3 DEF PM25Breakpoints, Breakpoint
  <2>4. LinearAqi(c, PM25Breakpoints[i]) = 101 + (98 * (c - 355) + 199) \div 398
    BY <1>3, LinearInRows
  <2>. QED  BY <1>3, <2>2, <2>3, <2>4
<1>4. CASE i = 4
  <2>1. 555 <= c /\ c <= 1254
    BY <1>4 DEF RowOf, PM25Breakpoints, Hazardous, Breakpoint
  <2>2. 151 + (98 * (c - 555) + 699) \div 1398 \in 151..200
    BY <2>1
  <2>3. PM25Breakpoints[i].indexLow = 151 /\ PM25Breakpoints[i].indexHigh = 200
    BY <1>4 DEF PM25Breakpoints, Breakpoint
  <2>4. LinearAqi(c, PM25Breakpoints[i]) = 151 + (98 * (c - 555) + 699) \div 1398
    BY <1>4, LinearInRows
  <2>. QED  BY <1>4, <2>2, <2>3, <2>4
<1>5. CASE i = 5
  <2>1. 1255 <= c /\ c <= 2254
    BY <1>5 DEF RowOf, PM25Breakpoints, Hazardous, Breakpoint
  <2>2. 201 + (198 * (c - 1255) + 999) \div 1998 \in 201..300
    BY <2>1
  <2>3. PM25Breakpoints[i].indexLow = 201 /\ PM25Breakpoints[i].indexHigh = 300
    BY <1>5 DEF PM25Breakpoints, Breakpoint
  <2>4. LinearAqi(c, PM25Breakpoints[i]) = 201 + (198 * (c - 1255) + 999) \div 1998
    BY <1>5, LinearInRows
  <2>. QED  BY <1>5, <2>2, <2>3, <2>4
<1>6. CASE i = 6
  <2>1. 2255 <= c
    BY <1>6 DEF RowOf, PM25Breakpoints, Breakpoint
  <2>2. 301 + (398 * (c - 2255) + 999) \div 1998 \in Int /\ 301 <= 301 + (398 * (c - 2255) + 999) \div 1998
    BY <2>1
  <2>3. PM25Breakpoints[i].indexLow = 301
    BY <1>6 DEF PM25Breakpoints, Breakpoint
  <2>4. LinearAqi(c, PM25Breakpoints[i]) = 301 + (398 * (c - 2255) + 999) \div 1998
    BY <1>6, LinearInRows
  <2>. QED  BY <1>6, <2>2, <2>3, <2>4 DEF Hazardous
<1>. QED  BY <1>1, <1>2, <1>3, <1>4, <1>5, <1>6 DEF Rows

\* The truncation keeps the order, and gives an integer.
LEMMA TenthsKeepOrder ==
    ASSUME NEW a \in Int, NEW b \in Int, a <= b
    PROVE  Tenths(a) \in Int /\ Tenths(b) \in Int /\ Tenths(a) <= Tenths(b)
BY DEF Tenths

\* A value has an AQI if and only if its truncation is within the extended range,
\* and then the AQI is that of its row.
LEMMA AqiOfMeasured ==
    ASSUME NEW value \in Int, CalculateAqi(value) # NoAqi
    PROVE  /\ Tenths(value) \in Measured
           /\ CalculateAqi(value) =
                 LinearAqi(Tenths(value), PM25Breakpoints[BreakpointFor(Tenths(value))])
<1>1. Tenths(value) \in Int
  BY TenthsKeepOrder
<1>2. ~(Tenths(value) < 0 \/ Tenths(value) > ExtendedMax)
  BY DEF CalculateAqi
<1>3. ASSUME NEW c \in Int, ~(c < 0 \/ c > ExtendedMax) PROVE c \in Measured
  BY <1>3 DEF Measured, ExtendedMax
<1>4. CalculateAqi(value) =
         LinearAqi(Tenths(value), PM25Breakpoints[BreakpointFor(Tenths(value))])
  BY <1>2 DEF CalculateAqi
<1>. QED  BY <1>1, <1>2, <1>3, <1>4

\* Only one row contains an index, and aqi_category finds it.
LEMMA CategoryFound ==
    ASSUME NEW i \in Rows, NEW aqi \in Int, PM25Breakpoints[i].indexLow <= aqi,
           i = Hazardous \/ aqi <= PM25Breakpoints[i].indexHigh
    PROVE  AqiCategory(aqi) = i
<1>1. \A j \in Rows : InCategory(j, aqi) => j = i
  BY DEF Rows, InCategory, PM25Breakpoints, Hazardous, Breakpoint
<1>2. CASE InCategory(i, aqi)
  BY <1>1, <1>2 DEF AqiCategory
<1>3. CASE ~InCategory(i, aqi)
  <2>1. i = Hazardous /\ aqi > PM25Breakpoints[i].indexHigh
    BY <1>3 DEF InCategory, PM25Breakpoints, Hazardous, Breakpoint
  <2>. QED  BY <1>1, <1>3, <2>1 DEF AqiCategory
<1>. QED  BY <1>2, <1>3

\* The category of a concentration's index is the category of its breakpoints:
\* truncation and rounding never move it to a neighbouring one.
THEOREM IndexInCategory ==
    ASSUME NEW value \in Int, CalculateAqi(value) # NoAqi
    PROVE  AqiCategory(CalculateAqi(value)) = BreakpointFor(Tenths(value))
<1>. DEFINE c == Tenths(value)
            i == BreakpointFor(c)
<1>1. c \in Measured /\ CalculateAqi(value) = LinearAqi(c, PM25Breakpoints[i])
  BY AqiOfMeasured
<1>2. i \in Rows /\ RowOf(i, c)
  BY <1>1, RowFound
<1>. HIDE DEF c, i
<1>3. AqiCategory(LinearAqi(c, PM25Breakpoints[i])) = i
  BY <1>1, <1>2, IndexInRow, CategoryFound
<1>. QED  BY <1>1, <1>3 DEF c, i

\* Within a row the interpolation keeps the order.
LEMMA RowKeepsOrder ==
    ASSUME NEW c \in Int, NEW d \in Int, c <= d, NEW i \in Rows
    PROVE  LinearAqi(c, PM25Breakpoints[i]) <= LinearAqi(d, PM25Breakpoints[i])
<1>1. CASE i = 1
  <2>1. (100 * c + 90) \div 180
          <= (100 * d + 90) \div 180
    OBVIOUS
  <2>. QED  BY <1>1, <2>1, LinearInRows
<1>2. CASE i = 2
  <2>1. 51 + (98 * (c - 91) + 263) \div 526
          <= 51 + (98 * (d - 91) + 263) \div 526
    OBVIOUS
  <2>. QED  BY <1>2, <2>1, LinearInRows
<1>3. CASE i = 3
  <2>1. 101 + (98 * (c - 355) + 199) \div 398
          <= 101 + (98 * (d - 355) + 199) \div 398
    OBVIOUS
  <2>. QED  BY <1>3, <2>1, LinearInRows
<1>4. CASE i = 4
  <2>1. 151 + (98 * (c - 555) + 699) \div 1398
          <= 151 + (98 * (d - 555) + 699) \div 1398
    OBVIOUS
  <2>. QED  BY <1>4, <2>1, LinearInRows
<1>5. CASE i = 5
  <2>1. 201 + (198 * (c - 1255) + 999) \div 1998
          <= 201 + (198 * (d - 1255) + 999) \div 1998
    OBVIOUS
  <2>. QED  BY <1>5, <2>1, LinearInRows
<1>6. CASE i = 6
  <2>1. 301 + (398 * (c - 2255) + 999) \div 1998
          <= 301 + (398 * (d - 2255) + 999) \div 1998
    OBVIOUS
  <2>. QED  BY <1>6, <2>1, LinearInRows
<1>. QED  BY <1>1, <1>2, <1>3, <1>4, <1>5, <1>6 DEF Rows

\* More PM2.5 never gives a lower AQI, across the breakpoints and beyond the table.
THEOREM Monotone ==
    ASSUME NEW a \in Int, NEW b \in Int, a <= b,
           CalculateAqi(a) # NoAqi, CalculateAqi(b) # NoAqi
    PROVE  CalculateAqi(a) <= CalculateAqi(b)
<1>. DEFINE c == Tenths(a)
            d == Tenths(b)
            i == BreakpointFor(c)
            j == BreakpointFor(d)
<1>1. /\ c \in Measured /\ CalculateAqi(a) = LinearAqi(c, PM25Breakpoints[i])
      /\ d \in Measured /\ CalculateAqi(b) = LinearAqi(d, PM25Breakpoints[j])
  BY AqiOfMeasured
<1>2. i \in Rows /\ RowOf(i, c) /\ j \in Rows /\ RowOf(j, d)
  BY <1>1, RowFound
<1>3. c <= d
  BY TenthsKeepOrder
<1>. HIDE DEF c, d, i, j
<1>4. CASE i = j
  BY <1>1, <1>2, <1>3, <1>4, RowKeepsOrder DEF Measured
<1>5. CASE i # j
  <2>1. i < j
    BY <1>1, <1>2, <1>3, <1>5 DEF RowOf, Rows, PM25Breakpoints, Hazardous, Measured, ExtendedMax, Breakpoint
  <2>2. PM25Breakpoints[i].indexHigh < PM25Breakpoints[j].indexLow /\ i # Hazardous
    BY <1>2, <2>1 DEF Rows, PM25Breakpoints, Hazardous, Breakpoint
  <2>3. /\ LinearAqi(c, PM25Breakpoints[i]) \in Int
        /\ LinearAqi(c, PM25Breakpoints[i]) <= PM25Breakpoints[i].indexHigh
        /\ LinearAqi(d, PM25Breakpoints[j]) \in Int
        /\ PM25Breakpoints[j].indexLow <= LinearAqi(d, PM25Breakpoints[j])
    BY <1>1, <1>2, <2>2, IndexInRow
  <2>4. PM25Breakpoints[i].indexHigh \in Int /\ PM25Breakpoints[j].indexLow \in Int
    BY <1>2 DEF Rows, PM25Breakpoints, Breakpoint
  <2>. QED  BY <1>1, <2>2, <2>3, <2>4
<1>. QED  BY <1>4, <1>5

-----------------------------------------------------------------------------
(* The tables *)

Row == [station: Stations, at: Int, kind: {"observed", "replay"}, value: Int, anomaly: BOOLEAN]

ModeledRow == [station: Cells, at: Int, kind: {"modeled"}, value: Int,
               aqi: Nat \union {NoAqi}, anomaly: {FALSE}]

\* The rows of a table are finite in number and of their type, and the station and
\* the hour identify one.
TableOf(rows, type) ==
    /\ IsFiniteSet(rows)
    /\ rows \subseteq type
    /\ \A r, q \in rows : r.station = q.station /\ r.at = q.at => r = q

\* The tables of Readings.
TablesInv == now \in Nat /\ TableOf(readings, Row) /\ TableOf(modeled, ModeledRow)

\* What happens to the tables in a step of any process.
TablesStep == NextHour \/ Write \/ UNCHANGED tables

\* The tables start empty, and so without a row that nobody read.
LEMMA TablesInit == ReadingsInit => TablesInv
BY FS_EmptySet DEF ReadingsInit, TablesInv, TableOf

\* What a poll or a load makes of a sample is a row of the table.
LEMMA ReadingIsRow ==
    ASSUME NEW s \in Stations, NEW t \in Int, NEW sample \in Samples
    PROVE  Reading(s, t, sample) \in Row
<1>1. sample \in [kind: {"observed", "replay"}, value: Int, anomaly: BOOLEAN]
  BY ReadingsAssumption
<1>2. /\ sample.kind \in {"observed", "replay"} /\ sample.value \in Int
      /\ sample.anomaly \in BOOLEAN
  BY <1>1
<1>. QED  BY <1>2 DEF Reading, Row

\* So is what a poll makes of Open-Meteo's answer.
LEMMA ModeledReadingIsRow ==
    ASSUME NEW c \in Cells, NEW t \in Int, NEW sample \in ModeledSamples
    PROVE  ModeledReading(c, t, sample) \in ModeledRow
<1>1. sample \in [value: Int, aqi: Nat \union {NoAqi}]
  BY ReadingsAssumption
<1>2. sample.value \in Int /\ sample.aqi \in Nat \union {NoAqi}
  BY <1>1
<1>. QED  BY <1>2 DEF ModeledReading, ModeledRow

\* A poll keeps the table of modeled readings, and every hour that it covered.
LEMMA ModeledStored ==
    ASSUME TablesInv, NEW t \in Int, NEW answered \in Answers, StoreModeled(t, answered)
    PROVE  /\ TableOf(modeled', ModeledRow) /\ UNCHANGED <<now, readings>>
           /\ \A r \in modeled : \E q \in modeled' : q.station = r.station /\ q.at = r.at
<1>. DEFINE P(c) == ModeledReading(c, t, answered[c])
            located == DOMAIN answered
            new == {P(c) : c \in located}
            old == {r \in modeled : ~(r.station \in located /\ r.at = t)}
<1>1. modeled' = old \union new /\ UNCHANGED <<now, readings>>
  BY DEF StoreModeled
<1>2. located \in SUBSET Cells /\ \A c \in located : answered[c] \in ModeledSamples
  BY DEF Answers
<1>3. ASSUME NEW c \in located
      PROVE  P(c) \in ModeledRow /\ P(c).station = c /\ P(c).at = t
  BY <1>2, ModeledReadingIsRow DEF ModeledReading
<1>4. IsFiniteSet(new)
  <2>. DEFINE f == [c \in located |-> P(c)]
  <2>1. f \in Surjection(located, new)
    BY DEF Surjection
  <2>2. IsFiniteSet(located)
    BY <1>2, FS_Subset, ReadingsAssumption
  <2>. QED  BY <2>1, <2>2, FS_Surjection
<1>. HIDE DEF P, located
<1>5. \A r \in new : r \in ModeledRow /\ r.station \in located /\ r.at = t /\ r = P(r.station)
  BY <1>3
<1>6. \A c \in located : \E q \in new : q.station = c /\ q.at = t
  BY <1>3
<1>. HIDE DEF new
<1>7. /\ IsFiniteSet(old) /\ old \subseteq ModeledRow
      /\ \A r, q \in old : r.station = q.station /\ r.at = q.at => r = q
  BY FS_Subset DEF TablesInv, TableOf
<1>8. IsFiniteSet(modeled')
  BY <1>1, <1>4, <1>7, FS_Union
<1>9. \A r, q \in modeled' : r.station = q.station /\ r.at = q.at => r = q
  BY <1>1, <1>5, <1>7
<1>. QED  BY <1>1, <1>5, <1>6, <1>7, <1>8, <1>9 DEF TableOf

\* The tables keep their invariant, rows are never removed, an hour once modeled
\* stays so, and the clock does not go back.
LEMMA TablesGrow ==
    ASSUME TablesInv, TablesStep
    PROVE  /\ TablesInv'
           /\ readings \subseteq readings'
           /\ now <= now'
           /\ \A r \in modeled : \E q \in modeled' : q.station = r.station /\ q.at = r.at
<1>1. CASE NextHour
  BY <1>1 DEF NextHour, TablesInv, TableOf
<1>2. ASSUME NEW t \in 0..now + ForecastHours, NEW answered \in Answers,
             StoreModeled(t, answered)
      PROVE  /\ TablesInv' /\ UNCHANGED <<now, readings>>
             /\ \A r \in modeled : \E q \in modeled' : q.station = r.station /\ q.at = r.at
  <2>1. t \in Int
    OBVIOUS
  <2>. QED  BY <1>2, <2>1, ModeledStored DEF TablesInv, TableOf
<1>3. ASSUME NEW s \in Stations, NEW t \in Time, NEW sample \in Samples, Store(s, t, sample)
      PROVE  TablesInv' /\ readings \subseteq readings' /\ UNCHANGED <<now, modeled>>
  <2>. DEFINE new == Reading(s, t, sample)
  <2>1. readings' = readings \union {new} /\ UNCHANGED <<now, modeled>>
    BY <1>3 DEF Store
  <2>2. new \in Row /\ new.station = s /\ new.at = t
    <3>1. t \in Int
      BY DEF TablesInv, Time
    <3>. QED  BY <3>1, ReadingIsRow DEF Reading
  <2>3. \A r \in readings : ~(r.station = s /\ r.at = t)
    BY <1>3 DEF Store
  <2>. HIDE DEF new
  <2>4. IsFiniteSet(readings')
    BY <2>1, FS_AddElement DEF TablesInv, TableOf
  <2>5. \A r, q \in readings' : r.station = q.station /\ r.at = q.at => r = q
    BY <2>1, <2>2, <2>3 DEF TablesInv, TableOf
  <2>. QED  BY <2>1, <2>2, <2>4, <2>5 DEF TablesInv, TableOf
<1>4. CASE UNCHANGED tables
  BY <1>4 DEF tables, TablesInv, TableOf
<1>5. now \in Nat
  BY DEF TablesInv
<1>. QED  BY <1>1, <1>2, <1>3, <1>4, <1>5 DEF TablesStep, Write, NextHour

-----------------------------------------------------------------------------
(* Counting stations *)

\* The stations of finitely many rows are counted by a natural number, and of more
\* rows there are no fewer.
LEMMA StationsGrow ==
    ASSUME NEW R, NEW S, R \subseteq S, IsFiniteSet(S)
    PROVE  /\ StationCount(R) \in Nat /\ StationCount(S) \in Nat
           /\ StationCount(R) <= StationCount(S)
<1>. DEFINE f == [r \in S |-> r.station]
            T == {r.station : r \in S}
            U == {r.station : r \in R}
<1>1. f \in Surjection(S, T)
  BY DEF Surjection
<1>2. IsFiniteSet(T)
  BY <1>1, FS_Surjection
<1>3. U \in SUBSET T
  OBVIOUS
<1>4. IsFiniteSet(U) /\ Cardinality(U) <= Cardinality(T)
  BY <1>2, <1>3, FS_Subset
<1>. QED  BY <1>2, <1>4, FS_CardinalityType DEF StationCount

-----------------------------------------------------------------------------
(* The data-quality check *)

\* The observed rows of R that are no older than this.
Observed(R, asked, hours) == {r \in R : r.kind = "observed" /\ r.at >= asked - hours}

Windows == [fresh: Nat, recent: Nat]

\* What the check has counted is still there.
CheckInv ==
    /\ check.windows \in Windows
    /\ check.pc \in {"fresh", "recent", "modeled", "invalid"} =>
          /\ check.asked \in Int /\ check.asked <= now
          /\ check.fresh \in Nat
          /\ check.fresh <= StationCount(Observed(readings, check.asked, check.windows.fresh))
    /\ check.pc \in {"recent", "modeled", "invalid"} =>
          /\ check.recent \in Nat
          /\ check.recent <= StationCount(Observed(readings, check.asked, check.windows.recent))
    /\ check.pc \in {"modeled", "invalid"} /\ check.modeled =>
          CheckModeledAvailable(check.asked, check.windows.recent)

\* What the snapshot of this hour claims.
SnapshotInv ==
    /\ snapshot.at \in Int /\ snapshot.at <= now
    /\ snapshot.windows \in Windows
    /\ snapshot.at = now =>
          /\ snapshot.mode = "LIVE_OBSERVED" =>
                StationCount(Observed(readings, now, snapshot.windows.fresh)) >= MinStations
          /\ snapshot.mode = "RECENT_OBSERVED" =>
                StationCount(Observed(readings, now, snapshot.windows.recent)) >= MinStations
          /\ snapshot.mode = "MODELED_BASELINE" =>
                CheckModeledAvailable(now, snapshot.windows.recent)

QualityInv == CheckInv /\ SnapshotInv

\* Both rules count these rows.
LEMMA SameRows ==
    ASSUME TablesInv, NEW asked \in Int, NEW hours
    PROVE  /\ CountStations(asked).fresh = StationCount(Observed(readings, asked, FreshHours))
           /\ CountStations(asked).recent = StationCount(Observed(readings, asked, RecentHours))
           /\ CountDistinctStations(asked, hours) = StationCount(Observed(readings, asked, hours))
<1>1. \A h : OfKind(Since(asked, h), "observed") = Observed(readings, asked, h)
  BY DEF OfKind, Since, Observed
<1>. QED  BY <1>1 DEF CountStations, CountDistinctStations

\* A longer window has no fewer of them.
LEMMA LongerWindow ==
    ASSUME TablesInv, NEW asked \in Int, NEW h \in Nat, NEW k \in Nat, h <= k
    PROVE  /\ StationCount(Observed(readings, asked, h)) \in Nat
           /\ StationCount(Observed(readings, asked, k)) \in Nat
           /\ StationCount(Observed(readings, asked, h))
                <= StationCount(Observed(readings, asked, k))
<1>1. \A r \in readings : r.at \in Int
  BY DEF TablesInv, TableOf, Row
<1>2. Observed(readings, asked, h) \subseteq Observed(readings, asked, k)
  BY <1>1 DEF Observed
<1>3. IsFiniteSet(Observed(readings, asked, k))
  BY FS_Subset DEF Observed, TablesInv, TableOf
<1>. QED  BY <1>2, <1>3, StationsGrow

\* Rows that arrive do not lower the counts.
LEMMA ObservedGrow ==
    ASSUME TablesInv, TablesStep, NEW asked, NEW hours
    PROVE  /\ StationCount(Observed(readings, asked, hours)) \in Nat
           /\ StationCount(Observed(readings', asked, hours)) \in Nat
           /\ StationCount(Observed(readings, asked, hours))
                <= StationCount(Observed(readings', asked, hours))
<1>. DEFINE R == Observed(readings, asked, hours)
            S == Observed(readings', asked, hours)
<1>1. readings \subseteq readings' /\ IsFiniteSet(readings')
  BY TablesGrow DEF TablesInv, TableOf
<1>2. S \in SUBSET readings' /\ R \subseteq S
  BY <1>1 DEF Observed
<1>. HIDE DEF R, S
<1>3. IsFiniteSet(S)
  BY <1>1, <1>2, FS_Subset
<1>4. /\ StationCount(R) \in Nat /\ StationCount(S) \in Nat /\ StationCount(R) <= StationCount(S)
  BY <1>2, <1>3, StationsGrow
<1>. QED  BY <1>4 DEF R, S

\* Nor is an hour that was modeled forgotten.
LEMMA ModeledStay ==
    ASSUME TablesInv, TablesStep, NEW asked, NEW hours,
           \E r \in modeled : r.at >= asked - hours
    PROVE  \E r \in modeled' : r.at >= asked - hours
BY TablesGrow

\* A step that leaves the check and the snapshot alone keeps their invariant.
LEMMA QualityUndisturbed ==
    ASSUME TablesInv, QualityInv, TablesStep, UNCHANGED <<snapshot, check>>
    PROVE  QualityInv'
<1>1. now \in Int /\ now' \in Int /\ now <= now'
  BY TablesGrow DEF TablesInv
<1>2. CheckInv'
  <2>1. check.windows \in Windows
    BY DEF QualityInv, CheckInv
  <2>2. CASE check.pc \in {"fresh", "recent", "modeled", "invalid"}
    <3>1. check.asked \in Int /\ check.asked <= now'
      BY <1>1, <2>2 DEF QualityInv, CheckInv
    <3>2. /\ check.fresh \in Nat
          /\ check.fresh <= StationCount(Observed(readings', check.asked, check.windows.fresh))
      BY <2>2, ObservedGrow DEF QualityInv, CheckInv
    <3>3. check.pc \in {"recent", "modeled", "invalid"} =>
             /\ check.recent \in Nat
             /\ check.recent <= StationCount(Observed(readings', check.asked, check.windows.recent))
      BY ObservedGrow DEF QualityInv, CheckInv
    <3>4. check.pc \in {"modeled", "invalid"} /\ check.modeled =>
             \E r \in modeled' : r.at >= check.asked - check.windows.recent
      BY ModeledStay DEF QualityInv, CheckInv, CheckModeledAvailable
    <3>. QED  BY <2>1, <3>1, <3>2, <3>3, <3>4 DEF CheckInv, CheckModeledAvailable
  <2>3. CASE check.pc \notin {"fresh", "recent", "modeled", "invalid"}
    BY <2>1, <2>3 DEF CheckInv
  <2>. QED  BY <2>2, <2>3
<1>3. SnapshotInv'
  <2>1. snapshot.at \in Int /\ snapshot.at <= now' /\ snapshot.windows \in Windows
    BY <1>1 DEF QualityInv, SnapshotInv
  <2>2. CASE snapshot.at = now'
    <3>1. snapshot.at = now /\ now' = now
      BY <1>1, <2>2 DEF QualityInv, SnapshotInv
    <3>2. ASSUME NEW hours
          PROVE  /\ StationCount(Observed(readings, now, hours)) \in Nat
                 /\ StationCount(Observed(readings', now, hours)) \in Nat
                 /\ StationCount(Observed(readings, now, hours))
                      <= StationCount(Observed(readings', now, hours))
      BY ObservedGrow
    <3>3. snapshot.mode = "LIVE_OBSERVED" =>
             StationCount(Observed(readings', now', snapshot.windows.fresh)) >= MinStations
      BY <3>1, <3>2, MinStationsAssumption DEF QualityInv, SnapshotInv
    <3>4. snapshot.mode = "RECENT_OBSERVED" =>
             StationCount(Observed(readings', now', snapshot.windows.recent)) >= MinStations
      BY <3>1, <3>2, MinStationsAssumption DEF QualityInv, SnapshotInv
    <3>5. snapshot.mode = "MODELED_BASELINE" =>
             \E r \in modeled' : r.at >= now' - snapshot.windows.recent
      BY <3>1, ModeledStay DEF QualityInv, SnapshotInv, CheckModeledAvailable
    <3>. QED  BY <2>1, <3>3, <3>4, <3>5 DEF SnapshotInv, CheckModeledAvailable
  <2>3. CASE snapshot.at # now'
    BY <2>1, <2>3 DEF SnapshotInv
  <2>. QED  BY <2>2, <2>3
<1>. QED  BY <1>2, <1>3 DEF QualityInv

\* Before the first check nothing is reported and no status is recorded.
LEMMA QualityStarts == ReadingsInit /\ QualityInit => QualityInv
BY DEF ReadingsInit, QualityInit, QualityInv, CheckInv, SnapshotInv, NoCheck, NoTime,
       NoWindows, Windows

\* The check counts what is there, statement by statement.
LEMMA ChecksCount ==
    ASSUME TablesInv, QualityInv, BeginCheck \/ CountRecent \/ CheckModeled \/ CountInvalid
    PROVE  QualityInv'
<1>1. UNCHANGED <<now, readings, modeled, snapshot>> /\ now \in Int
  <2>1. UNCHANGED <<tables, snapshot>>
    BY DEF BeginCheck, CountRecent, CheckModeled, CountInvalid
  <2>. QED  BY <2>1 DEF tables, TablesInv
<1>2. \A asked, hours : StationCount(Observed(readings, asked, hours)) \in Nat
  BY <1>1, ObservedGrow DEF TablesStep, tables
<1>3. SnapshotInv'
  BY <1>1 DEF QualityInv, SnapshotInv, CheckModeledAvailable
<1>4. CASE BeginCheck
  <2>1. PICK windows \in CheckWindows :
           check' = [NoCheck EXCEPT !.pc = "fresh", !.asked = now, !.windows = windows,
                                    !.fresh = CountDistinctStations(now, windows.fresh)]
    BY <1>4 DEF BeginCheck
  <2>2. /\ check'.pc = "fresh" /\ check'.asked = now /\ check'.windows = windows
        /\ check'.fresh = StationCount(Observed(readings, now, windows.fresh))
    BY <1>1, <2>1, SameRows DEF NoCheck
  <2>3. windows \in Windows
    BY CheckWindowsAssumption DEF Windows
  <2>4. CheckInv'
    BY <1>1, <1>2, <2>2, <2>3 DEF CheckInv
  <2>. QED  BY <1>3, <2>4 DEF QualityInv
<1>5. CASE CountRecent
  <2>. DEFINE n == CountDistinctStations(check.asked, check.windows.recent)
  <2>1. check.pc = "fresh" /\ check' = [check EXCEPT !.pc = "recent", !.recent = n]
    BY <1>5 DEF CountRecent
  <2>2. /\ check.asked \in Int /\ check.asked <= now
        /\ check.windows \in Windows /\ check.fresh \in Nat
        /\ check.fresh <= StationCount(Observed(readings, check.asked, check.windows.fresh))
    BY <2>1 DEF QualityInv, CheckInv
  <2>3. n = StationCount(Observed(readings, check.asked, check.windows.recent))
    BY <2>2, SameRows
  <2>. HIDE DEF n
  <2>4. /\ check'.pc = "recent" /\ check'.asked = check.asked
        /\ check'.windows = check.windows /\ check'.fresh = check.fresh
    BY <2>1
  <2>5. check'.recent = n \/ check' = [check EXCEPT !.pc = "recent"]
    BY <2>1
  <2>. QED  BY <1>1, <1>2, <1>3, <2>1, <2>2, <2>3, <2>4 DEF QualityInv, CheckInv
<1>6. CASE CheckModeled
  <2>1. /\ check.pc = "recent"
        /\ check' = [check EXCEPT !.pc = "modeled",
                         !.modeled = CheckModeledAvailable(check.asked, check.windows.recent)]
    BY <1>6 DEF CheckModeled
  <2>. QED  BY <1>1, <1>3, <2>1 DEF QualityInv, CheckInv, CheckModeledAvailable
<1>7. CASE CountInvalid
  <2>1. PICK n : check.pc = "modeled" /\ check' = [check EXCEPT !.pc = "invalid", !.invalid = n]
    BY <1>7 DEF CountInvalid
  <2>. QED  BY <1>1, <1>3, <2>1 DEF QualityInv, CheckInv, CheckModeledAvailable
<1>. QED  BY <1>4, <1>5, <1>6, <1>7

\* The snapshot claims what the check counted.
LEMMA SnapshotClaims ==
    ASSUME TablesInv, QualityInv, Snapshot
    PROVE  QualityInv'
<1>. DEFINE recent  == Since(check.asked, check.windows.recent)
            verdict == ClassifyQualityState(check.fresh, check.recent, check.modeled,
                           check.invalid, Cardinality(recent \ Usable(recent)),
                           Cardinality(recent))
<1>1. /\ UNCHANGED <<now, readings, modeled>> /\ check.pc = "invalid"
      /\ check' = [NoCheck EXCEPT !.pc = "evaluated", !.state = verdict[1]]
      /\ snapshot' = [mode |-> verdict[2], at |-> check.asked, windows |-> check.windows]
  BY DEF Snapshot, tables
<1>2. /\ verdict[2] = "LIVE_OBSERVED" => check.fresh >= MinStations
      /\ verdict[2] = "RECENT_OBSERVED" => check.recent >= MinStations
      /\ verdict[2] = "MODELED_BASELINE" => check.modeled
  BY DEF ClassifyQualityState
<1>. HIDE DEF verdict
<1>3. /\ check'.pc = "evaluated" /\ check'.windows = NoWindows
      /\ snapshot'.mode = verdict[2] /\ snapshot'.at = check.asked
      /\ snapshot'.windows = check.windows
  BY <1>1 DEF NoCheck
<1>4. CheckInv'
  BY <1>3 DEF CheckInv, NoWindows, Windows
<1>5. /\ check.asked \in Int /\ check.asked <= now /\ check.windows \in Windows
      /\ check.fresh \in Nat /\ check.recent \in Nat
      /\ check.fresh <= StationCount(Observed(readings, check.asked, check.windows.fresh))
      /\ check.recent <= StationCount(Observed(readings, check.asked, check.windows.recent))
      /\ check.modeled => CheckModeledAvailable(check.asked, check.windows.recent)
  BY <1>1 DEF QualityInv, CheckInv
<1>6. /\ StationCount(Observed(readings, check.asked, check.windows.fresh)) \in Nat
      /\ StationCount(Observed(readings, check.asked, check.windows.recent)) \in Nat
  BY <1>1, ObservedGrow DEF TablesStep, tables
<1>7. snapshot'.mode = "LIVE_OBSERVED" =>
         StationCount(Observed(readings, check.asked, check.windows.fresh)) >= MinStations
  BY <1>2, <1>3, <1>5, <1>6, MinStationsAssumption
<1>8. snapshot'.mode = "RECENT_OBSERVED" =>
         StationCount(Observed(readings, check.asked, check.windows.recent)) >= MinStations
  BY <1>2, <1>3, <1>5, <1>6, MinStationsAssumption
<1>9. SnapshotInv'
  BY <1>1, <1>2, <1>3, <1>5, <1>7, <1>8 DEF SnapshotInv, CheckModeledAvailable
<1>. QED  BY <1>4, <1>9 DEF QualityInv

\* One case for every step of the check.
LEMMA QualityChecked ==
    ASSUME TablesInv, QualityInv, QualityCheck
    PROVE  QualityInv'
<1>1. CASE RecordCheck \/ CheckFails
  <2>1. UNCHANGED <<now, readings, modeled, snapshot>> /\ check' = NoCheck
    BY <1>1 DEF RecordCheck, CheckFails, tables
  <2>. QED
    BY <2>1 DEF QualityInv, CheckInv, SnapshotInv, NoCheck, NoWindows, Windows,
                CheckModeledAvailable
<1>. QED  BY <1>1, ChecksCount, SnapshotClaims DEF QualityCheck

\* A claim that the tables still bear out, made without looking further than the API
\* does, is no better than the mode of the API.
LEMMA ClaimHolds ==
    ASSUME TablesInv, QualityInv
    PROVE  RulesAgree
<1>. SUFFICES ASSUME snapshot.at = now, ~LooksFurther
              PROVE  NoBetter(snapshot.mode, ModeFrom(CountStations(now), now))
  BY DEF RulesAgree
<1>. DEFINE mode == ModeFrom(CountStations(now), now)
            windows == snapshot.windows
<1>1. now \in Int /\ windows.fresh \in Nat /\ windows.recent \in Nat
  BY DEF TablesInv, QualityInv, SnapshotInv, Windows
<1>2. snapshot.mode = "LIVE_OBSERVED" => CountStations(now).fresh >= MinStations
  <2>. SUFFICES ASSUME snapshot.mode = "LIVE_OBSERVED"
                PROVE  CountStations(now).fresh >= MinStations
    OBVIOUS
  <2>1. windows.fresh <= FreshHours /\ FreshHours \in Nat
    BY <1>1, ReadingsAssumption DEF LooksFurther
  <2>2. StationCount(Observed(readings, now, windows.fresh)) >= MinStations
    BY DEF QualityInv, SnapshotInv
  <2>3. /\ StationCount(Observed(readings, now, windows.fresh)) \in Nat
        /\ StationCount(Observed(readings, now, FreshHours)) \in Nat
        /\ StationCount(Observed(readings, now, windows.fresh))
             <= StationCount(Observed(readings, now, FreshHours))
    BY <1>1, <2>1, LongerWindow
  <2>4. CountStations(now).fresh = StationCount(Observed(readings, now, FreshHours))
    BY <1>1, SameRows
  <2>. QED  BY <2>2, <2>3, <2>4, MinStationsAssumption
<1>3. snapshot.mode = "RECENT_OBSERVED" => CountStations(now).recent >= MinStations
  <2>. SUFFICES ASSUME snapshot.mode = "RECENT_OBSERVED"
                PROVE  CountStations(now).recent >= MinStations
    OBVIOUS
  <2>1. windows.recent <= RecentHours /\ RecentHours \in Nat
    BY <1>1, ReadingsAssumption DEF LooksFurther
  <2>2. StationCount(Observed(readings, now, windows.recent)) >= MinStations
    BY DEF QualityInv, SnapshotInv
  <2>3. /\ StationCount(Observed(readings, now, windows.recent)) \in Nat
        /\ StationCount(Observed(readings, now, RecentHours)) \in Nat
        /\ StationCount(Observed(readings, now, windows.recent))
             <= StationCount(Observed(readings, now, RecentHours))
    BY <1>1, <2>1, LongerWindow
  <2>4. CountStations(now).recent = StationCount(Observed(readings, now, RecentHours))
    BY <1>1, SameRows
  <2>. QED  BY <2>2, <2>3, <2>4, MinStationsAssumption
<1>4. snapshot.mode = "MODELED_BASELINE" => ModeledAvailable(now)
  BY DEF QualityInv, SnapshotInv, LooksFurther, CheckModeledAvailable, ModeledAvailable
<1>5. /\ snapshot.mode = "LIVE_OBSERVED" => mode = "LIVE_OBSERVED"
      /\ snapshot.mode = "RECENT_OBSERVED" => mode \in {"LIVE_OBSERVED", "RECENT_OBSERVED"}
      /\ snapshot.mode = "MODELED_BASELINE" =>
            mode \in {"LIVE_OBSERVED", "RECENT_OBSERVED", "MODELED_BASELINE"}
  BY <1>2, <1>3, <1>4 DEF ModeFrom, ChooseCoverageMode
<1>. HIDE DEF mode
<1>6. NoBetter(snapshot.mode, mode)
  <2>1. SUFFICES ASSUME NEW i \in 1..3, snapshot.mode = Ladder[i]
                 PROVE  \E j \in 1..i : mode = Ladder[j]
    BY DEF NoBetter
  <2>2. Ladder[1] = "LIVE_OBSERVED" /\ Ladder[2] = "RECENT_OBSERVED"
        /\ Ladder[3] = "MODELED_BASELINE"
    BY DEF Ladder
  <2>3. CASE i = 1
    BY <1>5, <2>1, <2>2, <2>3
  <2>4. CASE i = 2
    BY <1>5, <2>1, <2>2, <2>4
  <2>5. CASE i = 3
    BY <1>5, <2>1, <2>2, <2>5
  <2>. QED  BY <2>3, <2>4, <2>5
<1>. QED  BY <1>6 DEF mode

-----------------------------------------------------------------------------
(* The heatmaps *)

\* A row of aq_readings or a modeled one, as a point of a heatmap.
Point == Row \union ModeledRow

Answer == [mode: Modes \union {None}, at: Int, points: SUBSET Point]

Request == [pc: {"idle", "counted", "covered", "fetched", "answered"}, asked: Int,
            counts: Counts, mode: Modes \union {None}, points: SUBSET Point, answer: Answer]

\* The points that a request of this mode reads: of its kind and age, one of a station.
HonestPoints(points, mode, asked) ==
    /\ IsFiniteSet(points)
    /\ \A r \in points :
          /\ r.kind = ObservationTypeOf(mode) /\ ~r.anomaly
          /\ mode = "LIVE_OBSERVED" => r.at >= asked - FreshHours
          /\ mode = "RECENT_OBSERVED" => r.at >= asked - RecentHours
          /\ mode = "MODELED_BASELINE" =>
                asked - ModeledHours <= r.at /\ r.at <= asked + ModeledAhead
    /\ \A r, p \in points : p.station = r.station => p = r

CacheInv ==
    /\ cache \in [Modes -> Answer]
    /\ aging \subseteq Modes
    /\ \A m \in aging : cache[m] # NoHeatmap
    /\ \A m \in Modes : cache[m] # NoHeatmap => Honest(cache[m], m)

RequestOK(j) ==
    /\ j \in Request
    /\ j.pc \in {"covered", "fetched"} => j.mode \in Modes
    /\ j.pc = "fetched" => HonestPoints(j.points, j.mode, j.asked)
    /\ j.pc = "answered" => Honest(j.answer, j.mode)

HeatmapInv ==
    /\ CacheInv
    /\ request \in [Requests -> Request]
    /\ \A q \in Requests : RequestOK(request[q])

\* The points of the heatmap are those of stations that its mode covers, for any hour asked.
LEMMA PointsHonest ==
    ASSUME TablesInv, NEW mode \in Modes, NEW asked \in Int
    PROVE  /\ HonestPoints(InterpolationPoints(mode, asked), mode, asked)
           /\ InterpolationPoints(mode, asked) \subseteq Point
<1>. DEFINE points == InterpolationPoints(mode, asked)
<1>1. CASE mode = "MODELED_BASELINE"
  <2>1. points = LatestOf(PresentModeled(asked))
    BY <1>1 DEF InterpolationPoints, ModeledPoints
  <2>2. \A r \in PresentModeled(asked) :
           /\ r \in modeled /\ r \in ModeledRow
           /\ asked - ModeledHours <= r.at /\ r.at <= asked + ModeledAhead
    BY DEF PresentModeled, TablesInv, TableOf
  <2>3. \A r \in points : r \in PresentModeled(asked)
    BY <2>1 DEF LatestOf
  <2>4. \A r, p \in points : p.station = r.station => p.at <= r.at /\ r.at <= p.at
    BY <2>1 DEF LatestOf
  <2>. HIDE DEF points
  <2>5. points \in SUBSET modeled /\ IsFiniteSet(points)
    BY <2>2, <2>3, FS_Subset DEF TablesInv, TableOf
  <2>6. \A r \in ModeledRow : r \in Point /\ r.at \in Int /\ r.kind = "modeled" /\ ~r.anomaly
    BY DEF ModeledRow, Point
  <2>7. \A r, p \in points : p.station = r.station => p = r
    <3>. SUFFICES ASSUME NEW r \in points, NEW p \in points, p.station = r.station
                  PROVE  p = r
      OBVIOUS
    <3>1. p.at = r.at
      BY <2>2, <2>3, <2>4, <2>6
    <3>. QED  BY <2>5, <3>1 DEF TablesInv, TableOf
  <2>8. ObservationTypeOf(mode) = "modeled"
    BY <1>1 DEF ObservationTypeOf
  <2>9. HonestPoints(points, mode, asked)
    BY <1>1, <2>2, <2>3, <2>5, <2>6, <2>7, <2>8 DEF HonestPoints
  <2>10. points \subseteq Point
    BY <2>2, <2>3, <2>6
  <2>. QED  BY <2>9, <2>10 DEF points
<1>2. CASE mode \in {"STATION_ONLY", "NO_DATA"}
  <2>1. points = {}
    BY <1>2 DEF InterpolationPoints
  <2>. HIDE DEF points
  <2>2. HonestPoints(points, mode, asked) /\ points \subseteq Point
    BY <2>1, FS_EmptySet DEF HonestPoints
  <2>. QED  BY <2>2 DEF points
<1>3. CASE mode \in {"LIVE_OBSERVED", "RECENT_OBSERVED", "REPLAY_DEMO"}
  <2>1. points = LatestOf(PointRows(mode, asked))
    BY <1>3 DEF InterpolationPoints
  <2>2. \A r \in PointRows(mode, asked) :
           /\ r \in readings /\ r \in Row
           /\ r.kind = ObservationTypeOf(mode) /\ ~r.anomaly
           /\ r.at >= asked - HoursOf(mode)
    BY DEF PointRows, OfKind, Usable, Since, TablesInv, TableOf
  <2>3. points \in SUBSET readings
    BY <2>1, <2>2 DEF LatestOf
  <2>4. IsFiniteSet(points)
    BY <2>3, FS_Subset DEF TablesInv, TableOf
  <2>5. \A r, p \in points : p.station = r.station => p.at <= r.at /\ r.at <= p.at
    BY <2>1 DEF LatestOf
  <2>6. \A r \in points : r \in PointRows(mode, asked)
    BY <2>1 DEF LatestOf
  <2>7. \A r \in Row : r \in Point /\ r.at \in Int
    BY DEF Row, Point
  <2>. HIDE DEF points
  <2>8. \A r, p \in points : p.station = r.station => p = r
    <3>. SUFFICES ASSUME NEW r \in points, NEW p \in points, p.station = r.station
                  PROVE  p = r
      OBVIOUS
    <3>1. p.at = r.at
      BY <2>2, <2>5, <2>6, <2>7
    <3>. QED  BY <2>3, <3>1 DEF TablesInv, TableOf
  <2>9. /\ mode = "LIVE_OBSERVED" => HoursOf(mode) = FreshHours
        /\ mode = "RECENT_OBSERVED" => HoursOf(mode) = RecentHours
    BY DEF HoursOf
  <2>10. HonestPoints(points, mode, asked)
    BY <1>3, <2>2, <2>4, <2>6, <2>8, <2>9 DEF HonestPoints
  <2>11. points \subseteq Point
    BY <2>2, <2>6, <2>7
  <2>. QED  BY <2>10, <2>11 DEF points
<1>. QED  BY <1>1, <1>2, <1>3 DEF Modes

\* As many stations as points, where no station has two of them.
LEMMA OnePerStation ==
    ASSUME NEW points, IsFiniteSet(points),
           \A r, p \in points : p.station = r.station => p = r
    PROVE  StationCount(points) = Cardinality(points)
<1>. DEFINE T == {r.station : r \in points}
            f == [r \in points |-> r.station]
<1>1. f \in Bijection(points, T)
  <2>1. f \in Surjection(points, T)
    BY DEF Surjection
  <2>2. f \in Injection(points, T)
    BY <2>1 DEF Surjection, Injection, IsInjective
  <2>. QED  BY <2>1, <2>2 DEF Bijection
<1>2. ExistsBijection(points, T)
  BY <1>1 DEF ExistsBijection
<1>3. Cardinality(T) = Cardinality(points)
  BY <1>2, FS_Bijection
<1>. QED  BY <1>3 DEF StationCount

\* The grid of honest points is an honest answer.
LEMMA GridHonest ==
    ASSUME NEW j \in Request, j.mode \in Modes, HonestPoints(j.points, j.mode, j.asked)
    PROVE  Grid(j) \in Answer /\ Grid(j) # NoHeatmap /\ Honest(Grid(j), j.mode)
<1>. DEFINE with == WithAqi(j.points)
            grid == Grid(j)
<1>1. with \in SUBSET j.points
  BY DEF WithAqi
<1>2. IsFiniteSet(with) /\ \A r, p \in with : p.station = r.station => p = r
  BY <1>1, FS_Subset DEF HonestPoints
<1>3. StationCount(with) = Cardinality(with) /\ Cardinality(with) \in Nat
  BY <1>2, OnePerStation, FS_CardinalityType
<1>. HIDE DEF with
<1>4. grid.mode = j.mode /\ grid.at = j.asked
  BY DEF Grid
<1>5. grid.points = IF Cardinality(with) < MinStations THEN {} ELSE with
  BY DEF Grid, with
<1>6. j.points \subseteq Point /\ j.asked \in Int
  BY DEF Request
<1>7. grid \in Answer
  BY <1>1, <1>5, <1>6 DEF Grid, Answer, with
<1>8. grid # NoHeatmap
  BY <1>4 DEF NoHeatmap, None, Modes
<1>. HIDE DEF grid
<1>9. grid.points # {} => StationCount(grid.points) >= MinStations
  BY <1>3, <1>5, MinStationsAssumption
<1>10. \A r \in grid.points : r \in j.points
  BY <1>1, <1>5
<1>11. Honest(grid, j.mode)
  BY <1>4, <1>9, <1>10 DEF Honest, HonestPoints
<1>. QED  BY <1>7, <1>8, <1>11 DEF grid

\* A request that waits, or that an answer has ended.
LEMMA WaitingOK ==
    /\ NoHeatmap \in Answer
    /\ RequestOK(Waiting)
    /\ \A m \in Modes, a \in Answer : Honest(a, m) =>
          RequestOK([Waiting EXCEPT !.pc = "answered", !.mode = m, !.answer = a])
<1>1. NoHeatmap \in Answer
  BY DEF NoHeatmap, Answer, NoTime
<1>2. Waiting \in Request /\ Waiting.pc = "idle"
  BY <1>1 DEF Waiting, Request, NoTime, NoCounts, Counts
<1>3. ASSUME NEW m \in Modes, NEW a \in Answer, Honest(a, m)
      PROVE  RequestOK([Waiting EXCEPT !.pc = "answered", !.mode = m, !.answer = a])
  <2>. DEFINE j == [Waiting EXCEPT !.pc = "answered", !.mode = m, !.answer = a]
  <2>1. j \in Request
    BY <1>2 DEF Request
  <2>2. j.pc = "answered" /\ j.mode = m /\ j.answer = a
    BY DEF Waiting
  <2>. HIDE DEF j
  <2>3. RequestOK(j)
    BY <1>3, <2>1, <2>2 DEF RequestOK
  <2>. QED  BY <2>3 DEF j
<1>. QED  BY <1>1, <1>2, <1>3 DEF RequestOK

\* The cache starts without an entry.
LEMMA HeatmapStarts == HeatmapInit => HeatmapInv
BY WaitingOK DEF HeatmapInit, HeatmapInv, CacheInv, RequestOK

\* One request takes a step and the others stay.
LEMMA OneRequest ==
    ASSUME HeatmapInv, NEW q \in Requests, NEW j, RequestOK(j),
           request' = [request EXCEPT ![q] = j], CacheInv'
    PROVE  HeatmapInv'
<1>1. request' \in [Requests -> Request]
  BY DEF HeatmapInv, RequestOK
<1>2. ASSUME NEW p \in Requests PROVE RequestOK(request'[p])
  <2>1. CASE p = q
    BY <2>1 DEF HeatmapInv
  <2>2. CASE p # q
    <3>1. request'[p] = request[p]
      BY <2>2 DEF HeatmapInv
    <3>. QED  BY <3>1 DEF HeatmapInv
  <2>. QED  BY <2>1, <2>2
<1>3. \A p \in Requests : RequestOK(request[p])'
  BY <1>2 DEF RequestOK
<1>. QED  BY <1>1, <1>3 DEF HeatmapInv

\* The counts that the mode is chosen by are numbers of stations.
LEMMA CountsTyped ==
    ASSUME TablesInv, NEW asked \in Int
    PROVE  CountStations(asked) \in Counts
<1>1. ASSUME NEW hours, NEW kind PROVE StationCount(OfKind(Since(asked, hours), kind)) \in Nat
  <2>1. OfKind(Since(asked, hours), kind) \subseteq readings
    BY DEF OfKind, Since
  <2>. QED  BY <2>1, StationsGrow DEF TablesInv, TableOf
<1>. QED  BY <1>1 DEF CountStations, Counts

\* Whatever the counts are, the choice ends in one of the modes.
LEMMA ModeFound ==
    ASSUME NEW counts, NEW asked
    PROVE  ModeFrom(counts, asked) \in Modes
BY DEF ModeFrom, ChooseCoverageMode, Modes

\* The steps of a request keep the heatmaps honest: it reads the points of the mode
\* it found, and takes from the cache what was kept for that mode.
LEMMA RequestSteps ==
    ASSUME TablesInv, HeatmapInv, NEW q \in Requests,
           \/ AskHeatmap(q) \/ CoverHeatmap(q) \/ FetchPoints(q) \/ AnswerHeatmap(q)
           \/ CloseHeatmap(q)
    PROVE  HeatmapInv' /\ UNCHANGED tables
<1>. DEFINE r == request[q]
<1>1. /\ r \in Request /\ RequestOK(r) /\ CacheInv
      /\ request \in [Requests -> Request]
  BY DEF HeatmapInv
<1>2. CASE AskHeatmap(q)
  <2>. DEFINE j == [r EXCEPT !.pc = "counted", !.asked = now, !.counts = CountStations(now)]
  <2>1. request' = [request EXCEPT ![q] = j] /\ UNCHANGED <<tables, cache, aging>>
    BY <1>1, <1>2 DEF AskHeatmap
  <2>2. CountStations(now) \in Counts /\ now \in Int
    BY CountsTyped DEF TablesInv
  <2>3. j \in Request /\ j.pc = "counted"
    BY <1>1, <2>2 DEF Request
  <2>. HIDE DEF j
  <2>4. RequestOK(j) /\ CacheInv'
    BY <1>1, <2>1, <2>3 DEF RequestOK, CacheInv
  <2>. QED  BY <2>1, <2>4, OneRequest
<1>3. CASE CoverHeatmap(q)
  <2>. DEFINE mode == ModeFrom(r.counts, r.asked)
              hit == [Waiting EXCEPT !.pc = "answered", !.mode = mode, !.answer = Kept(mode)]
              miss == [r EXCEPT !.pc = "covered", !.mode = mode, !.counts = NoCounts]
  <2>1. /\ request' = [request EXCEPT ![q] = IF Kept(mode) # NoHeatmap THEN hit ELSE miss]
        /\ UNCHANGED <<tables, cache, aging>>
    BY <1>3 DEF CoverHeatmap
  <2>2. mode \in Modes
    BY ModeFound
  <2>3. CacheInv'
    BY <1>1, <2>1 DEF CacheInv
  <2>. HIDE DEF mode
  <2>4. CASE Kept(mode) # NoHeatmap
    <3>1. Kept(mode) \in Answer /\ Honest(Kept(mode), mode)
      BY <1>1, <2>2, <2>4 DEF CacheInv, Kept
    <3>2. RequestOK(hit)
      BY <2>2, <3>1, WaitingOK
    <3>. QED  BY <2>1, <2>3, <2>4, <3>2, OneRequest
  <2>5. CASE Kept(mode) = NoHeatmap
    <3>1. miss \in Request /\ miss.pc = "covered" /\ miss.mode = mode
      BY <1>1, <2>2 DEF Request, NoCounts, Counts
    <3>. HIDE DEF miss
    <3>2. RequestOK(miss)
      BY <2>2, <3>1 DEF RequestOK
    <3>. QED  BY <2>1, <2>3, <2>5, <3>2, OneRequest
  <2>. QED  BY <2>4, <2>5
<1>4. CASE FetchPoints(q)
  <2>. DEFINE points == InterpolationPoints(r.mode, r.asked)
              j == [r EXCEPT !.pc = "fetched", !.points = points]
  <2>1. /\ request' = [request EXCEPT ![q] = j] /\ UNCHANGED <<tables, cache, aging>>
        /\ r.pc = "covered"
    BY <1>1, <1>4 DEF FetchPoints
  <2>2. r.mode \in Modes /\ r.asked \in Int
    BY <1>1, <2>1 DEF RequestOK, Request
  <2>3. HonestPoints(points, r.mode, r.asked) /\ points \subseteq Point
    BY <2>2, PointsHonest
  <2>. HIDE DEF points
  <2>4. j \in Request /\ j.pc = "fetched" /\ j.mode = r.mode /\ j.asked = r.asked /\ j.points = points
    BY <1>1, <2>3 DEF Request
  <2>. HIDE DEF j
  <2>5. RequestOK(j) /\ CacheInv'
    BY <1>1, <2>1, <2>2, <2>3, <2>4 DEF RequestOK, CacheInv
  <2>. QED  BY <2>1, <2>5, OneRequest
<1>5. CASE AnswerHeatmap(q)
  <2>. DEFINE grid == Grid(r)
              j == [Waiting EXCEPT !.pc = "answered", !.mode = r.mode, !.answer = grid]
  <2>1. /\ request' = [request EXCEPT ![q] = j] /\ UNCHANGED tables
        /\ cache' = [cache EXCEPT ![r.mode] = grid] /\ aging' = aging \ {r.mode}
        /\ r.pc = "fetched"
    BY <1>5 DEF AnswerHeatmap
  <2>2. r.mode \in Modes /\ HonestPoints(r.points, r.mode, r.asked)
    BY <1>1, <2>1 DEF RequestOK
  <2>3. grid \in Answer /\ grid # NoHeatmap /\ Honest(grid, r.mode)
    BY <1>1, <2>2, GridHonest
  <2>. HIDE DEF grid
  <2>4. CacheInv'
    BY <1>1, <2>1, <2>2, <2>3 DEF CacheInv
  <2>5. RequestOK(j)
    BY <2>2, <2>3, WaitingOK
  <2>. QED  BY <2>1, <2>4, <2>5, OneRequest
<1>6. CASE CloseHeatmap(q)
  <2>1. request' = [request EXCEPT ![q] = Waiting] /\ UNCHANGED <<tables, cache, aging>>
    BY <1>6 DEF CloseHeatmap
  <2>2. CacheInv'
    BY <1>1, <2>1 DEF CacheInv
  <2>. QED  BY <2>1, <2>2, WaitingOK, OneRequest
<1>. QED  BY <1>2, <1>3, <1>4, <1>5, <1>6

\* So does everything else that happens.
LEMMA HeatmapSteps ==
    ASSUME TablesInv, HeatmapInv, HeatmapNext
    PROVE  HeatmapInv' /\ TablesStep
<1>1. CASE HeatmapHour
  <2>1. NextHour /\ aging' = {m \in Modes : cache[m] # NoHeatmap} /\ UNCHANGED <<cache, request>>
    BY <1>1 DEF HeatmapHour
  <2>. QED  BY <2>1 DEF HeatmapInv, CacheInv, RequestOK, TablesStep
<1>2. CASE Write /\ UNCHANGED heatmapVars
  BY <1>2 DEF HeatmapInv, CacheInv, RequestOK, TablesStep, heatmapVars
<1>3. ASSUME NEW q \in Requests,
             \/ AskHeatmap(q) \/ CoverHeatmap(q) \/ FetchPoints(q) \/ AnswerHeatmap(q)
             \/ CloseHeatmap(q)
      PROVE  HeatmapInv' /\ TablesStep
  BY <1>3, RequestSteps DEF TablesStep
<1>4. ASSUME NEW m \in Modes, Expire(m)
      PROVE  HeatmapInv' /\ TablesStep
  <2>1. /\ cache' = [cache EXCEPT ![m] = NoHeatmap] /\ aging' = aging \ {m}
        /\ UNCHANGED <<tables, request>>
    BY <1>4 DEF Expire
  <2>2. CacheInv'
    BY <2>1, WaitingOK DEF HeatmapInv, CacheInv
  <2>. QED  BY <2>1, <2>2 DEF HeatmapInv, RequestOK, TablesStep
<1>. QED  BY <1>1, <1>2, <1>3, <1>4 DEF HeatmapNext

-----------------------------------------------------------------------------
(* The advisory *)

\* Finitely many integers have a largest one: of the sets of those above each, a
\* smallest exists, and it is empty.
LEMMA LargestExists ==
    ASSUME NEW S \in SUBSET Int, IsFiniteSet(S), S # {}
    PROVE  Largest(S) \in S /\ \A y \in S : y <= Largest(S)
<1>. DEFINE Above(x) == {y \in S : y > x}
            family == {Above(x) : x \in S}
            R == StrictSubsetOrdering(S)
<1>1. IsWellFoundedOn(R, SUBSET S)
  BY FS_StrictSubsetOrderingWellFounded, FS_FiniteSubsetsOfFinite
<1>2. family \subseteq SUBSET S /\ family # {}
  OBVIOUS
<1>. HIDE DEF R
<1>3. PICK A \in family : \A B \in family : ~(<<B, A>> \in R)
  BY <1>1, <1>2, WFMin
<1>4. PICK m \in S : A = Above(m)
  BY <1>3
<1>5. \A y \in S : y <= m
  <2>. SUFFICES ASSUME NEW y \in S, y > m PROVE FALSE
    OBVIOUS
  <2>3. y \in Int /\ m \in Int /\ \A z \in S : z > y => z > m
    OBVIOUS
  <2>4. Above(y) \subseteq Above(m)
    BY <2>3
  <2>5. y \in Above(m)
    OBVIOUS
  <2>6. y \notin Above(y)
    BY <2>3
  <2>1. Above(y) \subseteq Above(m) /\ Above(y) # Above(m)
    BY <2>4, <2>5, <2>6
  <2>2. <<Above(y), Above(m)>> \in R
    BY <2>1 DEF R, StrictSubsetOrdering
  <2>. QED  BY <1>3, <1>4, <2>2
<1>. QED  BY <1>5 DEF Largest

\* The rows of the breakpoint table, as numbers.
LEMMA RowBounds ==
    /\ PM25Breakpoints[1].low = 0 /\ PM25Breakpoints[2].low = 91
    /\ PM25Breakpoints[3].low = 355 /\ PM25Breakpoints[4].low = 555
    /\ PM25Breakpoints[5].low = 1255 /\ PM25Breakpoints[6].low = 2255
    /\ PM25Breakpoints[1].high = 90 /\ PM25Breakpoints[2].high = 354
    /\ PM25Breakpoints[3].high = 554 /\ PM25Breakpoints[4].high = 1254
    /\ PM25Breakpoints[5].high = 2254
BY DEF PM25Breakpoints, Breakpoint

\* CategoryOf, which looks at the untruncated concentration, is the row that the
\* calculator takes.
LEMMA CategoryIsRow ==
    ASSUME NEW value \in Int, CalculateAqi(value) # NoAqi
    PROVE  CategoryOf(value) = BreakpointFor(Tenths(value))
<1>. DEFINE c == Tenths(value)
            i == BreakpointFor(c)
            S == {1} \union {k \in Rows : value >= 10 * PM25Breakpoints[k].low}
<1>1. c \in Measured
  BY AqiOfMeasured
<1>2. i \in Rows /\ RowOf(i, c)
  BY <1>1, RowFound
<1>3. /\ value >= 0 => 10 * c <= value /\ value < 10 * c + 10
      /\ value < 0 => c = 0
  BY <1>1 DEF Tenths, Measured
<1>. HIDE DEF c, i
<1>4. c \in Int /\ c >= 0
  BY <1>1 DEF Measured, ExtendedMax
<1>5. i \in S
  BY <1>2, <1>3, <1>4, RowBounds DEF RowOf, Rows, Hazardous
<1>6. \A k \in S : k \in Int /\ k <= i
  BY <1>2, <1>3, <1>4, RowBounds DEF RowOf, Rows, Hazardous
<1>7. Largest(S) = i
  BY <1>2, <1>5, <1>6 DEF Largest, Rows
<1>. QED  BY <1>7 DEF CategoryOf, c, i

\* An index and its row.
LEMMA IndexAndRow ==
    ASSUME NEW value \in Int, CalculateAqi(value) # NoAqi
    PROVE  /\ CategoryOf(value) \in Rows
           /\ CalculateAqi(value) \in Int
           /\ PM25Breakpoints[CategoryOf(value)].indexLow <= CalculateAqi(value)
           /\ \/ CategoryOf(value) = Hazardous
              \/ CalculateAqi(value) <= PM25Breakpoints[CategoryOf(value)].indexHigh
<1>. DEFINE c == Tenths(value)
            i == CategoryOf(value)
<1>1. /\ c \in Measured /\ i = BreakpointFor(c)
      /\ CalculateAqi(value) = LinearAqi(c, PM25Breakpoints[i])
  BY AqiOfMeasured, CategoryIsRow
<1>. HIDE DEF c, i
<1>2. i \in Rows /\ RowOf(i, c)
  BY <1>1, RowFound
<1>3. /\ i \in Rows /\ CalculateAqi(value) \in Int
      /\ PM25Breakpoints[i].indexLow <= CalculateAqi(value)
      /\ \/ i = Hazardous
         \/ CalculateAqi(value) <= PM25Breakpoints[i].indexHigh
  BY <1>1, <1>2, IndexInRow
<1>. QED  BY <1>3 DEF i

\* The bounds of the rows of the table of breakpoints, one by one.
LEMMA IndexBounds ==
    /\ PM25Breakpoints[1].indexLow = 0 /\ PM25Breakpoints[2].indexLow = 51
    /\ PM25Breakpoints[3].indexLow = 101 /\ PM25Breakpoints[4].indexLow = 151
    /\ PM25Breakpoints[5].indexLow = 201 /\ PM25Breakpoints[6].indexLow = 301
    /\ PM25Breakpoints[1].indexHigh = 50 /\ PM25Breakpoints[2].indexHigh = 100
    /\ PM25Breakpoints[3].indexHigh = 150 /\ PM25Breakpoints[4].indexHigh = 200
    /\ PM25Breakpoints[5].indexHigh = 300
BY DEF PM25Breakpoints, Breakpoint

\* An index lies in its category, whatever it was made from.
LEMMA IndexCategoryFound ==
    ASSUME NEW aqi \in Nat
    PROVE  /\ IndexCategory(aqi) \in Rows
           /\ PM25Breakpoints[IndexCategory(aqi)].indexLow <= aqi
           /\ \/ IndexCategory(aqi) = Hazardous
              \/ aqi <= PM25Breakpoints[IndexCategory(aqi)].indexHigh
<1>. DEFINE S == {1} \union {k \in Rows : aqi >= PM25Breakpoints[k].indexLow}
<1>1. \E i \in Rows : /\ PM25Breakpoints[i].indexLow <= aqi
                      /\ i = Hazardous \/ aqi <= PM25Breakpoints[i].indexHigh
  <2>1. \/ aqi \in 0..50 \/ aqi \in 51..100 \/ aqi \in 101..150
        \/ aqi \in 151..200 \/ aqi \in 201..300 \/ aqi >= 301
    OBVIOUS
  <2>2. {1, 2, 3, 4, 5, 6} \subseteq Rows /\ Hazardous = 6
    BY DEF Rows, Hazardous
  <2>. QED  BY <2>1, <2>2, IndexBounds
<1>2. PICK i \in Rows : /\ PM25Breakpoints[i].indexLow <= aqi
                        /\ i = Hazardous \/ aqi <= PM25Breakpoints[i].indexHigh
  BY <1>1
<1>3. \A k \in S : k \in Int /\ k <= i
  BY <1>2, IndexBounds DEF Rows, Hazardous
<1>4. i \in S /\ i \in Int
  <2>1. \A k \in Rows : PM25Breakpoints[k].indexLow \in Int
    BY IndexBounds DEF Rows
  <2>2. i \in Rows /\ i \in Int
    BY <1>2 DEF Rows
  <2>3. aqi >= PM25Breakpoints[i].indexLow
    BY <1>2, <2>1
  <2>. QED  BY <2>2, <2>3
<1>. HIDE DEF S
<1>5. Largest(S) = i
  <2>1. Largest(S) \in S /\ \A y \in S : y <= Largest(S)
    BY <1>3, <1>4 DEF Largest
  <2>2. Largest(S) \in Int /\ Largest(S) <= i
    BY <1>3, <2>1
  <2>3. i <= Largest(S)
    BY <1>4, <2>1
  <2>. QED  BY <1>4, <2>2, <2>3
<1>. QED  BY <1>2, <1>5 DEF IndexCategory, S

\* The index of a point and the category of the point.
LEMMA PointAndRow ==
    ASSUME NEW r \in Point, Aqi(r) # NoAqi
    PROVE  /\ PointCategory(r) \in Rows
           /\ Aqi(r) \in Int
           /\ PM25Breakpoints[PointCategory(r)].indexLow <= Aqi(r)
           /\ \/ PointCategory(r) = Hazardous
              \/ Aqi(r) <= PM25Breakpoints[PointCategory(r)].indexHigh
<1>1. CASE HasIndex(r)
  <2>1. r.aqi \in Nat
    BY <1>1 DEF HasIndex, Point, Row, ModeledRow
  <2>. QED  BY <1>1, <2>1, IndexCategoryFound DEF Aqi, PointCategory
<1>2. CASE ~HasIndex(r)
  <2>1. r.value \in Int
    BY DEF Point, Row, ModeledRow
  <2>. QED  BY <1>2, <2>1, IndexAndRow DEF Aqi, PointCategory
<1>. QED  BY <1>1, <1>2

\* The point with the higher index is not in the lower category.
LEMMA CategoriesOrdered ==
    ASSUME NEW p \in Point, NEW q \in Point, Aqi(p) # NoAqi, Aqi(q) # NoAqi,
           Aqi(p) <= Aqi(q)
    PROVE  PointCategory(p) <= PointCategory(q)
<1>. DEFINE i == PointCategory(p)
            j == PointCategory(q)
            x == Aqi(p)
            y == Aqi(q)
<1>1. /\ i \in Rows /\ x \in Int /\ PM25Breakpoints[i].indexLow <= x
      /\ j \in Rows /\ y \in Int /\ (j = Hazardous \/ y <= PM25Breakpoints[j].indexHigh)
      /\ x <= y
  BY PointAndRow
<1>. HIDE DEF i, j, x, y
<1>2. i <= j
  BY <1>1, IndexBounds DEF Rows, Hazardous
<1>. QED  BY <1>2 DEF i, j

\* The text of a recommendation is that of the category, or the one without an estimate.
LEMMA RecommendedByCategory ==
    ASSUME NEW i \in Rows, NEW aqi \in Int, NEW mode, PM25Breakpoints[i].indexLow <= aqi,
           i = Hazardous \/ aqi <= PM25Breakpoints[i].indexHigh
    PROVE  HealthRecommendation(aqi, mode) \in {0, i}
<1>1. /\ RecommendedUpTo[1] = 50 /\ RecommendedUpTo[2] = 100 /\ RecommendedUpTo[3] = 150
      /\ RecommendedUpTo[4] = 200 /\ RecommendedUpTo[5] = 300
  BY DEF RecommendedUpTo
<1>2. \A k \in 1..5 : aqi > RecommendedUpTo[k] <=> k < i
  BY <1>1, IndexBounds DEF Rows, Hazardous
<1>3. {k \in 1..5 : aqi > RecommendedUpTo[k]} = 1..(i - 1)
  BY <1>2 DEF Rows
<1>4. Cardinality(1..(i - 1)) = i - 1
  BY FS_Interval DEF Rows
<1>5. 1 + Cardinality({k \in 1..5 : aqi > RecommendedUpTo[k]}) = i
  <2>1. Cardinality({k \in 1..5 : aqi > RecommendedUpTo[k]}) = i - 1
    BY <1>3, <1>4
  <2>. QED  BY <2>1 DEF Rows
<1>. QED  BY <1>5 DEF HealthRecommendation

\* What the advisory says of points that have an AQI.
LEMMA WorstPoint ==
    ASSUME NEW points \in SUBSET Point, IsFiniteSet(points), WithAqi(points) # {}, NEW mode
    PROVE  /\ AqiCategory(MaxAqi(points)) = Largest({PointCategory(r) : r \in WithAqi(points)})
           /\ HealthRecommendation(MaxAqi(points), mode) \in {0, AqiCategory(MaxAqi(points))}
<1>. DEFINE with == WithAqi(points)
            indices == {Aqi(r) : r \in with}
            categories == {PointCategory(r) : r \in with}
<1>1. with \in SUBSET points /\ with # {}
  BY DEF WithAqi
<1>2. ASSUME NEW r \in with
      PROVE  r \in Point /\ Aqi(r) # NoAqi
  BY DEF WithAqi
<1>3. IsFiniteSet(indices)
  <2>. DEFINE f == [r \in with |-> Aqi(r)]
  <2>1. f \in Surjection(with, indices)
    BY DEF Surjection
  <2>2. IsFiniteSet(with)
    BY <1>1, FS_Subset
  <2>. QED  BY <2>1, <2>2, FS_Surjection
<1>4. MaxAqi(points) = Largest(indices)
  BY <1>1 DEF MaxAqi
<1>. HIDE DEF with
<1>5. indices \in SUBSET Int /\ indices # {}
  BY <1>1, <1>2, PointAndRow
<1>6. PICK worst \in with : /\ MaxAqi(points) = Aqi(worst)
                            /\ \A r \in with : Aqi(r) <= Aqi(worst)
  <2>1. Largest(indices) \in indices /\ \A y \in indices : y <= Largest(indices)
    BY <1>3, <1>5, LargestExists
  <2>. QED  BY <1>4, <2>1
<1>. DEFINE i == PointCategory(worst)
<1>7. /\ i \in Rows /\ MaxAqi(points) \in Int
      /\ PM25Breakpoints[i].indexLow <= MaxAqi(points)
      /\ i = Hazardous \/ MaxAqi(points) <= PM25Breakpoints[i].indexHigh
  BY <1>2, <1>6, PointAndRow
<1>8. AqiCategory(MaxAqi(points)) = i
  BY <1>7, CategoryFound
<1>9. \A r \in with : PointCategory(r) \in Int /\ PointCategory(r) <= i
  BY <1>2, <1>6, CategoriesOrdered, PointAndRow DEF Rows
<1>10. Largest(categories) = i
  <2>. HIDE DEF i
  <2>1. i \in categories
    BY DEF i
  <2>2. \A k \in categories : k \in Int /\ k <= i
    BY <1>9
  <2>. HIDE DEF categories
  <2>. QED  BY <2>1, <2>2 DEF Largest
<1>11. HealthRecommendation(MaxAqi(points), mode) \in {0, i}
  BY <1>7, RecommendedByCategory
<1>. QED  BY <1>8, <1>10, <1>11 DEF with

AdvisoryRequest == [pc: {"idle", "counted", "near", "valley", "recounted", "composite", "answered"},
             asked: Int, counts: Counts, mode: Modes \union {None}, first: Modes \union {None},
             near: Stations \union {None}, points: SUBSET Point]

AdvisoryInv ==
    /\ advisory \in AdvisoryRequest
    /\ advisory.pc = "composite" => advisory.mode \in Modes
    /\ IsFiniteSet(advisory.points)

\* The rows of a station and of the valley are finitely many points.
LEMMA RowsArePoints ==
    ASSUME TablesInv, NEW asked \in Int
    PROVE  /\ \A s : CurrentReadings(s, asked) \in SUBSET Point /\ IsFiniteSet(CurrentReadings(s, asked))
           /\ \A mode \in Modes :
                 ValleyPoints(mode, asked) \in SUBSET Point /\ IsFiniteSet(ValleyPoints(mode, asked))
<1>1. \A R \in SUBSET readings : R \in SUBSET Point /\ IsFiniteSet(R)
  <2>1. Row \subseteq Point
    BY DEF Point
  <2>. QED  BY <2>1, FS_Subset DEF TablesInv, TableOf
<1>2. \A s : CurrentReadings(s, asked) \in SUBSET readings
  BY DEF CurrentReadings, LatestOf, Since
<1>3. LatestOf(Usable(Since(asked, RecentHours))) \in SUBSET readings
  BY DEF LatestOf, Usable, Since
<1>4. ModeledPoints(asked) \in SUBSET Point /\ IsFiniteSet(ModeledPoints(asked))
  <2>1. /\ HonestPoints(InterpolationPoints("MODELED_BASELINE", asked), "MODELED_BASELINE", asked)
        /\ InterpolationPoints("MODELED_BASELINE", asked) \subseteq Point
    BY PointsHonest DEF Modes
  <2>2. InterpolationPoints("MODELED_BASELINE", asked) = ModeledPoints(asked)
    BY DEF InterpolationPoints
  <2>. QED  BY <2>1, <2>2 DEF HonestPoints
<1>. QED  BY <1>1, <1>2, <1>3, <1>4 DEF ValleyPoints

\* Before the first advisory there is none that could be wrong.
LEMMA AdvisoryStarts == AdvisoryInit => AdvisoryInv
<1>1. NoAdvisory \in AdvisoryRequest /\ NoAdvisory.pc = "idle" /\ NoAdvisory.points = {}
  BY DEF NoAdvisory, AdvisoryRequest, NoCounts, Counts, NoTime
<1>. QED  BY <1>1, FS_EmptySet DEF AdvisoryInit, AdvisoryInv

\* Every step of an advisory keeps what is known of it and leaves the tables as they are.
LEMMA AdvisorySteps ==
    ASSUME TablesInv, AdvisoryInv, AdvisoryNext
    PROVE  AdvisoryInv' /\ TablesStep
<1>. DEFINE a == advisory
<1>1. a \in AdvisoryRequest /\ IsFiniteSet(a.points) /\ a.asked \in Int
  BY DEF AdvisoryInv, AdvisoryRequest
<1>2. NoAdvisory \in AdvisoryRequest /\ NoAdvisory.pc = "idle" /\ NoAdvisory.points = {} /\ IsFiniteSet({})
  BY FS_EmptySet DEF NoAdvisory, AdvisoryRequest, NoCounts, Counts, NoTime
<1>3. CASE NextHour /\ UNCHANGED advisory
  BY <1>3 DEF AdvisoryInv, TablesStep
<1>4. CASE Write /\ UNCHANGED advisory
  BY <1>4 DEF AdvisoryInv, TablesStep
<1>5. CASE AskAdvisory
  <2>1. PICK near \in Stations \union {None} :
           advisory' = [NoAdvisory EXCEPT !.pc = "counted", !.asked = now, !.near = near,
                                          !.counts = CountStations(now)]
    BY <1>5 DEF AskAdvisory
  <2>2. CountStations(now) \in Counts /\ now \in Int
    BY CountsTyped DEF TablesInv
  <2>3. advisory' \in AdvisoryRequest /\ advisory'.pc = "counted" /\ advisory'.points = {}
    BY <1>2, <2>1, <2>2 DEF AdvisoryRequest
  <2>. QED  BY <1>2, <1>5, <2>3 DEF AdvisoryInv, TablesStep, AskAdvisory
<1>6. CASE CoverAdvisory
  <2>. DEFINE mode == ModeFrom(a.counts, a.asked)
              pc == IF a.near = None THEN "valley" ELSE "near"
  <2>1. advisory' = [a EXCEPT !.first = mode, !.pc = pc] /\ UNCHANGED tables
    BY <1>6 DEF CoverAdvisory
  <2>2. mode \in Modes /\ pc \in {"valley", "near"}
    BY ModeFound
  <2>. HIDE DEF mode, pc
  <2>3. advisory' \in AdvisoryRequest /\ advisory'.pc = pc /\ advisory'.points = a.points
    BY <1>1, <2>1, <2>2 DEF AdvisoryRequest
  <2>. QED  BY <1>1, <2>1, <2>2, <2>3 DEF AdvisoryInv, TablesStep
<1>7. ASSUME NEW points \in SUBSET Point, IsFiniteSet(points), advisory' = Advise(points),
             UNCHANGED tables
      PROVE  AdvisoryInv' /\ TablesStep
  <2>1. advisory' \in AdvisoryRequest /\ advisory'.pc = "answered" /\ advisory'.points = points
    BY <1>1, <1>7 DEF Advise, AdvisoryRequest
  <2>. QED  BY <1>7, <2>1 DEF AdvisoryInv, TablesStep
<1>8. CASE ReadNearest
  <2>. DEFINE current == CurrentReadings(a.near, a.asked)
  <2>1. UNCHANGED tables /\ \/ advisory' = Advise(current)
                            \/ advisory' = [a EXCEPT !.pc = "valley"]
    BY <1>8 DEF ReadNearest
  <2>2. current \in SUBSET Point /\ IsFiniteSet(current)
    BY <1>1, RowsArePoints
  <2>. HIDE DEF current
  <2>3. CASE advisory' = [a EXCEPT !.pc = "valley"]
    <3>1. advisory' \in AdvisoryRequest /\ advisory'.pc = "valley" /\ advisory'.points = a.points
      BY <1>1, <2>3 DEF AdvisoryRequest
    <3>. QED  BY <1>1, <2>1, <3>1 DEF AdvisoryInv, TablesStep
  <2>. QED  BY <1>7, <2>1, <2>2, <2>3
<1>9. CASE Recount
  <2>1. advisory' = [a EXCEPT !.pc = "recounted", !.counts = CountStations(a.asked)]
        /\ UNCHANGED tables
    BY <1>9 DEF Recount
  <2>2. CountStations(a.asked) \in Counts
    BY <1>1, CountsTyped
  <2>3. advisory' \in AdvisoryRequest /\ advisory'.pc = "recounted" /\ advisory'.points = a.points
    BY <1>1, <2>1, <2>2 DEF AdvisoryRequest
  <2>. QED  BY <1>1, <2>1, <2>3 DEF AdvisoryInv, TablesStep
<1>10. CASE CoverValley
  <2>. DEFINE mode == ModeFrom(a.counts, a.asked)
  <2>1. advisory' = [a EXCEPT !.pc = "composite", !.mode = mode] /\ UNCHANGED tables
    BY <1>10 DEF CoverValley
  <2>2. mode \in Modes
    BY ModeFound
  <2>. HIDE DEF mode
  <2>3. /\ advisory' \in AdvisoryRequest /\ advisory'.mode = mode
        /\ advisory'.points = a.points
    BY <1>1, <2>1, <2>2 DEF AdvisoryRequest
  <2>. QED  BY <1>1, <2>1, <2>2, <2>3 DEF AdvisoryInv, TablesStep
<1>11. CASE ReadValley
  <2>1. /\ advisory' = Advise(ValleyPoints(a.mode, a.asked)) /\ UNCHANGED tables
        /\ a.pc = "composite"
    BY <1>11 DEF ReadValley
  <2>2. a.mode \in Modes
    BY <2>1 DEF AdvisoryInv
  <2>. QED  BY <1>1, <1>7, <2>1, <2>2, RowsArePoints
<1>12. CASE CloseAdvisory
  <2>1. advisory' = NoAdvisory /\ UNCHANGED tables
    BY <1>12 DEF CloseAdvisory
  <2>. QED  BY <1>2, <2>1 DEF AdvisoryInv, TablesStep
<1>. QED
  BY <1>3, <1>4, <1>5, <1>6, <1>8, <1>9, <1>10, <1>11, <1>12 DEF AdvisoryNext, HandleAdvisory

\* The part of the invariant on advisories is enough for the property.
LEMMA AdvisoryMatches == AdvisoryInv => AdvisoryMatchesReadings
<1>. SUFFICES ASSUME AdvisoryInv, WithAqi(advisory.points) # {}
              PROVE  LET aqi == MaxAqi(advisory.points)
                     IN  /\ AqiCategory(aqi)
                              = Largest({PointCategory(r) : r \in WithAqi(advisory.points)})
                         /\ HealthRecommendation(aqi, advisory.first) \in {0, AqiCategory(aqi)}
  BY DEF AdvisoryMatchesReadings
<1>1. advisory.points \in SUBSET Point /\ IsFiniteSet(advisory.points)
  BY DEF AdvisoryInv, AdvisoryRequest
<1>. QED  BY <1>1, WorstPoint

-----------------------------------------------------------------------------
(* The load of the fires *)

FireLoad == [pc: {"idle", "next", "fetched", "failing", "inserted"},
             days: SUBSET Fires!Days, todo: SUBSET Fires!Days, range: {1, DayRange},
             found: SUBSET Fires!Fire, inserted: Nat, written: Nat, skipped: Nat,
             failures: Nat, attempted: Nat]

FiresTyped ==
    /\ shown \subseteq Fires!Fire /\ events \subseteq shown /\ IsFiniteSet(shown)
    /\ manifest \in [Fires!Days -> [status: {"none", "success", "failed"}, written: Nat]]
    /\ outcome \in [status: {"none", "success", "partial", "failed"}, days: SUBSET Fires!Days]
    /\ load \in [Loads -> FireLoad]

\* What a load knows: the fires it was shown, which are stored once they were
\* inserted, and the days that it is done with, which have a manifest row.
LoadOK(j) ==
    /\ j.todo \subseteq j.days
    /\ j.found \subseteq shown
    /\ j.pc \in {"idle", "next", "failing"} => j.found = {}
    /\ j.pc = "inserted" => j.found \subseteq events
    /\ \A d \in j.days \ j.todo : manifest[d].status # "none"

OutcomeOK == outcome.status = "success" => \A d \in outcome.days : manifest[d].status # "none"

LoadedOK == loaded \in [Fires!Days -> SUBSET events]

\* The stored fires that a row of the manifest stands for, byDay, and those that a
\* load has inserted and not recorded, byLoad: no fire is claimed twice.
Attributed(byDay, byLoad) ==
    /\ byDay \in [Fires!Days -> SUBSET events] /\ byLoad \in [Loads -> SUBSET events]
    /\ \A d \in Fires!Days : manifest[d].written <= Cardinality(byDay[d])
    /\ \A l \in Loads : load[l].inserted <= Cardinality(byLoad[l])
    /\ \A d, e \in Fires!Days : d # e => byDay[d] \cap byDay[e] = {}
    /\ \A l, m \in Loads : l # m => byLoad[l] \cap byLoad[m] = {}
    /\ \A d \in Fires!Days, l \in Loads : byDay[d] \cap byLoad[l] = {}

FiresInv ==
    /\ FiresTyped /\ OutcomeOK /\ LoadedOK
    /\ \A l \in Loads : LoadOK(load[l])
    /\ \E byDay, byLoad : Attributed(byDay, byLoad)

\* A load that has not begun.
LEMMA UnloadedOK ==
    /\ Fires!Unloaded \in FireLoad /\ LoadOK(Fires!Unloaded)
    /\ Fires!Unloaded.inserted = 0 /\ Fires!Unloaded.pc = "idle"
BY DEF Fires!Unloaded, FireLoad, LoadOK

\* Without fires, loads and manifest rows there is nothing to attribute.
LEMMA FiresStart == Fires!FirmsInit => FiresInv
<1>. SUFFICES ASSUME Fires!FirmsInit PROVE FiresInv
  OBVIOUS
<1>1. FiresTyped /\ OutcomeOK /\ LoadedOK
  BY UnloadedOK, FS_EmptySet DEF Fires!FirmsInit, FiresTyped, OutcomeOK, LoadedOK
<1>2. \A l \in Loads : LoadOK(load[l])
  BY UnloadedOK DEF Fires!FirmsInit
<1>. DEFINE byDay == [d \in Fires!Days |-> {}]
            byLoad == [l \in Loads |-> {}]
<1>3. Attributed(byDay, byLoad)
  <2>1. Cardinality({}) = 0
    BY FS_EmptySet
  <2>. QED  BY <2>1, UnloadedOK DEF Fires!FirmsInit, Attributed
<1>. QED  BY <1>1, <1>2, <1>3 DEF FiresInv

\* Load l becomes j, and what the loads know of the tables stays true.
LoadBecomes(l, j) ==
    /\ load' = [load EXCEPT ![l] = j]
    /\ j \in FireLoad /\ LoadOK(j)'
    /\ shown \subseteq shown' /\ events \subseteq events'
    /\ \A d \in Fires!Days : manifest[d].status # "none" => manifest'[d].status # "none"

\* Where one load moves on and the tables only grow, the others know what they knew.
LEMMA OneLoad ==
    ASSUME FiresInv, NEW l \in Loads, NEW j, LoadBecomes(l, j)
    PROVE  load' \in [Loads -> FireLoad] /\ \A m \in Loads : LoadOK(load[m])'
<1>1. load \in [Loads -> FireLoad] /\ load' = [load EXCEPT ![l] = j] /\ j \in FireLoad
  BY DEF FiresInv, FiresTyped, LoadBecomes
<1>2. load'[l] = j /\ \A m \in Loads : m # l => load'[m] = load[m]
  BY <1>1
<1>3. ASSUME NEW m \in Loads PROVE LoadOK(load[m])'
  <2>1. CASE m = l
    BY <1>2, <2>1 DEF LoadBecomes, LoadOK
  <2>2. CASE m # l
    <3>1. load'[m] = load[m] /\ LoadOK(load[m]) /\ load[m].days \subseteq Fires!Days
      BY <1>1, <1>2, <2>2 DEF FiresInv, FireLoad
    <3>. QED  BY <3>1 DEF LoadBecomes, LoadOK
  <2>. QED  BY <2>1, <2>2
<1>. QED  BY <1>1, <1>3

\* A step that leaves the tables alone, and what load l has inserted or forgets it.
LEMMA TablesKept ==
    ASSUME FiresInv, NEW l \in Loads, NEW j, LoadBecomes(l, j),
           UNCHANGED <<shown, events, manifest, loaded, outcome>>,
           j.inserted = load[l].inserted \/ j.inserted = 0
    PROVE  FiresInv'
<1>1. load' \in [Loads -> FireLoad] /\ \A m \in Loads : LoadOK(load[m])'
  BY OneLoad
<1>2. FiresTyped' /\ OutcomeOK' /\ LoadedOK'
  BY <1>1 DEF FiresInv, FiresTyped, OutcomeOK, LoadedOK
<1>3. PICK byDay, byLoad : Attributed(byDay, byLoad)
  BY DEF FiresInv
<1>4. Attributed(byDay, byLoad)'
  <2>1. IsFiniteSet(events)
    BY FS_Subset DEF FiresInv, FiresTyped
  <2>2. \A m \in Loads : byLoad[m] \in SUBSET events
    BY <1>3 DEF Attributed
  <2>3. \A m \in Loads : Cardinality(byLoad[m]) \in Nat
    BY <2>1, <2>2, FS_Subset, FS_CardinalityType
  <2>4. \A m \in Loads : load'[m].inserted = load[m].inserted \/ load'[m].inserted = 0
    BY DEF LoadBecomes, FiresInv, FiresTyped
  <2>5. \A m \in Loads : load'[m].inserted <= Cardinality(byLoad[m])
    BY <1>3, <2>3, <2>4 DEF Attributed
  <2>. QED  BY <1>3, <2>5 DEF Attributed
<1>. QED  BY <1>1, <1>2, <1>4 DEF FiresInv

\* A load begins, skips a day, fetches it or fails to.
LEMMA FetchSteps ==
    ASSUME FiresInv, NEW l \in Loads,
           Fires!BeginLoad(l) \/ Fires!SkipDay(l) \/ Fires!FetchDay(l) \/ Fires!FetchDayFails(l)
    PROVE  FiresInv'
<1>. DEFINE o == load[l]
<1>1. /\ o \in FireLoad /\ LoadOK(o) /\ load \in [Loads -> FireLoad]
      /\ UNCHANGED <<shown, events, manifest, loaded, outcome>>
  BY DEF FiresInv, FiresTyped, Fires!BeginLoad, Fires!SkipDay, Fires!FetchDay, Fires!FetchDayFails
<1>2. \A j : /\ load' = [load EXCEPT ![l] = j] /\ j \in FireLoad /\ LoadOK(j)
             /\ j.inserted = o.inserted \/ j.inserted = 0
             => FiresInv'
  BY <1>1, TablesKept DEF LoadBecomes, LoadOK
<1>3. CASE Fires!BeginLoad(l)
  <2>1. PICK from \in Fires!Days, to \in Fires!Days :
           load' = [load EXCEPT ![l] =
                [Fires!Unloaded EXCEPT !.pc = "next", !.days = from..to, !.todo = from..to,
                                 !.range = IF from = to THEN DayRange ELSE 1]]
    BY <1>3 DEF Fires!BeginLoad
  <2>. DEFINE j == [Fires!Unloaded EXCEPT !.pc = "next", !.days = from..to, !.todo = from..to,
                                 !.range = IF from = to THEN DayRange ELSE 1]
  <2>2. from..to \subseteq Fires!Days
    BY FirmsAssumption DEF Fires!Days
  <2>3. /\ j.pc = "next" /\ j.days = from..to /\ j.todo = from..to /\ j.found = {}
        /\ j.inserted = 0
    BY DEF Fires!Unloaded
  <2>4. j \in FireLoad
    BY <2>2 DEF Fires!Unloaded, FireLoad
  <2>. HIDE DEF j
  <2>5. LoadOK(j)
    BY <2>3 DEF LoadOK
  <2>. QED  BY <1>2, <2>1, <2>3, <2>4, <2>5 DEF j
<1>4. CASE Fires!SkipDay(l)
  <2>. DEFINE day == Fires!RequestDate(l)
              j == [o EXCEPT !.todo = @ \ {day}, !.skipped = @ + 1]
  <2>1. load' = [load EXCEPT ![l] = j] /\ manifest[day].status = "success"
    BY <1>1, <1>4 DEF Fires!SkipDay
  <2>. HIDE DEF day
  <2>2. /\ j.pc = o.pc /\ j.days = o.days /\ j.todo = o.todo \ {day} /\ j.found = o.found
        /\ j.inserted = o.inserted
    BY <1>1 DEF FireLoad
  <2>. HIDE DEF o
  <2>3. j \in FireLoad
    <3>1. o.skipped + 1 \in Nat
      BY <1>1 DEF FireLoad
    <3>. QED  BY <1>1, <3>1 DEF FireLoad
  <2>. HIDE DEF j
  <2>4. LoadOK(j)
    BY <1>1, <2>1, <2>2 DEF LoadOK
  <2>. QED  BY <1>2, <2>1, <2>2, <2>3, <2>4
<1>5. CASE Fires!FetchDay(l)
  <2>. DEFINE found == {f \in shown : f[1] \in Fires!RequestDate(l)..(Fires!RequestDate(l) + o.range - 1)}
              j == [o EXCEPT !.pc = "fetched", !.found = found]
  <2>1. load' = [load EXCEPT ![l] = j]
    BY <1>1, <1>5 DEF Fires!FetchDay
  <2>2. found \subseteq shown /\ found \subseteq Fires!Fire
    BY DEF FiresInv, FiresTyped
  <2>. HIDE DEF found
  <2>3. /\ j.pc = "fetched" /\ j.days = o.days /\ j.todo = o.todo /\ j.found = found
        /\ j.inserted = o.inserted
    BY <1>1 DEF FireLoad
  <2>4. j \in FireLoad
    BY <1>1, <2>2 DEF FireLoad
  <2>. HIDE DEF j, o
  <2>5. LoadOK(j)
    BY <1>1, <2>2, <2>3 DEF LoadOK
  <2>. QED  BY <1>2, <2>1, <2>3, <2>4, <2>5
<1>6. CASE Fires!FetchDayFails(l)
  <2>. DEFINE j == [o EXCEPT !.pc = "failing", !.failures = @ + 1, !.attempted = @ + 1]
  <2>1. load' = [load EXCEPT ![l] = j] /\ o.pc = "next"
    BY <1>1, <1>6 DEF Fires!FetchDayFails
  <2>2. /\ j.pc = "failing" /\ j.days = o.days /\ j.todo = o.todo /\ j.found = o.found
        /\ j.inserted = o.inserted
    BY <1>1 DEF FireLoad
  <2>. HIDE DEF o
  <2>3. j \in FireLoad
    <3>1. o.failures + 1 \in Nat /\ o.attempted + 1 \in Nat
      BY <1>1 DEF FireLoad
    <3>. QED  BY <1>1, <3>1 DEF FireLoad
  <2>. HIDE DEF j
  <2>4. LoadOK(j)
    BY <1>1, <2>1, <2>2 DEF LoadOK
  <2>. QED  BY <1>2, <2>1, <2>2, <2>3, <2>4
<1>. QED  BY <1>3, <1>4, <1>5, <1>6

\* The fires that a load was shown are inserted: those that are new are its own.
LEMMA InsertStep ==
    ASSUME FiresInv, NEW l \in Loads, Fires!InsertEvents(l)
    PROVE  FiresInv'
<1>. DEFINE o == load[l]
            new == o.found \ events
            n == Cardinality(new)
<1>. PICK j : j = [o EXCEPT !.pc = "inserted", !.inserted = n, !.written = @ + n,
                            !.attempted = @ + 1]
  OBVIOUS
<1>1. /\ o \in FireLoad /\ LoadOK(o) /\ load \in [Loads -> FireLoad]
      /\ events \subseteq shown /\ IsFiniteSet(shown) /\ shown \subseteq Fires!Fire
  BY DEF FiresInv, FiresTyped
<1>2. /\ events' = events \union o.found /\ load' = [load EXCEPT ![l] = j]
      /\ UNCHANGED <<shown, manifest, loaded, outcome>>
  <2>1. load' = [load EXCEPT ![l].pc = "inserted", ![l].inserted = n,
                            ![l].written = @ + n, ![l].attempted = @ + 1]
    <3>1. Fires!NewEvents(o.found) = n
      BY DEF Fires!NewEvents, Fires!Cardinality, Cardinality
    <3>. HIDE DEF n, new
    <3>. QED  BY <3>1 DEF Fires!InsertEvents
  <2>. HIDE DEF n, new
  <2>2. load' = [load EXCEPT ![l] = j]
    BY <1>1, <2>1
  <2>. QED  BY <2>2 DEF Fires!InsertEvents
<1>3. /\ o.found \subseteq shown /\ events' \subseteq shown /\ IsFiniteSet(events')
      /\ events \subseteq events' /\ new \subseteq events' /\ n \in Nat
  <2>1. o.found \subseteq shown /\ events' \subseteq shown /\ events \subseteq events'
        /\ new \subseteq events'
    BY <1>1, <1>2 DEF LoadOK
  <2>2. IsFiniteSet(events') /\ IsFiniteSet(new)
    BY <1>1, <2>1, FS_Subset
  <2>. QED  BY <2>1, <2>2, FS_CardinalityType
<1>. HIDE DEF new, n, o
<1>4. /\ j.pc = "inserted" /\ j.days = o.days /\ j.todo = o.todo /\ j.found = o.found
      /\ j.inserted = n /\ j \in FireLoad
  <2>1. o.written + n \in Nat /\ o.attempted + 1 \in Nat
    BY <1>1, <1>3 DEF FireLoad
  <2>. QED  BY <1>1, <1>3, <2>1 DEF FireLoad
<1>5. LoadBecomes(l, j)
  BY <1>1, <1>2, <1>3, <1>4 DEF LoadBecomes, LoadOK
<1>6. load' \in [Loads -> FireLoad] /\ \A m \in Loads : LoadOK(load[m])'
  BY <1>5, OneLoad
<1>7. FiresTyped' /\ OutcomeOK' /\ LoadedOK'
  BY <1>2, <1>3, <1>6 DEF FiresInv, FiresTyped, OutcomeOK, LoadedOK
<1>8. PICK byDay, byLoad : Attributed(byDay, byLoad)
  BY DEF FiresInv
<1>. PICK mine : mine = [byLoad EXCEPT ![l] = new]
  OBVIOUS
<1>9. Attributed(byDay, mine)'
  <2>1. /\ byDay \in [Fires!Days -> SUBSET events'] /\ mine \in [Loads -> SUBSET events']
    BY <1>3, <1>8 DEF Attributed
  <2>2. mine[l] = new /\ \A m \in Loads : m # l => mine[m] = byLoad[m]
    BY <1>8 DEF Attributed
  <2>3. \A m \in Loads : load'[m].inserted <= Cardinality(mine[m])
    <3>1. load'[l] = j /\ \A m \in Loads : m # l => load'[m] = load[m]
      BY <1>1, <1>2
    <3>2. \A m \in Loads : load[m].inserted <= Cardinality(byLoad[m])
      BY <1>8 DEF Attributed
    <3>3. j.inserted <= Cardinality(new)
      BY <1>3, <1>4 DEF n
    <3>. QED  BY <2>2, <3>1, <3>2, <3>3
  <2>4. \A d \in Fires!Days : byDay[d] \subseteq events
    BY <1>8 DEF Attributed
  <2>5. \A m \in Loads : byLoad[m] \subseteq events
    BY <1>8 DEF Attributed
  <2>6. new \cap events = {}
    BY DEF new
  <2>7. \A m, k \in Loads : m # k => mine[m] \cap mine[k] = {}
    BY <1>8, <2>2, <2>5, <2>6 DEF Attributed
  <2>8. \A d \in Fires!Days, m \in Loads : byDay[d] \cap mine[m] = {}
    BY <1>8, <2>2, <2>4, <2>6 DEF Attributed
  <2>. QED  BY <1>2, <1>8, <2>1, <2>3, <2>7, <2>8 DEF Attributed
<1>. QED  BY <1>6, <1>7, <1>9 DEF FiresInv

\* The day is recorded: what the load inserted now belongs to its row.
LEMMA RecordDayStep ==
    ASSUME FiresInv, NEW l \in Loads, Fires!RecordDay(l)
    PROVE  FiresInv'
<1>. DEFINE o == load[l]
            day == Fires!RequestDate(l)
            ok == o.pc = "inserted"
            row == IF ok THEN [status |-> "success", written |-> o.inserted]
                         ELSE [status |-> "failed", written |-> 0]
<1>. PICK j : j = [o EXCEPT !.pc = "next", !.todo = @ \ {day}, !.found = {}, !.inserted = 0]
  OBVIOUS
<1>1. /\ o \in FireLoad /\ LoadOK(o) /\ load \in [Loads -> FireLoad]
      /\ manifest \in [Fires!Days -> [status: {"none", "success", "failed"}, written: Nat]]
      /\ loaded \in [Fires!Days -> SUBSET events]
      /\ events \subseteq shown /\ IsFiniteSet(events)
  BY FS_Subset DEF FiresInv, FiresTyped, LoadedOK
<1>2. /\ manifest' = [manifest EXCEPT ![day] = row]
      /\ loaded' = [loaded EXCEPT ![day] = loaded[day] \union o.found]
      /\ load' = [load EXCEPT ![l] = j]
      /\ o.pc \in {"inserted", "failing"}
      /\ UNCHANGED <<shown, events, outcome>>
  BY <1>1 DEF Fires!RecordDay
<1>. HIDE DEF o, day
<1>3. /\ row \in [status: {"none", "success", "failed"}, written: Nat]
      /\ row.status # "none" /\ row.written = IF ok THEN o.inserted ELSE 0
  BY <1>1 DEF FireLoad
<1>4. o.found \subseteq events
  BY <1>1, <1>2 DEF LoadOK
<1>5. /\ j.pc = "next" /\ j.days = o.days /\ j.todo = o.todo \ {day} /\ j.found = {}
      /\ j.inserted = 0 /\ j \in FireLoad
  BY <1>1 DEF FireLoad
<1>. HIDE DEF row, ok
<1>6. /\ manifest' \in [Fires!Days -> [status: {"none", "success", "failed"}, written: Nat]]
      /\ loaded' \in [Fires!Days -> SUBSET events]
      /\ \A d \in Fires!Days : manifest'[d] = IF d = day THEN row ELSE manifest[d]
  BY <1>1, <1>2, <1>3, <1>4
<1>7. LoadBecomes(l, j)
  <2>1. \A d \in Fires!Days : manifest[d].status # "none" => manifest'[d].status # "none"
    BY <1>3, <1>6
  <2>2. \A d \in j.days \ j.todo : manifest'[d].status # "none"
    <3>1. j.days \subseteq Fires!Days
      BY <1>5 DEF FireLoad
    <3>. QED  BY <1>1, <1>3, <1>5, <1>6, <2>1, <3>1 DEF LoadOK
  <2>. QED  BY <1>1, <1>2, <1>5, <2>1, <2>2 DEF LoadBecomes, LoadOK
<1>8. load' \in [Loads -> FireLoad] /\ \A m \in Loads : LoadOK(load[m])'
  BY <1>7, OneLoad
<1>9. FiresTyped' /\ OutcomeOK' /\ LoadedOK'
  <2>1. FiresTyped' /\ LoadedOK'
    BY <1>2, <1>6, <1>8 DEF FiresInv, FiresTyped, LoadedOK
  <2>2. OutcomeOK'
    <3>1. outcome.days \subseteq Fires!Days
      BY DEF FiresInv, FiresTyped
    <3>. QED  BY <1>2, <1>7, <3>1 DEF FiresInv, OutcomeOK, LoadBecomes
  <2>. QED  BY <2>1, <2>2
<1>10. PICK byDay, byLoad : Attributed(byDay, byLoad)
  BY DEF FiresInv
<1>. PICK days : days = [byDay EXCEPT ![day] = IF ok THEN byLoad[l] ELSE {}]
  OBVIOUS
<1>. PICK loads : loads = [byLoad EXCEPT ![l] = {}]
  OBVIOUS
<1>11. Attributed(days, loads)'
  <2>1. days \in [Fires!Days -> SUBSET events] /\ loads \in [Loads -> SUBSET events]
    BY <1>10 DEF Attributed
  <2>2. /\ \A d \in Fires!Days : days[d] = IF d = day THEN (IF ok THEN byLoad[l] ELSE {}) ELSE byDay[d]
        /\ \A m \in Loads : loads[m] = IF m = l THEN {} ELSE byLoad[m]
    BY <1>10 DEF Attributed
  <2>3. Cardinality({}) = 0
    BY FS_EmptySet
  <2>4. \A d \in Fires!Days : manifest'[d].written <= Cardinality(days[d])
    BY <1>3, <1>6, <1>10, <2>2, <2>3 DEF Attributed, o
  <2>5. \A m \in Loads : load'[m].inserted <= Cardinality(loads[m])
    <3>1. load'[l] = j /\ \A m \in Loads : m # l => load'[m] = load[m]
      BY <1>1, <1>2
    <3>2. \A m \in Loads : load[m].inserted <= Cardinality(byLoad[m])
      BY <1>10 DEF Attributed
    <3>3. j.inserted <= Cardinality({})
      BY <1>5, <2>3
    <3>. QED  BY <2>2, <3>1, <3>2, <3>3
  <2>6. \A d, e \in Fires!Days : d # e => days[d] \cap days[e] = {}
    BY <1>10, <2>2 DEF Attributed
  <2>7. \A m, k \in Loads : m # k => loads[m] \cap loads[k] = {}
    BY <1>10, <2>2 DEF Attributed
  <2>8. \A d \in Fires!Days, m \in Loads : days[d] \cap loads[m] = {}
    BY <1>10, <2>2 DEF Attributed
  <2>. QED  BY <1>2, <2>1, <2>4, <2>5, <2>6, <2>7, <2>8 DEF Attributed
<1>. QED  BY <1>8, <1>9, <1>11 DEF FiresInv

\* A load ends, or cannot begin: what it inserted and did not record is nobody's.
LEMMA EndSteps ==
    ASSUME FiresInv,
           \/ Fires!BeginWithoutKey
           \/ \E l \in Loads : Fires!FinishLoad(l) \/ Fires!AbortLoad(l)
    PROVE  FiresInv'
<1>1. CASE Fires!BeginWithoutKey
  <2>1. /\ outcome' = [status |-> "failed", days |-> {}]
        /\ UNCHANGED <<shown, events, manifest, loaded, load>>
    BY <1>1 DEF Fires!BeginWithoutKey
  <2>2. PICK byDay, byLoad : Attributed(byDay, byLoad)
    BY DEF FiresInv
  <2>3. Attributed(byDay, byLoad)'
    BY <2>1, <2>2 DEF Attributed
  <2>4. FiresTyped' /\ OutcomeOK' /\ LoadedOK' /\ \A l \in Loads : LoadOK(load[l])'
    BY <2>1 DEF FiresInv, FiresTyped, OutcomeOK, LoadedOK, LoadOK
  <2>. QED  BY <2>3, <2>4 DEF FiresInv
<1>2. ASSUME NEW l \in Loads, Fires!FinishLoad(l) \/ Fires!AbortLoad(l)
      PROVE  FiresInv'
  <2>. DEFINE o == load[l]
  <2>1. /\ o \in FireLoad /\ LoadOK(o) /\ load' = [load EXCEPT ![l] = Fires!Unloaded]
        /\ UNCHANGED <<shown, events, manifest, loaded>>
    BY <1>2 DEF FiresInv, FiresTyped, Fires!FinishLoad, Fires!AbortLoad
  <2>2. \/ outcome' = outcome
        \/ outcome' = [status |-> "failed", days |-> o.days]
        \/ outcome' = [status |-> Fires!LoadStatus(o), days |-> o.days] /\ o.todo = {}
    BY <1>2 DEF Fires!FinishLoad, Fires!AbortLoad
  <2>3. Fires!LoadStatus(o) \in {"success", "partial", "failed"}
    BY DEF Fires!LoadStatus
  <2>. HIDE DEF o
  <2>4. OutcomeOK' /\ outcome' \in [status: {"none", "success", "partial", "failed"},
                                    days: SUBSET Fires!Days]
    <3>1. o.days \subseteq Fires!Days
      BY <2>1 DEF FireLoad
    <3>2. CASE outcome' = outcome
      BY <2>1, <3>2 DEF FiresInv, FiresTyped, OutcomeOK
    <3>3. CASE outcome' = [status |-> "failed", days |-> o.days]
      BY <3>1, <3>3 DEF OutcomeOK
    <3>4. CASE outcome' = [status |-> Fires!LoadStatus(o), days |-> o.days] /\ o.todo = {}
      <4>1. \A d \in o.days : manifest'[d].status # "none"
        BY <2>1, <3>4 DEF LoadOK
      <4>2. outcome'.days = o.days
        BY <3>4
      <4>. QED  BY <2>3, <3>1, <3>4, <4>1, <4>2 DEF OutcomeOK
    <3>. QED  BY <2>2, <3>2, <3>3, <3>4
  <2>5. LoadBecomes(l, Fires!Unloaded)
    BY <2>1, UnloadedOK DEF LoadBecomes, LoadOK, Fires!Unloaded
  <2>6. load' \in [Loads -> FireLoad] /\ \A m \in Loads : LoadOK(load[m])'
    BY <2>5, OneLoad
  <2>7. FiresTyped' /\ LoadedOK'
    BY <2>1, <2>4, <2>6 DEF FiresInv, FiresTyped, LoadedOK
  <2>8. PICK byDay, byLoad : Attributed(byDay, byLoad)
    BY DEF FiresInv
  <2>. PICK loads : loads = [byLoad EXCEPT ![l] = {}]
    OBVIOUS
  <2>9. Attributed(byDay, loads)'
    <3>1. loads \in [Loads -> SUBSET events]
      BY <2>8 DEF Attributed
    <3>2. \A m \in Loads : loads[m] = IF m = l THEN {} ELSE byLoad[m]
      BY <2>8 DEF Attributed
    <3>3. \A m \in Loads : load'[m].inserted <= Cardinality(loads[m])
      <4>1. load'[l] = Fires!Unloaded /\ \A m \in Loads : m # l => load'[m] = load[m]
        BY <2>1 DEF FiresInv, FiresTyped
      <4>2. \A m \in Loads : load[m].inserted <= Cardinality(byLoad[m])
        BY <2>8 DEF Attributed
      <4>3. Fires!Unloaded.inserted <= Cardinality({})
        BY UnloadedOK, FS_EmptySet
      <4>. QED  BY <3>2, <4>1, <4>2, <4>3
    <3>4. /\ \A m, k \in Loads : m # k => loads[m] \cap loads[k] = {}
          /\ \A d \in Fires!Days, m \in Loads : byDay[d] \cap loads[m] = {}
      BY <2>8, <3>2 DEF Attributed
    <3>. QED  BY <2>1, <2>8, <3>1, <3>3, <3>4 DEF Attributed
  <2>. QED  BY <2>4, <2>6, <2>7, <2>9 DEF FiresInv
<1>. QED  BY <1>1, <1>2

\* FIRMS lists one more fire.
LEMMA DetectStep ==
    ASSUME FiresInv, NEW f \in Fires!Fire, Fires!Detect(f)
    PROVE  FiresInv'
<1>1. shown' = shown \union {f} /\ UNCHANGED <<events, manifest, loaded, outcome, load>>
  BY DEF Fires!Detect
<1>2. FiresTyped' /\ OutcomeOK' /\ LoadedOK'
  BY <1>1, FS_AddElement DEF FiresInv, FiresTyped, OutcomeOK, LoadedOK
<1>3. \A l \in Loads : LoadOK(load[l])'
  BY <1>1 DEF FiresInv, LoadOK
<1>4. PICK byDay, byLoad : Attributed(byDay, byLoad)
  BY DEF FiresInv
<1>5. Attributed(byDay, byLoad)'
  BY <1>1, <1>4 DEF Attributed
<1>. QED  BY <1>2, <1>3, <1>5 DEF FiresInv

\* One case for every action of FIRMS.
LEMMA FiresSteps ==
    ASSUME FiresInv, Fires!FirmsNext
    PROVE  FiresInv'
BY DetectStep, EndSteps, FetchSteps, InsertStep, RecordDayStep DEF Fires!FirmsNext

\* Of the natural numbers in a set there is a least one.
LEMMA LeastNumber ==
    ASSUME NEW S \in SUBSET Nat, S # {}
    PROVE  \E m \in S : \A k \in S : m <= k
<1>. DEFINE R == OpToRel(<, Nat)
<1>1. IsWellFoundedOn(R, Nat)
  BY NatLessThanWellFounded
<1>2. \A k, m \in Nat : k < m => <<k, m>> \in R
  BY DEF OpToRel
<1>. HIDE DEF R
<1>3. PICK m \in S : \A k \in S : ~(<<k, m>> \in R)
  BY <1>1, WFMin
<1>4. m \in Nat /\ \A k \in S : k \in Nat /\ ~(k < m)
  BY <1>2, <1>3
<1>. QED  BY <1>4

\* What WrittenUpTo says of each day up to n, of any function f.
Sums(f, n) == f = [d \in 0..n |-> IF d = 0 THEN 0 ELSE f[d - 1] + manifest[d].written]

\* There is such a function up to every n.
LEMMA SumsExist ==
    ASSUME NEW n \in Nat
    PROVE  \E f : Sums(f, n)
<1>. DEFINE Without == {k \in Nat : ~\E f : Sums(f, k)}
<1>1. SUFFICES ASSUME Without # {} PROVE FALSE
  OBVIOUS
<1>2. PICK m \in Without : \A k \in Without : m <= k
  <2>1. Without \in SUBSET Nat
    OBVIOUS
  <2>. HIDE DEF Without
  <2>. QED  BY <1>1, <2>1, LeastNumber
<1>3. CASE m = 0
  <2>. DEFINE f == [d \in 0..0 |-> 0]
  <2>1. f = [d \in 0..0 |-> IF d = 0 THEN 0 ELSE f[d - 1] + manifest[d].written]
    OBVIOUS
  <2>. QED  BY <1>2, <1>3, <2>1 DEF Sums
<1>4. CASE m # 0
  <2>1. m - 1 \in Nat /\ m - 1 \notin Without
    BY <1>2, <1>4
  <2>2. PICK g : Sums(g, m - 1)
    BY <2>1
  <2>. DEFINE f == [d \in 0..m |-> IF d = m THEN g[m - 1] + manifest[m].written ELSE g[d]]
  <2>3. ASSUME NEW d \in 0..m
        PROVE  f[d] = IF d = 0 THEN 0 ELSE f[d - 1] + manifest[d].written
    <3>1. CASE d = m
      BY <1>2, <1>4, <3>1
    <3>2. CASE d # m
      <4>1. d \in 0..m - 1 /\ f[d] = g[d] /\ (d # 0 => f[d - 1] = g[d - 1])
        BY <1>2, <3>2
      <4>2. g[d] = IF d = 0 THEN 0 ELSE g[d - 1] + manifest[d].written
        BY <2>2, <4>1 DEF Sums
      <4>. QED  BY <4>1, <4>2
    <3>. QED  BY <3>1, <3>2
  <2>4. f = [d \in 0..m |-> f[d]]
    OBVIOUS
  <2>. HIDE DEF f
  <2>5. Sums(f, m)
    BY <2>3, <2>4 DEF Sums
  <2>. QED  BY <1>2, <2>5
<1>. QED  BY <1>3, <1>4

\* The rows that the manifest claims are stored fires of different days.
LEMMA ClaimsAreStored ==
    ASSUME FiresInv
    PROVE  Fires!WrittenUpTo[LastDay] <= Cardinality(events)
<1>. DEFINE W == Fires!WrittenUpTo
<1>1. W = [d \in 0..LastDay |-> IF d = 0 THEN 0 ELSE W[d - 1] + manifest[d].written]
  <2>1. \E f : Sums(f, LastDay)
    BY SumsExist, FirmsAssumption
  <2>. QED  BY <2>1 DEF Sums, Fires!WrittenUpTo
<1>. HIDE DEF W
<1>2. PICK byDay, byLoad : Attributed(byDay, byLoad)
  BY DEF FiresInv
<1>3. /\ IsFiniteSet(events) /\ \A d \in Fires!Days : manifest[d].written \in Nat
      /\ byDay \in [Fires!Days -> SUBSET events]
  BY <1>2, FS_Subset DEF FiresInv, FiresTyped, Attributed
<1>. DEFINE Claimed(n) == {f \in events : \E d \in Fires!Days : d <= n /\ f \in byDay[d]}
            Right(n) == W[n] \in Nat /\ W[n] <= Cardinality(Claimed(n))
            Wrong == {n \in 0..LastDay : ~Right(n)}
<1>4. ASSUME NEW n \in 0..LastDay PROVE Right(n)
  <2>. SUFFICES ASSUME Wrong # {} PROVE FALSE
    OBVIOUS
  <2>1. PICK m \in Wrong : \A k \in Wrong : m <= k
    <3>1. Wrong \in SUBSET Nat
      OBVIOUS
    <3>. HIDE DEF Wrong
    <3>. QED  BY <3>1, LeastNumber
  <2>2. \A k \in 0..LastDay : IsFiniteSet(Claimed(k)) /\ Cardinality(Claimed(k)) \in Nat
    BY <1>3, FS_Subset, FS_CardinalityType
  <2>3. m # 0
    <3>1. 0 \in 0..LastDay /\ Right(0)
      <4>1. 0 \in 0..LastDay
        BY FirmsAssumption
      <4>2. W[0] = 0
        BY <1>1, <4>1
      <4>3. Cardinality(Claimed(0)) \in Nat
        BY <2>2, <4>1
      <4>. HIDE DEF Claimed
      <4>. QED  BY <4>1, <4>2, <4>3
    <3>2. ~Right(m)
      BY <2>1
    <3>. HIDE DEF Right
    <3>. QED  BY <3>1, <3>2
  <2>4. m - 1 \in 0..LastDay /\ m \in Fires!Days /\ Right(m - 1)
    <3>1. m \in 0..LastDay /\ m - 1 \in 0..LastDay /\ m \in Fires!Days /\ ~(m <= m - 1)
      BY <2>1, <2>3, FirmsAssumption DEF Fires!Days
    <3>. HIDE DEF Right
    <3>2. m - 1 \notin Wrong
      <4>. HIDE DEF Wrong
      <4>. QED  BY <2>1, <3>1
    <3>. QED  BY <3>1, <3>2
  <2>5. W[m] = W[m - 1] + manifest[m].written
    BY <1>1, <2>1, <2>3
  <2>6. Cardinality(Claimed(m)) = Cardinality(Claimed(m - 1)) + Cardinality(byDay[m])
    <3>1. Claimed(m) = Claimed(m - 1) \union byDay[m]
      <4>1. \A d \in Fires!Days : d <= m <=> d <= m - 1 \/ d = m
        BY <2>4, FirmsAssumption DEF Fires!Days
      <4>. QED  BY <1>3, <2>4, <4>1
    <3>2. Claimed(m - 1) \cap byDay[m] = {}
      <4>1. \A d \in Fires!Days : d <= m - 1 => d # m
        BY <2>4, FirmsAssumption DEF Fires!Days
      <4>. QED  BY <1>2, <2>4, <4>1 DEF Attributed
    <3>3. IsFiniteSet(byDay[m]) /\ Cardinality(byDay[m]) \in Nat
      BY <1>3, <2>4, FS_Subset, FS_CardinalityType
    <3>4. IsFiniteSet(Claimed(m - 1)) /\ Cardinality(Claimed(m - 1)) \in Nat
      BY <2>2, <2>4
    <3>. HIDE DEF Claimed
    <3>5. Cardinality(Claimed(m - 1) \cap byDay[m]) = 0
      BY <3>2, FS_EmptySet
    <3>6. Cardinality(Claimed(m - 1) \union byDay[m])
             = Cardinality(Claimed(m - 1)) + Cardinality(byDay[m])
                 - Cardinality(Claimed(m - 1) \cap byDay[m])
      BY <3>3, <3>4, FS_Union
    <3>. QED  BY <3>1, <3>3, <3>4, <3>5, <3>6
  <2>7. /\ manifest[m].written \in Nat /\ manifest[m].written <= Cardinality(byDay[m])
        /\ Cardinality(byDay[m]) \in Nat
    BY <1>2, <1>3, <2>4, FS_Subset, FS_CardinalityType DEF Attributed
  <2>8. Cardinality(Claimed(m - 1)) \in Nat
    BY <2>2, <2>4
  <2>. HIDE DEF Claimed
  <2>9. Right(m)
    BY <2>4, <2>5, <2>6, <2>7, <2>8
  <2>. QED  BY <2>1, <2>9
<1>5. Claimed(LastDay) \in SUBSET events
  OBVIOUS
<1>6. /\ Cardinality(Claimed(LastDay)) <= Cardinality(events)
      /\ Cardinality(Claimed(LastDay)) \in Nat /\ Cardinality(events) \in Nat
  BY <1>3, <1>5, FS_Subset, FS_CardinalityType
<1>7. Right(LastDay)
  BY <1>4, FirmsAssumption
<1>. HIDE DEF Claimed
<1>. QED  BY <1>6, <1>7 DEF W

-----------------------------------------------------------------------------
(* The theorems *)

\* Loads that do nothing, among fires that stay.
LEMMA FiresUndisturbed ==
    ASSUME FiresInv, UNCHANGED fireVars
    PROVE  FiresInv'
<1>. UNCHANGED <<shown, events, manifest, loaded, outcome, load>>
  BY DEF fireVars
<1>1. PICK byDay, byLoad : Attributed(byDay, byLoad)
  BY DEF FiresInv
<1>2. Attributed(byDay, byLoad)'
  BY <1>1 DEF Attributed
<1>. QED  BY <1>2 DEF FiresInv, FiresTyped, OutcomeOK, LoadedOK, LoadOK

\* The check and its snapshot have their types; the modes and states are those of
\* classify_quality_state, and a snapshot is of an hour that has begun.
QualityTypes ==
    /\ QualityTypeOK
    /\ check.asked \in Time \union {NoTime}

\* The tables of readings keep their types and forget no hour.
LEMMA TypesStep ==
    ASSUME ReadingsTypeOK, TablesStep
    PROVE  ReadingsTypeOK' /\ Time \subseteq Time'
<1>1. now \in Nat /\ ForecastHours \in Nat
  BY ReadingsAssumption DEF ReadingsTypeOK
<1>2. CASE NextHour
  <2>1. now' = now + 1 /\ UNCHANGED <<readings, modeled>>
    BY <1>2 DEF NextHour
  <2>2. 0..now \subseteq 0..now' /\ 0..now + ForecastHours \subseteq 0..now' + ForecastHours
    BY <1>1, <2>1
  <2>. QED  BY <1>1, <2>1, <2>2 DEF ReadingsTypeOK, Time
<1>3. ASSUME NEW t \in 0..now + ForecastHours, NEW answered \in Answers,
             StoreModeled(t, answered)
      PROVE  ReadingsTypeOK' /\ Time \subseteq Time'
  <2>1. \A c \in DOMAIN answered : c \in Cells /\ answered[c] \in ModeledSamples
    BY DEF Answers
  <2>2. /\ UNCHANGED <<now, readings>>
        /\ \A r \in modeled' :
              r \in modeled \/ \E c \in DOMAIN answered : r = ModeledReading(c, t, answered[c])
    BY <1>3 DEF StoreModeled
  <2>. QED  BY <2>1, <2>2 DEF ReadingsTypeOK, Time
<1>4. ASSUME NEW s \in Stations, NEW t \in Time, NEW sample \in Samples, Store(s, t, sample)
      PROVE  ReadingsTypeOK' /\ Time \subseteq Time'
  BY <1>4 DEF Store, ReadingsTypeOK, Time
<1>5. CASE UNCHANGED tables
  BY <1>5 DEF tables, ReadingsTypeOK, Time
<1>. QED  BY <1>2, <1>3, <1>4, <1>5 DEF TablesStep, Write

\* A quality check keeps the types of what it reports.
LEMMA QualityTypesStep ==
    ASSUME ReadingsTypeOK, QualityTypes, QualityCheck
    PROVE  QualityTypes'
<1>1. CASE BeginCheck
  <2>1. PICK windows \in CheckWindows :
           check' = [NoCheck EXCEPT !.pc = "fresh", !.asked = now, !.windows = windows,
                                    !.fresh = CountDistinctStations(now, windows.fresh)]
    BY <1>1 DEF BeginCheck
  <2>2. UNCHANGED <<now, snapshot, quality>>
    BY <1>1 DEF BeginCheck, tables
  <2>. QED  BY <2>1, <2>2 DEF NoCheck, QualityTypes, QualityTypeOK, ReadingsTypeOK, Time
<1>2. CASE CountRecent \/ CheckModeled \/ CountInvalid
  <2>1. /\ UNCHANGED <<now, snapshot, quality>>
        /\ check'.asked = check.asked /\ check'.state = check.state
        /\ check'.pc \in {"recent", "modeled", "invalid"}
    <3>1. CASE CountRecent
      BY <3>1 DEF CountRecent, tables
    <3>2. CASE CheckModeled
      BY <3>2 DEF CheckModeled, tables
    <3>3. CASE CountInvalid
      BY <3>3 DEF CountInvalid, tables
    <3>. QED  BY <1>2, <3>1, <3>2, <3>3
  <2>. QED  BY <2>1 DEF QualityTypes, QualityTypeOK, Time
<1>3. CASE Snapshot
  <2>. DEFINE recent  == Since(check.asked, check.windows.recent)
              verdict == ClassifyQualityState(check.fresh, check.recent, check.modeled,
                             check.invalid, Cardinality(recent \ Usable(recent)),
                             Cardinality(recent))
  <2>1. /\ snapshot' = [mode |-> verdict[2], at |-> check.asked, windows |-> check.windows]
        /\ check' = [NoCheck EXCEPT !.pc = "evaluated", !.state = verdict[1]]
        /\ UNCHANGED <<now, quality>>
    BY <1>3 DEF Snapshot, tables
  <2>2. verdict[2] \in Modes /\ verdict[1] \in {"healthy", "degraded", "down"}
    BY DEF ClassifyQualityState, Modes
  <2>. HIDE DEF verdict
  <2>. QED  BY <2>1, <2>2 DEF NoCheck, QualityTypes, QualityTypeOK, Time
<1>4. CASE RecordCheck \/ CheckFails
  <2>1. /\ UNCHANGED <<now, snapshot>> /\ check' = NoCheck
        /\ quality' \in {quality, "failed", "success", "partial"}
    BY <1>4 DEF RecordCheck, CheckFails, tables, PipelineStatus
  <2>. QED  BY <2>1 DEF NoCheck, QualityTypes, QualityTypeOK, Time
<1>. QED  BY <1>1, <1>2, <1>3, <1>4 DEF QualityCheck

IInv ==
    /\ TablesInv /\ QualityInv /\ HeatmapInv /\ AdvisoryInv /\ FiresInv
    /\ ReadingsTypeOK /\ QualityTypes

\* Whichever reader runs, the tables only grow and the others are left alone.
LEMMA Steps == IInv /\ [Next]_vars => IInv'
<1>. SUFFICES ASSUME IInv, [Next]_vars PROVE IInv'
  OBVIOUS
<1>1. ASSUME UNCHANGED heatmapVars PROVE HeatmapInv'
  BY <1>1 DEF IInv, HeatmapInv, CacheInv, RequestOK, heatmapVars
<1>2. ASSUME UNCHANGED advisory PROVE AdvisoryInv'
  BY <1>2 DEF IInv, AdvisoryInv
<1>3. ASSUME TablesStep PROVE TablesInv' /\ ReadingsTypeOK'
  BY <1>3, TablesGrow, TypesStep DEF IInv
<1>4. ASSUME TablesStep, UNCHANGED qualityVars PROVE QualityInv' /\ QualityTypes'
  <2>1. QualityInv'
    BY <1>4, QualityUndisturbed DEF IInv, qualityVars
  <2>2. QualityTypes'
    BY <1>4, TypesStep DEF IInv, QualityTypes, QualityTypeOK, qualityVars
  <2>. QED  BY <2>1, <2>2
<1>5. ASSUME UNCHANGED fireVars PROVE FiresInv'
  BY <1>5, FiresUndisturbed DEF IInv
<1>6. CASE HeatmapNext /\ UNCHANGED <<advisory, qualityVars, fireVars>>
  BY <1>2, <1>3, <1>4, <1>5, <1>6, HeatmapSteps DEF IInv
<1>7. CASE AdvisoryNext /\ UNCHANGED <<heatmapVars, qualityVars, fireVars>>
  BY <1>1, <1>3, <1>4, <1>5, <1>7, AdvisorySteps DEF IInv
<1>8. CASE QualityNext /\ UNCHANGED <<heatmapVars, advisory, fireVars>>
  <2>1. CASE (NextHour \/ Write) /\ UNCHANGED qualityVars
    BY <1>1, <1>2, <1>3, <1>4, <1>5, <1>8, <2>1 DEF IInv, TablesStep
  <2>2. CASE QualityCheck
    <3>1. TablesStep
      BY <2>2 DEF QualityCheck, BeginCheck, CountRecent, CheckModeled, CountInvalid, Snapshot,
                  RecordCheck, CheckFails, TablesStep
    <3>2. QualityInv' /\ QualityTypes'
      BY <2>2, QualityChecked, QualityTypesStep DEF IInv
    <3>. QED  BY <1>1, <1>2, <1>3, <1>5, <1>8, <3>1, <3>2 DEF IInv
  <2>. QED  BY <1>8, <2>1, <2>2 DEF QualityNext
<1>9. CASE Fires!FirmsNext /\ UNCHANGED <<tables, heatmapVars, advisory, qualityVars>>
  BY <1>1, <1>2, <1>3, <1>4, <1>9, FiresSteps DEF IInv, TablesStep
<1>10. CASE UNCHANGED <<tables, heatmapVars, advisory, qualityVars, fireVars>>
  BY <1>1, <1>2, <1>3, <1>4, <1>5, <1>10 DEF IInv, TablesStep
<1>. QED  BY <1>6, <1>7, <1>8, <1>9, <1>10 DEF Next, vars

\* The modules that share the tables start in the invariant together.
LEMMA Starts == Init => IInv
<1>. SUFFICES ASSUME Init PROVE IInv
  OBVIOUS
<1>1. TablesInv /\ QualityInv /\ HeatmapInv /\ AdvisoryInv /\ FiresInv
  BY TablesInit, QualityStarts, HeatmapStarts, AdvisoryStarts, FiresStart DEF Init
<1>2. ReadingsTypeOK
  BY DEF Init, ReadingsInit, ReadingsTypeOK, Time
<1>3. QualityTypes
  BY DEF Init, QualityInit, NoCheck, QualityTypes, QualityTypeOK
<1>. QED  BY <1>1, <1>2, <1>3 DEF IInv

\* Each step is one of a module, and the invariants of the others are about rows that stay.
LEMMA Invariant == Spec => []IInv
BY Starts, Steps, PTL DEF Spec

\* For any number of requests, stations and readings, and whatever is stored, kept and
\* expires between the statements of a request: a heatmap carries the mode that the
\* request found, and points of its kind and age only, of enough stations.
THEOREM HeatmapsAreHonest == Spec => []HeatmapIsHonest
<1>1. IInv => HeatmapIsHonest
  BY DEF IInv, HeatmapInv, CacheInv, RequestOK, HeatmapIsHonest
<1>. QED  BY <1>1, Invariant, PTL

\* For any windows of the check and of the API, in whatever order the readings arrive: a
\* snapshot claims more than the API finds in the same hour only where the check had the
\* longer window, or counts a modeled reading that the API does not take for the present.
THEOREM SnapshotsAreModest == Spec => []RulesAgree
<1>1. IInv => RulesAgree
  BY ClaimHolds DEF IInv
<1>. QED  BY <1>1, Invariant, PTL

\* For every concentration and every index that Open-Meteo may give, and any number of
\* stations: the category and the advice are those of the worst point.
THEOREM AdvisoriesMatch == Spec => []AdvisoryMatchesReadings
<1>1. IInv => AdvisoryMatchesReadings
  BY AdvisoryMatches DEF IInv
<1>. QED  BY <1>1, Invariant, PTL

\* The tables, the requests, the check and the loads of fires stay within their types.
THEOREM TypeCorrect == Spec => []TypeOK
<1>1. ASSUME IInv PROVE TypeOK
  <2>1. HeatmapTypeOK
    <3>1. ASSUME NEW m \in Modes PROVE cache[m].mode \in {None, m}
      <4>1. CASE cache[m] = NoHeatmap
        BY <4>1 DEF NoHeatmap
      <4>2. CASE cache[m] # NoHeatmap
        BY <1>1, <4>2 DEF IInv, HeatmapInv, CacheInv, Honest
      <4>. QED  BY <4>1, <4>2
    <3>2. \A q \in Requests : request[q] \in Request
      BY <1>1 DEF IInv, HeatmapInv
    <3>. QED  BY <1>1, <3>1, <3>2 DEF IInv, HeatmapInv, CacheInv, HeatmapTypeOK, Request
  <2>2. AdvisoryTypeOK
    BY <1>1 DEF IInv, AdvisoryInv, AdvisoryRequest, AdvisoryTypeOK
  <2>3. Fires!FirmsTypeOK
    <3>1. FiresTyped /\ \A l \in Loads : load[l] \in FireLoad /\ LoadOK(load[l])
      BY <1>1 DEF IInv, FiresInv, FiresTyped
    <3>2. \A l \in Loads : load[l].todo \subseteq load[l].days /\ load[l].days \subseteq Fires!Days
      BY <3>1 DEF FireLoad, LoadOK
    <3>. QED  BY <3>1, <3>2 DEF Fires!FirmsTypeOK, FiresTyped
  <2>. QED  BY <1>1, <2>1, <2>2, <2>3 DEF IInv, QualityTypes, TypeOK
<1>. QED  BY <1>1, Invariant, PTL

\* For any number of loads that overlap, break off and ask again: a day is marked as
\* loaded only after its fires were stored, a successful run has a manifest row for each
\* of its days, and every row that the manifest claims is a fire of its own.
THEOREM LoadedFiresAreStored == Spec => []FiresAreStored
<1>1. ASSUME IInv PROVE FiresAreStored
  <2>1. \A d \in Fires!Days : loaded[d] \subseteq events
    BY <1>1 DEF IInv, FiresInv, LoadedOK
  <2>2. Fires!Cardinality(events) = Cardinality(events)
    BY DEF Fires!Cardinality, Cardinality
  <2>3. Fires!WrittenUpTo[LastDay] <= Cardinality(events)
    BY <1>1, ClaimsAreStored DEF IInv
  <2>4. OutcomeOK
    BY <1>1 DEF IInv, FiresInv
  <2>. QED  BY <2>1, <2>2, <2>3, <2>4 DEF FiresAreStored, Fires!FiresAreStored, OutcomeOK
<1>. QED  BY <1>1, Invariant, PTL
=============================================================================
