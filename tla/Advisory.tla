------------------------------ MODULE Advisory ------------------------------
(***************************************************************************)
(* The health advisory endpoint, services/api/service.py: a request reads  *)
(* the coverage, the nearest station and, when that has no AQI, the        *)
(* coverage once more and the valley.                                      *)
(***************************************************************************)
EXTENDS Readings

VARIABLE advisory    \* the local variables of a request

\* NOW(), the counts of the coverage read last and its mode, the mode of the first
\* coverage, the nearest station, and the readings the answer is made from.
NoAdvisory == [pc |-> "idle", asked |-> NoTime, counts |-> NoCounts, mode |-> None,
               first |-> None, near |-> None, points |-> {}]

AdvisoryInit == advisory = NoAdvisory

\* A request arrives, for a place or for the valley; the stations are counted.
AskAdvisory ==
    /\ advisory.pc = "idle"
    /\ \E near \in Stations \union {None} :
          advisory' = [NoAdvisory EXCEPT !.pc = "counted", !.asked = now, !.near = near,
                                         !.counts = CountStations(now)]
    /\ UNCHANGED tables

\* The coverage whose mode the advisory names and recommends by.
CoverAdvisory ==
    /\ advisory.pc = "counted"
    /\ advisory' = [advisory EXCEPT !.first = ModeFrom(advisory.counts, advisory.asked),
                                    !.pc = IF advisory.near = None THEN "valley" ELSE "near"]
    /\ UNCHANGED tables

Advise(points) == [advisory EXCEPT !.pc = "answered", !.points = points]

ReadNearest ==
    /\ advisory.pc = "near"
    /\ LET current == CurrentReadings(advisory.near, advisory.asked)
       IN  advisory' = IF MaxAqi(current) # NoAqi THEN Advise(current)
                       ELSE [advisory EXCEPT !.pc = "valley"]
    /\ UNCHANGED tables

\* get_valley_current_response reads the coverage again.
Recount ==
    /\ advisory.pc = "valley"
    /\ advisory' = [advisory EXCEPT !.pc = "recounted", !.counts = CountStations(advisory.asked)]
    /\ UNCHANGED tables

CoverValley ==
    /\ advisory.pc = "recounted"
    /\ advisory' = [advisory EXCEPT !.pc = "composite",
                                    !.mode = ModeFrom(advisory.counts, advisory.asked)]
    /\ UNCHANGED tables

ReadValley ==
    /\ advisory.pc = "composite"
    /\ advisory' = Advise(ValleyPoints(advisory.mode, advisory.asked))
    /\ UNCHANGED tables

\* The response is sent, or a statement failed and the request ends with an error.
CloseAdvisory ==
    /\ advisory.pc # "idle"
    /\ advisory' = NoAdvisory
    /\ UNCHANGED tables

HandleAdvisory == CoverAdvisory \/ ReadNearest \/ Recount \/ CoverValley \/ ReadValley

AdvisoryNext ==
    \/ NextHour /\ UNCHANGED advisory
    \/ Write /\ UNCHANGED advisory
    \/ AskAdvisory \/ HandleAdvisory \/ CloseAdvisory

-----------------------------------------------------------------------------
(* Properties *)

AdvisoryTypeOK ==
    /\ advisory.near \in Stations \union {None}
    /\ {advisory.mode, advisory.first} \subseteq Modes \union {None}
    /\ advisory.counts \in Counts

\* The category that the EPA table gives a concentration.
CategoryOf(value) == Largest({1} \union {i \in Rows : value >= 10 * PM25Breakpoints[i].low})

\* The category of an index.
IndexCategory(aqi) == Largest({1} \union {i \in Rows : aqi >= PM25Breakpoints[i].indexLow})

\* The category of a point: where Open-Meteo gave an index, that of the index.
PointCategory(r) == IF HasIndex(r) THEN IndexCategory(r.aqi) ELSE CategoryOf(r.value)

\* The category and the recommendation of an advisory are those of the worst point
\* it was made from, its concentration or the index that came with it: truncation,
\* rounding, the maximum over points of both sorts and the two tables the AQI goes
\* through neither soften nor exaggerate it.
AdvisoryMatchesReadings ==
    advisory.pc = "answered" /\ WithAqi(advisory.points) # {} =>
        LET aqi == MaxAqi(advisory.points)
        IN  /\ AqiCategory(aqi) = Largest({PointCategory(r) : r \in WithAqi(advisory.points)})
            /\ HealthRecommendation(aqi, advisory.first) \in {0, AqiCategory(aqi)}
=============================================================================
