------------------------------ MODULE Heatmap ------------------------------
(***************************************************************************)
(* The interpolation endpoint, services/api/service.py and cache.py:       *)
(* requests for a heatmap beside each other, which share the cache         *)
(* ApiCaches.idw while readings are stored and hours pass.                 *)
(***************************************************************************)
EXTENDS Readings

CONSTANT Requests    \* requests under way at a time, at most

VARIABLES
    cache,   \* ApiCaches.idw: the heatmap kept for each mode
    aging,   \* the modes whose heatmap was kept before this hour began
    request  \* the local variables of each request

heatmapVars == <<cache, aging, request>>

NoHeatmap == [mode |-> None, at |-> NoTime, points |-> {}]

\* NOW(), the counts, the mode, the points read and the answer.
Waiting == [pc |-> "idle", asked |-> NoTime, counts |-> NoCounts, mode |-> None,
            points |-> {}, answer |-> NoHeatmap]

HeatmapInit ==
    /\ cache = [m \in Modes |-> NoHeatmap] /\ aging = {}
    /\ request = [q \in Requests |-> Waiting]

\* A request arrives and its first statement counts the stations.
AskHeatmap(q) ==
    /\ request[q].pc = "idle"
    /\ request' = [request EXCEPT ![q].pc = "counted", ![q].asked = now,
                                  ![q].counts = CountStations(now)]
    /\ UNCHANGED <<tables, cache, aging>>

\* Mutation: the cache key is the pollutant and the grid.
KeptForAny(mode) ==
    LET kept == {m \in Modes : cache[m] # NoHeatmap}
    IN  IF kept = {} THEN NoHeatmap ELSE cache[CHOOSE m \in kept : TRUE]

\* caches.idw.get under the key of the mode.
Kept(mode) == cache[mode]

\* The other statements of fetch_coverage_metadata; then the cached heatmap of
\* this mode is the answer, or the points are read.
CoverHeatmap(q) ==
    /\ request[q].pc = "counted"
    /\ LET mode == ModeFrom(request[q].counts, request[q].asked)
       IN  request' = [request EXCEPT ![q] =
              IF Kept(mode) # NoHeatmap
              THEN [Waiting EXCEPT !.pc = "answered", !.mode = mode, !.answer = Kept(mode)]
              ELSE [@ EXCEPT !.pc = "covered", !.mode = mode, !.counts = NoCounts]]
    /\ UNCHANGED <<tables, cache, aging>>

FetchPoints(q) ==
    /\ request[q].pc = "covered"
    /\ request' = [request EXCEPT ![q].pc = "fetched", ![q].points =
                      InterpolationPoints(request[q].mode, request[q].asked)]
    /\ UNCHANGED <<tables, cache, aging>>

\* Fewer than three points with an AQI: insufficient_data and an empty grid.
Grid(j) ==
    [mode |-> j.mode, at |-> j.asked,
     points |-> IF Cardinality(WithAqi(j.points)) < MinStations THEN {} ELSE WithAqi(j.points)]

\* The answer is kept for the next requests, whatever was kept meanwhile.
AnswerHeatmap(q) ==
    /\ request[q].pc = "fetched"
    /\ cache' = [cache EXCEPT ![request[q].mode] = Grid(request[q])]
    /\ aging' = aging \ {request[q].mode}
    /\ request' = [request EXCEPT ![q] = [Waiting EXCEPT !.pc = "answered", !.mode = request[q].mode,
                                                         !.answer = Grid(request[q])]]
    /\ UNCHANGED tables

\* The response is sent, or a statement failed and the request ends with an error.
CloseHeatmap(q) ==
    /\ request[q].pc # "idle"
    /\ request' = [request EXCEPT ![q] = Waiting]
    /\ UNCHANGED <<tables, cache, aging>>

\* The entry is older than idw_ttl_seconds.
Expire(mode) ==
    /\ cache[mode] # NoHeatmap
    /\ cache' = [cache EXCEPT ![mode] = NoHeatmap]
    /\ aging' = aging \ {mode}
    /\ UNCHANGED <<tables, request>>

\* The hour ends.  What is cached expires within half a minute: nothing that was
\* kept in an earlier hour is left by then.
HeatmapHour ==
    /\ aging = {}
    /\ NextHour
    /\ aging' = {m \in Modes : cache[m] # NoHeatmap}
    /\ UNCHANGED <<cache, request>>

HeatmapNext ==
    \/ HeatmapHour
    \/ Write /\ UNCHANGED heatmapVars
    \/ \E q \in Requests : \/ AskHeatmap(q)
                          \/ CoverHeatmap(q)
                          \/ FetchPoints(q)
                          \/ AnswerHeatmap(q)
                          \/ CloseHeatmap(q)
    \/ \E m \in Modes : Expire(m)

-----------------------------------------------------------------------------
(* Properties *)

HeatmapTypeOK ==
    /\ \A m \in Modes : cache[m].mode \in {None, m}
    /\ \A m \in aging : cache[m] # NoHeatmap
    /\ \A q \in Requests : request[q].counts \in Counts /\ request[q].mode \in Modes \union {None}

\* What a heatmap labelled with this mode may show.
Honest(answer, mode) ==
    /\ answer.mode = mode
    /\ answer.points # {} => StationCount(answer.points) >= MinStations
    /\ \A r \in answer.points :
          /\ r.kind = ObservationTypeOf(mode) /\ ~r.anomaly
          /\ mode = "LIVE_OBSERVED" => r.at >= answer.at - FreshHours
          /\ mode = "RECENT_OBSERVED" => r.at >= answer.at - RecentHours
          /\ mode = "MODELED_BASELINE" =>
                answer.at - ModeledHours <= r.at /\ r.at <= answer.at + ModeledAhead
          /\ \A p \in answer.points : p.station = r.station => p = r

\* "A modeled estimate can never be shown as a live reading" (fyp-report-draft.md:447):
\* whatever is stored, cached and expires between the coverage, the points and the
\* answer, a heatmap carries the mode its request found, and only points of that
\* kind and age, of enough stations to interpolate.
HeatmapIsHonest ==
    /\ \A q \in Requests : request[q].pc = "answered" => Honest(request[q].answer, request[q].mode)
    /\ \A m \in Modes : cache[m] # NoHeatmap => Honest(cache[m], m)
=============================================================================
