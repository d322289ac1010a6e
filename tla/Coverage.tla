------------------------------ MODULE Coverage ------------------------------
(***************************************************************************)
(* The two rules that say what the estimates of the moment rest on: the    *)
(* API's choose_coverage_mode, and classify_quality_state of the           *)
(* data-quality DAG.  They are written and counted separately.             *)
(***************************************************************************)
EXTENDS Integers

CONSTANT MinStations    \* 3: the stations that make a coverage
ASSUME MinStationsAssumption == MinStations \in Nat \ {0}

Modes == {"LIVE_OBSERVED", "RECENT_OBSERVED", "MODELED_BASELINE", "REPLAY_DEMO",
          "STATION_ONLY", "NO_DATA"}

\* Stations with a fresh, a recent and a recent replayed reading.
Counts == [fresh: Nat, recent: Nat, replay: Nat]

\* choose_coverage_mode
ChooseCoverageMode(counts, modeled, stations) ==
    IF counts.fresh >= MinStations THEN "LIVE_OBSERVED"
    ELSE IF counts.recent >= MinStations THEN "RECENT_OBSERVED"
    ELSE IF modeled THEN "MODELED_BASELINE"
    ELSE IF counts.replay >= MinStations THEN "REPLAY_DEMO"
    ELSE IF stations > 0 THEN "STATION_ONLY"
    ELSE "NO_DATA"

\* observation_type_for_mode, and the type fetch_interpolation_points asks for.
ObservationTypeOf(mode) ==
    CASE mode \in {"LIVE_OBSERVED", "RECENT_OBSERVED"} -> "observed"
      [] mode = "MODELED_BASELINE" -> "modeled"
      [] mode = "REPLAY_DEMO" -> "replay"
      [] OTHER -> "none"

\* classify_quality_state: the state and the mode of the snapshot.
ClassifyQualityState(fresh, recent, modeled, invalid, anomalous, total) ==
    IF invalid > 0 \/ 2 * anomalous > total THEN <<"down", "NO_DATA">>
    ELSE IF fresh >= MinStations THEN <<"healthy", "LIVE_OBSERVED">>
    ELSE IF recent >= MinStations THEN <<"degraded", "RECENT_OBSERVED">>
    ELSE IF modeled THEN <<"degraded", "MODELED_BASELINE">>
    ELSE IF recent > 0 THEN <<"degraded", "STATION_ONLY">>
    ELSE <<"down", "NO_DATA">>

\* The modes from the best coverage to the weakest that both rules know.
Ladder == <<"LIVE_OBSERVED", "RECENT_OBSERVED", "MODELED_BASELINE">>

\* The claim is no better than what the mode stands for.
NoBetter(claim, mode) ==
    \A i \in 1..3 : claim = Ladder[i] => \E j \in 1..i : mode = Ladder[j]
=============================================================================
