--------------------------- MODULE MCAirQuality ---------------------------
(* Values for the constants of AirQuality. *)
EXTENDS AirQuality, TLC

Sample(kind, value, anomaly) == [kind |-> kind, value |-> value, anomaly |-> anomaly]

\* 9.05 and 9.10 ug/m3 lie on the two sides of a breakpoint.
SamplesValue ==
    {Sample("observed", 905, FALSE), Sample("observed", 910, TRUE), Sample("replay", 910, FALSE)}

\* A concentration of the second category, with and without an index of the third.
ModeledSamplesValue == {[value |-> 3549, aqi |-> NoAqi], [value |-> 3549, aqi |-> 101]}

\* The windows of the API, and a longer one for fresh readings.
CheckWindowsValue == {[fresh |-> 0, recent |-> 1], [fresh |-> 1, recent |-> 1]}

\* Requests, stations and cells differ in nothing but their names.
Symmetry == Permutations(Requests) \union Permutations(Stations) \union Permutations(Cells)
=============================================================================
