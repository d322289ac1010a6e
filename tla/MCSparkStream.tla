--------------------------- MODULE MCSparkStream ---------------------------
(* Values for the constants of SparkStream. *)
EXTENDS SparkStream

StationValue == [s \in Sensors |-> "station"]

\* Two readings of one key and one of a later key.
ReadingValue ==
    {[kind |-> "reading", sensor |-> "s1", time |-> t, value |-> v] :
        <<t, v>> \in {<<0, 1>>, <<0, 2>>, <<1, 1>>}}

\* A single reading.
OneReading == {[kind |-> "reading", sensor |-> "s1", time |-> 0, value |-> 1]}
=============================================================================
