----------------------------- MODULE MCWeather -----------------------------
(* Values for the constants of Weather. *)
EXTENDS Weather

\* WEATHER_POLL_COMPONENTS is not set: both feeds are polled.
FeedsValue == [p \in Pollers |-> {"weather", "modeled_aq"}]
=============================================================================
