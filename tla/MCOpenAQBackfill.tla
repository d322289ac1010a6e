-------------------------- MODULE MCOpenAQBackfill --------------------------
(* Values for the constants of OpenAQBackfill. *)
EXTENDS OpenAQBackfill, TLC

CONSTANTS s1, s2, s3

LocationsValue == <<"l1">>
LocationValue == [s \in Located |-> "l1"]

\* One sensor has a reading on one day; the other sensor and the other day have none.
ReadingValue == {<<s1, 0, 0>>}

\* Two sensors of one location, or one with a sensor that has none.
TargetsValue == {{s1, s2}, {s1, s3}}

\* Runs do the same work.
RunSymmetry == Permutations(Runs)
=============================================================================
