------------------------------ MODULE MCWorker ------------------------------
(* Values for the constants of Worker. *)
EXTENDS Worker

\* Two components with different periods.
IntervalValue == [c \in Components |-> IF c = "openaq" THEN 2 ELSE 3]
=============================================================================
