---------------------------- MODULE MCReproQueue ----------------------------
(* ReproQueue with two artifacts, two workers and one operator.            *)
EXTENDS ReproQueue

CONSTANTS c1, t1        \* a crash and a timeout artifact

MCSigs == {c1, t1}
MCCrashes == {c1}

(* The ratio of the backoffs of a failure and a timeout, scaled down.      *)
MCBackoffBase == [outcome \in Outcomes \ {"succeeded"} |-> IF outcome = "timed_out" THEN 2 ELSE 1]
=============================================================================
