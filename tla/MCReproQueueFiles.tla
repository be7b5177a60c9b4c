------------------------- MODULE MCReproQueueFiles -------------------------
(* ReproQueueFiles with one or two artifacts, two workers and a manager.   *)
EXTENDS ReproQueueFiles

(* Whatever the outcome, the entry rests for one unit of time.             *)
MCBackoffBase == [outcome \in Outcomes \ {"succeeded"} |-> 1]
=============================================================================
