---------------------------- MODULE MCArtifacts -----------------------------
(***************************************************************************)
(* From the console of a VM to what is on file of a crash or timeout, on   *)
(* small instances.  The parts do not share state; a behaviour is about    *)
(* one of them, part, and the variables of the others stay as they are:    *)
(*   console   the buffer of a console that grows (Console)                *)
(*   titles    what a console or a title is named (Titles)                 *)
(*   artifacts the directory and the catalog entry (Artifacts)             *)
(*   rounds    the replays of repro-worker processes (ReproWorker): two of *)
(*             them, and two rounds between them                           *)
(*   again     the same with three rounds of one of them, so that an       *)
(*             artifact is filed, its backoff passes, and it is filed      *)
(*             again                                                       *)
(***************************************************************************)
EXTENDS ReproWorker, Console, Artifacts, Titles

CONSTANTS
    w1, w2, c1, c2, oops, stall

ASSUME ArtifactsAssumption

VARIABLE part

MCSigs == {c1, c2}
MCCrashes == {oops}
MCTimeouts == {stall}
MCBackoffBase == [o \in Outcomes \ {"succeeded"} |-> 1]

-----------------------------------------------------------------------------
Time(n) == [kind |-> "time", value |-> n]
Level == [kind |-> "level", value |-> 3]
Task == [kind |-> "task", value |-> 1]

MCLines ==
    {[marks |-> <<Level, Time(1)>>, needles |-> {}],
     [marks |-> <<Time(1)>>, needles |-> {"kasan", "initialized"}],
     [marks |-> <<Time(1)>>, needles |-> {"kasan", "bug"}],
     [marks |-> <<Time(2)>>, needles |-> {"kasan", "bug"}],
     [marks |-> <<Time(2)>>, needles |-> {"kernel_panic"}],
     [marks |-> <<Level, Time(1), Task>>, needles |-> {"bug", "bug_soft_lockup"}],
     [marks |-> <<>>, needles |-> {"rip"}],
     [marks |-> <<Time(2)>>, needles |-> {"call_trace"}]}

-----------------------------------------------------------------------------
MCInit ==
    /\ part \in {"console", "titles", "artifacts", "rounds", "again"}
    /\ Init /\ ConsoleInit /\ TitlesInit /\ FilingInit
    /\ part \in {"rounds", "again"} \/ queue.order = <<c1, c2>>

MCNext ==
    /\ part' = part
    /\ \/ /\ part = "console" /\ ConsoleNext
          /\ UNCHANGED <<vars, titlesVars, filingVars>>
       \/ /\ part = "titles" /\ TitlesNext
          /\ UNCHANGED <<vars, consoleVars, filingVars>>
       \/ /\ part = "artifacts" /\ FilingNext
          /\ UNCHANGED <<vars, consoleVars, titlesVars>>
       \/ /\ \/ part = "rounds" /\ Next /\ rounds' <= 2
             \/ part = "again" /\ Next /\ round'[w2] = None
          /\ UNCHANGED <<consoleVars, titlesVars, filingVars>>

MCSpec == MCInit /\ [][MCNext]_<<part, vars, consoleVars, titlesVars, filingVars>>

-----------------------------------------------------------------------------
(* What readers are led to never goes back: the contents of the paths the  *)
(* catalog prefers stay, and the latest result is of a later attempt.      *)
ReadersAreNotLedBack ==
    [][/\ part = "artifacts" => PreferredStays
       /\ part \in {"rounds", "again"} => LatestGoesForward
      ]_<<vars, filingVars>>
=============================================================================
