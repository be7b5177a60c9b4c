------------------------------- MODULE Corpus -------------------------------
(***************************************************************************)
(* The corpus: the programs that produced new coverage signal, all signal  *)
(* seen, and the part of it not handed to the executor yet.  Programs are  *)
(* told apart by their stable key, so the list of them is a set; a zero in *)
(* an answer is no signal and is left out.                                 *)
(***************************************************************************)
CONSTANTS Programs, Signals

Corpora == [programs : SUBSET Programs, signal : SUBSET Signals, fresh : SUBSET Signals]
Snapshots == [programs : SUBSET Programs, signal : SUBSET Signals]

NewCorpus == [programs |-> {}, signal |-> {}, fresh |-> {}]

HasNew(c, signal) == ~(signal \subseteq c.signal)

AddedUnsent(c, p, signal) ==   \* mutant: signal of a program that is listed already is not passed on
    [programs |-> IF HasNew(c, signal) THEN c.programs \cup {p} ELSE c.programs,
     signal |-> c.signal \cup signal,
     fresh |-> IF p \in c.programs THEN c.fresh ELSE c.fresh \cup (signal \ c.signal)]

(* add_result: a program is kept if it produced new signal.                *)
Added(c, p, signal) ==
    [programs |-> IF HasNew(c, signal) THEN c.programs \cup {p} ELSE c.programs,
     signal |-> c.signal \cup signal,
     fresh |-> c.fresh \cup (signal \ c.signal)]

(* take_new_signal                                                         *)
Taken(c) == [c EXCEPT !.fresh = {}]

SnapshotDelta(c) ==   \* mutant: only the new signal is written
    [programs |-> c.programs, signal |-> c.fresh]

(* What save writes, to a temporary file that is then renamed.             *)
Snapshot(c) == [programs |-> c.programs, signal |-> c.signal]

(* load: a program the descriptions no longer validate is skipped, its     *)
(* signal is not.                                                          *)
Loaded(snapshot, valid) ==
    [programs |-> snapshot.programs \cap valid, signal |-> snapshot.signal, fresh |-> {}]
=============================================================================
