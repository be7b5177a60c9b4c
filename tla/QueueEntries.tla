---------------------------- MODULE QueueEntries ----------------------------
(***************************************************************************)
(* The entries of the reproduction queue (repro_queue.json), the order     *)
(* they are stored in, and what each operation makes of a queue it has     *)
(* loaded.                                                                 *)
(*                                                                         *)
(* The code stores deadlines and compares them with the clock; a deadline  *)
(* is modelled by the time left until it, which Aged lowers, and 0 is a    *)
(* deadline that has passed.                                               *)
(***************************************************************************)
EXTENDS Integers, Sequences, FiniteSets

CONSTANTS
    Sigs,            \* artifacts: (artifact_type, signature)
    Crashes,         \* those of type crash, the others are timeouts
    Workers,         \* ids of the processes running repro-worker
    Operators,       \* ids used by hand with repro-queue claim
    None,            \* no owner, no artifact
    LeaseTime,       \* lease_secs
    ReplayTime,      \* the longest a worker holds a claim before it finishes it
    BackoffBase,     \* base_secs of repro_queue_backoff_secs, by outcome
    BackoffCap,      \* attempts are clamped to 1..10 for the backoff
    AttemptsCap,     \* bound: attempts beyond it are not told apart
    MaxInterventions \* bound: deaths of workers and commands given by hand

Outcomes == {"failed", "timed_out", "succeeded", "other"}
WorkerOutcomes == Outcomes \ {"other"}
Holders == Workers \cup Operators

ASSUME QueueAssumption ==
    /\ Crashes \subseteq Sigs
    /\ None \notin Holders /\ Workers \cap Operators = {}
    /\ LeaseTime \in Nat \ {0} /\ ReplayTime \in Nat
    /\ BackoffBase \in [Outcomes \ {"succeeded"} -> Nat]
    /\ BackoffCap \in Nat \ {0} /\ AttemptsCap \in Nat \ {0}
    /\ MaxInterventions \in Nat

-----------------------------------------------------------------------------
(* Entries.                                                                *)

Entry == [attempts : 0..AttemptsCap, outcome : Outcomes \cup {"none"}, backoff : Nat,
          owner : Holders \cup {None}, lease : 0..LeaseTime]

Fresh == [attempts |-> 0, outcome |-> "none", backoff |-> 0,
          owner |-> None, lease |-> 0]

Leased(e) == e.owner # None /\ e.lease > 0
Resting(e) == e.backoff > 0
Claimable(e) == ~Leased(e) /\ ~Resting(e)

OutcomeRank(outcome) ==
    CASE outcome = "none" -> 0
      [] outcome = "timed_out" -> 2
      [] outcome = "succeeded" -> 3
      [] OTHER -> 1

Least(a, b) == IF a < b THEN a ELSE b

Backoff(outcome, attempts) ==
    IF outcome = "succeeded" THEN 0
    ELSE BackoffBase[outcome] * Least(attempts, BackoffCap)

(* apply_repro_queue_attempt_outcome                                       *)
Recorded(e, outcome) ==
    LET attempts == Least(e.attempts + 1, AttemptsCap)
    IN  [attempts |-> attempts, outcome |-> outcome,
         backoff |-> Backoff(outcome, attempts),
         owner |-> None, lease |-> 0]

Granted(e, h) == [e EXCEPT !.owner = h, !.lease = LeaseTime]

RetainedNever(e) == [e EXCEPT !.owner = None, !.lease = 0]   \* mutant: leases are dropped

(* retained_repro_queue_lease: a rebuild forgets an expired lease.         *)
Retained(e) == IF Leased(e) THEN e ELSE [e EXCEPT !.owner = None, !.lease = 0]

(* An entry when the clock has moved on.                                   *)
Aged(e) == [e EXCEPT !.lease = IF @ > 0 THEN @ - 1 ELSE 0,
                     !.backoff = IF @ > 0 THEN @ - 1 ELSE 0]

-----------------------------------------------------------------------------
(* The stored order.                                                       *)

Flag(b) == IF b THEN 1 ELSE 0

(* The criteria of sort_artifact_repro_queue_entries down to the type of   *)
(* the artifact, which outweighs the rest of its priority; the others only *)
(* break ties, and are left open.                                          *)
SortKey(s, e) ==
    <<Flag(Leased(e)), Flag(Resting(e)), e.backoff,
      Flag(OutcomeRank(e.outcome) = 3), Flag(e.attempts # 0),
      OutcomeRank(e.outcome), Flag(s \notin Crashes)>>

LexLess(a, b) ==
    \E i \in DOMAIN a : a[i] < b[i] /\ \A j \in 1..(i - 1) : a[j] = b[j]

(* All ways to store the entries in order.                                 *)
Sorted(entries) ==
    LET sigs == DOMAIN entries
        n == Cardinality(sigs)
        key == [s \in sigs |-> SortKey(s, entries[s])]
    IN  {[entries |-> entries, order |-> o] :
            o \in {f \in [1..n -> sigs] :
                     /\ \A s \in sigs : \E i \in 1..n : f[i] = s
                     /\ \A i \in 1..n : \A j \in 1..(i - 1) : ~LexLess(key[f[i]], key[f[j]])}}

(* The first entry of q, as stored, among sigs.                            *)
First(q, sigs) ==
    {q.order[i] : i \in {j \in DOMAIN q.order :
        q.order[j] \in sigs /\ \A k \in 1..(j - 1) : q.order[k] \notin sigs}}

-----------------------------------------------------------------------------
(* The operations, from a queue to the queues they may write.              *)

EmptyQueue == [entries |-> [s \in {} |-> Fresh], order |-> <<>>]

(* build_artifact_repro_queue                                              *)
Rebuilt(q, cat) ==
    Sorted([s \in cat |-> IF s \in DOMAIN q.entries THEN Retained(q.entries[s]) ELSE Fresh])

OfferedTried(q, h) ==   \* mutant: an entry without an outcome counts as leased
    First(q, {s \in DOMAIN q.entries : Claimable(q.entries[s]) /\ q.entries[s].attempts > 0})

(* What a claim may take: the artifact the holder has leased already, or   *)
(* the first that is neither leased nor resting.                           *)
Offered(q, h) ==
    LET own == {s \in DOMAIN q.entries : q.entries[s].owner = h /\ Leased(q.entries[s])}
        free == {s \in DOMAIN q.entries : Claimable(q.entries[s])}
    IN  IF own # {} THEN First(q, own) ELSE First(q, free)

Claimed(q, h, s) == Sorted([q.entries EXCEPT ![s] = Granted(@, h)])
Finished(q, s, outcome) == Sorted([q.entries EXCEPT ![s] = Recorded(@, outcome)])
Freed(q, s) == Sorted([q.entries EXCEPT ![s].owner = None, ![s].lease = 0])

-----------------------------------------------------------------------------
(* What the commands show of a queue.                                      *)

(* summarize_artifact_repro_queue_entries                                  *)
SummaryOfLeases(entries) ==   \* mutant: what rests counts as claimable
    [total |-> Cardinality(DOMAIN entries),
     claimable |-> Cardinality({s \in DOMAIN entries : ~Leased(entries[s])}),
     leased |-> Cardinality({s \in DOMAIN entries : Leased(entries[s])}),
     backed_off |-> Cardinality({s \in DOMAIN entries : Resting(entries[s])}),
     by_outcome |-> [rank \in 1 .. 3 |->
         Cardinality({s \in DOMAIN entries : OutcomeRank(entries[s].outcome) = rank})]]
Summary(entries) ==
    [total |-> Cardinality(DOMAIN entries),
     claimable |-> Cardinality({s \in DOMAIN entries : Claimable(entries[s])}),
     leased |-> Cardinality({s \in DOMAIN entries : Leased(entries[s])}),
     backed_off |-> Cardinality({s \in DOMAIN entries : Resting(entries[s])}),
     by_outcome |-> [rank \in 1 .. 3 |->
         Cardinality({s \in DOMAIN entries : OutcomeRank(entries[s].outcome) = rank})]]

(* materialize_repro_queue_entries: expired leases go, and the entries are *)
(* sorted anew.                                                            *)
Materialized(q) == Sorted([s \in DOMAIN q.entries |-> Retained(q.entries[s])])

(* peek_repro_queue_entry                                                  *)
Peeked(q) ==
    UNION {First(m, {s \in DOMAIN m.entries : m.entries[s].owner = None /\ ~Resting(m.entries[s])})
              : m \in Materialized(q)}

(* load_repro_queue_snapshot: the first entries, all if limit is 0.        *)
Shown(q, limit) ==
    {IF limit = 0 \/ Len(m.order) <= limit THEN m.order ELSE SubSeq(m.order, 1, limit) : m \in Materialized(q)}

-----------------------------------------------------------------------------
OwnsEarly(q, h, s) ==   \* mutant: the last moment of a lease does not count
    s \in DOMAIN q.entries /\ q.entries[s].owner = h /\ q.entries[s].lease > 1

(* requeue and release succeed for the owner on record only, whether its   *)
(* lease has expired or not.                                               *)
Owns(q, h, s) == s \in DOMAIN q.entries /\ q.entries[s].owner = h
=============================================================================
