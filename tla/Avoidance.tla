----------------------------- MODULE Avoidance -----------------------------
(***************************************************************************)
(* Learned timeout avoidance: the failure tables the manager keeps per     *)
(* timeout-prone syscall and per pair of consecutive timeout-prone         *)
(* syscalls, the sets it blocks from them, their decay, and the snapshot   *)
(* avoidance.json they survive a restart in.                               *)
(*                                                                         *)
(* src/avoidance.rs keeps two maps for edges and two for syscalls and      *)
(* treats both alike; here each is a function over Kind.  A key that is    *)
(* absent from a map is absent from the function's domain.                 *)
(***************************************************************************)
EXTENDS Integers, Sequences, FiniteSets

CONSTANTS
    Programs,          \* programs the fuzzer may produce
    Calls,             \* Calls[p]: the syscalls of p in order, also its shape key
    TimeoutProne,      \* syscalls for which syscall_is_timeout_prone holds
    EdgeThreshold,     \* TIMEOUT_SYSCALL_EDGE_BLOCK_THRESHOLD
    SyscallThreshold,  \* TIMEOUT_SYSCALL_BLOCK_THRESHOLD
    ShapeThreshold,    \* PROGRAM_SHAPE_BLOCK_THRESHOLD
    DecayInterval,     \* AVOIDANCE_DECAY_INTERVAL
    MaxDecay,          \* AVOIDANCE_MAX_DECAY_AMOUNT
    CompactIdle,       \* AVOIDANCE_COMPACT_IDLE_EPOCHS
    MaxWeak,           \* AVOIDANCE_MAX_PERSISTED_WEAK_EDGES and _SYSCALLS
    LegacyFailures     \* failure tables a snapshot of an earlier run may hold

ASSUME ThresholdAssumption ==
    /\ EdgeThreshold \in Nat \ {0}
    /\ SyscallThreshold \in Nat \ {0}
    /\ ShapeThreshold \in Nat \ {0}

ASSUME DecayAssumption ==
    /\ DecayInterval \in Nat \ {0}
    /\ MaxDecay \in Nat \ {0}
    /\ CompactIdle \in Nat
    /\ MaxWeak \in Nat

Kind == {"edge", "syscall"}
Threshold == [kind \in Kind |-> IF kind = "edge" THEN EdgeThreshold ELSE SyscallThreshold]

(* A failure table of an earlier run: per kind a map from keys to counts.  *)
ASSUME LegacyAssumption ==
    \A f \in LegacyFailures :
        \A kind \in Kind : \A k \in DOMAIN f[kind] : f[kind][k] \in Nat

VARIABLES
    failures,        \* timeout_{edge,syscall}_failures
    lastEpoch,       \* timeout_{edge,syscall}_last_failure_epoch
    blocked,         \* blocked_timeout_{edges,syscalls}
    epoch,           \* avoidance_learning_epoch
    streak,          \* successful_execs_since_decay
    blockedPrograms, \* blocked_programs, never persisted
    shapeFailures,   \* shape_failures, never persisted
    blockedShapes,   \* blocked_shapes, never persisted
    snapshot,        \* what avoidance.json holds
    running,         \* the manager process is alive
    synced           \* history: the last load or save of this process succeeded

vars == <<failures, lastEpoch, blocked, epoch, streak, blockedPrograms,
          shapeFailures, blockedShapes, snapshot, running, synced>>

-----------------------------------------------------------------------------
(* What a program exercises.                                               *)

ProneCalls(p) == SelectSeq(Calls[p], LAMBDA s : s \in TimeoutProne)

(* timeout_prone_syscalls_in_program and timeout_prone_edges_in_program:   *)
(* an edge joins neighbours in the sequence of timeout-prone calls.        *)
KeysOf(p) ==
    LET prone == ProneCalls(p)
    IN  [kind \in Kind |->
            IF kind = "syscall"
            THEN {prone[i] : i \in 1..Len(prone)}
            ELSE {<<prone[i], prone[i + 1]>> : i \in 1..(Len(prone) - 1)}]

(* The four skips of the fuzz loop, in one guard.                          *)
Skipped(p) ==
    \/ p \in blockedPrograms
    \/ Calls[p] \in blockedShapes
    \/ \E kind \in Kind : KeysOf(p)[kind] \cap blocked[kind] # {}

-----------------------------------------------------------------------------
(* Operations on one map f of failure counts with its map l of epochs.     *)

BlockedKeys(f, threshold) == {k \in DOMAIN f : f[k] >= threshold}

OnlyAll(f, keys) == f   \* mutant: what goes with a dropped key is kept

Only(f, keys) == [k \in keys |-> f[k]]

LastEpochOf(l, k, e) == IF k \in DOMAIN l THEN l[k] ELSE e

(* learning_epoch.saturating_sub(last_epoch)                               *)
Idle(l, k, e) == IF LastEpochOf(l, k, e) > e THEN 0 ELSE e - LastEpochOf(l, k, e)

NotedCounts(f, keys) ==
    [k \in DOMAIN f \cup keys |->
        IF k \notin keys THEN f[k]
        ELSE IF k \in DOMAIN f THEN f[k] + 1 ELSE 1]

NotedEpochs(l, keys, e) ==
    [k \in DOMAIN l \cup keys |-> IF k \in keys THEN e ELSE l[k]]

BlockedAnew(b, f, keys, threshold) ==   \* mutant: only what failed now stays blocked
    {k \in keys : f[k] >= threshold}

BlockedAfter(b, f, keys, threshold) == b \cup {k \in keys : f[k] >= threshold}

GradedDecay(idle) ==
    LET tiers == 1 + (idle - DecayInterval) \div DecayInterval
    IN  IF idle < DecayInterval THEN 0
        ELSE IF tiers < MaxDecay THEN tiers ELSE MaxDecay

DecayedKeys(f, l, e) ==
    {k \in DOMAIN f : GradedDecay(Idle(l, k, e)) = 0 \/ f[k] > GradedDecay(Idle(l, k, e))}

DecayedCounts(f, l, e) ==
    [k \in DecayedKeys(f, l, e) |-> f[k] - GradedDecay(Idle(l, k, e))]

SomethingDecays(e) ==
    \E kind \in Kind : \E k \in DOMAIN failures[kind] :
        GradedDecay(Idle(lastEpoch[kind], k, e)) > 0

CompactedKeysByAge(f, l, e, threshold) ==   \* mutant: strong entries are dropped too
    {k \in DOMAIN f : Idle(l, k, e) < CompactIdle}

(* compact_failure_counts: weak entries that have been idle are dropped.   *)
CompactedKeys(f, l, e, threshold) ==
    {k \in DOMAIN f : f[k] >= threshold \/ Idle(l, k, e) < CompactIdle}

(* The order prune_weak_failure_counts sorts by; the last tie break, by    *)
(* key, is left open, so that every order of the names is covered.         *)
Outranks(f, l, e, j, k) ==
    \/ f[j] > f[k]
    \/ f[j] = f[k] /\ LastEpochOf(l, j, e) > LastEpochOf(l, k, e)

(* prune_weak_failure_counts: the sets of keys it may keep.                *)
PrunedKeys(f, l, e, threshold) ==
    LET weak == {k \in DOMAIN f : f[k] < threshold}
    IN  IF Cardinality(weak) <= MaxWeak THEN {DOMAIN f}
        ELSE {BlockedKeys(f, threshold) \cup kept :
                kept \in {best \in SUBSET weak :
                            /\ Cardinality(best) = MaxWeak
                            /\ \A j \in best, k \in weak \ best :
                                  ~Outranks(f, l, e, k, j)}}

-----------------------------------------------------------------------------
(* The snapshot.                                                           *)

Contents(f, l, e) == [epoch |-> e, failures |-> f, last |-> l]

NoFailures == [kind \in Kind |-> <<>>]
NewState == Contents(NoFailures, NoFailures, 0)

(* compact_avoidance_state: compact, then prune; sets, as PrunedKeys is.   *)
KeptKeys(s, kind) ==
    LET compacted == CompactedKeys(s.failures[kind], s.last[kind], s.epoch, Threshold[kind])
    IN  PrunedKeys(Only(s.failures[kind], compacted), Only(s.last[kind], compacted),
                   s.epoch, Threshold[kind])

Restricted(s, edges, syscalls) ==
    LET keep == [kind \in Kind |-> IF kind = "edge" THEN edges ELSE syscalls]
    IN  Contents([kind \in Kind |-> Only(s.failures[kind], keep[kind])],
                 [kind \in Kind |-> Only(s.last[kind], keep[kind])],
                 s.epoch)

Compactions(s) ==
    {Restricted(s, edges, syscalls) :
        edges \in KeptKeys(s, "edge"), syscalls \in KeptKeys(s, "syscall")}

(* AvoidanceState::load: zero counts are dropped, a key without an epoch   *)
(* gets the snapshot's own, an epoch without a key is dropped.             *)
Loaded(s) ==
    LET keys(kind) == {k \in DOMAIN s.failures[kind] : s.failures[kind][k] > 0}
    IN  Contents([kind \in Kind |-> Only(s.failures[kind], keys(kind))],
                 [kind \in Kind |-> [k \in keys(kind) |-> LastEpochOf(s.last[kind], k, s.epoch)]],
                 s.epoch)

(* save_avoidance_state: a compacted copy goes to a temporary file that is *)
(* renamed over the snapshot.  The write or the rename may fail, or the    *)
(* process may die before the rename: the old snapshot then stays whole.   *)
Save(f, l, e) ==
    \/ /\ snapshot' \in Compactions(Contents(f, l, e))
       /\ synced' = TRUE
    \/ /\ UNCHANGED snapshot
       /\ synced' = FALSE

-----------------------------------------------------------------------------
(* A run starts with no snapshot or with one of an earlier version, which  *)
(* has no epochs.                                                          *)
Init ==
    /\ failures = NoFailures /\ lastEpoch = NoFailures /\ epoch = 0
    /\ blocked = [kind \in Kind |-> {}]
    /\ streak = 0
    /\ blockedPrograms = {} /\ shapeFailures = <<>> /\ blockedShapes = {}
    /\ snapshot \in {NewState} \cup {Contents(f, NoFailures, 0) : f \in LegacyFailures}
    /\ running = FALSE
    /\ synced = FALSE

Adopt(s) ==
    /\ failures' = s.failures
    /\ lastEpoch' = s.last
    /\ epoch' = s.epoch
    /\ blocked' = [kind \in Kind |-> BlockedKeys(s.failures[kind], Threshold[kind])]

(* The manager starts: it loads and compacts the snapshot, and writes it   *)
(* back when compaction dropped something.  A failed load counts as an     *)
(* empty state.                                                            *)
Start ==
    /\ ~running
    /\ running' = TRUE
    /\ streak' = 0
    /\ blockedPrograms' = {} /\ shapeFailures' = <<>> /\ blockedShapes' = {}
    /\ \/ \E s \in Compactions(Loaded(snapshot)) :
            /\ Adopt(s)
            /\ synced' = TRUE
            /\ \/ s # Loaded(snapshot) /\ snapshot' = s
               \/ UNCHANGED snapshot
       \/ /\ Adopt(NewState)
          /\ synced' = FALSE
          /\ UNCHANGED snapshot

(* A request timed out, its executor stalled in retries, or its result     *)
(* reports a hang: all three teach the same.                               *)
Fails(p) ==
    /\ running /\ ~Skipped(p)
    /\ epoch' = epoch + 1
    /\ streak' = 0
    /\ blockedPrograms' = blockedPrograms \cup {p}
    /\ shapeFailures' = NotedCounts(shapeFailures, {Calls[p]})
    /\ blockedShapes' = BlockedAfter(blockedShapes, shapeFailures', {Calls[p]}, ShapeThreshold)
    /\ failures' = [kind \in Kind |-> NotedCounts(failures[kind], KeysOf(p)[kind])]
    /\ lastEpoch' = [kind \in Kind |-> NotedEpochs(lastEpoch[kind], KeysOf(p)[kind], epoch')]
    /\ blocked' = [kind \in Kind |->
          BlockedAfter(blocked[kind], failures'[kind], KeysOf(p)[kind], Threshold[kind])]
    /\ Save(failures', lastEpoch', epoch')
    /\ UNCHANGED running

DecayTickStaleSets ==   \* mutant: the blocked sets are not recomputed
    /\ streak' = 0
    /\ failures' = [kind \in Kind |-> DecayedCounts(failures[kind], lastEpoch[kind], epoch')]
    /\ lastEpoch' = [kind \in Kind |-> Only(lastEpoch[kind], DOMAIN failures'[kind])]
    /\ Save(failures', lastEpoch', epoch')
    /\ UNCHANGED blocked

(* A result that reports no hang.  Every DecayInterval of them in a row    *)
(* cool the entries that have been idle.                                   *)
DecayTick ==
    /\ streak' = 0
    /\ IF SomethingDecays(epoch')
       THEN /\ failures' = [kind \in Kind |->
                   DecayedCounts(failures[kind], lastEpoch[kind], epoch')]
            /\ lastEpoch' = [kind \in Kind |->
                   Only(lastEpoch[kind], DOMAIN failures'[kind])]
            /\ blocked' = [kind \in Kind |-> BlockedKeys(failures'[kind], Threshold[kind])]
            /\ Save(failures', lastEpoch', epoch')
       ELSE UNCHANGED <<failures, lastEpoch, blocked, snapshot, synced>>

Succeeds(p) ==
    /\ running /\ ~Skipped(p)
    /\ epoch' = epoch + 1
    /\ IF streak + 1 < DecayInterval
       THEN /\ streak' = streak + 1
            /\ UNCHANGED <<failures, lastEpoch, blocked, snapshot, synced>>
       ELSE DecayTick
    /\ UNCHANGED <<blockedPrograms, shapeFailures, blockedShapes, running>>

(* run_instance returned an error: the manager resets the streak.          *)
InstanceFails ==
    /\ running
    /\ streak' = 0
    /\ UNCHANGED <<failures, lastEpoch, blocked, epoch, blockedPrograms,
                   shapeFailures, blockedShapes, snapshot, running, synced>>

(* The process ends or is killed: only the snapshot remains.               *)
Stop ==
    /\ running
    /\ running' = FALSE
    /\ synced' = FALSE
    /\ Adopt(NewState)
    /\ streak' = 0
    /\ blockedPrograms' = {} /\ shapeFailures' = <<>> /\ blockedShapes' = {}
    /\ UNCHANGED snapshot

Next ==
    \/ Start
    \/ \E p \in Programs : Fails(p) \/ Succeeds(p)
    \/ InstanceFails
    \/ Stop

Spec == Init /\ [][Next]_vars

-----------------------------------------------------------------------------
IsTable(f) == \A kind \in Kind : \A k \in DOMAIN f[kind] : f[kind][k] \in Nat

(* Type invariant; no failure map ever holds a zero count.                 *)
TypeOK ==
    /\ IsTable(failures) /\ IsTable(lastEpoch)
    /\ \A kind \in Kind : \A k \in DOMAIN failures[kind] : failures[kind][k] > 0
    /\ epoch \in Nat /\ streak \in 0..(DecayInterval - 1)
    /\ \A s \in DOMAIN shapeFailures : shapeFailures[s] \in Nat
    /\ snapshot.epoch \in Nat /\ IsTable(snapshot.failures) /\ IsTable(snapshot.last)
    /\ running \in BOOLEAN /\ synced \in BOOLEAN

(* The blocked sets are maintained piecemeal, by insertion when a failure  *)
(* is noted and by recomputation when entries cool, and shapes only by     *)
(* insertion: they always are the keys at or above their threshold.        *)
BlockedMatchesFailures ==
    /\ \A kind \in Kind : blocked[kind] = BlockedKeys(failures[kind], Threshold[kind])
    /\ blockedShapes = BlockedKeys(shapeFailures, ShapeThreshold)

(* The two maps of a kind are updated apart, by five functions: they hold  *)
(* the same keys, and no failure lies in the future, so that an idle time  *)
(* is never the zero of a saturated subtraction.                           *)
EpochsMatchFailures ==
    \A kind \in Kind :
        /\ DOMAIN lastEpoch[kind] = DOMAIN failures[kind]
        /\ \A k \in DOMAIN lastEpoch[kind] : lastEpoch[kind][k] <= epoch

(* Whatever compaction and pruning leave out of the snapshot, a restart    *)
(* that loads it blocks exactly the keys that are blocked now.             *)
RestartBlocksTheSame ==
    synced => \A s \in Compactions(Loaded(snapshot)) : \A kind \in Kind :
                  BlockedKeys(s.failures[kind], Threshold[kind]) = blocked[kind]

(* Executions since the last save are forgotten by a restart.  An entry    *)
(* that survives one never looks idle for longer than it has been, and     *)
(* keeps its count.                                                        *)
RestartNeverAges ==
    synced => \A s \in Compactions(Loaded(snapshot)) : \A kind \in Kind :
        \A k \in DOMAIN s.failures[kind] \cap DOMAIN failures[kind] :
            /\ Idle(s.last[kind], k, s.epoch) <= Idle(lastEpoch[kind], k, epoch)
            /\ s.failures[kind][k] = failures[kind][k]

(* A restart from the last snapshot goes on as if there had been none.     *)
RestartIsFaithful == RestartBlocksTheSame /\ RestartNeverAges

(* While the process lives, a blocked key is released only when it has not *)
(* failed for DecayInterval learning epochs, whatever failed meanwhile.    *)
ReleaseNeedsIdle ==
    [][running /\ running' =>
          \A kind \in Kind : \A k \in blocked[kind] \ blocked'[kind] :
              epoch' - lastEpoch[kind][k] >= DecayInterval]_vars
=============================================================================
