-------------------------- MODULE AvoidanceProofs --------------------------
(***************************************************************************)
(* Proofs about Avoidance, for every value of its constants: the inductive *)
(* invariant behind the consistency of the learned state, what compaction  *)
(* may leave out of the snapshot, and when a blocked key is released.      *)
(***************************************************************************)
EXTENDS Avoidance, TLAPS

-----------------------------------------------------------------------------
(* The thresholds are positive, so that no key is blocked without failing. *)
LEMMA ThresholdType == \A kind \in Kind : Threshold[kind] \in Nat \ {0}
BY ThresholdAssumption DEF Kind, Threshold

(* Whatever a compaction drops, it drops no blocked key, and it alters     *)
(* neither the count nor the epoch of a key that it keeps.                 *)
LEMMA CompactionKeepsBlocked ==
    ASSUME NEW s, NEW c \in Compactions(s), NEW kind \in Kind
    PROVE  /\ c.epoch = s.epoch
           /\ DOMAIN c.failures[kind] \subseteq DOMAIN s.failures[kind]
           /\ DOMAIN c.last[kind] = DOMAIN c.failures[kind]
           /\ \A k \in DOMAIN c.failures[kind] :
                 /\ c.failures[kind][k] = s.failures[kind][k]
                 /\ c.last[kind][k] = s.last[kind][k]
           /\ BlockedKeys(c.failures[kind], Threshold[kind])
                 = BlockedKeys(s.failures[kind], Threshold[kind])
  <1>1. PICK e \in KeptKeys(s, "edge"), y \in KeptKeys(s, "syscall") : c = Restricted(s, e, y)
    BY DEF Compactions
  <1> DEFINE sel == IF kind = "edge" THEN e ELSE y
             kept == CompactedKeys(s.failures[kind], s.last[kind], s.epoch, Threshold[kind])
             f == Only(s.failures[kind], kept)
             l == Only(s.last[kind], kept)
  <1>2. /\ c.epoch = s.epoch
        /\ c.failures[kind] = Only(s.failures[kind], sel)
        /\ c.last[kind] = Only(s.last[kind], sel)
    BY <1>1 DEF Contents, Restricted
  <1>3. sel \in PrunedKeys(f, l, s.epoch, Threshold[kind])
    BY DEF Kind, KeptKeys
  <1>4. /\ kept \subseteq DOMAIN s.failures[kind]
        /\ BlockedKeys(s.failures[kind], Threshold[kind]) \subseteq kept
    BY DEF CompactedKeys, BlockedKeys
  <1>5. DOMAIN f = kept /\ \A k \in kept : f[k] = s.failures[kind][k]
    BY DEF Only
  <1> HIDE DEF sel, kept, f, l
  <1>6. sel \subseteq kept /\ BlockedKeys(f, Threshold[kind]) \subseteq sel
    BY <1>3, <1>5 DEF PrunedKeys, BlockedKeys
  <1>7. BlockedKeys(f, Threshold[kind]) = BlockedKeys(s.failures[kind], Threshold[kind])
    BY <1>4, <1>5 DEF BlockedKeys
  <1>8. /\ DOMAIN c.failures[kind] = sel
        /\ DOMAIN c.last[kind] = sel
        /\ \A k \in sel : /\ c.failures[kind][k] = s.failures[kind][k]
                          /\ c.last[kind][k] = s.last[kind][k]
    BY <1>2 DEF Only
  <1>9. BlockedKeys(c.failures[kind], Threshold[kind])
           = BlockedKeys(s.failures[kind], Threshold[kind])
    BY <1>4, <1>6, <1>7, <1>8 DEF BlockedKeys
  <1> QED
    BY <1>2, <1>4, <1>6, <1>8, <1>9

(* Loading changes no count, epoch or blocked key of a snapshot.           *)
LEMMA LoadingKeepsBlocked ==
    ASSUME NEW s, NEW kind \in Kind,
           IsTable(s.failures)
    PROVE  /\ Loaded(s).epoch = s.epoch
           /\ DOMAIN Loaded(s).failures[kind] = {k \in DOMAIN s.failures[kind] : s.failures[kind][k] > 0}
           /\ DOMAIN Loaded(s).last[kind] = DOMAIN Loaded(s).failures[kind]
           /\ \A k \in DOMAIN Loaded(s).failures[kind] :
                 /\ Loaded(s).failures[kind][k] = s.failures[kind][k]
                 /\ Loaded(s).last[kind][k] = LastEpochOf(s.last[kind], k, s.epoch)
           /\ BlockedKeys(Loaded(s).failures[kind], Threshold[kind])
                 = BlockedKeys(s.failures[kind], Threshold[kind])
  <1> DEFINE keys(d) == {k \in DOMAIN s.failures[d] : s.failures[d][k] > 0}
  <1>1. /\ Loaded(s).epoch = s.epoch
        /\ Loaded(s).failures[kind] = Only(s.failures[kind], keys(kind))
        /\ Loaded(s).last[kind] = [k \in keys(kind) |-> LastEpochOf(s.last[kind], k, s.epoch)]
    BY DEF Loaded, Contents
  <1>2. \A k \in DOMAIN s.failures[kind] : s.failures[kind][k] \in Nat
    BY DEF IsTable
  <1>3. Threshold[kind] \in Nat \ {0}
    BY ThresholdType
  <1>4. BlockedKeys(Only(s.failures[kind], keys(kind)), Threshold[kind])
           = BlockedKeys(s.failures[kind], Threshold[kind])
    BY <1>2, <1>3 DEF BlockedKeys, Only
  <1> QED
    BY <1>1, <1>4 DEF Only

LEMMA GradedDecayType ==
    ASSUME NEW idle \in Nat
    PROVE  /\ GradedDecay(idle) \in Nat
           /\ GradedDecay(idle) > 0 => idle >= DecayInterval
  <1>1. CASE idle < DecayInterval
    BY <1>1 DEF GradedDecay
  <1>2. CASE ~(idle < DecayInterval)
    <2>1. (idle - DecayInterval) \div DecayInterval \in Nat
      BY <1>2, DecayAssumption
    <2> QED
      BY <1>2, <2>1, DecayAssumption DEF GradedDecay
  <1> QED
    BY <1>1, <1>2

LEMMA IdleType ==
    ASSUME NEW l, NEW k, NEW e \in Nat, LastEpochOf(l, k, e) \in Nat
    PROVE  Idle(l, k, e) \in Nat
BY DEF Idle

-----------------------------------------------------------------------------
(* What the snapshot owes to the state it was saved from: compaction only  *)
(* left entries out, and executions since then only advanced the epoch.    *)
SnapshotAgrees ==
    /\ \A kind \in Kind : \A k \in DOMAIN snapshot.last[kind] :
          snapshot.last[kind][k] <= snapshot.epoch
    /\ synced =>
          /\ snapshot.epoch <= epoch
          /\ \A kind \in Kind :
                /\ BlockedKeys(snapshot.failures[kind], Threshold[kind]) = blocked[kind]
                /\ \A k \in DOMAIN snapshot.failures[kind] \cap DOMAIN failures[kind] :
                      /\ snapshot.failures[kind][k] = failures[kind][k]
                      /\ LastEpochOf(snapshot.last[kind], k, snapshot.epoch)
                            = lastEpoch[kind][k]

IInv ==
    /\ TypeOK
    /\ BlockedMatchesFailures
    /\ EpochsMatchFailures
    /\ SnapshotAgrees

LEMMA InitIInv == Init => IInv
  <1> SUFFICES ASSUME Init PROVE IInv
    OBVIOUS
  <1> USE DEF Init, NoFailures, NewState, Contents
  <1>1. PICK f : /\ IsTable(f)
                 /\ snapshot = [epoch |-> 0, failures |-> f, last |-> [kind \in Kind |-> <<>>]]
    <2>1. CASE snapshot = NewState
      <3>1. IsTable(NoFailures)
        BY DEF IsTable
      <3> QED
        BY <2>1, <3>1
    <2>2. CASE \E f \in LegacyFailures : snapshot = Contents(f, NoFailures, 0)
      BY <2>2, LegacyAssumption DEF IsTable
    <2> QED
      BY <2>1, <2>2
  <1>2. TypeOK
    <2>1. IsTable(NoFailures)
      BY DEF IsTable
    <2>2. \A kind \in Kind : \A k \in DOMAIN failures[kind] : failures[kind][k] > 0
      OBVIOUS
    <2>3. snapshot.epoch \in Nat /\ IsTable(snapshot.failures) /\ IsTable(snapshot.last)
      BY <1>1, <2>1
    <2>4. 0 \in 0..(DecayInterval - 1)
      BY DecayAssumption
    <2>5. \A s \in DOMAIN shapeFailures : shapeFailures[s] \in Nat
      OBVIOUS
    <2> QED
      BY <2>1, <2>2, <2>3, <2>4, <2>5 DEF TypeOK
  <1>3. BlockedMatchesFailures
    BY DEF BlockedMatchesFailures, BlockedKeys
  <1>4. EpochsMatchFailures
    BY DEF EpochsMatchFailures
  <1>5. SnapshotAgrees
    BY <1>1 DEF SnapshotAgrees
  <1> QED
    BY <1>2, <1>3, <1>4, <1>5 DEF IInv

-----------------------------------------------------------------------------
(* The type of the file, split from that of the memory.                    *)
SnapshotOK ==
    /\ snapshot.epoch \in Nat
    /\ IsTable(snapshot.failures)
    /\ IsTable(snapshot.last)
    /\ synced \in BOOLEAN

(* A save, successful or not, leaves a snapshot that agrees with the state *)
(* it was made from.                                                       *)
LEMMA SaveAgrees ==
    ASSUME SnapshotOK, SnapshotAgrees,
           Save(failures', lastEpoch', epoch'),
           IsTable(failures)', IsTable(lastEpoch)', epoch' \in Nat,
           BlockedMatchesFailures', EpochsMatchFailures'
    PROVE  SnapshotOK' /\ SnapshotAgrees'
  <1>1. CASE UNCHANGED snapshot /\ synced' = FALSE
    BY <1>1 DEF SnapshotOK, SnapshotAgrees
  <1>2. CASE /\ snapshot' \in Compactions(Contents(failures', lastEpoch', epoch'))
             /\ synced' = TRUE
    <2> DEFINE s == Contents(failures', lastEpoch', epoch')
    <2>1. s.failures = failures' /\ s.last = lastEpoch' /\ s.epoch = epoch'
      BY DEF Contents
    <2>2. \A kind \in Kind :
            /\ snapshot'.epoch = epoch'
            /\ DOMAIN snapshot'.failures[kind] \subseteq DOMAIN failures'[kind]
            /\ DOMAIN snapshot'.last[kind] = DOMAIN snapshot'.failures[kind]
            /\ \A k \in DOMAIN snapshot'.failures[kind] :
                  /\ snapshot'.failures[kind][k] = failures'[kind][k]
                  /\ snapshot'.last[kind][k] = lastEpoch'[kind][k]
            /\ BlockedKeys(snapshot'.failures[kind], Threshold[kind])
                  = BlockedKeys(failures'[kind], Threshold[kind])
      BY <1>2, <2>1, CompactionKeepsBlocked
    <2>3. snapshot'.epoch = epoch'
      BY <2>2 DEF Kind
    <2>4. \A kind \in Kind : DOMAIN lastEpoch'[kind] = DOMAIN failures'[kind]
      BY DEF EpochsMatchFailures
    <2>5. SnapshotOK'
      BY <1>2, <2>2, <2>3, <2>4 DEF SnapshotOK, IsTable
    <2>6. \A kind \in Kind : \A k \in DOMAIN snapshot'.last[kind] :
            snapshot'.last[kind][k] <= snapshot'.epoch
      BY <2>2, <2>3, <2>4 DEF EpochsMatchFailures
    <2>7. \A kind \in Kind :
            BlockedKeys(snapshot'.failures[kind], Threshold[kind]) = blocked'[kind]
      BY <2>2 DEF BlockedMatchesFailures
    <2>8. \A kind \in Kind : \A k \in DOMAIN snapshot'.failures[kind] :
            LastEpochOf(snapshot'.last[kind], k, snapshot'.epoch) = lastEpoch'[kind][k]
      BY <2>2 DEF LastEpochOf
    <2> QED
      BY <2>2, <2>3, <2>5, <2>6, <2>7, <2>8 DEF SnapshotAgrees
  <1> QED
    BY <1>1, <1>2 DEF Save

(* Counting a failure: the table stays a table, and keys and epochs keep   *)
(* in step.                                                                *)
LEMMA NotedType ==
    ASSUME NEW f, NEW keys, \A k \in DOMAIN f : f[k] \in Nat
    PROVE  /\ DOMAIN NotedCounts(f, keys) = DOMAIN f \cup keys
           /\ \A k \in DOMAIN f \cup keys : NotedCounts(f, keys)[k] \in Nat
           /\ \A k \in keys : NotedCounts(f, keys)[k] > 0
           /\ \A k \in DOMAIN f : NotedCounts(f, keys)[k] >= f[k]
           /\ \A k \in DOMAIN f \ keys : NotedCounts(f, keys)[k] = f[k]
BY DEF NotedCounts

(* Blocking on insertion agrees with recomputing the blocked set.          *)
LEMMA NotedBlocked ==
    ASSUME NEW f, NEW keys, NEW threshold \in Nat,
           \A k \in DOMAIN f : f[k] \in Nat
    PROVE  BlockedKeys(NotedCounts(f, keys), threshold)
              = BlockedKeys(f, threshold) \cup
                   {k \in keys : NotedCounts(f, keys)[k] >= threshold}
  <1> DEFINE g == NotedCounts(f, keys)
  <1>1. /\ DOMAIN g = DOMAIN f \cup keys
        /\ \A k \in DOMAIN g : g[k] \in Nat
        /\ \A k \in DOMAIN f : g[k] >= f[k]
        /\ \A k \in DOMAIN f \ keys : g[k] = f[k]
    BY NotedType
  <1> HIDE DEF g
  <1>2. \A k : k \in BlockedKeys(g, threshold)
                 <=> \/ k \in BlockedKeys(f, threshold)
                     \/ k \in keys /\ g[k] >= threshold
    BY <1>1 DEF BlockedKeys
  <1> QED
    BY <1>2 DEF g

(* Decay only lowers counts, drops those it would bring to zero, and does  *)
(* not touch a key that failed less than DecayInterval epochs ago.         *)
LEMMA DecayedType ==
    ASSUME NEW f, NEW l, NEW e \in Nat, DOMAIN l = DOMAIN f,
           \A k \in DOMAIN f : f[k] \in Nat /\ f[k] > 0 /\ l[k] \in Nat
    PROVE  /\ DOMAIN DecayedCounts(f, l, e) \subseteq DOMAIN f
           /\ \A k \in DOMAIN DecayedCounts(f, l, e) :
                 /\ DecayedCounts(f, l, e)[k] \in Nat
                 /\ DecayedCounts(f, l, e)[k] > 0
           /\ \A k \in DOMAIN f : Idle(l, k, e) < DecayInterval =>
                 /\ k \in DOMAIN DecayedCounts(f, l, e)
                 /\ DecayedCounts(f, l, e)[k] = f[k]
  <1> DEFINE d(k) == GradedDecay(Idle(l, k, e))
             g == DecayedCounts(f, l, e)
             keys == DecayedKeys(f, l, e)
  <1>1. DOMAIN g = keys /\ \A k \in keys : g[k] = f[k] - d(k)
    BY DEF DecayedCounts
  <1>2. \A k \in DOMAIN f : Idle(l, k, e) \in Nat
    BY IdleType DEF LastEpochOf
  <1>3. \A k \in DOMAIN f : d(k) \in Nat
    BY <1>2, GradedDecayType
  <1>4. \A k \in DOMAIN f : Idle(l, k, e) < DecayInterval => d(k) = 0
    BY <1>2, DecayAssumption DEF GradedDecay
  <1>5. /\ keys \subseteq DOMAIN f
        /\ \A k \in keys : d(k) = 0 \/ f[k] > d(k)
        /\ \A k \in DOMAIN f : d(k) = 0 => k \in keys
    BY DEF DecayedKeys
  <1> HIDE DEF d, g, keys
  <1>6. \A k \in keys : g[k] \in Nat /\ g[k] > 0
    <2> SUFFICES ASSUME NEW k \in keys
                 PROVE  g[k] \in Nat /\ g[k] > 0
      OBVIOUS
    <2>1. k \in DOMAIN f
      BY <1>5
    <2>2. f[k] \in Nat /\ f[k] > 0
      BY <2>1
    <2>3. d(k) \in Nat /\ (d(k) = 0 \/ f[k] > d(k)) /\ g[k] = f[k] - d(k)
      BY <1>1, <1>3, <1>5, <2>1
    <2> QED
      BY <2>2, <2>3
  <1>7. \A k \in DOMAIN f : Idle(l, k, e) < DecayInterval => k \in keys /\ g[k] = f[k]
    <2> SUFFICES ASSUME NEW k \in DOMAIN f, Idle(l, k, e) < DecayInterval
                 PROVE  k \in keys /\ g[k] = f[k]
      OBVIOUS
    <2>1. d(k) = 0
      BY <1>4
    <2>2. k \in keys /\ g[k] = f[k] - 0
      BY <1>1, <1>5, <2>1
    <2>3. f[k] \in Nat
      OBVIOUS
    <2> QED
      BY <2>2, <2>3
  <1> QED
    BY <1>1, <1>5, <1>6, <1>7 DEF g, keys

-----------------------------------------------------------------------------
LEMMA FailsIInv ==
    ASSUME IInv, NEW p, Fails(p)
    PROVE  IInv'
  <1> USE DEF IInv
  <1>1. /\ epoch' = epoch + 1 /\ epoch \in Nat /\ epoch' \in Nat
        /\ 0 \in 0..(DecayInterval - 1)
    BY DecayAssumption DEF TypeOK, Fails, BlockedAfter
  <1>2. \A kind \in Kind :
          /\ failures'[kind] = NotedCounts(failures[kind], KeysOf(p)[kind])
          /\ \A k \in DOMAIN failures[kind] : failures[kind][k] \in Nat /\ failures[kind][k] > 0
    BY DEF Fails, BlockedAfter, TypeOK, IsTable
  <1>3. \A kind \in Kind :
          /\ DOMAIN failures'[kind] = DOMAIN failures[kind] \cup KeysOf(p)[kind]
          /\ \A k \in DOMAIN failures'[kind] : failures'[kind][k] \in Nat /\ failures'[kind][k] > 0
    <2> SUFFICES ASSUME NEW kind \in Kind
                 PROVE  /\ DOMAIN failures'[kind] = DOMAIN failures[kind] \cup KeysOf(p)[kind]
                        /\ \A k \in DOMAIN failures'[kind] :
                              failures'[kind][k] \in Nat /\ failures'[kind][k] > 0
      OBVIOUS
    <2> DEFINE f == failures[kind]
               keys == KeysOf(p)[kind]
               g == NotedCounts(f, keys)
    <2>1. failures'[kind] = g
      BY <1>2
    <2>2. \A k \in DOMAIN f : f[k] \in Nat /\ f[k] > 0
      BY <1>2
    <2> HIDE DEF f, keys
    <2>3. /\ DOMAIN g = DOMAIN f \cup keys
          /\ \A k \in DOMAIN f \cup keys : g[k] \in Nat
          /\ \A k \in keys : g[k] > 0
          /\ \A k \in DOMAIN f : g[k] >= f[k]
      BY <2>2, NotedType
    <2> HIDE DEF g
    <2>4. \A k \in DOMAIN g : g[k] \in Nat /\ g[k] > 0
      BY <2>2, <2>3
    <2> QED
      BY <2>1, <2>3, <2>4 DEF f, keys
  <1>4. \A kind \in Kind :
          /\ DOMAIN lastEpoch'[kind] = DOMAIN lastEpoch[kind] \cup KeysOf(p)[kind]
          /\ \A k \in KeysOf(p)[kind] : lastEpoch'[kind][k] = epoch'
          /\ \A k \in DOMAIN lastEpoch[kind] \ KeysOf(p)[kind] :
                lastEpoch'[kind][k] = lastEpoch[kind][k]
    BY DEF Fails, BlockedAfter, NotedEpochs
  <1>5. EpochsMatchFailures'
    <2> SUFFICES ASSUME NEW kind \in Kind
                 PROVE  /\ DOMAIN lastEpoch'[kind] = DOMAIN failures'[kind]
                        /\ \A k \in DOMAIN lastEpoch'[kind] : lastEpoch'[kind][k] <= epoch'
      BY DEF EpochsMatchFailures
    <2>1. DOMAIN lastEpoch[kind] = DOMAIN failures[kind]
      BY DEF EpochsMatchFailures
    <2>2. \A k \in DOMAIN lastEpoch[kind] :
            lastEpoch[kind][k] \in Nat /\ lastEpoch[kind][k] <= epoch
      BY DEF EpochsMatchFailures, TypeOK, IsTable
    <2>3. DOMAIN lastEpoch'[kind] = DOMAIN failures'[kind]
      BY <1>3, <1>4, <2>1
    <2>4. ASSUME NEW k \in DOMAIN lastEpoch'[kind]
          PROVE  lastEpoch'[kind][k] <= epoch'
      <3>1. CASE k \in KeysOf(p)[kind]
        BY <1>1, <1>4, <3>1
      <3>2. CASE k \notin KeysOf(p)[kind]
        <4>1. k \in DOMAIN lastEpoch[kind] /\ lastEpoch'[kind][k] = lastEpoch[kind][k]
          BY <1>4, <3>2
        <4> QED
          BY <1>1, <2>2, <4>1
      <3> QED
        BY <3>1, <3>2
    <2> QED
      BY <2>3, <2>4
  <1>6. IsTable(failures)' /\ IsTable(lastEpoch)'
    BY <1>1, <1>3, <1>4 DEF TypeOK, IsTable
  <1>7. shapeFailures' = NotedCounts(shapeFailures, {Calls[p]})
    BY DEF Fails, BlockedAfter
  <1>8. BlockedMatchesFailures'
    <2>1. \A kind \in Kind : blocked'[kind] = BlockedKeys(failures'[kind], Threshold[kind])
      <3> SUFFICES ASSUME NEW kind \in Kind
                   PROVE  blocked'[kind] = BlockedKeys(failures'[kind], Threshold[kind])
        OBVIOUS
      <3>1. blocked'[kind] = blocked[kind] \cup
               {k \in KeysOf(p)[kind] : failures'[kind][k] >= Threshold[kind]}
        BY DEF Fails, BlockedAfter
      <3>2. blocked[kind] = BlockedKeys(failures[kind], Threshold[kind])
        BY DEF BlockedMatchesFailures
      <3>3. Threshold[kind] \in Nat
        BY ThresholdType
      <3> QED
        BY <1>2, <3>1, <3>2, <3>3, NotedBlocked
    <2>2. blockedShapes' = BlockedKeys(shapeFailures', ShapeThreshold)
      <3>1. blockedShapes' = blockedShapes \cup
               {s \in {Calls[p]} : shapeFailures'[s] >= ShapeThreshold}
        BY DEF Fails, BlockedAfter
      <3>2. blockedShapes = BlockedKeys(shapeFailures, ShapeThreshold)
        BY DEF BlockedMatchesFailures
      <3>3. \A s \in DOMAIN shapeFailures : shapeFailures[s] \in Nat
        BY DEF TypeOK
      <3> QED
        BY <1>7, <3>1, <3>2, <3>3, NotedBlocked, ThresholdAssumption
    <2> QED
      BY <2>1, <2>2 DEF BlockedMatchesFailures
  <1>9. SnapshotOK' /\ SnapshotAgrees'
    <2>1. Save(failures', lastEpoch', epoch')
      BY DEF Fails, BlockedAfter
    <2>2. SnapshotOK
      BY DEF TypeOK, SnapshotOK
    <2> QED
      BY <1>1, <1>5, <1>6, <1>8, <2>1, <2>2, SaveAgrees
  <1>10. \A s \in DOMAIN shapeFailures' : shapeFailures'[s] \in Nat
    BY <1>7, NotedType DEF TypeOK
  <1>11. streak' = 0 /\ running' = running
    BY DEF Fails, BlockedAfter
  <1>12. TypeOK'
    BY <1>1, <1>3, <1>6, <1>9, <1>10, <1>11 DEF TypeOK, SnapshotOK
  <1> QED
    BY <1>5, <1>8, <1>9, <1>12

(* Cooling keeps the invariant, and releases only keys that have been idle.*)
LEMMA CoolingKeepsAgreement ==
    ASSUME IInv, epoch' = epoch + 1, SomethingDecays(epoch'), DecayTick,
           UNCHANGED <<shapeFailures, blockedShapes>>
    PROVE  /\ IsTable(failures)' /\ IsTable(lastEpoch)'
           /\ \A kind \in Kind : \A k \in DOMAIN failures'[kind] : failures'[kind][k] > 0
           /\ EpochsMatchFailures' /\ BlockedMatchesFailures'
           /\ SnapshotOK' /\ SnapshotAgrees'
           /\ \A kind \in Kind : \A k \in blocked[kind] \ blocked'[kind] :
                 epoch' - lastEpoch[kind][k] >= DecayInterval
  <1>1. epoch \in Nat /\ epoch' \in Nat /\ epoch' = epoch + 1
    BY DEF IInv, TypeOK
  <1>2. /\ failures' = [kind \in Kind |->
               DecayedCounts(failures[kind], lastEpoch[kind], epoch')]
        /\ lastEpoch' = [kind \in Kind |-> Only(lastEpoch[kind], DOMAIN failures'[kind])]
        /\ blocked' = [kind \in Kind |-> BlockedKeys(failures'[kind], Threshold[kind])]
        /\ Save(failures', lastEpoch', epoch')
    BY DEF DecayTick
  <1>3. ASSUME NEW kind \in Kind
        PROVE  /\ DOMAIN lastEpoch[kind] = DOMAIN failures[kind]
               /\ \A k \in DOMAIN failures[kind] :
                     /\ failures[kind][k] \in Nat /\ failures[kind][k] > 0
                     /\ lastEpoch[kind][k] \in Nat /\ lastEpoch[kind][k] <= epoch
    BY DEF IInv, TypeOK, IsTable, EpochsMatchFailures
  <1>4. ASSUME NEW kind \in Kind
        PROVE  /\ DOMAIN failures'[kind] \subseteq DOMAIN failures[kind]
               /\ \A k \in DOMAIN failures'[kind] :
                     failures'[kind][k] \in Nat /\ failures'[kind][k] > 0
               /\ \A k \in DOMAIN failures[kind] :
                     Idle(lastEpoch[kind], k, epoch') < DecayInterval =>
                        k \in DOMAIN failures'[kind] /\ failures'[kind][k] = failures[kind][k]
    <2>1. failures'[kind] = DecayedCounts(failures[kind], lastEpoch[kind], epoch')
      BY <1>2
    <2> QED
      BY <1>1, <1>3, <2>1, DecayedType
  <1>5. ASSUME NEW kind \in Kind
        PROVE  /\ DOMAIN lastEpoch'[kind] = DOMAIN failures'[kind]
               /\ \A k \in DOMAIN failures'[kind] :
                     /\ lastEpoch'[kind][k] \in Nat
                     /\ lastEpoch'[kind][k] <= epoch'
    <2>1. /\ DOMAIN lastEpoch'[kind] = DOMAIN failures'[kind]
          /\ \A k \in DOMAIN failures'[kind] : lastEpoch'[kind][k] = lastEpoch[kind][k]
      BY <1>2 DEF Only
    <2>2. ASSUME NEW k \in DOMAIN failures'[kind]
          PROVE  lastEpoch[kind][k] \in Nat /\ lastEpoch[kind][k] <= epoch'
      <3>1. k \in DOMAIN failures[kind]
        BY <1>4
      <3>2. lastEpoch[kind][k] \in Nat /\ lastEpoch[kind][k] <= epoch
        BY <1>3, <3>1
      <3> QED
        BY <1>1, <3>2
    <2> QED
      BY <2>1, <2>2
  <1>6. IsTable(failures)' /\ IsTable(lastEpoch)'
    BY <1>4, <1>5 DEF IsTable
  <1>7. EpochsMatchFailures'
    BY <1>5 DEF EpochsMatchFailures
  <1>8. BlockedMatchesFailures'
    BY <1>2 DEF BlockedMatchesFailures, IInv
  <1>9. SnapshotOK' /\ SnapshotAgrees'
    <2>1. SnapshotOK /\ SnapshotAgrees
      BY DEF IInv, TypeOK, SnapshotOK
    <2> QED
      BY <1>1, <1>2, <1>6, <1>7, <1>8, <2>1, SaveAgrees
  <1>10. ASSUME NEW kind \in Kind, NEW k \in blocked[kind] \ blocked'[kind]
         PROVE  epoch' - lastEpoch[kind][k] >= DecayInterval
    <2>1. k \in DOMAIN failures[kind] /\ failures[kind][k] >= Threshold[kind]
      BY DEF IInv, BlockedMatchesFailures, BlockedKeys
    <2>2. ~(k \in DOMAIN failures'[kind] /\ failures'[kind][k] >= Threshold[kind])
      BY <1>2 DEF BlockedKeys
    <2>3. ~(Idle(lastEpoch[kind], k, epoch') < DecayInterval)
      BY <1>4, <2>1, <2>2
    <2>4. /\ k \in DOMAIN lastEpoch[kind]
          /\ lastEpoch[kind][k] \in Nat /\ lastEpoch[kind][k] <= epoch
      BY <1>3, <2>1
    <2>5. Idle(lastEpoch[kind], k, epoch') = epoch' - lastEpoch[kind][k]
      BY <1>1, <2>4 DEF Idle, LastEpochOf
    <2> QED
      BY <1>1, <2>3, <2>4, <2>5, DecayAssumption
  <1> QED
    BY <1>4, <1>6, <1>7, <1>8, <1>9, <1>10

(* A step that only ages the state, or only resets the streak.             *)
LEMMA AgingKeepsAgreement ==
    ASSUME IInv, epoch' \in Nat, epoch' >= epoch,
           UNCHANGED <<failures, lastEpoch, blocked, shapeFailures, blockedShapes,
                       snapshot, synced>>
    PROVE  /\ EpochsMatchFailures' /\ BlockedMatchesFailures'
           /\ SnapshotAgrees'
  <1>1. epoch \in Nat /\ snapshot.epoch \in Nat
    BY DEF IInv, TypeOK
  <1>2. BlockedMatchesFailures'
    BY DEF IInv, BlockedMatchesFailures
  <1>3. EpochsMatchFailures'
    <2>1. ASSUME NEW kind \in Kind, NEW k \in DOMAIN lastEpoch[kind]
          PROVE  lastEpoch[kind][k] <= epoch'
      <3>1. lastEpoch[kind][k] \in Nat /\ lastEpoch[kind][k] <= epoch
        BY DEF IInv, EpochsMatchFailures, TypeOK, IsTable
      <3> QED
        BY <1>1, <3>1
    <2> QED
      BY <2>1 DEF IInv, EpochsMatchFailures
  <1>4. synced => snapshot.epoch <= epoch'
    BY <1>1 DEF IInv, SnapshotAgrees
  <1>5. SnapshotAgrees'
    BY <1>4 DEF IInv, SnapshotAgrees
  <1> QED
    BY <1>2, <1>3, <1>5

LEMMA SucceedsIInv ==
    ASSUME IInv, NEW p, Succeeds(p)
    PROVE  /\ IInv'
           /\ \A kind \in Kind : \A k \in blocked[kind] \ blocked'[kind] :
                 epoch' - lastEpoch[kind][k] >= DecayInterval
  <1>1. /\ epoch \in Nat /\ streak \in 0..(DecayInterval - 1)
        /\ epoch' = epoch + 1 /\ epoch' \in Nat /\ epoch' >= epoch
        /\ UNCHANGED <<shapeFailures, blockedShapes, running>>
    BY DEF IInv, TypeOK, Succeeds
  <1>2. CASE SomethingDecays(epoch') /\ DecayTick
    <2>1. streak' = 0 /\ 0 \in 0..(DecayInterval - 1)
      BY <1>2, DecayAssumption DEF DecayTick
    <2>2. /\ IsTable(failures)' /\ IsTable(lastEpoch)'
          /\ \A kind \in Kind : \A k \in DOMAIN failures'[kind] : failures'[kind][k] > 0
          /\ EpochsMatchFailures' /\ BlockedMatchesFailures'
          /\ SnapshotOK' /\ SnapshotAgrees'
          /\ \A kind \in Kind : \A k \in blocked[kind] \ blocked'[kind] :
                epoch' - lastEpoch[kind][k] >= DecayInterval
      BY <1>1, <1>2, CoolingKeepsAgreement
    <2>3. TypeOK'
      BY <1>1, <2>1, <2>2 DEF TypeOK, SnapshotOK, IInv
    <2> QED
      BY <2>2, <2>3 DEF IInv
  <1>3. CASE /\ UNCHANGED <<failures, lastEpoch, blocked, snapshot, synced>>
             /\ streak' \in 0..(DecayInterval - 1)
    <2>1. EpochsMatchFailures' /\ BlockedMatchesFailures' /\ SnapshotAgrees'
      BY <1>1, <1>3, AgingKeepsAgreement
    <2>2. TypeOK'
      BY <1>1, <1>3 DEF TypeOK, IsTable, IInv
    <2>3. \A kind \in Kind : blocked[kind] \ blocked'[kind] = {}
      BY <1>3
    <2> QED
      BY <2>1, <2>2, <2>3 DEF IInv
  <1>4. CASE streak + 1 < DecayInterval
    BY <1>1, <1>3, <1>4, DecayAssumption DEF Succeeds
  <1>5. CASE ~(streak + 1 < DecayInterval) /\ ~SomethingDecays(epoch')
    BY <1>3, <1>5, DecayAssumption DEF Succeeds, DecayTick
  <1> QED
    BY <1>2, <1>4, <1>5 DEF Succeeds

(* A state that a start or the end of the process leaves in memory.        *)
LEMMA AdoptedType ==
    ASSUME NEW s, s.epoch \in Nat, IsTable(s.failures), IsTable(s.last),
           Adopt(s), shapeFailures' = <<>>, blockedShapes' = {},
           \A kind \in Kind : /\ DOMAIN s.last[kind] = DOMAIN s.failures[kind]
                              /\ \A k \in DOMAIN s.failures[kind] : s.failures[kind][k] > 0
                              /\ \A k \in DOMAIN s.last[kind] : s.last[kind][k] <= s.epoch
    PROVE  /\ EpochsMatchFailures' /\ BlockedMatchesFailures'
           /\ IsTable(failures)' /\ IsTable(lastEpoch)' /\ epoch' \in Nat
           /\ \A kind \in Kind : \A k \in DOMAIN failures'[kind] : failures'[kind][k] > 0
  <1>1. blockedShapes' = BlockedKeys(shapeFailures', ShapeThreshold)
    BY DEF BlockedKeys
  <1>2. \A kind \in Kind : blocked'[kind] = BlockedKeys(failures'[kind], Threshold[kind])
    BY DEF Adopt
  <1>3. BlockedMatchesFailures'
    BY <1>1, <1>2 DEF BlockedMatchesFailures
  <1>4. EpochsMatchFailures'
    BY DEF EpochsMatchFailures, Adopt
  <1> QED
    BY <1>3, <1>4 DEF Adopt, IsTable

LEMMA NewStateType ==
    /\ NewState.epoch = 0
    /\ IsTable(NewState.failures) /\ IsTable(NewState.last)
    /\ \A kind \in Kind : /\ DOMAIN NewState.failures[kind] = {}
                          /\ DOMAIN NewState.last[kind] = {}
  <1>1. \A kind \in Kind : NoFailures[kind] = <<>> /\ DOMAIN NoFailures[kind] = {}
    BY DEF NoFailures
  <1>2. NewState.epoch = 0 /\ NewState.failures = NoFailures /\ NewState.last = NoFailures
    BY DEF NewState, Contents
  <1> QED
    BY <1>1, <1>2 DEF IsTable

LEMMA StopIInv ==
    ASSUME IInv, Stop
    PROVE  IInv'
  <1>1. /\ Adopt(NewState) /\ shapeFailures' = <<>> /\ blockedShapes' = {}
        /\ streak' = 0 /\ running' = FALSE /\ synced' = FALSE /\ snapshot' = snapshot
    BY DEF Stop
  <1>2. /\ EpochsMatchFailures' /\ BlockedMatchesFailures'
        /\ IsTable(failures)' /\ IsTable(lastEpoch)' /\ epoch' \in Nat
        /\ \A kind \in Kind : \A k \in DOMAIN failures'[kind] : failures'[kind][k] > 0
    <2>1. \A kind \in Kind :
            /\ DOMAIN NewState.last[kind] = DOMAIN NewState.failures[kind]
            /\ \A k \in DOMAIN NewState.failures[kind] : NewState.failures[kind][k] > 0
            /\ \A k \in DOMAIN NewState.last[kind] : NewState.last[kind][k] <= NewState.epoch
      BY NewStateType
    <2>2. NewState.epoch \in Nat /\ IsTable(NewState.failures) /\ IsTable(NewState.last)
      BY NewStateType
    <2> QED
      BY <1>1, <2>1, <2>2, AdoptedType
  <1>3. TypeOK'
    <2>1. 0 \in 0..(DecayInterval - 1)
      BY DecayAssumption
    <2>2. \A s \in DOMAIN shapeFailures' : shapeFailures'[s] \in Nat
      BY <1>1
    <2>3. snapshot'.epoch \in Nat /\ IsTable(snapshot'.failures) /\ IsTable(snapshot'.last)
      BY <1>1 DEF IInv, TypeOK
    <2> QED
      BY <1>1, <1>2, <2>1, <2>2, <2>3 DEF TypeOK
  <1>4. SnapshotAgrees'
    BY <1>1 DEF IInv, SnapshotAgrees
  <1> QED
    BY <1>2, <1>3, <1>4 DEF IInv

LEMMA StartIInv ==
    ASSUME IInv, Start
    PROVE  IInv'
  <1>1. /\ shapeFailures' = <<>> /\ blockedShapes' = {}
        /\ streak' = 0 /\ running' = TRUE
        /\ 0 \in 0..(DecayInterval - 1)
        /\ \A s \in DOMAIN shapeFailures' : shapeFailures'[s] \in Nat
    BY DecayAssumption DEF Start
  <1>2. SnapshotOK /\ SnapshotAgrees
    BY DEF IInv, TypeOK, SnapshotOK
  <1>3. CASE Adopt(NewState) /\ synced' = FALSE /\ UNCHANGED snapshot
    <2>1. \A kind \in Kind :
            /\ DOMAIN NewState.last[kind] = DOMAIN NewState.failures[kind]
            /\ \A k \in DOMAIN NewState.failures[kind] : NewState.failures[kind][k] > 0
            /\ \A k \in DOMAIN NewState.last[kind] : NewState.last[kind][k] <= NewState.epoch
      BY NewStateType
    <2>2. NewState.epoch \in Nat /\ IsTable(NewState.failures) /\ IsTable(NewState.last)
      BY NewStateType
    <2>3. /\ EpochsMatchFailures' /\ BlockedMatchesFailures'
          /\ IsTable(failures)' /\ IsTable(lastEpoch)' /\ epoch' \in Nat
          /\ \A kind \in Kind : \A k \in DOMAIN failures'[kind] : failures'[kind][k] > 0
      BY <1>1, <1>3, <2>1, <2>2, AdoptedType
    <2>4. SnapshotOK' /\ SnapshotAgrees'
      BY <1>2, <1>3 DEF SnapshotOK, SnapshotAgrees
    <2> QED
      BY <1>1, <2>3, <2>4 DEF IInv, TypeOK, SnapshotOK
  <1>4. ASSUME NEW s \in Compactions(Loaded(snapshot)),
               Adopt(s), synced' = TRUE, snapshot' = s \/ UNCHANGED snapshot
        PROVE  IInv'
    <2> DEFINE old == Loaded(snapshot)
    <2>1. ASSUME NEW kind \in Kind
          PROVE  /\ old.epoch = snapshot.epoch
                 /\ DOMAIN old.failures[kind]
                       = {k \in DOMAIN snapshot.failures[kind] : snapshot.failures[kind][k] > 0}
                 /\ DOMAIN old.last[kind] = DOMAIN old.failures[kind]
                 /\ \A k \in DOMAIN old.failures[kind] :
                       /\ old.failures[kind][k] = snapshot.failures[kind][k]
                       /\ old.last[kind][k]
                             = LastEpochOf(snapshot.last[kind], k, snapshot.epoch)
                 /\ BlockedKeys(old.failures[kind], Threshold[kind])
                       = BlockedKeys(snapshot.failures[kind], Threshold[kind])
      BY <1>2, LoadingKeepsBlocked DEF SnapshotOK
    <2>2. ASSUME NEW kind \in Kind
          PROVE  /\ s.epoch = old.epoch
                 /\ DOMAIN s.failures[kind] \subseteq DOMAIN old.failures[kind]
                 /\ DOMAIN s.last[kind] = DOMAIN s.failures[kind]
                 /\ \A k \in DOMAIN s.failures[kind] :
                       /\ s.failures[kind][k] = old.failures[kind][k]
                       /\ s.last[kind][k] = old.last[kind][k]
                 /\ BlockedKeys(s.failures[kind], Threshold[kind])
                       = BlockedKeys(old.failures[kind], Threshold[kind])
      BY <1>4, CompactionKeepsBlocked
    <2> HIDE DEF old
    <2>3. s.epoch = snapshot.epoch /\ s.epoch \in Nat
      BY <1>2, <2>1, <2>2 DEF Kind, SnapshotOK
    <2>4. ASSUME NEW kind \in Kind, NEW k \in DOMAIN s.failures[kind]
          PROVE  /\ k \in DOMAIN snapshot.failures[kind]
                 /\ s.failures[kind][k] = snapshot.failures[kind][k]
                 /\ s.failures[kind][k] \in Nat /\ s.failures[kind][k] > 0
                 /\ s.last[kind][k] = LastEpochOf(snapshot.last[kind], k, snapshot.epoch)
                 /\ s.last[kind][k] \in Nat /\ s.last[kind][k] <= s.epoch
      <3>1. /\ k \in DOMAIN old.failures[kind]
            /\ s.failures[kind][k] = old.failures[kind][k]
            /\ s.last[kind][k] = old.last[kind][k]
        BY <2>2
      <3>2. /\ k \in DOMAIN snapshot.failures[kind] /\ snapshot.failures[kind][k] > 0
            /\ s.failures[kind][k] = snapshot.failures[kind][k]
            /\ s.last[kind][k] = LastEpochOf(snapshot.last[kind], k, snapshot.epoch)
        BY <2>1, <3>1
      <3>3. snapshot.failures[kind][k] \in Nat
        BY <1>2, <3>2 DEF SnapshotOK, IsTable
      <3>4. \A j \in DOMAIN snapshot.last[kind] :
              snapshot.last[kind][j] \in Nat /\ snapshot.last[kind][j] <= snapshot.epoch
        BY <1>2 DEF SnapshotOK, IsTable, SnapshotAgrees
      <3>5. /\ LastEpochOf(snapshot.last[kind], k, snapshot.epoch) \in Nat
            /\ LastEpochOf(snapshot.last[kind], k, snapshot.epoch) <= snapshot.epoch
        BY <2>3, <3>4 DEF LastEpochOf
      <3> QED
        BY <2>3, <3>2, <3>3, <3>5
    <2>5. /\ IsTable(s.failures) /\ IsTable(s.last)
          /\ \A kind \in Kind :
                /\ DOMAIN s.last[kind] = DOMAIN s.failures[kind]
                /\ \A k \in DOMAIN s.failures[kind] : s.failures[kind][k] > 0
                /\ \A k \in DOMAIN s.last[kind] : s.last[kind][k] <= s.epoch
      BY <2>2, <2>4 DEF IsTable
    <2>6. /\ EpochsMatchFailures' /\ BlockedMatchesFailures'
          /\ IsTable(failures)' /\ IsTable(lastEpoch)' /\ epoch' \in Nat
          /\ \A kind \in Kind : \A k \in DOMAIN failures'[kind] : failures'[kind][k] > 0
      BY <1>1, <1>4, <2>3, <2>5, AdoptedType
    <2>7. /\ failures' = s.failures /\ lastEpoch' = s.last /\ epoch' = s.epoch
          /\ \A kind \in Kind : blocked'[kind] = BlockedKeys(s.failures[kind], Threshold[kind])
      BY <1>4 DEF Adopt
    <2>8. SnapshotOK' /\ SnapshotAgrees'
      <3>1. CASE snapshot' = s
        <4>1. SnapshotOK'
          BY <1>4, <2>3, <2>5, <3>1 DEF SnapshotOK
        <4>2. \A kind \in Kind : \A k \in DOMAIN s.failures[kind] :
                LastEpochOf(s.last[kind], k, s.epoch) = s.last[kind][k]
          BY <2>5 DEF LastEpochOf
        <4> QED
          BY <2>3, <2>5, <2>7, <3>1, <4>1, <4>2 DEF SnapshotAgrees
      <3>2. CASE UNCHANGED snapshot
        <4>1. SnapshotOK'
          BY <1>2, <1>4, <3>2 DEF SnapshotOK
        <4>2. \A kind \in Kind :
                BlockedKeys(snapshot.failures[kind], Threshold[kind]) = blocked'[kind]
          BY <2>1, <2>2, <2>7
        <4> QED
          BY <1>2, <2>3, <2>4, <2>7, <3>2, <4>1, <4>2 DEF SnapshotAgrees
      <3> QED
        BY <1>4, <3>1, <3>2
    <2> QED
      BY <1>1, <2>6, <2>8 DEF IInv, TypeOK, SnapshotOK
  <1>5. QED
    BY <1>3, <1>4 DEF Start

LEMMA NextIInv ==
    ASSUME IInv, [Next]_vars
    PROVE  IInv'
  <1>1. CASE Start
    BY <1>1, StartIInv
  <1>2. ASSUME NEW p \in Programs, Fails(p) PROVE IInv'
    BY <1>2, FailsIInv
  <1>3. ASSUME NEW p \in Programs, Succeeds(p) PROVE IInv'
    BY <1>3, SucceedsIInv
  <1>4. CASE InstanceFails
    <2>1. EpochsMatchFailures' /\ BlockedMatchesFailures' /\ SnapshotAgrees'
      BY <1>4, AgingKeepsAgreement DEF InstanceFails, IInv, TypeOK
    <2>2. TypeOK'
      BY <1>4, DecayAssumption DEF InstanceFails, IInv, TypeOK, IsTable
    <2> QED
      BY <2>1, <2>2 DEF IInv
  <1>5. CASE Stop
    BY <1>5, StopIInv
  <1>6. CASE UNCHANGED vars
    BY <1>6 DEF vars, IInv, TypeOK, IsTable, BlockedMatchesFailures, EpochsMatchFailures,
                SnapshotAgrees
  <1> QED
    BY <1>1, <1>2, <1>3, <1>4, <1>5, <1>6 DEF Next

-----------------------------------------------------------------------------
(* The tables, the blocked sets and the snapshot stay consistent through   *)
(* any run of starts, failures, successes, saves that fail, and deaths.    *)
THEOREM Consistency == Spec => []IInv
  <1>1. Init => IInv
    BY InitIInv
  <1>2. IInv /\ [Next]_vars => IInv'
    BY NextIInv
  <1> QED
    BY <1>1, <1>2, PTL DEF Spec

(* Types, and no failure map ever holds a zero count.                      *)
THEOREM TypeCorrect == Spec => []TypeOK
  <1>1. IInv => TypeOK
    BY DEF IInv
  <1> QED
    BY <1>1, Consistency, PTL

(* What is blocked is what the failure counts say is blocked.              *)
THEOREM BlockedIsDerived == Spec => []BlockedMatchesFailures
  <1>1. IInv => BlockedMatchesFailures
    BY DEF IInv
  <1> QED
    BY <1>1, Consistency, PTL

(* The two maps of a kind never drift apart, nor run ahead of the epoch.   *)
THEOREM EpochsAreDerived == Spec => []EpochsMatchFailures
  <1>1. IInv => EpochsMatchFailures
    BY DEF IInv
  <1> QED
    BY <1>1, Consistency, PTL

(* A restart from a snapshot that was saved or loaded successfully blocks  *)
(* what the process before it blocked, compaction notwithstanding.         *)
THEOREM RestartIsTransparent == Spec => []RestartBlocksTheSame
  <1>1. IInv => RestartBlocksTheSame
    <2> SUFFICES ASSUME IInv, synced,
                        NEW s \in Compactions(Loaded(snapshot)), NEW kind \in Kind
                 PROVE  BlockedKeys(s.failures[kind], Threshold[kind]) = blocked[kind]
      BY DEF RestartBlocksTheSame
    <2>1. BlockedKeys(s.failures[kind], Threshold[kind])
             = BlockedKeys(Loaded(snapshot).failures[kind], Threshold[kind])
      BY CompactionKeepsBlocked
    <2>2. IsTable(snapshot.failures)
      BY DEF IInv, TypeOK
    <2>3. BlockedKeys(Loaded(snapshot).failures[kind], Threshold[kind])
             = BlockedKeys(snapshot.failures[kind], Threshold[kind])
      BY <2>2, LoadingKeepsBlocked
    <2> QED
      BY <2>1, <2>3 DEF IInv, SnapshotAgrees
  <1> QED
    BY <1>1, Consistency, PTL

(* The executions a restart forgets never make an entry look older.        *)
THEOREM RestartIsConservative == Spec => []RestartNeverAges
  <1>1. IInv => RestartNeverAges
    <2> SUFFICES ASSUME IInv, synced,
                        NEW s \in Compactions(Loaded(snapshot)), NEW kind \in Kind,
                        NEW k \in DOMAIN s.failures[kind] \cap DOMAIN failures[kind]
                 PROVE  /\ Idle(s.last[kind], k, s.epoch) <= Idle(lastEpoch[kind], k, epoch)
                        /\ s.failures[kind][k] = failures[kind][k]
      BY DEF RestartNeverAges
    <2> DEFINE old == Loaded(snapshot)
    <2>1. /\ s.epoch = old.epoch
          /\ k \in DOMAIN old.failures[kind]
          /\ k \in DOMAIN s.last[kind]
          /\ s.failures[kind][k] = old.failures[kind][k]
          /\ s.last[kind][k] = old.last[kind][k]
      BY CompactionKeepsBlocked
    <2>2. IsTable(snapshot.failures)
      BY DEF IInv, TypeOK
    <2>3. /\ old.epoch = snapshot.epoch
          /\ k \in DOMAIN snapshot.failures[kind]
          /\ old.failures[kind][k] = snapshot.failures[kind][k]
          /\ old.last[kind][k] = LastEpochOf(snapshot.last[kind], k, snapshot.epoch)
      BY <2>1, <2>2, LoadingKeepsBlocked
    <2> HIDE DEF old
    <2>4. /\ s.epoch = snapshot.epoch
          /\ s.failures[kind][k] = failures[kind][k]
          /\ s.last[kind][k] = lastEpoch[kind][k]
          /\ snapshot.epoch <= epoch
      BY <2>1, <2>3 DEF IInv, SnapshotAgrees
    <2>5. /\ k \in DOMAIN lastEpoch[kind]
          /\ lastEpoch[kind][k] \in Nat /\ lastEpoch[kind][k] <= epoch
          /\ epoch \in Nat /\ snapshot.epoch \in Nat
      BY DEF IInv, TypeOK, IsTable, EpochsMatchFailures
    <2> QED
      BY <2>1, <2>4, <2>5 DEF Idle, LastEpochOf
  <1> QED
    BY <1>1, Consistency, PTL

(* A restart from a snapshot that was saved blocks the same keys, and      *)
(* makes none of them look older.                                          *)
THEOREM RestartGoesOn == Spec => []RestartIsFaithful
  BY RestartIsTransparent, RestartIsConservative, PTL DEF RestartIsFaithful

(* Within a process, a blocked key is released only after it has not       *)
(* failed for DecayInterval learning epochs.                               *)
THEOREM ReleaseIsEarned == Spec => ReleaseNeedsIdle
  <1> DEFINE Earned == running /\ running' =>
          \A kind \in Kind : \A k \in blocked[kind] \ blocked'[kind] :
              epoch' - lastEpoch[kind][k] >= DecayInterval
  <1>1. IInv /\ [Next]_vars => [Earned]_vars
    <2> SUFFICES ASSUME IInv, Next, running, running'
                 PROVE  \A kind \in Kind : \A k \in blocked[kind] \ blocked'[kind] :
                            epoch' - lastEpoch[kind][k] >= DecayInterval
      OBVIOUS
    <2>1. ASSUME NEW p \in Programs, Fails(p)
          PROVE  \A kind \in Kind : blocked[kind] \ blocked'[kind] = {}
      BY <2>1 DEF Fails, BlockedAfter
    <2>2. ASSUME NEW p \in Programs, Succeeds(p)
          PROVE  \A kind \in Kind : \A k \in blocked[kind] \ blocked'[kind] :
                     epoch' - lastEpoch[kind][k] >= DecayInterval
      BY <2>2, SucceedsIInv
    <2>3. CASE InstanceFails
      BY <2>3 DEF InstanceFails
    <2>4. ~Start /\ ~Stop
      BY DEF Start, Stop
    <2> QED
      BY <2>1, <2>2, <2>3, <2>4 DEF Next
  <1> QED
    BY <1>1, Consistency, PTL DEF Spec, ReleaseNeedsIdle
=============================================================================
