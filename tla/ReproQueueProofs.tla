-------------------------- MODULE ReproQueueProofs --------------------------
(***************************************************************************)
(* Proofs about ReproQueue for any number of artifacts, workers and        *)
(* operators, any lease, replay and backoff times, and any number of       *)
(* interventions.                                                          *)
(***************************************************************************)
EXTENDS ReproQueue, TLAPS, FiniteSetTheorems, WellFoundedInduction

E == queue.entries

IInv == TypeOK /\ SecureClaimsAreOnRecord /\ RestingIsNotLeased

-----------------------------------------------------------------------------
(* Facts about entries and about the queues an operation may write.        *)

(* Sorting changes the order only.                                         *)
LEMMA SortedEntries ==
    ASSUME NEW entries, NEW q \in Sorted(entries)
    PROVE  q.entries = entries
  BY DEF Sorted

(* A claim takes an entry that is leased to the holder, or one that is     *)
(* neither leased nor resting.                                             *)
LEMMA OfferedFacts ==
    ASSUME NEW q, NEW h, NEW s \in Offered(q, h)
    PROVE  /\ s \in DOMAIN q.entries
           /\ \/ q.entries[s].owner = h /\ Leased(q.entries[s])
              \/ ~Leased(q.entries[s]) /\ ~Resting(q.entries[s])
<1> DEFINE own == {t \in DOMAIN q.entries : q.entries[t].owner = h /\ Leased(q.entries[t])}
           free == {t \in DOMAIN q.entries : Claimable(q.entries[t])}
<1>1. \A sigs : First(q, sigs) \subseteq sigs
  BY DEF First
<1>2. s \in own \/ s \in free
  <2>1. Offered(q, h) = IF own # {} THEN First(q, own) ELSE First(q, free)
    BY DEF Offered
  <2> QED BY <1>1, <2>1
<1> QED BY <1>2 DEF Claimable

LEMMA BackoffType ==
    ASSUME NEW outcome \in Outcomes, NEW attempts \in Nat
    PROVE  Backoff(outcome, attempts) \in Nat
<1>1. Least(attempts, BackoffCap) \in Nat
  BY QueueAssumption DEF Least
<1>2. CASE outcome = "succeeded"
  BY <1>2 DEF Backoff
<1>3. CASE outcome # "succeeded"
  <2>1. BackoffBase[outcome] \in Nat
    BY <1>3, QueueAssumption
  <2>2. \A m, n \in Nat : m * n \in Nat
    OBVIOUS
  <2> QED BY <1>1, <1>3, <2>1, <2>2 DEF Backoff
<1> QED BY <1>2, <1>3

(* What recording an outcome makes of an entry.                            *)
LEMMA RecordedFacts ==
    ASSUME NEW e \in Entry, NEW outcome \in Outcomes
    PROVE  /\ Recorded(e, outcome) \in Entry
           /\ Recorded(e, outcome).attempts = Least(e.attempts + 1, AttemptsCap)
           /\ Recorded(e, outcome).attempts >= e.attempts
           /\ Recorded(e, outcome).outcome # "none"
           /\ ~Leased(Recorded(e, outcome))
<1>1. e.attempts \in 0..AttemptsCap
  BY DEF Entry
<1>2. Least(e.attempts + 1, AttemptsCap) \in 0..AttemptsCap /\ Least(e.attempts + 1, AttemptsCap) >= e.attempts
  BY <1>1, QueueAssumption DEF Least
<1>3. Backoff(outcome, Least(e.attempts + 1, AttemptsCap)) \in Nat
  BY <1>2, BackoffType, QueueAssumption
<1>4. /\ Recorded(e, outcome).attempts = Least(e.attempts + 1, AttemptsCap)
      /\ Recorded(e, outcome).outcome = outcome
      /\ Recorded(e, outcome).owner = None
  BY DEF Recorded
<1>5. Recorded(e, outcome) \in Entry
  BY <1>2, <1>3, QueueAssumption DEF Recorded, Entry
<1>6. outcome # "none"
  BY DEF Outcomes
<1> QED BY <1>2, <1>4, <1>5, <1>6 DEF Leased

LEMMA GrantedFacts ==
    ASSUME NEW e \in Entry, NEW h \in Holders
    PROVE  /\ Granted(e, h) \in Entry
           /\ Granted(e, h).attempts = e.attempts /\ Granted(e, h).backoff = e.backoff
           /\ Granted(e, h).owner = h /\ Granted(e, h).lease = LeaseTime
<1>1. LeaseTime \in 0..LeaseTime
  BY QueueAssumption
<1>2. e \in Entry /\ h \in Holders \cup {None}
  OBVIOUS
<1>3. Granted(e, h) \in Entry
  BY <1>1, <1>2 DEF Granted, Entry
<1>4. /\ Granted(e, h).attempts = e.attempts /\ Granted(e, h).backoff = e.backoff
      /\ Granted(e, h).owner = h /\ Granted(e, h).lease = LeaseTime
  BY <1>2 DEF Granted, Entry
<1> QED BY <1>3, <1>4

(* A rebuild keeps what a lease in force says, and all attempts.           *)
LEMMA RetainedFacts ==
    ASSUME NEW e \in Entry
    PROVE  /\ Retained(e) \in Entry
           /\ Retained(e).attempts = e.attempts /\ Retained(e).backoff = e.backoff
           /\ Leased(e) => Retained(e) = e
           /\ ~Leased(e) => ~Leased(Retained(e))
<1>1. CASE Leased(e)
  BY <1>1 DEF Retained
<1>2. CASE ~Leased(e)
  <2>1. Retained(e) = [e EXCEPT !.owner = None, !.lease = 0]
    BY <1>2 DEF Retained
  <2>2. [e EXCEPT !.owner = None, !.lease = 0] \in Entry
    <3>1. 0 \in 0..LeaseTime
      BY QueueAssumption
    <3> QED BY <3>1 DEF Entry
  <2>3. /\ [e EXCEPT !.owner = None, !.lease = 0].attempts = e.attempts
        /\ [e EXCEPT !.owner = None, !.lease = 0].backoff = e.backoff
        /\ [e EXCEPT !.owner = None, !.lease = 0].owner = None
    BY DEF Entry
  <2>4. ~Leased(Retained(e))
    BY <2>1, <2>3 DEF Leased
  <2> QED BY <1>2, <2>1, <2>2, <2>3, <2>4
<1> QED BY <1>1, <1>2

LEMMA FreshFacts == Fresh \in Entry /\ ~Leased(Fresh) /\ ~Resting(Fresh)
  BY QueueAssumption DEF Fresh, Entry, Leased, Resting

-----------------------------------------------------------------------------
(* The steps, as far as the entries are concerned.                         *)

(* A rebuild for the catalog c.                                            *)
Rebuilding(c) == E' = [s \in c |-> IF s \in DOMAIN E THEN Retained(E[s]) ELSE Fresh]

(* One entry is replaced.                                                  *)
Replacing(s, e) == s \in DOMAIN E /\ E' = [E EXCEPT ![s] = e]

LEMMA RebuiltEntries ==
    ASSUME NEW c, queue' \in Rebuilt(queue, c) PROVE Rebuilding(c)
  BY SortedEntries DEF Rebuilt, Rebuilding, E

LEMMA ClaimedEntries ==
    ASSUME NEW h, NEW s \in Offered(queue, h), queue' \in Claimed(queue, h, s)
    PROVE  Replacing(s, Granted(E[s], h))
<1>1. s \in DOMAIN E
  BY OfferedFacts DEF E
<1>2. E' = [E EXCEPT ![s] = Granted(@, h)]
  BY SortedEntries DEF Claimed, E
<1> QED BY <1>1, <1>2 DEF Replacing

LEMMA FinishedEntries ==
    ASSUME NEW s \in DOMAIN E, NEW outcome, queue' \in Finished(queue, s, outcome)
    PROVE  Replacing(s, Recorded(E[s], outcome))
<1>1. E' = [E EXCEPT ![s] = Recorded(@, outcome)]
  BY SortedEntries DEF Finished, E
<1> QED BY <1>1 DEF Replacing

LEMMA FreedEntries ==
    ASSUME NEW s \in DOMAIN E, queue' \in Freed(queue, s)
    PROVE  Replacing(s, [E[s] EXCEPT !.owner = None, !.lease = 0])
<1>1. E' = [E EXCEPT ![s].owner = None, ![s].lease = 0]
  BY SortedEntries DEF Freed, E
<1> QED BY <1>1 DEF Replacing

FreedEntry(e) == [e EXCEPT !.owner = None, !.lease = 0]

LEMMA FreedFacts ==
    ASSUME NEW e \in Entry
    PROVE  /\ FreedEntry(e) \in Entry
           /\ FreedEntry(e).attempts = e.attempts
           /\ ~Leased(FreedEntry(e))
<1>1. 0 \in 0..LeaseTime
  BY QueueAssumption
<1>2. FreedEntry(e) \in Entry
  BY <1>1 DEF Entry, FreedEntry
<1>3. FreedEntry(e).attempts = e.attempts /\ FreedEntry(e).owner = None
  BY DEF Entry, FreedEntry
<1> QED BY <1>2, <1>3 DEF Leased

(* What an entry that replaces another may be.                             *)
Successor(e, new) ==
    /\ new \in Entry
    /\ new.attempts >= e.attempts
    /\ Leased(new) /\ Resting(new) => Resting(e)

(* The entries after a step other than Tick: rebuilt, as they were, or one *)
(* of them replaced.                                                       *)
Rewriting ==
    \/ catalog \subseteq catalog' /\ catalog' \subseteq Sigs /\ Rebuilding(catalog')
    \/ catalog' = catalog /\ E' = E
    \/ /\ catalog' = catalog
       /\ \E s \in DOMAIN E : \E new : Replacing(s, new) /\ Successor(E[s], new)
                                       /\ (Leased(new) => ~Resting(E[s]))

LEMMA RewritingByClaim ==
    ASSUME TypeOK, RestingIsNotLeased, catalog' = catalog,
           NEW h \in Holders, NEW s \in Offered(queue, h), queue' \in Claimed(queue, h, s)
    PROVE  Rewriting
<1>1. s \in DOMAIN E /\ E[s] \in Entry
  BY OfferedFacts DEF TypeOK, E
<1>2. Replacing(s, Granted(E[s], h))
  BY ClaimedEntries
<1>3. ~Resting(E[s])
  BY <1>1, OfferedFacts DEF RestingIsNotLeased, E
<1>4. Successor(E[s], Granted(E[s], h))
  <2>1. E[s].attempts \in Nat
    BY <1>1, QueueAssumption DEF Entry
  <2> QED BY <1>1, <2>1, GrantedFacts DEF Successor, Resting
<1> QED BY <1>1, <1>2, <1>3, <1>4 DEF Rewriting

LEMMA RewritingByOutcome ==
    ASSUME TypeOK, catalog' = catalog,
           NEW s \in DOMAIN E, NEW outcome \in Outcomes, queue' \in Finished(queue, s, outcome)
    PROVE  Rewriting
<1>1. E[s] \in Entry
  BY DEF TypeOK, E
<1>2. Replacing(s, Recorded(E[s], outcome))
  BY FinishedEntries
<1>3. Successor(E[s], Recorded(E[s], outcome)) /\ ~Leased(Recorded(E[s], outcome))
  BY <1>1, RecordedFacts DEF Successor
<1> QED BY <1>2, <1>3 DEF Rewriting

LEMMA RewritingByRelease ==
    ASSUME TypeOK, catalog' = catalog, NEW s \in DOMAIN E, queue' \in Freed(queue, s)
    PROVE  Rewriting
<1>1. E[s] \in Entry /\ E[s].attempts \in Nat
  BY QueueAssumption DEF TypeOK, E, Entry
<1>2. Replacing(s, FreedEntry(E[s]))
  BY FreedEntries DEF FreedEntry
<1>3. Successor(E[s], FreedEntry(E[s])) /\ ~Leased(FreedEntry(E[s]))
  BY <1>1, FreedFacts DEF Successor
<1> QED BY <1>2, <1>3 DEF Rewriting

(* Every step rewrites the entries or lets time pass.                      *)
LEMMA StepsRewrite ==
    ASSUME TypeOK, RestingIsNotLeased, Next PROVE Rewriting \/ Tick
<1>1. ASSUME NEW s \in Sigs, SaveArtifact(s) PROVE Rewriting
  BY <1>1, RebuiltEntries DEF SaveArtifact, Rewriting, TypeOK
<1>2. ASSUME NEW w \in Workers, Sync(w) PROVE Rewriting
  BY <1>2, RebuiltEntries DEF Sync, Rewriting, TypeOK
<1>3. ASSUME NEW h \in Holders, Take(h), catalog' = catalog PROVE Rewriting
  <2>1. CASE Offered(queue, h) = {} /\ UNCHANGED queue
    BY <1>3, <2>1 DEF Rewriting, E
  <2>2. CASE \E s \in Offered(queue, h) : queue' \in Claimed(queue, h, s)
    BY <1>3, <2>2, RewritingByClaim
  <2> QED BY <1>3, <2>1, <2>2 DEF Take
<1>4. ASSUME NEW w \in Workers, Claim(w) PROVE Rewriting
  BY <1>3, <1>4 DEF Claim, Holders
<1>5. ASSUME NEW h \in Holders, Die(h) PROVE Rewriting
  BY <1>5 DEF Die, Rewriting, E
<1>6. ASSUME NEW w \in Workers, NEW outcome \in WorkerOutcomes, Finish(w, outcome) PROVE Rewriting
  <2>1. CASE Owns(queue, w, claim[w]) /\ queue' \in Finished(queue, claim[w], outcome)
    BY <1>6, <2>1, RewritingByOutcome DEF Finish, Owns, E, WorkerOutcomes
  <2>2. CASE UNCHANGED queue
    BY <1>6, <2>2 DEF Finish, Rewriting, E
  <2> QED BY <1>6, <2>1, <2>2 DEF Finish
<1>7. ASSUME NEW o \in Operators, ClaimByHand(o) PROVE Rewriting
  BY <1>3, <1>7 DEF ClaimByHand, Holders
<1>8. ASSUME NEW o \in Operators, ReleaseByHand(o) PROVE Rewriting
  <2>1. CASE Owns(queue, o, claim[o]) /\ queue' \in Freed(queue, claim[o])
    BY <1>8, <2>1, RewritingByRelease DEF ReleaseByHand, Owns, E
  <2>2. CASE UNCHANGED queue
    BY <1>8, <2>2 DEF ReleaseByHand, Rewriting, E
  <2> QED BY <1>8, <2>1, <2>2 DEF ReleaseByHand
<1>9. ASSUME NEW o \in Operators, NEW outcome \in Outcomes, RequeueByHand(o, outcome) PROVE Rewriting
  <2>1. CASE Owns(queue, o, claim[o]) /\ queue' \in Finished(queue, claim[o], outcome)
    BY <1>9, <2>1, RewritingByOutcome DEF RequeueByHand, Owns, E
  <2>2. CASE UNCHANGED queue
    BY <1>9, <2>2 DEF RequeueByHand, Rewriting, E
  <2> QED BY <1>9, <2>1, <2>2 DEF RequeueByHand
<1>10. ASSUME NEW s \in Sigs, NEW outcome \in Outcomes, AttemptByHand(s, outcome) PROVE Rewriting
  BY <1>10, RewritingByOutcome DEF AttemptByHand, E
<1> QED BY <1>1, <1>2, <1>4, <1>5, <1>6, <1>7, <1>8, <1>9, <1>10 DEF Next

-----------------------------------------------------------------------------
(* What time does to the entries.                                          *)

LEMMA AgedFacts ==
    ASSUME NEW e \in Entry
    PROVE  /\ Aged(e) \in Entry
           /\ Aged(e).attempts = e.attempts /\ Aged(e).owner = e.owner
           /\ e.lease > 0 => Aged(e).lease = e.lease - 1
           /\ Leased(Aged(e)) => Leased(e)
           /\ Resting(Aged(e)) => Resting(e)
<1> DEFINE lease == IF e.lease > 0 THEN e.lease - 1 ELSE 0
           backoff == IF e.backoff > 0 THEN e.backoff - 1 ELSE 0
<1>1. e.lease \in 0..LeaseTime /\ e.backoff \in Nat
  BY DEF Entry
<1>2. lease \in 0..LeaseTime /\ backoff \in Nat
  BY <1>1, QueueAssumption
<1>3. /\ lease > 0 => e.lease > 0
      /\ e.lease > 0 => lease = e.lease - 1
      /\ backoff > 0 => e.backoff > 0
  BY <1>1
<1>4. Aged(e) = [e EXCEPT !.lease = lease, !.backoff = backoff]
  BY DEF Aged
<1> HIDE DEF lease, backoff
<1>5. Aged(e) \in Entry
  BY <1>2, <1>4 DEF Entry
<1>6. /\ Aged(e).attempts = e.attempts /\ Aged(e).owner = e.owner
      /\ Aged(e).lease = lease /\ Aged(e).backoff = backoff
  BY <1>4 DEF Entry
<1> QED BY <1>3, <1>5, <1>6 DEF Leased, Resting

LEMMA AgedEntries ==
    ASSUME TypeOK, Tick
    PROVE  catalog' = catalog /\ E' = [s \in DOMAIN E |-> Aged(E[s])]
  BY DEF Tick, E

-----------------------------------------------------------------------------
(* The inductive invariant.                                                *)

(* The types: the entries by Rewriting or Tick, the rest by each action.   *)
LEMMA EntriesStep ==
    ASSUME TypeOK, Rewriting \/ Tick
    PROVE  E' \in [catalog' -> Entry] /\ catalog' \subseteq Sigs
<1>1. E \in [catalog -> Entry] /\ catalog \subseteq Sigs
  BY DEF TypeOK, E
<1>2. CASE catalog \subseteq catalog' /\ catalog' \subseteq Sigs /\ Rebuilding(catalog')
  <2>1. \A s \in catalog' : (IF s \in DOMAIN E THEN Retained(E[s]) ELSE Fresh) \in Entry
    BY <1>1, RetainedFacts, FreshFacts
  <2> QED BY <1>2, <2>1 DEF Rebuilding
<1>3. CASE catalog' = catalog /\ E' = E
  BY <1>1, <1>3
<1>4. CASE /\ catalog' = catalog
           /\ \E s \in DOMAIN E : \E new : Replacing(s, new) /\ Successor(E[s], new)
  BY <1>1, <1>4 DEF Replacing, Successor
<1>5. CASE Tick
  <2>1. \A s \in catalog : Aged(E[s]) \in Entry
    BY <1>1, AgedFacts
  <2> QED BY <1>1, <1>5, <2>1, AgedEntries
<1> QED BY <1>2, <1>3, <1>4, <1>5 DEF Rewriting

LEMMA DoneType ==
    ASSUME TypeOK, NEW h \in Holders, Done(h)
    PROVE  /\ pc' \in [Holders -> {"idle", "synced", "replaying"}]
           /\ claim' \in [Holders -> Sigs \cup {None}]
           /\ held' \in [Holders -> 0..(LeaseTime + ReplayTime)]
           /\ overridden' \in [Holders -> BOOLEAN]
<1>1. 0 \in 0..(LeaseTime + ReplayTime)
  BY QueueAssumption
<1>2. FALSE \in BOOLEAN
  OBVIOUS
<1> QED BY <1>1, <1>2 DEF TypeOK, Done

LEMMA TakeType ==
    ASSUME TypeOK, NEW h \in Holders, Take(h)
    PROVE  /\ pc' \in [Holders -> {"idle", "synced", "replaying"}]
           /\ claim' \in [Holders -> Sigs \cup {None}]
           /\ held' \in [Holders -> 0..(LeaseTime + ReplayTime)]
           /\ overridden' \in [Holders -> BOOLEAN]
<1>1. 0 \in 0..(LeaseTime + ReplayTime)
  BY QueueAssumption
<1>2. FALSE \in BOOLEAN
  OBVIOUS
<1>3. \A s \in Offered(queue, h) : s \in Sigs
  BY OfferedFacts DEF TypeOK
<1> QED BY <1>1, <1>2, <1>3 DEF TypeOK, Take

LEMMA TypeStep ==
    ASSUME TypeOK, RestingIsNotLeased, Next PROVE TypeOK'
<1> DEFINE HoldersType ==
      /\ pc \in [Holders -> {"idle", "synced", "replaying"}]
      /\ claim \in [Holders -> Sigs \cup {None}]
      /\ held \in [Holders -> 0..(LeaseTime + ReplayTime)]
      /\ overridden \in [Holders -> BOOLEAN]
<1>1. E' \in [catalog' -> Entry] /\ catalog' \subseteq Sigs
  BY StepsRewrite, EntriesStep
<1>2. Intervene => interventions' \in 0..MaxInterventions
  BY QueueAssumption DEF TypeOK, Intervene
<1>3. HoldersType
  BY DEF TypeOK
<1>4. ASSUME NEW s \in Sigs, SaveArtifact(s) PROVE HoldersType'
  BY <1>3, <1>4 DEF SaveArtifact
<1>5. ASSUME NEW w \in Workers, Sync(w) PROVE HoldersType'
  BY <1>3, <1>5 DEF Sync, Holders
<1>6. ASSUME NEW w \in Workers, Claim(w) PROVE HoldersType'
  BY <1>6, TakeType DEF Claim, Holders
<1>7. ASSUME NEW h \in Holders, Done(h) PROVE HoldersType'
  BY <1>7, DoneType
<1>8. ASSUME NEW o \in Operators, ClaimByHand(o) PROVE HoldersType'
  BY <1>8, TakeType DEF ClaimByHand, Holders
<1>9. ASSUME NEW s \in Sigs, NEW outcome \in Outcomes, AttemptByHand(s, outcome) PROVE HoldersType'
  <2>1. overridden' \in [Holders -> BOOLEAN]
    BY <1>3, <1>9, Zenon DEF AttemptByHand
  <2> QED BY <1>3, <1>9, <2>1 DEF AttemptByHand
<1>10. ASSUME Tick PROVE HoldersType'
  <2>1. ASSUME NEW h \in Holders
        PROVE  (IF pc[h] = "replaying" /\ (h \in Workers \/ held[h] < LeaseTime)
                THEN held[h] + 1 ELSE held[h]) \in 0..(LeaseTime + ReplayTime)
    <3>1. held[h] \in 0..(LeaseTime + ReplayTime) /\ LeaseTime \in Nat /\ ReplayTime \in Nat
      BY <1>3, QueueAssumption
    <3>2. pc[h] = "replaying" /\ h \in Workers => held[h] < ReplayTime
      BY <1>10 DEF Tick
    <3> QED BY <3>1, <3>2
  <2> QED BY <1>3, <1>10, <2>1 DEF Tick
<1>11. HoldersType'
  BY <1>4, <1>5, <1>6, <1>7, <1>8, <1>9, <1>10
     DEF Next, Die, Finish, ReleaseByHand, RequeueByHand, Holders
<1>12. interventions' \in 0..MaxInterventions
  <2>1. interventions \in 0..MaxInterventions
    BY DEF TypeOK
  <2>2. Intervene \/ UNCHANGED interventions
    BY DEF Next, SaveArtifact, Sync, Claim, Die, Finish, ClaimByHand, ReleaseByHand,
           RequeueByHand, AttemptByHand, Tick
  <2> QED BY <1>2, <2>1, <2>2
<1> QED BY <1>1, <1>11, <1>12 DEF TypeOK, E

(* Rest and lease exclude each other.                                      *)
LEMMA RestingStep ==
    ASSUME TypeOK, RestingIsNotLeased, Rewriting \/ Tick
    PROVE  RestingIsNotLeased'
<1>1. \A s \in DOMAIN E : E[s] \in Entry /\ ~(Leased(E[s]) /\ Resting(E[s]))
  BY DEF TypeOK, RestingIsNotLeased, E
<1>2. SUFFICES ASSUME NEW s \in DOMAIN E' PROVE ~(Leased(E'[s]) /\ Resting(E'[s]))
  BY DEF RestingIsNotLeased, E
<1>3. CASE Rebuilding(catalog')
  <2>1. E'[s] = IF s \in DOMAIN E THEN Retained(E[s]) ELSE Fresh
    BY <1>2, <1>3 DEF Rebuilding
  <2> QED BY <1>1, <2>1, RetainedFacts, FreshFacts DEF Resting
<1>4. CASE E' = E
  BY <1>1, <1>2, <1>4
<1>5. ASSUME NEW t \in DOMAIN E, NEW new, Replacing(t, new), Successor(E[t], new),
             Leased(new) => ~Resting(E[t])
      PROVE  ~(Leased(E'[s]) /\ Resting(E'[s]))
  <2>1. s \in DOMAIN E /\ E'[s] = IF s = t THEN new ELSE E[s]
    BY <1>2, <1>5 DEF Replacing
  <2> QED BY <1>1, <1>5, <2>1 DEF Successor
<1>6. CASE Tick
  <2>1. s \in DOMAIN E /\ E'[s] = Aged(E[s])
    BY <1>2, <1>6, AgedEntries
  <2> QED BY <1>1, <2>1, AgedFacts
<1> QED BY <1>3, <1>4, <1>5, <1>6 DEF Rewriting

OnRecord(h) ==
    /\ claim[h] \in DOMAIN E
    /\ E[claim[h]].owner = h
    /\ E[claim[h]].lease = LeaseTime - held[h]

LEMMA SecureMeans == SecureClaimsAreOnRecord <=> \A h \in Holders : Secure(h) => OnRecord(h)
  BY DEF SecureClaimsAreOnRecord, OnRecord, E

(* The lease of a secure claim is in force.                                *)
LEMMA SecureIsLeased ==
    ASSUME TypeOK, NEW h \in Holders, Secure(h), OnRecord(h)
    PROVE  Leased(E[claim[h]])
<1>1. held[h] \in Nat /\ held[h] < LeaseTime
  BY QueueAssumption DEF TypeOK, Secure
<1> QED BY <1>1, QueueAssumption DEF OnRecord, Leased, Holders

Same(g) == pc'[g] = pc[g] /\ claim'[g] = claim[g] /\ held'[g] = held[g] /\ overridden'[g] = overridden[g]

(* What is on record stays there when its entry does ...                   *)
LEMMA EntryStays ==
    ASSUME NEW g, OnRecord(g), Same(g), claim[g] \in DOMAIN E', E'[claim[g]] = E[claim[g]]
    PROVE  OnRecord(g)'
  BY DEF OnRecord, Same

(* ... over a rebuild, ...                                                 *)
LEMMA StaysOverRebuild ==
    ASSUME TypeOK, NEW g \in Holders, Secure(g), OnRecord(g), Same(g),
           catalog \subseteq catalog', Rebuilding(catalog')
    PROVE  OnRecord(g)'
<1>1. claim[g] \in DOMAIN E /\ claim[g] \in catalog' /\ E[claim[g]] \in Entry
  BY DEF OnRecord, TypeOK, E
<1>2. E'[claim[g]] = Retained(E[claim[g]]) /\ claim[g] \in DOMAIN E'
  BY <1>1 DEF Rebuilding
<1>3. Retained(E[claim[g]]) = E[claim[g]]
  BY <1>1, SecureIsLeased, RetainedFacts
<1> QED BY <1>2, <1>3, EntryStays

(* ... and when another holder replaces an entry it may replace.           *)
LEMMA StaysOverReplacement ==
    ASSUME TypeOK, NEW g \in Holders, Secure(g), OnRecord(g), Same(g),
           NEW s, NEW new, Replacing(s, new), E[s].owner # g \/ ~Leased(E[s])
    PROVE  OnRecord(g)'
<1>1. claim[g] # s
  BY SecureIsLeased DEF OnRecord
<1>2. claim[g] \in DOMAIN E' /\ E'[claim[g]] = E[claim[g]]
  BY <1>1 DEF Replacing, OnRecord
<1> QED BY <1>2, EntryStays

(* A claim is granted to one holder, and takes nothing from the others.    *)
LEMMA SecureByTake ==
    ASSUME TypeOK, SecureClaimsAreOnRecord, NEW h \in Holders, Take(h)
    PROVE  SecureClaimsAreOnRecord'
<1>1. \A g \in Holders : Secure(g) => OnRecord(g)
  BY SecureMeans
<1>2. \A g \in Holders \ {h} : Same(g)
  BY DEF Take, Same, TypeOK
<1>3. SUFFICES ASSUME NEW g \in Holders, Secure(g)' PROVE OnRecord(g)'
  BY DEF SecureClaimsAreOnRecord, OnRecord, E
<1>4. ASSUME g # h PROVE Secure(g) /\ OnRecord(g) /\ Same(g)
  BY <1>1, <1>2, <1>3, <1>4 DEF Same, Secure
<1>5. ASSUME NEW s \in Offered(queue, h), queue' \in Claimed(queue, h, s),
             claim' = [claim EXCEPT ![h] = s], held' = [held EXCEPT ![h] = 0]
      PROVE  OnRecord(g)'
  <2>1. Replacing(s, Granted(E[s], h)) /\ s \in DOMAIN E /\ E[s] \in Entry
    BY <1>5, ClaimedEntries, OfferedFacts DEF TypeOK, E
  <2>2. E[s].owner = h \/ ~Leased(E[s])
    BY OfferedFacts DEF E
  <2>3. CASE g # h
    BY <1>4, <2>1, <2>2, <2>3, StaysOverReplacement
  <2>4. CASE g = h
    <3>1. claim'[h] = s /\ held'[h] = 0
      BY <1>5 DEF TypeOK
    <3>2. s \in DOMAIN E' /\ E'[s] = Granted(E[s], h)
      BY <2>1 DEF Replacing
    <3> QED BY <2>1, <2>4, <3>1, <3>2, GrantedFacts, QueueAssumption DEF OnRecord
  <2> QED BY <2>3, <2>4
<1>6. CASE pc' = [pc EXCEPT ![h] = "idle"] /\ UNCHANGED queue
  <2>1. g # h
    BY <1>3, <1>6 DEF Secure, TypeOK
  <2> QED BY <1>4, <1>6, <2>1, EntryStays DEF OnRecord, E
<1> QED BY <1>5, <1>6 DEF Take

(* A holder lets go of a claim, and writes to an entry it owns, if to any. *)
LEMMA SecureByDone ==
    ASSUME TypeOK, SecureClaimsAreOnRecord, NEW h \in Holders, Done(h),
           \/ UNCHANGED queue
           \/ \E s \in DOMAIN E : E[s].owner = h /\ \E new : Replacing(s, new)
    PROVE  SecureClaimsAreOnRecord'
<1>1. \A g \in Holders : Secure(g) => OnRecord(g)
  BY SecureMeans
<1>2. SUFFICES ASSUME NEW g \in Holders, Secure(g)' PROVE OnRecord(g)'
  BY DEF SecureClaimsAreOnRecord, OnRecord, E
<1>3. g # h
  BY <1>2 DEF Done, Secure, TypeOK
<1>4. Same(g)
  BY <1>3 DEF Done, Same, TypeOK
<1>5. Secure(g) /\ OnRecord(g)
  BY <1>1, <1>2, <1>4 DEF Same, Secure
<1>6. CASE UNCHANGED queue
  BY <1>4, <1>5, <1>6, EntryStays DEF OnRecord, E
<1>7. ASSUME NEW s \in DOMAIN E, E[s].owner = h, NEW new, Replacing(s, new)
      PROVE  OnRecord(g)'
  BY <1>3, <1>4, <1>5, <1>7, StaysOverReplacement
<1> QED BY <1>6, <1>7

LEMMA OwnerWrites ==
    ASSUME NEW h \in Holders, NEW outcome,
           \/ Owns(queue, h, claim[h]) /\ queue' \in Finished(queue, claim[h], outcome)
           \/ Owns(queue, h, claim[h]) /\ queue' \in Freed(queue, claim[h])
           \/ ~Owns(queue, h, claim[h]) /\ UNCHANGED queue
    PROVE  \/ UNCHANGED queue
           \/ \E s \in DOMAIN E : E[s].owner = h /\ \E new : Replacing(s, new)
  BY FinishedEntries, FreedEntries DEF Owns, E

LEMMA SecureStep ==
    ASSUME TypeOK, SecureClaimsAreOnRecord, Next PROVE SecureClaimsAreOnRecord'
<1>1. \A h \in Holders : Secure(h) => OnRecord(h)
  BY SecureMeans
<1>2. ASSUME UNCHANGED <<pc, claim, held, overridden>>, UNCHANGED queue
      PROVE  SecureClaimsAreOnRecord'
  BY <1>2 DEF SecureClaimsAreOnRecord, Secure
<1>3. ASSUME NEW s \in Sigs, SaveArtifact(s) PROVE SecureClaimsAreOnRecord'
  <2>1. SUFFICES ASSUME NEW g \in Holders, Secure(g)' PROVE OnRecord(g)'
    BY DEF SecureClaimsAreOnRecord, OnRecord, E
  <2>2. Same(g) /\ Secure(g) /\ OnRecord(g)
    BY <1>1, <1>3, <2>1 DEF SaveArtifact, Same, Secure
  <2>3. catalog \subseteq catalog' /\ Rebuilding(catalog')
    BY <1>3, RebuiltEntries DEF SaveArtifact
  <2> QED BY <2>2, <2>3, StaysOverRebuild
<1>4. ASSUME NEW w \in Workers, Sync(w) PROVE SecureClaimsAreOnRecord'
  <2>1. SUFFICES ASSUME NEW g \in Holders, Secure(g)' PROVE OnRecord(g)'
    BY DEF SecureClaimsAreOnRecord, OnRecord, E
  <2>2. g # w
    BY <1>4, <2>1 DEF Sync, Secure, TypeOK, Holders
  <2>3. Same(g) /\ Secure(g) /\ OnRecord(g)
    BY <1>1, <1>4, <2>1, <2>2 DEF Sync, Same, Secure, TypeOK
  <2>4. catalog \subseteq catalog' /\ Rebuilding(catalog')
    BY <1>4, RebuiltEntries DEF Sync
  <2> QED BY <2>3, <2>4, StaysOverRebuild
<1>5. ASSUME NEW w \in Workers, Claim(w) PROVE SecureClaimsAreOnRecord'
  BY <1>5, SecureByTake DEF Claim, Holders
<1>6. ASSUME NEW h \in Holders, Die(h) PROVE SecureClaimsAreOnRecord'
  BY <1>6, SecureByDone DEF Die
<1>7. ASSUME NEW w \in Workers, NEW outcome \in WorkerOutcomes, Finish(w, outcome)
      PROVE  SecureClaimsAreOnRecord'
  BY <1>7, OwnerWrites, SecureByDone DEF Finish, Holders
<1>8. ASSUME NEW o \in Operators, ClaimByHand(o) PROVE SecureClaimsAreOnRecord'
  BY <1>8, SecureByTake DEF ClaimByHand, Holders
<1>9. ASSUME NEW o \in Operators, ReleaseByHand(o) PROVE SecureClaimsAreOnRecord'
  BY <1>9, OwnerWrites, SecureByDone DEF ReleaseByHand, Holders
<1>10. ASSUME NEW o \in Operators, NEW outcome \in Outcomes, RequeueByHand(o, outcome)
       PROVE  SecureClaimsAreOnRecord'
  BY <1>10, OwnerWrites, SecureByDone DEF RequeueByHand, Holders
<1>11. ASSUME NEW s \in Sigs, NEW outcome \in Outcomes, AttemptByHand(s, outcome)
       PROVE  SecureClaimsAreOnRecord'
  <2>1. SUFFICES ASSUME NEW g \in Holders, Secure(g)' PROVE OnRecord(g)'
    BY DEF SecureClaimsAreOnRecord, OnRecord, E
  <2>2. overridden'[g] = (overridden[g] \/ (pc[g] = "replaying" /\ claim[g] = s))
    BY <1>11 DEF AttemptByHand
  <2>3. pc' = pc /\ claim' = claim /\ held' = held
    BY <1>11 DEF AttemptByHand
  <2>4. pc[g] = "replaying" /\ held[g] < LeaseTime /\ ~overridden[g] /\ claim[g] # s /\ ~overridden'[g]
    BY <2>1, <2>2, <2>3, Zenon DEF Secure
  <2>5. OnRecord(g)
    BY <1>1, <2>4 DEF Secure
  <2>6. Replacing(s, Recorded(E[s], outcome))
    BY <1>11, FinishedEntries DEF AttemptByHand, E
  <2>7. claim[g] \in DOMAIN E' /\ E'[claim[g]] = E[claim[g]]
    BY <2>4, <2>5, <2>6 DEF Replacing, OnRecord
  <2> QED BY <2>3, <2>5, <2>7 DEF OnRecord
<1>12. ASSUME Tick PROVE SecureClaimsAreOnRecord'
  <2>1. SUFFICES ASSUME NEW g \in Holders, Secure(g)' PROVE OnRecord(g)'
    BY DEF SecureClaimsAreOnRecord, OnRecord, E
  <2>2. pc' = pc /\ claim' = claim /\ overridden' = overridden
    BY <1>12 DEF Tick
  <2>3. held[g] \in Nat /\ LeaseTime \in Nat /\ held'[g] < LeaseTime /\ pc[g] = "replaying"
    BY <2>1, <2>2, QueueAssumption DEF Secure, TypeOK
  <2>4. held'[g] = IF g \in Workers \/ held[g] < LeaseTime THEN held[g] + 1 ELSE held[g]
    BY <1>12, <2>3 DEF Tick
  <2>5. held'[g] = held[g] + 1 /\ held[g] < LeaseTime
    BY <2>3, <2>4
  <2>6. Secure(g) /\ OnRecord(g)
    BY <1>1, <2>1, <2>2, <2>5 DEF Secure
  <2>7. claim[g] \in DOMAIN E' /\ E'[claim[g]] = Aged(E[claim[g]]) /\ E[claim[g]] \in Entry
    BY <1>12, <2>6, AgedEntries DEF OnRecord, TypeOK, E
  <2>8. E[claim[g]].lease > 0
    BY <2>3, <2>5, <2>6 DEF OnRecord
  <2>9. Aged(E[claim[g]]).owner = g /\ Aged(E[claim[g]]).lease = LeaseTime - (held[g] + 1)
    BY <2>3, <2>6, <2>7, <2>8, AgedFacts DEF OnRecord
  <2> QED BY <2>2, <2>5, <2>7, <2>9 DEF OnRecord
<1> QED BY <1>3, <1>4, <1>5, <1>6, <1>7, <1>8, <1>9, <1>10, <1>11, <1>12 DEF Next

-----------------------------------------------------------------------------
(* The theorems.                                                           *)

LEMMA InitInv == Init => IInv
<1> SUFFICES ASSUME Init PROVE IInv
  OBVIOUS
<1>1. DOMAIN E = {} /\ E \in [catalog -> Entry]
  BY DEF Init, EmptyQueue, E
<1>2. 0 \in 0..(LeaseTime + ReplayTime) /\ 0 \in 0..MaxInterventions
  BY QueueAssumption
<1>3. FALSE \in BOOLEAN
  OBVIOUS
<1>4. TypeOK
  BY <1>1, <1>2, <1>3 DEF Init, TypeOK, E
<1>5. \A h \in Holders : ~Secure(h)
  BY DEF Init, Secure
<1> QED BY <1>1, <1>4, <1>5 DEF IInv, SecureClaimsAreOnRecord, RestingIsNotLeased, E

LEMMA StepInv == IInv /\ [Next]_vars => IInv'
<1> SUFFICES ASSUME IInv, [Next]_vars PROVE IInv'
  OBVIOUS
<1>1. CASE Next
  <2>1. Rewriting \/ Tick
    BY <1>1, StepsRewrite DEF IInv
  <2> QED BY <1>1, <2>1, TypeStep, RestingStep, SecureStep DEF IInv
<1>2. CASE UNCHANGED vars
  BY <1>2 DEF vars, IInv, TypeOK, SecureClaimsAreOnRecord, Secure, RestingIsNotLeased
<1> QED BY <1>1, <1>2

(* What is claimed of the queue below holds in every state it can reach.   *)
THEOREM Invariance == Spec => []IInv
  BY InitInv, StepInv, PTL DEF Spec

(* The queue file has one well-formed entry for every saved artifact, and  *)
(* leases, counters and clocks stay in their ranges.                       *)
THEOREM TypeCorrect == Spec => []TypeOK
<1>1. IInv => TypeOK
  BY DEF IInv
<1> QED BY <1>1, Invariance, PTL

(* The lease of a secure claim stays on record over whatever the manager,  *)
(* other workers and operators do to the queue.                            *)
THEOREM ClaimsAreOnRecord == Spec => []SecureClaimsAreOnRecord
<1>1. IInv => SecureClaimsAreOnRecord
  BY DEF IInv
<1> QED BY <1>1, Invariance, PTL

(* Two holders never replay one artifact under claims both of which are    *)
(* secure: an entry names one owner.                                       *)
THEOREM Exclusive == Spec => []ClaimsAreExclusive
<1>1. IInv => ClaimsAreExclusive
  BY DEF IInv, SecureClaimsAreOnRecord, ClaimsAreExclusive
<1> QED BY <1>1, Invariance, PTL

(* A resting entry is never leased.                                        *)
THEOREM RestingIsFree == Spec => []RestingIsNotLeased
<1>1. IInv => RestingIsNotLeased
  BY DEF IInv
<1> QED BY <1>1, Invariance, PTL

(* No entry ever loses an attempt that was counted, nor leaves the queue.  *)
LEMMA AttemptsStayStep == IInv /\ Next => AttemptsStay
<1>1. IInv /\ Next => AttemptsStay
  <2> SUFFICES ASSUME IInv, Next PROVE AttemptsStay
    OBVIOUS
  <2> SUFFICES ASSUME NEW s \in DOMAIN E
               PROVE  s \in DOMAIN E' /\ E'[s].attempts >= E[s].attempts
    BY DEF E, AttemptsStay
  <2>1. E \in [catalog -> Entry] /\ E[s] \in Entry /\ E[s].attempts \in Nat
    BY QueueAssumption DEF IInv, TypeOK, E, Entry
  <2>2. CASE catalog \subseteq catalog' /\ Rebuilding(catalog')
    <3>1. s \in DOMAIN E' /\ E'[s] = Retained(E[s])
      BY <2>1, <2>2 DEF Rebuilding
    <3> QED BY <2>1, <3>1, RetainedFacts
  <2>3. CASE E' = E
    BY <2>1, <2>3
  <2>4. ASSUME NEW t \in DOMAIN E, NEW new, Replacing(t, new), Successor(E[t], new)
        PROVE  s \in DOMAIN E' /\ E'[s].attempts >= E[s].attempts
    <3>1. s \in DOMAIN E' /\ E'[s] = IF s = t THEN new ELSE E[s]
      BY <2>4 DEF Replacing
    <3> QED BY <2>1, <2>4, <3>1 DEF Successor
  <2>5. CASE Tick
    <3>1. s \in DOMAIN E' /\ E'[s] = Aged(E[s])
      BY <2>1, <2>5, AgedEntries DEF IInv
    <3> QED BY <2>1, <3>1, AgedFacts
  <2> QED BY <2>2, <2>3, <2>4, <2>5, StepsRewrite DEF IInv, Rewriting
<1> QED BY <1>1

(* A worker that finishes while its claim is secure has its outcome        *)
(* recorded: the attempt is counted and the lease is given up.             *)
LEMMA OutcomesCountStep == IInv /\ Next => OutcomesCount
<1>1. IInv /\ Next => OutcomesCount
  <2> SUFFICES ASSUME IInv, Next PROVE OutcomesCount
    OBVIOUS
  <2> SUFFICES ASSUME NEW w \in Workers, Secure(w), pc'[w] = "idle", interventions' = interventions
               PROVE  /\ E'[claim[w]].attempts = Least(E[claim[w]].attempts + 1, AttemptsCap)
                      /\ E'[claim[w]].outcome # "none"
                      /\ ~Leased(E'[claim[w]])
    BY DEF E, OutcomesCount
  <2>1. pc \in [Holders -> {"idle", "synced", "replaying"}] /\ pc[w] = "replaying" /\ w \in Holders
        /\ w \notin Operators
    BY QueueAssumption DEF IInv, TypeOK, Secure, Holders
  <2>2. OnRecord(w) /\ Owns(queue, w, claim[w]) /\ claim[w] \in DOMAIN E /\ E[claim[w]] \in Entry
    BY <2>1 DEF IInv, SecureClaimsAreOnRecord, OnRecord, Owns, TypeOK, E
  <2>3. ~Intervene
    BY DEF Intervene, IInv, TypeOK
  <2>4. PICK outcome \in WorkerOutcomes : Finish(w, outcome)
    <3>1. ASSUME NEW v \in Holders, v # w, pc' = [pc EXCEPT ![v] = "idle"] PROVE FALSE
      BY <2>1, <3>1
    <3>2. ASSUME NEW v \in Workers, NEW outcome \in WorkerOutcomes, Finish(v, outcome)
          PROVE  v = w
      BY <3>1, <3>2 DEF Finish, Done, Holders
    <3>3. ASSUME NEW o \in Operators, Done(o) PROVE FALSE
      BY <2>1, <3>1, <3>3 DEF Done, Holders
    <3>4. ASSUME NEW v \in Workers, Sync(v) PROVE FALSE
      BY <2>1, <3>4 DEF Sync, Holders
    <3>5. ASSUME NEW v \in Workers, Claim(v) PROVE FALSE
      BY <2>1, <3>5 DEF Claim, Take, Holders
    <3> QED BY <2>1, <2>3, <3>2, <3>3, <3>4, <3>5
            DEF Next, SaveArtifact, Die, ClaimByHand, ReleaseByHand, RequeueByHand,
                AttemptByHand, Tick
  <2>5. Replacing(claim[w], Recorded(E[claim[w]], outcome))
    BY <2>2, <2>4, FinishedEntries DEF Finish
  <2>6. E'[claim[w]] = Recorded(E[claim[w]], outcome)
    BY <2>5 DEF Replacing
  <2> QED BY <2>2, <2>6, RecordedFacts DEF WorkerOutcomes
<1> QED BY <1>1

(* What a replay found is not lost: the outcome of a secure claim counts,  *)
(* and counted attempts stay.                                              *)
THEOREM OutcomesAreNeverLost == Spec => OutcomesAreKept
<1>1. IInv /\ [Next]_vars => [OutcomesCount /\ AttemptsStay]_vars
  BY AttemptsStayStep, OutcomesCountStep
<1> QED BY <1>1, Invariance, PTL DEF Spec, OutcomesAreKept

-----------------------------------------------------------------------------
(* The stored order: entries can always be sorted, and a queue that was    *)
(* written is.                                                             *)

LEMMA Smallest ==
    ASSUME NEW S \in SUBSET Nat, S # {}
    PROVE  \E m \in S : \A n \in S : m <= n
<1> DEFINE R == OpToRel(<, Nat)
<1>1. IsWellFoundedOn(R, Nat)  BY NatLessThanWellFounded
<1>2. \A m, n \in Nat : <<n, m>> \in R <=> n < m  BY DEF OpToRel
<1> HIDE DEF R
<1>3. PICK m \in S : \A n \in S : <<n, m>> \notin R  BY <1>1, WFMin
<1>4. \A n \in S : n \in Nat /\ m \in Nat /\ ~(n < m)
  BY <1>2, <1>3
<1> QED BY <1>4

(* Keys are compared by the first criterion in which they differ.          *)
SortKeys == [1 .. 7 -> Nat]

LEMMA SortKeyType ==
    ASSUME NEW s, NEW e \in Entry
    PROVE  /\ SortKey(s, e) \in SortKeys
           /\ SortKey(s, e)[1] = Flag(Leased(e)) /\ SortKey(s, e)[2] = Flag(Resting(e))
<1>1. \A b : Flag(b) \in Nat
  BY DEF Flag
<1>2. e.backoff \in Nat /\ OutcomeRank(e.outcome) \in Nat
  BY DEF Entry, OutcomeRank
<1> QED BY <1>1, <1>2 DEF SortKey, SortKeys

LEMMA LexLessOrders ==
    /\ \A a \in SortKeys : ~LexLess(a, a)
    /\ \A a, b, c \in SortKeys : LexLess(a, b) /\ LexLess(b, c) => LexLess(a, c)
<1>1. ASSUME NEW a \in SortKeys, LexLess(a, a) PROVE FALSE
  BY <1>1 DEF LexLess, SortKeys
<1>2. ASSUME NEW a \in SortKeys, NEW b \in SortKeys, NEW c \in SortKeys,
             LexLess(a, b), LexLess(b, c)
      PROVE  LexLess(a, c)
  <2>1. PICK i \in 1 .. 7 : a[i] < b[i] /\ \A k \in 1 .. (i - 1) : a[k] = b[k]
    BY <1>2 DEF LexLess, SortKeys
  <2>2. PICK j \in 1 .. 7 : b[j] < c[j] /\ \A k \in 1 .. (j - 1) : b[k] = c[k]
    BY <1>2 DEF LexLess, SortKeys
  <2>3. \A k \in 1 .. 7 : a[k] \in Nat /\ b[k] \in Nat /\ c[k] \in Nat
    BY DEF SortKeys
  <2>4. DOMAIN a = 1 .. 7
    BY DEF SortKeys
  <2>5. CASE i < j
    <3>1. a[i] < c[i] /\ \A k \in 1 .. (i - 1) : a[k] = c[k]
      BY <2>1, <2>2, <2>3, <2>5
    <3> QED BY <2>4, <3>1 DEF LexLess
  <2>6. CASE i >= j
    <3>1. a[j] < c[j] /\ \A k \in 1 .. (j - 1) : a[k] = c[k]
      BY <2>1, <2>2, <2>3, <2>6
    <3> QED BY <2>4, <3>1 DEF LexLess
  <2> QED BY <2>5, <2>6
<1> QED BY <1>1, <1>2

(* Among finitely many entries one is last.                                *)
LEMMA SomeLast ==
    ASSUME NEW n \in Nat
    PROVE  \A S : \A key \in [S -> SortKeys] :
              IsFiniteSet(S) /\ Cardinality(S) = n /\ S # {}
                  => \E m \in S : \A s \in S : ~LexLess(key[m], key[s])
<1> DEFINE Good(S, key) == \E m \in S : \A s \in S : ~LexLess(key[m], key[s])
           Bad == {k \in Nat : \E S : \E key \in [S -> SortKeys] :
                     IsFiniteSet(S) /\ Cardinality(S) = k /\ S # {} /\ ~Good(S, key)}
<1>1. ASSUME Bad # {} PROVE FALSE
  <2>1. PICK k \in Bad : \A j \in Bad : k <= j
    <3>1. Bad \in SUBSET Nat
      OBVIOUS
    <3> HIDE DEF Bad
    <3> QED BY <1>1, <3>1, Smallest
  <2>2. PICK S : \E key \in [S -> SortKeys] :
           IsFiniteSet(S) /\ Cardinality(S) = k /\ S # {} /\ ~Good(S, key)
    OBVIOUS
  <2>3. PICK key \in [S -> SortKeys] :
           IsFiniteSet(S) /\ Cardinality(S) = k /\ S # {} /\ ~Good(S, key)
    BY <2>2
  <2>4. PICK x \in S : TRUE
    BY <2>3
  <2> DEFINE T == S \ {x}
             low == [s \in T |-> key[s]]
  <2>5. IsFiniteSet(T) /\ Cardinality(T) = k - 1 /\ k - 1 \in Nat
    <3>1. IsFiniteSet(T) /\ Cardinality(T) = k - 1
      BY <2>3, <2>4, FS_RemoveElement
    <3>2. Cardinality(T) \in Nat
      BY <3>1, FS_CardinalityType
    <3> QED BY <3>1, <3>2
  <2>6. CASE T = {}
    <3>1. S = {x}
      BY <2>4, <2>6
    <3> QED BY <2>3, <3>1, LexLessOrders
  <2>7. CASE T # {}
    <3>1. low \in [T -> SortKeys]
      OBVIOUS
    <3>2. k - 1 \notin Bad
      BY <2>1, <2>5
    <3>3. Good(T, low)
      <4> HIDE DEF T, low, Good
      <4> QED BY <2>5, <2>7, <3>1, <3>2
    <3>4. PICK m \in T : \A s \in T : ~LexLess(key[m], key[s])
      BY <3>3
    <3>5. CASE LexLess(key[m], key[x])
      <4>1. \A s \in S : ~LexLess(key[x], key[s])
        BY <3>4, <3>5, LexLessOrders
      <4> QED BY <2>3, <2>4, <4>1
    <3>6. CASE ~LexLess(key[m], key[x])
      <4>1. \A s \in S : ~LexLess(key[m], key[s])
        BY <3>4, <3>6
      <4> QED BY <2>3, <4>1
    <3> QED BY <3>5, <3>6
  <2> QED BY <2>6, <2>7
<1>2. SUFFICES ASSUME NEW S, NEW key \in [S -> SortKeys],
                      IsFiniteSet(S), Cardinality(S) = n, S # {}
               PROVE  Good(S, key)
  OBVIOUS
<1>3. n \notin Bad
  BY <1>1
<1> HIDE DEF Good
<1> QED BY <1>2, <1>3

(* An order of the entries S by their keys.                                *)
Orders(S, key) ==
    {f \in [1 .. Cardinality(S) -> S] :
        /\ \A s \in S : \E i \in 1 .. Cardinality(S) : f[i] = s
        /\ \A i \in 1 .. Cardinality(S) : \A j \in 1 .. (i - 1) : ~LexLess(key[f[i]], key[f[j]])}

LEMMA SomeOrder ==
    ASSUME NEW S, IsFiniteSet(S), NEW key \in [S -> SortKeys]
    PROVE  Orders(S, key) # {}
<1> DEFINE Bad == {k \in Nat : \E T \in SUBSET S :
                     IsFiniteSet(T) /\ Cardinality(T) = k /\ Orders(T, [s \in T |-> key[s]]) = {}}
<1>1. ASSUME Bad # {} PROVE FALSE
  <2>1. PICK k \in Bad : \A j \in Bad : k <= j
    <3>1. Bad \in SUBSET Nat
      OBVIOUS
    <3> HIDE DEF Bad
    <3> QED BY <1>1, <3>1, Smallest
  <2>2. PICK T \in SUBSET S :
           IsFiniteSet(T) /\ Cardinality(T) = k /\ Orders(T, [s \in T |-> key[s]]) = {}
    OBVIOUS
  <2>3. k \in Nat
    BY <2>1
  <2> DEFINE high == [s \in T |-> key[s]]
  <2>4. CASE T = {}
    <3>1. k = 0 /\ 1 .. k = {}
      BY <2>2, <2>4, FS_EmptySet
    <3>2. [i \in 1 .. k |-> i] \in Orders(T, high)
      BY <2>2, <2>4, <3>1 DEF Orders
    <3> QED BY <2>2, <3>2
  <2>5. CASE T # {}
    <3>1. high \in [T -> SortKeys]
      OBVIOUS
    <3>2. PICK m \in T : \A s \in T : ~LexLess(high[m], high[s])
      <4> HIDE DEF high
      <4> QED BY <2>2, <2>3, <2>5, <3>1, SomeLast
    <3> DEFINE U == T \ {m}
               low == [s \in U |-> key[s]]
    <3>3. IsFiniteSet(U) /\ Cardinality(U) = k - 1 /\ k - 1 \in Nat
      <4>1. IsFiniteSet(U) /\ Cardinality(U) = k - 1
        BY <2>2, <3>2, FS_RemoveElement
      <4>2. Cardinality(U) \in Nat
        BY <4>1, FS_CardinalityType
      <4> QED BY <4>1, <4>2
    <3>4. k - 1 \notin Bad
      BY <2>1, <3>3
    <3>5. Orders(U, low) # {}
      <4>1. U \in SUBSET S
        OBVIOUS
      <4> HIDE DEF U
      <4> QED BY <3>3, <3>4, <4>1
    <3>6. PICK f : f \in Orders(U, low)
      BY <3>5
    <3>7. /\ f \in [1 .. k - 1 -> U]
          /\ \A s \in U : \E i \in 1 .. k - 1 : f[i] = s
          /\ \A i \in 1 .. k - 1 : \A j \in 1 .. (i - 1) : ~LexLess(low[f[i]], low[f[j]])
      BY <3>3, <3>6 DEF Orders
    <3> DEFINE g == [i \in 1 .. k |-> IF i = k THEN m ELSE f[i]]
    <3>8. g \in [1 .. k -> T]
      BY <2>3, <3>2, <3>7
    <3>9. \A s \in T : \E i \in 1 .. k : g[i] = s
      <4>1. SUFFICES ASSUME NEW s \in T PROVE \E i \in 1 .. k : g[i] = s
        OBVIOUS
      <4>2. CASE s = m
        BY <3>3, <4>2
      <4>3. CASE s # m
        <5>1. PICK i \in 1 .. k - 1 : f[i] = s
          BY <3>7, <4>3
        <5> QED BY <3>3, <5>1
      <4> QED BY <4>2, <4>3
    <3>10. ASSUME NEW i \in 1 .. k, NEW j \in 1 .. (i - 1)
           PROVE  ~LexLess(high[g[i]], high[g[j]])
      <4>1. j \in 1 .. k - 1 /\ g[j] = f[j] /\ f[j] \in U
        BY <3>3, <3>7
      <4>2. CASE i = k
        BY <3>2, <3>3, <4>1, <4>2
      <4>3. CASE i # k
        <5>1. i \in 1 .. k - 1 /\ g[i] = f[i] /\ f[i] \in U
          BY <3>3, <3>7, <4>3
        <5>2. ~LexLess(low[f[i]], low[f[j]])
          BY <3>7, <5>1
        <5> QED BY <4>1, <5>1, <5>2
      <4> QED BY <4>2, <4>3
    <3>11. g \in Orders(T, high)
      <4> HIDE DEF g, high
      <4> QED BY <2>2, <3>8, <3>9, <3>10 DEF Orders
    <3> QED BY <2>2, <3>11
  <2> QED BY <2>4, <2>5
<1>2. Cardinality(S) \in Nat /\ Cardinality(S) \notin Bad
  BY <1>1, FS_CardinalityType
<1>3. [s \in S |-> key[s]] = key
  OBVIOUS
<1> QED BY <1>2, <1>3

(* The entries of a queue can be sorted, ...                               *)
LEMMA SomeSorted ==
    ASSUME NEW S, IsFiniteSet(S), NEW entries \in [S -> Entry]
    PROVE  Sorted(entries) # {}
<1> DEFINE key == [s \in S |-> SortKey(s, entries[s])]
<1>1. key \in [S -> SortKeys]
  BY SortKeyType
<1>2. PICK f : f \in Orders(S, key)
  <2> HIDE DEF key
  <2> QED BY <1>1, SomeOrder
<1>3. DOMAIN entries = S
  OBVIOUS
<1>4. [entries |-> entries, order |-> f] \in Sorted(entries)
  BY <1>2, <1>3 DEF Sorted, Orders
<1> QED BY <1>4

(* ... and what is stored is an order of all of them, in which none comes  *)
(* after one that its key would put it before.                             *)
Ordered(q) ==
    /\ q.order \in [1 .. Cardinality(DOMAIN q.entries) -> DOMAIN q.entries]
    /\ \A s \in DOMAIN q.entries : \E i \in 1 .. Cardinality(DOMAIN q.entries) : q.order[i] = s

LEMMA SortedOrdered ==
    ASSUME NEW entries, NEW q \in Sorted(entries)
    PROVE  q.entries = entries /\ Ordered(q)
<1> DEFINE n == Cardinality(DOMAIN entries)
<1>1. PICK f \in [1 .. n -> DOMAIN entries] :
         /\ q = [entries |-> entries, order |-> f]
         /\ \A s \in DOMAIN entries : \E i \in 1 .. n : f[i] = s
  BY DEF Sorted
<1> QED BY <1>1 DEF Ordered

LEMMA SortedByKey ==
    ASSUME NEW entries, IsFiniteSet(DOMAIN entries), NEW q \in Sorted(entries),
           NEW i \in 1 .. Cardinality(DOMAIN entries), NEW j \in 1 .. (i - 1)
    PROVE  LET s == q.order[i]
               t == q.order[j]
           IN  s \in DOMAIN entries /\ t \in DOMAIN entries
               /\ ~LexLess(SortKey(s, entries[s]), SortKey(t, entries[t]))
<1> DEFINE n == Cardinality(DOMAIN entries)
           key == [s \in DOMAIN entries |-> SortKey(s, entries[s])]
<1>1. PICK f \in [1 .. n -> DOMAIN entries] :
         /\ q = [entries |-> entries, order |-> f]
         /\ \A k \in 1 .. n : \A m \in 1 .. (k - 1) : ~LexLess(key[f[k]], key[f[m]])
  BY DEF Sorted
<1>2. n \in Nat
  BY FS_CardinalityType
<1>3. j \in 1 .. n
  BY <1>2
<1>4. f[i] \in DOMAIN entries /\ f[j] \in DOMAIN entries /\ q.order = f
  BY <1>1, <1>3
<1>5. ~LexLess(key[f[i]], key[f[j]])
  BY <1>1
<1> QED BY <1>4, <1>5

(* An operation finds an entry among those it looks for if there is one.   *)
LEMMA FirstFinds ==
    ASSUME NEW q, Ordered(q), IsFiniteSet(DOMAIN q.entries), NEW sigs \in SUBSET (DOMAIN q.entries)
    PROVE  First(q, sigs) = {} <=> sigs = {}
<1> DEFINE n == Cardinality(DOMAIN q.entries)
           places == {i \in 1 .. n : q.order[i] \in sigs}
<1>1. n \in Nat /\ DOMAIN q.order = 1 .. n
  BY FS_CardinalityType DEF Ordered
<1>2. First(q, sigs) \subseteq sigs
  BY DEF First
<1>3. ASSUME NEW s \in sigs PROVE First(q, sigs) # {}
  <2>1. places \in SUBSET Nat
    BY <1>1
  <2>2. places # {}
    BY <1>3 DEF Ordered
  <2>3. PICK i \in places : \A k \in places : i <= k
    <3> HIDE DEF places
    <3> QED BY <2>1, <2>2, Smallest
  <2>4. i \in 1 .. n /\ q.order[i] \in sigs
    BY <2>3
  <2>5. \A k \in 1 .. (i - 1) : q.order[k] \notin sigs
    BY <1>1, <2>3
  <2>6. q.order[i] \in First(q, sigs)
    BY <1>1, <2>4, <2>5 DEF First
  <2> QED BY <2>6
<1> QED BY <1>2, <1>3

(* The queue on file always is so ordered, and finite.                     *)
Stored == IsFiniteSet(catalog) /\ Ordered(queue)

LEMMA StoredStep ==
    ASSUME TypeOK, Stored, [Next]_vars PROVE Stored'
<1>1. ASSUME NEW entries, queue' \in Sorted(entries) PROVE Ordered(queue')
  BY <1>1, SortedOrdered
<1>2. ASSUME NEW s, catalog' = catalog \cup {s} PROVE IsFiniteSet(catalog')
  BY <1>2, FS_AddElement DEF Stored
<1>3. ASSUME NEW s \in Sigs, SaveArtifact(s) PROVE Stored'
  BY <1>1, <1>2, <1>3 DEF SaveArtifact, Rebuilt, Stored
<1>4. ASSUME catalog' = catalog, Ordered(queue') PROVE Stored'
  BY <1>4 DEF Stored
<1>5. ASSUME catalog' = catalog, queue' = queue PROVE Stored'
  BY <1>5 DEF Stored
<1>6. ASSUME NEW w \in Workers, Sync(w) PROVE Stored'
  BY <1>1, <1>4, <1>6 DEF Sync, Rebuilt
<1>7. ASSUME NEW h \in Holders, Take(h), catalog' = catalog PROVE Stored'
  BY <1>1, <1>4, <1>5, <1>7 DEF Take, Claimed
<1>8. ASSUME NEW w \in Workers, Claim(w) PROVE Stored'
  BY <1>7, <1>8 DEF Claim, Holders
<1>9. ASSUME NEW w \in Workers, NEW outcome \in WorkerOutcomes, Finish(w, outcome) PROVE Stored'
  BY <1>1, <1>4, <1>5, <1>9 DEF Finish, Finished
<1>10. ASSUME NEW h \in Holders, Die(h) PROVE Stored'
  BY <1>5, <1>10 DEF Die
<1>11. ASSUME NEW o \in Operators, ClaimByHand(o) PROVE Stored'
  BY <1>7, <1>11 DEF ClaimByHand, Holders
<1>12. ASSUME NEW o \in Operators, ReleaseByHand(o) PROVE Stored'
  BY <1>1, <1>4, <1>5, <1>12 DEF ReleaseByHand, Freed
<1>13. ASSUME NEW o \in Operators, NEW outcome \in Outcomes, RequeueByHand(o, outcome) PROVE Stored'
  BY <1>1, <1>4, <1>5, <1>13 DEF RequeueByHand, Finished
<1>14. ASSUME NEW s \in Sigs, NEW outcome \in Outcomes, AttemptByHand(s, outcome) PROVE Stored'
  BY <1>1, <1>4, <1>14 DEF AttemptByHand, Finished
<1>15. ASSUME Tick PROVE Stored'
  <2>1. /\ catalog' = catalog /\ queue'.order = queue.order
        /\ DOMAIN queue'.entries = DOMAIN queue.entries
    BY <1>15 DEF Tick
  <2> QED BY <2>1 DEF Stored, Ordered
<1>16. ASSUME UNCHANGED vars PROVE Stored'
  BY <1>5, <1>16 DEF vars
<1> QED BY <1>3, <1>6, <1>8, <1>9, <1>10, <1>11, <1>12, <1>13, <1>14, <1>15, <1>16 DEF Next

LEMMA InitStored == Init => Stored
<1> SUFFICES ASSUME Init PROVE Stored
  OBVIOUS
<1>1. DOMAIN queue.entries = {} /\ queue.order = <<>> /\ catalog = {}
  BY DEF Init, EmptyQueue
<1>2. Cardinality(DOMAIN queue.entries) = 0 /\ IsFiniteSet(catalog)
  BY <1>1, FS_EmptySet
<1>3. 1 .. 0 = {} /\ <<>> \in [{} -> {}]
  OBVIOUS
<1> QED BY <1>1, <1>2, <1>3 DEF Stored, Ordered

-----------------------------------------------------------------------------
(* What the commands show.                                                 *)

Free == {s \in DOMAIN E : Claimable(E[s])}

LEMMA DisjointUnion ==
    ASSUME NEW S, IsFiniteSet(S), NEW T, IsFiniteSet(T), S \cap T = {}
    PROVE  /\ IsFiniteSet(S \cup T)
           /\ Cardinality(S) \in Nat /\ Cardinality(T) \in Nat
           /\ Cardinality(S \cup T) = Cardinality(S) + Cardinality(T)
<1>1. /\ IsFiniteSet(S \cup T)
      /\ Cardinality(S \cup T) = Cardinality(S) + Cardinality(T) - Cardinality(S \cap T)
  BY FS_Union
<1>2. Cardinality(S \cap T) = 0
  BY FS_EmptySet
<1>3. Cardinality(S) \in Nat /\ Cardinality(T) \in Nat
  BY FS_CardinalityType
<1> QED BY <1>1, <1>2, <1>3

LEMMA SummaryAddsUp ==
    ASSUME TypeOK, Stored, RestingIsNotLeased
    PROVE  LET summary == Summary(E)
           IN  /\ summary.claimable + summary.leased + summary.backed_off = summary.total
               /\ summary.claimable = 0 <=> Free = {}
<1> DEFINE leased == {s \in DOMAIN E : Leased(E[s])}
           resting == {s \in DOMAIN E : Resting(E[s])}
<1>1. IsFiniteSet(DOMAIN E)
  BY DEF TypeOK, Stored, E
<1>2. IsFiniteSet(leased) /\ IsFiniteSet(resting) /\ IsFiniteSet(Free)
  <2>1. leased \in SUBSET (DOMAIN E) /\ resting \in SUBSET (DOMAIN E) /\ Free \in SUBSET (DOMAIN E)
    BY DEF Free
  <2> HIDE DEF leased, resting
  <2> QED BY <1>1, <2>1, FS_Subset
<1>3. /\ DOMAIN E = (leased \cup resting) \cup Free
      /\ leased \cap resting = {} /\ (leased \cup resting) \cap Free = {}
  BY DEF Free, Claimable, RestingIsNotLeased, E
<1> HIDE DEF leased, resting
<1>4. /\ IsFiniteSet(leased \cup resting)
      /\ Cardinality(leased) \in Nat /\ Cardinality(resting) \in Nat
      /\ Cardinality(leased \cup resting) = Cardinality(leased) + Cardinality(resting)
  BY <1>2, <1>3, DisjointUnion
<1>5. Cardinality(Free) \in Nat
  BY <1>2, FS_CardinalityType
<1>6. Cardinality(DOMAIN E) = Cardinality(leased \cup resting) + Cardinality(Free)
  <2> DEFINE busy == leased \cup resting
  <2>1. IsFiniteSet(busy) /\ IsFiniteSet(Free) /\ busy \cap Free = {} /\ DOMAIN E = busy \cup Free
    BY <1>2, <1>3, <1>4
  <2> HIDE DEF busy
  <2>2. Cardinality(DOMAIN E) = Cardinality(busy) + Cardinality(Free)
    BY <2>1, DisjointUnion
  <2> QED BY <2>2 DEF busy
<1>7. Cardinality(Free) = 0 <=> Free = {}
  BY <1>2, FS_EmptySet
<1>8. /\ Summary(E).total = Cardinality(DOMAIN E) /\ Summary(E).claimable = Cardinality(Free)
      /\ Summary(E).leased = Cardinality(leased) /\ Summary(E).backed_off = Cardinality(resting)
  BY DEF Summary, Free, leased, resting
<1> QED BY <1>4, <1>5, <1>6, <1>7, <1>8

(* What the commands materialize: the entries with the leases in force.    *)
Current == [s \in DOMAIN E |-> Retained(E[s])]

LEMMA CurrentFacts ==
    ASSUME TypeOK, Stored
    PROVE  /\ Current \in [DOMAIN E -> Entry] /\ IsFiniteSet(DOMAIN E)
           /\ DOMAIN Current = DOMAIN E
           /\ Materialized(queue) = Sorted(Current) /\ Materialized(queue) # {}
           /\ \A s \in DOMAIN E :
                 /\ Leased(Current[s]) <=> Leased(E[s])
                 /\ Resting(Current[s]) <=> Resting(E[s])
                 /\ Current[s].owner = None <=> ~Leased(E[s])
<1>1. E \in [catalog -> Entry] /\ DOMAIN E = catalog /\ IsFiniteSet(DOMAIN E)
  BY DEF TypeOK, Stored, E
<1>2. \A s \in DOMAIN E : E[s] \in Entry
  BY <1>1
<1>3. Current \in [DOMAIN E -> Entry] /\ DOMAIN Current = DOMAIN E
  BY <1>2, RetainedFacts DEF Current
<1>4. Materialized(queue) = Sorted(Current)
  BY DEF Materialized, Current, E
<1>5. Sorted(Current) # {}
  BY <1>1, <1>3, SomeSorted
<1>6. ASSUME NEW s \in DOMAIN E
      PROVE  /\ Leased(Current[s]) <=> Leased(E[s])
             /\ Resting(Current[s]) <=> Resting(E[s])
             /\ Current[s].owner = None <=> ~Leased(E[s])
  <2>1. Current[s] = Retained(E[s]) /\ E[s] \in Entry
    BY <1>2 DEF Current
  <2>2. CASE Leased(E[s])
    BY <2>1, <2>2, RetainedFacts DEF Leased
  <2>3. CASE ~Leased(E[s])
    <3>1. Retained(E[s]).owner = None
      BY <2>1, <2>3 DEF Retained, Entry
    <3> QED BY <2>1, <2>3, <3>1, RetainedFacts DEF Resting
  <2> QED BY <2>2, <2>3
<1> QED BY <1>1, <1>3, <1>4, <1>5, <1>6

LEMMA PeekShowsFree ==
    ASSUME TypeOK, Stored
    PROVE  Peeked(queue) = {} <=> Free = {}
<1> DEFINE Seen(m) == {s \in DOMAIN m.entries : m.entries[s].owner = None /\ ~Resting(m.entries[s])}
<1>1. ASSUME NEW m \in Materialized(queue)
      PROVE  First(m, Seen(m)) = {} <=> Free = {}
  <2>1. m.entries = Current /\ Ordered(m)
    BY <1>1, CurrentFacts, SortedOrdered
  <2>2. Seen(m) = Free /\ Seen(m) \in SUBSET (DOMAIN m.entries) /\ IsFiniteSet(DOMAIN m.entries)
    BY <2>1, CurrentFacts DEF Free, Claimable
  <2> HIDE DEF Seen
  <2>3. First(m, Seen(m)) = {} <=> Seen(m) = {}
    BY <2>1, <2>2, FirstFinds
  <2> QED BY <2>2, <2>3
<1>2. Peeked(queue) = UNION {First(m, Seen(m)) : m \in Materialized(queue)}
  BY DEF Peeked
<1> HIDE DEF Seen
<1>3. PICK m \in Materialized(queue) : TRUE
  BY CurrentFacts
<1> QED BY <1>1, <1>2, <1>3

LEMMA OfferIsOfFree ==
    ASSUME TypeOK, Stored, NEW h,
           ~\E s \in DOMAIN E : E[s].owner = h /\ Leased(E[s])
    PROVE  Offered(queue, h) = {} <=> Free = {}
<1>1. Offered(queue, h) = First(queue, Free)
  BY DEF Offered, Free, E
<1>2. Ordered(queue) /\ IsFiniteSet(DOMAIN queue.entries) /\ Free \in SUBSET (DOMAIN queue.entries)
  BY DEF Stored, TypeOK, Free, E
<1> QED BY <1>1, <1>2, FirstFinds

LEMMA FreeComesFirst ==
    ASSUME TypeOK, Stored, NEW shown \in Shown(queue, 1),
           NEW s \in DOMAIN E \ {shown[1]}, Claimable(E[s])
    PROVE  Claimable(E[shown[1]])
<1> DEFINE n == Cardinality(DOMAIN E)
<1>1. PICK m \in Sorted(Current) :
         shown = IF Len(m.order) <= 1 THEN m.order ELSE SubSeq(m.order, 1, 1)
  BY CurrentFacts DEF Shown
<1>2. /\ m.order \in [1 .. n -> DOMAIN E] /\ n \in Nat
      /\ \A t \in DOMAIN E : \E i \in 1 .. n : m.order[i] = t
  BY CurrentFacts, SortedOrdered, FS_CardinalityType DEF Ordered
<1> HIDE DEF n
<1>3. shown[1] = m.order[1]
  <2>1. m.order \in Seq(DOMAIN E) /\ Len(m.order) = n
    BY <1>2
  <2>2. n >= 1
    BY <1>2
  <2>3. SubSeq(m.order, 1, 1)[1] = m.order[1]
    BY <2>1, <2>2
  <2> QED BY <1>1, <2>3
<1>4. PICK i \in 1 .. n : m.order[i] = s
  BY <1>2
<1>5. 1 \in 1 .. (i - 1)
  BY <1>2, <1>3, <1>4
<1> DEFINE t == m.order[1]
           a == SortKey(s, Current[s])
           b == SortKey(t, Current[t])
<1>6. t \in DOMAIN E /\ ~LexLess(a, b)
  BY <1>4, <1>5, CurrentFacts, SortedByKey DEF n
<1>7. /\ a \in SortKeys /\ a[1] = 0 /\ a[2] = 0
  BY CurrentFacts, SortKeyType DEF Claimable, Flag
<1>8. /\ b \in SortKeys
      /\ b[1] = IF Leased(E[t]) THEN 1 ELSE 0
      /\ b[2] = IF Resting(E[t]) THEN 1 ELSE 0
  BY <1>6, CurrentFacts, SortKeyType DEF Flag
<1> HIDE DEF a, b, t
<1>9. DOMAIN a = 1 .. 7
  BY <1>7 DEF SortKeys
<1>10. ASSUME Leased(E[t]) PROVE FALSE
  <2>1. 1 \in DOMAIN a /\ a[1] < b[1] /\ \A k \in 1 .. (1 - 1) : a[k] = b[k]
    BY <1>7, <1>8, <1>9, <1>10
  <2> QED BY <1>6, <2>1 DEF LexLess
<1>11. ASSUME ~Leased(E[t]), Resting(E[t]) PROVE FALSE
  <2>1. 2 \in DOMAIN a /\ a[2] < b[2] /\ \A k \in 1 .. (2 - 1) : a[k] = b[k]
    BY <1>7, <1>8, <1>9, <1>11
  <2> QED BY <1>6, <2>1 DEF LexLess
<1>12. Claimable(E[t])
  BY <1>10, <1>11 DEF Claimable
<1> QED BY <1>3, <1>12 DEF t

(* The summary adds up, a peek shows an entry exactly if a claim would be  *)
(* granted one, and what the status leaves out is claimable only if what   *)
(* it shows is (summarize_artifact_repro_queue_entries,                    *)
(* peek_repro_queue_entry, load_repro_queue_snapshot).                     *)
THEOREM CommandsShowTheQueue == Spec => []ShownIsWhatIs
<1>1. Init => IInv /\ Stored
  BY InitInv, InitStored
<1>2. IInv /\ Stored /\ [Next]_vars => (IInv /\ Stored)'
  BY StepInv, StoredStep DEF IInv
<1>3. IInv /\ Stored => ShownIsWhatIs
  <2> SUFFICES ASSUME TypeOK, Stored, RestingIsNotLeased PROVE ShownIsWhatIs
    BY DEF IInv
  <2> DEFINE summary == Summary(queue.entries)
  <2>1. /\ summary.claimable + summary.leased + summary.backed_off = summary.total
        /\ Peeked(queue) = {} <=> summary.claimable = 0
    BY SummaryAddsUp, PeekShowsFree DEF E
  <2>2. \A h \in Holders :
           (~\E s \in DOMAIN queue.entries : queue.entries[s].owner = h /\ Leased(queue.entries[s]))
           => (Peeked(queue) = {} <=> Offered(queue, h) = {})
    BY OfferIsOfFree, PeekShowsFree DEF E
  <2>3. \A shown \in Shown(queue, 1) :
           (\E s \in DOMAIN queue.entries \ {shown[1]} : Claimable(queue.entries[s]))
           => Claimable(queue.entries[shown[1]])
    BY FreeComesFirst DEF E
  <2> QED BY <2>1, <2>2, <2>3 DEF ShownIsWhatIs
<1> QED BY <1>1, <1>2, <1>3, PTL DEF Spec
=============================================================================
