----------------------------- MODULE ReproQueue -----------------------------
(***************************************************************************)
(* The reproduction queue: one entry per saved crash or timeout artifact,  *)
(* which workers claim under a lease, replay, and put back with an outcome *)
(* that decides how long the entry rests.                                  *)
(*                                                                         *)
(* Here an operation on the queue is one step: it loads the file, changes  *)
(* it, sorts the entries and writes the file back.  ReproQueueFiles takes  *)
(* the same operations apart.                                              *)
(***************************************************************************)
EXTENDS QueueEntries

VARIABLES
    queue,         \* [entries: a map from artifacts, order: as stored]
    catalog,       \* the artifacts saved so far
    pc,            \* what each holder is doing
    claim,         \* the artifact each holder claimed last
    held,          \* how long it has been holding it
    overridden,    \* history: an attempt was recorded by hand over the claim
    interventions

vars == <<queue, catalog, pc, claim, held, overridden, interventions>>

-----------------------------------------------------------------------------
Init ==
    /\ queue = EmptyQueue
    /\ catalog = {}
    /\ pc = [h \in Holders |-> "idle"]
    /\ claim = [h \in Holders |-> None]
    /\ held = [h \in Holders |-> 0]
    /\ overridden = [h \in Holders |-> FALSE]
    /\ interventions = 0

Intervene ==
    /\ interventions < MaxInterventions
    /\ interventions' = interventions + 1

(* The manager saves an artifact, a new one or another occurrence: the     *)
(* catalog and the queue are rebuilt.                                      *)
SaveArtifact(s) ==
    /\ catalog' = catalog \cup {s}
    /\ queue' \in Rebuilt(queue, catalog')
    /\ UNCHANGED <<pc, claim, held, overridden, interventions>>

(* A worker starts a round: sync_artifact_catalog, ...                     *)
Sync(w) ==
    /\ pc[w] = "idle"
    /\ queue' \in Rebuilt(queue, catalog)
    /\ pc' = [pc EXCEPT ![w] = "synced"]
    /\ UNCHANGED <<catalog, claim, held, overridden, interventions>>

(* ... then claim_repro_queue_entry.                                       *)
Take(h) ==
    \/ \E s \in Offered(queue, h) :
          /\ queue' \in Claimed(queue, h, s)
          /\ claim' = [claim EXCEPT ![h] = s]
          /\ held' = [held EXCEPT ![h] = 0]
          /\ overridden' = [overridden EXCEPT ![h] = FALSE]
          /\ pc' = [pc EXCEPT ![h] = "replaying"]
    \/ /\ Offered(queue, h) = {}
       /\ pc' = [pc EXCEPT ![h] = "idle"]
       /\ UNCHANGED <<queue, claim, held, overridden>>

Claim(w) ==
    /\ pc[w] = "synced"
    /\ Take(w)
    /\ UNCHANGED <<catalog, interventions>>

Done(h) ==
    /\ pc' = [pc EXCEPT ![h] = "idle"]
    /\ claim' = [claim EXCEPT ![h] = None]
    /\ held' = [held EXCEPT ![h] = 0]
    /\ overridden' = [overridden EXCEPT ![h] = FALSE]

(* finish_claim: requeue_repro_queue_claim and, if the entry is not the    *)
(* worker's any more, release_repro_queue_claim, whose refusal is ignored. *)
Finish(w, outcome) ==
    /\ pc[w] = "replaying"
    /\ \/ Owns(queue, w, claim[w]) /\ queue' \in Finished(queue, claim[w], outcome)
       \/ ~Owns(queue, w, claim[w]) /\ UNCHANGED queue
    /\ Done(w)
    /\ UNCHANGED <<catalog, interventions>>

(* A worker process dies, or an operator walks away from a claim; either   *)
(* may start over under the same id.                                       *)
Die(h) ==
    /\ pc[h] # "idle"
    /\ Intervene
    /\ Done(h)
    /\ UNCHANGED <<queue, catalog>>

(* repro-queue claim, release and requeue, given by hand.                  *)
ClaimByHand(o) ==
    /\ pc[o] = "idle"
    /\ Intervene
    /\ Take(o)
    /\ UNCHANGED catalog

ReleaseByHand(o) ==
    /\ pc[o] = "replaying"
    /\ \/ Owns(queue, o, claim[o]) /\ queue' \in Freed(queue, claim[o])
       \/ ~Owns(queue, o, claim[o]) /\ UNCHANGED queue
    /\ Done(o)
    /\ UNCHANGED <<catalog, interventions>>

RequeueByHand(o, outcome) ==
    /\ pc[o] = "replaying"
    /\ \/ Owns(queue, o, claim[o]) /\ queue' \in Finished(queue, claim[o], outcome)
       \/ ~Owns(queue, o, claim[o]) /\ UNCHANGED queue
    /\ Done(o)
    /\ UNCHANGED <<catalog, interventions>>

(* repro-queue attempt: no owner is asked for, and the lease is cleared.   *)
AttemptByHand(s, outcome) ==
    /\ s \in DOMAIN queue.entries
    /\ Intervene
    /\ queue' \in Finished(queue, s, outcome)
    /\ overridden' = [h \in Holders |->
          overridden[h] \/ (pc[h] = "replaying" /\ claim[h] = s)]
    /\ UNCHANGED <<catalog, pc, claim, held>>

(* Time passes, but no worker holds a claim for longer than ReplayTime; an *)
(* operator may, beyond LeaseTime it makes no difference.                  *)
Tick ==
    /\ \A w \in Workers : pc[w] = "replaying" => held[w] < ReplayTime
    /\ held' = [h \in Holders |->
          IF pc[h] = "replaying" /\ (h \in Workers \/ held[h] < LeaseTime)
          THEN held[h] + 1 ELSE held[h]]
    /\ queue' = [entries |-> [s \in DOMAIN queue.entries |-> Aged(queue.entries[s])],
                 order |-> queue.order]
    /\ UNCHANGED <<catalog, pc, claim, overridden, interventions>>

Next ==
    \/ \E s \in Sigs : SaveArtifact(s)
    \/ \E w \in Workers : Sync(w) \/ Claim(w)
    \/ \E h \in Holders : Die(h)
    \/ \E w \in Workers, outcome \in WorkerOutcomes : Finish(w, outcome)
    \/ \E o \in Operators : ClaimByHand(o) \/ ReleaseByHand(o)
    \/ \E o \in Operators, outcome \in Outcomes : RequeueByHand(o, outcome)
    \/ \E s \in Sigs, outcome \in Outcomes : AttemptByHand(s, outcome)
    \/ Tick

Spec == Init /\ [][Next]_vars

(* The scheduling the liveness property needs: workers are run again and   *)
(* again, a replay comes to an end, and time passes.                       *)
Fairness ==
    /\ \A w \in Workers :
          WF_vars(Sync(w)) /\ WF_vars(Claim(w)) /\ WF_vars(\E outcome \in WorkerOutcomes : Finish(w, outcome))
    /\ WF_vars(Tick)

FairSpec == Spec /\ Fairness

-----------------------------------------------------------------------------
TypeOK ==
    /\ queue.entries \in [catalog -> Entry]
    /\ catalog \subseteq Sigs
    /\ pc \in [Holders -> {"idle", "synced", "replaying"}]
    /\ claim \in [Holders -> Sigs \cup {None}]
    /\ held \in [Holders -> 0..(LeaseTime + ReplayTime)]
    /\ overridden \in [Holders -> BOOLEAN]
    /\ interventions \in 0..MaxInterventions

(* A claim h works under: its lease has not run out, and nobody recorded   *)
(* an attempt over it.                                                     *)
Secure(h) == pc[h] = "replaying" /\ held[h] < LeaseTime /\ ~overridden[h]

(* As long as a claim is secure, the queue says so, for as long as the     *)
(* holder believes, whatever rebuilds, claims, deaths and restarts of      *)
(* other processes happen in between.                                      *)
SecureClaimsAreOnRecord ==
    \A h \in Holders : Secure(h) =>
        /\ claim[h] \in DOMAIN queue.entries
        /\ queue.entries[claim[h]].owner = h
        /\ queue.entries[claim[h]].lease = LeaseTime - held[h]

(* An artifact is never replayed under two secure claims.                  *)
ClaimsAreExclusive ==
    \A g, h \in Holders : Secure(g) /\ Secure(h) /\ claim[g] = claim[h] => g = h

(* An entry that has to rest is not leased: a lease is never granted over  *)
(* a backoff, and an attempt recorded by hand ends the lease it finds.     *)
RestingIsNotLeased ==
    \A s \in DOMAIN queue.entries : ~(Leased(queue.entries[s]) /\ Resting(queue.entries[s]))

(* What the commands show is what a claim would meet: the entries are      *)
(* claimable, leased or backed off, and no two of these; peek shows an     *)
(* entry if and only if a claim by somebody without a lease is granted     *)
(* one; and where the status shows fewer entries than there are, those it  *)
(* leaves out are claimable only if all it shows are.                      *)
ShownIsWhatIs ==
    LET summary == Summary(queue.entries)
        Free(s) == Claimable(queue.entries[s])
    IN  /\ summary.claimable + summary.leased + summary.backed_off = summary.total
        /\ Peeked(queue) = {} <=> summary.claimable = 0
        /\ \A h \in Holders :
              (~\E s \in DOMAIN queue.entries : queue.entries[s].owner = h /\ Leased(queue.entries[s]))
              => (Peeked(queue) = {} <=> Offered(queue, h) = {})
        /\ queue.order # <<>> => \A shown \in Shown(queue, 1) :
              (\E s \in DOMAIN queue.entries \ {shown[1]} : Free(s)) => Free(shown[1])

(* A worker that finishes a secure claim has its outcome recorded and      *)
(* counted; finish_claim drops an outcome silently otherwise.              *)
OutcomesCount ==
    \A w \in Workers :
          /\ Secure(w) /\ pc'[w] = "idle" /\ interventions' = interventions
          => /\ queue'.entries[claim[w]].attempts
                   = Least(queue.entries[claim[w]].attempts + 1, AttemptsCap)
             /\ queue'.entries[claim[w]].outcome # "none"
             /\ ~Leased(queue'.entries[claim[w]])

(* No rebuild, claim or release forgets an attempt.                        *)
AttemptsStay ==
    \A s \in DOMAIN queue.entries :
          /\ s \in DOMAIN queue'.entries
          /\ queue'.entries[s].attempts >= queue.entries[s].attempts

(* What a replay found is not lost: the outcome of a claim that is secure  *)
(* to its end is counted, and nothing that happens to the queue, by        *)
(* whomever, takes a counted attempt back.                                 *)
OutcomesAreKept == [][OutcomesCount /\ AttemptsStay]_vars

(* Every saved artifact is attempted, if replays end before their leases.  *)
EveryArtifactIsTried ==
    \A s \in Sigs : s \in catalog ~> (s \in catalog /\ queue.entries[s].attempts > 0)
=============================================================================
