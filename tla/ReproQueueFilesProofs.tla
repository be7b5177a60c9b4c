----------------------- MODULE ReproQueueFilesProofs -----------------------
(***************************************************************************)
(* Without races and kills in the middle of an operation, the reads and    *)
(* writes of ReproQueueFiles add up to the operations of ReproQueue, for   *)
(* any artifacts, workers, leases and numbers of deaths; and so what is    *)
(* proved of ReproQueue holds of the files.                                *)
(*                                                                         *)
(* The queue of ReproQueue is the file, or what the one process in the     *)
(* middle of a write is about to put there.  Rebuild, Claim and a Finish   *)
(* that is not refused take effect when the queue is computed; opening and *)
(* writing files, saving metadata and scanning are silent.                 *)
(***************************************************************************)
EXTENDS ReproQueueFiles, TLAPS

-----------------------------------------------------------------------------
(* The invariant.                                                          *)

(* Stages in which a process is busy with files, and those that each kind  *)
(* of process goes through.                                                *)
FileStages == {"catalog", "catalog open", "rebuild", "queue", "queue open"}
WorkerStages == Starts \cup FileStages
ManagerStages == {"idle", "metadata", "update"} \cup FileStages

(* The names of a catalog that is made or was made.                        *)
Names == DOMAIN AbstractQueue.entries

(* What the proof needs of the types of the variables.                     *)
TypeOK ==
    /\ metadata \in [Sigs -> {"absent", "torn", "whole"}]
    /\ stage \in [Procs -> WorkerStages \cup ManagerStages]
    /\ after \in [Procs -> {"idle", "claim", "replaying"}]
    /\ DOMAIN listed = Procs /\ DOMAIN draft = Procs
    /\ DOMAIN claim = Workers
    /\ held \in [Workers -> Nat]

(* Where the manager and a worker can be, and what they do next.           *)
ManagerOK == stage[Manager] \in ManagerStages /\ after[Manager] = "idle"

WorkerOK(w) ==
    /\ stage[w] \in WorkerStages
    /\ stage[w] \in {"catalog", "catalog open", "rebuild"} => after[w] = "claim"
    /\ stage[w] \in Starts => after[w] = "idle"
    /\ Activity(w) # "replaying" => held[w] = 0

StagesOK == ManagerOK /\ \A w \in Workers : WorkerOK(w)

(* One process at a time is in the middle of an operation.                 *)
Alone == \A p, r \in Procs : stage[p] \notin Starts /\ stage[r] \notin Starts => p = r

(* A queue has well-formed entries of artifacts.                           *)
Queue(q) == DOMAIN q.entries \subseteq Sigs /\ q.entries \in [DOMAIN q.entries -> Entry]

(* A worker about to release has been told that its entry belongs to       *)
(* nobody or to another; nothing can change that before it asks again.     *)
QueueOK ==
    /\ Queue(AbstractQueue)
    /\ \A w \in Workers : stage[w] = "release" => ~Owns(AbstractQueue, w, claim[w])

(* What a process has in memory and has done to the files.                 *)
Touched(p) ==
    /\ stage[p] = "catalog open" => catalogFile = Truncated
    /\ stage[p] = "queue open" => queueFile = Truncated
    /\ stage[p] = "rebuild" => LoadedCatalog = listed[p]
    /\ p \in Workers /\ stage[p] \in {"catalog", "catalog open", "rebuild"} => listed[p] = Names

(* artifacts.json lists what the queue has, but while a catalog is being   *)
(* written and until the queue follows it.                                 *)
FilesOK ==
    /\ \A p \in Procs : Touched(p)
    /\ (\A p \in Procs : stage[p] \notin {"catalog open", "rebuild"}) => LoadedCatalog = Names

(* The metadata on disk names what the queue has, but for the artifact     *)
(* that is being saved.                                                    *)
SavingOK ==
    /\ stage[Manager] = "metadata" => saving \in Sigs /\ Scanned \cup {saving} = Names \cup {saving}
    /\ stage[Manager] = "update" => saving \in Sigs /\ Scanned = Names \cup {saving}
    /\ stage[Manager] \in {"catalog", "catalog open", "rebuild"} =>
          listed[Manager] = Scanned /\ \E s \in Sigs : Scanned = Names \cup {s}
    /\ stage[Manager] \in {"idle", "queue", "queue open"} => Scanned = Names

(* The inductive invariant.                                                *)
IInv == TypeOK /\ StagesOK /\ Alone /\ QueueOK /\ FilesOK /\ SavingOK

-----------------------------------------------------------------------------
(* The operators of ReproQueue are those of QueueEntries.                  *)

(* A queue is sorted alike in both modules, ...                            *)
LEMMA SameSorted == ASSUME NEW entries PROVE Atomic!Sorted(entries) = Sorted(entries)
<1> DEFINE key == [s \in DOMAIN entries |-> SortKey(s, entries[s])]
           akey == [s \in DOMAIN entries |-> Atomic!SortKey(s, entries[s])]
<1>1. \A b : Atomic!Flag(b) = Flag(b)
  BY DEF Flag, Atomic!Flag
<1>2. \A e : Atomic!Leased(e) = Leased(e) /\ Atomic!Resting(e) = Resting(e)
  BY DEF Leased, Atomic!Leased, Resting, Atomic!Resting
<1>3. \A outcome : Atomic!OutcomeRank(outcome) = OutcomeRank(outcome)
  BY Zenon DEF OutcomeRank, Atomic!OutcomeRank
<1>4. \A s, e : Atomic!SortKey(s, e) = SortKey(s, e)
  BY Zenon, <1>1, <1>2, <1>3 DEF SortKey, Atomic!SortKey
<1>5. akey = key
  BY <1>4
<1> HIDE DEF key, akey
<1>6. \A a, b : Atomic!LexLess(a, b) = LexLess(a, b)
  BY DEF LexLess, Atomic!LexLess
<1>7. Atomic!Cardinality(DOMAIN entries) = Cardinality(DOMAIN entries)
  BY DEF Cardinality, Atomic!Cardinality
<1> QED
  BY Zenon, <1>5, <1>6, <1>7 DEF Atomic!Sorted, Sorted, key, akey

(* ... and so the operations on a queue are the same, ...                  *)
LEMMA SameOperations ==
    ASSUME NEW q, NEW h, NEW s, NEW c, NEW outcome
    PROVE  /\ Atomic!Rebuilt(q, c) = Rebuilt(q, c)
           /\ Atomic!Offered(q, h) = Offered(q, h)
           /\ Atomic!Claimed(q, h, s) = Claimed(q, h, s)
           /\ Atomic!Finished(q, s, outcome) = Finished(q, s, outcome)
           /\ Atomic!Owns(q, h, s) = Owns(q, h, s)
           /\ Atomic!EmptyQueue = EmptyQueue
<1>1. \A e : Atomic!Retained(e) = Retained(e)
  BY Zenon DEF Atomic!Retained, Retained, Leased, Atomic!Leased
<1>2. Atomic!Fresh = Fresh
  BY DEF Atomic!Fresh, Fresh
<1>3. \A e : Atomic!Granted(e, h) = Granted(e, h)
  BY Zenon DEF Atomic!Granted, Granted
<1>4. \A e : Atomic!Recorded(e, outcome) = Recorded(e, outcome)
  BY Zenon DEF Atomic!Recorded, Recorded, Least, Atomic!Least, Backoff, Atomic!Backoff
<1>5. Atomic!Rebuilt(q, c) = Rebuilt(q, c)
  BY <1>1, <1>2, SameSorted DEF Atomic!Rebuilt, Rebuilt
<1>6. Atomic!Offered(q, h) = Offered(q, h)
  BY Zenon DEF Atomic!Offered, Offered, First, Atomic!First, Claimable, Atomic!Claimable,
               Leased, Atomic!Leased, Resting, Atomic!Resting
<1>7. Atomic!Claimed(q, h, s) = Claimed(q, h, s)
  BY <1>3, SameSorted DEF Atomic!Claimed, Claimed
<1>8. Atomic!Finished(q, s, outcome) = Finished(q, s, outcome)
  BY <1>4, SameSorted DEF Atomic!Finished, Finished
<1>9. Atomic!Owns(q, h, s) = Owns(q, h, s) /\ Atomic!EmptyQueue = EmptyQueue
  BY <1>2 DEF Atomic!Owns, Owns, Atomic!EmptyQueue, EmptyQueue
<1> QED
  BY <1>5, <1>6, <1>7, <1>8, <1>9

(* ... and time does the same to an entry.                                 *)
LEMMA SameAged == \A e : Atomic!Aged(e) = Aged(e)
BY Zenon DEF Atomic!Aged, Aged

-----------------------------------------------------------------------------
(* What an operation makes of a queue: entries, of these artifacts, and    *)
(* none that belongs to somebody else than before but the one who claims.  *)

(* w owns no entry in r that it did not own in q.                          *)
OwnersStay(q, r, w) == \A s : Owns(r, w, s) => Owns(q, w, s)

(* The empty queue is a queue without entries.                             *)
LEMMA EmptyIs == Queue(EmptyQueue) /\ DOMAIN EmptyQueue.entries = {}
BY DEF Queue, EmptyQueue

(* New, retained and aged entries are well-formed, and no one becomes an   *)
(* owner by them.                                                          *)
LEMMA EntryIs ==
    /\ Fresh \in Entry
    /\ \A e \in Entry :
          /\ Retained(e) \in Entry
          /\ Retained(e).owner = e.owner \/ Retained(e).owner = None
          /\ Aged(e) \in Entry /\ Aged(e).owner = e.owner
<1>1. 0 \in 0 .. AttemptsCap /\ 0 \in 0 .. LeaseTime /\ LeaseTime \in Nat
  BY QueueAssumption
<1>2. Fresh \in Entry
  BY <1>1 DEF Fresh, Entry
<1>3. ASSUME NEW e \in Entry
      PROVE  Retained(e) \in Entry /\ (Retained(e).owner = e.owner \/ Retained(e).owner = None)
  <2>1. [e EXCEPT !.owner = None, !.lease = 0] \in Entry
    BY <1>1 DEF Entry
  <2>2. [e EXCEPT !.owner = None, !.lease = 0].owner = None
    BY DEF Entry
  <2> QED
    BY <2>1, <2>2 DEF Retained
<1>4. ASSUME NEW e \in Entry PROVE Aged(e) \in Entry /\ Aged(e).owner = e.owner
  <2>1. PICK l : l = IF e.lease > 0 THEN e.lease - 1 ELSE 0
    OBVIOUS
  <2>2. PICK b : b = IF e.backoff > 0 THEN e.backoff - 1 ELSE 0
    OBVIOUS
  <2>3. Aged(e) = [e EXCEPT !.lease = l, !.backoff = b]
    BY ONLY <2>1, <2>2 DEF Aged
  <2>4. l \in 0 .. LeaseTime /\ b \in Nat
    BY <1>1, <2>1, <2>2 DEF Entry
  <2> QED
    BY <2>3, <2>4 DEF Entry
<1> QED
  BY <1>2, <1>3, <1>4

(* A worker owns an entry that is new or retained only if it did before.   *)
LEMMA OwnerIs ==
    ASSUME NEW w \in Workers
    PROVE  /\ w # None /\ Fresh.owner # w
           /\ \A e \in Entry : Retained(e).owner = w => e.owner = w
<1>1. w # None
  BY QueueAssumption DEF Holders
<1> QED
  BY <1>1, EntryIs DEF Fresh

(* Sorting decides on the order alone.                                     *)
LEMMA SortedIs == ASSUME NEW entries, NEW q \in Sorted(entries) PROVE q.entries = entries
BY DEF Sorted

(* A rebuild leaves one entry per artifact in the catalog.                 *)
LEMMA RebuiltIs ==
    ASSUME NEW q, Queue(q), NEW c \in SUBSET Sigs, NEW r \in Rebuilt(q, c)
    PROVE  /\ Queue(r) /\ DOMAIN r.entries = c
           /\ \A w \in Workers : OwnersStay(q, r, w)
<1>1. r.entries = [s \in c |-> IF s \in DOMAIN q.entries THEN Retained(q.entries[s]) ELSE Fresh]
  BY SortedIs DEF Rebuilt
<1>2. \A s \in DOMAIN q.entries : q.entries[s] \in Entry
  BY DEF Queue
<1>3. Fresh \in Entry /\ \A e \in Entry : Retained(e) \in Entry
  BY EntryIs
<1>4. Queue(r) /\ DOMAIN r.entries = c
  BY <1>1, <1>2, <1>3 DEF Queue
<1>5. ASSUME NEW w \in Workers, NEW s, Owns(r, w, s) PROVE Owns(q, w, s)
  <2>1. s \in c /\ r.entries[s].owner = w
    BY <1>4, <1>5 DEF Owns
  <2>2. Fresh.owner # w /\ \A e \in Entry : Retained(e).owner = w => e.owner = w
    BY OwnerIs
  <2>3. s \in DOMAIN q.entries
    BY <1>1, <2>1, <2>2
  <2>4. r.entries[s] = Retained(q.entries[s])
    BY <1>1, <2>1, <2>3
  <2> QED
    BY <1>2, <2>1, <2>2, <2>3, <2>4 DEF Owns
<1> QED
  BY <1>4, <1>5 DEF OwnersStay

(* One entry is replaced.                                                  *)
LEMMA ReplacedIs ==
    ASSUME NEW q, Queue(q), NEW s \in DOMAIN q.entries, NEW e \in Entry,
           NEW r \in Sorted([q.entries EXCEPT ![s] = e]), NEW w, e.owner # w
    PROVE  Queue(r) /\ DOMAIN r.entries = DOMAIN q.entries /\ OwnersStay(q, r, w)
<1>1. r.entries = [q.entries EXCEPT ![s] = e]
  BY SortedIs
<1>2. Queue(r) /\ DOMAIN r.entries = DOMAIN q.entries
  BY <1>1 DEF Queue
<1>3. ASSUME NEW t, Owns(r, w, t) PROVE Owns(q, w, t)
  <2>1. t \in DOMAIN q.entries /\ r.entries[t].owner = w
    BY <1>2, <1>3 DEF Owns
  <2>2. t # s /\ r.entries[t] = q.entries[t]
    BY <1>1, <2>1 DEF Queue
  <2> QED
    BY <2>1, <2>2 DEF Owns
<1> QED
  BY <1>2, <1>3 DEF OwnersStay

(* A claim makes nobody but the claimant an owner.                         *)
LEMMA ClaimedIs ==
    ASSUME NEW q, Queue(q), NEW h \in Workers, NEW s \in Offered(q, h), NEW r \in Claimed(q, h, s)
    PROVE  /\ Queue(r) /\ DOMAIN r.entries = DOMAIN q.entries
           /\ \A w \in Workers \ {h} : OwnersStay(q, r, w)
<1>1. s \in DOMAIN q.entries
  <2>1. \A sigs : First(q, sigs) \subseteq sigs
    BY DEF First
  <2> QED
    BY <2>1 DEF Offered
<1>2. q.entries[s] \in Entry
  BY <1>1 DEF Queue
<1>3. Granted(q.entries[s], h) \in Entry /\ Granted(q.entries[s], h).owner = h
  <2>1. LeaseTime \in 0 .. LeaseTime /\ h \in Holders \cup {None}
    BY QueueAssumption DEF Holders
  <2> QED
    BY <1>2, <2>1 DEF Granted, Entry
<1>4. r \in Sorted([q.entries EXCEPT ![s] = Granted(q.entries[s], h)])
  BY DEF Claimed
<1>5. h # None
  BY OwnerIs
<1>6. Queue(r) /\ DOMAIN r.entries = DOMAIN q.entries
  BY <1>1, <1>3, <1>4, <1>5, ReplacedIs
<1>7. ASSUME NEW w \in Workers \ {h} PROVE OwnersStay(q, r, w)
  BY <1>1, <1>3, <1>4, ReplacedIs
<1> QED
  BY <1>6, <1>7

(* A finished claim makes nobody an owner.                                 *)
LEMMA FinishedIs ==
    ASSUME NEW q, Queue(q), NEW s \in DOMAIN q.entries, NEW outcome \in Outcomes,
           NEW r \in Finished(q, s, outcome)
    PROVE  /\ Queue(r) /\ DOMAIN r.entries = DOMAIN q.entries
           /\ \A w \in Workers : OwnersStay(q, r, w)
<1>1. q.entries[s] \in Entry
  BY DEF Queue
<1>2. PICK k : k = Least(q.entries[s].attempts + 1, AttemptsCap)
  OBVIOUS
<1>3. PICK b : b = Backoff(outcome, k)
  OBVIOUS
<1>4. k \in 0 .. AttemptsCap
  BY <1>1, <1>2, QueueAssumption DEF Least, Entry
<1>5. b \in Nat
  <2>1. Least(k, BackoffCap) \in Nat
    BY <1>4, QueueAssumption DEF Least
  <2>2. CASE outcome = "succeeded"
    BY <1>3, <2>2 DEF Backoff
  <2>3. CASE outcome # "succeeded"
    <3>1. BackoffBase[outcome] \in Nat
      BY <2>3, QueueAssumption
    <3>2. \A m, n \in Nat : m * n \in Nat
      OBVIOUS
    <3> QED
      BY <1>3, <2>1, <2>3, <3>1, <3>2 DEF Backoff
  <2> QED
    BY <2>2, <2>3
<1>6. Recorded(q.entries[s], outcome) = [attempts |-> k, outcome |-> outcome, backoff |-> b,
                                         owner |-> None, lease |-> 0]
  BY <1>2, <1>3 DEF Recorded
<1>7. Recorded(q.entries[s], outcome) \in Entry /\ Recorded(q.entries[s], outcome).owner = None
  BY <1>4, <1>5, <1>6, QueueAssumption DEF Entry
<1>8. r \in Sorted([q.entries EXCEPT ![s] = Recorded(q.entries[s], outcome)])
  BY DEF Finished
<1>9. ASSUME NEW w, w # None
      PROVE  Queue(r) /\ DOMAIN r.entries = DOMAIN q.entries /\ OwnersStay(q, r, w)
  BY <1>7, <1>8, <1>9, ReplacedIs
<1>10. PICK u : u # None
  <2>1. "a" # None \/ "b" # None
    OBVIOUS
  <2> QED
    BY <2>1
<1>11. \A w \in Workers : w # None
  BY OwnerIs
<1> QED
  BY <1>9, <1>10, <1>11

(* Nor does time.                                                          *)
LEMMA AgedIs ==
    ASSUME NEW q, Queue(q)
    PROVE  /\ Queue(AgedQueue(q)) /\ DOMAIN AgedQueue(q).entries = DOMAIN q.entries
           /\ \A w \in Workers : OwnersStay(q, AgedQueue(q), w)
<1>1. PICK r : r = AgedQueue(q)
  OBVIOUS
<1>2. r.entries = [s \in DOMAIN q.entries |-> Aged(q.entries[s])]
  BY <1>1 DEF AgedQueue
<1>3. \A e \in Entry : Aged(e) \in Entry /\ Aged(e).owner = e.owner
  BY EntryIs
<1>4. Queue(r) /\ DOMAIN r.entries = DOMAIN q.entries
  BY <1>2, <1>3 DEF Queue
<1>5. ASSUME NEW w \in Workers, NEW s, Owns(r, w, s) PROVE Owns(q, w, s)
  BY <1>2, <1>3, <1>4, <1>5 DEF Owns, Queue
<1> QED
  BY <1>1, <1>4, <1>5 DEF OwnersStay

-----------------------------------------------------------------------------
(* All processes but p are between two operations.                         *)
Others(p) == \A r \in Procs \ {p} : stage[r] \in Starts

(* p moves while all others are between two operations.                    *)
Moves(p) ==
    /\ Others(p)
    /\ \A r \in Procs \ {p} : stage'[r] = stage[r] /\ after'[r] = after[r]
    /\ \A w \in Workers \ {p} : claim'[w] = claim[w] /\ held'[w] = held[w]

(* That is so whenever p is in the middle of an operation or may start     *)
(* one.                                                                    *)
LEMMA OthersRest ==
    ASSUME Undisturbed, Alone, NEW p \in Procs, stage[p] \notin Starts \/ MayStart(p)
    PROVE  Others(p)
<1>1. CASE stage[p] \notin Starts
  BY <1>1 DEF Alone, Others
<1>2. CASE MayStart(p)
  BY <1>2 DEF MayStart, Others
<1> QED
  BY <1>1, <1>2

(* The queue of ReproQueue, before and ...                                 *)
LEMMA QueueIs ==
    ASSUME NEW p \in Procs, Others(p)
    PROVE  AbstractQueue = IF stage[p] \in {"queue", "queue open"} THEN draft[p] ELSE LoadedQueue
<1>1. ASSUME NEW r \in Writing PROVE r = p
  <2>1. r \in Procs /\ (stage[r] = "queue" \/ stage[r] = "queue open")
    BY DEF Writing
  <2>2. stage[r] \notin Starts
    BY <2>1 DEF Starts
  <2> QED
    BY <2>1, <2>2 DEF Others
<1>2. CASE stage[p] \in {"queue", "queue open"}
  <2>1. p \in Writing
    BY <1>2 DEF Writing
  <2>2. PICK q : q = CHOOSE r \in Writing : TRUE
    OBVIOUS
  <2>3. q \in Writing
    BY Zenon, <2>1, <2>2
  <2> QED
    BY <1>1, <1>2, <2>1, <2>2, <2>3 DEF AbstractQueue
<1>3. CASE stage[p] \notin {"queue", "queue open"}
  <2>1. Writing = {}
    BY <1>1, <1>3 DEF Writing
  <2> QED
    BY <1>3, <2>1 DEF AbstractQueue
<1> QED
  BY <1>2, <1>3

(* ... after a step of p.                                                  *)
LEMMA QueueNext ==
    ASSUME NEW p \in Procs, Others(p)'
    PROVE  AbstractQueue' = IF stage'[p] \in {"queue", "queue open"} THEN draft'[p] ELSE LoadedQueue'
<1>1. ASSUME NEW r \in Writing' PROVE r = p
  <2>1. r \in Procs /\ (stage'[r] = "queue" \/ stage'[r] = "queue open")
    BY DEF Writing
  <2>2. stage'[r] \notin Starts
    BY <2>1 DEF Starts
  <2> QED
    BY <2>1, <2>2 DEF Others
<1>2. CASE stage'[p] \in {"queue", "queue open"}
  <2>1. p \in Writing'
    BY <1>2 DEF Writing
  <2>2. PICK q : q = CHOOSE r \in Writing' : TRUE
    OBVIOUS
  <2>3. q \in Writing'
    BY Zenon, <2>1, <2>2
  <2> QED
    BY <1>1, <1>2, <2>1, <2>2, <2>3 DEF AbstractQueue
<1>3. CASE stage'[p] \notin {"queue", "queue open"}
  <2>1. Writing' = {}
    BY <1>1, <1>3 DEF Writing
  <2> QED
    BY <1>3, <2>1 DEF AbstractQueue
<1> QED
  BY <1>2, <1>3

-----------------------------------------------------------------------------
(* A step of p keeps the stages of the others, what they are doing in      *)
(* ReproQueue, and that one process at a time is busy.                     *)
LEMMA StagesNext ==
    ASSUME StagesOK, NEW p \in Procs, Moves(p),
           p = Manager => ManagerOK', p \in Workers => WorkerOK(p)'
    PROVE  /\ StagesOK' /\ Alone' /\ Others(p)'
           /\ \A w \in Workers \ {p} : Activity(w)' = Activity(w)
<1>1. Others(p)'
  BY DEF Moves, Others
<1>2. Alone'
  BY <1>1 DEF Alone, Others
<1>3. \A w \in Workers \ {p} : Activity(w)' = Activity(w)
  BY DEF Activity, Moves, Procs
<1>4. ASSUME NEW w \in Workers PROVE WorkerOK(w)'
  <2>1. CASE w # p
    <3>1. stage'[w] = stage[w] /\ after'[w] = after[w] /\ held'[w] = held[w]
      BY <2>1 DEF Moves, Procs
    <3>2. WorkerOK(w) /\ Activity(w)' = Activity(w)
      BY <1>3, <2>1 DEF StagesOK
    <3> QED
      BY <3>1, <3>2 DEF WorkerOK
  <2> QED
    BY <2>1
<1>5. ManagerOK'
  <2>1. CASE p # Manager
    <3>1. stage'[Manager] = stage[Manager] /\ after'[Manager] = after[Manager]
      BY <2>1 DEF Moves, Procs
    <3> QED
      BY <3>1 DEF StagesOK, ManagerOK
  <2> QED
    BY <2>1
<1> QED
  BY <1>1, <1>2, <1>3, <1>4, <1>5 DEF StagesOK

(* FilesOK depends on the process that moves.                              *)
LEMMA FilesNext ==
    ASSUME NEW p \in Procs, Others(p)', Touched(p)',
           stage'[p] \notin {"catalog open", "rebuild"} => LoadedCatalog' = Names'
    PROVE  FilesOK'
<1>1. ASSUME NEW r \in Procs, r # p PROVE Touched(r)'
  <2>1. stage'[r] \in Starts
    BY <1>1 DEF Others
  <2> QED
    BY <2>1 DEF Touched, Starts
<1> QED
  BY <1>1 DEF FilesOK

(* A refusal stays true while the others own no more than before.          *)
LEMMA QueueOKNext ==
    ASSUME QueueOK, NEW p \in Procs, Moves(p), Queue(AbstractQueue'),
           \A w \in Workers \ {p} : OwnersStay(AbstractQueue, AbstractQueue', w),
           p \in Workers /\ stage'[p] = "release" => ~Owns(AbstractQueue', p, claim'[p])
    PROVE  QueueOK'
<1>1. ASSUME NEW w \in Workers, w # p, stage'[w] = "release" PROVE ~Owns(AbstractQueue', w, claim'[w])
  <2>1. stage[w] = "release" /\ claim'[w] = claim[w]
    BY <1>1 DEF Moves, Procs
  <2>2. ~Owns(AbstractQueue, w, claim[w])
    BY <2>1 DEF QueueOK
  <2>3. OwnersStay(AbstractQueue, AbstractQueue', w)
    BY <1>1
  <2> QED
    BY <2>1, <2>2, <2>3 DEF OwnersStay
<1>2. \A w \in Workers : stage'[w] = "release" => ~Owns(AbstractQueue', w, claim'[w])
  BY <1>1
<1> QED
  BY <1>2 DEF QueueOK, Queue, Owns

(* While a worker moves, the manager is idle.                              *)
LEMMA SavingNext ==
    ASSUME ManagerOK, SavingOK, NEW p \in Workers, Moves(p),
           metadata' = metadata, Names' = Names
    PROVE  SavingOK' /\ Scanned = Names
<1>1. Manager \in Procs \ {p}
  BY FilesAssumption DEF Procs
<1>2. stage[Manager] = "idle" /\ stage'[Manager] = "idle"
  BY <1>1 DEF Moves, Others, ManagerOK, ManagerStages, FileStages, Starts
<1>3. Scanned = Names
  BY <1>2 DEF SavingOK
<1>4. Scanned' = Scanned
  BY DEF Scanned
<1> QED
  BY <1>2, <1>3, <1>4 DEF SavingOK

(* A step that changes neither queue, activity nor claims is none of       *)
(* ReproQueue.                                                             *)
LEMMA Stutters ==
    ASSUME AbstractQueue' = AbstractQueue, \A w \in Workers : Activity(w)' = Activity(w),
           UNCHANGED <<claims, deaths>>
    PROVE  UNCHANGED Atomic!vars
BY DEF Atomic!vars, claims

(* What is to be shown of every step: it keeps the invariant, and is a     *)
(* step of ReproQueue or none.                                             *)
Step == IInv' /\ [Atomic!Next]_(Atomic!vars)

(* The steps of an operation that ReproQueue does not show.                *)
LEMMA Silent ==
    ASSUME IInv, NEW p \in Procs, Moves(p),
           TypeOK', p = Manager => ManagerOK', p \in Workers => WorkerOK(p)',
           AbstractQueue' = AbstractQueue, p \in Workers => Activity(p)' = Activity(p),
           UNCHANGED <<claims, deaths>>,
           p \in Workers /\ stage'[p] = "release" => ~Owns(AbstractQueue, p, claim[p]),
           Touched(p)',
           stage'[p] \notin {"catalog open", "rebuild"} => LoadedCatalog' = Names',
           p \in Workers => metadata' = metadata, p = Manager => SavingOK'
    PROVE  Step
<1>1. StagesOK' /\ Alone' /\ Others(p)' /\ \A w \in Workers \ {p} : Activity(w)' = Activity(w)
  BY StagesNext DEF IInv
<1>2. FilesOK'
  BY <1>1, FilesNext
<1>3. QueueOK'
  BY QueueOKNext DEF IInv, claims, QueueOK, OwnersStay
<1>4. Names' = Names
  BY DEF Names
<1>5. SavingOK'
  BY <1>4, SavingNext DEF IInv, StagesOK, Procs
<1>6. UNCHANGED Atomic!vars
  BY <1>1, Stutters
<1> QED
  BY <1>1, <1>2, <1>3, <1>5, <1>6 DEF Step, IInv

-----------------------------------------------------------------------------
(* Every step keeps the types.                                             *)
LEMMA TypeNext == ASSUME TypeOK, Next PROVE TypeOK'
<1> DEFINE Stages == WorkerStages \cup ManagerStages
<1>0. /\ stage \in [Procs -> Stages] /\ after \in [Procs -> {"idle", "claim", "replaying"}]
      /\ metadata \in [Sigs -> {"absent", "torn", "whole"}]
      /\ DOMAIN listed = Procs /\ DOMAIN draft = Procs /\ DOMAIN claim = Workers
      /\ held \in [Workers -> Nat]
  BY DEF TypeOK
<1>1. {"idle", "claim", "replaying", "release", "metadata", "update", "catalog",
       "catalog open", "rebuild", "queue", "queue open"} = Stages
  BY DEF WorkerStages, ManagerStages, FileStages, Starts
<1> HIDE DEF Stages
<1>2. Manager \in Procs /\ Workers \subseteq Procs
  BY DEF Procs
<1> DEFINE Rest ==
             /\ metadata' \in [Sigs -> {"absent", "torn", "whole"}]
             /\ after' \in [Procs -> {"idle", "claim", "replaying"}]
             /\ DOMAIN listed' = Procs /\ DOMAIN draft' = Procs
             /\ DOMAIN claim' = Workers
             /\ held' \in [Workers -> Nat]
<1>3. ASSUME stage' \in [Procs -> Stages], Rest PROVE TypeOK'
  BY <1>3 DEF TypeOK, Stages
<1> HIDE DEF Rest
<1>a. \A p, st : Goto(p, st) /\ st \in Stages => stage' \in [Procs -> Stages]
  BY <1>0 DEF Goto
<1>4. ASSUME NEW s \in Sigs, OpenMetadata(s) PROVE TypeOK'
  <2>1. stage' \in [Procs -> Stages]
    BY <1>0, <1>1, <1>2, <1>4 DEF OpenMetadata, Goto
  <2>2. Rest
    BY <1>0, <1>1, <1>2, <1>4 DEF OpenMetadata, Rest, memory, claims, files
  <2> QED
    BY <1>3, <2>1, <2>2
<1>5. ASSUME WriteMetadata PROVE TypeOK'
  <2>1. stage' \in [Procs -> Stages]
    BY <1>0, <1>1, <1>2, <1>5 DEF WriteMetadata, Goto
  <2>2. Rest
    BY <1>0, <1>1, <1>2, <1>5 DEF WriteMetadata, Rest, memory, claims, files
  <2> QED
    BY <1>3, <2>1, <2>2
<1>6. ASSUME UpdateCatalog PROVE TypeOK'
  <2>1. stage' \in [Procs -> Stages]
    BY <1>0, <1>1, <1>2, <1>6 DEF UpdateCatalog, Goto
  <2>2. Rest
    BY <1>0, <1>1, <1>2, <1>6 DEF UpdateCatalog, Rest, memory, claims, files
  <2> QED
    BY <1>3, <2>1, <2>2
<1>7. ASSUME NEW w \in Workers, Scan(w) PROVE TypeOK'
  <2>1. stage' \in [Procs -> Stages]
    BY <1>0, <1>1, <1>2, <1>7 DEF Scan, Goto
  <2>2. Rest
    BY <1>0, <1>1, <1>2, <1>7 DEF Scan, Rest, memory, claims, files
  <2> QED
    BY <1>3, <2>1, <2>2
<1>8. ASSUME NEW p \in Procs, OpenCatalog(p) PROVE TypeOK'
  <2>1. stage' \in [Procs -> Stages]
    BY <1>0, <1>1, <1>2, <1>8 DEF OpenCatalog, Goto
  <2>2. Rest
    BY <1>0, <1>1, <1>2, <1>8 DEF OpenCatalog, Rest, memory, claims, files
  <2> QED
    BY <1>3, <2>1, <2>2
<1>9. ASSUME NEW p \in Procs, WriteCatalog(p) PROVE TypeOK'
  <2>1. stage' \in [Procs -> Stages]
    BY <1>0, <1>1, <1>2, <1>9 DEF WriteCatalog, Goto
  <2>2. Rest
    BY <1>0, <1>1, <1>2, <1>9 DEF WriteCatalog, Rest, memory, claims, files
  <2> QED
    BY <1>3, <2>1, <2>2
<1>10. ASSUME NEW p \in Procs, Rebuild(p) PROVE TypeOK'
  <2>1. stage' \in [Procs -> Stages]
    BY <1>0, <1>1, <1>2, <1>10 DEF Rebuild, Goto, Drafts
  <2>2. Rest
    BY <1>0, <1>1, <1>2, <1>10 DEF Rebuild, Rest, memory, claims, files, Drafts
  <2> QED
    BY <1>3, <2>1, <2>2
<1>11. ASSUME NEW p \in Procs, OpenQueue(p) PROVE TypeOK'
  <2>1. stage' \in [Procs -> Stages]
    BY <1>0, <1>1, <1>2, <1>11 DEF OpenQueue, Goto
  <2>2. Rest
    BY <1>0, <1>1, <1>2, <1>11 DEF OpenQueue, Rest, memory, claims, files
  <2> QED
    BY <1>3, <2>1, <2>2
<1>12. ASSUME NEW p \in Procs, WriteQueue(p) PROVE TypeOK'
  <2>1. stage' \in [Procs -> Stages]
    BY <1>0, <1>1, <1>2, <1>12 DEF WriteQueue, Goto
  <2>2. Rest
    BY <1>0, <1>1, <1>2, <1>12 DEF WriteQueue, Rest, memory, claims, files
  <2> QED
    BY <1>3, <2>1, <2>2
<1>13. ASSUME NEW w \in Workers, Claim(w) PROVE TypeOK'
  <2>1. stage' \in [Procs -> Stages]
    <3>1. Goto(w, "queue") \/ Goto(w, "idle") \/ Goto(w, "release")
      BY <1>13 DEF Claim, Drafts
    <3> QED
      BY <1>1, <1>a, <3>1
  <2>2. Rest
    BY <1>0, <1>1, <1>2, <1>13 DEF Claim, Rest, memory, claims, files, Drafts
  <2> QED
    BY <1>3, <2>1, <2>2
<1>14. ASSUME NEW w \in Workers, NEW outcome \in WorkerOutcomes, Finish(w, outcome) PROVE TypeOK'
  <2>1. stage' \in [Procs -> Stages]
    <3>1. Goto(w, "queue") \/ Goto(w, "idle") \/ Goto(w, "release")
      BY <1>14 DEF Finish, Drafts
    <3> QED
      BY <1>1, <1>a, <3>1
  <2>2. after' \in [Procs -> {"idle", "claim", "replaying"}]
    BY <1>0, <1>2, <1>14 DEF Finish, memory, Drafts, Forget
  <2>3. DOMAIN listed' = Procs /\ DOMAIN draft' = Procs
    BY <1>0, <1>2, <1>14 DEF Finish, memory, Drafts, Forget
  <2>4. held' \in [Workers -> Nat]
    BY <1>0, <1>2, <1>14 DEF Finish, claims, Drafts, Forget
  <2>5. DOMAIN claim' = Workers /\ metadata' = metadata
    BY <1>0, <1>2, <1>14 DEF Finish, claims, files, Drafts, Forget
  <2> QED
    BY <1>0, <1>3, <2>1, <2>2, <2>3, <2>4, <2>5 DEF Rest
<1>15. ASSUME NEW w \in Workers, Release(w) PROVE TypeOK'
  <2>1. stage' \in [Procs -> Stages]
    <3>1. Goto(w, "queue") \/ Goto(w, "idle") \/ Goto(w, "release")
      BY <1>15 DEF Release, Drafts
    <3> QED
      BY <1>1, <1>a, <3>1
  <2>2. Rest
    BY <1>0, <1>1, <1>2, <1>15 DEF Release, Rest, memory, claims, files, Drafts, Forget
  <2> QED
    BY <1>3, <2>1, <2>2
<1>16. ASSUME NEW p \in Procs, Die(p) PROVE TypeOK'
  <2>1. stage' \in [Procs -> Stages]
    BY <1>0, <1>1, <1>2, <1>16 DEF Die, Goto, Forget
  <2>2. after' \in [Procs -> {"idle", "claim", "replaying"}]
    BY <1>0, <1>2, <1>16 DEF Die, memory, Forget
  <2>3. DOMAIN listed' = Procs /\ DOMAIN draft' = Procs
    BY <1>0, <1>2, <1>16 DEF Die, memory, Forget
  <2>4. held' \in [Workers -> Nat]
    BY <1>0, <1>2, <1>16 DEF Die, claims, Forget
  <2>5. DOMAIN claim' = Workers /\ metadata' = metadata
    BY <1>0, <1>2, <1>16 DEF Die, claims, files, Forget
  <2> QED
    BY <1>0, <1>3, <2>1, <2>2, <2>3, <2>4, <2>5 DEF Rest
<1>17. ASSUME Tick PROVE TypeOK'
  <2>1. stage' \in [Procs -> Stages]
    BY <1>0, <1>1, <1>2, <1>17 DEF Tick, Goto
  <2>2. after' \in [Procs -> {"idle", "claim", "replaying"}]
    BY <1>0, <1>2, <1>17 DEF Tick, memory
  <2>3. DOMAIN listed' = Procs /\ DOMAIN draft' = Procs
    BY <1>0, <1>2, <1>17 DEF Tick, memory
  <2>4. held' \in [Workers -> Nat]
    BY <1>0, <1>2, <1>17 DEF Tick, claims
  <2>5. DOMAIN claim' = Workers /\ metadata' = metadata
    BY <1>0, <1>2, <1>17 DEF Tick, claims, files
  <2> QED
    BY <1>0, <1>3, <2>1, <2>2, <2>3, <2>4, <2>5 DEF Rest
<1> QED
  BY <1>4, <1>5, <1>6, <1>7, <1>8, <1>9, <1>10, <1>11, <1>12, <1>13, <1>14, <1>15, <1>16, <1>17 DEF Next, ManagerStep, FileStep, WorkerStep

-----------------------------------------------------------------------------
(* The manager is a process and no worker.                                 *)
LEMMA ManagerIs ==
    Manager \in Procs /\ Manager \notin Workers /\ \A w \in Workers : w # Manager /\ w \in Procs
BY FilesAssumption DEF Procs

(* A step outside of a write of the queue that leaves the file alone.      *)
LEMMA QueueKeeps ==
    ASSUME NEW p \in Procs, Moves(p), queueFile' = queueFile,
           stage[p] \notin {"queue", "queue open"}, stage'[p] \notin {"queue", "queue open"}
    PROVE  AbstractQueue' = AbstractQueue /\ Names' = Names
<1>1. Others(p) /\ Others(p)'
  BY DEF Moves, Others
<1>2. LoadedQueue' = LoadedQueue
  BY DEF LoadedQueue, Parsed
<1> QED
  BY <1>1, <1>2, QueueIs, QueueNext DEF Names

(* artifacts.json lists what the queue has when no process is writing the  *)
(* catalog.                                                                *)
LEMMA CatalogIs ==
    ASSUME IInv, NEW p \in Procs, Others(p), stage[p] \notin {"catalog open", "rebuild"}
    PROVE  LoadedCatalog = Names
BY DEF IInv, FilesOK, Others, Starts

(* The manager opens metadata.json: the artifact is not readable any more. *)
LEMMA OpenMetadataStep ==
    ASSUME Undisturbed, IInv, TypeOK', NEW s \in Sigs, OpenMetadata(s)
    PROVE  Step
<1>0. Manager \in Procs /\ Manager \notin Workers
  BY ManagerIs
<1>1. /\ stage[Manager] = "idle" /\ MayStart(Manager)
      /\ metadata' = [metadata EXCEPT ![s] = "torn"] /\ saving' = s
      /\ stage' = [stage EXCEPT ![Manager] = "metadata"]
      /\ UNCHANGED <<catalogFile, queueFile, after, listed, draft, claim, held, deaths>>
  BY DEF OpenMetadata, Goto, memory, claims
<1>2. stage'[Manager] = "metadata" /\ \A r \in Procs \ {Manager} : stage'[r] = stage[r]
  BY <1>0, <1>1 DEF IInv, TypeOK
<1>3. Others(Manager)
  BY <1>0, <1>1, OthersRest DEF IInv
<1>4. Moves(Manager)
  BY <1>1, <1>2, <1>3 DEF Moves
<1>5. AbstractQueue' = AbstractQueue /\ Names' = Names
  BY <1>0, <1>1, <1>2, <1>4, QueueKeeps
<1>6. LoadedCatalog' = LoadedCatalog
  BY <1>1 DEF LoadedCatalog, Parsed
<1>7. LoadedCatalog = Names
  BY <1>0, <1>1, <1>3, CatalogIs
<1>8. Scanned' \cup {s} = Names \cup {s}
  <2>1. Scanned = Names
    BY <1>1 DEF IInv, SavingOK
  <2>2. Scanned' = Scanned \ {s}
    BY <1>1 DEF Scanned, IInv, TypeOK
  <2> QED
    BY <2>1, <2>2
<1>9. SavingOK'
  BY <1>1, <1>2, <1>5, <1>8 DEF SavingOK
<1>10. ManagerOK' /\ Touched(Manager)'
  BY <1>0, <1>1, <1>2 DEF ManagerOK, ManagerStages, Touched, IInv, StagesOK
<1> QED
  BY <1>0, <1>1, <1>2, <1>4, <1>5, <1>6, <1>7, <1>9, <1>10, Silent DEF claims

(* The metadata is written: the artifact is one of those on disk.          *)
LEMMA WriteMetadataStep ==
    ASSUME Undisturbed, IInv, TypeOK', WriteMetadata
    PROVE  Step
<1>0. Manager \in Procs /\ Manager \notin Workers
  BY ManagerIs
<1>1. /\ stage[Manager] = "metadata"
      /\ metadata' = [metadata EXCEPT ![saving] = "whole"]
      /\ stage' = [stage EXCEPT ![Manager] = "update"]
      /\ UNCHANGED <<catalogFile, queueFile, after, listed, draft, saving, claim, held, deaths>>
  BY DEF WriteMetadata, Goto, memory, claims
<1>2. stage'[Manager] = "update" /\ \A r \in Procs \ {Manager} : stage'[r] = stage[r]
  BY <1>0, <1>1 DEF IInv, TypeOK
<1>3. Others(Manager)
  BY <1>0, <1>1, OthersRest DEF IInv, Starts
<1>4. Moves(Manager)
  BY <1>1, <1>2, <1>3 DEF Moves
<1>5. AbstractQueue' = AbstractQueue /\ Names' = Names
  BY <1>0, <1>1, <1>2, <1>4, QueueKeeps
<1>6. LoadedCatalog' = LoadedCatalog
  BY <1>1 DEF LoadedCatalog, Parsed
<1>7. LoadedCatalog = Names
  BY <1>0, <1>1, <1>3, CatalogIs
<1>8. saving \in Sigs /\ Scanned' = Names \cup {saving}
  <2>1. saving \in Sigs /\ Scanned \cup {saving} = Names \cup {saving}
    BY <1>1 DEF IInv, SavingOK
  <2>2. Scanned' = Scanned \cup {saving}
    BY <1>1, <2>1 DEF Scanned, IInv, TypeOK
  <2> QED
    BY <2>1, <2>2
<1>9. SavingOK'
  BY <1>1, <1>2, <1>5, <1>8 DEF SavingOK
<1>10. ManagerOK' /\ Touched(Manager)'
  BY <1>0, <1>1, <1>2 DEF ManagerOK, ManagerStages, Touched, IInv, StagesOK
<1> QED
  BY <1>0, <1>1, <1>2, <1>4, <1>5, <1>6, <1>7, <1>9, <1>10, Silent DEF claims

(* The manager adds the artifact to what artifacts.json lists.             *)
LEMMA UpdateCatalogStep ==
    ASSUME Undisturbed, IInv, TypeOK', UpdateCatalog
    PROVE  Step
<1>0. Manager \in Procs /\ Manager \notin Workers
  BY ManagerIs
<1>1. /\ stage[Manager] = "update"
      /\ listed' = [listed EXCEPT ![Manager] = LoadedCatalog \cup {saving}]
      /\ stage' = [stage EXCEPT ![Manager] = "catalog"]
      /\ UNCHANGED <<metadata, catalogFile, queueFile, after, draft, claim, held, deaths>>
  BY DEF UpdateCatalog, Goto, files, claims
<1>2. stage'[Manager] = "catalog" /\ \A r \in Procs \ {Manager} : stage'[r] = stage[r]
  BY <1>0, <1>1 DEF IInv, TypeOK
<1>3. Others(Manager)
  BY <1>0, <1>1, OthersRest DEF IInv, Starts
<1>4. Moves(Manager)
  BY <1>1, <1>2, <1>3 DEF Moves
<1>5. AbstractQueue' = AbstractQueue /\ Names' = Names
  BY <1>0, <1>1, <1>2, <1>4, QueueKeeps
<1>6. LoadedCatalog' = LoadedCatalog
  BY <1>1 DEF LoadedCatalog, Parsed
<1>7. LoadedCatalog = Names
  BY <1>0, <1>1, <1>3, CatalogIs
<1>8. saving \in Sigs /\ Scanned' = Names \cup {saving} /\ listed'[Manager] = Scanned'
  <2>1. saving \in Sigs /\ Scanned = Names \cup {saving}
    BY <1>1 DEF IInv, SavingOK
  <2>2. Scanned' = Scanned
    BY <1>1 DEF Scanned
  <2>3. listed'[Manager] = LoadedCatalog \cup {saving}
    BY <1>0, <1>1 DEF IInv, TypeOK
  <2> QED
    BY <1>7, <2>1, <2>2, <2>3
<1>9. SavingOK'
  BY <1>1, <1>2, <1>5, <1>8 DEF SavingOK
<1>10. ManagerOK' /\ Touched(Manager)'
  BY <1>0, <1>1, <1>2 DEF ManagerOK, ManagerStages, FileStages, Touched, IInv, StagesOK
<1> QED
  BY <1>0, <1>1, <1>2, <1>4, <1>5, <1>6, <1>7, <1>9, <1>10, Silent DEF claims

-----------------------------------------------------------------------------
(* A worker lists the artifacts on disk, which are those of the queue.     *)
LEMMA ScanStep ==
    ASSUME Undisturbed, IInv, TypeOK', NEW w \in Workers, Scan(w)
    PROVE  Step
<1>0. w \in Procs /\ w # Manager
  BY ManagerIs
<1>1. /\ stage[w] = "idle" /\ MayStart(w)
      /\ listed' = [listed EXCEPT ![w] = Scanned]
      /\ after' = [after EXCEPT ![w] = "claim"]
      /\ stage' = [stage EXCEPT ![w] = "catalog"]
      /\ UNCHANGED <<metadata, catalogFile, queueFile, draft, claim, held, deaths>>
  BY DEF Scan, Goto, files, claims
<1>2. /\ stage'[w] = "catalog" /\ \A r \in Procs \ {w} : stage'[r] = stage[r]
      /\ after'[w] = "claim" /\ \A r \in Procs \ {w} : after'[r] = after[r]
      /\ listed'[w] = Scanned
  BY <1>0, <1>1 DEF IInv, TypeOK
<1>3. Others(w)
  BY <1>0, <1>1, OthersRest DEF IInv
<1>4. Moves(w)
  BY <1>1, <1>2, <1>3 DEF Moves
<1>5. AbstractQueue' = AbstractQueue /\ Names' = Names
  BY <1>0, <1>1, <1>2, <1>4, QueueKeeps
<1>6. LoadedCatalog' = LoadedCatalog
  BY <1>1 DEF LoadedCatalog, Parsed
<1>7. LoadedCatalog = Names
  BY <1>0, <1>1, <1>3, CatalogIs
<1>8. after[w] = "idle" /\ (Activity(w) # "replaying" => held[w] = 0)
  BY <1>1 DEF IInv, StagesOK, WorkerOK, Starts
<1>9. Activity(w) = "idle" /\ Activity(w)' = "idle"
  BY <1>1, <1>2, <1>8 DEF Activity
<1>10. Scanned = Names
  BY <1>1, <1>4, <1>5, SavingNext DEF IInv, StagesOK
<1>11. WorkerOK(w)' /\ Touched(w)'
  BY <1>1, <1>2, <1>5, <1>8, <1>9, <1>10 DEF WorkerOK, WorkerStages, FileStages, Starts, Touched
<1> QED
  BY <1>0, <1>1, <1>2, <1>4, <1>5, <1>6, <1>7, <1>9, <1>11, Silent DEF claims

(* The stages that follow another in every process alike.                  *)
LEMMA OpenCatalogStep ==
    ASSUME Undisturbed, IInv, TypeOK', NEW p \in Procs, OpenCatalog(p)
    PROVE  Step
<1>1. /\ stage[p] = "catalog"
      /\ catalogFile' = Truncated
      /\ stage' = [stage EXCEPT ![p] = "catalog open"]
      /\ UNCHANGED <<metadata, queueFile, after, listed, draft, saving, claim, held, deaths>>
  BY DEF OpenCatalog, Goto, memory, claims
<1>2. stage'[p] = "catalog open" /\ \A r \in Procs \ {p} : stage'[r] = stage[r]
  BY <1>1 DEF IInv, TypeOK
<1>3. Others(p)
  BY <1>1, OthersRest DEF IInv, Starts
<1>4. Moves(p)
  BY <1>1, <1>2, <1>3 DEF Moves
<1>5. AbstractQueue' = AbstractQueue /\ Names' = Names
  BY <1>1, <1>2, <1>4, QueueKeeps
<1>6. Touched(p)'
  BY <1>1, <1>2, <1>5 DEF Touched, IInv, FilesOK
<1>7. p = Manager => ManagerOK' /\ SavingOK'
  <2>1. Scanned' = Scanned
    BY <1>1 DEF Scanned
  <2> QED
    BY <1>1, <1>2, <1>5, <2>1 DEF IInv, StagesOK, ManagerOK, ManagerStages, FileStages, SavingOK
<1>8. p \in Workers => WorkerOK(p)' /\ Activity(p)' = Activity(p)
  <2>1. Activity(p)' = Activity(p)
    BY <1>1, <1>2 DEF Activity
  <2> QED
    BY <1>1, <1>2, <2>1 DEF IInv, StagesOK, WorkerOK, WorkerStages, FileStages, Starts
<1> QED
  BY <1>1, <1>2, <1>4, <1>5, <1>6, <1>7, <1>8, Silent DEF claims

(* The file is empty when it is written, so it lists what the process had  *)
(* in memory.                                                              *)
LEMMA WriteCatalogStep ==
    ASSUME Undisturbed, IInv, TypeOK', NEW p \in Procs, WriteCatalog(p)
    PROVE  Step
<1>1. /\ stage[p] = "catalog open"
      /\ catalogFile' \in Overwritten(catalogFile, listed[p])
      /\ stage' = [stage EXCEPT ![p] = "rebuild"]
      /\ UNCHANGED <<metadata, queueFile, after, listed, draft, saving, claim, held, deaths>>
  BY DEF WriteCatalog, Goto, memory, claims
<1>2. stage'[p] = "rebuild" /\ \A r \in Procs \ {p} : stage'[r] = stage[r]
  BY <1>1 DEF IInv, TypeOK
<1>3. Others(p)
  BY <1>1, OthersRest DEF IInv, Starts
<1>4. Moves(p)
  BY <1>1, <1>2, <1>3 DEF Moves
<1>5. AbstractQueue' = AbstractQueue /\ Names' = Names
  BY <1>1, <1>2, <1>4, QueueKeeps
<1>6. LoadedCatalog' = listed'[p]
  <2>1. catalogFile = Truncated
    BY <1>1 DEF IInv, FilesOK, Touched
  <2>2. catalogFile' = Whole(listed[p])
    BY <1>1, <2>1 DEF Overwritten, Truncated
  <2> QED
    BY <1>1, <2>2 DEF LoadedCatalog, Parsed, Whole
<1>7. Touched(p)'
  BY <1>1, <1>2, <1>5, <1>6 DEF Touched, IInv, FilesOK
<1>8. p = Manager => ManagerOK' /\ SavingOK'
  <2>1. Scanned' = Scanned
    BY <1>1 DEF Scanned
  <2> QED
    BY <1>1, <1>2, <1>5, <2>1 DEF IInv, StagesOK, ManagerOK, ManagerStages, FileStages, SavingOK
<1>9. p \in Workers => WorkerOK(p)' /\ Activity(p)' = Activity(p)
  <2>1. Activity(p)' = Activity(p)
    BY <1>1, <1>2 DEF Activity
  <2> QED
    BY <1>1, <1>2, <2>1 DEF IInv, StagesOK, WorkerOK, WorkerStages, FileStages, Starts
<1> QED
  BY <1>1, <1>2, <1>4, <1>5, <1>7, <1>8, <1>9, Silent DEF claims

(* The file is emptied; the queue is in the memory of p.                   *)
LEMMA OpenQueueStep ==
    ASSUME Undisturbed, IInv, TypeOK', NEW p \in Procs, OpenQueue(p)
    PROVE  Step
<1>1. /\ stage[p] = "queue"
      /\ queueFile' = Truncated
      /\ stage' = [stage EXCEPT ![p] = "queue open"]
      /\ UNCHANGED <<metadata, catalogFile, after, listed, draft, saving, claim, held, deaths>>
  BY DEF OpenQueue, Goto, memory, claims
<1>2. stage'[p] = "queue open" /\ \A r \in Procs \ {p} : stage'[r] = stage[r]
  BY <1>1 DEF IInv, TypeOK
<1>3. Others(p) /\ Others(p)'
  BY <1>1, <1>2, OthersRest DEF IInv, Starts, Others
<1>4. Moves(p)
  BY <1>1, <1>2, <1>3 DEF Moves
<1>5. AbstractQueue' = AbstractQueue /\ Names' = Names
  BY <1>1, <1>2, <1>3, QueueIs, QueueNext DEF Names
<1>6. LoadedCatalog = Names /\ LoadedCatalog' = LoadedCatalog
  BY <1>1, <1>3, CatalogIs DEF LoadedCatalog, Parsed
<1>7. Touched(p)'
  BY <1>1, <1>2 DEF Touched
<1>8. p = Manager => ManagerOK' /\ SavingOK'
  <2>1. Scanned' = Scanned
    BY <1>1 DEF Scanned
  <2> QED
    BY <1>1, <1>2, <1>5, <2>1 DEF IInv, StagesOK, ManagerOK, ManagerStages, FileStages, SavingOK
<1>9. p \in Workers => WorkerOK(p)' /\ Activity(p)' = Activity(p)
  <2>1. Activity(p)' = Activity(p)
    BY <1>1, <1>2 DEF Activity
  <2> QED
    BY <1>1, <1>2, <2>1 DEF IInv, StagesOK, WorkerOK, WorkerStages, FileStages, Starts
<1> QED
  BY <1>1, <1>2, <1>4, <1>5, <1>6, <1>7, <1>8, <1>9, Silent DEF claims

(* The queue is the file again.                                            *)
LEMMA WriteQueueStep ==
    ASSUME Undisturbed, IInv, TypeOK', NEW p \in Procs, WriteQueue(p)
    PROVE  Step
<1>1. /\ stage[p] = "queue open"
      /\ queueFile' \in Overwritten(queueFile, draft[p])
      /\ stage' = [stage EXCEPT ![p] = after[p]]
      /\ after' = [after EXCEPT ![p] = "idle"]
      /\ UNCHANGED <<metadata, catalogFile, listed, saving, claim, held, deaths>>
  BY DEF WriteQueue, Goto, claims
<1>2. /\ stage'[p] = after[p] /\ \A r \in Procs \ {p} : stage'[r] = stage[r]
      /\ after'[p] = "idle" /\ \A r \in Procs \ {p} : after'[r] = after[r]
      /\ after[p] = "idle" \/ after[p] = "claim" \/ after[p] = "replaying"
  BY <1>1 DEF IInv, TypeOK
<1>3. Others(p) /\ Others(p)'
  BY <1>1, <1>2, OthersRest DEF IInv, Starts, Others
<1>4. Moves(p)
  BY <1>1, <1>2, <1>3 DEF Moves
<1>5. AbstractQueue' = AbstractQueue /\ Names' = Names
  <2>1. queueFile = Truncated
    BY <1>1 DEF IInv, FilesOK, Touched
  <2>2. queueFile' = Whole(draft[p])
    BY <1>1, <2>1 DEF Overwritten, Truncated
  <2>3. LoadedQueue' = draft[p]
    BY <2>2 DEF LoadedQueue, Parsed, Whole
  <2>4. AbstractQueue = draft[p]
    BY <1>1, <1>3, QueueIs
  <2>5. AbstractQueue' = LoadedQueue'
    BY <1>2, <1>3, QueueNext
  <2> QED
    BY <2>3, <2>4, <2>5 DEF Names
<1>6. LoadedCatalog = Names /\ LoadedCatalog' = LoadedCatalog
  BY <1>1, <1>3, CatalogIs DEF LoadedCatalog, Parsed
<1>7. Touched(p)'
  BY <1>1, <1>2 DEF Touched
<1>8. p = Manager => ManagerOK' /\ SavingOK'
  <2>1. Scanned' = Scanned
    BY <1>1 DEF Scanned
  <2> QED
    BY <1>1, <1>2, <1>5, <2>1 DEF IInv, StagesOK, ManagerOK, ManagerStages, FileStages, SavingOK
<1>9. p \in Workers => WorkerOK(p)' /\ Activity(p)' = Activity(p)
  <2>1. Activity(p)' = Activity(p)
    BY <1>1, <1>2 DEF Activity
  <2> QED
    BY <1>1, <1>2, <2>1 DEF IInv, StagesOK, WorkerOK, WorkerStages, FileStages, Starts
<1> QED
  BY <1>1, <1>2, <1>4, <1>5, <1>6, <1>7, <1>8, <1>9, Silent DEF claims

-----------------------------------------------------------------------------
(* The steps that ReproQueue shows.                                        *)
LEMMA Visible ==
    ASSUME IInv, NEW p \in Procs, Moves(p),
           TypeOK', p = Manager => ManagerOK', p \in Workers => WorkerOK(p)',
           Queue(AbstractQueue'), \A w \in Workers \ {p} : OwnersStay(AbstractQueue, AbstractQueue', w),
           stage'[p] # "release", Touched(p)', LoadedCatalog' = Names',
           p \in Workers => metadata' = metadata /\ Names' = Names,
           p = Manager => SavingOK'
    PROVE  IInv' /\ \A w \in Workers \ {p} : Activity(w)' = Activity(w)
<1>1. StagesOK' /\ Alone' /\ Others(p)' /\ \A w \in Workers \ {p} : Activity(w)' = Activity(w)
  BY StagesNext DEF IInv
<1>2. FilesOK'
  BY <1>1, FilesNext
<1>3. QueueOK'
  BY QueueOKNext DEF IInv
<1>4. SavingOK'
  BY SavingNext DEF IInv, StagesOK, Procs
<1> QED
  BY <1>1, <1>2, <1>3, <1>4 DEF IInv

(* What the workers are doing in ReproQueue, when w moves.                 *)
LEMMA PcNext ==
    ASSUME NEW w \in Workers, \A v \in Workers \ {w} : Activity(v)' = Activity(v)
    PROVE  [v \in Workers |-> Activity(v)]'
               = [[v \in Workers |-> Activity(v)] EXCEPT ![w] = Activity(w)']
OBVIOUS

(* The rebuild is SaveArtifact if the manager does it, and Sync if a       *)
(* worker does.                                                            *)
LEMMA RebuildStep ==
    ASSUME Undisturbed, IInv, TypeOK', NEW p \in Procs, Rebuild(p)
    PROVE  Step
<1>1. PICK q \in Rebuilt(LoadedQueue, listed[p]) :
        /\ draft' = [draft EXCEPT ![p] = q]
        /\ after' = [after EXCEPT ![p] = after[p]]
        /\ stage' = [stage EXCEPT ![p] = "queue"]
  BY DEF Rebuild, Drafts, Goto
<1>2. stage[p] = "rebuild" /\ UNCHANGED <<metadata, catalogFile, queueFile, saving, claim, held, deaths>>
  BY DEF Rebuild, files, claims
<1>3. /\ stage'[p] = "queue" /\ \A r \in Procs \ {p} : stage'[r] = stage[r]
      /\ after' = after /\ draft'[p] = q
  BY <1>1 DEF IInv, TypeOK
<1>4. Others(p) /\ Others(p)'
  BY <1>2, <1>3, OthersRest DEF IInv, Starts, Others
<1>5. Moves(p)
  BY <1>2, <1>3, <1>4 DEF Moves
<1>6. LoadedQueue = AbstractQueue /\ AbstractQueue' = q /\ Queue(AbstractQueue)
  BY <1>2, <1>3, <1>4, QueueIs, QueueNext DEF IInv, QueueOK
<1>7. LoadedCatalog = listed[p] /\ LoadedCatalog' = LoadedCatalog
  BY <1>2 DEF IInv, FilesOK, Touched, LoadedCatalog, Parsed
<1>8. p \in Workers => listed[p] = Names
  BY <1>2 DEF IInv, FilesOK, Touched
<1>9. p = Manager => listed[p] = Scanned /\ \E s \in Sigs : Scanned = Names \cup {s}
  BY <1>2 DEF IInv, SavingOK
<1>10. listed[p] \in SUBSET Sigs
  BY <1>6, <1>8, <1>9 DEF Procs, Queue, Names, Scanned
<1>11. Queue(q) /\ DOMAIN q.entries = listed[p] /\ \A w \in Workers : OwnersStay(AbstractQueue, q, w)
  BY <1>1, <1>6, <1>10, RebuiltIs
<1>12. Names' = listed[p]
  BY <1>6, <1>11 DEF Names
<1>13. p = Manager => ManagerOK' /\ SavingOK'
  <2>1. Scanned' = Scanned
    BY <1>2 DEF Scanned
  <2> QED
    BY <1>3, <1>9, <1>12, <2>1 DEF IInv, StagesOK, ManagerOK, ManagerStages, FileStages, SavingOK
<1>14. p \in Workers => WorkerOK(p)' /\ Activity(p) = "idle" /\ Activity(p)' = "synced"
  <2> SUFFICES ASSUME p \in Workers PROVE WorkerOK(p)' /\ Activity(p) = "idle" /\ Activity(p)' = "synced"
    OBVIOUS
  <2>1. after[p] = "claim"
    BY <1>2 DEF IInv, StagesOK, WorkerOK
  <2>2. Activity(p) = "idle" /\ Activity(p)' = "synced"
    BY <1>2, <1>3, <2>1 DEF Activity
  <2>3. held'[p] = 0
    BY <1>2, <2>2 DEF IInv, StagesOK, WorkerOK
  <2> QED
    BY <1>3, <2>2, <2>3 DEF WorkerOK, WorkerStages, FileStages, Starts
<1>15. Touched(p)'
  BY <1>3 DEF Touched
<1>16. IInv' /\ \A w \in Workers \ {p} : Activity(w)' = Activity(w)
  BY <1>2, <1>3, <1>5, <1>6, <1>7, <1>8, <1>11, <1>12, <1>13, <1>14, <1>15, Visible
<1>17. AbstractQueue' \in Atomic!Rebuilt(AbstractQueue, Names')
  BY <1>1, <1>6, <1>12, SameOperations
<1>18. CASE p = Manager
  <2>1. PICK s \in Sigs : Scanned = Names \cup {s}
    BY <1>9, <1>18
  <2>2. Names' = Names \cup {s}
    BY <1>9, <1>12, <1>18, <2>1
  <2>3. \A w \in Workers : Activity(w)' = Activity(w)
    BY <1>16, <1>18, ManagerIs
  <2>4. Atomic!SaveArtifact(s)
    BY <1>2, <1>17, <2>2, <2>3 DEF Atomic!SaveArtifact, Names
  <2> QED
    BY <1>16, <2>4 DEF Step, Atomic!Next
<1>19. CASE p \in Workers
  <2>1. Names' = Names
    BY <1>8, <1>12, <1>19
  <2>2. [v \in Workers |-> Activity(v)]' = [[v \in Workers |-> Activity(v)] EXCEPT ![p] = "synced"]
    BY <1>14, <1>16, <1>19, PcNext
  <2>3. Atomic!Sync(p)
    BY <1>2, <1>14, <1>17, <1>19, <2>1, <2>2 DEF Atomic!Sync, Names
  <2> QED
    BY <1>16, <1>19, <2>3 DEF Step, Atomic!Next
<1> QED
  BY <1>18, <1>19 DEF Procs

-----------------------------------------------------------------------------
(* A worker starts an operation.                                           *)
LEMMA WorkerStarts ==
    ASSUME Undisturbed, IInv, NEW w \in Workers, MayStart(w), stage[w] \in Starts
    PROVE  /\ w \in Procs /\ w # Manager /\ Others(w)
           /\ LoadedQueue = AbstractQueue /\ Queue(AbstractQueue)
           /\ LoadedCatalog = Names /\ after[w] = "idle"
<1>1. w \in Procs /\ w # Manager
  BY ManagerIs
<1>2. Others(w)
  BY <1>1, OthersRest DEF IInv
<1>3. stage[w] \notin {"queue", "queue open", "catalog open", "rebuild"}
  BY DEF Starts
<1>4. after[w] = "idle"
  BY DEF IInv, StagesOK, WorkerOK
<1> QED
  BY <1>1, <1>2, <1>3, <1>4, QueueIs, CatalogIs DEF IInv, QueueOK

(* A claim is that of ReproQueue, and so is finding nothing to claim.      *)
LEMMA ClaimStep ==
    ASSUME Undisturbed, IInv, TypeOK', NEW w \in Workers, Claim(w)
    PROVE  Step
<1>1. /\ stage[w] = "claim" /\ MayStart(w)
      /\ UNCHANGED <<metadata, catalogFile, queueFile, saving, held, deaths, listed>>
  BY DEF Claim, files, memory, claims
<1>2. /\ w \in Procs /\ w # Manager /\ Others(w)
      /\ LoadedQueue = AbstractQueue /\ Queue(AbstractQueue)
      /\ LoadedCatalog = Names /\ after[w] = "idle"
  BY <1>1, WorkerStarts DEF Starts
<1>3. Activity(w) = "synced" /\ held[w] = 0
  <2>1. Activity(w) = "synced"
    BY <1>1, <1>2 DEF Activity
  <2> QED
    BY <2>1 DEF IInv, StagesOK, WorkerOK
<1>4. LoadedCatalog' = LoadedCatalog
  BY <1>1 DEF LoadedCatalog, Parsed
<1>5. Offered(LoadedQueue, w) = Atomic!Offered(AbstractQueue, w)
  BY <1>2, SameOperations
<1>6. CASE Offered(LoadedQueue, w) = {}
  <2>1. UNCHANGED <<after, draft, claim>> /\ stage' = [stage EXCEPT ![w] = "idle"]
    BY <1>6 DEF Claim, Goto, memory, claims
  <2>2. stage'[w] = "idle" /\ \A r \in Procs \ {w} : stage'[r] = stage[r]
    BY <1>2, <2>1 DEF IInv, TypeOK
  <2>3. Moves(w)
    BY <1>1, <1>2, <2>1, <2>2 DEF Moves
  <2>4. AbstractQueue' = AbstractQueue /\ Names' = Names
    BY <1>1, <1>2, <2>2, <2>3, QueueKeeps
  <2>5. Activity(w)' = "idle"
    BY <1>2, <2>1, <2>2 DEF Activity
  <2>6. WorkerOK(w)' /\ Touched(w)'
    BY <1>1, <1>2, <1>3, <2>1, <2>2, <2>5 DEF WorkerOK, WorkerStages, FileStages, Starts, Touched
  <2>7. IInv' /\ \A v \in Workers \ {w} : Activity(v)' = Activity(v)
    BY <1>1, <1>2, <1>4, <2>2, <2>3, <2>4, <2>6, Visible DEF OwnersStay
  <2>8. [v \in Workers |-> Activity(v)]' = [[v \in Workers |-> Activity(v)] EXCEPT ![w] = "idle"]
    BY <2>5, <2>7, PcNext
  <2>9. Atomic!Claim(w)
    BY <1>1, <1>3, <1>5, <1>6, <2>1, <2>4, <2>8 DEF Atomic!Claim, Atomic!Take, Names
  <2> QED
    BY <2>7, <2>9 DEF Step, Atomic!Next
<1>7. CASE Offered(LoadedQueue, w) # {}
  <2>0. PICK s \in Offered(LoadedQueue, w) :
          /\ \E q \in Claimed(LoadedQueue, w, s) : Drafts(w, q, "replaying")
          /\ claim' = [claim EXCEPT ![w] = s]
    BY <1>7 DEF Claim
  <2>1. PICK q \in Claimed(LoadedQueue, w, s) :
          /\ draft' = [draft EXCEPT ![w] = q]
          /\ after' = [after EXCEPT ![w] = "replaying"]
          /\ stage' = [stage EXCEPT ![w] = "queue"]
    BY <2>0 DEF Drafts, Goto
  <2>2. /\ stage'[w] = "queue" /\ \A r \in Procs \ {w} : stage'[r] = stage[r]
        /\ after'[w] = "replaying" /\ \A r \in Procs \ {w} : after'[r] = after[r]
        /\ draft'[w] = q
    BY <1>2, <2>1 DEF IInv, TypeOK
  <2>3. Moves(w)
    BY <1>1, <1>2, <2>0, <2>2 DEF Moves, IInv, TypeOK
  <2>4. AbstractQueue' = q
    BY <1>2, <2>2, QueueNext DEF Others
  <2>5. Queue(q) /\ DOMAIN q.entries = Names /\ \A v \in Workers \ {w} : OwnersStay(AbstractQueue, q, v)
    BY <1>2, <2>1, ClaimedIs DEF Names
  <2>6. Names' = Names
    BY <2>4, <2>5 DEF Names
  <2>7. Activity(w)' = "replaying"
    BY <2>2 DEF Activity
  <2>8. WorkerOK(w)' /\ Touched(w)'
    BY <2>2, <2>7 DEF WorkerOK, WorkerStages, FileStages, Starts, Touched
  <2>9. IInv' /\ \A v \in Workers \ {w} : Activity(v)' = Activity(v)
    BY <1>1, <1>2, <1>4, <2>2, <2>3, <2>4, <2>5, <2>6, <2>8, Visible
  <2>10. [v \in Workers |-> Activity(v)]' = [[v \in Workers |-> Activity(v)] EXCEPT ![w] = "replaying"]
    BY <2>7, <2>9, PcNext
  <2>11. held' = [held EXCEPT ![w] = 0]
    BY <1>1, <1>3 DEF IInv, TypeOK
  <2>12. AbstractQueue' \in Atomic!Claimed(AbstractQueue, w, s)
    BY <1>2, <2>1, <2>4, SameOperations
  <2>13. Atomic!Take(w)
    BY <1>5, <2>0, <2>10, <2>11, <2>12 DEF Atomic!Take
  <2>14. Atomic!Claim(w)
    BY <1>1, <1>3, <2>6, <2>13 DEF Atomic!Claim, Names
  <2> QED
    BY <2>9, <2>14 DEF Step, Atomic!Next
<1> QED
  BY <1>6, <1>7

-----------------------------------------------------------------------------
(* Forgetting a claim is being done with it.                               *)
LEMMA DoneNext ==
    ASSUME NEW w \in Workers, Forget(w), Activity(w)' = "idle",
           \A v \in Workers \ {w} : Activity(v)' = Activity(v)
    PROVE  Atomic!Done(w)
<1>1. [v \in Workers |-> Activity(v)]' = [[v \in Workers |-> Activity(v)] EXCEPT ![w] = "idle"]
  BY PcNext
<1> QED
  BY <1>1 DEF Atomic!Done, Forget

(* A result is put on record as in ReproQueue, or refused, which is        *)
(* silent: the worker goes on to release the entry.                        *)
LEMMA FinishStep ==
    ASSUME Undisturbed, IInv, TypeOK', NEW w \in Workers,
           NEW outcome \in WorkerOutcomes, Finish(w, outcome)
    PROVE  Step
<1>1. /\ stage[w] = "replaying" /\ MayStart(w)
      /\ UNCHANGED <<metadata, catalogFile, queueFile, saving, deaths, listed>>
  BY DEF Finish, files, memory
<1>2. /\ w \in Procs /\ w # Manager /\ Others(w)
      /\ LoadedQueue = AbstractQueue /\ Queue(AbstractQueue)
      /\ LoadedCatalog = Names /\ after[w] = "idle"
  BY <1>1, WorkerStarts DEF Starts
<1>3. Activity(w) = "replaying"
  BY <1>1 DEF Activity
<1>4. LoadedCatalog' = LoadedCatalog
  BY <1>1 DEF LoadedCatalog, Parsed
<1>5. Owns(LoadedQueue, w, claim[w]) = Atomic!Owns(AbstractQueue, w, claim[w])
  BY <1>2, SameOperations
<1>6. CASE ~Owns(LoadedQueue, w, claim[w])
  <2>1. UNCHANGED <<after, draft, claim, held>> /\ stage' = [stage EXCEPT ![w] = "release"]
    BY <1>6 DEF Finish, Goto, memory, claims
  <2>2. stage'[w] = "release" /\ \A r \in Procs \ {w} : stage'[r] = stage[r]
    BY <1>2, <2>1 DEF IInv, TypeOK
  <2>3. Moves(w)
    BY <1>1, <1>2, <2>1, <2>2 DEF Moves
  <2>4. AbstractQueue' = AbstractQueue /\ Names' = Names
    BY <1>1, <1>2, <2>2, <2>3, QueueKeeps
  <2>5. Activity(w)' = "replaying"
    BY <2>2 DEF Activity
  <2>6. WorkerOK(w)' /\ Touched(w)'
    BY <1>2, <2>1, <2>2, <2>5 DEF WorkerOK, WorkerStages, FileStages, Starts, Touched
  <2> QED
    BY <1>1, <1>2, <1>3, <1>4, <1>6, <2>1, <2>3, <2>4, <2>5, <2>6, Silent DEF claims
<1>7. CASE Owns(LoadedQueue, w, claim[w])
  <2>0. (\E q \in Finished(LoadedQueue, claim[w], outcome) : Drafts(w, q, "idle")) /\ Forget(w)
    BY <1>7 DEF Finish
  <2>1. PICK q \in Finished(LoadedQueue, claim[w], outcome) :
          /\ draft' = [draft EXCEPT ![w] = q]
          /\ after' = [after EXCEPT ![w] = "idle"]
          /\ stage' = [stage EXCEPT ![w] = "queue"]
    BY <2>0 DEF Drafts, Goto
  <2>2. /\ stage'[w] = "queue" /\ \A r \in Procs \ {w} : stage'[r] = stage[r]
        /\ after'[w] = "idle" /\ \A r \in Procs \ {w} : after'[r] = after[r]
        /\ draft'[w] = q /\ held'[w] = 0
    BY <1>2, <2>0, <2>1 DEF IInv, TypeOK, Forget
  <2>3. Moves(w)
    BY <1>1, <1>2, <2>0, <2>2 DEF Moves, Forget, IInv, TypeOK
  <2>4. AbstractQueue' = q
    BY <1>2, <2>2, QueueNext DEF Others
  <2>5. Queue(q) /\ DOMAIN q.entries = Names /\ \A v \in Workers : OwnersStay(AbstractQueue, q, v)
    <3>1. claim[w] \in DOMAIN AbstractQueue.entries /\ outcome \in Outcomes
      BY <1>2, <1>7 DEF Owns, WorkerOutcomes
    <3> QED
      BY <1>2, <2>1, <3>1, FinishedIs DEF Names
  <2>6. Names' = Names
    BY <2>4, <2>5 DEF Names
  <2>7. Activity(w)' = "idle"
    BY <2>2 DEF Activity
  <2>8. WorkerOK(w)' /\ Touched(w)'
    BY <2>2, <2>7 DEF WorkerOK, WorkerStages, FileStages, Starts, Touched
  <2>9. IInv' /\ \A v \in Workers \ {w} : Activity(v)' = Activity(v)
    BY <1>1, <1>2, <1>4, <2>2, <2>3, <2>4, <2>5, <2>6, <2>8, Visible
  <2>10. AbstractQueue' \in Atomic!Finished(AbstractQueue, claim[w], outcome)
    BY <1>2, <2>1, <2>4, SameOperations
  <2>11. Atomic!Done(w)
    BY <2>0, <2>7, <2>9, DoneNext
  <2>12. Atomic!Finish(w, outcome)
    BY <1>1, <1>3, <1>5, <1>7, <2>6, <2>10, <2>11 DEF Atomic!Finish, Names
  <2>13. outcome \in Atomic!WorkerOutcomes
    BY DEF WorkerOutcomes, Outcomes, Atomic!WorkerOutcomes, Atomic!Outcomes
  <2> QED
    BY <2>9, <2>12, <2>13 DEF Step, Atomic!Next
<1> QED
  BY <1>6, <1>7

(* The release is refused too, and is the Finish of ReproQueue that leaves *)
(* the queue alone.                                                        *)
LEMMA ReleaseStep ==
    ASSUME Undisturbed, IInv, TypeOK', NEW w \in Workers, Release(w)
    PROVE  Step
<1>1. /\ stage[w] = "release" /\ MayStart(w) /\ Forget(w)
      /\ UNCHANGED <<metadata, catalogFile, queueFile, saving, deaths>>
  BY DEF Release, files
<1>2. /\ w \in Procs /\ w # Manager /\ Others(w)
      /\ LoadedQueue = AbstractQueue /\ Queue(AbstractQueue)
      /\ LoadedCatalog = Names /\ after[w] = "idle"
  BY <1>1, WorkerStarts DEF Starts
<1>3. Activity(w) = "replaying"
  BY <1>1 DEF Activity
<1>4. LoadedCatalog' = LoadedCatalog
  BY <1>1 DEF LoadedCatalog, Parsed
<1>5. ~Owns(LoadedQueue, w, claim[w])
  BY <1>1, <1>2 DEF IInv, QueueOK
<1>6. stage' = [stage EXCEPT ![w] = "idle"] /\ UNCHANGED <<after, draft, listed>>
  BY <1>5 DEF Release, Goto, memory
<1>7. /\ stage'[w] = "idle" /\ \A r \in Procs \ {w} : stage'[r] = stage[r]
      /\ held'[w] = 0
  BY <1>1, <1>2, <1>6 DEF IInv, TypeOK, Forget
<1>8. Moves(w)
  BY <1>1, <1>2, <1>6, <1>7 DEF Moves, Forget, IInv, TypeOK
<1>9. AbstractQueue' = AbstractQueue /\ Names' = Names
  BY <1>1, <1>2, <1>7, <1>8, QueueKeeps
<1>10. Activity(w)' = "idle"
  BY <1>2, <1>6, <1>7 DEF Activity
<1>11. WorkerOK(w)' /\ Touched(w)'
  BY <1>2, <1>6, <1>7, <1>10 DEF WorkerOK, WorkerStages, FileStages, Starts, Touched
<1>12. IInv' /\ \A v \in Workers \ {w} : Activity(v)' = Activity(v)
  BY <1>1, <1>2, <1>4, <1>7, <1>8, <1>9, <1>11, Visible DEF OwnersStay
<1>13. Atomic!Done(w)
  BY <1>1, <1>10, <1>12, DoneNext
<1>14. ~Atomic!Owns(AbstractQueue, w, claim[w])
  BY <1>2, <1>5, SameOperations
<1>15. Atomic!Finish(w, "failed")
  BY <1>1, <1>3, <1>9, <1>13, <1>14 DEF Atomic!Finish, Names
<1>16. "failed" \in Atomic!WorkerOutcomes
  BY DEF Atomic!WorkerOutcomes, Atomic!Outcomes
<1> QED
  BY <1>12, <1>15, <1>16 DEF Step, Atomic!Next

-----------------------------------------------------------------------------
(* A worker that dies between operations leaves files and queue as they    *)
(* are, whatever another process is doing.                                 *)
LEMMA DieStep ==
    ASSUME Undisturbed, IInv, TypeOK', NEW p \in Procs, Die(p)
    PROVE  Step
<1>1. /\ stage[p] # "idle" /\ stage[p] \in Starts
      /\ deaths < MaxInterventions /\ deaths' = deaths + 1
      /\ stage' = [stage EXCEPT ![p] = "idle"]
      /\ after' = [after EXCEPT ![p] = "idle"]
      /\ listed' = [listed EXCEPT ![p] = {}]
      /\ draft' = [draft EXCEPT ![p] = EmptyQueue]
      /\ UNCHANGED <<metadata, catalogFile, queueFile>>
  BY DEF Die, Goto, files
<1>2. p \in Workers /\ p # Manager
  <2>1. stage[Manager] \in Starts => stage[Manager] = "idle"
    BY DEF IInv, StagesOK, ManagerOK, ManagerStages, FileStages, Starts
  <2> QED
    BY <1>1, <2>1, ManagerIs DEF Procs
<1>3. Forget(p) /\ saving' = saving
  BY <1>2 DEF Die
<1>4. /\ stage'[p] = "idle" /\ after'[p] = "idle" /\ held'[p] = 0
      /\ \A r \in Procs \ {p} : /\ stage'[r] = stage[r] /\ after'[r] = after[r]
                                /\ listed'[r] = listed[r] /\ draft'[r] = draft[r]
      /\ \A v \in Workers \ {p} : claim'[v] = claim[v] /\ held'[v] = held[v]
  BY <1>1, <1>2, <1>3 DEF IInv, TypeOK, Forget
<1>5. LoadedCatalog' = LoadedCatalog /\ LoadedQueue' = LoadedQueue /\ Scanned' = Scanned
  BY <1>1 DEF LoadedCatalog, LoadedQueue, Parsed, Scanned
<1>6. AbstractQueue' = AbstractQueue /\ Names' = Names
  <2>1. CASE \A r \in Procs : stage[r] \in Starts
    <3>1. Others(p) /\ Others(p)'
      BY <1>4, <2>1 DEF Others
    <3>2. stage[p] \notin {"queue", "queue open"} /\ stage'[p] \notin {"queue", "queue open"}
      BY <1>1, <1>4 DEF Starts
    <3> QED
      BY <1>5, <3>1, <3>2, QueueIs, QueueNext DEF Names
  <2>2. CASE \E r \in Procs : stage[r] \notin Starts
    <3>1. PICK r \in Procs : stage[r] \notin Starts
      BY <2>2
    <3>2. r # p /\ Others(r)
      BY <1>1, <3>1 DEF IInv, Alone, Others
    <3>3. Others(r)' /\ stage'[r] = stage[r] /\ draft'[r] = draft[r]
      BY <1>4, <3>2 DEF Others, Starts
    <3> QED
      BY <1>5, <3>2, <3>3, QueueIs, QueueNext DEF Names
  <2> QED
    BY <2>1, <2>2
<1>7. \A v \in Workers \ {p} : Activity(v)' = Activity(v)
  BY <1>4, ManagerIs DEF Activity
<1>8. Activity(p) # "idle" /\ Activity(p)' = "idle"
  BY <1>1, <1>4 DEF Activity, Starts
<1>9. StagesOK'
  <2>1. WorkerOK(p)'
    BY <1>4 DEF WorkerOK, WorkerStages, Starts
  <2>2. ASSUME NEW v \in Workers \ {p} PROVE WorkerOK(v)'
    BY <1>4, <1>7, ManagerIs DEF IInv, StagesOK, WorkerOK
  <2>3. ManagerOK'
    BY <1>2, <1>4, ManagerIs DEF IInv, StagesOK, ManagerOK
  <2> QED
    BY <2>1, <2>2, <2>3 DEF StagesOK
<1>10. Alone'
  BY <1>1, <1>4 DEF IInv, Alone, Starts
<1>11. QueueOK'
  <2>1. ASSUME NEW v \in Workers, stage'[v] = "release" PROVE ~Owns(AbstractQueue', v, claim'[v])
    BY <1>4, <1>6, <2>1, ManagerIs DEF IInv, QueueOK
  <2> QED
    BY <1>6, <2>1 DEF IInv, QueueOK, Queue, Owns
<1>12. FilesOK'
  <2>1. ASSUME NEW r \in Procs PROVE Touched(r)'
    <3>1. CASE r = p
      BY <1>4, <3>1 DEF Touched
    <3>2. CASE r # p
      BY <1>1, <1>4, <1>5, <1>6, <3>2 DEF IInv, FilesOK, Touched
    <3> QED
      BY <3>1, <3>2
  <2>2. (\A r \in Procs : stage'[r] \notin {"catalog open", "rebuild"})
           => \A r \in Procs : stage[r] \notin {"catalog open", "rebuild"}
    BY <1>1, <1>4 DEF Starts
  <2> QED
    BY <1>5, <1>6, <2>1, <2>2 DEF IInv, FilesOK
<1>13. SavingOK'
  <2>1. stage'[Manager] = stage[Manager] /\ listed'[Manager] = listed[Manager]
    BY <1>2, <1>4, ManagerIs
  <2> QED
    BY <1>3, <1>5, <1>6, <2>1 DEF IInv, SavingOK
<1>14. Atomic!Done(p)
  BY <1>2, <1>3, <1>7, <1>8, DoneNext
<1>15. Atomic!Die(p)
  BY <1>1, <1>2, <1>6, <1>8, <1>14 DEF Atomic!Die, Atomic!Intervene, Names
<1>16. p \in Atomic!Holders
  BY <1>2 DEF Atomic!Holders
<1> QED
  BY <1>9, <1>10, <1>11, <1>12, <1>13, <1>15, <1>16 DEF Step, IInv, Atomic!Next

(* The clock moves on in a file and in memory alike.                       *)
LEMMA AgedEverywhere ==
    ASSUME TypeOK, IInv, Tick
    PROVE  AbstractQueue' = AgedQueue(AbstractQueue)
<1>1. /\ stage' = stage
      /\ queueFile' = IF queueFile.state = "whole" THEN Whole(AgedQueue(queueFile.content)) ELSE queueFile
      /\ draft' = [p \in Procs |-> AgedQueue(draft[p])]
  BY DEF Tick
<1>2. AgedQueue(EmptyQueue) = EmptyQueue
  BY DEF AgedQueue, EmptyQueue
<1>3. LoadedQueue' = AgedQueue(LoadedQueue)
  BY <1>1, <1>2 DEF LoadedQueue, Parsed, Whole
<1>4. CASE Writing = {}
  BY <1>1, <1>3, <1>4 DEF AbstractQueue, Writing
<1>5. CASE Writing # {}
  <2>1. PICK r \in Procs : stage[r] = "queue" \/ stage[r] = "queue open"
    BY <1>5 DEF Writing
  <2>2. Others(r) /\ Others(r)'
    BY <1>1, <2>1 DEF IInv, Alone, Others, Starts
  <2>3. draft'[r] = AgedQueue(draft[r])
    BY <1>1
  <2> QED
    BY <1>1, <2>1, <2>2, <2>3, QueueIs, QueueNext
<1> QED
  BY <1>4, <1>5

(* Time passes as in ReproQueue.                                           *)
LEMMA TickStep ==
    ASSUME Undisturbed, IInv, TypeOK', Tick
    PROVE  Step
<1>1. /\ stage' = stage /\ after' = after
      /\ UNCHANGED <<metadata, catalogFile, listed, saving, claim, deaths>>
      /\ queueFile = Truncated => queueFile' = queueFile
      /\ \A w \in Workers : Activity(w) = "replaying" => held[w] < ReplayTime
      /\ held' = [w \in Workers |-> IF Activity(w) = "replaying" THEN held[w] + 1 ELSE held[w]]
  BY DEF Tick, Truncated
<1>2. AbstractQueue' = AgedQueue(AbstractQueue)
  BY AgedEverywhere DEF IInv
<1>3. /\ Queue(AbstractQueue') /\ Names' = Names
      /\ \A w \in Workers : OwnersStay(AbstractQueue, AbstractQueue', w)
  BY <1>2, AgedIs DEF IInv, QueueOK, Names
<1>4. \A w : Activity(w)' = Activity(w)
  BY <1>1 DEF Activity
<1>5. LoadedCatalog' = LoadedCatalog /\ Scanned' = Scanned
  BY <1>1 DEF LoadedCatalog, Parsed, Scanned
<1>6. StagesOK'
  <2>1. ASSUME NEW w \in Workers PROVE WorkerOK(w)'
    <3>1. Activity(w) # "replaying" => held'[w] = held[w]
      BY <1>1
    <3> QED
      BY <1>1, <1>4, <3>1 DEF IInv, StagesOK, WorkerOK
  <2> QED
    BY <1>1, <2>1 DEF IInv, StagesOK, ManagerOK
<1>7. Alone'
  BY <1>1 DEF IInv, Alone
<1>8. QueueOK'
  <2>1. ASSUME NEW w \in Workers, stage'[w] = "release" PROVE ~Owns(AbstractQueue', w, claim'[w])
    BY <1>1, <1>3, <2>1 DEF IInv, QueueOK, OwnersStay
  <2> QED
    BY <1>3, <2>1 DEF QueueOK, Queue, Owns
<1>9. FilesOK'
  <2>1. ASSUME NEW r \in Procs PROVE Touched(r)'
    BY <1>1, <1>3, <1>5 DEF IInv, FilesOK, Touched
  <2> QED
    BY <1>1, <1>3, <1>5, <2>1 DEF IInv, FilesOK
<1>10. SavingOK'
  BY <1>1, <1>3, <1>5 DEF IInv, SavingOK
<1>11. Atomic!Tick
  <2>1. Atomic!Holders = Workers
    BY FilesAssumption DEF Atomic!Holders
  <2>2. AbstractQueue' = [entries |-> [s \in DOMAIN AbstractQueue.entries |-> Atomic!Aged(AbstractQueue.entries[s])],
                          order |-> AbstractQueue.order]
    BY <1>2, SameAged DEF AgedQueue
  <2>3. [w \in Workers |-> Activity(w)]' = [w \in Workers |-> Activity(w)]
    BY <1>4
  <2> QED
    BY <1>1, <1>3, <2>1, <2>2, <2>3 DEF Atomic!Tick, Names
<1> QED
  BY <1>6, <1>7, <1>8, <1>9, <1>10, <1>11 DEF Step, IInv, Atomic!Next

-----------------------------------------------------------------------------
(* It starts as ReproQueue does.                                           *)
LEMMA Starting == Init => IInv /\ Atomic!Init
<1> SUFFICES ASSUME Init PROVE IInv /\ Atomic!Init
  OBVIOUS
<1>1. /\ metadata = [s \in Sigs |-> "absent"]
      /\ catalogFile = Truncated /\ queueFile = Truncated
      /\ stage = [p \in Procs |-> "idle"] /\ after = [p \in Procs |-> "idle"]
      /\ listed = [p \in Procs |-> {}] /\ draft = [p \in Procs |-> EmptyQueue]
      /\ claim = [w \in Workers |-> None] /\ held = [w \in Workers |-> 0]
      /\ deaths = 0
  BY DEF Init
<1>2. Manager \in Procs /\ Workers \subseteq Procs
  BY DEF Procs
<1>3. \A p \in Procs : stage[p] = "idle" /\ after[p] = "idle"
  BY <1>1
<1>4. AbstractQueue = EmptyQueue
  <2>1. LoadedQueue = EmptyQueue
    BY <1>1 DEF LoadedQueue, Parsed, Truncated
  <2>2. Others(Manager)
    BY <1>3 DEF Others, Starts
  <2> QED
    BY <1>2, <1>3, <2>1, <2>2, QueueIs
<1>5. Names = {} /\ Queue(AbstractQueue)
  BY <1>4, EmptyIs DEF Names
<1>6. LoadedCatalog = {} /\ Scanned = {}
  BY <1>1 DEF LoadedCatalog, Parsed, Truncated, Scanned
<1>7. \A w \in Workers : Activity(w) = "idle"
  BY <1>2, <1>3 DEF Activity
<1>8. TypeOK
  <2>1. 0 \in Nat
    OBVIOUS
  <2>2. "idle" \in WorkerStages \cup ManagerStages
    BY DEF WorkerStages, Starts
  <2> QED
    BY <1>1, <2>1, <2>2 DEF TypeOK
<1>9. StagesOK
  BY <1>1, <1>2, <1>3 DEF StagesOK, ManagerOK, ManagerStages, WorkerOK, WorkerStages, Starts
<1>10. Alone
  BY <1>3 DEF Alone, Starts
<1>11. QueueOK
  BY <1>2, <1>3, <1>5 DEF QueueOK
<1>12. FilesOK
  BY <1>3, <1>5, <1>6 DEF FilesOK, Touched
<1>13. SavingOK
  BY <1>2, <1>3, <1>5, <1>6 DEF SavingOK
<1>14. Atomic!Init
  <2>1. Atomic!Holders = Workers
    BY FilesAssumption DEF Atomic!Holders
  <2>2. AbstractQueue = Atomic!EmptyQueue
    BY <1>4, SameOperations
  <2>3. [w \in Workers |-> Activity(w)] = [w \in Workers |-> "idle"]
    BY <1>7
  <2> QED
    BY <1>1, <1>5, <2>1, <2>2, <2>3 DEF Atomic!Init, Names
<1> QED
  BY <1>8, <1>9, <1>10, <1>11, <1>12, <1>13, <1>14 DEF IInv

(* Every step is one of ReproQueue or none.                                *)
LEMMA Stepping == Undisturbed /\ IInv /\ [Next]_vars => Step
<1> SUFFICES ASSUME Undisturbed, IInv, [Next]_vars PROVE Step
  OBVIOUS
<1>1. CASE UNCHANGED vars
  <2>1. /\ UNCHANGED <<metadata, catalogFile, queueFile, stage, after, listed, draft, saving>>
        /\ UNCHANGED <<claim, held, deaths>>
    BY <1>1 DEF vars, files, memory, claims
  <2>2. LoadedQueue' = LoadedQueue /\ LoadedCatalog' = LoadedCatalog /\ Scanned' = Scanned
    BY <2>1 DEF LoadedQueue, LoadedCatalog, Parsed, Scanned
  <2>3. AbstractQueue' = AbstractQueue
    BY <2>1, <2>2 DEF AbstractQueue, Writing
  <2>4. \A w : Activity(w)' = Activity(w)
    BY <2>1 DEF Activity
  <2>5. UNCHANGED Atomic!vars
    BY <2>1, <2>3, <2>4, Stutters DEF claims
  <2>6. TypeOK' /\ Alone' /\ StagesOK'
    BY <2>1, <2>4 DEF IInv, TypeOK, Alone, StagesOK, ManagerOK, WorkerOK
  <2>7. QueueOK'
    BY <2>1, <2>3 DEF IInv, QueueOK, Queue, Owns
  <2>8. FilesOK' /\ SavingOK'
    BY <2>1, <2>2, <2>3 DEF IInv, FilesOK, SavingOK, Touched, Names
  <2> QED
    BY <2>5, <2>6, <2>7, <2>8 DEF Step, IInv
<1>2. CASE Next
  <2>1. TypeOK'
    BY <1>2, TypeNext DEF IInv
  <2>2. \A s \in Sigs : OpenMetadata(s) => Step
    BY <2>1, OpenMetadataStep
  <2>3. ManagerStep => Step
    BY <2>1, WriteMetadataStep, UpdateCatalogStep DEF ManagerStep
  <2>4. \A p \in Procs : FileStep(p) => Step
    BY <2>1, OpenCatalogStep, WriteCatalogStep, RebuildStep, OpenQueueStep, WriteQueueStep DEF FileStep
  <2>5. \A p \in Procs : Die(p) => Step
    BY <2>1, DieStep
  <2>6. \A w \in Workers : WorkerStep(w) => Step
    BY <2>1, ScanStep, ClaimStep, FinishStep, ReleaseStep DEF WorkerStep
  <2>7. Tick => Step
    BY <2>1, TickStep
  <2> QED
    BY <1>2, <2>2, <2>3, <2>4, <2>5, <2>6, <2>7 DEF Next
<1> QED
  BY <1>1, <1>2

(* The loads, writes and calls on the files (write_artifact_catalog,       *)
(* claim_repro_queue_entry_at and the others in crash.rs) implement the    *)
(* operations of ReproQueue, if they neither overlap nor are cut short.    *)
THEOREM OperationsAddUp == Undisturbed => (Spec => OperationsAreAtomic)
<1> SUFFICES ASSUME Undisturbed PROVE Spec => OperationsAreAtomic
  OBVIOUS
<1>1. Init => IInv /\ Atomic!Init
  BY Starting
<1>2. IInv /\ [Next]_vars => IInv' /\ [Atomic!Next]_(Atomic!vars)
  BY Stepping DEF Step
<1> QED
  BY <1>1, <1>2, PTL DEF Spec, Atomic!Spec, OperationsAreAtomic

Proved == INSTANCE ReproQueueProofs WITH
    queue <- AbstractQueue,
    catalog <- DOMAIN AbstractQueue.entries,
    pc <- [w \in Workers |-> Activity(w)],
    overridden <- [w \in Workers |-> FALSE],
    interventions <- deaths

(* ReproQueueProofs is about the same operations ...                       *)
LEMMA OneSorted == ASSUME NEW entries PROVE Atomic!Sorted(entries) = Proved!Sorted(entries)
BY DEF Atomic!Sorted, Proved!Sorted, Atomic!SortKey, Proved!SortKey, Atomic!Flag, Proved!Flag, Atomic!Leased, Proved!Leased, Atomic!Resting, Proved!Resting, Atomic!OutcomeRank, Proved!OutcomeRank, Atomic!LexLess, Proved!LexLess, Atomic!Cardinality, Proved!Cardinality

(* ... on queues ...                                                       *)
LEMMA OneQueue ==
    ASSUME NEW q, NEW h, NEW s, NEW c, NEW outcome
    PROVE  /\ Atomic!Rebuilt(q, c) = Proved!Rebuilt(q, c)
           /\ Atomic!Offered(q, h) = Proved!Offered(q, h)
           /\ Atomic!Claimed(q, h, s) = Proved!Claimed(q, h, s)
           /\ Atomic!Finished(q, s, outcome) = Proved!Finished(q, s, outcome)
           /\ Atomic!Freed(q, s) = Proved!Freed(q, s)
           /\ Atomic!Owns(q, h, s) = Proved!Owns(q, h, s)
<1>1. Atomic!Rebuilt(q, c) = Proved!Rebuilt(q, c)
  BY OneSorted DEF Atomic!Rebuilt, Proved!Rebuilt, Atomic!Retained, Proved!Retained, Atomic!Fresh, Proved!Fresh, Atomic!Leased, Proved!Leased
<1>2. Atomic!Offered(q, h) = Proved!Offered(q, h)
  BY DEF Atomic!Offered, Proved!Offered, Atomic!First, Proved!First, Atomic!Claimable, Proved!Claimable, Atomic!Leased, Proved!Leased, Atomic!Resting, Proved!Resting
<1>3. Atomic!Claimed(q, h, s) = Proved!Claimed(q, h, s)
  BY OneSorted DEF Atomic!Claimed, Proved!Claimed, Atomic!Granted, Proved!Granted
<1>4. Atomic!Finished(q, s, outcome) = Proved!Finished(q, s, outcome)
  BY OneSorted DEF Atomic!Finished, Proved!Finished, Atomic!Recorded, Proved!Recorded, Atomic!Least, Proved!Least, Atomic!Backoff, Proved!Backoff
<1>5. Atomic!Freed(q, s) = Proved!Freed(q, s) /\ Atomic!Owns(q, h, s) = Proved!Owns(q, h, s)
  BY OneSorted DEF Atomic!Freed, Proved!Freed, Atomic!Owns, Proved!Owns
<1> QED
  BY <1>1, <1>2, <1>3, <1>4, <1>5

(* ... and the same steps.                                                 *)
LEMMA OneNext == Atomic!Next => Proved!Next
<1>0. \A h : Atomic!Take(h) => Proved!Take(h)
  <2> SUFFICES ASSUME NEW h, Atomic!Take(h) PROVE Proved!Take(h)
    OBVIOUS
  <2>1. Atomic!Offered(AbstractQueue, h) = Proved!Offered(AbstractQueue, h)
    BY OneQueue
  <2>2. \A s : Atomic!Claimed(AbstractQueue, h, s) = Proved!Claimed(AbstractQueue, h, s)
    BY OneQueue
  <2>3. CASE Atomic!Offered(AbstractQueue, h) = {}
    BY <2>1, <2>3 DEF Atomic!Take, Proved!Take
  <2>4. CASE Atomic!Offered(AbstractQueue, h) # {}
    <3>1. PICK s \in Atomic!Offered(AbstractQueue, h) :
            /\ AbstractQueue' \in Atomic!Claimed(AbstractQueue, h, s)
            /\ claim' = [claim EXCEPT ![h] = s]
            /\ held' = [held EXCEPT ![h] = 0]
            /\ [w \in Workers |-> FALSE]' = [[w \in Workers |-> FALSE] EXCEPT ![h] = FALSE]
            /\ [w \in Workers |-> Activity(w)]' = [[w \in Workers |-> Activity(w)] EXCEPT ![h] = "replaying"]
      BY <2>4 DEF Atomic!Take
    <3>2. s \in Proved!Offered(AbstractQueue, h) /\ AbstractQueue' \in Proved!Claimed(AbstractQueue, h, s)
      BY <2>1, <2>2, <3>1
    <3> QED
      BY <3>1, <3>2 DEF Proved!Take
  <2> QED
    BY <2>3, <2>4
<1>1. \A s : Atomic!SaveArtifact(s) => Proved!SaveArtifact(s)
  BY OneQueue DEF Atomic!SaveArtifact, Proved!SaveArtifact
<1>2. \A h : Atomic!Sync(h) => Proved!Sync(h)
  BY OneQueue DEF Atomic!Sync, Proved!Sync
<1>3. \A h : Atomic!Claim(h) => Proved!Claim(h)
  BY <1>0 DEF Atomic!Claim, Proved!Claim
<1>4. \A h : Atomic!Die(h) => Proved!Die(h)
  BY OneQueue DEF Atomic!Die, Proved!Die, Atomic!Done, Proved!Done, Atomic!Intervene, Proved!Intervene
<1>5. \A h, outcome : Atomic!Finish(h, outcome) => Proved!Finish(h, outcome)
  BY OneQueue DEF Atomic!Finish, Proved!Finish, Atomic!Done, Proved!Done
<1>6. \A h : Atomic!ClaimByHand(h) => Proved!ClaimByHand(h)
  BY <1>0 DEF Atomic!ClaimByHand, Proved!ClaimByHand, Atomic!Intervene, Proved!Intervene
<1>7. \A h : Atomic!ReleaseByHand(h) => Proved!ReleaseByHand(h)
  BY OneQueue DEF Atomic!ReleaseByHand, Proved!ReleaseByHand, Atomic!Done, Proved!Done
<1>8. \A h, outcome : Atomic!RequeueByHand(h, outcome) => Proved!RequeueByHand(h, outcome)
  BY OneQueue DEF Atomic!RequeueByHand, Proved!RequeueByHand, Atomic!Done, Proved!Done
<1>9. \A s, outcome : Atomic!AttemptByHand(s, outcome) => Proved!AttemptByHand(s, outcome)
  <2>1. \A s, outcome : Atomic!Finished(AbstractQueue, s, outcome) = Proved!Finished(AbstractQueue, s, outcome)
    BY OneQueue
  <2> QED
    BY Zenon, <2>1 DEF Atomic!AttemptByHand, Proved!AttemptByHand, Atomic!Intervene, Proved!Intervene, Atomic!Holders, Proved!Holders
<1>10. Atomic!Tick => Proved!Tick
  BY Zenon, SameAged DEF Atomic!Tick, Proved!Tick, Atomic!Aged, Proved!Aged, Atomic!Holders, Proved!Holders
<1> QED
  BY <1>1, <1>2, <1>3, <1>4, <1>5, <1>6, <1>7, <1>8, <1>9, <1>10 DEF Atomic!Next, Proved!Next, Atomic!Holders, Proved!Holders, Atomic!Outcomes, Proved!Outcomes, Atomic!WorkerOutcomes, Proved!WorkerOutcomes

(* Two workers never replay one artifact under leases neither of which has *)
(* run out (claim_repro_queue_entry_at in crash.rs), if operations on the  *)
(* queue neither overlap nor are cut short: the claims of ReproQueue       *)
(* exclude each other.                                                     *)
THEOREM LeasesAreHonoured == Undisturbed => (Spec => []LeasesExclude)
<1> SUFFICES ASSUME Undisturbed PROVE Spec => []LeasesExclude
  OBVIOUS
<1>1. Proved!QueueAssumption
  BY QueueAssumption DEF Proved!QueueAssumption, Proved!Holders, Holders, Proved!Outcomes, Outcomes
<1>2. Proved!Spec => []Proved!ClaimsAreExclusive
  BY <1>1, Proved!Exclusive
<1>3. Atomic!Init => Proved!Init
  BY DEF Atomic!Init, Proved!Init, Atomic!Holders, Proved!Holders, Atomic!EmptyQueue, Proved!EmptyQueue,
         Atomic!Fresh, Proved!Fresh
<1>4. [Atomic!Next]_(Atomic!vars) => [Proved!Next]_(Proved!vars)
  <2>1. Atomic!vars = Proved!vars /\ Atomic!vars' = Proved!vars'
    BY DEF Atomic!vars, Proved!vars
  <2> QED
    BY <2>1, OneNext
<1>5. Proved!ClaimsAreExclusive => LeasesExclude
  <2> SUFFICES ASSUME Proved!ClaimsAreExclusive, NEW v \in Workers, NEW w \in Workers,
                      Activity(v) = "replaying", held[v] < LeaseTime,
                      Activity(w) = "replaying", held[w] < LeaseTime,
                      claim[v] = claim[w]
               PROVE  v = w
    BY DEF LeasesExclude
  <2>1. v \in Proved!Holders /\ w \in Proved!Holders
    BY DEF Proved!Holders
  <2>2. Proved!Secure(v) /\ Proved!Secure(w)
    BY DEF Proved!Secure
  <2> QED
    BY <2>1, <2>2 DEF Proved!ClaimsAreExclusive
<1>6. Spec => Atomic!Spec
  BY OperationsAddUp DEF OperationsAreAtomic
<1>7. Atomic!Spec => Proved!Spec
  BY <1>3, <1>4, PTL DEF Atomic!Spec, Proved!Spec
<1> QED
  BY <1>2, <1>5, <1>6, <1>7, PTL
=============================================================================
