-------------------------- MODULE ReproQueueFiles --------------------------
(***************************************************************************)
(* The operations of ReproQueue, taken apart into what they do to files.   *)
(*                                                                         *)
(* The manager and the repro-worker processes share metadata.json of each  *)
(* artifact, artifacts.json and repro_queue.json.  No file is locked:      *)
(* every operation reads a file, computes what is to be written, truncates *)
(* the file and writes it.  A process may die between any two steps, and   *)
(* the steps of different processes interleave.  A file that does not      *)
(* parse counts as empty.                                                  *)
(*                                                                         *)
(* Commands given by hand (Operators) are left to ReproQueue.              *)
(***************************************************************************)
EXTENDS QueueEntries

CONSTANTS
    Manager,      \* the process that saves artifacts
    Undisturbed,  \* operations neither overlap nor are cut short
    MaxSaves      \* bound: saves by the manager

ASSUME FilesAssumption ==
    Operators = {} /\ Manager \notin Workers /\ Undisturbed \in BOOLEAN /\ MaxSaves \in Nat

Procs == Workers \cup {Manager}

VARIABLES
    metadata,     \* metadata.json of each artifact: "absent", "torn" or "whole"
    catalogFile,  \* artifacts.json
    queueFile,    \* repro_queue.json
    stage,        \* what each process is about to do
    after,        \* the stage that follows the write of the queue
    listed,       \* the catalog each process has in memory
    draft,        \* the queue each process is going to write
    saving,       \* the artifact the manager is saving
    claim, held,  \* as in ReproQueue
    saves, deaths

files == <<metadata, catalogFile, queueFile>>
memory == <<after, listed, draft>>
claims == <<claim, held>>
vars == <<files, stage, memory, saving, claims, saves, deaths>>

-----------------------------------------------------------------------------
(* Files.                                                                  *)

Truncated == [state |-> "empty"]
Torn == [state |-> "torn"]
Whole(content) == [state |-> "whole", content |-> content]

(* What fs::write leaves when it writes to a file it has truncated.  If    *)
(* another process has written since, a shorter text leaves the end of the *)
(* other one standing.                                                     *)
Overwritten(file, content) ==
    {Whole(content)} \cup (IF file.state = "empty" THEN {} ELSE {Torn})

Parsed(file, default) == IF file.state = "whole" THEN file.content ELSE default

LoadedQueue == Parsed(queueFile, EmptyQueue)
LoadedCatalog == Parsed(catalogFile, {})

ScannedByCatalog == LoadedCatalog   \* mutant: the sync trusts the catalog on disk

(* scan_artifact_catalog_entries: unreadable metadata is skipped.          *)
Scanned == {s \in Sigs : metadata[s] = "whole"}

-----------------------------------------------------------------------------
(* A process is between two operations when its next step starts one.      *)
Starts == {"idle", "claim", "replaying", "release"}

MayStart(p) ==
    Undisturbed => \A r \in Procs \ {p} : stage[r] \in Starts

Goto(p, s) == stage' = [stage EXCEPT ![p] = s]

Init ==
    /\ metadata = [s \in Sigs |-> "absent"]
    /\ catalogFile = Truncated /\ queueFile = Truncated
    /\ stage = [p \in Procs |-> "idle"] /\ after = [p \in Procs |-> "idle"]
    /\ listed = [p \in Procs |-> {}] /\ draft = [p \in Procs |-> EmptyQueue]
    /\ saving = None
    /\ claim = [w \in Workers |-> None] /\ held = [w \in Workers |-> 0]
    /\ saves = 0 /\ deaths = 0

(* save_crash and save_timeout: the metadata, new or counting another      *)
(* occurrence, ...                                                         *)
OpenMetadata(s) ==
    /\ stage[Manager] = "idle" /\ MayStart(Manager)
    /\ saves < MaxSaves /\ saves' = saves + 1
    /\ metadata' = [metadata EXCEPT ![s] = "torn"]
    /\ saving' = s
    /\ Goto(Manager, "metadata")
    /\ UNCHANGED <<catalogFile, queueFile, memory, claims, deaths>>

WriteMetadata ==
    /\ stage[Manager] = "metadata"
    /\ metadata' = [metadata EXCEPT ![saving] = "whole"]
    /\ Goto(Manager, "update")
    /\ UNCHANGED <<catalogFile, queueFile, memory, saving, claims, saves, deaths>>

(* ... then update_artifact_catalog.                                       *)
UpdateCatalog ==
    /\ stage[Manager] = "update"
    /\ listed' = [listed EXCEPT ![Manager] = LoadedCatalog \cup {saving}]
    /\ saving' = None
    /\ Goto(Manager, "catalog")
    /\ UNCHANGED <<files, after, draft, claims, saves, deaths>>

(* sync_artifact_catalog, at the start of a worker's round.                *)
Scan(w) ==
    /\ stage[w] = "idle" /\ MayStart(w)
    /\ listed' = [listed EXCEPT ![w] = Scanned]
    /\ after' = [after EXCEPT ![w] = "claim"]
    /\ Goto(w, "catalog")
    /\ UNCHANGED <<files, draft, saving, claims, saves, deaths>>

(* write_artifact_catalog: artifacts.json is written, and the queue is     *)
(* rebuilt from the catalog in memory and the queue on disk.               *)
OpenCatalog(p) ==
    /\ stage[p] = "catalog"
    /\ catalogFile' = Truncated
    /\ Goto(p, "catalog open")
    /\ UNCHANGED <<metadata, queueFile, memory, saving, claims, saves, deaths>>

WriteCatalog(p) ==
    /\ stage[p] = "catalog open"
    /\ catalogFile' \in Overwritten(catalogFile, listed[p])
    /\ Goto(p, "rebuild")
    /\ UNCHANGED <<metadata, queueFile, memory, saving, claims, saves, deaths>>

Drafts(p, q, next) ==
    /\ draft' = [draft EXCEPT ![p] = q]
    /\ after' = [after EXCEPT ![p] = next]
    /\ Goto(p, "queue")

Rebuild(p) ==
    /\ stage[p] = "rebuild"
    /\ \E q \in Rebuilt(LoadedQueue, listed[p]) : Drafts(p, q, after[p])
    /\ listed' = [listed EXCEPT ![p] = {}]
    /\ UNCHANGED <<files, saving, claims, saves, deaths>>

(* write_artifact_repro_queue_at                                           *)
OpenQueue(p) ==
    /\ stage[p] = "queue"
    /\ queueFile' = Truncated
    /\ Goto(p, "queue open")
    /\ UNCHANGED <<metadata, catalogFile, memory, saving, claims, saves, deaths>>

WriteQueue(p) ==
    /\ stage[p] = "queue open"
    /\ queueFile' \in Overwritten(queueFile, draft[p])
    /\ Goto(p, after[p])
    /\ draft' = [draft EXCEPT ![p] = EmptyQueue]
    /\ after' = [after EXCEPT ![p] = "idle"]
    /\ UNCHANGED <<metadata, catalogFile, listed, saving, claims, saves, deaths>>

(* claim_repro_queue_entry                                                 *)
Claim(w) ==
    /\ stage[w] = "claim" /\ MayStart(w)
    /\ \/ /\ Offered(LoadedQueue, w) = {}
          /\ Goto(w, "idle")
          /\ UNCHANGED <<memory, claims>>
       \/ \E s \in Offered(LoadedQueue, w) :
          /\ \E q \in Claimed(LoadedQueue, w, s) : Drafts(w, q, "replaying")
          /\ claim' = [claim EXCEPT ![w] = s]
          /\ UNCHANGED <<listed, held>>
    /\ UNCHANGED <<files, saving, saves, deaths>>

Forget(w) ==
    /\ claim' = [claim EXCEPT ![w] = None]
    /\ held' = [held EXCEPT ![w] = 0]

(* finish_claim: requeue_repro_queue_claim ...                             *)
Finish(w, outcome) ==
    /\ stage[w] = "replaying" /\ MayStart(w)
    /\ \/ /\ Owns(LoadedQueue, w, claim[w])
          /\ \E q \in Finished(LoadedQueue, claim[w], outcome) : Drafts(w, q, "idle")
          /\ Forget(w)
          /\ UNCHANGED listed
       \/ /\ ~Owns(LoadedQueue, w, claim[w])
          /\ Goto(w, "release")
          /\ UNCHANGED <<memory, claims>>
    /\ UNCHANGED <<files, saving, saves, deaths>>

ReleaseUnchecked(w) ==   \* mutant: nobody asks who owns the entry
    /\ stage[w] = "release" /\ MayStart(w)
    /\ \E q \in Freed(LoadedQueue, claim[w]) : Drafts(w, q, "idle")
    /\ Forget(w)
    /\ UNCHANGED <<files, listed, saving, saves, deaths>>

(* ... and, if it is refused, release_repro_queue_claim.                   *)
Release(w) ==
    /\ stage[w] = "release" /\ MayStart(w)
    /\ \/ /\ Owns(LoadedQueue, w, claim[w])
          /\ \E q \in Freed(LoadedQueue, claim[w]) : Drafts(w, q, "idle")
          /\ UNCHANGED listed
       \/ /\ ~Owns(LoadedQueue, w, claim[w])
          /\ Goto(w, "idle")
          /\ UNCHANGED memory
    /\ Forget(w)
    /\ UNCHANGED <<files, saving, saves, deaths>>

(* A process dies, and leaves the files as they are.                       *)
Die(p) ==
    /\ stage[p] # "idle"
    /\ Undisturbed => stage[p] \in Starts
    /\ deaths < MaxInterventions /\ deaths' = deaths + 1
    /\ Goto(p, "idle")
    /\ after' = [after EXCEPT ![p] = "idle"]
    /\ listed' = [listed EXCEPT ![p] = {}]
    /\ draft' = [draft EXCEPT ![p] = EmptyQueue]
    /\ \/ p = Manager /\ saving' = None /\ UNCHANGED claims
       \/ p \in Workers /\ Forget(p) /\ UNCHANGED saving
    /\ UNCHANGED <<files, saves>>

(* A worker replays from the moment its claim is decided upon.             *)
Activity(w) ==
    IF stage[w] \in {"replaying", "release"} \/ after[w] = "replaying" THEN "replaying"
    ELSE IF \/ stage[w] = "claim"
            \/ after[w] = "claim" /\ stage[w] \in {"queue", "queue open"}
         THEN "synced" ELSE "idle"

AgedQueue(q) ==
    [entries |-> [s \in DOMAIN q.entries |-> Aged(q.entries[s])], order |-> q.order]

Tick ==
    /\ \A w \in Workers : Activity(w) = "replaying" => held[w] < ReplayTime
    /\ held' = [w \in Workers |-> IF Activity(w) = "replaying" THEN held[w] + 1 ELSE held[w]]
    /\ queueFile' = IF queueFile.state = "whole"
                    THEN Whole(AgedQueue(queueFile.content)) ELSE queueFile
    /\ draft' = [p \in Procs |-> AgedQueue(draft[p])]
    /\ UNCHANGED <<metadata, catalogFile, stage, after, listed, saving, claim, saves, deaths>>

ManagerStep == WriteMetadata \/ UpdateCatalog
FileStep(p) ==
    OpenCatalog(p) \/ WriteCatalog(p) \/ Rebuild(p) \/ OpenQueue(p) \/ WriteQueue(p)
WorkerStep(w) ==
    Scan(w) \/ Claim(w) \/ (\E outcome \in WorkerOutcomes : Finish(w, outcome)) \/ Release(w)

Next ==
    \/ \E s \in Sigs : OpenMetadata(s)
    \/ ManagerStep
    \/ \E p \in Procs : FileStep(p) \/ Die(p)
    \/ \E w \in Workers : WorkerStep(w)
    \/ Tick

Spec == Init /\ [][Next]_vars

(* Workers are run again and again; the manager may stop at any point.     *)
FairSpec == Spec /\ \A w \in Workers : WF_vars(FileStep(w) \/ WorkerStep(w))

-----------------------------------------------------------------------------
(* The operations as ReproQueue has them: the queue is what is on disk,    *)
(* or what the one process in the middle of a write is going to write.     *)
Writing == {p \in Procs : stage[p] \in {"queue", "queue open"}}

AbstractQueue ==
    IF Writing = {} THEN LoadedQueue ELSE draft[CHOOSE p \in Writing : TRUE]

Atomic == INSTANCE ReproQueue WITH
    queue <- AbstractQueue,
    catalog <- DOMAIN AbstractQueue.entries,
    pc <- [w \in Workers |-> Activity(w)],
    overridden <- [w \in Workers |-> FALSE],
    interventions <- deaths

(* If operations on the queue do not overlap, and processes die between    *)
(* operations only, then the loads, writes and calls of the code add up to *)
(* the operations of ReproQueue, and whatever holds there holds here.      *)
OperationsAreAtomic == Atomic!Spec

(* A process honours the lease of another: as long as neither lease has    *)
(* run out, two workers do not replay the same artifact.                   *)
LeasesExclude ==
    \A v, w \in Workers :
        /\ Activity(v) = "replaying" /\ held[v] < LeaseTime
        /\ Activity(w) = "replaying" /\ held[w] < LeaseTime
        /\ claim[v] = claim[w]
        => v = w

(* No race and no death loses an artifact for good: as long as its         *)
(* metadata stays readable, it gets into a readable queue sooner or later, *)
(* because sync_artifact_catalog starts from the metadata and from nothing *)
(* else.                                                                   *)
SavedArtifactsAreQueued ==
    \A s \in Sigs : metadata[s] = "whole"
                       ~> s \in DOMAIN LoadedQueue.entries \/ metadata[s] # "whole"
=============================================================================
