----------------------------- MODULE Artifacts ------------------------------
(***************************************************************************)
(* The directory of a crash or timeout artifact: save_crash and            *)
(* save_timeout_with_log write its texts, its metadata and the program to  *)
(* be replayed one file after the other, copy the files of the first       *)
(* occurrence, and enter the artifact into the catalog, whose preferred_*  *)
(* paths are what a worker replays.  sync_artifact_catalog makes the       *)
(* catalog anew from what it finds on disk.                                *)
(*                                                                         *)
(* A write truncates the file and then fills it.  The process may be       *)
(* killed, or an error may end the save, at any step.  What happens when   *)
(* writes of the catalog and the queue overlap is left to ReproQueueFiles. *)
(***************************************************************************)
EXTENDS Integers, Sequences, FiniteSets, SequencesExt

CONSTANTS
    Absent,
    CrashArtifacts,   \* artifacts of type crash
    Timeouts,         \* artifacts of type timeout
    Detailed,         \* the artifacts whose shape and profile are given
    MaxSaves,         \* bound: saves of one artifact
    MaxStops          \* bound: saves that do not come to their end

Artifacts == CrashArtifacts \cup Timeouts

(* summary stands for the file description, or reason.                     *)
Names == {"log", "summary", "program", "shape", "profile", "repro"}

(* A file is of the save that wrote it; metadata.json and a catalog entry  *)
(* count occurrences, and the entry tells where to find which file.        *)
File == [save : Nat, whole : BOOLEAN]
Metadata == [whole : BOOLEAN, occurrences : Nat]
CatalogEntry ==
    [occurrences : Nat, preferred : UNION {[N -> {"first", "current"}] : N \in SUBSET Names}]
Save == [artifact : Artifacts, number : Nat, log : BOOLEAN, occurrences : Nat]

ArtifactsAssumption ==
    /\ CrashArtifacts \cap Timeouts = {} /\ Timeouts \subseteq Detailed /\ Detailed \subseteq Artifacts
    /\ MaxSaves \in Nat /\ MaxStops \in Nat
    /\ Absent \notin File \cup Metadata \cup CatalogEntry \cup Save

VARIABLES
    texts,     \* the files of each artifact: which save wrote them, and whether to the end
    first,     \* their first_* copies
    metadata,  \* metadata.json of each artifact
    catalog,   \* the entry of each artifact in artifacts.json and repro_queue.json
    save,      \* what the manager is saving, or Absent
    todo,      \* the steps left of it
    open,      \* the file it works on is truncated
    saves, stops,
    broken     \* history: a stop hit the metadata, or came between them and the entry
               \* of the first occurrence in the catalog

disk == <<texts, first, metadata, catalog>>
filingVars == <<disk, save, todo, open, saves, stops, broken>>

Version(n, whole) == [save |-> n, whole |-> whole]

-----------------------------------------------------------------------------
(* Catalog entries.                                                        *)

PreferredPath(a, name) == IF first[a][name] # Absent THEN "first" ELSE "current"

(* build_artifact_catalog_entry                                            *)
EntryOf(a, occurrences, names) ==
    [occurrences |-> occurrences, preferred |-> [name \in names |-> PreferredPath(a, name)]]

(* scan_artifact_catalog_entries                                           *)
FilesFound(a) == {"summary", "program"} \cup {name \in Names : texts[a][name] # Absent}

Synced(a) ==
    IF metadata[a] # Absent /\ metadata[a].whole
    THEN EntryOf(a, metadata[a].occurrences, FilesFound(a))
    ELSE Absent

-----------------------------------------------------------------------------
FilingInit ==
    /\ texts = [a \in Artifacts |-> [name \in Names |-> Absent]]
    /\ first = [a \in Artifacts |-> [name \in Names |-> Absent]]
    /\ metadata = [a \in Artifacts |-> Absent]
    /\ catalog = [a \in Artifacts |-> Absent]
    /\ save = Absent /\ todo = <<>> /\ open = FALSE
    /\ saves = [a \in Artifacts |-> 0] /\ stops = 0
    /\ broken = [a \in Artifacts |-> FALSE]

Do(op, names) == [i \in DOMAIN names |-> [op |-> op, name |-> names[i]]]

(* The names written, in the code's order.                                 *)
Details(a) == IF a \in Detailed THEN <<"shape", "profile">> ELSE <<>>
Written(a, log) ==
    IF a \in CrashArtifacts THEN <<"log", "summary", "program">> \o Details(a)
    ELSE <<"summary", "program">> \o Details(a) \o (IF log THEN <<"log">> ELSE <<>>)
Copied(a) ==
    IF a \in CrashArtifacts THEN <<"log", "summary", "program", "shape", "profile", "repro">>
    ELSE <<"summary", "program", "shape", "profile", "log", "repro">>

StepsMetadataFirst(a, log) ==   \* mutant: the metadata are written first
    <<[op |-> "metadata", name |-> "metadata"]>> \o Do("write", Written(a, log) \o <<"repro">>)
    \o Do("copy", Copied(a)) \o <<[op |-> "catalog", name |-> "catalog"]>>
Steps(a, log) ==
    Do("write", Written(a, log)) \o <<[op |-> "metadata", name |-> "metadata"]>>
    \o Do("write", <<"repro">>) \o Do("copy", Copied(a))
    \o <<[op |-> "catalog", name |-> "catalog"]>>

(* A crash or a timeout is seen, for the first time or again; a timeout    *)
(* comes with a log if there is anything to log.                           *)
Begin(a, log) ==
    /\ save = Absent /\ saves[a] < MaxSaves
    /\ a \in CrashArtifacts => log
    /\ saves' = [saves EXCEPT ![a] = @ + 1]
    /\ save' = [artifact |-> a, number |-> saves[a] + 1, log |-> log, occurrences |-> 0]
    /\ todo' = Steps(a, log)
    /\ UNCHANGED <<disk, open, stops, broken>>

Step(op) == save # Absent /\ todo # <<>> /\ todo[1].op = op
Advance == todo' = Tail(todo) /\ open' = FALSE

(* fs::write                                                               *)
Write ==
    /\ Step("write")
    /\ texts' = [texts EXCEPT ![save.artifact][todo[1].name] = Version(save.number, open)]
    /\ IF open THEN Advance ELSE open' = TRUE /\ UNCHANGED todo
    /\ UNCHANGED <<first, metadata, catalog, save, saves, stops, broken>>

(* update_artifact_metadata: what cannot be read starts over.              *)
Occurrences(a) ==
    (IF metadata[a] # Absent /\ metadata[a].whole THEN metadata[a].occurrences ELSE 0) + 1

WriteMetadata ==
    /\ Step("metadata")
    /\ LET a == save.artifact
           occurrences == IF open THEN save.occurrences ELSE Occurrences(a)
       IN  /\ save' = [save EXCEPT !.occurrences = occurrences]
           /\ metadata' = [metadata EXCEPT ![a] = [whole |-> open, occurrences |-> occurrences]]
    /\ IF open THEN Advance ELSE open' = TRUE /\ UNCHANGED todo
    /\ UNCHANGED <<texts, first, catalog, saves, stops, broken>>

(* snapshot_first_seen_files: only for the first occurrence, and what there *)
(* is.                                                                     *)
CopyDue == save.occurrences = 1 /\ texts[save.artifact][todo[1].name] # Absent

Copy ==
    /\ Step("copy") /\ CopyDue
    /\ LET a == save.artifact
           source == texts[a][todo[1].name]
       IN  first' = [first EXCEPT ![a][todo[1].name] = Version(source.save, open /\ source.whole)]
    /\ IF open THEN Advance ELSE open' = TRUE /\ UNCHANGED todo
    /\ UNCHANGED <<texts, metadata, catalog, save, saves, stops, broken>>

CopyNothing ==
    /\ Step("copy") /\ ~CopyDue
    /\ Advance
    /\ UNCHANGED <<disk, save, saves, stops, broken>>

(* update_artifact_catalog, which ends the save.  All callers give what a  *)
(* replay needs (repro).                                                   *)
NamesSaved == {"repro"} \cup ToSet(Written(save.artifact, save.log))

Catalogue ==
    /\ Step("catalog")
    /\ catalog' = [catalog EXCEPT ![save.artifact] =
                      EntryOf(save.artifact, save.occurrences, NamesSaved)]
    /\ save' = Absent /\ Advance
    /\ UNCHANGED <<texts, first, metadata, saves, stops, broken>>

(* The manager starts, or a worker begins a round.                         *)
Sync ==
    /\ catalog' = [a \in Artifacts |-> Synced(a)]
    /\ UNCHANGED <<texts, first, metadata, save, todo, open, saves, stops, broken>>

(* The process is killed, or a step fails and the save is given up.        *)

Stop ==
    /\ save # Absent /\ stops < MaxStops
    /\ stops' = stops + 1
    /\ broken' = [broken EXCEPT ![save.artifact] =
          @ \/ (Step("metadata") /\ open) \/ save.occurrences = 1]
    /\ save' = Absent /\ todo' = <<>> /\ open' = FALSE
    /\ UNCHANGED <<disk, saves>>

FilingNext ==
    \/ \E a \in Artifacts, log \in BOOLEAN : Begin(a, log)
    \/ Write \/ WriteMetadata \/ Copy \/ CopyNothing \/ Catalogue
    \/ Sync \/ Stop

FilingSpec == FilingInit /\ [][FilingNext]_filingVars

-----------------------------------------------------------------------------
(* What the preferred path of a name leads to.                             *)
LedTo(a, name) ==
    IF catalog[a].preferred[name] = "first" THEN first[a][name] ELSE texts[a][name]

(* While the first occurrence is saved, a worker's sync lists what there is.*)
FirstUnderway(a) ==
    save # Absent /\ save.artifact = a /\ (saves[a] = 1 \/ save.occurrences = 1)

Settled(a) == catalog[a] # Absent /\ ~broken[a] /\ ~FirstUnderway(a)

Stable(a) == DOMAIN catalog[a].preferred \ {"log"}

(* Every path in the catalog leads to a file, wherever saves were cut      *)
(* short.                                                                  *)
PathsLeadToFiles ==
    \A a \in Artifacts : catalog[a] # Absent =>
        \A name \in DOMAIN catalog[a].preferred : LedTo(a, name) # Absent

(* Summary, program, shape, profile and what is replayed, as the catalog   *)
(* prefers them, are whole and of one occurrence, even while another one   *)
(* is being saved; so they are after stops that spared metadata and        *)
(* copies.  (The log of a timeout is not always there the first time.)     *)
PreferredAgree ==
    \A a \in Artifacts : Settled(a) =>
        \A m, n \in Stable(a) :
            LedTo(a, m).whole /\ LedTo(a, m).save = LedTo(a, n).save

(* What the catalog prefers never changes under a reader: later            *)
(* occurrences and syncs leave the contents of preferred paths alone.      *)
PreferredStays ==
    \A a \in Artifacts : Settled(a) /\ catalog'[a] # Absent =>
        \A name \in Stable(a) \cap Stable(a)' : LedTo(a, name)' = LedTo(a, name)

(* Occurrences are counted: once saves have come to their end, metadata    *)
(* and catalog agree on how often the artifact was saved.                  *)
OccurrencesAreCounted ==
    save = Absent /\ stops = 0 =>
        \A a \in Artifacts : saves[a] > 0 =>
            metadata[a].occurrences = saves[a] /\ catalog[a].occurrences = saves[a]

(* Wherever saves were cut short, the paths of the catalog lead to files,  *)
(* and what it prefers is whole and of one occurrence, while others are    *)
(* saved; and occurrences are counted.                                     *)
CatalogLeadsToFiles == PathsLeadToFiles /\ PreferredAgree /\ OccurrencesAreCounted
=============================================================================
