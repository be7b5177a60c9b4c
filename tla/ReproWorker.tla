---------------------------- MODULE ReproWorker -----------------------------
(***************************************************************************)
(* The rounds of repro-worker processes: claim an artifact, load what is   *)
(* to be replayed, replay it until it reproduces or the attempts planned   *)
(* are used up, finish the claim with the best outcome, and file what was  *)
(* seen: a line of repro_history.jsonl and a replay-K.json for each        *)
(* attempt, result.json, and next to the artifact latest_repro_result.json *)
(* and latest_minimize_seed.json.                                          *)
(*                                                                         *)
(* The directory of a round is named by the number of the attempt, which   *)
(* is read with the claim.  The queue is that of ReproQueue; all artifacts *)
(* are in the catalog.                                                     *)
(***************************************************************************)
EXTENDS QueueEntries

CONSTANTS
    Planned,    \* replay_attempts_planned
    MaxRounds,  \* bound: claims granted
    MaxFaults   \* bound: writes that fail and workers that die

Observed == {"reproduced", "timed_out", "failed"}
Attempt == [outcome : Observed, archive : BOOLEAN]

(* What a worker has in hand: the round, the number of its attempt, and    *)
(* what comes next.                                                        *)
Unconcluded == {"load", "replay", "finish"}
Concluded == {"result", "latest", "seed"}
Round == [id : Nat, sig : Sigs, number : Nat, step : Unconcluded \cup Concluded,
          attempts : Seq(Attempt), outcome : Observed \cup {"none"}, result : BOOLEAN]

ASSUME WorkerAssumption ==
    /\ Planned \in Nat \ {0} /\ MaxRounds \in Nat /\ MaxFaults \in Nat
    /\ AttemptsCap >= MaxRounds /\ Operators = {} /\ None \notin Round

VARIABLES
    queue,
    rounds,      \* claims granted so far
    round,       \* what each worker is doing, or None
    history,     \* the lines of repro_history.jsonl
    replays,     \* replay-K.json, by artifact, attempt number and K
    results,     \* result.json, by artifact and attempt number
    latest,      \* latest_repro_result.json of each artifact
    seed,        \* latest_minimize_seed.json of each artifact
    faults,      \* writes that failed and workers that died
    disturbed    \* history: rounds on the artifact overlapped, or one was cut
                 \* short or outlived its claim

filed == <<history, replays, results, latest, seed>>
vars == <<queue, rounds, round, filed, faults, disturbed>>

-----------------------------------------------------------------------------
(* canonicalize_repro_queue_outcome                                        *)
Canonical(outcome) == IF outcome = "reproduced" THEN "succeeded" ELSE outcome

(* replay_attempt_rank                                                     *)
Rank(outcome) ==
    CASE outcome = "reproduced" -> 3 [] outcome = "timed_out" -> 2 [] OTHER -> 1

(* select_preferred_replay_attempt: of the best attempts the last one.     *)
PreferredLast(attempts) == Len(attempts)   \* mutant: the last attempt
Preferred(attempts) ==
    CHOOSE i \in DOMAIN attempts : \A j \in DOMAIN attempts :
        \/ Rank(attempts[j].outcome) < Rank(attempts[i].outcome)
        \/ Rank(attempts[j].outcome) = Rank(attempts[i].outcome) /\ j <= i

With(f, key, value) == [k \in DOMAIN f \cup {key} |-> IF k = key THEN value ELSE f[k]]

Init ==
    /\ queue \in Rebuilt(EmptyQueue, Sigs)
    /\ rounds = 0
    /\ round = [w \in Workers |-> None]
    /\ history = <<>> /\ replays = <<>> /\ results = <<>>
    /\ latest = [s \in Sigs |-> None] /\ seed = [s \in Sigs |-> None]
    /\ faults = 0
    /\ disturbed = [s \in Sigs |-> FALSE]

Busy(w) == round[w] # None
At(w, step) == Busy(w) /\ round[w].step = step
OnArtifact(s) == {w \in Workers : Busy(w) /\ round[w].sig = s}

(* sync_artifact_catalog and claim_repro_queue_entry.                      *)
Number(q, s) == q.entries[s].attempts + 1

Claim(w) ==
    /\ ~Busy(w) /\ rounds < MaxRounds
    /\ \E q \in Rebuilt(queue, Sigs) : \E s \in Offered(q, w) :
          /\ queue' \in Claimed(q, w, s)
          /\ round' = [round EXCEPT ![w] =
                [id |-> rounds + 1, sig |-> s, number |-> Number(q, s), step |-> "load",
                 attempts |-> <<>>, outcome |-> "none", result |-> FALSE]]
          /\ disturbed' = [disturbed EXCEPT ![s] = @ \/ OnArtifact(s) # {}]
    /\ rounds' = rounds + 1
    /\ UNCHANGED <<filed, faults>>

FinishedFreed(w, outcome) ==   \* mutant: the claim is only released
    LET s == round[w].sig
    IN  IF Owns(queue, w, s) THEN queue' \in Freed(queue, s) ELSE UNCHANGED queue
(* finish_claim: refused if the claim is another's by now.                 *)
FinishedWith(w, outcome) ==
    LET s == round[w].sig
    IN  IF Owns(queue, w, s) THEN queue' \in Finished(queue, s, Canonical(outcome))
        ELSE UNCHANGED queue

(* load_replay_artifact, load_target, restore_program, serialize_program.  *)
Load(w) ==
    /\ At(w, "load")
    /\ round' = [round EXCEPT ![w].step = "replay"]
    /\ UNCHANGED <<queue, rounds, filed, faults, disturbed>>

(* One of them fails: the attempt counts as failed, and nothing is filed.  *)
LoadFails(w) ==
    /\ At(w, "load")
    /\ FinishedWith(w, "failed")
    /\ round' = [round EXCEPT ![w] = None]
    /\ UNCHANGED <<rounds, filed, faults, disturbed>>

(* replay_once, append_repro_history, archive_repro_attempt: neither a     *)
(* failed write nor a failed session ends the round.                       *)
Enough(attempts) ==
    Len(attempts) = Planned \/ attempts[Len(attempts)].outcome = "reproduced"

ArchivePathAlways(archived) == TRUE   \* mutant: a failed write is not noticed
ArchivePath(archived) == archived

Failing(n) == faults + n <= MaxFaults /\ faults' = faults + n
Missed(ok) == IF ok THEN 0 ELSE 1

Replay(w, outcome, recorded, archived) ==
    LET r == round[w]
        attempts == Append(r.attempts, [outcome |-> outcome, archive |-> ArchivePath(archived)])
        seen == [round |-> r.id, outcome |-> outcome]
    IN  /\ At(w, "replay") /\ Failing(Missed(recorded) + Missed(archived))
        /\ history' = IF recorded THEN Append(history, seen) ELSE history
        /\ replays' = IF archived THEN With(replays, <<r.sig, r.number, Len(attempts)>>, seen)
                      ELSE replays
        /\ round' = [round EXCEPT ![w].attempts = attempts,
                                  ![w].step = IF Enough(attempts) THEN "finish" ELSE "replay"]
        /\ UNCHANGED <<queue, rounds, results, latest, seed, disturbed>>

Finish(w) ==
    LET outcome == round[w].attempts[Preferred(round[w].attempts)].outcome
    IN  /\ At(w, "finish")
        /\ FinishedWith(w, outcome)
        /\ round' = [round EXCEPT ![w].outcome = outcome, ![w].step = "result"]
        /\ disturbed' = [disturbed EXCEPT ![round[w].sig] = @ \/ ~Owns(queue, w, round[w].sig)]
        /\ UNCHANGED <<rounds, filed, faults>>

(* The files of the round; one that cannot be written is skipped.          *)
Result(w, ok) ==
    LET r == round[w]
    IN  /\ At(w, "result") /\ Failing(Missed(ok))
        /\ results' = IF ok THEN With(results, <<r.sig, r.number>>,
                                      [round |-> r.id, outcome |-> r.outcome, attempts |-> r.attempts])
                      ELSE results
        /\ round' = [round EXCEPT ![w].result = ok, ![w].step = "latest"]
        /\ UNCHANGED <<queue, rounds, history, replays, latest, seed, disturbed>>

BestArchive(r) ==
    LET best == Preferred(r.attempts)
    IN  IF r.attempts[best].archive THEN best ELSE 0

Latest(w, ok) ==
    LET r == round[w]
    IN  /\ At(w, "latest") /\ Failing(Missed(ok))
        /\ latest' = IF ok THEN [latest EXCEPT ![r.sig] =
                           [number |-> r.number, outcome |-> r.outcome,
                            result |-> r.result, best |-> BestArchive(r)]]
                     ELSE latest
        /\ round' = [round EXCEPT ![w].step = "seed"]
        /\ UNCHANGED <<queue, rounds, history, replays, results, seed, disturbed>>

Eligible(r) == r.outcome \in {"reproduced", "timed_out"}

Seed(w, ok) ==
    LET r == round[w]
    IN  /\ At(w, "seed") /\ Failing(Missed(ok))
        /\ seed' = IF ok THEN [seed EXCEPT ![r.sig] =
                         [number |-> r.number, eligible |-> Eligible(r),
                          result |-> r.result, best |-> BestArchive(r)]]
                   ELSE seed
        /\ round' = [round EXCEPT ![w] = None]
        /\ UNCHANGED <<queue, rounds, history, replays, results, latest, disturbed>>

(* The worker dies, or the queue cannot be written when the claim is       *)
(* finished: its lease stays, and so does the number of the attempt.       *)
Unfinished(w) == round[w].step \in {"replay", "finish"}

Die(w) ==
    /\ Busy(w) /\ Failing(1)
    /\ disturbed' = [disturbed EXCEPT ![round[w].sig] = @ \/ Unfinished(w)]
    /\ round' = [round EXCEPT ![w] = None]
    /\ UNCHANGED <<queue, rounds, filed>>

Tick ==
    /\ \E s \in Sigs : Leased(queue.entries[s]) \/ Resting(queue.entries[s])
    /\ queue' = [queue EXCEPT !.entries = [s \in Sigs |-> Aged(@[s])]]
    /\ UNCHANGED <<rounds, round, filed, faults, disturbed>>

Next ==
    \/ \E w \in Workers :
          \/ Claim(w) \/ Load(w) \/ LoadFails(w) \/ Finish(w) \/ Die(w)
          \/ \E outcome \in Observed, recorded, archived \in BOOLEAN : Replay(w, outcome, recorded, archived)
          \/ \E ok \in BOOLEAN : Result(w, ok) \/ Latest(w, ok) \/ Seed(w, ok)
    \/ Tick

Spec == Init /\ [][Next]_vars

-----------------------------------------------------------------------------
(* What is filed under one attempt of an artifact is of one round: its     *)
(* replays and its result do not mix with those of another worker.  (Not   *)
(* so for an artifact on which rounds overlapped, or one was cut short, or *)
(* was refused its outcome because its lease had expired and another       *)
(* claim, of whatever artifact, had made the queue forget it.)             *)
DirectoriesAreOfOneRound ==
    \A k \in DOMAIN replays : ~disturbed[k[1]] =>
        /\ \A j \in DOMAIN replays :
              j[1] = k[1] /\ j[2] = k[2] => replays[j].round = replays[k].round
        /\ <<k[1], k[2]>> \in DOMAIN results => results[<<k[1], k[2]>>].round = replays[k].round

(* Every path that is written down leads to a file, and as long as rounds  *)
(* are undisturbed the file tells of the outcome the claim was finished    *)
(* with, whatever could not be written.                                    *)
PathsLeadToTheBest ==
    \A s \in Sigs : latest[s] # None =>
        LET l == latest[s]
        IN  /\ l.result => <<s, l.number>> \in DOMAIN results
            /\ l.best # 0 => <<s, l.number, l.best>> \in DOMAIN replays
            /\ ~disturbed[s] =>
                  /\ l.result => results[<<s, l.number>>].outcome = l.outcome
                  /\ l.best # 0 => replays[<<s, l.number, l.best>>].outcome = l.outcome

(* The outcome of a round is that of its best attempt: it is reproduced if *)
(* and only if some attempt did, and then that was the last one.           *)
ResultsTellTheBest ==
    \A k \in DOMAIN results :
        LET attempts == results[k].attempts
            Some(outcome) == \E i \in DOMAIN attempts : attempts[i].outcome = outcome
        IN  /\ results[k].outcome =
                  IF Some("reproduced") THEN "reproduced"
                  ELSE IF Some("timed_out") THEN "timed_out" ELSE "failed"
            /\ \A i \in DOMAIN attempts : attempts[i].outcome = "reproduced" => i = Len(attempts)

(* The result filed under the number of the last attempt on record says    *)
(* what the queue says.                                                    *)
ResultsAreOnRecord ==
    \A s \in Sigs :
        LET k == <<s, queue.entries[s].attempts>>
        IN  ~disturbed[s] /\ k \in DOMAIN results =>
                Canonical(results[k].outcome) = queue.entries[s].outcome

(* No attempt is filed under a number the queue has not reached yet, or    *)
(* that is not being worked on.                                            *)
NumbersAreCounted ==
    \A k \in DOMAIN results : ~disturbed[k[1]] => k[2] <= queue.entries[k[1]].attempts

(* A seed is eligible for minimization if and only if the result of the    *)
(* round it came from was no failure.                                      *)
SeedsAreWorthIt ==
    \A s \in Sigs : ~disturbed[s] /\ seed[s] # None /\ seed[s].result =>
        (seed[s].eligible <=> results[<<s, seed[s].number>>].outcome # "failed")

(* What is on file of the rounds of an artifact fits together: directories *)
(* are of one round, paths lead to what they were written for, results say *)
(* what the queue says, under numbers it has reached, and seeds what       *)
(* results say.                                                            *)
RoundsAreOnRecord ==
    /\ DirectoriesAreOfOneRound /\ PathsLeadToTheBest
    /\ ResultsAreOnRecord /\ NumbersAreCounted /\ SeedsAreWorthIt

(* What is called the latest result never goes back to an earlier attempt. *)
LatestGoesForward ==
    \A s \in Sigs : ~disturbed[s] /\ latest[s] # None /\ latest'[s] # latest[s] =>
        latest'[s].number > latest[s].number
=============================================================================
