------------------------- MODULE ReproWorkerProofs --------------------------
(***************************************************************************)
(* What MCArtifacts checks of rounds of replays on an instance, proved for *)
(* any number of workers, artifacts, planned attempts and faults.          *)
(*                                                                         *)
(* The invariant IInv has four parts: RoundsInv of the rounds themselves,  *)
(* QueueInv of the queue, PathsInv of the files that rounds point to, and  *)
(* TidyInv of what is filed of an artifact whose rounds are undisturbed.   *)
(* The number of a round is the next one until its claim is finished, and  *)
(* then the one on record; nothing else may be filed under it meanwhile.   *)
(***************************************************************************)
EXTENDS ReproWorker, TLAPS, SequenceTheorems, WellFoundedInduction

(* A nonempty set of numbers with a bound has a greatest one.              *)
LEMMA Last ==
    ASSUME NEW n \in Nat, NEW S \in SUBSET (1 .. n), S # {}
    PROVE  \E m \in S : \A i \in S : i <= m
<1> DEFINE R == {ss \in Nat \X Nat : ss[1] < ss[2]}
           T == {n - i : i \in S}
<1>1. IsWellFoundedOn(R, Nat)
  <2>1. OpToRel(<, Nat) = R
    BY DEF OpToRel
  <2> QED
    BY <2>1, NatLessThanWellFounded
<1>2. T \subseteq Nat
  OBVIOUS
<1>3. T # {}
  OBVIOUS
<1>4. PICK x \in T : \A y \in T : ~ (<<y, x>> \in R)
  <2> HIDE DEF T, R
  <2> QED
    BY <1>1, <1>2, <1>3, WFMin
<1>5. PICK m \in S : x = n - m
  OBVIOUS
<1>6. ASSUME NEW i \in S PROVE i <= m
  <2>1. n - i \in T
    OBVIOUS
  <2>2. ~ (n - i < x)
    BY <2>1, <1>4, <1>2 DEF R
  <2> QED
    BY <2>2, <1>5
<1> QED
  BY <1>6

-----------------------------------------------------------------------------
(* The attempts of a round: a reproduction ends them.                      *)
AttemptsOK(attempts) ==
    /\ attempts \in Seq(Attempt)
    /\ \A i \in DOMAIN attempts : attempts[i].outcome = "reproduced" => i = Len(attempts)

(* There is a best attempt, and Preferred is it.                           *)
LEMMA PreferredIsBest ==
    ASSUME NEW a, AttemptsOK(a), a # <<>>
    PROVE  /\ Preferred(a) \in DOMAIN a
           /\ \A j \in DOMAIN a : Rank(a[j].outcome) <= Rank(a[Preferred(a)].outcome)
<1> DEFINE OfRank(r) == {i \in DOMAIN a : Rank(a[i].outcome) = r}
           Best(i) == \A j \in DOMAIN a :
                        \/ Rank(a[j].outcome) < Rank(a[i].outcome)
                        \/ Rank(a[j].outcome) = Rank(a[i].outcome) /\ j <= i
<1>1. DOMAIN a = 1 .. Len(a) /\ Len(a) \in Nat /\ DOMAIN a # {}
  BY DEF AttemptsOK
<1>2. \A i \in DOMAIN a : Rank(a[i].outcome) \in 1 .. 3
  BY DEF AttemptsOK, Attempt, Observed, Rank
<1>3. ASSUME NEW r \in 1 .. 3, OfRank(r) # {}, \A i \in DOMAIN a : Rank(a[i].outcome) <= r
      PROVE  \E i \in DOMAIN a : Best(i)
  <2>1. OfRank(r) \in SUBSET (1 .. Len(a))
    BY <1>1
  <2>2. PICK m \in OfRank(r) : \A i \in OfRank(r) : i <= m
    <3> HIDE DEF OfRank
    <3> QED
      BY <2>1, <1>1, <1>3, Last
  <2>3. m \in DOMAIN a /\ Rank(a[m].outcome) = r
    BY <2>2
  <2>4. ASSUME NEW j \in DOMAIN a
        PROVE  Rank(a[j].outcome) < r \/ (Rank(a[j].outcome) = r /\ j <= m)
    BY <1>2, <1>3, <2>2
  <2> QED
    BY <2>3, <2>4
<1>4. \E i \in DOMAIN a : Best(i)
  <2>1. CASE OfRank(3) # {}
    BY <2>1, <1>2, <1>3
  <2>2. CASE OfRank(3) = {} /\ OfRank(2) # {}
    <3>1. \A i \in DOMAIN a : Rank(a[i].outcome) <= 2
      BY <2>2, <1>2
    <3> QED
      BY <3>1, <2>2, <1>3
  <2>3. CASE OfRank(3) = {} /\ OfRank(2) = {}
    <3>1. \A i \in DOMAIN a : Rank(a[i].outcome) = 1
      BY <2>3, <1>2
    <3> QED
      BY <3>1, <1>1, <1>3
  <2> QED
    BY <2>1, <2>2, <2>3
<1>5. Preferred(a) \in DOMAIN a /\ Best(Preferred(a))
  BY <1>4 DEF Preferred
<1> QED
  BY <1>5, <1>2

-----------------------------------------------------------------------------
RoundOK(r) ==
    /\ r \in Round
    /\ AttemptsOK(r.attempts)
    /\ r.step \in {"load", "replay"} =>
          \A i \in DOMAIN r.attempts : r.attempts[i].outcome # "reproduced"
    /\ r.step \notin {"load", "replay"} => r.attempts # <<>>
    /\ r.step \in Concluded => r.outcome = r.attempts[Preferred(r.attempts)].outcome

ResultOK(x) ==
    /\ AttemptsOK(x.attempts) /\ x.attempts # <<>>
    /\ x.outcome = x.attempts[Preferred(x.attempts)].outcome

RoundsInv ==
    /\ round = [w \in Workers |-> round[w]]
    /\ \A w \in Workers : Busy(w) => RoundOK(round[w])
    /\ \A k \in DOMAIN results : ResultOK(results[k])

(* The outcome of a round is one of its attempts'.                         *)
LEMMA BestIsObserved ==
    ASSUME NEW a, AttemptsOK(a), a # <<>>
    PROVE  a[Preferred(a)] \in Attempt /\ a[Preferred(a)].outcome \in Observed
<1>1. Preferred(a) \in DOMAIN a
  BY PreferredIsBest
<1>2. a \in Seq(Attempt)
  BY DEF AttemptsOK
<1>3. a[Preferred(a)] \in Attempt
  BY <1>1, <1>2
<1> QED
  BY <1>3 DEF Attempt

(* What a step does to one worker's round leaves the others alone.         *)
LEMMA OneRound ==
    ASSUME RoundsInv, NEW w \in Workers, NEW r,
           round' = [round EXCEPT ![w] = r],
           r = None \/ RoundOK(r),
           \A k \in DOMAIN results' : ResultOK(results'[k])
    PROVE  RoundsInv'
<1>1. round' = [v \in Workers |-> round'[v]]
  BY DEF RoundsInv
<1>2. ASSUME NEW v \in Workers, round'[v] # None PROVE RoundOK(round'[v])
  BY <1>2 DEF RoundsInv, Busy
<1> QED
  BY <1>1, <1>2 DEF RoundsInv, Busy

-----------------------------------------------------------------------------
(* The round a step leaves its worker with.                                *)
AsRound(r, step, attempts, outcome, result) ==
    [id |-> r.id, sig |-> r.sig, number |-> r.number, step |-> step,
     attempts |-> attempts, outcome |-> outcome, result |-> result]

(* A round is the record of its fields, and stays one whichever field      *)
(* changes.                                                                *)
LEMMA AsItIs ==
    ASSUME NEW r \in Round
    PROVE  r = AsRound(r, r.step, r.attempts, r.outcome, r.result)
BY DEF Round, AsRound

LEMMA AfterStep ==
    ASSUME NEW r \in Round, NEW step \in Unconcluded \cup Concluded
    PROVE  [r EXCEPT !.step = step] = AsRound(r, step, r.attempts, r.outcome, r.result)
<1>1. r = AsRound(r, r.step, r.attempts, r.outcome, r.result)
  BY AsItIs
<1> QED
  BY <1>1 DEF AsRound

LEMMA AfterField ==
    ASSUME NEW r \in Round, NEW x
    PROVE  /\ [r EXCEPT !.attempts = x] = AsRound(r, r.step, x, r.outcome, r.result)
           /\ [r EXCEPT !.outcome = x] = AsRound(r, r.step, r.attempts, x, r.result)
           /\ [r EXCEPT !.result = x] = AsRound(r, r.step, r.attempts, r.outcome, x)
<1>1. r = AsRound(r, r.step, r.attempts, r.outcome, r.result)
  BY AsItIs
<1> QED
  BY <1>1 DEF AsRound

LEMMA AfterSecond ==
    ASSUME NEW r, NEW step, NEW a, NEW o, NEW b
    PROVE  [AsRound(r, r.step, a, o, b) EXCEPT !.step = step] = AsRound(r, step, a, o, b)
BY DEF AsRound

LEMMA AfterAttempts ==
    ASSUME NEW w \in Workers, round = [v \in Workers |-> round[v]], round[w] \in Round,
           NEW x, NEW step, round' = [round EXCEPT ![w].attempts = x, ![w].step = step]
    PROVE  round' = [round EXCEPT ![w] = AsRound(round[w], step, x, round[w].outcome, round[w].result)]
<1> DEFINE r == round[w]
           first == [r EXCEPT !.attempts = x]
<1>1. round' = [round EXCEPT ![w] = [first EXCEPT !.step = step]]
  BY Zenon
<1>2. first = AsRound(r, r.step, x, r.outcome, r.result)
  BY AfterField
<1>3. [first EXCEPT !.step = step] = AsRound(r, step, x, r.outcome, r.result)
  <2> HIDE DEF first, r
  <2> QED
    BY <1>2, AfterSecond
<1> HIDE DEF first
<1> QED
  BY <1>1, <1>3

LEMMA AfterOutcome ==
    ASSUME NEW w \in Workers, round = [v \in Workers |-> round[v]], round[w] \in Round,
           NEW x, NEW step, round' = [round EXCEPT ![w].outcome = x, ![w].step = step]
    PROVE  round' = [round EXCEPT ![w] = AsRound(round[w], step, round[w].attempts, x, round[w].result)]
<1> DEFINE r == round[w]
           first == [r EXCEPT !.outcome = x]
<1>1. round' = [round EXCEPT ![w] = [first EXCEPT !.step = step]]
  BY Zenon
<1>2. first = AsRound(r, r.step, r.attempts, x, r.result)
  BY AfterField
<1>3. [first EXCEPT !.step = step] = AsRound(r, step, r.attempts, x, r.result)
  <2> HIDE DEF first, r
  <2> QED
    BY <1>2, AfterSecond
<1> HIDE DEF first
<1> QED
  BY <1>1, <1>3

LEMMA AfterResult ==
    ASSUME NEW w \in Workers, round = [v \in Workers |-> round[v]], round[w] \in Round,
           NEW x, NEW step, round' = [round EXCEPT ![w].result = x, ![w].step = step]
    PROVE  round' = [round EXCEPT ![w] = AsRound(round[w], step, round[w].attempts, round[w].outcome, x)]
<1> DEFINE r == round[w]
           first == [r EXCEPT !.result = x]
<1>1. round' = [round EXCEPT ![w] = [first EXCEPT !.step = step]]
  BY Zenon
<1>2. first = AsRound(r, r.step, r.attempts, r.outcome, x)
  BY AfterField
<1>3. [first EXCEPT !.step = step] = AsRound(r, step, r.attempts, r.outcome, x)
  <2> HIDE DEF first, r
  <2> QED
    BY <1>2, AfterSecond
<1> HIDE DEF first
<1> QED
  BY <1>1, <1>3

(* Appending an element to a sequence keeps the ones it has.               *)
LEMMA OneMore ==
    ASSUME NEW T, NEW old \in Seq(T), NEW x, NEW a, a = Append(old, x)
    PROVE  /\ DOMAIN a = 1 .. Len(a) /\ Len(a) = Len(old) + 1 /\ Len(old) \in Nat
           /\ DOMAIN old = 1 .. Len(old) /\ a[Len(a)] = x
           /\ \A i \in 1 .. Len(old) : a[i] = old[i]
OBVIOUS

(* Appending an attempt to a round that has not reproduced yet.            *)
LEMMA Appended ==
    ASSUME NEW a, AttemptsOK(a), NEW x \in Attempt,
           \A i \in DOMAIN a : a[i].outcome # "reproduced"
    PROVE  /\ AttemptsOK(Append(a, x)) /\ Append(a, x) # <<>>
           /\ ~Enough(Append(a, x)) =>
                 \A i \in DOMAIN Append(a, x) : Append(a, x)[i].outcome # "reproduced"
<1> DEFINE b == Append(a, x)
<1>1. a \in Seq(Attempt) /\ Len(a) \in Nat /\ DOMAIN a = 1 .. Len(a)
  BY DEF AttemptsOK
<1>2. /\ b \in Seq(Attempt) /\ Len(b) = Len(a) + 1 /\ DOMAIN b = 1 .. Len(b)
      /\ b[Len(b)] = x /\ \A i \in 1 .. Len(a) : b[i] = a[i]
  BY <1>1
<1> HIDE DEF b
<1>3. ASSUME NEW i \in DOMAIN b, i # Len(b) PROVE b[i].outcome # "reproduced"
  BY <1>1, <1>2, <1>3
<1>4. AttemptsOK(b)
  BY <1>2, <1>3 DEF AttemptsOK
<1>5. b # <<>>
  BY <1>1, <1>2
<1>6. ~Enough(b) => \A i \in DOMAIN b : b[i].outcome # "reproduced"
  BY <1>3 DEF Enough
<1> QED
  BY <1>4, <1>5, <1>6 DEF b


(* What is new of a round after a step, for each of them.                  *)
New(w, step) ==
    AsRound(round[w], step, round[w].attempts, round[w].outcome, round[w].result)

(* What Load makes of the round in hand.                                   *)
LEMMA Loading ==
    ASSUME RoundsInv, NEW w \in Workers, Load(w)
    PROVE  /\ RoundOK(round[w]) /\ round' = [round EXCEPT ![w] = New(w, "replay")]
           /\ RoundOK(New(w, "replay"))
<1>1. RoundOK(round[w]) /\ round[w].step = "load" /\ round[w] \in Round
  BY DEF Load, At, RoundsInv, RoundOK
<1>2. round' = [round EXCEPT ![w] = New(w, "replay")]
  BY <1>1, AfterStep DEF Load, RoundsInv, New, Unconcluded
<1>3. RoundOK(New(w, "replay"))
  BY <1>1 DEF RoundOK, New, AsRound, Round, Unconcluded, Concluded
<1> QED
  BY <1>1, <1>2, <1>3

Tried(w, outcome, archived) ==
    Append(round[w].attempts, [outcome |-> outcome, archive |-> ArchivePath(archived)])

NewReplay(w, outcome, archived) ==
    AsRound(round[w], IF Enough(Tried(w, outcome, archived)) THEN "finish" ELSE "replay",
            Tried(w, outcome, archived), round[w].outcome, round[w].result)

(* What Replay makes of it: the round may not go on after a reproduction.  *)
LEMMA Replaying ==
    ASSUME RoundsInv, NEW w \in Workers, NEW outcome \in Observed, NEW recorded \in BOOLEAN,
           NEW archived \in BOOLEAN, Replay(w, outcome, recorded, archived)
    PROVE  /\ RoundOK(round[w]) /\ RoundOK(NewReplay(w, outcome, archived))
           /\ round' = [round EXCEPT ![w] = NewReplay(w, outcome, archived)]
<1> DEFINE x == [outcome |-> outcome, archive |-> ArchivePath(archived)]
           a == Tried(w, outcome, archived)
           step == IF Enough(a) THEN "finish" ELSE "replay"
<1>1. RoundOK(round[w]) /\ round[w].step = "replay" /\ round[w] \in Round
  BY DEF Replay, At, RoundsInv, RoundOK
<1>2. round' = [round EXCEPT ![w].attempts = a, ![w].step = step]
  BY DEF Replay, Tried
<1>3. x \in Attempt
  BY DEF Attempt, ArchivePath
<1>4. AttemptsOK(a) /\ a # <<>> /\ (~Enough(a) => \A i \in DOMAIN a : a[i].outcome # "reproduced")
  <2>1. a = Append(round[w].attempts, x)
    BY DEF Tried
  <2> HIDE DEF x, a
  <2> QED
    BY <1>1, <1>3, <2>1, Appended DEF RoundOK
<1>5. step \in {"finish", "replay"} /\ (step = "replay" <=> ~Enough(a))
  OBVIOUS
<1>6. NewReplay(w, outcome, archived) = AsRound(round[w], step, a, round[w].outcome, round[w].result)
  BY DEF NewReplay
<1> HIDE DEF a, step
<1>7. round' = [round EXCEPT ![w] = NewReplay(w, outcome, archived)]
  <2>1. round = [v \in Workers |-> round[v]]
    BY DEF RoundsInv
  <2>2. round' = [round EXCEPT ![w] = AsRound(round[w], step, a, round[w].outcome, round[w].result)]
    BY <1>1, <1>2, <2>1, AfterAttempts
  <2> QED
    BY <2>2, <1>6
<1>8. RoundOK(NewReplay(w, outcome, archived))
  BY <1>1, <1>4, <1>5, <1>6 DEF RoundOK, AsRound, Round, AttemptsOK, Unconcluded, Concluded
<1> QED
  BY <1>1, <1>7, <1>8

Verdict(w) == round[w].attempts[Preferred(round[w].attempts)].outcome
NewFinish(w) == AsRound(round[w], "result", round[w].attempts, Verdict(w), round[w].result)

(* What Finish makes of it: the outcome is that of the best attempt.       *)
LEMMA Finishing ==
    ASSUME RoundsInv, NEW w \in Workers, Finish(w)
    PROVE  /\ RoundOK(round[w]) /\ RoundOK(NewFinish(w))
           /\ round' = [round EXCEPT ![w] = NewFinish(w)]
<1>1. RoundOK(round[w]) /\ round[w].step = "finish" /\ round[w] \in Round
  BY DEF Finish, At, RoundsInv, RoundOK
<1>2. round' = [round EXCEPT ![w] = NewFinish(w)]
  <2>1. round' = [round EXCEPT ![w].outcome = Verdict(w), ![w].step = "result"]
    BY DEF Finish, Verdict
  <2>2. round = [v \in Workers |-> round[v]]
    BY DEF RoundsInv
  <2> QED
    BY <1>1, <2>1, <2>2, AfterOutcome, Zenon DEF NewFinish
<1>3. Verdict(w) \in Observed
  BY <1>1, BestIsObserved DEF RoundOK, Verdict
<1>4. RoundOK(NewFinish(w))
  BY <1>1, <1>3 DEF RoundOK, NewFinish, AsRound, Round, Verdict, Unconcluded, Concluded
<1> QED
  BY <1>1, <1>2, <1>4

NewResult(w, ok) == AsRound(round[w], "latest", round[w].attempts, round[w].outcome, ok)
Filed(w) == [round |-> round[w].id, outcome |-> round[w].outcome, attempts |-> round[w].attempts]

(* What Result makes of it, and that what it files is of the best attempt. *)
LEMMA Resulting ==
    ASSUME RoundsInv, NEW w \in Workers, NEW ok \in BOOLEAN, Result(w, ok)
    PROVE  /\ RoundOK(round[w]) /\ RoundOK(NewResult(w, ok)) /\ ResultOK(Filed(w))
           /\ round' = [round EXCEPT ![w] = NewResult(w, ok)]
<1>1. RoundOK(round[w]) /\ round[w].step = "result" /\ round[w] \in Round
  BY DEF Result, At, RoundsInv, RoundOK
<1>2. round' = [round EXCEPT ![w] = NewResult(w, ok)]
  <2>1. round' = [round EXCEPT ![w].result = ok, ![w].step = "latest"]
    BY DEF Result
  <2>2. round = [v \in Workers |-> round[v]]
    BY DEF RoundsInv
  <2> QED
    BY <1>1, <2>1, <2>2, AfterResult, Zenon DEF NewResult
<1>3. RoundOK(NewResult(w, ok))
  BY <1>1 DEF RoundOK, NewResult, AsRound, Round, Unconcluded, Concluded
<1>4. ResultOK(Filed(w))
  BY <1>1 DEF RoundOK, ResultOK, Filed, Concluded
<1> QED
  BY <1>1, <1>2, <1>3, <1>4

(* What Latest makes of it.                                                *)
LEMMA Pointing ==
    ASSUME RoundsInv, NEW w \in Workers, NEW ok \in BOOLEAN, Latest(w, ok)
    PROVE  /\ RoundOK(round[w]) /\ RoundOK(New(w, "seed"))
           /\ round' = [round EXCEPT ![w] = New(w, "seed")]
<1>1. RoundOK(round[w]) /\ round[w].step = "latest" /\ round[w] \in Round
  BY DEF Latest, At, RoundsInv, RoundOK
<1>2. round' = [round EXCEPT ![w] = New(w, "seed")]
  BY <1>1, AfterStep DEF Latest, RoundsInv, New, Concluded
<1>3. RoundOK(New(w, "seed"))
  BY <1>1 DEF RoundOK, New, AsRound, Round, Unconcluded, Concluded
<1> QED
  BY <1>1, <1>2, <1>3

NewClaim(id, s, number) ==
    [id |-> id, sig |-> s, number |-> number, step |-> "load",
     attempts |-> <<>>, outcome |-> "none", result |-> FALSE]

(* What Claim makes of it.                                                 *)
LEMMA Starting ==
    ASSUME NEW id \in Nat, NEW s \in Sigs, NEW number \in Nat
    PROVE  RoundOK(NewClaim(id, s, number))
<1>1. AttemptsOK(<<>>)
  BY DEF AttemptsOK
<1>2. NewClaim(id, s, number) \in Round
  BY DEF NewClaim, Round, Unconcluded, Concluded
<1> QED
  BY <1>1, <1>2 DEF RoundOK, NewClaim, Concluded

-----------------------------------------------------------------------------
(* The queue: what a step does to the count of attempts and to the outcome *)
(* on record.                                                              *)
EntryOK(e) == {"attempts", "outcome"} \subseteq DOMAIN e /\ e.attempts \in Nat

Attempted(s) == queue.entries[s].attempts
Told(s) == queue.entries[s].outcome

QueueInv ==
    /\ queue.entries = [s \in Sigs |-> queue.entries[s]]
    /\ \A s \in Sigs : EntryOK(queue.entries[s])
    /\ rounds \in Nat /\ rounds <= MaxRounds
    /\ disturbed \in [Sigs -> BOOLEAN]

(* The entries of q, with the counts and outcomes of the queue.            *)
Tallied(q) ==
    /\ q.entries = [s \in Sigs |-> q.entries[s]]
    /\ \A s \in Sigs : EntryOK(q.entries[s])
    /\ \A s \in Sigs : q.entries[s].attempts = Attempted(s) /\ q.entries[s].outcome = Told(s)

(* A rebuild, a grant and the passing of time keep counts and outcomes.    *)
LEMMA EntryKept ==
    ASSUME NEW e, EntryOK(e), NEW h
    PROVE  /\ EntryOK(Retained(e)) /\ Retained(e).attempts = e.attempts
           /\ Retained(e).outcome = e.outcome
           /\ EntryOK(Granted(e, h)) /\ Granted(e, h).attempts = e.attempts
           /\ Granted(e, h).outcome = e.outcome
           /\ EntryOK(Aged(e)) /\ Aged(e).attempts = e.attempts /\ Aged(e).outcome = e.outcome
<1>1. ASSUME NEW x, NEW y
      PROVE  LET f == [e EXCEPT !.owner = x, !.lease = y]
             IN  EntryOK(f) /\ f.attempts = e.attempts /\ f.outcome = e.outcome
  BY DEF EntryOK
<1>2. EntryOK(Retained(e)) /\ Retained(e).attempts = e.attempts /\ Retained(e).outcome = e.outcome
  BY <1>1 DEF Retained
<1>3. /\ EntryOK(Granted(e, h)) /\ Granted(e, h).attempts = e.attempts
      /\ Granted(e, h).outcome = e.outcome
  BY <1>1 DEF Granted
<1> DEFINE lease == IF e.lease > 0 THEN e.lease - 1 ELSE 0
           backoff == IF e.backoff > 0 THEN e.backoff - 1 ELSE 0
<1>4. Aged(e) = [e EXCEPT !.lease = lease, !.backoff = backoff]
  BY DEF Aged
<1> HIDE DEF lease, backoff
<1>5. EntryOK(Aged(e)) /\ Aged(e).attempts = e.attempts /\ Aged(e).outcome = e.outcome
  BY <1>4 DEF EntryOK
<1> QED
  BY <1>2, <1>3, <1>5

(* Sorting gives an order, and leaves the entries alone.                   *)
LEMMA SortedKeeps ==
    ASSUME NEW entries, NEW q \in Sorted(entries)
    PROVE  q.entries = entries
BY DEF Sorted

(* Nothing has been attempted at the start.                                *)
LEMMA Begun ==
    ASSUME queue \in Rebuilt(EmptyQueue, Sigs)
    PROVE  /\ queue.entries = [s \in Sigs |-> Fresh]
           /\ \A s \in Sigs : EntryOK(queue.entries[s]) /\ Attempted(s) = 0
<1>1. queue.entries = [s \in Sigs |-> Fresh]
  BY SortedKeeps DEF Rebuilt, EmptyQueue
<1>2. EntryOK(Fresh) /\ Fresh.attempts = 0
  BY DEF EntryOK, Fresh
<1> QED
  BY <1>1, <1>2 DEF Attempted

(* A claim changes no count and no outcome, and reads the next number.     *)
LEMMA ClaimKeeps ==
    ASSUME QueueInv, NEW w, NEW q \in Rebuilt(queue, Sigs), NEW s \in Offered(q, w),
           NEW p \in Claimed(q, w, s)
    PROVE  s \in Sigs /\ Tallied(p) /\ Number(q, s) = Attempted(s) + 1
<1>1. q.entries = [t \in Sigs |-> Retained(queue.entries[t])]
  <2>1. \A t \in Sigs : t \in DOMAIN queue.entries
    BY DEF QueueInv
  <2>2. q.entries = [t \in Sigs |-> IF t \in DOMAIN queue.entries THEN Retained(queue.entries[t]) ELSE Fresh]
    BY SortedKeeps DEF Rebuilt
  <2> QED
    BY <2>1, <2>2
<1>2. s \in Sigs
  BY <1>1 DEF Offered, First
<1>3. p.entries = [q.entries EXCEPT ![s] = Granted(q.entries[s], w)]
  BY SortedKeeps DEF Claimed
<1>4. \A t \in Sigs : /\ EntryOK(q.entries[t]) /\ q.entries[t].attempts = Attempted(t)
                      /\ q.entries[t].outcome = Told(t)
  BY <1>1, EntryKept DEF QueueInv, Attempted, Told
<1>5. p.entries = [t \in Sigs |-> p.entries[t]]
  BY <1>1, <1>3
<1>6. ASSUME NEW t \in Sigs
      PROVE  /\ EntryOK(p.entries[t]) /\ p.entries[t].attempts = Attempted(t)
             /\ p.entries[t].outcome = Told(t)
  <2>1. p.entries[t] = q.entries[t] \/ p.entries[t] = Granted(q.entries[t], w)
    BY <1>1, <1>3
  <2> QED
    BY <2>1, <1>4, EntryKept
<1> QED
  BY <1>2, <1>4, <1>5, <1>6 DEF Tallied, Number

(* A claim that is finished: counted if it is the worker's still.          *)
LEMMA FinishKeeps ==
    ASSUME QueueInv, NEW w \in Workers, NEW outcome, FinishedWith(w, outcome),
           NEW s0 \in Sigs, round[w].sig = s0
    PROVE  /\ queue'.entries = [s \in Sigs |-> queue'.entries[s]]
           /\ \A s \in Sigs : EntryOK(queue'.entries[s])
           /\ \A s \in Sigs \ {s0} : Attempted(s)' = Attempted(s) /\ Told(s)' = Told(s)
           /\ \/ ~Owns(queue, w, s0) /\ queue' = queue
              \/ /\ Owns(queue, w, s0)
                 /\ Attempted(s0) < AttemptsCap => Attempted(s0)' = Attempted(s0) + 1
                 /\ Told(s0)' = Canonical(outcome)
<1>1. CASE ~Owns(queue, w, s0)
  <2>1. queue' = queue
    BY <1>1 DEF FinishedWith
  <2> QED
    BY <1>1, <2>1 DEF QueueInv, Attempted, Told
<1>2. CASE Owns(queue, w, s0)
  <2> DEFINE e == queue.entries[s0]
             f == Recorded(e, Canonical(outcome))
  <2>1. queue'.entries = [queue.entries EXCEPT ![s0] = f]
    BY <1>2, SortedKeeps DEF FinishedWith, Finished
  <2>2. EntryOK(e) /\ AttemptsCap \in Nat
    BY QueueAssumption DEF QueueInv
  <2>3. /\ EntryOK(f) /\ f.outcome = Canonical(outcome)
        /\ e.attempts < AttemptsCap => f.attempts = e.attempts + 1
    <3> HIDE DEF e
    <3>1. Least(e.attempts + 1, AttemptsCap) \in Nat
      BY <2>2 DEF EntryOK, Least
    <3>2. e.attempts < AttemptsCap => Least(e.attempts + 1, AttemptsCap) = e.attempts + 1
      BY <2>2 DEF EntryOK, Least
    <3> QED
      BY <3>1, <3>2 DEF Recorded, EntryOK
  <2> HIDE DEF f
  <2>4. \A s \in Sigs : queue'.entries[s] = IF s = s0 THEN f ELSE queue.entries[s]
    BY <2>1 DEF QueueInv
  <2>5. queue'.entries = [s \in Sigs |-> queue'.entries[s]]
    BY <2>1 DEF QueueInv
  <2>6. \A s \in Sigs : EntryOK(queue'.entries[s])
    BY <2>3, <2>4 DEF QueueInv
  <2>7. \A s \in Sigs \ {s0} : Attempted(s)' = Attempted(s) /\ Told(s)' = Told(s)
    BY <2>4 DEF Attempted, Told
  <2>8. Attempted(s0)' = f.attempts /\ Told(s0)' = f.outcome
    BY <2>4 DEF Attempted, Told
  <2>9. e.attempts = Attempted(s0)
    BY DEF Attempted
  <2> HIDE DEF e
  <2> QED
    BY <1>2, <2>3, <2>5, <2>6, <2>7, <2>8, <2>9
<1> QED
  BY <1>1, <1>2

(* Nor does the passing of time.                                           *)
LEMMA TickKeeps == ASSUME QueueInv, Tick PROVE Tallied(queue')
<1>1. queue' = [queue EXCEPT !.entries = [s \in Sigs |-> Aged(queue.entries[s])]]
  BY DEF Tick
<1>2. queue'.entries = [s \in Sigs |-> Aged(queue.entries[s])]
  BY <1>1
<1> QED
  BY <1>2, EntryKept DEF QueueInv, Tallied, Attempted, Told

-----------------------------------------------------------------------------
(* The paths a round and latest_repro_result.json have lead to files.      *)
WorksOn(w, s) == Busy(w) /\ round[w].sig = s

RoundLeads(r) ==
    /\ r.step = "load" => r.attempts = <<>>
    /\ r.result => r.step \in {"latest", "seed"} /\ <<r.sig, r.number>> \in DOMAIN results
    /\ \A i \in DOMAIN r.attempts :
          r.attempts[i].archive => <<r.sig, r.number, i>> \in DOMAIN replays

LatestLeads(s) ==
    latest[s] # None =>
        /\ latest[s].number \in Nat
        /\ latest[s].result => <<s, latest[s].number>> \in DOMAIN results
        /\ latest[s].best # 0 => <<s, latest[s].number, latest[s].best>> \in DOMAIN replays

PathsInv ==
    /\ DOMAIN replays \subseteq Sigs \X Nat \X Nat
    /\ DOMAIN results \subseteq Sigs \X Nat
    /\ latest = [s \in Sigs |-> latest[s]] /\ seed = [s \in Sigs |-> seed[s]]
    /\ \A w \in Workers : Busy(w) => RoundLeads(round[w])
    /\ \A s \in Sigs : LatestLeads(s)
    /\ \A s \in Sigs : seed[s] # None => seed[s].number \in Nat

-----------------------------------------------------------------------------
(* What is on file of an artifact whose rounds are undisturbed fits the    *)
(* round in hand and the queue.  Until the claim is finished, the number   *)
(* of the round is the next one, and then it is the one on record.         *)
Fits(r) ==
    /\ r.step \in Unconcluded => r.number = Attempted(r.sig) + 1
    /\ r.step \in Concluded => r.number = Attempted(r.sig) /\ Canonical(r.outcome) = Told(r.sig)
    /\ r.number <= r.id /\ r.id <= rounds
    /\ \A k \in DOMAIN replays : k[1] = r.sig /\ k[2] = r.number => replays[k].round = r.id
    /\ \A i \in DOMAIN r.attempts : r.attempts[i].archive =>
          replays[<<r.sig, r.number, i>>].outcome = r.attempts[i].outcome
    /\ r.result => results[<<r.sig, r.number>>].outcome = r.outcome
    /\ r.step # "seed" /\ latest[r.sig] # None => latest[r.sig].number < r.number
    /\ seed[r.sig] # None => seed[r.sig].number < r.number

OneWorker(s) == \A v, w \in Workers : WorksOn(v, s) /\ WorksOn(w, s) => v = w
RoundsFit(s) == \A w \in Workers : WorksOn(w, s) => Fits(round[w])

(* A replay is filed under a number that is counted, or by the round.      *)
Replayed(w, s, number) ==
    WorksOn(w, s) /\ round[w].number = number /\ round[w].step \in {"replay", "finish"}

ReplaysFit(s) ==
    /\ \A k \in DOMAIN replays : k[1] = s =>
          k[2] <= Attempted(s) \/ \E w \in Workers : Replayed(w, s, k[2])
    /\ \A j, k \in DOMAIN replays :
          j[1] = s /\ k[1] = s /\ j[2] = k[2] => replays[j].round = replays[k].round

ResultsFit(s) ==
    /\ \A k \in DOMAIN replays : k[1] = s /\ <<s, k[2]>> \in DOMAIN results =>
          results[<<s, k[2]>>].round = replays[k].round
    /\ \A k \in DOMAIN results : k[1] = s =>
          /\ k[2] <= Attempted(s)
          /\ k[2] = Attempted(s) => Canonical(results[k].outcome) = Told(s)

LatestFits(s) ==
    latest[s] # None =>
        /\ latest[s].number <= Attempted(s)
        /\ latest[s].result => results[<<s, latest[s].number>>].outcome = latest[s].outcome
        /\ latest[s].best # 0 =>
              replays[<<s, latest[s].number, latest[s].best>>].outcome = latest[s].outcome

SeedFits(s) ==
    seed[s] # None =>
        /\ seed[s].number <= Attempted(s)
        /\ seed[s].result =>
              /\ <<s, seed[s].number>> \in DOMAIN results
              /\ seed[s].eligible <=> results[<<s, seed[s].number>>].outcome # "failed"

Tidy(s) ==
    /\ Attempted(s) <= rounds /\ OneWorker(s) /\ RoundsFit(s)
    /\ ReplaysFit(s) /\ ResultsFit(s) /\ LatestFits(s) /\ SeedFits(s)

TidyInv == \A s \in Sigs : ~disturbed[s] => Tidy(s)

IInv == RoundsInv /\ QueueInv /\ PathsInv /\ TidyInv

-----------------------------------------------------------------------------
(* A step that leaves an artifact, its round and its files alone.          *)
Untouched(s) ==
    /\ Attempted(s)' = Attempted(s) /\ Told(s)' = Told(s)
    /\ rounds' \in Nat /\ rounds' >= rounds
    /\ \A w \in Workers : WorksOn(w, s)' <=> WorksOn(w, s)
    /\ \A w \in Workers : WorksOn(w, s) => round'[w] = round[w]
    /\ \A k \in DOMAIN replays : k[1] = s => k \in DOMAIN replays' /\ replays'[k] = replays[k]
    /\ \A k \in DOMAIN replays' : k[1] = s => k \in DOMAIN replays
    /\ \A k \in DOMAIN results : k[1] = s => k \in DOMAIN results' /\ results'[k] = results[k]
    /\ \A k \in DOMAIN results' : k[1] = s => k \in DOMAIN results
    /\ latest'[s] = latest[s] /\ seed'[s] = seed[s]

(* An artifact that is left alone stays tidy.                              *)
LEMMA TidyUntouched ==
    ASSUME RoundsInv, QueueInv, PathsInv, NEW s \in Sigs, Tidy(s), Untouched(s)
    PROVE  Tidy(s)'
<1>1. Attempted(s) \in Nat /\ rounds \in Nat
  BY DEF QueueInv, EntryOK, Attempted
<1>2. Attempted(s)' <= rounds'
  BY <1>1 DEF Tidy, Untouched
<1>3. OneWorker(s)'
  BY DEF Tidy, Untouched, OneWorker
<1>4. RoundsFit(s)'
  <2> SUFFICES ASSUME NEW w \in Workers, WorksOn(w, s)' PROVE Fits(round[w])'
    BY DEF RoundsFit
  <2>1. WorksOn(w, s) /\ round'[w] = round[w]
    BY DEF Untouched
  <2> DEFINE r == round[w]
  <2>2. r.sig = s /\ r \in Round /\ Fits(r) /\ RoundLeads(r)
    BY <2>1 DEF WorksOn, Tidy, RoundsFit, RoundsInv, RoundOK, PathsInv
  <2>3. r.id \in Nat /\ r.number \in Nat
    BY <2>2 DEF Round
  <2> SUFFICES ASSUME NEW n, n = r PROVE Fits(n)'
    BY <2>1
  <2> HIDE DEF r
  <2>4. /\ n.step \in Unconcluded => n.number = Attempted(n.sig)' + 1
        /\ n.step \in Concluded => n.number = Attempted(n.sig)' /\ Canonical(n.outcome) = Told(n.sig)'
        /\ n.number <= n.id /\ n.id <= rounds'
    BY <1>1, <2>2, <2>3 DEF Fits, Untouched
  <2>5. \A k \in DOMAIN replays' : k[1] = n.sig /\ k[2] = n.number => replays'[k].round = n.id
    BY <2>2 DEF Fits, Untouched
  <2>6. ASSUME NEW i \in DOMAIN n.attempts, n.attempts[i].archive
        PROVE  replays'[<<n.sig, n.number, i>>].outcome = n.attempts[i].outcome
    <3>1. <<n.sig, n.number, i>> \in DOMAIN replays
      BY <2>2, <2>6 DEF RoundLeads
    <3>2. <<n.sig, n.number, i>>[1] = s
      BY <2>2
    <3>3. replays'[<<n.sig, n.number, i>>] = replays[<<n.sig, n.number, i>>]
      BY <3>1, <3>2 DEF Untouched
    <3> QED
      BY <2>2, <2>6, <3>3 DEF Fits
  <2>7. n.result => results'[<<n.sig, n.number>>].outcome = n.outcome
    <3> SUFFICES ASSUME n.result PROVE results'[<<n.sig, n.number>>].outcome = n.outcome
      OBVIOUS
    <3>1. <<n.sig, n.number>> \in DOMAIN results
      BY <2>2 DEF RoundLeads
    <3>2. <<n.sig, n.number>>[1] = s
      BY <2>2
    <3>3. results'[<<n.sig, n.number>>] = results[<<n.sig, n.number>>]
      BY <3>1, <3>2 DEF Untouched
    <3> QED
      BY <2>2, <3>3 DEF Fits
  <2>8. /\ n.step # "seed" /\ latest'[n.sig] # None => latest'[n.sig].number < n.number
        /\ seed'[n.sig] # None => seed'[n.sig].number < n.number
    BY <2>2 DEF Fits, Untouched
  <2> QED
    BY <2>4, <2>5, <2>6, <2>7, <2>8 DEF Fits
<1>5. ReplaysFit(s)'
  <2>1. ASSUME NEW k \in DOMAIN replays', k[1] = s
        PROVE  k[2] <= Attempted(s)' \/ \E w \in Workers : Replayed(w, s, k[2])'
    <3>1. k \in DOMAIN replays
      BY <2>1 DEF Untouched
    <3>2. CASE k[2] <= Attempted(s)
      BY <3>2 DEF Untouched
    <3>3. CASE \E w \in Workers : Replayed(w, s, k[2])
      BY <3>3 DEF Untouched, Replayed
    <3> QED
      BY <2>1, <3>1, <3>2, <3>3 DEF Tidy, ReplaysFit
  <2>2. \A j, k \in DOMAIN replays' :
          j[1] = s /\ k[1] = s /\ j[2] = k[2] => replays'[j].round = replays'[k].round
    BY DEF Untouched, Tidy, ReplaysFit
  <2> QED
    BY <2>1, <2>2 DEF ReplaysFit
<1>6. ResultsFit(s)'
  <2>1. ASSUME NEW k \in DOMAIN replays', k[1] = s, <<s, k[2]>> \in DOMAIN results'
        PROVE  results'[<<s, k[2]>>].round = replays'[k].round
    <3>1. k \in DOMAIN replays /\ replays'[k] = replays[k]
      BY <2>1 DEF Untouched
    <3>2. <<s, k[2]>>[1] = s
      OBVIOUS
    <3>3. <<s, k[2]>> \in DOMAIN results /\ results'[<<s, k[2]>>] = results[<<s, k[2]>>]
      BY <2>1, <3>2 DEF Untouched
    <3> QED
      BY <2>1, <3>1, <3>3 DEF Tidy, ResultsFit
  <2>2. \A k \in DOMAIN results' : k[1] = s =>
          /\ k[2] <= Attempted(s)'
          /\ k[2] = Attempted(s)' => Canonical(results'[k].outcome) = Told(s)'
    BY DEF Untouched, Tidy, ResultsFit
  <2> QED
    BY <2>1, <2>2 DEF ResultsFit
<1>7. LatestFits(s)'
  <2> SUFFICES ASSUME latest'[s] # None PROVE LatestFits(s)'
    BY DEF LatestFits
  <2>1. latest'[s] = latest[s] /\ latest[s] # None
    BY DEF Untouched
  <2>2. /\ latest[s].result => <<s, latest[s].number>> \in DOMAIN results
        /\ latest[s].best # 0 => <<s, latest[s].number, latest[s].best>> \in DOMAIN replays
    BY <2>1 DEF PathsInv, LatestLeads
  <2>3. <<s, latest[s].number>>[1] = s /\ <<s, latest[s].number, latest[s].best>>[1] = s
    OBVIOUS
  <2>4. /\ latest[s].result =>
             results'[<<s, latest[s].number>>] = results[<<s, latest[s].number>>]
        /\ latest[s].best # 0 =>
             replays'[<<s, latest[s].number, latest[s].best>>] =
                replays[<<s, latest[s].number, latest[s].best>>]
    BY <2>2, <2>3 DEF Untouched
  <2> QED
    BY <2>1, <2>4 DEF Untouched, Tidy, LatestFits
<1>8. SeedFits(s)'
  <2> SUFFICES ASSUME seed'[s] # None PROVE SeedFits(s)'
    BY DEF SeedFits
  <2>1. seed'[s] = seed[s] /\ seed[s] # None
    BY DEF Untouched
  <2>2. /\ seed[s].number <= Attempted(s)
        /\ seed[s].result => <<s, seed[s].number>> \in DOMAIN results
        /\ seed[s].result =>
              (seed[s].eligible <=> results[<<s, seed[s].number>>].outcome # "failed")
    BY <2>1 DEF Tidy, SeedFits
  <2>3. <<s, seed[s].number>>[1] = s
    OBVIOUS
  <2>4. seed[s].result => /\ <<s, seed[s].number>> \in DOMAIN results'
                          /\ results'[<<s, seed[s].number>>] = results[<<s, seed[s].number>>]
    BY <2>2, <2>3 DEF Untouched
  <2> QED
    BY <2>1, <2>2, <2>4 DEF Untouched, SeedFits
<1> QED
  BY <1>2, <1>3, <1>4, <1>5, <1>6, <1>7, <1>8 DEF Tidy

-----------------------------------------------------------------------------
(* The step of a worker on the artifact it works on.                       *)
LEMMA Mine ==
    ASSUME RoundsInv, NEW w \in Workers, NEW s, NEW n,
           round' = [round EXCEPT ![w] = n],
           \A v \in Workers \ {w} : ~WorksOn(v, s)
    PROVE  \A v \in Workers : WorksOn(v, s)' => v = w /\ round'[v] = n
BY DEF RoundsInv, WorksOn, Busy

(* If one worker's round fits the artifact and nobody else is on it, all   *)
(* do.                                                                     *)
LEMMA OneRoundFits ==
    ASSUME NEW w \in Workers, NEW s, NEW n,
           \A v \in Workers : WorksOn(v, s)' => v = w /\ round'[v] = n,
           n # None => Fits(n)'
    PROVE  OneWorker(s)' /\ RoundsFit(s)'
<1>1. OneWorker(s)'
  BY DEF OneWorker
<1>2. ASSUME NEW v \in Workers, WorksOn(v, s)' PROVE Fits(round[v])'
  <2>1. round'[v] = n /\ round'[v] # None
    BY <1>2 DEF WorksOn, Busy
  <2> QED
    BY <2>1
<1> QED
  BY <1>1, <1>2 DEF RoundsFit

(* What is known of a worker's round on a tidy artifact.                   *)
LEMMA InHand ==
    ASSUME RoundsInv, QueueInv, PathsInv, NEW w \in Workers, NEW s \in Sigs,
           WorksOn(w, s), Tidy(s)
    PROVE  /\ round[w] \in Round /\ round[w].sig = s /\ round[w].number \in Nat /\ round[w].id \in Nat
           /\ RoundOK(round[w]) /\ Fits(round[w]) /\ RoundLeads(round[w])
           /\ \A v \in Workers \ {w} : ~WorksOn(v, s)
           /\ Attempted(s) \in Nat /\ rounds \in Nat
<1>1. RoundOK(round[w]) /\ RoundLeads(round[w]) /\ round[w].sig = s
  BY DEF WorksOn, RoundsInv, PathsInv
<1>2. round[w] \in Round
  BY <1>1 DEF RoundOK
<1>3. round[w].number \in Nat /\ round[w].id \in Nat
  BY <1>2 DEF Round
<1>4. Fits(round[w]) /\ \A v \in Workers \ {w} : ~WorksOn(v, s)
  BY DEF Tidy, RoundsFit, OneWorker
<1>5. Attempted(s) \in Nat /\ rounds \in Nat
  BY DEF QueueInv, EntryOK, Attempted
<1> QED
  BY <1>1, <1>2, <1>3, <1>4, <1>5

(* The numbers and paths of what is on file.                               *)
LEMMA OnFile ==
    ASSUME PathsInv, NEW s \in Sigs
    PROVE  /\ \A k \in DOMAIN replays : k[1] \in Sigs /\ k[2] \in Nat /\ k = <<k[1], k[2], k[3]>>
           /\ \A k \in DOMAIN results : k[1] \in Sigs /\ k[2] \in Nat /\ k = <<k[1], k[2]>>
           /\ latest[s] # None => latest[s].number \in Nat
           /\ seed[s] # None => seed[s].number \in Nat
<1>1. /\ \A k \in Sigs \X Nat \X Nat : k[1] \in Sigs /\ k[2] \in Nat /\ k = <<k[1], k[2], k[3]>>
      /\ \A k \in Sigs \X Nat : k[1] \in Sigs /\ k[2] \in Nat /\ k = <<k[1], k[2]>>
  OBVIOUS
<1> QED
  BY <1>1 DEF PathsInv, LatestLeads

(* A claim of an artifact nobody works on leaves it tidy.                  *)
LEMMA OwnClaim ==
    ASSUME RoundsInv, QueueInv, PathsInv, NEW w \in Workers, NEW s \in Sigs, Tidy(s),
           \A v \in Workers : ~WorksOn(v, s),
           NEW n, n = NewClaim(rounds + 1, s, Attempted(s) + 1),
           round' = [round EXCEPT ![w] = n],
           Attempted(s)' = Attempted(s), Told(s)' = Told(s),
           rounds' = rounds + 1, UNCHANGED filed
    PROVE  Tidy(s)'
<1>1. Attempted(s) \in Nat /\ rounds \in Nat /\ Attempted(s) <= rounds
  BY DEF QueueInv, EntryOK, Attempted, Tidy
<1>2. replays' = replays /\ results' = results /\ latest' = latest /\ seed' = seed
  BY DEF filed
<1>3. /\ n.id = rounds + 1 /\ n.sig = s /\ n.number = Attempted(s) + 1 /\ n.step = "load"
      /\ n.attempts = <<>> /\ n.result = FALSE
  BY DEF NewClaim
<1>4. \A k \in DOMAIN replays : k[1] = s => k[2] <= Attempted(s)
  BY DEF Tidy, ReplaysFit, Replayed
<1>5. Fits(n)'
  <2>1. \A k \in DOMAIN replays' : ~(k[1] = n.sig /\ k[2] = n.number)
    BY <1>1, <1>2, <1>3, <1>4, OnFile
  <2>2. /\ latest'[s] # None => latest'[s].number < n.number
        /\ seed'[s] # None => seed'[s].number < n.number
    BY <1>1, <1>2, <1>3, OnFile DEF Tidy, LatestFits, SeedFits
  <2> QED
    BY <1>1, <1>3, <2>1, <2>2 DEF Fits, Unconcluded, Concluded
<1>6. \A v \in Workers : WorksOn(v, s)' => v = w /\ round'[v] = n
  BY Mine
<1>7. OneWorker(s)' /\ RoundsFit(s)'
  BY <1>5, <1>6, OneRoundFits
<1>8. ReplaysFit(s)'
  BY <1>2, <1>4 DEF Tidy, ReplaysFit
<1>9. ResultsFit(s)' /\ LatestFits(s)' /\ SeedFits(s)'
  BY <1>2 DEF Tidy, ResultsFit, LatestFits, SeedFits
<1> QED
  BY <1>1, <1>7, <1>8, <1>9 DEF Tidy

(* So does loading it.                                                     *)
LEMMA OwnLoad ==
    ASSUME RoundsInv, QueueInv, PathsInv, NEW w \in Workers, NEW s \in Sigs, Tidy(s),
           WorksOn(w, s), round[w].step = "load",
           NEW n, n = AsRound(round[w], "replay", round[w].attempts, round[w].outcome, round[w].result),
           round' = [round EXCEPT ![w] = n],
           queue' = queue, rounds' = rounds, UNCHANGED filed
    PROVE  Tidy(s)'
<1>0. /\ round[w] \in Round /\ round[w].sig = s /\ round[w].number \in Nat /\ round[w].id \in Nat
      /\ RoundOK(round[w]) /\ Fits(round[w]) /\ RoundLeads(round[w])
      /\ \A v \in Workers \ {w} : ~WorksOn(v, s)
      /\ Attempted(s) \in Nat /\ rounds \in Nat
  BY InHand
<1>1. replays' = replays /\ results' = results /\ latest' = latest /\ seed' = seed
  BY DEF filed
<1>2. Attempted(s)' = Attempted(s) /\ Told(s)' = Told(s)
  BY DEF Attempted, Told
<1>3. /\ n.id = round[w].id /\ n.sig = s /\ n.number = round[w].number /\ n.step = "replay"
      /\ n.attempts = <<>> /\ ~n.result
  BY <1>0 DEF AsRound, RoundLeads
<1>4. \A k \in DOMAIN replays : k[1] = s => k[2] <= Attempted(s)
  BY <1>0 DEF Tidy, ReplaysFit, Replayed
<1>5. Fits(n)'
  <2>1. /\ n.step \in Unconcluded /\ n.step \notin Concluded
        /\ n.number = Attempted(s) + 1 /\ n.number <= n.id /\ n.id <= rounds
    BY <1>0, <1>3 DEF Fits, Unconcluded, Concluded
  <2>2. /\ \A k \in DOMAIN replays : k[1] = s /\ k[2] = n.number => replays[k].round = n.id
        /\ latest[s] # None => latest[s].number < n.number
        /\ seed[s] # None => seed[s].number < n.number
    BY <1>0, <1>3 DEF Fits
  <2>3. Attempted(n.sig)' = Attempted(s)
    BY <1>2, <1>3
  <2>4. DOMAIN n.attempts = {}
    BY <1>3
  <2>5. /\ n.step \in Unconcluded => n.number = Attempted(n.sig)' + 1
        /\ n.step \in Concluded => n.number = Attempted(n.sig)' /\ Canonical(n.outcome) = Told(n.sig)'
        /\ n.number <= n.id /\ n.id <= rounds'
    BY <2>1, <2>3
  <2>6. /\ \A k \in DOMAIN replays' : k[1] = n.sig /\ k[2] = n.number => replays'[k].round = n.id
        /\ n.step # "seed" /\ latest'[n.sig] # None => latest'[n.sig].number < n.number
        /\ seed'[n.sig] # None => seed'[n.sig].number < n.number
    BY <1>1, <1>3, <2>2
  <2>7. /\ \A i \in DOMAIN n.attempts : n.attempts[i].archive =>
              replays'[<<n.sig, n.number, i>>].outcome = n.attempts[i].outcome
        /\ n.result => results'[<<n.sig, n.number>>].outcome = n.outcome
    BY <1>3, <2>4
  <2> QED
    BY <2>5, <2>6, <2>7 DEF Fits
<1>6. \A v \in Workers : WorksOn(v, s)' => v = w /\ round'[v] = n
  <2>1. \A v \in Workers \ {w} : ~WorksOn(v, s)
    BY <1>0
  <2> QED
    BY ONLY RoundsInv, <2>1, Mine, round' = [round EXCEPT ![w] = n], w \in Workers
<1>7. OneWorker(s)' /\ RoundsFit(s)'
  BY <1>5, <1>6, OneRoundFits
<1>8. ReplaysFit(s)'
  BY <1>1, <1>2, <1>4 DEF Tidy, ReplaysFit
<1>9. ResultsFit(s)' /\ LatestFits(s)' /\ SeedFits(s)'
  BY <1>1, <1>2 DEF Tidy, ResultsFit, LatestFits, SeedFits
<1> QED
  BY <1>2, <1>7, <1>8, <1>9 DEF Tidy

(* The round ends, and its replays are of a number that is counted.        *)
LEMMA OwnEnd ==
    ASSUME RoundsInv, QueueInv, PathsInv, NEW w \in Workers, NEW s \in Sigs, Tidy(s),
           WorksOn(w, s), round[w].step \notin {"replay", "finish"},
           round' = [round EXCEPT ![w] = None],
           queue' = queue, rounds' = rounds, UNCHANGED filed
    PROVE  Tidy(s)'
<1>0. /\ round[w] \in Round /\ round[w].sig = s /\ round[w].number \in Nat /\ round[w].id \in Nat
      /\ RoundOK(round[w]) /\ Fits(round[w]) /\ RoundLeads(round[w])
      /\ \A v \in Workers \ {w} : ~WorksOn(v, s)
      /\ Attempted(s) \in Nat /\ rounds \in Nat
  BY InHand
<1>1. replays' = replays /\ results' = results /\ latest' = latest /\ seed' = seed
  BY DEF filed
<1>2. Attempted(s)' = Attempted(s) /\ Told(s)' = Told(s)
  BY DEF Attempted, Told
<1>3. \A k \in DOMAIN replays : k[1] = s => k[2] <= Attempted(s)
  BY <1>0 DEF Tidy, ReplaysFit, Replayed
<1>4. \A v \in Workers : WorksOn(v, s)' => v = w /\ round'[v] = None
  BY Mine, <1>0
<1>5. OneWorker(s)' /\ RoundsFit(s)'
  BY <1>4, OneRoundFits
<1>6. ReplaysFit(s)'
  BY <1>1, <1>2, <1>3 DEF Tidy, ReplaysFit
<1>7. ResultsFit(s)' /\ LatestFits(s)' /\ SeedFits(s)'
  BY <1>1, <1>2 DEF Tidy, ResultsFit, LatestFits, SeedFits
<1> QED
  BY <1>2, <1>5, <1>6, <1>7 DEF Tidy

(* An attempt that failed before anything was replayed is counted.         *)
LEMMA OwnFailure ==
    ASSUME RoundsInv, QueueInv, PathsInv, NEW w \in Workers, NEW s \in Sigs, Tidy(s),
           WorksOn(w, s), round[w].step = "load",
           round' = [round EXCEPT ![w] = None],
           Attempted(s)' = Attempted(s) + 1, rounds' = rounds, UNCHANGED filed
    PROVE  Tidy(s)'
<1>0. /\ round[w] \in Round /\ round[w].sig = s /\ round[w].number \in Nat /\ round[w].id \in Nat
      /\ RoundOK(round[w]) /\ Fits(round[w]) /\ RoundLeads(round[w])
      /\ \A v \in Workers \ {w} : ~WorksOn(v, s)
      /\ Attempted(s) \in Nat /\ rounds \in Nat
  BY InHand
<1>1. replays' = replays /\ results' = results /\ latest' = latest /\ seed' = seed
  BY DEF filed
<1>2. \A k \in DOMAIN replays : k[1] = s => k[2] <= Attempted(s)
  BY <1>0 DEF Tidy, ReplaysFit, Replayed
<1>3. /\ Attempted(s) \in Nat
      /\ Attempted(s)' <= rounds'
  BY <1>0 DEF Fits, Unconcluded
<1>4. \A v \in Workers : WorksOn(v, s)' => v = w /\ round'[v] = None
  BY Mine, <1>0
<1>5. OneWorker(s)' /\ RoundsFit(s)'
  BY <1>4, OneRoundFits
<1>6. ReplaysFit(s)'
  BY <1>1, <1>2, <1>3, OnFile DEF Tidy, ReplaysFit
<1>7. ResultsFit(s)'
  BY <1>1, <1>3, OnFile DEF Tidy, ResultsFit
<1>8. LatestFits(s)' /\ SeedFits(s)'
  BY <1>1, <1>3, OnFile DEF Tidy, LatestFits, SeedFits
<1> QED
  BY <1>3, <1>5, <1>6, <1>7, <1>8 DEF Tidy

(* A replay is filed under the next number, which is the round's alone.    *)
LEMMA OwnReplay ==
    ASSUME RoundsInv, QueueInv, PathsInv, NEW w \in Workers, NEW s \in Sigs, Tidy(s),
           WorksOn(w, s), round[w].step = "replay",
           NEW outcome, NEW archived \in BOOLEAN, NEW a,
           a = Append(round[w].attempts, [outcome |-> outcome, archive |-> archived]),
           NEW step \in {"replay", "finish"},
           NEW n, n = AsRound(round[w], step, a, round[w].outcome, round[w].result), n # None,
           round' = [round EXCEPT ![w] = n],
           NEW seen, seen = [round |-> round[w].id, outcome |-> outcome],
           NEW key, key = <<s, round[w].number, Len(a)>>,
           replays' = IF archived THEN With(replays, key, seen) ELSE replays,
           queue' = queue, rounds' = rounds, results' = results, latest' = latest, seed' = seed
    PROVE  Tidy(s)'
<1>0. /\ round[w] \in Round /\ round[w].sig = s /\ round[w].number \in Nat /\ round[w].id \in Nat
      /\ RoundOK(round[w]) /\ Fits(round[w]) /\ RoundLeads(round[w])
      /\ Attempted(s) \in Nat /\ rounds \in Nat
  BY InHand
<1>1. \A v \in Workers \ {w} : ~WorksOn(v, s)
  BY InHand
<1>2. Attempted(s)' = Attempted(s) /\ Told(s)' = Told(s)
  BY DEF Attempted, Told
<1>3. /\ n.id = round[w].id /\ n.sig = s /\ n.number = round[w].number /\ n.step = step
      /\ n.attempts = a /\ ~n.result
  BY <1>0 DEF AsRound, RoundLeads
<1>4. /\ n.number = Attempted(s) + 1 /\ n.number <= n.id /\ n.id <= rounds /\ n.number \in Nat
      /\ \A k \in DOMAIN replays : k[1] = s /\ k[2] = n.number => replays[k].round = n.id
      /\ latest[s] # None => latest[s].number < n.number
      /\ seed[s] # None => seed[s].number < n.number
  BY <1>0, <1>3 DEF Fits, Unconcluded
<1> DEFINE old == round[w].attempts
<1>5. /\ DOMAIN a = 1 .. Len(a) /\ Len(a) = Len(old) + 1 /\ Len(old) \in Nat /\ DOMAIN old = 1 .. Len(old)
      /\ a[Len(a)].outcome = outcome /\ a[Len(a)].archive = archived
      /\ \A i \in 1 .. Len(old) : a[i] = old[i]
  <2> DEFINE x == [outcome |-> outcome, archive |-> archived]
  <2>1. old \in Seq(Attempt)
    BY <1>0 DEF RoundOK, AttemptsOK
  <2>2. x.outcome = outcome /\ x.archive = archived
    OBVIOUS
  <2> HIDE DEF old
  <2>3. a = Append(old, x)
    BY DEF old
  <2> HIDE DEF x
  <2>4. /\ DOMAIN a = 1 .. Len(a) /\ Len(a) = Len(old) + 1 /\ Len(old) \in Nat
        /\ DOMAIN old = 1 .. Len(old) /\ a[Len(a)] = x
        /\ \A i \in 1 .. Len(old) : a[i] = old[i]
    BY ONLY <2>1, <2>3, OneMore
  <2> QED
    BY <2>2, <2>4
<1>6. /\ key[1] = s /\ key[2] = n.number /\ key[3] = Len(a) /\ seen.round = n.id /\ seen.outcome = outcome
      /\ \A i : i # Len(a) => <<s, n.number, i>> # key
      /\ \A m, i : m # n.number => <<s, m, i>> # key
  BY <1>3
<1>7. /\ \A k \in DOMAIN replays : k \in DOMAIN replays' /\ (k # key => replays'[k] = replays[k])
      /\ \A k \in DOMAIN replays' : \/ k = key /\ replays'[k] = seen
                                    \/ k \in DOMAIN replays /\ replays'[k] = replays[k]
      /\ archived => replays'[key] = seen
  <2>1. CASE archived
    <3>1. replays' = With(replays, key, seen)
      BY <2>1
    <3>2. /\ DOMAIN With(replays, key, seen) = DOMAIN replays \cup {key}
          /\ With(replays, key, seen)[key] = seen
          /\ \A k \in DOMAIN replays : k # key => With(replays, key, seen)[k] = replays[k]
      BY DEF With
    <3> QED
      BY <3>1, <3>2
  <2>2. CASE ~archived
    BY <2>2
  <2> QED
    BY <2>1, <2>2
<1>8. ASSUME NEW k \in DOMAIN replays', k[1] = s, k[2] = n.number
       PROVE  replays'[k].round = n.id
  <2>1. CASE k = key /\ replays'[k] = seen
    BY <2>1, <1>6
  <2>2. CASE k \in DOMAIN replays /\ replays'[k] = replays[k]
    BY <2>2, <1>8, <1>4
  <2> QED
    BY <2>1, <2>2, <1>7
<1>9. Fits(n)'
  <2>2. ASSUME NEW i \in DOMAIN a, a[i].archive
        PROVE  replays'[<<s, n.number, i>>].outcome = a[i].outcome
    <3>1. CASE i = Len(a)
      <4>1. archived
        BY <2>2, <3>1, <1>5
      <4>2. replays'[key] = seen /\ key = <<s, n.number, i>>
        BY <4>1, <1>3, <1>7, <3>1
      <4> QED
        BY <4>2, <1>5, <1>6, <3>1
    <3>2. CASE i # Len(a)
      <4>1. i \in DOMAIN old /\ a[i] = old[i]
        BY <1>5, <3>2, <2>2
      <4>2. <<s, n.number, i>> \in DOMAIN replays
        BY <4>1, <2>2, <1>0, <1>3 DEF RoundLeads
      <4>3. replays'[<<s, n.number, i>>] = replays[<<s, n.number, i>>]
        BY <4>2, <3>2, <1>6, <1>7
      <4>4. replays[<<s, n.number, i>>].outcome = old[i].outcome
        BY <4>1, <2>2, <1>0, <1>3 DEF Fits
      <4> QED
        BY <4>1, <4>3, <4>4
    <3> QED
      BY <3>1, <3>2
  <2>3. Attempted(n.sig)' = Attempted(s)
    BY <1>2, <1>3
  <2>4. /\ n.step \in Unconcluded => n.number = Attempted(n.sig)' + 1
        /\ n.step \in Concluded => n.number = Attempted(n.sig)' /\ Canonical(n.outcome) = Told(n.sig)'
        /\ n.number <= n.id /\ n.id <= rounds'
    BY <1>3, <1>4, <2>3 DEF Concluded
  <2>5. \A k \in DOMAIN replays' : k[1] = n.sig /\ k[2] = n.number => replays'[k].round = n.id
    BY <1>3, <1>8
  <2>6. ASSUME NEW i \in DOMAIN n.attempts, n.attempts[i].archive
        PROVE  replays'[<<n.sig, n.number, i>>].outcome = n.attempts[i].outcome
    <3>1. i \in DOMAIN a /\ a[i].archive
      BY <1>3, <2>6
    <3>2. replays'[<<s, n.number, i>>].outcome = a[i].outcome
      BY <2>2, <3>1
    <3> QED
      BY <1>3, <3>2
  <2>7. /\ n.step # "seed" /\ latest'[n.sig] # None => latest'[n.sig].number < n.number
        /\ seed'[n.sig] # None => seed'[n.sig].number < n.number
    <3>1. latest'[n.sig] = latest[s] /\ seed'[n.sig] = seed[s]
      BY <1>3
    <3> QED
      BY <3>1, <1>4
  <2>8. n.result => results'[<<n.sig, n.number>>].outcome = n.outcome
    BY <1>3, Zenon
  <2> QED
    BY <2>4, <2>5, <2>6, <2>7, <2>8 DEF Fits
<1>10. \A v \in Workers : WorksOn(v, s)' => v = w /\ round'[v] = n
  BY ONLY RoundsInv, <1>1, Mine, round' = [round EXCEPT ![w] = n], w \in Workers
<1>11. OneWorker(s)' /\ RoundsFit(s)'
  BY <1>9, <1>10, OneRoundFits
<1>12. Replayed(w, s, n.number)'
  <2>1. round'[w] = n
    BY DEF RoundsInv
  <2> QED
    BY <2>1, <1>3 DEF Replayed, WorksOn, Busy
<1>13. ReplaysFit(s)'
  <2>1. ASSUME NEW k \in DOMAIN replays', k[1] = s
        PROVE  k[2] <= Attempted(s)' \/ \E v \in Workers : Replayed(v, s, k[2])'
    <3>1. CASE k[2] = n.number
      BY <3>1, <1>12
    <3>2. CASE k[2] # n.number
      <4>1. k \in DOMAIN replays
        BY <3>2, <1>6, <1>7
      <4>2. \A v \in Workers : ~Replayed(v, s, k[2])
        BY <3>2, <1>1, <1>3 DEF Replayed
      <4> QED
        BY <2>1, <4>1, <4>2, <1>2 DEF Tidy, ReplaysFit
    <3> QED
      BY <3>1, <3>2
  <2>2. ASSUME NEW j \in DOMAIN replays', NEW k \in DOMAIN replays',
               j[1] = s, k[1] = s, j[2] = k[2]
        PROVE  replays'[j].round = replays'[k].round
    <3>1. CASE k[2] = n.number
      <4>1. replays'[j].round = n.id /\ replays'[k].round = n.id
        BY <2>2, <3>1, <1>8
      <4> QED
        BY <4>1
    <3>2. CASE k[2] # n.number
      <4>1. /\ k \in DOMAIN replays /\ replays'[k] = replays[k]
            /\ j \in DOMAIN replays /\ replays'[j] = replays[j]
        BY <2>2, <3>2, <1>6, <1>7
      <4> QED
        BY <2>2, <4>1 DEF Tidy, ReplaysFit
    <3> QED
      BY <3>1, <3>2
  <2> QED
    BY <2>1, <2>2 DEF ReplaysFit
<1>14. ResultsFit(s)'
  <2>1. ASSUME NEW k \in DOMAIN replays', k[1] = s, <<s, k[2]>> \in DOMAIN results
        PROVE  results[<<s, k[2]>>].round = replays'[k].round
    <3>1. <<s, k[2]>>[1] = s /\ <<s, k[2]>>[2] = k[2]
      OBVIOUS
    <3>2. k[2] <= Attempted(s) /\ k[2] \in Nat
      BY <2>1, <3>1, OnFile DEF Tidy, ResultsFit
    <3>3. k # key
      BY <3>2, <1>0, <1>4, <1>6
    <3>4. k \in DOMAIN replays /\ replays'[k] = replays[k]
      BY <3>3, <1>7
    <3> QED
      BY <2>1, <3>4 DEF Tidy, ResultsFit
  <2>2. \A k \in DOMAIN results : k[1] = s =>
          /\ k[2] <= Attempted(s)
          /\ k[2] = Attempted(s) => Canonical(results[k].outcome) = Told(s)
    BY DEF Tidy, ResultsFit
  <2> QED
    BY <1>2, <2>1, <2>2 DEF ResultsFit
<1>15. LatestFits(s)'
  <2> SUFFICES ASSUME latest[s] # None
               PROVE  /\ latest[s].number <= Attempted(s)
                      /\ latest[s].result =>
                            results[<<s, latest[s].number>>].outcome = latest[s].outcome
                      /\ latest[s].best # 0 =>
                            replays'[<<s, latest[s].number, latest[s].best>>].outcome = latest[s].outcome
    BY <1>2 DEF LatestFits
  <2>1. latest[s].number # n.number
    BY <1>4, OnFile
  <2>2. latest[s].best # 0 =>
            replays'[<<s, latest[s].number, latest[s].best>>] =
               replays[<<s, latest[s].number, latest[s].best>>]
    BY <2>1, <1>6, <1>7 DEF PathsInv, LatestLeads
  <2> QED
    BY <2>2 DEF Tidy, LatestFits
<1>16. SeedFits(s)'
  BY <1>2 DEF Tidy, SeedFits
<1> QED
  BY <1>2, <1>11, <1>13, <1>14, <1>15, <1>16 DEF Tidy

(* The outcome is counted under the number of the round.                   *)
LEMMA OwnFinish ==
    ASSUME RoundsInv, QueueInv, PathsInv, NEW w \in Workers, NEW s \in Sigs, Tidy(s),
           WorksOn(w, s), round[w].step = "finish",
           NEW outcome,
           NEW n, n = AsRound(round[w], "result", round[w].attempts, outcome, round[w].result),
           round' = [round EXCEPT ![w] = n],
           Attempted(s)' = Attempted(s) + 1, Told(s)' = Canonical(outcome),
           rounds' = rounds, UNCHANGED filed
    PROVE  Tidy(s)'
<1>0. /\ round[w] \in Round /\ round[w].sig = s /\ round[w].number \in Nat /\ round[w].id \in Nat
      /\ RoundOK(round[w]) /\ Fits(round[w]) /\ RoundLeads(round[w])
      /\ Attempted(s) \in Nat /\ rounds \in Nat
  BY InHand
<1>1. \A v \in Workers \ {w} : ~WorksOn(v, s)
  BY InHand
<1>2. replays' = replays /\ results' = results /\ latest' = latest /\ seed' = seed
  BY DEF filed
<1>3. /\ n.id = round[w].id /\ n.sig = s /\ n.number = round[w].number /\ n.step = "result"
      /\ n.attempts = round[w].attempts /\ n.outcome = outcome /\ ~n.result
  BY <1>0 DEF AsRound, RoundLeads
<1>4. /\ n.number = Attempted(s) + 1 /\ n.number <= n.id /\ n.id <= rounds /\ n.number \in Nat
      /\ \A k \in DOMAIN replays : k[1] = s /\ k[2] = n.number => replays[k].round = n.id
      /\ latest[s] # None => latest[s].number < n.number
      /\ seed[s] # None => seed[s].number < n.number
  BY <1>0, <1>3 DEF Fits, Unconcluded
<1>5. \A k \in DOMAIN replays : k[1] = s => k[2] <= n.number
  <2>1. ASSUME NEW k \in DOMAIN replays, k[1] = s PROVE k[2] <= n.number
    <3>1. k[2] \in Nat
      BY OnFile
    <3>2. k[2] <= Attempted(s) \/ \E v \in Workers : Replayed(v, s, k[2])
      BY <2>1 DEF Tidy, ReplaysFit
    <3>3. CASE \E v \in Workers : Replayed(v, s, k[2])
      <4>1. PICK v \in Workers : Replayed(v, s, k[2])
        BY <3>3
      <4>2. v = w
        BY <4>1, <1>1 DEF Replayed
      <4>3. k[2] = n.number
        BY <4>1, <4>2, <1>3 DEF Replayed
      <4> QED
        BY <4>3, <1>4
    <3> QED
      BY <3>1, <3>2, <3>3, <1>0, <1>4
  <2> QED
    BY <2>1
<1>6. Fits(n)'
  <2>1. Attempted(n.sig)' = n.number /\ Told(n.sig)' = Canonical(outcome)
    BY <1>3, <1>4
  <2>2. /\ n.step \in Unconcluded => n.number = Attempted(n.sig)' + 1
        /\ n.step \in Concluded => n.number = Attempted(n.sig)' /\ Canonical(n.outcome) = Told(n.sig)'
        /\ n.number <= n.id /\ n.id <= rounds'
    BY <1>3, <1>4, <2>1 DEF Unconcluded
  <2>3. \A k \in DOMAIN replays' : k[1] = n.sig /\ k[2] = n.number => replays'[k].round = n.id
    BY <1>2, <1>3, <1>4
  <2>4. ASSUME NEW i \in DOMAIN n.attempts, n.attempts[i].archive
        PROVE  replays'[<<n.sig, n.number, i>>].outcome = n.attempts[i].outcome
    <3>1. i \in DOMAIN round[w].attempts /\ round[w].attempts[i].archive
      BY <1>3, <2>4
    <3>2. replays[<<s, n.number, i>>].outcome = round[w].attempts[i].outcome
      BY <3>1, <1>0, <1>3 DEF Fits
    <3> QED
      BY <1>2, <1>3, <3>2
  <2>5. n.result => results'[<<n.sig, n.number>>].outcome = n.outcome
    BY <1>3, Zenon
  <2>6. /\ n.step # "seed" /\ latest'[n.sig] # None => latest'[n.sig].number < n.number
        /\ seed'[n.sig] # None => seed'[n.sig].number < n.number
    <3>1. latest'[n.sig] = latest[s] /\ seed'[n.sig] = seed[s]
      BY <1>2, <1>3
    <3> QED
      BY <3>1, <1>4
  <2> QED
    BY <2>2, <2>3, <2>4, <2>5, <2>6 DEF Fits
<1>7. \A v \in Workers : WorksOn(v, s)' => v = w /\ round'[v] = n
  BY ONLY RoundsInv, <1>1, Mine, round' = [round EXCEPT ![w] = n], w \in Workers
<1>8. OneWorker(s)' /\ RoundsFit(s)'
  BY <1>6, <1>7, OneRoundFits
<1>9. ReplaysFit(s)'
  BY <1>2, <1>4, <1>5 DEF Tidy, ReplaysFit
<1>10. ResultsFit(s)'
  <2>1. \A k \in DOMAIN results : k[1] = s => k[2] \in Nat /\ k[2] <= Attempted(s)
    BY OnFile DEF Tidy, ResultsFit
  <2> QED
    BY <1>0, <1>2, <2>1 DEF Tidy, ResultsFit
<1>11. LatestFits(s)' /\ SeedFits(s)'
  <2>1. /\ latest[s] # None => latest[s].number \in Nat /\ latest[s].number <= Attempted(s)
        /\ seed[s] # None => seed[s].number \in Nat /\ seed[s].number <= Attempted(s)
    BY OnFile DEF Tidy, LatestFits, SeedFits
  <2>2. LatestFits(s)'
    BY <1>0, <1>2, <2>1 DEF Tidy, LatestFits
  <2>3. SeedFits(s)'
    BY <1>0, <1>2, <2>1 DEF Tidy, SeedFits
  <2> QED
    BY <2>2, <2>3
<1>12. Attempted(s)' <= rounds'
  BY <1>0, <1>3, <1>4
<1> QED
  BY <1>8, <1>9, <1>10, <1>11, <1>12 DEF Tidy

(* A round that is concluded files under the number on record.             *)
LEMMA Filing ==
    ASSUME RoundsInv, QueueInv, PathsInv, NEW w \in Workers, NEW s \in Sigs, Tidy(s),
           WorksOn(w, s), round[w].step \in Concluded
    PROVE  /\ round[w].number = Attempted(s) /\ Canonical(round[w].outcome) = Told(s)
           /\ round[w].number <= round[w].id /\ round[w].id <= rounds
           /\ \A k \in DOMAIN replays :
                 k[1] = s /\ k[2] = round[w].number => replays[k].round = round[w].id
           /\ round[w].result =>
                 /\ <<s, round[w].number>> \in DOMAIN results
                 /\ results[<<s, round[w].number>>].outcome = round[w].outcome
           /\ round[w].step # "seed" /\ latest[s] # None => latest[s].number < round[w].number
           /\ seed[s] # None => seed[s].number < round[w].number
           /\ \A k \in DOMAIN replays : k[1] = s => k[2] <= Attempted(s)
<1>1. /\ round[w] \in Round /\ round[w].sig = s
      /\ Fits(round[w]) /\ RoundLeads(round[w])
  BY InHand
<1>2. \A v \in Workers \ {w} : ~WorksOn(v, s)
  BY InHand
<1>3. \A k \in DOMAIN replays : k[1] = s => k[2] <= Attempted(s)
  BY <1>2 DEF Tidy, ReplaysFit, Replayed, Concluded
<1> QED
  BY <1>1, <1>3 DEF Fits, RoundLeads

(* The best attempt's archive, if there is one, tells the round's outcome. *)
LEMMA BestTells ==
    ASSUME NEW r \in Round, RoundOK(r), RoundLeads(r), r.step \in Concluded
    PROVE  /\ BestArchive(r) # 0 => <<r.sig, r.number, BestArchive(r)>> \in DOMAIN replays
           /\ Fits(r) /\ BestArchive(r) # 0 =>
                 replays[<<r.sig, r.number, BestArchive(r)>>].outcome = r.outcome
<1>1. r.attempts # <<>> /\ AttemptsOK(r.attempts)
  BY DEF RoundOK, Concluded
<1>2. Preferred(r.attempts) \in DOMAIN r.attempts
  BY <1>1, PreferredIsBest
<1>3. r.outcome = r.attempts[Preferred(r.attempts)].outcome
  BY DEF RoundOK
<1>4. BestArchive(r) # 0 =>
          BestArchive(r) = Preferred(r.attempts) /\ r.attempts[Preferred(r.attempts)].archive
  BY DEF BestArchive
<1> QED
  BY <1>2, <1>3, <1>4 DEF RoundLeads, Fits

(* So does the filing of the result.                                       *)
LEMMA OwnResult ==
    ASSUME RoundsInv, QueueInv, PathsInv, NEW w \in Workers, NEW s \in Sigs, Tidy(s),
           WorksOn(w, s), round[w].step = "result",
           NEW ok \in BOOLEAN,
           NEW n, n = AsRound(round[w], "latest", round[w].attempts, round[w].outcome, ok),
           round' = [round EXCEPT ![w] = n],
           NEW new, new.round = round[w].id, new.outcome = round[w].outcome,
           NEW key, key = <<s, round[w].number>>,
           results' = IF ok THEN With(results, key, new) ELSE results,
           queue' = queue, rounds' = rounds, replays' = replays, latest' = latest, seed' = seed
    PROVE  Tidy(s)'
<1>0. /\ round[w] \in Round /\ round[w].sig = s /\ round[w].number \in Nat /\ round[w].id \in Nat
      /\ RoundOK(round[w]) /\ Fits(round[w]) /\ RoundLeads(round[w])
      /\ Attempted(s) \in Nat /\ rounds \in Nat
  BY InHand
<1>1. \A v \in Workers \ {w} : ~WorksOn(v, s)
  BY InHand
<1>2. Attempted(s)' = Attempted(s) /\ Told(s)' = Told(s)
  BY DEF Attempted, Told
<1>3. /\ n.id = round[w].id /\ n.sig = s /\ n.number = round[w].number /\ n.step = "latest"
      /\ n.attempts = round[w].attempts /\ n.outcome = round[w].outcome /\ n.result = ok
  BY <1>0 DEF AsRound
<1>4. /\ n.number = Attempted(s) /\ Canonical(n.outcome) = Told(s)
      /\ n.number <= n.id /\ n.id <= rounds /\ n.number \in Nat
      /\ \A k \in DOMAIN replays : k[1] = s /\ k[2] = n.number => replays[k].round = n.id
      /\ latest[s] # None => latest[s].number < n.number
      /\ seed[s] # None => seed[s].number < n.number
      /\ \A k \in DOMAIN replays : k[1] = s => k[2] <= Attempted(s)
  BY <1>0, <1>3, Filing DEF Concluded
<1>5. /\ key[1] = s /\ key[2] = n.number /\ key = <<n.sig, n.number>>
      /\ \A m : m # n.number => <<s, m>> # key
  BY <1>3
<1>6. /\ \A k \in DOMAIN results : k \in DOMAIN results' /\ (k # key => results'[k] = results[k])
      /\ \A k \in DOMAIN results' : \/ k = key /\ results'[k] = new
                                    \/ k \in DOMAIN results /\ results'[k] = results[k]
      /\ ok => results'[key] = new
  <2>1. CASE ok
    <3>1. results' = With(results, key, new)
      BY <2>1
    <3>2. /\ DOMAIN With(results, key, new) = DOMAIN results \cup {key}
          /\ With(results, key, new)[key] = new
          /\ \A k \in DOMAIN results : k # key => With(results, key, new)[k] = results[k]
      BY DEF With
    <3> QED
      BY <3>1, <3>2
  <2>2. CASE ~ok
    BY <2>2
  <2> QED
    BY <2>1, <2>2
<1>7. Fits(n)'
  <2>1. Attempted(n.sig)' = Attempted(s) /\ Told(n.sig)' = Told(s)
    BY <1>2, <1>3
  <2>2. /\ n.step \in Unconcluded => n.number = Attempted(n.sig)' + 1
        /\ n.step \in Concluded => n.number = Attempted(n.sig)' /\ Canonical(n.outcome) = Told(n.sig)'
        /\ n.number <= n.id /\ n.id <= rounds'
    BY <1>3, <1>4, <2>1 DEF Unconcluded
  <2>3. \A k \in DOMAIN replays' : k[1] = n.sig /\ k[2] = n.number => replays'[k].round = n.id
    BY <1>3, <1>4
  <2>4. ASSUME NEW i \in DOMAIN n.attempts, n.attempts[i].archive
        PROVE  replays'[<<n.sig, n.number, i>>].outcome = n.attempts[i].outcome
    <3>1. i \in DOMAIN round[w].attempts /\ round[w].attempts[i].archive
      BY <1>3, <2>4
    <3>2. replays[<<s, n.number, i>>].outcome = round[w].attempts[i].outcome
      BY <3>1, <1>0, <1>3 DEF Fits
    <3> QED
      BY <1>3, <3>2
  <2>5. ASSUME n.result PROVE results'[<<n.sig, n.number>>].outcome = n.outcome
    <3>1. ok
      BY <1>3, <2>5
    <3>2. results'[key] = new /\ key = <<n.sig, n.number>>
      BY <3>1, <1>5, <1>6
    <3> QED
      BY <3>2, <1>3
  <2>6. /\ n.step # "seed" /\ latest'[n.sig] # None => latest'[n.sig].number < n.number
        /\ seed'[n.sig] # None => seed'[n.sig].number < n.number
    <3>1. latest'[n.sig] = latest[s] /\ seed'[n.sig] = seed[s]
      BY <1>3
    <3> QED
      BY <3>1, <1>4
  <2> QED
    BY <2>2, <2>3, <2>4, <2>5, <2>6 DEF Fits
<1>8. \A v \in Workers : WorksOn(v, s)' => v = w /\ round'[v] = n
  BY ONLY RoundsInv, <1>1, Mine, round' = [round EXCEPT ![w] = n], w \in Workers
<1>9. OneWorker(s)' /\ RoundsFit(s)'
  BY <1>7, <1>8, OneRoundFits
<1>10. ReplaysFit(s)'
  BY <1>2, <1>4 DEF Tidy, ReplaysFit
<1>11. ResultsFit(s)'
  <2>1. ASSUME NEW k \in DOMAIN replays, k[1] = s, <<s, k[2]>> \in DOMAIN results'
        PROVE  results'[<<s, k[2]>>].round = replays[k].round
    <3>1. CASE <<s, k[2]>> = key /\ results'[<<s, k[2]>>] = new
      <4>1. k[2] = n.number
        BY <3>1, <1>5
      <4> QED
        BY <2>1, <3>1, <4>1, <1>3, <1>4
    <3>2. CASE <<s, k[2]>> \in DOMAIN results /\ results'[<<s, k[2]>>] = results[<<s, k[2]>>]
      BY <2>1, <3>2 DEF Tidy, ResultsFit
    <3> QED
      BY <2>1, <3>1, <3>2, <1>6
  <2>2. ASSUME NEW k \in DOMAIN results', k[1] = s
        PROVE  /\ k[2] <= Attempted(s)
               /\ k[2] = Attempted(s) => Canonical(results'[k].outcome) = Told(s)
    <3>1. CASE k = key /\ results'[k] = new
      BY <3>1, <1>3, <1>4, <1>5
    <3>2. CASE k \in DOMAIN results /\ results'[k] = results[k]
      BY <2>2, <3>2 DEF Tidy, ResultsFit
    <3> QED
      BY <3>1, <3>2, <1>6
  <2> QED
    BY <1>2, <2>1, <2>2 DEF ResultsFit
<1>12. LatestFits(s)'
  <2> SUFFICES ASSUME latest[s] # None
               PROVE  /\ latest[s].number <= Attempted(s)
                      /\ latest[s].result =>
                            results'[<<s, latest[s].number>>].outcome = latest[s].outcome
                      /\ latest[s].best # 0 =>
                            replays[<<s, latest[s].number, latest[s].best>>].outcome = latest[s].outcome
    BY <1>2 DEF LatestFits
  <2>1. latest[s].number # n.number
    BY <1>4, OnFile
  <2>2. latest[s].result => results'[<<s, latest[s].number>>] = results[<<s, latest[s].number>>]
    <3>1. <<s, latest[s].number>> # key
      BY <2>1, <1>5
    <3>2. latest[s].result => <<s, latest[s].number>> \in DOMAIN results
      BY DEF PathsInv, LatestLeads
    <3> QED
      BY <3>1, <3>2, <1>6
  <2> QED
    BY <2>2 DEF Tidy, LatestFits
<1>13. SeedFits(s)'
  <2> SUFFICES ASSUME seed[s] # None
               PROVE  /\ seed[s].number <= Attempted(s)
                      /\ seed[s].result =>
                            /\ <<s, seed[s].number>> \in DOMAIN results'
                            /\ seed[s].eligible <=>
                                  results'[<<s, seed[s].number>>].outcome # "failed"
    BY <1>2 DEF SeedFits
  <2>1. seed[s].number # n.number
    BY <1>4, OnFile
  <2>2. /\ seed[s].number <= Attempted(s)
        /\ seed[s].result =>
              /\ <<s, seed[s].number>> \in DOMAIN results
              /\ seed[s].eligible <=> results[<<s, seed[s].number>>].outcome # "failed"
    BY DEF Tidy, SeedFits
  <2>3. seed[s].result =>
            /\ <<s, seed[s].number>> \in DOMAIN results'
            /\ results'[<<s, seed[s].number>>] = results[<<s, seed[s].number>>]
    BY <2>1, <2>2, <1>5, <1>6
  <2> QED
    BY <2>2, <2>3
<1>14. Attempted(s)' <= rounds'
  BY <1>2 DEF Tidy
<1> QED
  BY <1>9, <1>10, <1>11, <1>12, <1>13, <1>14 DEF Tidy

(* So does latest_repro_result.json, which only goes forward.              *)
LEMMA OwnLatest ==
    ASSUME RoundsInv, QueueInv, PathsInv, NEW w \in Workers, NEW s \in Sigs, Tidy(s),
           WorksOn(w, s), round[w].step = "latest",
           NEW ok \in BOOLEAN,
           NEW n, n = AsRound(round[w], "seed", round[w].attempts, round[w].outcome, round[w].result),
           round' = [round EXCEPT ![w] = n],
           NEW l, l = [number |-> round[w].number, outcome |-> round[w].outcome,
                       result |-> round[w].result, best |-> BestArchive(round[w])],
           latest' = IF ok THEN [latest EXCEPT ![s] = l] ELSE latest,
           queue' = queue, rounds' = rounds, replays' = replays, results' = results, seed' = seed
    PROVE  Tidy(s)' /\ (latest[s] # None /\ latest'[s] # latest[s] => latest'[s].number > latest[s].number)
<1>0. /\ round[w] \in Round /\ round[w].sig = s /\ round[w].number \in Nat /\ round[w].id \in Nat
      /\ RoundOK(round[w]) /\ Fits(round[w]) /\ RoundLeads(round[w])
      /\ Attempted(s) \in Nat /\ rounds \in Nat
  BY InHand
<1>1. \A v \in Workers \ {w} : ~WorksOn(v, s)
  BY InHand
<1>2. Attempted(s)' = Attempted(s) /\ Told(s)' = Told(s)
  BY DEF Attempted, Told
<1>3. /\ n.id = round[w].id /\ n.sig = s /\ n.number = round[w].number /\ n.step = "seed"
      /\ n.attempts = round[w].attempts /\ n.outcome = round[w].outcome
      /\ n.result = round[w].result
  BY <1>0 DEF AsRound
<1>4. /\ n.number = Attempted(s) /\ Canonical(n.outcome) = Told(s)
      /\ n.number <= n.id /\ n.id <= rounds /\ n.number \in Nat
      /\ \A k \in DOMAIN replays : k[1] = s /\ k[2] = n.number => replays[k].round = n.id
      /\ latest[s] # None => latest[s].number < n.number
      /\ seed[s] # None => seed[s].number < n.number
      /\ \A k \in DOMAIN replays : k[1] = s => k[2] <= Attempted(s)
  BY <1>0, <1>3, Filing DEF Concluded
<1>5. /\ l.number = n.number /\ l.outcome = n.outcome /\ l.result = n.result
      /\ l.best = BestArchive(round[w])
  BY <1>3
<1>6. latest'[s] = l \/ latest'[s] = latest[s]
  BY DEF PathsInv
<1>7. Fits(n)'
  <2>1. Attempted(n.sig)' = Attempted(s) /\ Told(n.sig)' = Told(s)
    BY <1>2, <1>3
  <2>2. /\ n.step \in Unconcluded => n.number = Attempted(n.sig)' + 1
        /\ n.step \in Concluded => n.number = Attempted(n.sig)' /\ Canonical(n.outcome) = Told(n.sig)'
        /\ n.number <= n.id /\ n.id <= rounds'
    BY <1>3, <1>4, <2>1 DEF Unconcluded
  <2>3. \A k \in DOMAIN replays' : k[1] = n.sig /\ k[2] = n.number => replays'[k].round = n.id
    BY <1>3, <1>4
  <2>4. ASSUME NEW i \in DOMAIN n.attempts, n.attempts[i].archive
        PROVE  replays'[<<n.sig, n.number, i>>].outcome = n.attempts[i].outcome
    <3>1. i \in DOMAIN round[w].attempts /\ round[w].attempts[i].archive
      BY <1>3, <2>4
    <3>2. replays[<<s, n.number, i>>].outcome = round[w].attempts[i].outcome
      BY <3>1, <1>0, <1>3 DEF Fits
    <3> QED
      BY <1>3, <3>2
  <2>5. ASSUME n.result PROVE results'[<<n.sig, n.number>>].outcome = n.outcome
    <3>1. results[<<round[w].sig, round[w].number>>].outcome = round[w].outcome
      BY <1>0, <1>3, <2>5 DEF Fits
    <3> QED
      BY <3>1, <1>0, <1>3
  <2>6. n.step = "seed" /\ (seed'[n.sig] # None => seed'[n.sig].number < n.number)
    BY <1>3, <1>4
  <2> QED
    BY <2>2, <2>3, <2>4, <2>5, <2>6 DEF Fits
<1>8. \A v \in Workers : WorksOn(v, s)' => v = w /\ round'[v] = n
  BY ONLY RoundsInv, <1>1, Mine, round' = [round EXCEPT ![w] = n], w \in Workers
<1>9. OneWorker(s)' /\ RoundsFit(s)'
  BY <1>7, <1>8, OneRoundFits
<1>10. ReplaysFit(s)'
  BY <1>2, <1>4 DEF Tidy, ReplaysFit
<1>11. ResultsFit(s)' /\ SeedFits(s)'
  BY <1>2 DEF Tidy, ResultsFit, SeedFits
<1>12. LatestFits(s)'
  <2>1. CASE latest'[s] = latest[s]
    BY <2>1, <1>2 DEF Tidy, LatestFits
  <2>2. CASE latest'[s] = l
    <3>1. l.number <= Attempted(s)
      BY <1>0, <1>4, <1>5
    <3>2. ASSUME l.result PROVE results[<<s, l.number>>].outcome = l.outcome
      <4>1. results[<<round[w].sig, round[w].number>>].outcome = round[w].outcome
        BY <1>0, <1>3, <1>5, <3>2 DEF Fits
      <4> QED
        BY <4>1, <1>0, <1>3, <1>5
    <3>3. ASSUME l.best # 0 PROVE replays[<<s, l.number, l.best>>].outcome = l.outcome
      <4>1. replays[<<round[w].sig, round[w].number, BestArchive(round[w])>>].outcome = round[w].outcome
        BY <1>0, <1>5, <3>3, BestTells DEF Concluded
      <4> QED
        BY <4>1, <1>0, <1>3, <1>5
    <3> QED
      BY <2>2, <1>2, <3>1, <3>2, <3>3 DEF LatestFits
  <2> QED
    BY <2>1, <2>2, <1>6
<1>13. Attempted(s)' <= rounds'
  BY <1>2 DEF Tidy
<1>14. latest[s] # None /\ latest'[s] # latest[s] => latest'[s].number > latest[s].number
  BY <1>4, <1>5, <1>6, OnFile
<1> QED
  BY <1>9, <1>10, <1>11, <1>12, <1>13, <1>14 DEF Tidy

(* So does latest_minimize_seed.json, and the end of the round with it.    *)
LEMMA OwnSeed ==
    ASSUME RoundsInv, QueueInv, PathsInv, NEW w \in Workers, NEW s \in Sigs, Tidy(s),
           WorksOn(w, s), round[w].step = "seed",
           NEW ok \in BOOLEAN,
           round' = [round EXCEPT ![w] = None],
           NEW d, d = [number |-> round[w].number, eligible |-> Eligible(round[w]),
                       result |-> round[w].result, best |-> BestArchive(round[w])],
           seed' = IF ok THEN [seed EXCEPT ![s] = d] ELSE seed,
           queue' = queue, rounds' = rounds, replays' = replays, results' = results, latest' = latest
    PROVE  Tidy(s)'
<1>0. /\ round[w] \in Round /\ round[w].sig = s /\ round[w].number \in Nat
      /\ RoundOK(round[w]) /\ Attempted(s) \in Nat
  BY InHand
<1>1. \A v \in Workers \ {w} : ~WorksOn(v, s)
  BY InHand
<1>2. Attempted(s)' = Attempted(s) /\ Told(s)' = Told(s)
  BY DEF Attempted, Told
<1>3. /\ round[w].number = Attempted(s)
      /\ round[w].result =>
            /\ <<s, round[w].number>> \in DOMAIN results
            /\ results[<<s, round[w].number>>].outcome = round[w].outcome
      /\ \A k \in DOMAIN replays : k[1] = s => k[2] <= Attempted(s)
  BY <1>0, Filing DEF Concluded
<1>4. \A v \in Workers : WorksOn(v, s)' => v = w /\ round'[v] = None
  BY ONLY RoundsInv, <1>1, Mine, round' = [round EXCEPT ![w] = None], w \in Workers
<1>5. OneWorker(s)' /\ RoundsFit(s)'
  BY <1>4, OneRoundFits
<1>6. ReplaysFit(s)'
  BY <1>2, <1>3 DEF Tidy, ReplaysFit
<1>7. ResultsFit(s)' /\ LatestFits(s)'
  BY <1>2 DEF Tidy, ResultsFit, LatestFits
<1>8. SeedFits(s)'
  <2>1. CASE seed'[s] = seed[s]
    BY <2>1, <1>2 DEF Tidy, SeedFits
  <2>2. CASE seed'[s] = d
    <3>1. d.number = round[w].number /\ d.result = round[w].result /\ d.eligible = Eligible(round[w])
      OBVIOUS
    <3>2. round[w].outcome \in Observed
      <4>1. round[w].attempts # <<>> /\ AttemptsOK(round[w].attempts)
        BY <1>0 DEF RoundOK
      <4>2. round[w].outcome = round[w].attempts[Preferred(round[w].attempts)].outcome
        BY <1>0 DEF RoundOK, Concluded
      <4> QED
        BY <4>1, <4>2, BestIsObserved
    <3>3. Eligible(round[w]) <=> round[w].outcome # "failed"
      BY <3>2 DEF Eligible, Observed
    <3>4. ASSUME d.result
          PROVE  /\ <<s, d.number>> \in DOMAIN results
                 /\ d.eligible <=> results[<<s, d.number>>].outcome # "failed"
      BY <1>3, <3>1, <3>3, <3>4
    <3> QED
      BY <2>2, <1>0, <1>2, <1>3, <3>1, <3>4 DEF SeedFits
  <2> QED
    BY <2>1, <2>2 DEF PathsInv
<1>9. Attempted(s)' <= rounds'
  BY <1>2 DEF Tidy
<1> QED
  BY <1>5, <1>6, <1>7, <1>8, <1>9 DEF Tidy

-----------------------------------------------------------------------------
(* The parts of the invariant, step by step.                               *)
LEMMA Claiming ==
    ASSUME QueueInv, NEW w \in Workers, Claim(w)
    PROVE  \E s \in Sigs :
              /\ Tallied(queue') /\ rounds' = rounds + 1 /\ rounds' \in Nat /\ rounds' <= MaxRounds
              /\ ~Busy(w) /\ UNCHANGED filed
              /\ Attempted(s) \in Nat
              /\ round' = [round EXCEPT ![w] = NewClaim(rounds + 1, s, Attempted(s) + 1)]
              /\ RoundOK(NewClaim(rounds + 1, s, Attempted(s) + 1))
              /\ disturbed' = [disturbed EXCEPT ![s] = disturbed[s] \/ OnArtifact(s) # {}]
<1>0. PICK q \in Rebuilt(queue, Sigs) : \E s \in Offered(q, w) :
         /\ queue' \in Claimed(q, w, s)
         /\ round' = [round EXCEPT ![w] = NewClaim(rounds + 1, s, Number(q, s))]
         /\ disturbed' = [disturbed EXCEPT ![s] = disturbed[s] \/ OnArtifact(s) # {}]
  BY Zenon DEF Claim, NewClaim
<1>1. PICK s \in Offered(q, w) :
         /\ queue' \in Claimed(q, w, s)
         /\ round' = [round EXCEPT ![w] = NewClaim(rounds + 1, s, Number(q, s))]
         /\ disturbed' = [disturbed EXCEPT ![s] = disturbed[s] \/ OnArtifact(s) # {}]
  BY <1>0
<1>2. s \in Sigs /\ Tallied(queue') /\ Number(q, s) = Attempted(s) + 1
  BY <1>1, ClaimKeeps
<1>3. /\ rounds' = rounds + 1 /\ rounds' \in Nat /\ rounds' <= MaxRounds /\ ~Busy(w)
      /\ UNCHANGED filed /\ rounds \in Nat
  BY WorkerAssumption DEF Claim, QueueInv
<1>4. Attempted(s) \in Nat
  BY <1>2 DEF QueueInv, EntryOK, Attempted
<1>5. RoundOK(NewClaim(rounds + 1, s, Attempted(s) + 1))
  BY <1>2, <1>3, <1>4, Starting
<1>6. round' = [round EXCEPT ![w] = NewClaim(rounds + 1, s, Attempted(s) + 1)]
  BY <1>1, <1>2
<1> QED
  BY <1>1, <1>2, <1>3, <1>4, <1>5, <1>6

(* A round in hand is of an artifact there is.                             *)
LEMMA SigInHand ==
    ASSUME RoundsInv, NEW w \in Workers, Busy(w)
    PROVE  RoundOK(round[w]) /\ round[w] \in Round /\ round[w].sig \in Sigs
BY DEF RoundsInv, RoundOK, Round

(* Every step keeps the rounds as they should be.                          *)
LEMMA RoundsNext == RoundsInv /\ QueueInv /\ [Next]_vars => RoundsInv'
<1> SUFFICES ASSUME RoundsInv, QueueInv, [Next]_vars PROVE RoundsInv'
  OBVIOUS
<1>0. \A k \in DOMAIN results : ResultOK(results[k])
  BY DEF RoundsInv
<1>1. ASSUME NEW w \in Workers, Claim(w) PROVE RoundsInv'
  <2>1. PICK s \in Sigs :
           /\ round' = [round EXCEPT ![w] = NewClaim(rounds + 1, s, Attempted(s) + 1)]
           /\ RoundOK(NewClaim(rounds + 1, s, Attempted(s) + 1)) /\ UNCHANGED filed
    BY <1>1, Claiming
  <2>2. results' = results
    BY <2>1 DEF filed
  <2> QED
    BY <2>1, <2>2, <1>0, OneRound
<1>2. ASSUME NEW w \in Workers, Load(w) PROVE RoundsInv'
  <2>1. results' = results
    BY <1>2 DEF Load, filed
  <2> QED
    BY <2>1, <1>0, <1>2, Loading, OneRound
<1>3. ASSUME NEW w \in Workers, LoadFails(w) \/ Die(w) PROVE RoundsInv'
  <2>1. round' = [round EXCEPT ![w] = None] /\ results' = results
    BY <1>3 DEF LoadFails, Die, filed
  <2> QED
    BY <2>1, <1>0, OneRound
<1>4. ASSUME NEW w \in Workers, NEW outcome \in Observed, NEW recorded \in BOOLEAN,
             NEW archived \in BOOLEAN, Replay(w, outcome, recorded, archived)
      PROVE  RoundsInv'
  <2>1. results' = results
    BY <1>4 DEF Replay
  <2> QED
    BY <2>1, <1>0, <1>4, Replaying, OneRound
<1>5. ASSUME NEW w \in Workers, Finish(w) PROVE RoundsInv'
  <2>1. results' = results
    BY <1>5 DEF Finish, filed
  <2> QED
    BY <2>1, <1>0, <1>5, Finishing, OneRound
<1>6. ASSUME NEW w \in Workers, NEW ok \in BOOLEAN, Result(w, ok) PROVE RoundsInv'
  <2>1. /\ RoundOK(NewResult(w, ok)) /\ ResultOK(Filed(w))
        /\ round' = [round EXCEPT ![w] = NewResult(w, ok)]
    BY <1>6, Resulting
  <2>2. results' = IF ok THEN With(results, <<round[w].sig, round[w].number>>, Filed(w)) ELSE results
    BY <1>6 DEF Result, Filed
  <2>3. \A k \in DOMAIN results' : ResultOK(results'[k])
    BY <2>1, <2>2, <1>0 DEF With
  <2> QED
    BY <2>1, <2>3, OneRound
<1>7. ASSUME NEW w \in Workers, NEW ok \in BOOLEAN, Latest(w, ok) PROVE RoundsInv'
  <2>1. results' = results
    BY <1>7 DEF Latest
  <2> QED
    BY <2>1, <1>0, <1>7, Pointing, OneRound
<1>8. ASSUME NEW w \in Workers, NEW ok \in BOOLEAN, Seed(w, ok) PROVE RoundsInv'
  <2>1. round' = [round EXCEPT ![w] = None] /\ results' = results
    BY <1>8 DEF Seed
  <2> QED
    BY <2>1, <1>0, OneRound
<1>9. CASE Tick \/ UNCHANGED vars
  <2>1. round' = round /\ results' = results
    BY <1>9 DEF Tick, vars, filed
  <2> QED
    BY <2>1 DEF RoundsInv, Busy
<1> QED
  BY <1>1, <1>2, <1>3, <1>4, <1>5, <1>6, <1>7, <1>8, <1>9 DEF Next

(* A step that keeps counts and outcomes keeps the queue as it should be.  *)
LEMMA TalliedStays ==
    ASSUME QueueInv, Tallied(queue'), rounds' \in Nat, rounds' <= MaxRounds,
           disturbed' \in [Sigs -> BOOLEAN]
    PROVE  QueueInv' /\ \A s \in Sigs : Attempted(s)' = Attempted(s) /\ Told(s)' = Told(s)
BY DEF QueueInv, Tallied, Attempted, Told

(* Every step keeps the queue as it should be.                             *)
LEMMA QueueNext == RoundsInv /\ QueueInv /\ [Next]_vars => QueueInv'
<1> SUFFICES ASSUME RoundsInv, QueueInv, [Next]_vars PROVE QueueInv'
  OBVIOUS
<1>1. ASSUME NEW w \in Workers, Claim(w) PROVE QueueInv'
  <2>1. PICK s \in Sigs :
           /\ Tallied(queue') /\ rounds' \in Nat /\ rounds' <= MaxRounds
           /\ disturbed' = [disturbed EXCEPT ![s] = disturbed[s] \/ OnArtifact(s) # {}]
    BY <1>1, Claiming
  <2>2. disturbed' \in [Sigs -> BOOLEAN]
    BY <2>1 DEF QueueInv
  <2> QED
    BY <2>1, <2>2, TalliedStays
<1>2. ASSUME NEW w \in Workers, NEW outcome, FinishedWith(w, outcome), Busy(w),
             rounds' = rounds, disturbed' \in [Sigs -> BOOLEAN]
      PROVE  QueueInv'
  <2>1. round[w].sig \in Sigs
    BY <1>2, SigInHand
  <2>2. /\ queue'.entries = [s \in Sigs |-> queue'.entries[s]]
        /\ \A s \in Sigs : EntryOK(queue'.entries[s])
    BY <1>2, <2>1, FinishKeeps
  <2> QED
    BY <1>2, <2>2 DEF QueueInv
<1>3. ASSUME NEW w \in Workers, LoadFails(w) PROVE QueueInv'
  <2>1. FinishedWith(w, "failed") /\ Busy(w) /\ rounds' = rounds /\ disturbed' \in [Sigs -> BOOLEAN]
    BY <1>3 DEF LoadFails, At, QueueInv
  <2> QED
    BY <2>1, <1>2
<1>4. ASSUME NEW w \in Workers, Finish(w) PROVE QueueInv'
  <2>1. /\ FinishedWith(w, Verdict(w)) /\ Busy(w) /\ rounds' = rounds
        /\ disturbed' = [disturbed EXCEPT ![round[w].sig] =
                            disturbed[round[w].sig] \/ ~Owns(queue, w, round[w].sig)]
    BY <1>4 DEF Finish, At, Verdict
  <2>2. disturbed' \in [Sigs -> BOOLEAN]
    BY <2>1 DEF QueueInv
  <2> QED
    BY <2>1, <2>2, <1>2
<1>5. ASSUME NEW w \in Workers, Die(w) PROVE QueueInv'
  <2>1. /\ queue' = queue /\ rounds' = rounds
        /\ disturbed' = [disturbed EXCEPT ![round[w].sig] = disturbed[round[w].sig] \/ Unfinished(w)]
    BY <1>5 DEF Die
  <2>2. disturbed' \in [Sigs -> BOOLEAN]
    BY <2>1 DEF QueueInv
  <2> QED
    BY <2>1, <2>2 DEF QueueInv
<1>6. CASE Tick
  <2>1. rounds' = rounds /\ disturbed' = disturbed
    BY <1>6 DEF Tick
  <2> QED
    BY <1>6, <2>1, TickKeeps, TalliedStays DEF QueueInv
<1>7. CASE queue' = queue /\ rounds' = rounds /\ disturbed' = disturbed
  BY <1>7 DEF QueueInv
<1>8. ASSUME NEW w \in Workers, NEW outcome \in Observed, NEW recorded \in BOOLEAN,
             NEW archived \in BOOLEAN, Replay(w, outcome, recorded, archived)
      PROVE  QueueInv'
  BY <1>7, <1>8 DEF Replay
<1>9. ASSUME NEW w \in Workers, Load(w) \/ \E ok \in BOOLEAN : Result(w, ok) \/ Latest(w, ok) \/ Seed(w, ok)
      PROVE  QueueInv'
  BY <1>7, <1>9 DEF Load, Result, Latest, Seed
<1>10. CASE UNCHANGED vars
  BY <1>7, <1>10 DEF vars
<1> QED
  BY <1>1, <1>3, <1>4, <1>5, <1>6, <1>8, <1>9, <1>10 DEF Next

(* Files are only added, so paths that lead somewhere still do.            *)
LEMMA PathsStay ==
    ASSUME RoundsInv, PathsInv, NEW w \in Workers, NEW n,
           round' = [round EXCEPT ![w] = n], n # None => RoundLeads(n)',
           DOMAIN replays \subseteq DOMAIN replays', DOMAIN replays' \subseteq Sigs \X Nat \X Nat,
           DOMAIN results \subseteq DOMAIN results', DOMAIN results' \subseteq Sigs \X Nat,
           latest' = [s \in Sigs |-> latest'[s]], seed' = [s \in Sigs |-> seed'[s]],
           \A s \in Sigs : latest'[s] = latest[s] \/ LatestLeads(s)',
           \A s \in Sigs : seed'[s] = seed[s] \/ seed'[s].number \in Nat
    PROVE  PathsInv'
<1>1. ASSUME NEW v \in Workers, Busy(v)' PROVE RoundLeads(round[v])'
  <2>1. CASE v = w
    <3>1. round'[v] = n /\ n # None
      BY <1>1, <2>1 DEF RoundsInv, Busy
    <3> QED
      BY <3>1
  <2>2. CASE v # w
    <3>1. round'[v] = round[v] /\ Busy(v)
      BY <1>1, <2>2 DEF RoundsInv, Busy
    <3>2. RoundLeads(round[v])
      BY <3>1 DEF PathsInv
    <3> QED
      BY <3>1, <3>2 DEF RoundLeads
  <2> QED
    BY <2>1, <2>2
<1>2. ASSUME NEW s \in Sigs PROVE LatestLeads(s)'
  <2>1. CASE latest'[s] = latest[s]
    BY <2>1 DEF PathsInv, LatestLeads
  <2> QED
    BY <2>1
<1>3. \A s \in Sigs : seed'[s] # None => seed'[s].number \in Nat
  BY DEF PathsInv
<1> QED
  BY <1>1, <1>2, <1>3 DEF PathsInv

(* Every step keeps paths leading to files.                                *)
LEMMA PathsNext == RoundsInv /\ QueueInv /\ PathsInv /\ [Next]_vars => PathsInv'
<1> SUFFICES ASSUME RoundsInv, QueueInv, PathsInv, [Next]_vars PROVE PathsInv'
  OBVIOUS
<1>0. ASSUME NEW w \in Workers, NEW n, round' = [round EXCEPT ![w] = n], n # None => RoundLeads(n),
             replays' = replays, results' = results, latest' = latest, seed' = seed
      PROVE  PathsInv'
  <2>1. n # None => RoundLeads(n)'
    BY <1>0 DEF RoundLeads
  <2> QED
    BY <1>0, <2>1, PathsStay DEF PathsInv
<1>1. ASSUME NEW w \in Workers, Claim(w) PROVE PathsInv'
  <2>1. PICK s \in Sigs :
           /\ round' = [round EXCEPT ![w] = NewClaim(rounds + 1, s, Attempted(s) + 1)]
           /\ UNCHANGED filed
    BY <1>1, Claiming
  <2> DEFINE n == NewClaim(rounds + 1, s, Attempted(s) + 1)
  <2>2. n.attempts = <<>> /\ n.result = FALSE
    BY DEF NewClaim
  <2>3. RoundLeads(n)
    BY <2>2 DEF RoundLeads
  <2> HIDE DEF n
  <2> QED
    BY <1>0, <2>1, <2>3 DEF filed, n
<1>2. ASSUME NEW w \in Workers, Load(w) PROVE PathsInv'
  <2>1. round' = [round EXCEPT ![w] = New(w, "replay")] /\ UNCHANGED filed
    BY <1>2, Loading DEF Load
  <2>2. RoundLeads(round[w]) /\ round[w].step = "load"
    BY <1>2 DEF Load, At, PathsInv
  <2> DEFINE n == New(w, "replay")
  <2>3. /\ n.step = "replay" /\ n.sig = round[w].sig /\ n.number = round[w].number
        /\ n.attempts = round[w].attempts /\ n.result = round[w].result
    BY DEF New, AsRound
  <2>4. RoundLeads(n)
    BY <2>2, <2>3 DEF RoundLeads
  <2> HIDE DEF n
  <2> QED
    BY <1>0, <2>1, <2>4 DEF filed, n
<1>3. ASSUME NEW w \in Workers, LoadFails(w) \/ Die(w) PROVE PathsInv'
  <2>1. round' = [round EXCEPT ![w] = None] /\ UNCHANGED filed
    BY <1>3 DEF LoadFails, Die
  <2> QED
    BY <1>0, <2>1 DEF filed
<1>4. ASSUME NEW w \in Workers, NEW outcome \in Observed, NEW recorded \in BOOLEAN,
             NEW archived \in BOOLEAN, Replay(w, outcome, recorded, archived)
      PROVE  PathsInv'
  <2> DEFINE n == NewReplay(w, outcome, archived)
             a == Tried(w, outcome, archived)
             key == <<round[w].sig, round[w].number, Len(a)>>
             old == round[w].attempts
             x == [outcome |-> outcome, archive |-> archived]
  <2>1. round' = [round EXCEPT ![w] = n] /\ RoundOK(round[w]) /\ round[w] \in Round
    BY <1>4, Replaying DEF RoundOK
  <2>2. /\ replays' = IF archived THEN With(replays, key, [round |-> round[w].id, outcome |-> outcome])
                      ELSE replays
        /\ results' = results /\ latest' = latest /\ seed' = seed /\ round[w].step = "replay" /\ Busy(w)
    BY <1>4 DEF Replay, At, Tried
  <2>3. RoundLeads(round[w])
    BY <2>2 DEF PathsInv
  <2>4. /\ n.step \in {"replay", "finish"} /\ n.sig = round[w].sig /\ n.number = round[w].number
        /\ n.attempts = a /\ n.result = round[w].result
    BY DEF NewReplay, AsRound
  <2>5. old \in Seq(Attempt) /\ a = Append(old, x) /\ x.archive = archived
    BY <2>1 DEF RoundOK, AttemptsOK, Tried, ArchivePath
  <2> HIDE DEF x, a, old
  <2>6. /\ DOMAIN a = 1 .. Len(a) /\ Len(a) \in Nat /\ DOMAIN old = 1 .. Len(old)
        /\ Len(a) = Len(old) + 1 /\ Len(old) \in Nat /\ a[Len(a)] = x
        /\ \A i \in 1 .. Len(old) : a[i] = old[i]
    BY <2>5
  <2>7. key \in Sigs \X Nat \X Nat
    BY <2>1, <2>6 DEF Round
  <2>8. /\ DOMAIN replays \subseteq DOMAIN replays' /\ DOMAIN replays' \subseteq DOMAIN replays \cup {key}
        /\ archived => key \in DOMAIN replays'
    BY <2>2 DEF With
  <2>9. ASSUME NEW i \in DOMAIN a, a[i].archive
        PROVE  <<round[w].sig, round[w].number, i>> \in DOMAIN replays'
    <3>1. CASE i = Len(a)
      BY <2>5, <2>6, <2>8, <2>9, <3>1
    <3>2. CASE i # Len(a)
      <4>1. i \in DOMAIN old /\ old[i].archive
        BY <2>6, <2>9, <3>2
      <4>2. <<round[w].sig, round[w].number, i>> \in DOMAIN replays
        BY <4>1, <2>3 DEF RoundLeads, old
      <4> QED
        BY <4>2, <2>8
    <3> QED
      BY <3>1, <3>2
  <2>10. ~round[w].result
    BY <2>2, <2>3 DEF RoundLeads
  <2>11. SUFFICES ASSUME NEW m, m = n PROVE PathsInv'
    OBVIOUS
  <2> HIDE DEF n
  <2>12. RoundLeads(m)'
    <3>1. m.step # "load" /\ ~m.result
      BY <2>4, <2>10, <2>11
    <3>2. ASSUME NEW i \in DOMAIN m.attempts, m.attempts[i].archive
          PROVE  <<m.sig, m.number, i>> \in DOMAIN replays'
      <4>1. i \in DOMAIN a /\ a[i].archive
        BY <2>4, <2>11, <3>2
      <4>2. <<round[w].sig, round[w].number, i>> \in DOMAIN replays'
        BY <4>1, <2>9
      <4> QED
        BY <4>2, <2>4, <2>11
    <3> QED
      BY <3>1, <3>2 DEF RoundLeads
  <2>13. DOMAIN replays' \subseteq Sigs \X Nat \X Nat
    BY <2>7, <2>8 DEF PathsInv
  <2>14. round' = [round EXCEPT ![w] = m]
    BY <2>1, <2>11
  <2> QED
    BY <2>2, <2>8, <2>12, <2>13, <2>14, PathsStay DEF PathsInv
<1>5. ASSUME NEW w \in Workers, Finish(w) PROVE PathsInv'
  <2>1. round' = [round EXCEPT ![w] = NewFinish(w)] /\ UNCHANGED filed
    BY <1>5, Finishing DEF Finish
  <2>2. RoundLeads(round[w]) /\ round[w].step = "finish"
    BY <1>5 DEF Finish, At, PathsInv
  <2> DEFINE n == NewFinish(w)
  <2>3. /\ n.step = "result" /\ n.sig = round[w].sig /\ n.number = round[w].number
        /\ n.attempts = round[w].attempts /\ n.result = round[w].result
    BY DEF NewFinish, AsRound
  <2>4. RoundLeads(n)
    BY <2>2, <2>3 DEF RoundLeads
  <2> HIDE DEF n
  <2> QED
    BY <1>0, <2>1, <2>4 DEF filed, n
<1>6. ASSUME NEW w \in Workers, NEW ok \in BOOLEAN, Result(w, ok) PROVE PathsInv'
  <2> DEFINE n == NewResult(w, ok)
             key == <<round[w].sig, round[w].number>>
  <2>1. round' = [round EXCEPT ![w] = n] /\ RoundOK(round[w]) /\ round[w] \in Round
    BY <1>6, Resulting DEF RoundOK
  <2>2. /\ results' = IF ok THEN With(results, key, Filed(w)) ELSE results
        /\ replays' = replays /\ latest' = latest /\ seed' = seed /\ Busy(w)
    BY <1>6 DEF Result, At, Filed
  <2>3. RoundLeads(round[w])
    BY <2>2 DEF PathsInv
  <2>4. /\ n.step = "latest" /\ n.sig = round[w].sig /\ n.number = round[w].number
        /\ n.attempts = round[w].attempts /\ n.result = ok
    BY DEF NewResult, AsRound
  <2>5. key \in Sigs \X Nat
    BY <2>1 DEF Round
  <2>6. /\ DOMAIN results \subseteq DOMAIN results' /\ DOMAIN results' \subseteq DOMAIN results \cup {key}
        /\ ok => key \in DOMAIN results'
    BY <2>2 DEF With
  <2>7. SUFFICES ASSUME NEW m, m = n PROVE PathsInv'
    OBVIOUS
  <2> HIDE DEF n
  <2>8. RoundLeads(m)'
    <3>1. ASSUME NEW i \in DOMAIN m.attempts, m.attempts[i].archive
          PROVE  <<m.sig, m.number, i>> \in DOMAIN replays'
      <4>1. i \in DOMAIN round[w].attempts /\ round[w].attempts[i].archive
        BY <2>4, <2>7, <3>1
      <4>2. <<round[w].sig, round[w].number, i>> \in DOMAIN replays
        BY <4>1, <2>3 DEF RoundLeads
      <4> QED
        BY <4>2, <2>2, <2>4, <2>7
    <3>2. ASSUME m.result PROVE <<m.sig, m.number>> \in DOMAIN results'
      BY <3>2, <2>4, <2>6, <2>7
    <3>3. m.step = "latest"
      BY <2>4, <2>7
    <3> QED
      BY <3>1, <3>2, <3>3 DEF RoundLeads
  <2>9. DOMAIN results' \subseteq Sigs \X Nat
    BY <2>5, <2>6 DEF PathsInv
  <2>10. round' = [round EXCEPT ![w] = m]
    BY <2>1, <2>7
  <2> QED
    BY <2>2, <2>6, <2>8, <2>9, <2>10, PathsStay DEF PathsInv
<1>7. ASSUME NEW w \in Workers, NEW ok \in BOOLEAN, Latest(w, ok) PROVE PathsInv'
  <2> DEFINE n == New(w, "seed")
             r == round[w]
             l == [number |-> r.number, outcome |-> r.outcome, result |-> r.result, best |-> BestArchive(r)]
  <2>1. round' = [round EXCEPT ![w] = n] /\ RoundOK(r) /\ r \in Round
    BY <1>7, Pointing DEF RoundOK
  <2>2. /\ latest' = IF ok THEN [latest EXCEPT ![r.sig] = l] ELSE latest
        /\ replays' = replays /\ results' = results /\ seed' = seed /\ Busy(w) /\ r.step = "latest"
    BY <1>7 DEF Latest, At
  <2>3. RoundLeads(r)
    BY <2>2 DEF PathsInv
  <2>4. /\ n.step = "seed" /\ n.sig = r.sig /\ n.number = r.number
        /\ n.attempts = r.attempts /\ n.result = r.result
    BY DEF New, AsRound
  <2>5. RoundLeads(n)
    BY <2>3, <2>4, <2>2 DEF RoundLeads
  <2>6. /\ l.number \in Nat /\ l.result => <<r.sig, l.number>> \in DOMAIN results
        /\ l.best # 0 => <<r.sig, l.number, l.best>> \in DOMAIN replays
    BY <2>1, <2>2, <2>3, BestTells DEF RoundLeads, Round, Concluded
  <2>7. l.number \in Nat
    BY <2>1 DEF Round
  <2>8. ASSUME NEW s \in Sigs, latest'[s] # latest[s]
        PROVE  s = r.sig /\ latest'[s] = l
    BY <2>2, <2>8 DEF PathsInv
  <2> HIDE DEF l
  <2>9. ASSUME NEW s \in Sigs PROVE latest'[s] = latest[s] \/ LatestLeads(s)'
    <3>1. CASE latest'[s] # latest[s]
      <4>1. s = r.sig /\ latest'[s] = l
        BY <2>8, <3>1
      <4> QED
        BY <4>1, <2>2, <2>6, <2>7 DEF LatestLeads
    <3> QED
      BY <3>1
  <2>10. SUFFICES ASSUME NEW m, m = n PROVE PathsInv'
    OBVIOUS
  <2> HIDE DEF n
  <2>11. RoundLeads(m)'
    BY <2>2, <2>5, <2>10 DEF RoundLeads
  <2>12. round' = [round EXCEPT ![w] = m]
    BY <2>1, <2>10
  <2>13. latest' = [s \in Sigs |-> latest'[s]] /\ seed' = [s \in Sigs |-> seed'[s]]
    BY <2>2 DEF PathsInv
  <2> QED
    BY <2>2, <2>9, <2>11, <2>12, <2>13, PathsStay DEF PathsInv
<1>8. ASSUME NEW w \in Workers, NEW ok \in BOOLEAN, Seed(w, ok) PROVE PathsInv'
  <2> DEFINE r == round[w]
             d == [number |-> r.number, eligible |-> Eligible(r), result |-> r.result, best |-> BestArchive(r)]
  <2>1. /\ seed' = IF ok THEN [seed EXCEPT ![r.sig] = d] ELSE seed
        /\ round' = [round EXCEPT ![w] = None]
        /\ replays' = replays /\ results' = results /\ latest' = latest /\ Busy(w)
    BY <1>8 DEF Seed, At
  <2>2. d.number \in Nat
    BY <2>1, SigInHand DEF Round
  <2> HIDE DEF d
  <2>3. \A s \in Sigs : seed'[s] = seed[s] \/ seed'[s].number \in Nat
    BY <2>1, <2>2 DEF PathsInv
  <2>4. latest' = [s \in Sigs |-> latest'[s]] /\ seed' = [s \in Sigs |-> seed'[s]]
    BY <2>1 DEF PathsInv
  <2> QED
    BY <2>1, <2>3, <2>4, PathsStay DEF PathsInv
<1>9. CASE Tick \/ UNCHANGED vars
  <2>1. round' = round /\ UNCHANGED filed
    BY <1>9 DEF Tick, vars
  <2> QED
    BY <2>1 DEF PathsInv, filed, Busy, RoundLeads, LatestLeads
<1> QED
  BY <1>1, <1>2, <1>3, <1>4, <1>5, <1>6, <1>7, <1>8, <1>9 DEF Next

(* A worker's step on one artifact: its own round, and files of its own.   *)
Adds(new, old, s) == new = old \/ \E key, value : key[1] = s /\ new = With(old, key, value)

Elsewhere(w, s, n) ==
    /\ Busy(w) => round[w].sig = s
    /\ n # None => n.sig = s
    /\ round' = [round EXCEPT ![w] = n]
    /\ \A t \in Sigs \ {s} : Attempted(t)' = Attempted(t) /\ Told(t)' = Told(t)
    /\ rounds' \in Nat /\ rounds' >= rounds
    /\ Adds(replays', replays, s) /\ Adds(results', results, s)
    /\ \A t \in Sigs \ {s} : latest'[t] = latest[t] /\ seed'[t] = seed[t]

(* It leaves the other artifacts as they are, and so as tidy as they are.  *)
LEMMA OthersStay ==
    ASSUME RoundsInv, NEW w \in Workers, NEW s0 \in Sigs, NEW n, Elsewhere(w, s0, n),
           NEW s \in Sigs \ {s0}
    PROVE  Untouched(s)
<1>1. ASSUME NEW v \in Workers
      PROVE  /\ WorksOn(v, s)' <=> WorksOn(v, s)
             /\ WorksOn(v, s) => round'[v] = round[v]
  <2>1. CASE v = w
    <3>1. round'[v] = n
      BY <2>1 DEF RoundsInv, Elsewhere
    <3> QED
      BY <2>1, <3>1 DEF WorksOn, Busy, Elsewhere
  <2>2. CASE v # w
    <3>1. round'[v] = round[v]
      BY <2>2 DEF RoundsInv, Elsewhere
    <3> QED
      BY <3>1 DEF WorksOn, Busy
  <2> QED
    BY <2>1, <2>2
<1>2. /\ \A k \in DOMAIN replays : k[1] = s => k \in DOMAIN replays' /\ replays'[k] = replays[k]
      /\ \A k \in DOMAIN replays' : k[1] = s => k \in DOMAIN replays
  <2>1. CASE replays' = replays
    BY <2>1
  <2>2. CASE \E key, value : key[1] = s0 /\ replays' = With(replays, key, value)
    <3>1. PICK key, value : key[1] = s0 /\ replays' = With(replays, key, value)
      BY <2>2
    <3> QED
      BY <3>1 DEF With
  <2> QED
    BY <2>1, <2>2 DEF Elsewhere, Adds
<1>3. /\ \A k \in DOMAIN results : k[1] = s => k \in DOMAIN results' /\ results'[k] = results[k]
      /\ \A k \in DOMAIN results' : k[1] = s => k \in DOMAIN results
  <2>1. CASE results' = results
    BY <2>1
  <2>2. CASE \E key, value : key[1] = s0 /\ results' = With(results, key, value)
    <3>1. PICK key, value : key[1] = s0 /\ results' = With(results, key, value)
      BY <2>2
    <3> QED
      BY <3>1 DEF With
  <2> QED
    BY <2>1, <2>2 DEF Elsewhere, Adds
<1> QED
  BY <1>1, <1>2, <1>3 DEF Untouched, Elsewhere

(* If its own artifact stays tidy, a worker's step leaves all of them      *)
(* tidy.                                                                   *)
LEMMA TidyAll ==
    ASSUME RoundsInv, QueueInv, PathsInv, TidyInv, NEW w \in Workers, NEW s0 \in Sigs,
           NEW n, Elsewhere(w, s0, n),
           \A s \in Sigs \ {s0} : disturbed'[s] = disturbed[s],
           ~disturbed'[s0] => Tidy(s0)'
    PROVE  TidyInv'
<1>1. ASSUME NEW s \in Sigs, ~disturbed'[s] PROVE Tidy(s)'
  <2>1. CASE s = s0
    BY <1>1, <2>1
  <2>2. CASE s # s0
    <3>1. Tidy(s)
      BY <1>1, <2>2 DEF TidyInv
    <3>2. Untouched(s)
      BY <2>2, OthersStay
    <3> QED
      BY <3>1, <3>2, TidyUntouched
  <2> QED
    BY <2>1, <2>2
<1> QED
  BY <1>1 DEF TidyInv

(* A step disturbs no artifact but its own.                                *)
LEMMA NotDisturbed ==
    ASSUME QueueInv, NEW s0 \in Sigs, NEW b,
           disturbed' = [disturbed EXCEPT ![s0] = disturbed[s0] \/ b]
    PROVE  /\ ~disturbed'[s0] => ~disturbed[s0] /\ ~b
           /\ \A s \in Sigs \ {s0} : disturbed'[s] = disturbed[s]
BY DEF QueueInv

(* Every step leaves artifacts whose rounds are undisturbed tidy.          *)
LEMMA TidyNext == IInv /\ [Next]_vars => TidyInv'
<1> SUFFICES ASSUME IInv, [Next]_vars PROVE TidyInv'
  OBVIOUS
<1> USE DEF IInv
<1>0. rounds \in Nat
  BY DEF QueueInv
<1>1. ASSUME NEW w \in Workers, Claim(w) PROVE TidyInv'
  <2>1. PICK s0 \in Sigs :
           /\ Tallied(queue') /\ rounds' = rounds + 1
           /\ ~Busy(w) /\ UNCHANGED filed
           /\ Attempted(s0) \in Nat
           /\ round' = [round EXCEPT ![w] = NewClaim(rounds + 1, s0, Attempted(s0) + 1)]
           /\ disturbed' = [disturbed EXCEPT ![s0] = disturbed[s0] \/ OnArtifact(s0) # {}]
    BY <1>1, Claiming
  <2> SUFFICES ASSUME NEW n, n = NewClaim(rounds + 1, s0, Attempted(s0) + 1) PROVE TidyInv'
    OBVIOUS
  <2>2. \A s \in Sigs : Attempted(s)' = Attempted(s) /\ Told(s)' = Told(s)
    BY <2>1 DEF Tallied, Attempted, Told
  <2>3. /\ replays' = replays /\ results' = results /\ latest' = latest /\ seed' = seed
        /\ n.sig = s0 /\ round' = [round EXCEPT ![w] = n]
    BY <2>1 DEF filed, NewClaim
  <2>4. ASSUME ~disturbed'[s0] PROVE Tidy(s0)'
    <3>1. ~disturbed[s0] /\ OnArtifact(s0) = {}
      BY <2>1, <2>4, NotDisturbed
    <3>2. Tidy(s0) /\ \A v \in Workers : ~WorksOn(v, s0)
      BY <3>1 DEF TidyInv, OnArtifact, WorksOn
    <3> QED
      BY <2>1, <2>2, <2>3, <3>2, OwnClaim
  <2>5. Elsewhere(w, s0, n)
    BY <2>1, <2>2, <2>3, <1>0 DEF Elsewhere, Adds
  <2>6. \A s \in Sigs \ {s0} : disturbed'[s] = disturbed[s]
    BY <2>1, NotDisturbed
  <2> QED
    BY <2>4, <2>5, <2>6, TidyAll
<1>2. ASSUME NEW w \in Workers, Load(w) PROVE TidyInv'
  <2>1. /\ round' = [round EXCEPT ![w] = New(w, "replay")]
        /\ queue' = queue /\ rounds' = rounds /\ UNCHANGED filed /\ disturbed' = disturbed
        /\ Busy(w) /\ round[w].step = "load"
    BY <1>2, Loading DEF Load, At
  <2>2. PICK s0 \in Sigs : s0 = round[w].sig
    BY <2>1, SigInHand
  <2> SUFFICES ASSUME NEW n, n = New(w, "replay") PROVE TidyInv'
    OBVIOUS
  <2>3. /\ replays' = replays /\ results' = results /\ latest' = latest /\ seed' = seed
        /\ n.sig = s0 /\ round' = [round EXCEPT ![w] = n] /\ WorksOn(w, s0)
    BY <2>1, <2>2 DEF filed, New, AsRound, WorksOn
  <2>4. \A s \in Sigs : Attempted(s)' = Attempted(s) /\ Told(s)' = Told(s)
    BY <2>1 DEF Attempted, Told
  <2>5. ASSUME ~disturbed'[s0] PROVE Tidy(s0)'
    <3>1. Tidy(s0)
      BY <2>1, <2>5 DEF TidyInv
    <3>2. n = AsRound(round[w], "replay", round[w].attempts, round[w].outcome, round[w].result)
      BY DEF New
    <3> QED
      BY <2>1, <2>3, <3>1, <3>2, OwnLoad
  <2>6. Elsewhere(w, s0, n)
    BY <2>1, <2>2, <2>3, <2>4, <1>0 DEF Elsewhere, Adds
  <2> QED
    BY <2>1, <2>5, <2>6, TidyAll
<1>3. ASSUME NEW w \in Workers, LoadFails(w) PROVE TidyInv'
  <2>1. /\ round' = [round EXCEPT ![w] = None] /\ FinishedWith(w, "failed")
        /\ rounds' = rounds /\ UNCHANGED filed /\ disturbed' = disturbed
        /\ Busy(w) /\ round[w].step = "load"
    BY <1>3 DEF LoadFails, At
  <2>2. PICK s0 \in Sigs : s0 = round[w].sig
    BY <2>1, SigInHand
  <2>3. /\ replays' = replays /\ results' = results /\ latest' = latest /\ seed' = seed
        /\ WorksOn(w, s0)
    BY <2>1, <2>2 DEF filed, WorksOn
  <2>4. /\ \A s \in Sigs \ {s0} : Attempted(s)' = Attempted(s) /\ Told(s)' = Told(s)
        /\ \/ queue' = queue
           \/ Attempted(s0) < AttemptsCap => Attempted(s0)' = Attempted(s0) + 1
    BY <2>1, <2>2, FinishKeeps
  <2>5. ASSUME ~disturbed'[s0] PROVE Tidy(s0)'
    <3>1. Tidy(s0)
      BY <2>1, <2>5 DEF TidyInv
    <3>2. /\ Fits(round[w]) /\ Attempted(s0) \in Nat /\ round[w].id \in Nat
          /\ round[w].number \in Nat /\ round[w].sig = s0
      BY <2>3, <3>1, InHand
    <3>3. Attempted(s0) < AttemptsCap
      BY <2>1, <3>2, <1>0, QueueAssumption, WorkerAssumption DEF Fits, Unconcluded, QueueInv
    <3>4. CASE queue' = queue
      BY <2>1, <2>3, <3>1, <3>4, OwnEnd
    <3>5. CASE Attempted(s0)' = Attempted(s0) + 1
      BY <2>1, <2>3, <3>1, <3>5, OwnFailure
    <3> QED
      BY <2>4, <3>3, <3>4, <3>5
  <2>6. Elsewhere(w, s0, None)
    BY <2>1, <2>2, <2>3, <2>4, <1>0 DEF Elsewhere, Adds
  <2> QED
    BY <2>1, <2>5, <2>6, TidyAll
<1>4. ASSUME NEW w \in Workers, NEW outcome \in Observed, NEW recorded \in BOOLEAN,
             NEW archived \in BOOLEAN, Replay(w, outcome, recorded, archived)
      PROVE  TidyInv'
  <2> DEFINE a == Tried(w, outcome, archived)
             key == <<round[w].sig, round[w].number, Len(a)>>
             seen == [round |-> round[w].id, outcome |-> outcome]
             step == IF Enough(a) THEN "finish" ELSE "replay"
  <2>1. /\ round' = [round EXCEPT ![w] = NewReplay(w, outcome, archived)]
        /\ RoundOK(NewReplay(w, outcome, archived))
    BY <1>4, Replaying
  <2>2. /\ replays' = IF archived THEN With(replays, key, seen) ELSE replays
        /\ queue' = queue /\ rounds' = rounds /\ results' = results /\ latest' = latest
        /\ seed' = seed /\ disturbed' = disturbed /\ Busy(w) /\ round[w].step = "replay"
    BY <1>4 DEF Replay, At, Tried
  <2>3. PICK s0 \in Sigs : s0 = round[w].sig
    BY <2>2, SigInHand
  <2> SUFFICES ASSUME NEW n, n = NewReplay(w, outcome, archived) PROVE TidyInv'
    OBVIOUS
  <2>4. /\ n.sig = s0 /\ round' = [round EXCEPT ![w] = n] /\ WorksOn(w, s0) /\ n # None
    BY <2>1, <2>2, <2>3, WorkerAssumption DEF NewReplay, AsRound, WorksOn, RoundOK
  <2>5. \A s \in Sigs : Attempted(s)' = Attempted(s) /\ Told(s)' = Told(s)
    BY <2>2 DEF Attempted, Told
  <2>6. ASSUME ~disturbed'[s0] PROVE Tidy(s0)'
    <3>1. Tidy(s0)
      BY <2>2, <2>6 DEF TidyInv
    <3>2. n = AsRound(round[w], step, a, round[w].outcome, round[w].result)
      BY DEF NewReplay
    <3>3. a = Append(round[w].attempts, [outcome |-> outcome, archive |-> archived])
      BY DEF Tried, ArchivePath
    <3>4. step \in {"replay", "finish"}
      OBVIOUS
    <3>5. key = <<s0, round[w].number, Len(a)>> /\ seen = [round |-> round[w].id, outcome |-> outcome]
      BY <2>3
    <3> HIDE DEF a, key, seen, step
    <3> QED
      BY <2>2, <2>4, <3>1, <3>2, <3>3, <3>4, <3>5, OwnReplay
  <2>7. Elsewhere(w, s0, n)
    <3>1. key[1] = s0
      BY <2>3
    <3> HIDE DEF key, seen
    <3>2. Adds(replays', replays, s0)
      BY <2>2, <3>1 DEF Adds
    <3> QED
      BY <2>2, <2>3, <2>4, <2>5, <3>2, <1>0 DEF Elsewhere, Adds
  <2> QED
    BY <2>2, <2>6, <2>7, TidyAll
<1>5. ASSUME NEW w \in Workers, Finish(w) PROVE TidyInv'
  <2>1. round' = [round EXCEPT ![w] = NewFinish(w)]
    BY <1>5, Finishing
  <2>2. /\ FinishedWith(w, Verdict(w)) /\ rounds' = rounds /\ UNCHANGED filed
        /\ disturbed' = [disturbed EXCEPT ![round[w].sig] =
                            disturbed[round[w].sig] \/ ~Owns(queue, w, round[w].sig)]
        /\ Busy(w) /\ round[w].step = "finish"
    BY <1>5 DEF Finish, At, Verdict
  <2>3. PICK s0 \in Sigs : s0 = round[w].sig
    BY <2>2, SigInHand
  <2> SUFFICES ASSUME NEW n, n = NewFinish(w) PROVE TidyInv'
    OBVIOUS
  <2>4. /\ replays' = replays /\ results' = results /\ latest' = latest /\ seed' = seed
        /\ n.sig = s0 /\ round' = [round EXCEPT ![w] = n] /\ WorksOn(w, s0)
    BY <2>1, <2>2, <2>3 DEF filed, NewFinish, AsRound, WorksOn
  <2>5. /\ \A s \in Sigs \ {s0} : Attempted(s)' = Attempted(s) /\ Told(s)' = Told(s)
        /\ Owns(queue, w, s0) =>
              /\ Attempted(s0) < AttemptsCap => Attempted(s0)' = Attempted(s0) + 1
              /\ Told(s0)' = Canonical(Verdict(w))
    BY <2>2, <2>3, FinishKeeps
  <2>6. /\ ~disturbed'[s0] => ~disturbed[s0] /\ Owns(queue, w, s0)
        /\ \A s \in Sigs \ {s0} : disturbed'[s] = disturbed[s]
    BY <2>2, <2>3, NotDisturbed
  <2>7. ASSUME ~disturbed'[s0] PROVE Tidy(s0)'
    <3>1. Tidy(s0) /\ Owns(queue, w, s0)
      BY <2>6, <2>7 DEF TidyInv
    <3>2. /\ Fits(round[w]) /\ Attempted(s0) \in Nat /\ round[w].id \in Nat
          /\ round[w].number \in Nat /\ round[w].sig = s0
      BY <2>4, <3>1, InHand
    <3>3. Attempted(s0) < AttemptsCap
      BY <2>2, <3>2, <1>0, QueueAssumption, WorkerAssumption DEF Fits, Unconcluded, QueueInv
    <3>4. Attempted(s0)' = Attempted(s0) + 1 /\ Told(s0)' = Canonical(Verdict(w))
      BY <2>5, <3>1, <3>3
    <3>5. n = AsRound(round[w], "result", round[w].attempts, Verdict(w), round[w].result)
      BY DEF NewFinish
    <3> QED
      BY <2>2, <2>4, <3>1, <3>4, <3>5, OwnFinish
  <2>8. Elsewhere(w, s0, n)
    BY <2>2, <2>3, <2>4, <2>5, <1>0 DEF Elsewhere, Adds
  <2> QED
    BY <2>6, <2>7, <2>8, TidyAll
<1>6. ASSUME NEW w \in Workers, NEW ok \in BOOLEAN, Result(w, ok) PROVE TidyInv'
  <2> DEFINE key == <<round[w].sig, round[w].number>>
             new == Filed(w)
  <2>1. round' = [round EXCEPT ![w] = NewResult(w, ok)]
    BY <1>6, Resulting
  <2>2. /\ results' = IF ok THEN With(results, key, new) ELSE results
        /\ queue' = queue /\ rounds' = rounds /\ replays' = replays /\ latest' = latest
        /\ seed' = seed /\ disturbed' = disturbed /\ Busy(w) /\ round[w].step = "result"
    BY <1>6 DEF Result, At, Filed
  <2>3. PICK s0 \in Sigs : s0 = round[w].sig
    BY <2>2, SigInHand
  <2> SUFFICES ASSUME NEW n, n = NewResult(w, ok) PROVE TidyInv'
    OBVIOUS
  <2>4. /\ n.sig = s0 /\ round' = [round EXCEPT ![w] = n] /\ WorksOn(w, s0)
    BY <2>1, <2>2, <2>3 DEF NewResult, AsRound, WorksOn
  <2>5. \A s \in Sigs : Attempted(s)' = Attempted(s) /\ Told(s)' = Told(s)
    BY <2>2 DEF Attempted, Told
  <2>6. ASSUME ~disturbed'[s0] PROVE Tidy(s0)'
    <3>1. Tidy(s0)
      BY <2>2, <2>6 DEF TidyInv
    <3>2. n = AsRound(round[w], "latest", round[w].attempts, round[w].outcome, ok)
      BY DEF NewResult
    <3>3. new.round = round[w].id /\ new.outcome = round[w].outcome
      BY DEF Filed
    <3>4. key = <<s0, round[w].number>>
      BY <2>3
    <3> HIDE DEF key, new
    <3> QED
      BY <2>2, <2>4, <3>1, <3>2, <3>3, <3>4, OwnResult
  <2>7. Elsewhere(w, s0, n)
    <3>1. key[1] = s0
      BY <2>3
    <3> HIDE DEF key, new
    <3>2. Adds(results', results, s0)
      BY <2>2, <3>1 DEF Adds
    <3> QED
      BY <2>2, <2>3, <2>4, <2>5, <3>2, <1>0 DEF Elsewhere, Adds
  <2> QED
    BY <2>2, <2>6, <2>7, TidyAll
<1>7. ASSUME NEW w \in Workers, NEW ok \in BOOLEAN, Latest(w, ok) PROVE TidyInv'
  <2> DEFINE l == [number |-> round[w].number, outcome |-> round[w].outcome,
                   result |-> round[w].result, best |-> BestArchive(round[w])]
  <2>1. round' = [round EXCEPT ![w] = New(w, "seed")]
    BY <1>7, Pointing
  <2>2. /\ latest' = IF ok THEN [latest EXCEPT ![round[w].sig] = l] ELSE latest
        /\ queue' = queue /\ rounds' = rounds /\ replays' = replays /\ results' = results
        /\ seed' = seed /\ disturbed' = disturbed /\ Busy(w) /\ round[w].step = "latest"
    BY <1>7 DEF Latest, At
  <2>3. PICK s0 \in Sigs : s0 = round[w].sig
    BY <2>2, SigInHand
  <2> SUFFICES ASSUME NEW n, n = New(w, "seed") PROVE TidyInv'
    OBVIOUS
  <2>4. /\ n.sig = s0 /\ round' = [round EXCEPT ![w] = n] /\ WorksOn(w, s0)
    BY <2>1, <2>2, <2>3 DEF New, AsRound, WorksOn
  <2>5. \A s \in Sigs : Attempted(s)' = Attempted(s) /\ Told(s)' = Told(s)
    BY <2>2 DEF Attempted, Told
  <2>6. ASSUME ~disturbed'[s0] PROVE Tidy(s0)'
    <3>1. Tidy(s0)
      BY <2>2, <2>6 DEF TidyInv
    <3>2. n = AsRound(round[w], "seed", round[w].attempts, round[w].outcome, round[w].result)
      BY DEF New
    <3>3. l = [number |-> round[w].number, outcome |-> round[w].outcome,
               result |-> round[w].result, best |-> BestArchive(round[w])]
      OBVIOUS
    <3> HIDE DEF l
    <3>4. latest' = IF ok THEN [latest EXCEPT ![s0] = l] ELSE latest
      BY <2>2, <2>3
    <3> QED
      BY <2>2, <2>4, <3>1, <3>2, <3>3, <3>4, OwnLatest
  <2>7. Elsewhere(w, s0, n)
    <3> HIDE DEF l
    <3>1. \A t \in Sigs \ {s0} : latest'[t] = latest[t]
      BY <2>2, <2>3 DEF PathsInv
    <3> QED
      BY <2>2, <2>3, <2>4, <2>5, <3>1, <1>0 DEF Elsewhere, Adds
  <2> QED
    BY <2>2, <2>6, <2>7, TidyAll
<1>8. ASSUME NEW w \in Workers, NEW ok \in BOOLEAN, Seed(w, ok) PROVE TidyInv'
  <2> DEFINE d == [number |-> round[w].number, eligible |-> Eligible(round[w]),
                   result |-> round[w].result, best |-> BestArchive(round[w])]
  <2>1. /\ seed' = IF ok THEN [seed EXCEPT ![round[w].sig] = d] ELSE seed
        /\ round' = [round EXCEPT ![w] = None]
        /\ queue' = queue /\ rounds' = rounds /\ replays' = replays /\ results' = results
        /\ latest' = latest /\ disturbed' = disturbed /\ Busy(w) /\ round[w].step = "seed"
    BY <1>8 DEF Seed, At
  <2>2. PICK s0 \in Sigs : s0 = round[w].sig
    BY <2>1, SigInHand
  <2>3. WorksOn(w, s0)
    BY <2>1, <2>2 DEF WorksOn
  <2>4. \A s \in Sigs : Attempted(s)' = Attempted(s) /\ Told(s)' = Told(s)
    BY <2>1 DEF Attempted, Told
  <2>5. ASSUME ~disturbed'[s0] PROVE Tidy(s0)'
    <3>1. Tidy(s0)
      BY <2>1, <2>5 DEF TidyInv
    <3>2. d = [number |-> round[w].number, eligible |-> Eligible(round[w]),
               result |-> round[w].result, best |-> BestArchive(round[w])]
      OBVIOUS
    <3> HIDE DEF d
    <3>3. seed' = IF ok THEN [seed EXCEPT ![s0] = d] ELSE seed
      BY <2>1, <2>2
    <3> QED
      BY <2>1, <2>3, <3>1, <3>2, <3>3, OwnSeed
  <2>6. Elsewhere(w, s0, None)
    <3> HIDE DEF d
    <3>1. \A t \in Sigs \ {s0} : seed'[t] = seed[t]
      BY <2>1, <2>2 DEF PathsInv
    <3> QED
      BY <2>1, <2>2, <2>4, <3>1, <1>0 DEF Elsewhere, Adds
  <2> QED
    BY <2>1, <2>5, <2>6, TidyAll
<1>9. ASSUME NEW w \in Workers, Die(w) PROVE TidyInv'
  <2>1. /\ round' = [round EXCEPT ![w] = None] /\ queue' = queue /\ rounds' = rounds
        /\ UNCHANGED filed /\ Busy(w)
        /\ disturbed' = [disturbed EXCEPT ![round[w].sig] = disturbed[round[w].sig] \/ Unfinished(w)]
    BY <1>9 DEF Die
  <2>2. PICK s0 \in Sigs : s0 = round[w].sig
    BY <2>1, SigInHand
  <2>3. /\ replays' = replays /\ results' = results /\ latest' = latest /\ seed' = seed
        /\ WorksOn(w, s0)
    BY <2>1, <2>2 DEF filed, WorksOn
  <2>4. \A s \in Sigs : Attempted(s)' = Attempted(s) /\ Told(s)' = Told(s)
    BY <2>1 DEF Attempted, Told
  <2>5. /\ ~disturbed'[s0] => ~disturbed[s0] /\ ~Unfinished(w)
        /\ \A s \in Sigs \ {s0} : disturbed'[s] = disturbed[s]
    BY <2>1, <2>2, NotDisturbed
  <2>6. ASSUME ~disturbed'[s0] PROVE Tidy(s0)'
    <3>1. Tidy(s0) /\ round[w].step \notin {"replay", "finish"}
      BY <2>5, <2>6 DEF TidyInv, Unfinished
    <3> QED
      BY <2>1, <2>3, <3>1, OwnEnd
  <2>7. Elsewhere(w, s0, None)
    BY <2>1, <2>2, <2>3, <2>4, <1>0 DEF Elsewhere, Adds
  <2> QED
    BY <2>5, <2>6, <2>7, TidyAll
<1>10. CASE Tick \/ UNCHANGED vars
  <2>1. round' = round /\ rounds' = rounds /\ UNCHANGED filed /\ disturbed' = disturbed
    BY <1>10 DEF Tick, vars
  <2>2. \A s \in Sigs : Attempted(s)' = Attempted(s) /\ Told(s)' = Told(s)
    <3>1. CASE Tick
      BY <3>1, TickKeeps DEF Tallied, Attempted, Told
    <3>2. CASE UNCHANGED vars
      BY <3>2 DEF vars, Attempted, Told
    <3> QED
      BY <1>10, <3>1, <3>2
  <2>3. ASSUME NEW s \in Sigs PROVE Untouched(s)
    BY <2>1, <2>2, <1>0 DEF Untouched, filed, WorksOn, Busy
  <2>4. ASSUME NEW s \in Sigs, ~disturbed'[s] PROVE Tidy(s)'
    BY <2>1, <2>3, <2>4, TidyUntouched DEF TidyInv
  <2> QED
    BY <2>4 DEF TidyInv
<1> QED
  BY <1>1, <1>2, <1>3, <1>4, <1>5, <1>6, <1>7, <1>8, <1>9, <1>10 DEF Next

-----------------------------------------------------------------------------
(* At the start nothing is filed, nobody works and nothing is counted.     *)
LEMMA RoundsInit == Init => RoundsInv
BY DEF Init, RoundsInv, Busy

LEMMA QueueInit == Init => QueueInv
BY Begun, WorkerAssumption DEF Init, QueueInv

LEMMA PathsInit == Init => PathsInv
BY DEF Init, PathsInv, Busy, LatestLeads

LEMMA TidyInit == Init => TidyInv
<1> SUFFICES ASSUME Init, NEW s \in Sigs PROVE Tidy(s)
  BY DEF TidyInv
<1>1. Attempted(s) = 0 /\ rounds = 0
  BY Begun DEF Init
<1>2. /\ \A w \in Workers : ~WorksOn(w, s)
      /\ DOMAIN replays = {} /\ DOMAIN results = {} /\ latest[s] = None /\ seed[s] = None
  BY DEF Init, WorksOn, Busy
<1> QED
  BY <1>1, <1>2 DEF Tidy, OneWorker, RoundsFit, ReplaysFit, ResultsFit, LatestFits, SeedFits

(* The invariant holds at the start, and every step keeps it.              *)
LEMMA IInvInit == Init => IInv
BY RoundsInit, QueueInit, PathsInit, TidyInit DEF IInv

LEMMA IInvNext == IInv /\ [Next]_vars => IInv'
BY RoundsNext, QueueNext, PathsNext, TidyNext DEF IInv

-----------------------------------------------------------------------------
(* What is on file of the rounds of an artifact fits together, as long as  *)
(* they are undisturbed: a directory is of one round, paths lead to what   *)
(* they were written for, results say what the queue says, under numbers   *)
(* it has reached, and seeds what results say (Rounds in repro.rs).        *)
THEOREM WorkerRoundsAreOnRecord == Spec => []RoundsAreOnRecord
<1>1. IInv => RoundsAreOnRecord
  <2> SUFFICES ASSUME IInv PROVE RoundsAreOnRecord
    OBVIOUS
  <2>1. ASSUME NEW s \in Sigs, ~disturbed[s]
        PROVE  ReplaysFit(s) /\ ResultsFit(s) /\ LatestFits(s) /\ SeedFits(s)
    BY <2>1 DEF IInv, TidyInv, Tidy
  <2>2. \A k \in DOMAIN replays : k[1] \in Sigs
    BY DEF IInv, PathsInv
  <2>3. \A k \in DOMAIN results : k[1] \in Sigs
    BY DEF IInv, PathsInv
  <2>4. DirectoriesAreOfOneRound
    <3> SUFFICES ASSUME NEW k \in DOMAIN replays, ~disturbed[k[1]]
                 PROVE  /\ \A j \in DOMAIN replays :
                              j[1] = k[1] /\ j[2] = k[2] => replays[j].round = replays[k].round
                        /\ <<k[1], k[2]>> \in DOMAIN results =>
                              results[<<k[1], k[2]>>].round = replays[k].round
      BY DEF DirectoriesAreOfOneRound
    <3>1. ReplaysFit(k[1]) /\ ResultsFit(k[1])
      BY <2>1, <2>2
    <3> QED
      BY <3>1 DEF ReplaysFit, ResultsFit
  <2>5. PathsLeadToTheBest
    <3> SUFFICES ASSUME NEW s \in Sigs, latest[s] # None
                 PROVE  /\ latest[s].result => <<s, latest[s].number>> \in DOMAIN results
                        /\ latest[s].best # 0 =>
                              <<s, latest[s].number, latest[s].best>> \in DOMAIN replays
                        /\ ~disturbed[s] =>
                              /\ latest[s].result =>
                                    results[<<s, latest[s].number>>].outcome = latest[s].outcome
                              /\ latest[s].best # 0 =>
                                    replays[<<s, latest[s].number, latest[s].best>>].outcome =
                                       latest[s].outcome
      BY DEF PathsLeadToTheBest
    <3>1. LatestLeads(s)
      BY DEF IInv, PathsInv
    <3>2. ~disturbed[s] => LatestFits(s)
      BY <2>1
    <3> QED
      BY <3>1, <3>2 DEF LatestLeads, LatestFits
  <2>6. ResultsAreOnRecord
    <3> SUFFICES ASSUME NEW s \in Sigs, ~disturbed[s],
                        <<s, queue.entries[s].attempts>> \in DOMAIN results
                 PROVE  Canonical(results[<<s, queue.entries[s].attempts>>].outcome) =
                           queue.entries[s].outcome
      BY DEF ResultsAreOnRecord
    <3>1. ResultsFit(s)
      BY <2>1
    <3> QED
      BY <3>1 DEF ResultsFit, Attempted, Told
  <2>7. NumbersAreCounted
    <3> SUFFICES ASSUME NEW k \in DOMAIN results, ~disturbed[k[1]]
                 PROVE  k[2] <= queue.entries[k[1]].attempts
      BY DEF NumbersAreCounted
    <3>1. ResultsFit(k[1])
      BY <2>1, <2>3
    <3> QED
      BY <3>1 DEF ResultsFit, Attempted
  <2>8. SeedsAreWorthIt
    BY <2>1 DEF SeedsAreWorthIt, SeedFits
  <2> QED
    BY <2>4, <2>5, <2>6, <2>7, <2>8 DEF RoundsAreOnRecord
<1> QED
  BY IInvInit, IInvNext, <1>1, PTL DEF Spec

(* latest_repro_result.json of an artifact whose rounds are undisturbed is *)
(* only ever replaced by that of a later attempt (Latest, repro.rs).       *)
THEOREM WorkerLatestGoesForward == Spec => [][LatestGoesForward]_vars
<1>1. IInv /\ [Next]_vars => [LatestGoesForward]_vars
  <2> SUFFICES ASSUME IInv, [Next]_vars, NEW s \in Sigs,
                      ~disturbed[s], latest[s] # None, latest'[s] # latest[s]
               PROVE  latest'[s].number > latest[s].number
    BY DEF LatestGoesForward
  <2>1. PICK w \in Workers, ok \in BOOLEAN : Latest(w, ok)
    <3>1. latest' # latest
      OBVIOUS
    <3>2. ~ (Tick \/ UNCHANGED vars)
      BY <3>1 DEF Tick, filed, vars
    <3>3. \A w \in Workers : ~ (Claim(w) \/ Load(w) \/ LoadFails(w) \/ Finish(w) \/ Die(w))
      BY <3>1 DEF Claim, Load, LoadFails, Finish, Die, filed
    <3>4. ASSUME NEW w \in Workers, NEW outcome \in Observed, NEW recorded \in BOOLEAN,
                 NEW archived \in BOOLEAN, Replay(w, outcome, recorded, archived)
          PROVE  FALSE
      BY <3>1, <3>4 DEF Replay
    <3>5. \A w \in Workers, ok \in BOOLEAN : ~ (Result(w, ok) \/ Seed(w, ok))
      BY <3>1 DEF Result, Seed
    <3> QED
      BY <3>2, <3>3, <3>4, <3>5 DEF Next
  <2> DEFINE l == [number |-> round[w].number, outcome |-> round[w].outcome,
                   result |-> round[w].result, best |-> BestArchive(round[w])]
  <2>2. round' = [round EXCEPT ![w] = New(w, "seed")]
    BY <2>1, Pointing DEF IInv
  <2>3. /\ latest' = IF ok THEN [latest EXCEPT ![round[w].sig] = l] ELSE latest
        /\ queue' = queue /\ rounds' = rounds /\ replays' = replays /\ results' = results
        /\ seed' = seed /\ Busy(w) /\ round[w].step = "latest"
    BY <2>1 DEF Latest, At
  <2> HIDE DEF l
  <2>4. round[w].sig = s
    BY <2>3 DEF IInv, PathsInv
  <2>5. WorksOn(w, s) /\ Tidy(s)
    BY <2>3, <2>4 DEF WorksOn, IInv, TidyInv
  <2>6. New(w, "seed") = AsRound(round[w], "seed", round[w].attempts, round[w].outcome, round[w].result)
    BY DEF New
  <2>7. l = [number |-> round[w].number, outcome |-> round[w].outcome,
             result |-> round[w].result, best |-> BestArchive(round[w])]
    BY DEF l
  <2>8. latest' = IF ok THEN [latest EXCEPT ![s] = l] ELSE latest
    BY <2>3, <2>4
  <2>9. PICK n : n = New(w, "seed")
    OBVIOUS
  <2>10. PICK m : m = l
    OBVIOUS
  <2>11. /\ n = AsRound(round[w], "seed", round[w].attempts, round[w].outcome, round[w].result)
         /\ m = [number |-> round[w].number, outcome |-> round[w].outcome,
                 result |-> round[w].result, best |-> BestArchive(round[w])]
         /\ round' = [round EXCEPT ![w] = n]
         /\ latest' = IF ok THEN [latest EXCEPT ![s] = m] ELSE latest
    BY <2>2, <2>6, <2>7, <2>8, <2>9, <2>10
  <2>12. RoundsInv /\ QueueInv /\ PathsInv
    BY DEF IInv
  <2> QED
    BY <2>3, <2>5, <2>11, <2>12, OwnLatest
<1> QED
  BY IInvInit, IInvNext, <1>1, PTL DEF Spec

(* The outcome of every result on file is that of the round's best         *)
(* attempt, and a round ends with its reproduction (replay_artifact and    *)
(* select_preferred_replay_attempt in repro.rs).                           *)
THEOREM WorkerResultsTellTheBest == Spec => []ResultsTellTheBest
<1>1. RoundsInv => ResultsTellTheBest
  <2> SUFFICES ASSUME RoundsInv, NEW k \in DOMAIN results
               PROVE  LET attempts == results[k].attempts
                          Some(outcome) == \E i \in DOMAIN attempts : attempts[i].outcome = outcome
                      IN  /\ results[k].outcome =
                                IF Some("reproduced") THEN "reproduced"
                                ELSE IF Some("timed_out") THEN "timed_out" ELSE "failed"
                          /\ \A i \in DOMAIN attempts :
                                attempts[i].outcome = "reproduced" => i = Len(attempts)
    BY DEF ResultsTellTheBest
  <2> DEFINE a == results[k].attempts
  <2>1. AttemptsOK(a) /\ a # <<>> /\ results[k].outcome = a[Preferred(a)].outcome
    BY DEF RoundsInv, ResultOK
  <2> HIDE DEF a
  <2>2. \A i \in DOMAIN a : a[i].outcome \in Observed
    <3>1. a \in Seq(Attempt)
      BY <2>1 DEF AttemptsOK
    <3>2. \A i \in DOMAIN a : a[i] \in Attempt
      BY <3>1
    <3> QED
      BY <3>2 DEF Attempt
  <2>3. /\ Preferred(a) \in DOMAIN a
        /\ \A j \in DOMAIN a : Rank(a[j].outcome) <= Rank(a[Preferred(a)].outcome)
    BY <2>1, PreferredIsBest
  <2>4. Rank("reproduced") = 3 /\ Rank("timed_out") = 2 /\ Rank("failed") = 1
    BY DEF Rank
  <2>5. \A i \in DOMAIN a : a[i].outcome = "reproduced" => i = Len(a)
    BY <2>1 DEF AttemptsOK
  <2>6. results[k].outcome \in Observed
    BY <2>1, <2>2, <2>3
  <2>7. CASE \E i \in DOMAIN a : a[i].outcome = "reproduced"
    <3>1. Rank(results[k].outcome) >= 3
      BY <2>7, <2>1, <2>3, <2>4
    <3>2. results[k].outcome = "reproduced"
      BY <3>1, <2>4, <2>6 DEF Observed
    <3> QED
      BY <2>7, <3>2, <2>5 DEF a
  <2>8. CASE /\ ~ \E i \in DOMAIN a : a[i].outcome = "reproduced"
             /\ \E i \in DOMAIN a : a[i].outcome = "timed_out"
    <3>1. Rank(results[k].outcome) >= 2
      BY <2>8, <2>1, <2>3, <2>4
    <3>2. results[k].outcome = "timed_out"
      BY <3>1, <2>1, <2>3, <2>4, <2>6, <2>8 DEF Observed
    <3> QED
      BY <2>8, <3>2, <2>5 DEF a
  <2>9. CASE \A i \in DOMAIN a : a[i].outcome \notin {"reproduced", "timed_out"}
    <3>1. results[k].outcome = "failed"
      BY <2>9, <2>1, <2>3, <2>6 DEF Observed
    <3> QED
      BY <2>9, <3>1, <2>5 DEF a
  <2> QED
    BY <2>7, <2>8, <2>9
<1> QED
  BY RoundsInit, RoundsNext, QueueInit, QueueNext, <1>1, PTL DEF Spec
=============================================================================
