--------------------------- MODULE ProgramProofs ---------------------------
(***************************************************************************)
(* Proofs about programs.                                                  *)
(*                                                                         *)
(* ProgramRefs: whatever the syscalls and the programs of the corpus, what *)
(* is generated or mutated has only valid references, none to a result     *)
(* that was closed.                                                        *)
(*                                                                         *)
(* Choice: whatever the descriptions, their order, the corpus and the      *)
(* timeouts, the syscalls found generatable are those that are, and there  *)
(* always is one to choose, with all resources it needs.                   *)
(*                                                                         *)
(* Varint: whatever the width of words and groups, the executor reads the  *)
(* words that were written.                                                *)
(***************************************************************************)
EXTENDS ProgramRefs, Choice, Varint,
        SequenceTheorems, FiniteSetTheorems, WellFoundedInduction, TLAPS

(* Nonempty sets of naturals have a least element.                         *)
LEMMA Least ==
    ASSUME NEW S \in SUBSET Nat, S # {}
    PROVE  \E m \in S : \A n \in S : m <= n
<1> DEFINE R == {ss \in Nat \X Nat : ss[1] < ss[2]}
<1>1. IsWellFoundedOn(R, Nat)
  <2>1. OpToRel(<, Nat) = R  BY DEF OpToRel
  <2>2. QED BY <2>1, NatLessThanWellFounded
<1> HIDE DEF R
<1>2. PICK m \in S : \A n \in S : ~ (<<n, m>> \in R)
  BY <1>1, WFMin
<1>3. ASSUME NEW n \in S PROVE m <= n
  <2>1. ~(n < m) BY <1>2 DEF R
  <2> QED BY <2>1
<1> QED BY <1>3

LEMMA Greatest ==
    ASSUME NEW M \in Nat, NEW S \in SUBSET (0 .. M), S # {}
    PROVE  \E m \in S : \A n \in S : n <= m
<1> DEFINE T == {M - n : n \in S}
<1>1. T \subseteq Nat
  OBVIOUS
<1>2. T # {}
  OBVIOUS
<1>3. PICK x \in T : \A y \in T : x <= y
  <2> HIDE DEF T
  <2> QED BY <1>1, <1>2, Least
<1>4. PICK m \in S : x = M - m
  OBVIOUS
<1>5. ASSUME NEW n \in S PROVE n <= m
  <2>1. M - n \in T
    OBVIOUS
  <2>2. x <= M - n
    BY <1>3, <2>1
  <2> QED BY <1>4, <2>2
<1> QED BY <1>5

-----------------------------------------------------------------------------
(* Calls, values and results.                                              *)

LEMMA ResultsAreNumbers == Results \subseteq Nat \ {0}
<1>1. \A s \in Syscalls : DOMAIN Gives[s] = 1 .. Len(Gives[s]) /\ Len(Gives[s]) \in Nat
  BY SyscallsOK, LenProperties
<1>2. QED BY <1>1 DEF Results

LEMMA RefsAreNumbers ==
    \A r \in Refs : r.call \in Nat /\ r.call <= MaxCalls /\ r.result \in Nat
<1> SUFFICES ASSUME NEW r \in Refs
             PROVE  r.call \in Nat /\ r.call <= MaxCalls /\ r.result \in Nat
  OBVIOUS
<1>1. r.call \in 1 .. MaxCalls /\ r.result \in Results
  BY DEF Refs
<1>2. MaxCalls \in Nat
  BY LimitsOK
<1>3. r.call \in Nat /\ r.call <= MaxCalls
  BY <1>1, <1>2
<1>4. r.result \in Nat
  BY <1>1, ResultsAreNumbers
<1> QED BY <1>3, <1>4

LEMMA RefsAreNoSentinels == Plain \notin Refs /\ Gone \notin Refs
BY ResultsAreNumbers DEF Plain, Gone, Refs

LEMMA CallParts ==
    ASSUME NEW c \in Calls
    PROVE  /\ c.sys \in Syscalls
           /\ c.args \in [DOMAIN Takes[c.sys] -> Values]
           /\ c = [sys |-> c.sys, args |-> c.args]
BY DEF Calls

LEMMA IsCall ==
    ASSUME NEW s \in Syscalls, NEW args \in [DOMAIN Takes[s] -> Values]
    PROVE  [sys |-> s, args |-> args] \in Calls
<1>1. [sys |-> s, args |-> args] \in [sys : {s}, args : [DOMAIN Takes[s] -> Values]]  OBVIOUS
<1>2. QED BY <1>1 DEF Calls

LEMMA AvailableProps ==
    ASSUME NEW p \in Seq(Calls), NEW n \in Nat, NEW k, NEW r \in Available(p, n, k)
    PROVE  r \in Refs /\ r # Plain /\ r.call <= n /\ Produces(p, r, k)
BY RefsAreNoSentinels DEF Available

LEMMA OfferedProps ==
    ASSUME NEW p \in Seq(Calls), NEW n \in Nat, NEW s \in Syscalls,
           NEW a \in DOMAIN Takes[s], NEW r \in Offered(p, n, s, a)
    PROVE  /\ r \in Refs /\ r # Plain /\ r.call <= n
           /\ \E k \in Takes[s][a] : Produces(p, r, k)
<1>1. PICK k \in Takes[s][a] : r \in Available(p, n, k)  BY DEF Offered
<1>2. QED BY <1>1, AvailableProps

(* What is on offer after n calls depends on those calls only.             *)
LEMMA OfferedByPrefix ==
    ASSUME NEW p \in Seq(Calls), NEW q \in Seq(Calls), NEW n \in Nat,
           n <= Len(p), n <= Len(q), \A i \in 1 .. n : p[i] = q[i],
           NEW s, NEW a
    PROVE  Offered(p, n, s, a) = Offered(q, n, s, a)
<1>1. ASSUME NEW k, NEW r \in Refs, r.call <= n
      PROVE  /\ Produces(p, r, k) <=> Produces(q, r, k)
             /\ \A i \in r.call .. n : Ends(p, i, r) <=> Ends(q, i, r)
  <2>1. r.call \in 1 .. n  BY <1>1, LimitsOK DEF Refs
  <2>2. r.call \in DOMAIN p /\ r.call \in DOMAIN q /\ p[r.call] = q[r.call]
    BY <2>1, LenProperties
  <2>3. \A i \in r.call .. n : p[i] = q[i]  BY <2>1
  <2>4. QED BY <2>2, <2>3 DEF Produces, Ends
<1>2. \A k : Available(p, n, k) = Available(q, n, k)  BY <1>1 DEF Available
<1>3. QED BY <1>2 DEF Offered

(* The latest of the references on offer is one of them.                   *)
LEMMA LatestIsOffered ==
    ASSUME NEW p \in Seq(Calls), NEW n \in Nat, NEW s \in Syscalls, NEW a \in DOMAIN Takes[s],
           Offered(p, n, s, a) # {}
    PROVE  Latest(Offered(p, n, s, a)) \in Offered(p, n, s, a)
<1> DEFINE refs == Offered(p, n, s, a)
           makers == {r.call : r \in refs}
<1>1. \A r \in refs : r \in Refs /\ \E k \in Takes[s][a] : Produces(p, r, k)
  BY OfferedProps
<1>2. \A r \in refs : r.call \in Nat /\ r.call <= MaxCalls /\ r.result \in Nat
  BY <1>1, RefsAreNumbers
<1>3. refs # {}  OBVIOUS
<1> HIDE DEF refs
<1>4. PICK c \in makers : \A d \in makers : d <= c
  <2>1. makers \in SUBSET (0 .. MaxCalls)  BY <1>2, LimitsOK
  <2>2. makers # {}  BY <1>3
  <2> HIDE DEF makers
  <2>3. QED BY <2>1, <2>2, Greatest, LimitsOK
<1> DEFINE results == {r.result : r \in {q \in refs : q.call = c}}
           last == Len(Gives[p[c].sys])
<1>5. \A r \in refs : r.call = c => r.result \in 1 .. last /\ last \in Nat
  <2>1. SUFFICES ASSUME NEW r \in refs, r.call = c PROVE r.result \in 1 .. last /\ last \in Nat
    OBVIOUS
  <2>2. r.call \in DOMAIN p /\ r.result \in DOMAIN Gives[p[r.call].sys]
    BY <1>1 DEF Produces
  <2>3. p[c] \in Calls  BY <2>1, <2>2, ElementOfSeq, LenProperties
  <2>4. Gives[p[c].sys] \in Seq(Kinds)  BY <2>3, CallParts, SyscallsOK
  <2>5. QED BY <2>1, <2>2, <2>4, LenProperties
<1>6. PICK r0 \in refs : r0.call = c  OBVIOUS
<1>7. last \in Nat  BY <1>5, <1>6
<1>8. PICK m \in results : \A d \in results : d <= m
  <2>1. results \in SUBSET (0 .. last)
    <3> HIDE DEF last
    <3> QED BY <1>5, <1>7
  <2>2. results # {}  BY <1>6
  <2> HIDE DEF results, last
  <2>3. QED BY <2>1, <2>2, <1>7, Greatest
<1>9. PICK r \in refs : r.call = c /\ r.result = m  OBVIOUS
<1>10. \A q \in refs : q.call < r.call \/ (q.call = r.call /\ q.result <= r.result)
  <2>1. SUFFICES ASSUME NEW q \in refs, ~ (q.call < r.call)
                 PROVE  q.call = r.call /\ q.result <= r.result
    OBVIOUS
  <2>2. q.call <= c  BY <1>4
  <2>3. q.call = c  BY <2>1, <2>2, <1>9, <1>2
  <2>4. QED BY <2>3, <1>8, <1>9
<1>11. Latest(refs) \in refs  BY <1>9, <1>10 DEF Latest
<1>12. QED BY <1>11 DEF refs

-----------------------------------------------------------------------------
(* What keeps the type of a program.                                       *)

LEMMA DrawnArgs ==
    ASSUME NEW p \in Seq(Calls), NEW n \in Nat, NEW s \in Syscalls, NEW args \in Drawn(p, n, s)
    PROVE  /\ [sys |-> s, args |-> args] \in Calls
           /\ \A a \in DOMAIN Takes[s] : args[a] # Plain => args[a] \in Offered(p, n, s, a)
<1>1. args \in [DOMAIN Takes[s] -> Values]  BY DEF Drawn, Values
<1>2. QED BY <1>1, IsCall DEF Drawn

LEMMA RepairedCallProps ==
    ASSUME NEW p \in Seq(Calls), NEW i \in DOMAIN p
    PROVE  /\ RepairedCall(p, i) \in Calls
           /\ RepairedCall(p, i).sys = p[i].sys
           /\ DOMAIN RepairedCall(p, i).args = DOMAIN Takes[p[i].sys]
           /\ \A a \in DOMAIN Takes[p[i].sys] : LET v == RepairedCall(p, i).args[a] IN
                 v = Plain \/ v \in Offered(p, i - 1, p[i].sys, a)
<1>1. p[i] \in Calls /\ i - 1 \in Nat  BY LenProperties, ElementOfSeq
<1>2. p[i].sys \in Syscalls /\ DOMAIN p[i].args = DOMAIN Takes[p[i].sys]  BY <1>1, CallParts
<1>3. ASSUME NEW a \in DOMAIN Takes[p[i].sys]
      PROVE  RepairedValue(p, i, a) = Plain \/ RepairedValue(p, i, a) \in Offered(p, i - 1, p[i].sys, a)
  BY <1>1, <1>2, LatestIsOffered DEF RepairedValue
<1>4. \A a \in DOMAIN Takes[p[i].sys] : RepairedValue(p, i, a) \in Values
  BY <1>1, <1>2, <1>3, OfferedProps DEF Values
<1>5. [a \in DOMAIN p[i].args |-> RepairedValue(p, i, a)] \in [DOMAIN Takes[p[i].sys] -> Values]
  BY <1>2, <1>4
<1>6. RepairedCall(p, i) \in Calls  BY <1>2, <1>5, IsCall DEF RepairedCall
<1>7. QED BY <1>2, <1>3, <1>6 DEF RepairedCall

(* What the proof knows of a call: each reference was on offer.            *)
OnOffer(p, i) ==
    \A a \in DOMAIN p[i].args :
        p[i].args[a] # Plain => p[i].args[a] \in Offered(p, i - 1, p[i].sys, a)

UsesOffered ==
    /\ pc = "idle" /\ prog \notin Given => \A i \in DOMAIN prog : OnOffer(prog, i)
    /\ \A i \in DOMAIN draft : OnOffer(draft, i)

(* What was on offer is not closed.                                        *)
LEMMA OfferedCallIsLive ==
    ASSUME NEW p, NEW i, OnOffer(p, i)
    PROVE  LiveCall(p, i)
<1>1. SUFFICES ASSUME NEW a \in DOMAIN p[i].args, p[i].args[a] # Plain,
                      NEW j \in p[i].args[a].call .. i - 1
               PROVE  ~Ends(p, j, p[i].args[a])
  BY DEF LiveCall
<1>2. PICK k \in Takes[p[i].sys][a] : p[i].args[a] \in Available(p, i - 1, k)
  BY <1>1 DEF OnOffer, Offered
<1>3. QED BY <1>1, <1>2 DEF Available

(* A live reference is a valid one.                                        *)
LEMMA LiveIsValid ==
    ASSUME NEW p \in Seq(Calls), NEW i \in DOMAIN p, OnOffer(p, i)
    PROVE  ValidCall(p, i)
<1>1. p[i] \in Calls /\ i \in Nat /\ i - 1 \in Nat  BY LenProperties, ElementOfSeq
<1>2. p[i].sys \in Syscalls /\ DOMAIN p[i].args = DOMAIN Takes[p[i].sys]  BY <1>1, CallParts
<1>3. ASSUME NEW a \in DOMAIN p[i].args, p[i].args[a] # Plain
      PROVE  /\ p[i].args[a].call < i
             /\ \E k \in Takes[p[i].sys][a] : Produces(p, p[i].args[a], k)
  <2>1. p[i].args[a] \in Offered(p, i - 1, p[i].sys, a)  BY <1>3 DEF OnOffer
  <2>2. p[i].args[a] \in Refs /\ p[i].args[a].call <= i - 1
    BY <2>1, <1>1, <1>2, OfferedProps
  <2>3. p[i].args[a].call < i  BY <2>2, <1>1, LimitsOK DEF Refs
  <2>4. QED BY <2>1, <2>3, <1>1, <1>2, OfferedProps
<1>4. QED BY <1>3 DEF ValidCall

(* Whether call i is live depends on the calls up to i.                    *)
LEMMA LiveByPrefix ==
    ASSUME NEW p \in Seq(Calls), NEW q \in Seq(Calls), NEW i \in Nat \ {0},
           i <= Len(p), i <= Len(q), \A j \in 1 .. i : p[j] = q[j], OnOffer(p, i)
    PROVE  OnOffer(q, i)
<1>1. p[i] = q[i]  OBVIOUS
<1>2. \A s, a : Offered(p, i - 1, s, a) = Offered(q, i - 1, s, a)
  BY OfferedByPrefix
<1>3. QED BY <1>1, <1>2 DEF OnOffer

LEMMA AppendLive ==
    ASSUME NEW p \in Seq(Calls), NEW s \in Syscalls, NEW args \in Drawn(p, Len(p), s),
           \A i \in DOMAIN p : OnOffer(p, i)
    PROVE  LET q == Append(p, [sys |-> s, args |-> args])
           IN  q \in Seq(Calls) /\ \A i \in DOMAIN q : OnOffer(q, i)
<1> DEFINE c == [sys |-> s, args |-> args]
           q == Append(p, c)
           n == Len(p)
<1>1. c \in Calls /\ n \in Nat  BY DrawnArgs, LenProperties
<1>2. /\ q \in Seq(Calls) /\ Len(q) = n + 1
      /\ q[n + 1] = c /\ \A i \in 1 .. n : q[i] = p[i]
  BY <1>1, AppendProperties
<1>3. c.sys = s /\ c.args = args /\ DOMAIN args = DOMAIN Takes[s]  BY DEF Drawn
<1> HIDE DEF c, q
<1>4. OnOffer(q, n + 1)
  <2>1. \A a : Offered(p, n, s, a) = Offered(q, n, s, a)
    BY <1>1, <1>2, OfferedByPrefix
  <2>2. \A a \in DOMAIN Takes[s] : args[a] # Plain => args[a] \in Offered(p, n, s, a)
    BY <1>1, DrawnArgs
  <2>3. n + 1 - 1 = n  BY <1>1
  <2>4. QED BY <2>1, <2>2, <2>3, <1>2, <1>3 DEF OnOffer
<1>5. \A i \in 1 .. n : OnOffer(q, i)
  BY <1>1, <1>2, LiveByPrefix, LenProperties
<1>6. \A i \in 1 .. n + 1 : OnOffer(q, i)  BY <1>1, <1>4, <1>5
<1>7. DOMAIN q = 1 .. n + 1  BY <1>2, LenProperties
<1>8. QED BY <1>2, <1>6, <1>7 DEF q, c

(* One step of the repair makes its call live and leaves those before it.  *)
LEMMA RepairStep ==
    ASSUME NEW p \in Seq(Calls), NEW n \in DOMAIN p,
           \A i \in 1 .. n - 1 : OnOffer(p, i)
    PROVE  LET q == [p EXCEPT ![n] = RepairedCall(p, n)]
           IN  /\ q \in Seq(Calls) /\ Len(q) = Len(p)
               /\ \A i \in 1 .. n : OnOffer(q, i)
<1> DEFINE c == RepairedCall(p, n)
           q == [p EXCEPT ![n] = c]
<1>1. n \in 1 .. Len(p) /\ Len(p) \in Nat  BY LenProperties
<1>2. c \in Calls  BY RepairedCallProps
<1> HIDE DEF c
<1>3. /\ q \in Seq(Calls) /\ Len(q) = Len(p)
      /\ \A j \in 1 .. Len(p) : q[j] = IF j = n THEN c ELSE p[j]
  BY <1>1, <1>2, ExceptSeq
<1> HIDE DEF q
<1>4. OnOffer(q, n)
  <2>1. \A s, a : Offered(p, n - 1, s, a) = Offered(q, n - 1, s, a)
    <3>1. n - 1 \in Nat /\ n - 1 <= Len(p) /\ \A j \in 1 .. n - 1 : p[j] = q[j]  BY <1>1, <1>3
    <3>2. QED BY <3>1, <1>3, OfferedByPrefix
  <2>2. q[n] = c  BY <1>1, <1>3
  <2>3. /\ c.sys = p[n].sys /\ DOMAIN c.args = DOMAIN Takes[p[n].sys]
        /\ \A a \in DOMAIN Takes[p[n].sys] :
              c.args[a] = Plain \/ c.args[a] \in Offered(p, n - 1, p[n].sys, a)
    BY RepairedCallProps DEF c
  <2>4. QED BY <2>1, <2>2, <2>3 DEF OnOffer
<1>5. ASSUME NEW i \in 1 .. n - 1  PROVE OnOffer(q, i)
  <2>1. i \in Nat \ {0} /\ i <= Len(p) /\ \A j \in 1 .. i : p[j] = q[j]  BY <1>1, <1>3
  <2>2. QED BY <2>1, <1>3, LiveByPrefix
<1>6. \A i \in 1 .. n : OnOffer(q, i)  BY <1>1, <1>4, <1>5
<1>7. QED BY <1>3, <1>6 DEF q, c

-----------------------------------------------------------------------------
(* The positions that mutations leave references at.                       *)

LEMMA ShiftedValues ==
    ASSUME NEW v \in Values, v = Plain \/ v.call < MaxCalls, NEW place \in Nat \ {0}
    PROVE  ShiftedForInsert(v, place) \in Values /\ ShiftedForRemoval(v, place) \in Values
<1>1. CASE v = Plain
  <2>1. ~ (v.call >= place) /\ v.call # place /\ ~ (v.call > place)  BY <1>1 DEF Plain
  <2>2. QED BY <2>1 DEF ShiftedForInsert, ShiftedForRemoval
<1>2. CASE v # Plain
  <2>1. v \in Refs
    <3>1. v # Gone  BY <1>2, LimitsOK DEF Gone
    <3>2. QED BY <1>2, <3>1 DEF Values
  <2>2. v.call \in 1 .. MaxCalls /\ v.result \in Results /\ v = [call |-> v.call, result |-> v.result]
    BY <2>1 DEF Refs
  <2>3. [v EXCEPT !.call = @ + 1] = [call |-> v.call + 1, result |-> v.result]  BY <2>2
  <2>4. [v EXCEPT !.call = @ - 1] = [call |-> v.call - 1, result |-> v.result]  BY <2>2
  <2>5. v.call + 1 \in 1 .. MaxCalls  BY <1>2, <2>2, LimitsOK
  <2>6. v.call > place => v.call - 1 \in 1 .. MaxCalls  BY <2>2, LimitsOK
  <2>7. ShiftedForInsert(v, place) \in Values
    BY <2>1, <2>2, <2>3, <2>5 DEF ShiftedForInsert, Values, Refs
  <2>8. ShiftedForRemoval(v, place) \in Values
    BY <2>1, <2>2, <2>4, <2>6 DEF ShiftedForRemoval, Values, Refs
  <2>9. QED BY <2>7, <2>8
<1>3. QED BY <1>1, <1>2

LEMMA MappedForInsert ==
    ASSUME NEW p \in Seq(Calls), Len(p) < MaxCalls, \A i \in DOMAIN p : ValidCall(p, i),
           NEW place \in Nat \ {0}
    PROVE  LET q == Mapped(p, LAMBDA v : ShiftedForInsert(v, place))
           IN  /\ q \in Seq(Calls) /\ Len(q) = Len(p)
               /\ \A i \in 1 .. Len(p) :
                     /\ DOMAIN q[i].args = DOMAIN p[i].args
                     /\ \A a \in DOMAIN p[i].args :
                           q[i].args[a] = ShiftedForInsert(p[i].args[a], place)
<1> DEFINE n == Len(p)
           Moved == [i \in DOMAIN p |->
                       [sys |-> p[i].sys,
                        args |-> [a \in DOMAIN p[i].args |-> ShiftedForInsert(p[i].args[a], place)]]]
<1>1. n \in Nat /\ DOMAIN p = 1 .. n  BY LenProperties
<1>2. ASSUME NEW i \in 1 .. n PROVE Moved[i] \in Calls
  <2>1. p[i] \in Calls  BY <1>1, ElementOfSeq
  <2>2. /\ p[i].sys \in Syscalls /\ p[i].args \in [DOMAIN Takes[p[i].sys] -> Values]
    BY <2>1, CallParts
  <2>3. ASSUME NEW a \in DOMAIN p[i].args
        PROVE  ShiftedForInsert(p[i].args[a], place) \in Values
    <3>1. p[i].args[a] \in Values  BY <2>2
    <3>2. p[i].args[a] = Plain \/ p[i].args[a].call < i  BY <1>1 DEF ValidCall
    <3>3. p[i].args[a] = Plain \/ p[i].args[a].call < MaxCalls
      BY <1>1, <3>1, <3>2, LimitsOK DEF Values, Refs, Gone
    <3>4. QED BY <3>1, <3>3, ShiftedValues
  <2>4. [a \in DOMAIN p[i].args |-> ShiftedForInsert(p[i].args[a], place)]
            \in [DOMAIN Takes[p[i].sys] -> Values]
    BY <2>2, <2>3
  <2>5. QED BY <1>1, <2>2, <2>4, IsCall
<1>3. Moved \in [1 .. n -> Calls]  BY <1>1, <1>2
<1>4. Moved \in Seq(Calls) /\ Len(Moved) = n
  <2> HIDE DEF Moved
  <2> QED BY <1>1, <1>3
<1>5. \A i \in 1 .. n :
         /\ DOMAIN Moved[i].args = DOMAIN p[i].args
         /\ \A a \in DOMAIN p[i].args :
               Moved[i].args[a] = ShiftedForInsert(p[i].args[a], place)
  BY <1>1
<1>6. QED BY <1>4, <1>5 DEF Mapped

LEMMA MappedForRemoval ==
    ASSUME NEW p \in Seq(Calls), Len(p) <= MaxCalls, NEW place \in Nat \ {0},
           \A i \in DOMAIN p : \A a \in DOMAIN p[i].args :
              p[i].args[a] = Plain \/ p[i].args[a].call < MaxCalls
    PROVE  LET q == Mapped(p, LAMBDA v : ShiftedForRemoval(v, place))
           IN  /\ q \in Seq(Calls) /\ Len(q) = Len(p)
               /\ \A i \in 1 .. Len(p) :
                     /\ DOMAIN q[i].args = DOMAIN p[i].args
                     /\ \A a \in DOMAIN p[i].args :
                           q[i].args[a] = ShiftedForRemoval(p[i].args[a], place)
<1> DEFINE n == Len(p)
           Moved == [i \in DOMAIN p |->
                       [sys |-> p[i].sys,
                        args |-> [a \in DOMAIN p[i].args |-> ShiftedForRemoval(p[i].args[a], place)]]]
<1>1. n \in Nat /\ DOMAIN p = 1 .. n  BY LenProperties
<1>2. ASSUME NEW i \in 1 .. n PROVE Moved[i] \in Calls
  <2>1. p[i] \in Calls  BY <1>1, ElementOfSeq
  <2>2. /\ p[i].sys \in Syscalls /\ p[i].args \in [DOMAIN Takes[p[i].sys] -> Values]
    BY <2>1, CallParts
  <2>3. ASSUME NEW a \in DOMAIN p[i].args
        PROVE  ShiftedForRemoval(p[i].args[a], place) \in Values
    BY <1>1, <2>2, ShiftedValues
  <2>4. [a \in DOMAIN p[i].args |-> ShiftedForRemoval(p[i].args[a], place)]
            \in [DOMAIN Takes[p[i].sys] -> Values]
    BY <2>2, <2>3
  <2>5. QED BY <1>1, <2>2, <2>4, IsCall
<1>3. Moved \in [1 .. n -> Calls]  BY <1>1, <1>2
<1>4. Moved \in Seq(Calls) /\ Len(Moved) = n
  <2> HIDE DEF Moved
  <2> QED BY <1>1, <1>3
<1>5. \A i \in 1 .. n :
         /\ DOMAIN Moved[i].args = DOMAIN p[i].args
         /\ \A a \in DOMAIN p[i].args :
               Moved[i].args[a] = ShiftedForRemoval(p[i].args[a], place)
  BY <1>1
<1>6. QED BY <1>4, <1>5 DEF Mapped

LEMMA InsertedAtProps ==
    ASSUME NEW S, NEW s \in Seq(S), NEW place \in 1 .. Len(s) + 1, NEW e \in S
    PROVE  /\ InsertedAt(s, place, e) \in Seq(S) /\ Len(InsertedAt(s, place, e)) = Len(s) + 1
           /\ \A i \in 1 .. Len(s) + 1 :
                 InsertedAt(s, place, e)[i] =
                     IF i < place THEN s[i] ELSE IF i = place THEN e ELSE s[i - 1]
<1> DEFINE l == SubSeq(s, 1, place - 1)
           r == SubSeq(s, place, Len(s))
<1>1. Len(s) \in Nat /\ \A i \in 1 .. Len(s) : s[i] \in S  BY LenProperties, ElementOfSeq
<1>2. l \in Seq(S) /\ Len(l) = place - 1 /\ \A i \in 1 .. place - 1 : l[i] = s[i]
  BY <1>1, SubSeqProperties
<1>3. /\ r \in Seq(S) /\ Len(r) = Len(s) - place + 1
      /\ \A i \in 1 .. Len(s) - place + 1 : r[i] = s[place + i - 1]
  BY <1>1, SubSeqProperties
<1>4. <<e>> \in Seq(S) /\ Len(<<e>>) = 1 /\ <<e>>[1] = e  OBVIOUS
<1> DEFINE one == <<e>>
<1> HIDE DEF l, r, one
<1> DEFINE le == l \o one
<1>5. one \in Seq(S) /\ Len(one) = 1 /\ one[1] = e  BY <1>4 DEF one
<1>6. /\ le \in Seq(S) /\ Len(le) = Len(l) + 1
      /\ \A i \in 1 .. Len(l) + 1 : le[i] = IF i <= Len(l) THEN l[i] ELSE one[i - Len(l)]
  <2>1. /\ le \in Seq(S) /\ Len(le) = Len(l) + Len(one)
        /\ \A i \in 1 .. Len(l) + Len(one) :
              le[i] = IF i <= Len(l) THEN l[i] ELSE one[i - Len(l)]
    BY <1>2, <1>5, ConcatProperties
  <2> HIDE DEF le
  <2>2. QED BY <1>5, <2>1
<1> HIDE DEF le
<1>7. /\ le \in Seq(S) /\ Len(le) = place
      /\ \A i \in 1 .. place : le[i] = IF i < place THEN s[i] ELSE e
  BY <1>1, <1>2, <1>5, <1>6
<1>8. /\ le \o r \in Seq(S) /\ Len(le \o r) = Len(le) + Len(r)
      /\ \A i \in 1 .. Len(le) + Len(r) :
            (le \o r)[i] = IF i <= Len(le) THEN le[i] ELSE r[i - Len(le)]
  BY <1>3, <1>7, ConcatProperties
<1> DEFINE all == le \o r
<1> HIDE DEF all
<1>9. /\ all \in Seq(S) /\ Len(all) = Len(s) + 1
      /\ \A i \in 1 .. Len(s) + 1 : all[i] = IF i <= place THEN le[i] ELSE r[i - place]
  BY <1>1, <1>3, <1>7, <1>8 DEF all
<1>10. \A i \in 1 .. Len(s) + 1 :
          all[i] = IF i < place THEN s[i] ELSE IF i = place THEN e ELSE s[i - 1]
  <2>1. SUFFICES ASSUME NEW i \in 1 .. Len(s) + 1
                 PROVE  all[i] = IF i < place THEN s[i] ELSE IF i = place THEN e ELSE s[i - 1]
    OBVIOUS
  <2>2. CASE i <= place  BY <1>1, <1>7, <1>9, <2>2
  <2>3. CASE i > place
    <3>1. i - place \in 1 .. Len(s) - place + 1 /\ place + (i - place) - 1 = i - 1  BY <1>1, <2>3
    <3>2. r[i - place] = s[place + (i - place) - 1]  BY <1>3, <3>1
    <3>3. QED BY <1>1, <1>9, <2>3, <3>1, <3>2
  <2>4. QED BY <1>1, <2>2, <2>3
<1>11. InsertedAt(s, place, e) = all  BY DEF InsertedAt, all, le, l, r, one
<1>12. QED BY <1>9, <1>10, <1>11

LEMMA RemovedAtProps ==
    ASSUME NEW S, NEW s \in Seq(S), NEW place \in 1 .. Len(s)
    PROVE  /\ RemovedAt(s, place) \in Seq(S)
           /\ Len(RemovedAt(s, place)) = Len(s) - 1
           /\ \A i \in 1 .. Len(s) - 1 :
                 RemovedAt(s, place)[i] = s[IF i < place THEN i ELSE i + 1]
<1> DEFINE l == SubSeq(s, 1, place - 1)
           r == SubSeq(s, place + 1, Len(s))
<1>1. Len(s) \in Nat /\ \A i \in 1 .. Len(s) : s[i] \in S  BY LenProperties, ElementOfSeq
<1>2. l \in Seq(S) /\ Len(l) = place - 1 /\ \A i \in 1 .. place - 1 : l[i] = s[i]
  BY <1>1, SubSeqProperties
<1>3. r \in Seq(S) /\ Len(r) = Len(s) - place /\ \A i \in 1 .. Len(s) - place : r[i] = s[place + i]
  BY <1>1, SubSeqProperties
<1> HIDE DEF l, r
<1>4. /\ l \o r \in Seq(S) /\ Len(l \o r) = Len(s) - 1
      /\ \A i \in 1 .. Len(s) - 1 : (l \o r)[i] = IF i <= place - 1 THEN l[i] ELSE r[i - (place - 1)]
  <2>1. /\ l \o r \in Seq(S) /\ Len(l \o r) = Len(l) + Len(r)
        /\ \A i \in 1 .. Len(l) + Len(r) : (l \o r)[i] = IF i <= Len(l) THEN l[i] ELSE r[i - Len(l)]
    BY <1>2, <1>3, ConcatProperties
  <2>2. Len(l) + Len(r) = Len(s) - 1  BY <1>1, <1>2, <1>3
  <2>3. QED BY <2>1, <2>2, <1>2
<1>5. ASSUME NEW i \in 1 .. Len(s) - 1
      PROVE  (l \o r)[i] = s[IF i < place THEN i ELSE i + 1]
  <2>1. CASE i < place  BY <1>1, <1>2, <1>4, <2>1
  <2>2. CASE ~ (i < place)
    <3>1. i - (place - 1) \in 1 .. Len(s) - place /\ place + (i - (place - 1)) = i + 1  BY <1>1, <2>2
    <3>2. (l \o r)[i] = s[place + (i - (place - 1))]  BY <1>1, <1>3, <1>4, <2>2, <3>1
    <3>3. QED BY <2>2, <3>1, <3>2
  <2>3. QED BY <2>1, <2>2
<1>6. QED BY <1>4, <1>5 DEF RemovedAt, l, r

LEMMA TruncatedProps ==
    ASSUME NEW S, NEW s \in Seq(S)
    PROVE  /\ Truncated(s) \in Seq(S)
           /\ Len(Truncated(s)) = IF Len(s) < MaxCalls THEN Len(s) ELSE MaxCalls
           /\ Len(Truncated(s)) <= Len(s)
           /\ \A i \in 1 .. Len(Truncated(s)) : Truncated(s)[i] = s[i]
<1>1. Len(s) \in Nat /\ \A i \in 1 .. Len(s) : s[i] \in S  BY LenProperties, ElementOfSeq
<1> DEFINE m == IF Len(s) < MaxCalls THEN Len(s) ELSE MaxCalls
<1>2. m \in Nat /\ m <= Len(s)  BY <1>1, LimitsOK
<1> HIDE DEF m
<1>3. /\ SubSeq(s, 1, m) \in Seq(S) /\ Len(SubSeq(s, 1, m)) = m
      /\ \A i \in 1 .. m : SubSeq(s, 1, m)[i] = s[i]
  BY <1>1, <1>2, SubSeqProperties
<1>4. QED BY <1>2, <1>3 DEF Truncated, m

LEMMA FunctionIsSeq ==
    ASSUME NEW S, NEW n \in Nat, NEW f \in [1 .. n -> S]
    PROVE  f \in Seq(S) /\ Len(f) = n
OBVIOUS

LEMMA SameAndNew ==
    ASSUME NEW S, NEW p \in Seq(S), NEW N \in Nat, Len(p) <= N
    PROVE  /\ Same(p) \in Seq(0 .. N) /\ Len(Same(p)) = Len(p)
           /\ New(p) \in Seq(0 .. N) /\ Len(New(p)) = Len(p)
           /\ \A i \in 1 .. Len(p) : Same(p)[i] = i /\ New(p)[i] = 0
<1>1. Len(p) \in Nat /\ DOMAIN p = 1 .. Len(p)  BY LenProperties
<1>2. Same(p) \in [1 .. Len(p) -> 0 .. N]  BY <1>1 DEF Same
<1>3. New(p) \in [1 .. Len(p) -> 0 .. N]  BY <1>1 DEF New
<1>4. \A i \in 1 .. Len(p) : Same(p)[i] = i /\ New(p)[i] = 0  BY <1>1 DEF Same, New
<1>5. QED BY <1>1, <1>2, <1>3, <1>4, FunctionIsSeq

-----------------------------------------------------------------------------
(* The inductive invariant: the calls that the running pass is through     *)
(* with are live.                                                          *)
Repaired ==
    pc = "repairing" =>
        /\ passes > 0
        /\ at <= Len(prog) + 1
        /\ \A i \in 1 .. at - 1 : OnOffer(prog, i)

IInv == TypeOK /\ RefsAreValid /\ UsesOffered /\ Repaired

LEMMA OfferedIsLive == IInv => UsesAreLive
BY OfferedCallIsLive DEF IInv, UsesOffered, UsesAreLive

(* Every mutation starts a repair with a program of the right type.        *)
LEMMA RepairingTyped ==
    ASSUME TypeOK, NEW p \in Seq(Calls), Len(p) <= MaxCalls,
           NEW from \in Seq(0 .. MaxCalls), Len(from) = Len(p), NEW n \in 1 .. 2,
           Repairing(p, from, n), UNCHANGED purpose
    PROVE  IInv'
<1>1. TypeOK'
  BY LimitsOK, EmptySeq DEF TypeOK, Repairing
<1>2. RefsAreValid' /\ UsesOffered'
  BY DEF RefsAreValid, UsesOffered, Repairing
<1>3. Repaired'
  <2>1. Len(p) \in Nat  BY LenProperties
  <2>2. QED BY <2>1 DEF Repaired, Repairing
<1>4. QED BY <1>1, <1>2, <1>3 DEF IInv

LEMMA InitIInv == Init => IInv
<1> SUFFICES ASSUME Init PROVE IInv  OBVIOUS
<1>1. prog \in Seq(Calls) /\ Len(prog) <= MaxCalls /\ \A i \in DOMAIN prog : ValidCall(prog, i)
  BY GivenOK DEF Init
<1>2. TypeOK
  <2>1. origin \in Seq(0 .. MaxCalls) /\ Len(origin) = Len(prog)
    BY <1>1, LimitsOK, SameAndNew DEF Init
  <2>2. QED BY <1>1, <2>1, LimitsOK, EmptySeq DEF Init, TypeOK
<1>3. QED BY <1>1, <1>2 DEF Init, IInv, RefsAreValid, UsesOffered, Repaired

LEMMA SpliceStep == ASSUME IInv, UseSplice PROVE IInv'
<1>1. TypeOK  BY DEF IInv
<1>2. PICK i \in DOMAIN prog, j \in DOMAIN draft :
         LET head == SubSeq(prog, 1, i - 1)
             tail == SubSeq(draft, j, Len(draft))
         IN  Repairing(Truncated(head \o tail), Truncated(Same(head) \o New(tail)), 2)
  BY DEF UseSplice
<1> DEFINE head == SubSeq(prog, 1, i - 1)
           tail == SubSeq(draft, j, Len(draft))
<1>3. i \in 1 .. Len(prog) /\ Len(prog) \in Nat /\ Len(prog) <= MaxCalls
  BY <1>1, LenProperties DEF TypeOK
<1>4. j \in 1 .. Len(draft) /\ Len(draft) \in Nat /\ Len(draft) <= MaxCalls
  BY <1>1, LenProperties DEF TypeOK
<1>5. head \in Seq(Calls) /\ Len(head) <= MaxCalls
  <2>1. \A m \in 1 .. i - 1 : prog[m] \in Calls  BY <1>1, <1>3, ElementOfSeq DEF TypeOK
  <2>2. head \in Seq(Calls) /\ Len(head) = IF 1 <= i - 1 THEN i - 1 - 1 + 1 ELSE 0
    BY <2>1, <1>3, SubSeqProperties
  <2>3. QED BY <2>2, <1>3, LimitsOK
<1>6. tail \in Seq(Calls) /\ Len(tail) <= MaxCalls
  <2>1. \A m \in j .. Len(draft) : draft[m] \in Calls  BY <1>1, <1>4, ElementOfSeq DEF TypeOK
  <2>2. tail \in Seq(Calls) /\ Len(tail) = IF j <= Len(draft) THEN Len(draft) - j + 1 ELSE 0
    BY <2>1, <1>4, SubSeqProperties
  <2>3. QED BY <2>2, <1>4, LimitsOK
<1> DEFINE p == head \o tail
           from == Same(head) \o New(tail)
<1> HIDE DEF head, tail
<1>7. /\ Same(head) \in Seq(0 .. MaxCalls) /\ Len(Same(head)) = Len(head)
      /\ New(tail) \in Seq(0 .. MaxCalls) /\ Len(New(tail)) = Len(tail)
  BY <1>5, <1>6, SameAndNew, LimitsOK
<1>8. p \in Seq(Calls) /\ Len(p) = Len(head) + Len(tail)
  BY <1>5, <1>6, ConcatProperties
<1>9. from \in Seq(0 .. MaxCalls) /\ Len(from) = Len(head) + Len(tail)
  <2> DEFINE S == 0 .. MaxCalls
             a == Same(head)
             b == New(tail)
  <2>1. a \in Seq(S) /\ b \in Seq(S) /\ Len(a) = Len(head) /\ Len(b) = Len(tail)  BY <1>7
  <2> HIDE DEF S, a, b
  <2>2. a \o b \in Seq(S) /\ Len(a \o b) = Len(a) + Len(b)  BY <2>1, ConcatProperties
  <2>3. QED BY <2>1, <2>2 DEF S, a, b
<1> HIDE DEF p, from
<1>10. Truncated(p) \in Seq(Calls) /\ Len(Truncated(p)) <= MaxCalls
  <2>1. Len(p) \in Nat  BY <1>8, LenProperties
  <2>2. QED BY <2>1, <1>8, TruncatedProps, LimitsOK
<1>11. Truncated(from) \in Seq(0 .. MaxCalls) /\ Len(Truncated(from)) = Len(Truncated(p))
  BY <1>8, <1>9, TruncatedProps
<1>12. Repairing(Truncated(p), Truncated(from), 2) /\ UNCHANGED purpose
  BY <1>2 DEF UseSplice, p, from, head, tail
<1>13. QED BY <1>1, <1>10, <1>11, <1>12, RepairingTyped

LEMMA InsertStep == ASSUME IInv, Insert PROVE IInv'
<1>1. TypeOK /\ \A i \in DOMAIN prog : ValidCall(prog, i)
  BY DEF IInv, RefsAreValid, Insert
<1>2. prog \in Seq(Calls) /\ Len(prog) \in Nat /\ Len(prog) < MaxCalls
  BY <1>1, LenProperties DEF TypeOK, Insert
<1>3. PICK place \in 1 .. Len(prog) + 1 :
         LET shifted == Mapped(prog, LAMBDA v : ShiftedForInsert(v, place))
         IN  \E s \in Syscalls : \E args \in Drawn(shifted, place - 1, s) :
                Repairing(InsertedAt(shifted, place, [sys |-> s, args |-> args]),
                          InsertedAt(Same(prog), place, 0), 1)
  BY DEF Insert
<1> DEFINE shifted == Mapped(prog, LAMBDA v : ShiftedForInsert(v, place))
<1>4. shifted \in Seq(Calls) /\ Len(shifted) = Len(prog)
  <2>1. place \in Nat \ {0}  BY <1>2, <1>3
  <2>2. QED BY <1>1, <1>2, <2>1, MappedForInsert
<1> HIDE DEF shifted
<1>51. PICK s \in Syscalls : \E args \in Drawn(shifted, place - 1, s) :
         Repairing(InsertedAt(shifted, place, [sys |-> s, args |-> args]),
                   InsertedAt(Same(prog), place, 0), 1)
  BY <1>3 DEF shifted
<1>5. PICK args \in Drawn(shifted, place - 1, s) :
         Repairing(InsertedAt(shifted, place, [sys |-> s, args |-> args]),
                   InsertedAt(Same(prog), place, 0), 1)
  BY <1>51
<1> DEFINE c == [sys |-> s, args |-> args]
<1>6. c \in Calls
  <2>1. place - 1 \in Nat  BY <1>2, <1>3
  <2>2. QED BY <2>1, <1>4, <1>5, DrawnArgs
<1> HIDE DEF c
<1>7. /\ InsertedAt(shifted, place, c) \in Seq(Calls)
      /\ Len(InsertedAt(shifted, place, c)) = Len(prog) + 1
  BY <1>3, <1>4, <1>6, InsertedAtProps
<1>8. /\ InsertedAt(Same(prog), place, 0) \in Seq(0 .. MaxCalls)
      /\ Len(InsertedAt(Same(prog), place, 0)) = Len(prog) + 1
  <2>1. Same(prog) \in Seq(0 .. MaxCalls) /\ Len(Same(prog)) = Len(prog)
    BY <1>2, SameAndNew, LimitsOK
  <2>2. 0 \in 0 .. MaxCalls  BY LimitsOK
  <2> DEFINE S == 0 .. MaxCalls
             from == Same(prog)
  <2>3. from \in Seq(S) /\ 0 \in S /\ Len(from) = Len(prog) /\ place \in 1 .. Len(from) + 1
    BY <1>3, <2>1, <2>2
  <2> HIDE DEF S, from
  <2>4. InsertedAt(from, place, 0) \in Seq(S) /\ Len(InsertedAt(from, place, 0)) = Len(from) + 1
    BY <2>3, InsertedAtProps
  <2>5. QED BY <2>3, <2>4 DEF S, from
<1>9. Repairing(InsertedAt(shifted, place, c), InsertedAt(Same(prog), place, 0), 1) /\ UNCHANGED purpose
  BY <1>5 DEF c, Insert
<1>10. Len(prog) + 1 <= MaxCalls  BY <1>2, LimitsOK
<1>11. QED BY <1>1, <1>7, <1>8, <1>9, <1>10, RepairingTyped

LEMMA RemoveStep == ASSUME IInv, Remove PROVE IInv'
<1>1. TypeOK /\ \A i \in DOMAIN prog : ValidCall(prog, i)
  BY DEF IInv, RefsAreValid, Remove
<1>2. prog \in Seq(Calls) /\ Len(prog) \in Nat /\ Len(prog) <= MaxCalls /\ DOMAIN prog = 1 .. Len(prog)
  BY <1>1, LenProperties DEF TypeOK
<1>3. PICK place \in 1 .. Len(prog) :
         Repairing(Mapped(RemovedAt(prog, place), LAMBDA v : ShiftedForRemoval(v, place)),
                   RemovedAt(Same(prog), place), 1)
  BY <1>2 DEF Remove
<1> DEFINE others == RemovedAt(prog, place)
<1>4. /\ others \in Seq(Calls) /\ Len(others) = Len(prog) - 1
      /\ \A i \in 1 .. Len(prog) - 1 : others[i] = prog[IF i < place THEN i ELSE i + 1]
  <2>1. prog \in Seq(Calls) /\ place \in 1 .. Len(prog)  BY <1>2
  <2>2. QED BY ONLY <2>1, RemovedAtProps
<1> HIDE DEF others
<1>5. ASSUME NEW i \in DOMAIN others, NEW a \in DOMAIN others[i].args
      PROVE  others[i].args[a] = Plain \/ others[i].args[a].call < MaxCalls
  <2>1. i \in 1 .. Len(prog) - 1  BY <1>4, LenProperties
  <2>2. PICK j \in 1 .. Len(prog) : others[i] = prog[j]  BY <1>2, <1>3, <1>4, <2>1
  <2>3. prog[j] \in Calls  BY <1>2, ElementOfSeq
  <2>4. prog[j].args[a] \in Values  BY <2>2, <2>3, CallParts, <1>5
  <2>5. prog[j].args[a] = Plain \/ prog[j].args[a].call < j
    BY <1>1, <1>2, <1>5, <2>2 DEF ValidCall
  <2>6. QED BY <1>2, <2>2, <2>4, <2>5, LimitsOK DEF Values, Refs, Gone
<1> DEFINE q == Mapped(others, LAMBDA v : ShiftedForRemoval(v, place))
<1>6. q \in Seq(Calls) /\ Len(q) = Len(others)
  <2>1. place \in Nat \ {0} /\ Len(others) <= MaxCalls  BY <1>2, <1>3, <1>4, LimitsOK
  <2>2. QED BY <2>1, <1>4, <1>5, MappedForRemoval
<1>7. /\ RemovedAt(Same(prog), place) \in Seq(0 .. MaxCalls)
      /\ Len(RemovedAt(Same(prog), place)) = Len(prog) - 1
  <2>1. Same(prog) \in Seq(0 .. MaxCalls) /\ Len(Same(prog)) = Len(prog)
    BY <1>2, SameAndNew, LimitsOK
  <2>2. QED BY <2>1, RemovedAtProps
<1>8. Repairing(q, RemovedAt(Same(prog), place), 1) /\ UNCHANGED purpose
  BY <1>3 DEF Remove, others
<1>9. Len(q) <= MaxCalls  BY <1>2, <1>4, <1>6, LimitsOK
<1> HIDE DEF q
<1>10. QED BY <1>1, <1>4, <1>6, <1>7, <1>8, <1>9, RepairingTyped

LEMMA RedrawStep == ASSUME IInv, RedrawArgs PROVE IInv'
<1>1. TypeOK  BY DEF IInv
<1>2. prog \in Seq(Calls) /\ Len(prog) \in Nat /\ Len(prog) <= MaxCalls /\ DOMAIN prog = 1 .. Len(prog)
  BY <1>1, LenProperties DEF TypeOK
<1>31. PICK i \in 1 .. Len(prog) : \E args \in Drawn(prog, i - 1, prog[i].sys) :
         Repairing([prog EXCEPT ![i] = [sys |-> prog[i].sys, args |-> args]],
                   [Same(prog) EXCEPT ![i] = 0], 1)
  BY <1>2 DEF RedrawArgs
<1>3. PICK args \in Drawn(prog, i - 1, prog[i].sys) :
         Repairing([prog EXCEPT ![i] = [sys |-> prog[i].sys, args |-> args]],
                   [Same(prog) EXCEPT ![i] = 0], 1)
  BY <1>31
<1>4. prog[i].sys \in Syscalls  BY <1>2, ElementOfSeq, CallParts
<1> DEFINE c == [sys |-> prog[i].sys, args |-> args]
<1>5. c \in Calls
  <2>1. i - 1 \in Nat  BY <1>2
  <2>2. QED BY <2>1, <1>2, <1>3, <1>4, DrawnArgs
<1> HIDE DEF c
<1>6. [prog EXCEPT ![i] = c] \in Seq(Calls) /\ Len([prog EXCEPT ![i] = c]) = Len(prog)
  BY <1>2, <1>5, ExceptSeq
<1>7. /\ [Same(prog) EXCEPT ![i] = 0] \in Seq(0 .. MaxCalls)
      /\ Len([Same(prog) EXCEPT ![i] = 0]) = Len(prog)
  <2>1. Same(prog) \in Seq(0 .. MaxCalls) /\ Len(Same(prog)) = Len(prog)
    BY <1>2, SameAndNew, LimitsOK
  <2>2. 0 \in 0 .. MaxCalls  BY LimitsOK
  <2>3. QED BY <1>3, <2>1, <2>2, ExceptSeq
<1>8. Repairing([prog EXCEPT ![i] = c], [Same(prog) EXCEPT ![i] = 0], 1) /\ UNCHANGED purpose
  BY <1>3 DEF RedrawArgs, c
<1> DEFINE p == [prog EXCEPT ![i] = c]
           from == [Same(prog) EXCEPT ![i] = 0]
<1>9. Len(p) <= MaxCalls /\ Len(from) = Len(p)  BY <1>2, <1>6, <1>7
<1> HIDE DEF p, from
<1>10. p \in Seq(Calls) /\ from \in Seq(0 .. MaxCalls) /\ Repairing(p, from, 1)
  BY <1>6, <1>7, <1>8 DEF p, from
<1>11. QED BY <1>1, <1>8, <1>9, <1>10, RepairingTyped

(* Every step keeps the invariant.                                         *)
LEMMA NextIInv == ASSUME IInv, [Next]_vars PROVE IInv'
<1> TypeOK  BY DEF IInv
<1>1. ASSUME NEW p \in {"new", "splice", "refill"}, Generating(p),
             pc = "idle" \/ pc = "generating"
      PROVE  IInv'
  <2>1. Same(prog) \in Seq(0 .. MaxCalls) /\ Len(Same(prog)) = Len(prog)
    BY SameAndNew, LimitsOK DEF TypeOK
  <2>2. TypeOK'  BY <1>1, <2>1, EmptySeq, LimitsOK DEF TypeOK, Generating
  <2>3. RefsAreValid' /\ UsesOffered'
    BY <1>1 DEF Generating, RefsAreValid, UsesOffered
  <2>4. Repaired'  BY <1>1 DEF Generating, Repaired
  <2>5. QED BY <2>2, <2>3, <2>4 DEF IInv
<1>2. CASE Generate  BY <1>1, <1>2 DEF Generate
<1>3. CASE StartSplice  BY <1>1, <1>3 DEF StartSplice
<1>4. CASE Refill  BY <1>1, <1>4 DEF Refill, Generated
<1>5. CASE GenerateCall
  <2>0. PICK s \in Syscalls : \E args \in Drawn(draft, Len(draft), s) :
           draft' = Append(draft, [sys |-> s, args |-> args])
    BY <1>5 DEF GenerateCall
  <2>1. PICK args \in Drawn(draft, Len(draft), s) :
           draft' = Append(draft, [sys |-> s, args |-> args])
    BY <2>0
  <2>2. \A i \in DOMAIN draft : OnOffer(draft, i)  BY DEF IInv, UsesOffered
  <2>3. draft' \in Seq(Calls) /\ \A i \in DOMAIN draft' : OnOffer(draft', i)
    BY <2>1, <2>2, AppendLive DEF TypeOK
  <2>4. Len(draft') <= MaxCalls
    <3>1. [sys |-> s, args |-> args] \in Calls /\ Len(draft) \in Nat
      BY DrawnArgs, LenProperties DEF TypeOK
    <3>2. Len(draft') = Len(draft) + 1  BY <2>1, <3>1, AppendProperties DEF TypeOK
    <3>3. QED BY <1>5, <3>1, <3>2, LimitsOK DEF GenerateCall
  <2>5. TypeOK'  BY <1>5, <2>3, <2>4 DEF GenerateCall, TypeOK
  <2>6. \A i \in DOMAIN draft' : ValidCall(draft', i)  BY <2>3, LiveIsValid
  <2>7. RefsAreValid' /\ UsesOffered' /\ Repaired'
    BY <1>5, <2>3, <2>6 DEF GenerateCall, RefsAreValid, UsesOffered, Repaired
  <2>8. QED BY <2>5, <2>7 DEF IInv
<1>6. CASE UseNew
  <2>1. TypeOK'
    <3>1. New(draft) \in Seq(0 .. MaxCalls) /\ Len(New(draft)) = Len(draft)
      BY SameAndNew, LimitsOK DEF TypeOK
    <3>2. QED BY <1>6, <3>1, EmptySeq, LimitsOK DEF UseNew, Generated, TypeOK
  <2>2. RefsAreValid' /\ UsesOffered' /\ Repaired'
    BY <1>6 DEF IInv, UseNew, Generated, RefsAreValid, UsesOffered, Repaired
  <2>3. QED BY <2>1, <2>2 DEF IInv
<1>7. CASE UseRefill
  <2>1. New(draft) \in Seq(0 .. MaxCalls) /\ Len(New(draft)) = Len(draft)
    BY SameAndNew, LimitsOK DEF TypeOK
  <2>2. QED BY <1>7, <2>1, RepairingTyped DEF UseRefill, TypeOK
<1>8. CASE LeaveRefs
  <2>1. Same(prog) \in Seq(0 .. MaxCalls) /\ Len(Same(prog)) = Len(prog)
    BY SameAndNew, LimitsOK DEF TypeOK
  <2>2. QED BY <1>8, <2>1, RepairingTyped DEF LeaveRefs, TypeOK
<1>9. CASE RepairCall
  <2>1. at \in DOMAIN prog /\ at \in Nat /\ Len(prog) \in Nat
    BY <1>9, LenProperties, LimitsOK DEF RepairCall, TypeOK
  <2>2. \A i \in 1 .. at - 1 : OnOffer(prog, i)  BY <1>9 DEF IInv, Repaired, RepairCall
  <2>3. prog' \in Seq(Calls) /\ Len(prog') = Len(prog) /\ \A i \in 1 .. at : OnOffer(prog', i)
    BY <1>9, <2>1, <2>2, RepairStep DEF RepairCall, TypeOK
  <2>4. TypeOK'  BY <1>9, <2>1, <2>3, LimitsOK DEF RepairCall, TypeOK
  <2>5. RefsAreValid' /\ UsesOffered'
    BY <1>9 DEF IInv, RepairCall, RefsAreValid, UsesOffered
  <2>6. Repaired'
    <3>1. at' - 1 = at /\ at' <= Len(prog') + 1  BY <1>9, <2>1, <2>3 DEF RepairCall
    <3>2. QED BY <1>9, <2>3, <3>1 DEF IInv, RepairCall, Repaired
  <2>7. QED BY <2>4, <2>5, <2>6 DEF IInv
<1>10. CASE EndPass
  <2>1. passes > 0 /\ at <= Len(prog) + 1 /\ \A i \in 1 .. at - 1 : OnOffer(prog, i)
    BY <1>10 DEF IInv, Repaired, EndPass
  <2>2. DOMAIN prog = 1 .. Len(prog) /\ Len(prog) \in Nat  BY LenProperties DEF TypeOK
  <2>3. \A i \in DOMAIN prog : OnOffer(prog, i)
    <3>1. at - 1 = Len(prog)  BY <1>10, <2>1, <2>2 DEF EndPass, TypeOK
    <3>2. QED BY <2>1, <2>2, <3>1
  <2>4. \A i \in DOMAIN prog : ValidCall(prog, i)  BY <2>3, LiveIsValid DEF TypeOK
  <2>5. TypeOK'  BY <1>10, <2>1, LimitsOK DEF EndPass, TypeOK
  <2>6. RefsAreValid' /\ UsesOffered'
    BY <1>10, <2>3, <2>4 DEF IInv, EndPass, RefsAreValid, UsesOffered
  <2>7. Repaired'  BY <1>10, <2>2, <2>1 DEF EndPass, Repaired, TypeOK
  <2>8. QED BY <2>5, <2>6, <2>7 DEF IInv
<1>11. CASE UNCHANGED vars
  BY <1>11 DEF vars, IInv, TypeOK, RefsAreValid, UsesOffered, Repaired
<1>12. QED
  BY <1>2, <1>3, <1>4, <1>5, <1>6, <1>7, <1>8, <1>9, <1>10, <1>11,
     SpliceStep, InsertStep, RemoveStep, RedrawStep DEF Next

LEMMA Invariance == Spec => []IInv
<1>1. IInv /\ [Next]_vars => IInv'  BY NextIInv
<1>2. QED BY InitIInv, <1>1, PTL DEF Spec

(* Programs keep their type and their limit of calls through every         *)
(* mutation (mutate_with_choice_table_and_edge_bias).                      *)
THEOREM ProgramTypeOK == Spec => []TypeOK
BY Invariance, PTL DEF IInv

(* What is generated or mutated, from whatever valid corpus, passes the    *)
(* check of references that validate_program makes (validate_result_ref).  *)
THEOREM ReferencesValid == Spec => []RefsAreValid
BY Invariance, PTL DEF IInv

(* Whatever is generated or mutated, references are valid and lead to no   *)
(* result that was closed (validate_result_ref, consume_call_resources).   *)
THEOREM ReferencesSound == Spec => []RefsAreSound
<1>1. IInv => RefsAreSound  BY OfferedIsLive DEF IInv, RefsAreSound
<1>2. QED BY <1>1, Invariance, PTL

(* After a mutation, no call uses a result that an earlier call closed     *)
(* (consume_call_resources).                                               *)
THEOREM NoUseAfterClose == Spec => []UsesAreLive
BY Invariance, OfferedIsLive, PTL

-----------------------------------------------------------------------------
(* Mutations carry references along.  Call i of p was call from[i] before, *)
(* and where it used result v of a call that is now call j, it uses the    *)
(* same result of j: always before the repair, and where that is on offer  *)
(* after it.                                                               *)
NowAt(v, j) == [call |-> j, result |-> v.result]

Carried(p, from, before, i) ==
    \A j \in DOMAIN p : from[i] # 0 /\ from[j] # 0 =>
        \A a \in DOMAIN p[i].args : LET v == before[from[i]].args[a] IN
            v.call = from[j] => p[i].args[a] = NowAt(v, j)

Kept(p, from, before, i) ==
    \A j \in DOMAIN p : from[i] # 0 /\ from[j] # 0 =>
        \A a \in DOMAIN p[i].args : LET v == before[from[i]].args[a] IN
            v.call = from[j] /\ NowAt(v, j) \in Offered(p, i - 1, p[i].sys, a)
                => p[i].args[a] = NowAt(v, j)

(* The calls ahead of the first pass have what the mutation left; the      *)
(* second finds everything on offer and changes nothing.                   *)
FirstPass ==
    /\ \A i \in 1 .. at - 1 : Kept(prog, origin, old, i)
    /\ \A i \in at .. Len(prog) : Carried(prog, origin, old, i)

Settled == \A i \in DOMAIN prog : Kept(prog, origin, old, i) /\ OnOffer(prog, i)

Following ==
    /\ pc = "idle" => \A i \in DOMAIN prog : Kept(prog, origin, old, i)
    /\ pc = "repairing" => FirstPass \/ Settled

LEMMA FollowingIsFollowed == Following => RefsFollowTheirCalls
BY DEF Following, Kept, NowAt, RefsFollowTheirCalls

LEMMA ValuesAreReferences ==
    ASSUME NEW v \in Values
    PROVE  v = NowAt(v, v.call) /\ v.call \in Nat
BY LimitsOK DEF Values, Refs, Plain, Gone, NowAt

(* A mutation starts a repair with references carried along.               *)
LEMMA CarriedStarts ==
    ASSUME NEW p \in Seq(Calls), NEW from, NEW n, Repairing(p, from, n),
           \A i \in 1 .. Len(p) : Carried(p, from, prog, i)
    PROVE  Following'
<1>1. Len(p) \in Nat  BY LenProperties
<1>2. at' = 1 /\ prog' = p /\ origin' = from /\ old' = prog /\ pc' = "repairing"
  BY DEF Repairing
<1>3. FirstPass'  BY <1>1, <1>2 DEF FirstPass
<1>4. QED BY <1>2, <1>3 DEF Following

LEMMA LeaveRefsFollowing == ASSUME IInv, LeaveRefs PROVE Following'
<1>1. prog \in Seq(Calls) /\ Len(prog) <= MaxCalls  BY DEF IInv, TypeOK
<1>2. \A i \in 1 .. Len(prog) : Same(prog)[i] = i  BY <1>1, SameAndNew, LimitsOK
<1>3. ASSUME NEW i \in 1 .. Len(prog) PROVE Carried(prog, Same(prog), prog, i)
  <2>1. DOMAIN prog = 1 .. Len(prog) /\ prog[i] \in Calls
    BY <1>1, LenProperties, ElementOfSeq
  <2>2. \A a \in DOMAIN prog[i].args : prog[i].args[a] \in Values  BY <2>1, CallParts
  <2>3. QED BY <1>2, <2>1, <2>2, ValuesAreReferences DEF Carried
<1>4. QED BY <1>1, <1>3, CarriedStarts DEF LeaveRefs

LEMMA RedrawFollowing == ASSUME IInv, RedrawArgs PROVE Following'
<1>1. prog \in Seq(Calls) /\ Len(prog) \in Nat /\ Len(prog) <= MaxCalls /\ DOMAIN prog = 1 .. Len(prog)
  BY LenProperties DEF IInv, TypeOK
<1>2. PICK k \in 1 .. Len(prog) : \E args \in Drawn(prog, k - 1, prog[k].sys) :
         Repairing([prog EXCEPT ![k] = [sys |-> prog[k].sys, args |-> args]],
                   [Same(prog) EXCEPT ![k] = 0], 1)
  BY <1>1 DEF RedrawArgs
<1>3. PICK args \in Drawn(prog, k - 1, prog[k].sys) :
         Repairing([prog EXCEPT ![k] = [sys |-> prog[k].sys, args |-> args]],
                   [Same(prog) EXCEPT ![k] = 0], 1)
  BY <1>2
<1> DEFINE c == [sys |-> prog[k].sys, args |-> args]
           p == [prog EXCEPT ![k] = c]
           from == [Same(prog) EXCEPT ![k] = 0]
<1>4. c \in Calls
  <2>1. k - 1 \in Nat  BY <1>1
  <2>2. prog[k].sys \in Syscalls  BY <1>1, ElementOfSeq, CallParts
  <2>3. QED BY <2>1, <2>2, <1>1, <1>3, DrawnArgs
<1>5. Repairing(p, from, 1)  BY <1>3
<1> HIDE DEF c
<1>6. /\ p \in Seq(Calls) /\ Len(p) = Len(prog)
      /\ \A i \in 1 .. Len(prog) : p[i] = IF i = k THEN c ELSE prog[i]
  BY <1>1, <1>4, ExceptSeq
<1>7. \A i \in 1 .. Len(prog) : from[i] = IF i = k THEN 0 ELSE i
  <2>1. \A i \in 1 .. Len(prog) : Same(prog)[i] = i  BY <1>1, SameAndNew, LimitsOK
  <2>2. DOMAIN Same(prog) = 1 .. Len(prog)  BY <1>1 DEF Same
  <2>3. QED BY <2>1, <2>2
<1> HIDE DEF p, from
<1>8. ASSUME NEW i \in 1 .. Len(p) PROVE Carried(p, from, prog, i)
  <2>1. SUFFICES ASSUME NEW j \in 1 .. Len(p), from[i] # 0, from[j] # 0,
                        NEW a \in DOMAIN p[i].args,
                        prog[from[i]].args[a].call = from[j]
                 PROVE  p[i].args[a] = NowAt(prog[from[i]].args[a], j)
    BY <1>6, LenProperties DEF Carried
  <2>2. from[i] = i /\ from[j] = j /\ p[i] = prog[i]  BY <1>6, <1>7, <2>1
  <2>3. prog[i].args[a] \in Values  BY <1>1, <1>6, <2>1, <2>2, ElementOfSeq, CallParts
  <2>4. QED BY <2>1, <2>2, <2>3, ValuesAreReferences
<1>9. QED BY <1>5, <1>6, <1>8, CarriedStarts

(* Both shifts move a reference with the call it names.                    *)
LEMMA ShiftsFollow ==
    ASSUME NEW v \in Values, NEW place \in Nat \ {0}, NEW was \in Nat, v.call = was
    PROVE  /\ was < place => /\ ShiftedForInsert(v, place) = NowAt(v, was)
                           /\ ShiftedForRemoval(v, place) = NowAt(v, was)
           /\ was >= place => ShiftedForInsert(v, place) = NowAt(v, was + 1)
           /\ was > place => ShiftedForRemoval(v, place) = NowAt(v, was - 1)
<1>1. v = [call |-> was, result |-> v.result]  BY ValuesAreReferences DEF NowAt
<1>2. [v EXCEPT !.call = @ + 1] = NowAt(v, was + 1)  BY <1>1 DEF NowAt
<1>3. [v EXCEPT !.call = @ - 1] = NowAt(v, was - 1)  BY <1>1 DEF NowAt
<1>4. v = NowAt(v, was)  BY ValuesAreReferences
<1>5. QED BY <1>2, <1>3, <1>4 DEF ShiftedForInsert, ShiftedForRemoval

LEMMA InsertFollowing == ASSUME IInv, Insert PROVE Following'
<1>1. /\ prog \in Seq(Calls) /\ Len(prog) \in Nat /\ Len(prog) < MaxCalls
      /\ DOMAIN prog = 1 .. Len(prog)
      /\ \A i \in DOMAIN prog : ValidCall(prog, i)
  BY LenProperties DEF IInv, TypeOK, RefsAreValid, Insert
<1>2. PICK place \in 1 .. Len(prog) + 1 :
         LET shifted == Mapped(prog, LAMBDA v : ShiftedForInsert(v, place))
         IN  \E s \in Syscalls : \E args \in Drawn(shifted, place - 1, s) :
                Repairing(InsertedAt(shifted, place, [sys |-> s, args |-> args]),
                          InsertedAt(Same(prog), place, 0), 1)
  BY DEF Insert
<1> DEFINE shifted == Mapped(prog, LAMBDA v : ShiftedForInsert(v, place))
<1>3. /\ shifted \in Seq(Calls) /\ Len(shifted) = Len(prog)
      /\ \A i \in 1 .. Len(prog) :
            /\ DOMAIN shifted[i].args = DOMAIN prog[i].args
            /\ \A a \in DOMAIN prog[i].args :
                  shifted[i].args[a] = ShiftedForInsert(prog[i].args[a], place)
  <2>1. place \in Nat \ {0}  BY <1>1, <1>2
  <2>2. QED BY <1>1, <2>1, MappedForInsert
<1> HIDE DEF shifted
<1>4. PICK s \in Syscalls : \E args \in Drawn(shifted, place - 1, s) :
         Repairing(InsertedAt(shifted, place, [sys |-> s, args |-> args]),
                   InsertedAt(Same(prog), place, 0), 1)
  BY <1>2 DEF shifted
<1>5. PICK args \in Drawn(shifted, place - 1, s) :
         Repairing(InsertedAt(shifted, place, [sys |-> s, args |-> args]),
                   InsertedAt(Same(prog), place, 0), 1)
  BY <1>4
<1> DEFINE c == [sys |-> s, args |-> args]
           p == InsertedAt(shifted, place, c)
           from == InsertedAt(Same(prog), place, 0)
<1>6. c \in Calls
  <2>1. place - 1 \in Nat  BY <1>1, <1>2
  <2>2. QED BY <2>1, <1>3, <1>5, DrawnArgs
<1>7. Repairing(p, from, 1)  BY <1>5
<1> HIDE DEF c
<1>8. /\ p \in Seq(Calls) /\ Len(p) = Len(prog) + 1
      /\ \A i \in 1 .. Len(prog) + 1 :
            p[i] = IF i < place THEN shifted[i] ELSE IF i = place THEN c ELSE shifted[i - 1]
  <2>1. shifted \in Seq(Calls) /\ place \in 1 .. Len(shifted) + 1  BY <1>2, <1>3
  <2>2. /\ p \in Seq(Calls) /\ Len(p) = Len(shifted) + 1
        /\ \A i \in 1 .. Len(shifted) + 1 :
              p[i] = IF i < place THEN shifted[i] ELSE IF i = place THEN c ELSE shifted[i - 1]
    BY <2>1, <1>6, InsertedAtProps
  <2> HIDE DEF p
  <2>3. QED BY <1>3, <2>2
<1>9. \A i \in 1 .. Len(prog) + 1 :
         from[i] = IF i < place THEN i ELSE IF i = place THEN 0 ELSE i - 1
  <2> DEFINE S == 0 .. MaxCalls
             same == Same(prog)
  <2>1. /\ same \in Seq(S) /\ 0 \in S /\ Len(same) = Len(prog) /\ place \in 1 .. Len(same) + 1
        /\ \A i \in 1 .. Len(prog) : same[i] = i
    BY <1>1, <1>2, SameAndNew, LimitsOK
  <2> HIDE DEF S, same
  <2>2. \A i \in 1 .. Len(same) + 1 :
           InsertedAt(same, place, 0)[i] =
               IF i < place THEN same[i] ELSE IF i = place THEN 0 ELSE same[i - 1]
    BY <2>1, InsertedAtProps
  <2>3. QED BY <1>1, <1>2, <2>1, <2>2 DEF same
<1> HIDE DEF p, from
<1>10. ASSUME NEW i \in 1 .. Len(p) PROVE Carried(p, from, prog, i)
  <2>1. SUFFICES ASSUME NEW j \in 1 .. Len(p), from[i] # 0, from[j] # 0,
                        NEW a \in DOMAIN p[i].args,
                        prog[from[i]].args[a].call = from[j]
                 PROVE  p[i].args[a] = NowAt(prog[from[i]].args[a], j)
    BY <1>8, LenProperties DEF Carried
  <2> DEFINE v == prog[from[i]].args[a]
  <2>2. from[i] \in 1 .. Len(prog) /\ p[i] = shifted[from[i]]
    BY <1>1, <1>2, <1>8, <1>9, <2>1
  <2>3. a \in DOMAIN prog[from[i]].args /\ p[i].args[a] = ShiftedForInsert(v, place)
    BY <1>3, <2>1, <2>2
  <2>4. v \in Values  BY <1>1, <2>2, <2>3, ElementOfSeq, CallParts
  <2>5. /\ from[j] \in Nat
        /\ from[j] < place => j = from[j]
        /\ from[j] >= place => j = from[j] + 1
    BY <1>1, <1>2, <1>8, <1>9, <2>1
  <2>6. place \in Nat \ {0} /\ v.call = from[j]  BY <1>1, <1>2, <2>1
  <2> HIDE DEF v
  <2>7. p[i].args[a] = NowAt(v, j)
    <3>1. CASE from[j] < place  BY <2>3, <2>4, <2>5, <2>6, <3>1, ShiftsFollow
    <3>2. CASE from[j] >= place  BY <2>3, <2>4, <2>5, <2>6, <3>2, ShiftsFollow
    <3>3. QED BY <2>5, <2>6, <3>1, <3>2
  <2>8. QED BY <2>7 DEF v
<1>11. QED BY <1>7, <1>8, <1>10, CarriedStarts

LEMMA RemoveFollowing == ASSUME IInv, Remove PROVE Following'
<1>1. /\ prog \in Seq(Calls) /\ Len(prog) \in Nat /\ Len(prog) <= MaxCalls
      /\ DOMAIN prog = 1 .. Len(prog)
      /\ \A i \in DOMAIN prog : ValidCall(prog, i)
  BY LenProperties DEF IInv, TypeOK, RefsAreValid, Remove
<1>2. PICK place \in 1 .. Len(prog) :
         Repairing(Mapped(RemovedAt(prog, place), LAMBDA v : ShiftedForRemoval(v, place)),
                   RemovedAt(Same(prog), place), 1)
  BY <1>1 DEF Remove
<1> DEFINE others == RemovedAt(prog, place)
           Was(i) == IF i < place THEN i ELSE i + 1
<1>3. /\ others \in Seq(Calls) /\ Len(others) = Len(prog) - 1
      /\ \A i \in 1 .. Len(prog) - 1 : others[i] = prog[Was(i)]
  <2>1. prog \in Seq(Calls) /\ place \in 1 .. Len(prog)  BY <1>1
  <2>2. QED BY ONLY <2>1, RemovedAtProps
<1>4. \A i \in 1 .. Len(prog) - 1 : Was(i) \in 1 .. Len(prog) /\ Was(i) # place  BY <1>1, <1>2
<1> DEFINE from == RemovedAt(Same(prog), place)
<1>5. \A i \in 1 .. Len(prog) - 1 : from[i] = Was(i)
  <2> DEFINE S == 0 .. MaxCalls
             same == Same(prog)
  <2>1. /\ same \in Seq(S) /\ Len(same) = Len(prog) /\ place \in 1 .. Len(same)
        /\ \A i \in 1 .. Len(prog) : same[i] = i
    BY <1>1, <1>2, SameAndNew, LimitsOK
  <2> HIDE DEF S, same
  <2>2. \A i \in 1 .. Len(same) - 1 : RemovedAt(same, place)[i] = same[Was(i)]
    BY <2>1, RemovedAtProps
  <2> HIDE DEF Was
  <2>3. QED BY <1>4, <2>1, <2>2 DEF same
<1> DEFINE p == Mapped(others, LAMBDA v : ShiftedForRemoval(v, place))
<1>6. Repairing(p, from, 1)  BY <1>2
<1> HIDE DEF others, from
<1>7. ASSUME NEW i \in DOMAIN others, NEW a \in DOMAIN others[i].args
      PROVE  others[i].args[a] = Plain \/ others[i].args[a].call < MaxCalls
  <2>1. i \in 1 .. Len(prog) - 1  BY <1>3, LenProperties
  <2>2. PICK k \in 1 .. Len(prog) : others[i] = prog[k]  BY <1>3, <1>4, <2>1
  <2>3. prog[k].args[a] \in Values  BY <1>1, <1>7, <2>2, ElementOfSeq, CallParts
  <2>4. prog[k].args[a] = Plain \/ prog[k].args[a].call < k
    BY <1>1, <1>7, <2>2 DEF ValidCall
  <2>5. QED BY <1>1, <2>2, <2>3, <2>4, LimitsOK DEF Values, Refs, Gone
<1>8. /\ p \in Seq(Calls) /\ Len(p) = Len(others)
      /\ \A i \in 1 .. Len(others) :
            /\ DOMAIN p[i].args = DOMAIN others[i].args
            /\ \A a \in DOMAIN others[i].args :
                  p[i].args[a] = ShiftedForRemoval(others[i].args[a], place)
  <2>1. place \in Nat \ {0} /\ Len(others) <= MaxCalls  BY <1>1, <1>2, <1>3, LimitsOK
  <2>2. QED BY <2>1, <1>3, <1>7, MappedForRemoval
<1> HIDE DEF p
<1>9. ASSUME NEW i \in 1 .. Len(p) PROVE Carried(p, from, prog, i)
  <2>1. SUFFICES ASSUME NEW j \in 1 .. Len(p), NEW a \in DOMAIN p[i].args,
                        prog[from[i]].args[a].call = from[j]
                 PROVE  p[i].args[a] = NowAt(prog[from[i]].args[a], j)
    BY <1>8, LenProperties DEF Carried
  <2>2. i \in 1 .. Len(prog) - 1 /\ j \in 1 .. Len(prog) - 1  BY <1>3, <1>8
  <2>3. from[i] \in 1 .. Len(prog) /\ others[i] = prog[from[i]]
    BY <1>3, <1>4, <1>5, <2>2
  <2>4. /\ from[j] \in 1 .. Len(prog) /\ from[j] # place
        /\ from[j] < place => j = from[j]
        /\ from[j] > place => j = from[j] - 1
    BY <1>1, <1>2, <1>4, <1>5, <2>2
  <2> DEFINE v == prog[from[i]].args[a]
  <2>5. a \in DOMAIN prog[from[i]].args /\ p[i].args[a] = ShiftedForRemoval(v, place)
    BY <1>3, <1>8, <2>1, <2>2, <2>3
  <2>6. v \in Values  BY <1>1, <2>3, <2>5, ElementOfSeq, CallParts
  <2>7. place \in Nat \ {0} /\ from[j] \in Nat /\ v.call = from[j]  BY <1>1, <1>2, <2>1, <2>4
  <2> HIDE DEF v
  <2>8. p[i].args[a] = NowAt(v, j)
    <3>1. CASE from[j] < place  BY <2>4, <2>5, <2>6, <2>7, <3>1, ShiftsFollow
    <3>2. CASE from[j] > place  BY <2>4, <2>5, <2>6, <2>7, <3>2, ShiftsFollow
    <3>3. QED BY <2>4, <2>7, <3>1, <3>2
  <2>9. QED BY <2>8 DEF v
<1>10. QED BY <1>6, <1>8, <1>9, CarriedStarts

(* Nothing is carried along where no call was there before.                *)
LEMMA RefillFollowing == ASSUME IInv, UseRefill PROVE Following'
<1>1. draft \in Seq(Calls) /\ Len(draft) <= MaxCalls  BY DEF IInv, TypeOK
<1>2. \A i \in 1 .. Len(draft) : New(draft)[i] = 0  BY <1>1, SameAndNew, LimitsOK
<1>3. \A i \in 1 .. Len(draft) : Carried(draft, New(draft), prog, i)
  BY <1>1, <1>2, LenProperties DEF Carried
<1>4. QED BY <1>1, <1>3, CarriedStarts DEF UseRefill

LEMMA SpliceFollowing == ASSUME IInv, UseSplice PROVE Following'
<1>1. /\ prog \in Seq(Calls) /\ Len(prog) \in Nat /\ Len(prog) <= MaxCalls
      /\ DOMAIN prog = 1 .. Len(prog)
  BY LenProperties DEF IInv, TypeOK
<1>2. /\ draft \in Seq(Calls) /\ Len(draft) \in Nat /\ Len(draft) <= MaxCalls
      /\ DOMAIN draft = 1 .. Len(draft)
  BY LenProperties DEF IInv, TypeOK
<1>3. PICK k \in DOMAIN prog, m \in DOMAIN draft :
         LET head == SubSeq(prog, 1, k - 1)
             tail == SubSeq(draft, m, Len(draft))
         IN  Repairing(Truncated(head \o tail), Truncated(Same(head) \o New(tail)), 2)
  BY DEF UseSplice
<1> DEFINE head == SubSeq(prog, 1, k - 1)
           tail == SubSeq(draft, m, Len(draft))
           all == head \o tail
           were == Same(head) \o New(tail)
<1>4. Repairing(Truncated(all), Truncated(were), 2)  BY <1>3
<1>5. /\ head \in Seq(Calls) /\ Len(head) <= MaxCalls /\ Len(head) <= Len(prog)
      /\ Len(head) \in Nat
      /\ \A i \in 1 .. Len(head) : head[i] = prog[i]
  <2>1. k \in 1 .. Len(prog)  BY <1>1, <1>3
  <2>2. \A i \in 1 .. k - 1 : prog[i] \in Calls  BY <1>1, <2>1, ElementOfSeq
  <2>3. /\ head \in Seq(Calls) /\ Len(head) = IF 1 <= k - 1 THEN k - 1 - 1 + 1 ELSE 0
        /\ \A i \in 1 .. k - 1 - 1 + 1 : head[i] = prog[1 + i - 1]
    BY <2>1, <2>2, <1>1, SubSeqProperties
  <2> HIDE DEF head
  <2>4. Len(head) = k - 1  BY <1>1, <2>1, <2>3
  <2>5. QED BY <1>1, <2>1, <2>3, <2>4, LimitsOK
<1>6. tail \in Seq(Calls) /\ Len(tail) \in Nat /\ Len(tail) <= MaxCalls
  <2>1. m \in 1 .. Len(draft)  BY <1>2, <1>3
  <2>2. \A i \in m .. Len(draft) : draft[i] \in Calls  BY <1>2, <2>1, ElementOfSeq
  <2>3. tail \in Seq(Calls) /\ Len(tail) = IF m <= Len(draft) THEN Len(draft) - m + 1 ELSE 0
    BY <2>1, <2>2, <1>2, SubSeqProperties
  <2> HIDE DEF tail
  <2>4. QED BY <1>2, <2>1, <2>3, LimitsOK
<1> HIDE DEF head, tail
<1>7. /\ all \in Seq(Calls) /\ Len(all) = Len(head) + Len(tail)
      /\ \A i \in 1 .. Len(head) : all[i] = head[i]
  <2>1. /\ all \in Seq(Calls) /\ Len(all) = Len(head) + Len(tail)
        /\ \A i \in 1 .. Len(head) + Len(tail) :
              all[i] = IF i <= Len(head) THEN head[i] ELSE tail[i - Len(head)]
    BY <1>5, <1>6, ConcatProperties
  <2> HIDE DEF all
  <2>2. QED BY <1>5, <1>6, <2>1
<1>8. /\ were \in Seq(0 .. MaxCalls) /\ Len(were) = Len(all)
      /\ \A i \in 1 .. Len(head) : were[i] = i
      /\ \A i \in 1 .. Len(all) : i > Len(head) => were[i] = 0
  <2> DEFINE S == 0 .. MaxCalls
             x == Same(head)
             y == New(tail)
  <2>1. /\ x \in Seq(S) /\ y \in Seq(S) /\ Len(x) = Len(head) /\ Len(y) = Len(tail)
        /\ \A i \in 1 .. Len(head) : x[i] = i
        /\ \A i \in 1 .. Len(tail) : y[i] = 0
    BY <1>5, <1>6, SameAndNew, LimitsOK
  <2> HIDE DEF S, x, y
  <2>2. /\ x \o y \in Seq(S) /\ Len(x \o y) = Len(x) + Len(y)
        /\ \A i \in 1 .. Len(x) + Len(y) : (x \o y)[i] = IF i <= Len(x) THEN x[i] ELSE y[i - Len(x)]
    BY <2>1, ConcatProperties
  <2> DEFINE z == x \o y
  <2> HIDE DEF z, all
  <2>3. /\ z \in Seq(S) /\ Len(z) = Len(all)
        /\ \A i \in 1 .. Len(head) : z[i] = i
        /\ \A i \in 1 .. Len(all) : i > Len(head) => z[i] = 0
    BY <1>5, <1>6, <1>7, <2>1, <2>2 DEF z
  <2>4. QED BY <2>3 DEF S, z, x, y
<1> HIDE DEF all, were
<1> DEFINE p == Truncated(all)
           from == Truncated(were)
<1>9. /\ p \in Seq(Calls) /\ Len(p) \in Nat /\ Len(p) <= Len(all)
      /\ \A i \in 1 .. Len(p) : p[i] = all[i]
  BY <1>7, TruncatedProps, LenProperties
<1>10. \A i \in 1 .. Len(p) : from[i] = were[i]
  <2> DEFINE S == 0 .. MaxCalls
  <2>1. were \in Seq(S)  BY <1>8
  <2> HIDE DEF S
  <2>2. /\ Len(from) = IF Len(were) < MaxCalls THEN Len(were) ELSE MaxCalls
        /\ \A i \in 1 .. Len(from) : from[i] = were[i]
    BY <2>1, TruncatedProps
  <2>3. Len(p) = IF Len(all) < MaxCalls THEN Len(all) ELSE MaxCalls
    BY <1>7, TruncatedProps
  <2> HIDE DEF p, from
  <2>4. Len(p) = Len(from)  BY <1>8, <2>2, <2>3
  <2>5. QED BY <2>2, <2>4
<1>11. Repairing(p, from, 2)  BY <1>4
<1> HIDE DEF p, from
<1>12. ASSUME NEW i \in 1 .. Len(p) PROVE Carried(p, from, prog, i)
  <2>1. SUFFICES ASSUME NEW j \in 1 .. Len(p), from[i] # 0, from[j] # 0,
                        NEW a \in DOMAIN p[i].args,
                        prog[from[i]].args[a].call = from[j]
                 PROVE  p[i].args[a] = NowAt(prog[from[i]].args[a], j)
    BY <1>9, LenProperties DEF Carried
  <2>2. i \in 1 .. Len(head) /\ j \in 1 .. Len(head)
    BY <1>5, <1>6, <1>7, <1>8, <1>9, <1>10, <2>1
  <2>3. from[i] = i /\ from[j] = j /\ p[i] = prog[i]
    BY <1>5, <1>7, <1>8, <1>9, <1>10, <2>2
  <2>4. prog[i].args[a] \in Values
    BY <1>1, <1>5, <2>1, <2>2, <2>3, ElementOfSeq, CallParts
  <2>5. QED BY <2>1, <2>3, <2>4, ValuesAreReferences
<1>13. QED BY <1>9, <1>11, <1>12, CarriedStarts

(* The repair keeps what was carried along where it is on offer, and       *)
(* changes no call that has only what is on offer.                         *)
LEMMA RepairedCallKeeps ==
    ASSUME NEW p \in Seq(Calls), NEW i \in DOMAIN p, NEW from, NEW before,
           Carried(p, from, before, i),
           NEW q \in Seq(Calls), DOMAIN q = DOMAIN p, q[i] = RepairedCall(p, i),
           \A s, a : Offered(q, i - 1, s, a) = Offered(p, i - 1, s, a)
    PROVE  Kept(q, from, before, i)
<1>1. SUFFICES ASSUME NEW j \in DOMAIN p, from[i] # 0, from[j] # 0, NEW a \in DOMAIN q[i].args,
                      before[from[i]].args[a].call = from[j],
                      NowAt(before[from[i]].args[a], j) \in Offered(q, i - 1, q[i].sys, a)
               PROVE  q[i].args[a] = NowAt(before[from[i]].args[a], j)
  BY DEF Kept
<1> DEFINE w == NowAt(before[from[i]].args[a], j)
<1>2. q[i].sys = p[i].sys /\ DOMAIN q[i].args = DOMAIN p[i].args  BY DEF RepairedCall
<1>3. p[i].args[a] = w  BY <1>1, <1>2 DEF Carried
<1>4. w \in Offered(p, i - 1, p[i].sys, a)  BY <1>1, <1>2
<1>5. q[i].args[a] = RepairedValue(p, i, a)  BY <1>1, <1>2 DEF RepairedCall
<1> HIDE DEF w
<1>6. RepairedValue(p, i, a) = w  BY <1>3, <1>4 DEF RepairedValue
<1>7. QED BY <1>5, <1>6 DEF w

LEMMA RepairedCallIsCall ==
    ASSUME NEW p \in Seq(Calls), NEW i \in DOMAIN p, OnOffer(p, i)
    PROVE  RepairedCall(p, i) = p[i]
<1>1. p[i] \in Calls  BY LenProperties, ElementOfSeq
<1>2. p[i] = [sys |-> p[i].sys, args |-> p[i].args] /\ p[i].args \in [DOMAIN Takes[p[i].sys] -> Values]
  BY <1>1, CallParts
<1>3. \A a \in DOMAIN p[i].args : RepairedValue(p, i, a) = p[i].args[a]
  BY DEF OnOffer, RepairedValue
<1>4. [a \in DOMAIN p[i].args |-> RepairedValue(p, i, a)] = p[i].args  BY <1>2, <1>3
<1>5. QED BY <1>2, <1>4 DEF RepairedCall

(* Whether a reference is kept depends on the calls up to it.              *)
LEMMA KeptByPrefix ==
    ASSUME NEW p \in Seq(Calls), NEW q \in Seq(Calls), Len(q) = Len(p),
           NEW i \in 1 .. Len(p), \A k \in 1 .. i : q[k] = p[k],
           NEW from, NEW before, Kept(p, from, before, i)
    PROVE  Kept(q, from, before, i)
<1>1. Len(p) \in Nat /\ DOMAIN p = DOMAIN q  BY LenProperties
<1>2. q[i] = p[i]  OBVIOUS
<1>3. \A s, a : Offered(q, i - 1, s, a) = Offered(p, i - 1, s, a)
  <2>1. i - 1 \in Nat /\ i - 1 <= Len(p) /\ \A k \in 1 .. i - 1 : q[k] = p[k]  BY <1>1
  <2>2. QED BY <2>1, OfferedByPrefix
<1>4. QED BY <1>1, <1>2, <1>3 DEF Kept

LEMMA RepairCallFollowing == ASSUME IInv, Following, RepairCall PROVE Following'
<1>1. /\ prog \in Seq(Calls) /\ Len(prog) \in Nat /\ DOMAIN prog = 1 .. Len(prog)
      /\ at \in 1 .. Len(prog) /\ pc = "repairing"
  BY LenProperties, LimitsOK DEF IInv, TypeOK, RepairCall
<1> DEFINE c == RepairedCall(prog, at)
           q == [prog EXCEPT ![at] = c]
<1>2. prog' = q /\ at' = at + 1 /\ pc' = "repairing" /\ origin' = origin /\ old' = old
  BY <1>1 DEF RepairCall
<1>3. c \in Calls  BY <1>1, RepairedCallProps
<1> HIDE DEF c
<1>4. /\ q \in Seq(Calls) /\ Len(q) = Len(prog)
      /\ \A i \in 1 .. Len(prog) : q[i] = IF i = at THEN c ELSE prog[i]
  BY <1>1, <1>3, ExceptSeq
<1> HIDE DEF q
<1>5. DOMAIN q = 1 .. Len(prog)  BY <1>4, LenProperties
<1>6. CASE FirstPass
  <2>1. \A s, a : Offered(q, at - 1, s, a) = Offered(prog, at - 1, s, a)
    <3>1. at - 1 \in Nat /\ at - 1 <= Len(prog) /\ \A k \in 1 .. at - 1 : q[k] = prog[k]
      BY <1>1, <1>4
    <3>2. QED BY <3>1, <1>1, <1>4, OfferedByPrefix
  <2>2. Kept(q, origin, old, at)
    <3>1. Carried(prog, origin, old, at)  BY <1>1, <1>6 DEF FirstPass
    <3>2. q[at] = RepairedCall(prog, at)  BY <1>1, <1>4 DEF c
    <3>3. QED BY <3>1, <3>2, <2>1, <1>1, <1>4, <1>5, RepairedCallKeeps
  <2>3. ASSUME NEW i \in 1 .. at - 1 PROVE Kept(q, origin, old, i)
    <3>1. i \in 1 .. Len(prog) /\ \A k \in 1 .. i : q[k] = prog[k]  BY <1>1, <1>4
    <3>2. Kept(prog, origin, old, i)  BY <1>6 DEF FirstPass
    <3>3. QED BY <3>1, <3>2, <1>1, <1>4, KeptByPrefix
  <2>4. ASSUME NEW i \in at + 1 .. Len(q) PROVE Carried(q, origin, old, i)
    <3>1. i \in at .. Len(prog) /\ q[i] = prog[i]  BY <1>1, <1>4
    <3>2. Carried(prog, origin, old, i)  BY <1>6, <3>1 DEF FirstPass
    <3>3. QED BY <3>1, <3>2, <1>1, <1>5 DEF Carried
  <2>5. \A i \in 1 .. at + 1 - 1 : Kept(q, origin, old, i)
    <3>1. \A i \in 1 .. at + 1 - 1 : i = at \/ i \in 1 .. at - 1  BY <1>1
    <3>2. QED BY <3>1, <2>2, <2>3
  <2>6. FirstPass'
    <3>1. \A i \in 1 .. at' - 1 : Kept(prog', origin', old', i)  BY <1>1, <1>2, <2>5
    <3>2. \A i \in at' .. Len(prog') : Carried(prog', origin', old', i)  BY <1>1, <1>2, <2>4
    <3>3. QED BY <3>1, <3>2 DEF FirstPass
  <2>7. QED BY <1>2, <2>6 DEF Following
<1>7. CASE Settled
  <2>1. c = prog[at]  BY <1>1, <1>7, RepairedCallIsCall DEF Settled, c
  <2>2. q = prog  BY <1>1, <2>1 DEF q
  <2>3. Settled'  BY <1>2, <1>7, <2>2 DEF Settled
  <2>4. QED BY <1>2, <2>3 DEF Following
<1>8. QED BY <1>1, <1>6, <1>7 DEF Following

LEMMA EndPassFollowing == ASSUME IInv, Following, EndPass PROVE Following'
<1>1. /\ prog \in Seq(Calls) /\ Len(prog) \in Nat /\ DOMAIN prog = 1 .. Len(prog)
      /\ at - 1 = Len(prog) /\ pc = "repairing"
      /\ \A i \in 1 .. Len(prog) : OnOffer(prog, i)
  <2>1. /\ prog \in Seq(Calls) /\ Len(prog) \in Nat /\ DOMAIN prog = 1 .. Len(prog)
        /\ at \in Nat /\ pc = "repairing" /\ at > Len(prog) /\ at <= Len(prog) + 1
        /\ \A i \in 1 .. at - 1 : OnOffer(prog, i)
    BY LenProperties, LimitsOK DEF IInv, TypeOK, Repaired, EndPass
  <2>2. at - 1 = Len(prog)  BY <2>1
  <2>3. QED BY <2>1, <2>2
<1>2. \A i \in 1 .. Len(prog) : Kept(prog, origin, old, i)
  BY <1>1 DEF Following, FirstPass, Settled
<1>3. prog' = prog /\ origin' = origin /\ old' = old  BY DEF EndPass
<1>4. QED BY <1>1, <1>2, <1>3 DEF Following, Settled

LEMMA FollowingNext == ASSUME IInv, Following, [Next]_vars PROVE Following'
<1>1. ASSUME pc' = "generating" PROVE Following'  BY <1>1 DEF Following
<1>2. CASE Generate \/ StartSplice \/ Refill
  BY <1>1, <1>2 DEF Generate, StartSplice, Refill, Generating
<1>3. CASE GenerateCall  BY <1>1, <1>3 DEF GenerateCall
<1>4. CASE UseNew
  <2>1. prog' \in Seq(Calls) /\ Len(prog') <= MaxCalls  BY <1>4 DEF UseNew, Generated, IInv, TypeOK
  <2>2. pc' = "idle" /\ origin' = New(prog')  BY <1>4 DEF UseNew
  <2>3. \A i \in DOMAIN prog' : origin'[i] = 0  BY <2>2 DEF New
  <2>4. QED BY <2>2, <2>3 DEF Following, Kept
<1>5. CASE UNCHANGED vars
  BY <1>5 DEF vars, Following, FirstPass, Settled
<1>6. QED
  BY <1>2, <1>3, <1>4, <1>5, SpliceFollowing, RefillFollowing, InsertFollowing,
     RemoveFollowing, RedrawFollowing, LeaveRefsFollowing, RepairCallFollowing,
     EndPassFollowing DEF Next

LEMMA InitFollowing == ASSUME Init PROVE Following
<1>1. prog \in Seq(Calls) /\ Len(prog) <= MaxCalls  BY GivenOK DEF Init
<1>2. Len(prog) \in Nat /\ DOMAIN prog = 1 .. Len(prog)  BY <1>1, LenProperties
<1>3. \A i \in 1 .. Len(prog) : origin[i] = i  BY <1>1, SameAndNew, LimitsOK DEF Init
<1>4. ASSUME NEW i \in 1 .. Len(prog) PROVE Kept(prog, origin, old, i)
  <2>1. \A a \in DOMAIN prog[i].args : prog[i].args[a] \in Values
    BY <1>1, ElementOfSeq, CallParts
  <2>2. old = prog  BY DEF Init
  <2>3. QED BY <1>2, <1>3, <2>1, <2>2, ValuesAreReferences DEF Kept
<1>5. pc = "idle"  BY DEF Init
<1>6. QED BY <1>2, <1>4, <1>5 DEF Following

(* Through insertion, removal, splicing, redrawn arguments and the repair, *)
(* a call that is kept still uses the same result of the same call if both *)
(* are kept and the result is on offer (mutate_with_choice_table_and_      *)
(* edge_bias, repair_result_refs).                                         *)
THEOREM MutationsCarryReferences == Spec => []RefsFollowTheirCalls
<1>1. Init => IInv /\ Following  BY InitIInv, InitFollowing
<1>2. IInv /\ Following /\ [Next]_vars => (IInv /\ Following)'
  BY NextIInv, FollowingNext
<1>3. IInv /\ Following => RefsFollowTheirCalls  BY FollowingIsFollowed
<1>4. QED BY <1>1, <1>2, <1>3, PTL DEF Spec

-----------------------------------------------------------------------------
(* Choice: which syscalls count as generatable.                            *)

ChoiceTypeOK ==
    /\ stage \in {"reach", "generate"}
    /\ descs \in Tables /\ corpus \in Corpora
    /\ sysFailures \in SysTimeouts /\ edgeFailures \in EdgeTimeouts
    /\ next \in Nat \ {0} /\ enabled \in Seq(Described) /\ progress \in BOOLEAN

(* Each syscall runs on what those before it make.                         *)
Before(i) == {enabled[j] : j \in 1 .. i - 1}
InOrder ==
    \A i \in DOMAIN enabled :
        ~descs[enabled[i]].unsupported /\ descs[enabled[i]].needs \subseteq MadeBy(Before(i))

(* A round that has found nothing yet would find nothing again where it    *)
(* has been.                                                               *)
NothingMissed == ~progress => \A s \in Described : s < next => ~Feasible(s)

ReachInv ==
    /\ ChoiceTypeOK
    /\ creatable = MadeBy(Listed)
    /\ InOrder
    /\ NothingMissed
    /\ stage = "generate" => next \notin Described /\ ~progress /\ enabled # <<>>

LEMMA DescribedAre ==
    ASSUME ChoiceTypeOK
    PROVE  /\ descs \in Seq(Description) /\ Described = 1 .. Len(descs) /\ Len(descs) \in Nat
           /\ \A s \in Described : descs[s] \in Description
           /\ Listed \subseteq Described
<1>1. descs \in Seq(Description)
  BY ChoiceAssumption DEF ChoiceTypeOK
<1>2. Described = 1 .. Len(descs) /\ Len(descs) \in Nat /\ \A s \in Described : descs[s] \in Description
  BY <1>1 DEF Described
<1>3. Listed \subseteq Described
  BY DEF ChoiceTypeOK, Listed
<1> QED BY <1>1, <1>2, <1>3

LEMMA ReachInit == ChoiceInit => ReachInv
<1> SUFFICES ASSUME ChoiceInit PROVE ReachInv
  OBVIOUS
<1>1. ChoiceTypeOK
  <2>1. enabled = <<>> /\ enabled \in Seq(Described)
    BY DEF ChoiceInit
  <2>2. progress = FALSE /\ progress \in BOOLEAN
    BY DEF ChoiceInit
  <2> QED BY <2>1, <2>2 DEF ChoiceInit, ChoiceTypeOK
<1>2. Listed = {} /\ MadeBy({}) = {} /\ InOrder
  BY DEF ChoiceInit, Listed, MadeBy, InOrder
<1>3. NothingMissed
  <2>1. \A s \in Described : ~(s < next)
    BY <1>1, DescribedAre DEF ChoiceInit
  <2> QED BY <2>1 DEF NothingMissed
<1> QED BY <1>1, <1>2, <1>3 DEF ReachInv, ChoiceInit

LEMMA VisitFeasible ==
    ASSUME ReachInv, Visit, Feasible(next)
    PROVE  ReachInv'
<1>1. /\ stage = "reach" /\ next \in Described /\ next' = next + 1
      /\ enabled' = Append(enabled, next) /\ creatable' = creatable \cup Keys(next)
      /\ progress' = TRUE
      /\ UNCHANGED <<stage, descs, corpus, sysFailures, edgeFailures, calls, avail>>
  BY DEF Visit, learned
<1>2. ChoiceTypeOK /\ creatable = MadeBy(Listed) /\ InOrder
  BY DEF ReachInv
<1>3. Described' = Described
  BY <1>1 DEF Described
<1>4. enabled \in Seq(Described) /\ next \in Nat \ {0}
  BY <1>2 DEF ChoiceTypeOK
<1>5. enabled' \in Seq(Described) /\ next' \in Nat \ {0}
      /\ DOMAIN enabled' = 1 .. Len(enabled) + 1 /\ Len(enabled) \in Nat
      /\ DOMAIN enabled = 1 .. Len(enabled)
      /\ enabled'[Len(enabled) + 1] = next /\ \A i \in DOMAIN enabled : enabled'[i] = enabled[i]
  BY <1>1, <1>4
<1>6. ChoiceTypeOK'
  BY <1>1, <1>2, <1>3, <1>5 DEF ChoiceTypeOK
<1>7. Listed' = Listed \cup {next}
  BY <1>5 DEF Listed
<1>8. \A s : Keys(s)' = Keys(s)
  BY <1>1 DEF Keys, Makes
<1>9. creatable' = MadeBy(Listed)'
  <2>1. MadeBy(Listed)' = UNION {Keys(s) : s \in Listed \cup {next}}
    BY <1>7, <1>8 DEF MadeBy
  <2> QED BY <1>1, <1>2, <2>1 DEF MadeBy
<1>10. InOrder'
  <2> SUFFICES ASSUME NEW i \in DOMAIN enabled'
               PROVE  ~descs[enabled'[i]].unsupported
                      /\ descs[enabled'[i]].needs \subseteq MadeBy(Before(i))'
    BY <1>1 DEF InOrder
  <2>1. MadeBy(Before(i))' = MadeBy(Before(i))
    <3>1. Before(i)' = Before(i)
      <4>1. \A j \in 1 .. i - 1 : j \in DOMAIN enabled
        BY <1>5
      <4>2. Before(i)' = {enabled'[j] : j \in 1 .. i - 1}
        BY DEF Before
      <4> QED BY <1>5, <4>1, <4>2 DEF Before
    <3> QED BY <1>8, <3>1 DEF MadeBy
  <2>2. CASE i \in DOMAIN enabled
    BY <1>2, <1>5, <2>1, <2>2 DEF InOrder
  <2>3. CASE i \notin DOMAIN enabled
    <3>1. i = Len(enabled) + 1 /\ enabled'[i] = next
      BY <1>5, <2>3
    <3>2. Before(i) = Listed
      <4>1. 1 .. i - 1 = DOMAIN enabled
        BY <1>5, <3>1
      <4> QED BY <4>1 DEF Before, Listed
    <3>3. ~descs[next].unsupported /\ descs[next].needs \subseteq MadeBy(Listed)
      BY <1>2 DEF Feasible
    <3> QED BY <2>1, <3>1, <3>2, <3>3
  <2> QED BY <2>2, <2>3
<1>11. NothingMissed'
  BY <1>1 DEF NothingMissed
<1> QED
  BY <1>1, <1>6, <1>9, <1>10, <1>11 DEF ReachInv

(* What a syscall needs does not change as long as none is found.          *)
LEMMA NothingFound ==
    ASSUME ReachInv, UNCHANGED <<descs, enabled, creatable>>
    PROVE  /\ Described' = Described /\ creatable' = MadeBy(Listed)' /\ InOrder'
           /\ \A s : Feasible(s)' = Feasible(s)
<1>1. \A s : Keys(s)' = Keys(s)
  BY DEF Keys, Makes
<1>2. Listed' = Listed /\ \A i : Before(i)' = Before(i)
  BY DEF Listed, Before
<1>3. \A S : MadeBy(S)' = UNION {Keys(s)' : s \in S}
  BY DEF MadeBy
<1>4. MadeBy(Listed)' = MadeBy(Listed)
  BY <1>1, <1>2 DEF MadeBy
<1>5. \A i \in DOMAIN enabled : MadeBy(Before(i))' = MadeBy(Before(i))
  BY <1>1, <1>2 DEF MadeBy
<1>6. InOrder'
  BY <1>5 DEF ReachInv, InOrder
<1>7. \A s : Feasible(s)' = Feasible(s)
  BY <1>2 DEF Feasible
<1> QED BY <1>4, <1>6, <1>7 DEF ReachInv, Described

LEMMA VisitInfeasible ==
    ASSUME ReachInv, Visit, ~Feasible(next)
    PROVE  ReachInv'
<1>1. /\ stage = "reach" /\ next \in Described /\ next' = next + 1
      /\ UNCHANGED <<descs, enabled, creatable, progress>>
      /\ UNCHANGED <<stage, corpus, sysFailures, edgeFailures, calls, avail>>
  BY DEF Visit, learned
<1>2. /\ Described' = Described /\ creatable' = MadeBy(Listed)' /\ InOrder'
      /\ \A s : Feasible(s)' = Feasible(s)
  BY <1>1, NothingFound
<1>3. ChoiceTypeOK'
  BY <1>1, <1>2 DEF ReachInv, ChoiceTypeOK
<1>4. NothingMissed'
  <2> SUFFICES ASSUME ~progress, NEW s \in Described, s < next + 1 PROVE ~Feasible(s)
    BY <1>1, <1>2 DEF NothingMissed
  <2>1. s < next \/ s = next
    BY DescribedAre DEF ReachInv, ChoiceTypeOK
  <2> QED BY <2>1 DEF ReachInv, NothingMissed
<1> QED BY <1>1, <1>2, <1>3, <1>4 DEF ReachInv

LEMMA NextRoundInv ==
    ASSUME ReachInv, NextRound
    PROVE  ReachInv'
<1>1. /\ stage = "reach" /\ next' = 1 /\ progress' = FALSE
      /\ UNCHANGED <<descs, enabled, creatable>>
      /\ UNCHANGED <<stage, corpus, sysFailures, edgeFailures, calls, avail>>
  BY DEF NextRound, learned
<1>2. /\ Described' = Described /\ creatable' = MadeBy(Listed)' /\ InOrder'
  BY <1>1, NothingFound
<1>3. ChoiceTypeOK'
  <2>1. progress' \in BOOLEAN
    BY <1>1
  <2>2. next' \in Nat \ {0}
    BY <1>1
  <2> QED BY <1>1, <1>2, <2>1, <2>2 DEF ReachInv, ChoiceTypeOK
<1>4. NothingMissed'
  <2>1. \A s \in Described : ~(s < 1)
    BY DescribedAre DEF ReachInv
  <2> QED BY <1>1, <1>2, <2>1 DEF NothingMissed
<1> QED BY <1>1, <1>2, <1>3, <1>4 DEF ReachInv

LEMMA ReachKept ==
    ASSUME ReachInv, UNCHANGED <<reached, learned>>,
           stage' = stage \/ StartGeneration
    PROVE  ReachInv'
<1>1. UNCHANGED <<descs, next, enabled, creatable, progress, corpus, sysFailures, edgeFailures>>
  BY DEF reached, learned
<1>2. /\ Described' = Described /\ creatable' = MadeBy(Listed)' /\ InOrder'
      /\ \A s : Feasible(s)' = Feasible(s)
  BY <1>1, NothingFound
<1>3. ChoiceTypeOK'
  <2>1. stage' \in {"reach", "generate"}
    BY DEF ReachInv, ChoiceTypeOK, StartGeneration
  <2> QED BY <1>1, <1>2, <2>1 DEF ReachInv, ChoiceTypeOK
<1>4. NothingMissed'
  BY <1>1, <1>2 DEF ReachInv, NothingMissed
<1>5. (stage = "generate" => next \notin Described /\ ~progress /\ enabled # <<>>)'
  BY <1>1, <1>2 DEF ReachInv, StartGeneration
<1> QED BY <1>2, <1>3, <1>4, <1>5 DEF ReachInv

LEMMA ReachNext == ReachInv /\ [ChoiceNext]_choiceVars => ReachInv'
<1> SUFFICES ASSUME ReachInv, [ChoiceNext]_choiceVars PROVE ReachInv'
  OBVIOUS
<1>1. CASE Visit
  BY <1>1, VisitFeasible, VisitInfeasible
<1>2. CASE NextRound
  BY <1>2, NextRoundInv
<1>3. CASE StartGeneration
  BY <1>3, ReachKept DEF StartGeneration
<1>4. CASE AppendCall
  BY <1>4, ReachKept DEF AppendCall
<1>5. CASE UNCHANGED choiceVars
  <2>1. UNCHANGED <<reached, learned, stage>>
    BY <1>5 DEF choiceVars, reached, learned
  <2> QED BY <2>1, ReachKept
<1> QED BY <1>1, <1>2, <1>3, <1>4, <1>5 DEF ChoiceNext

LEMMA ReachIsEnabled == ReachInv => EnabledIsReachable
<1> SUFFICES ASSUME ReachInv PROVE EnabledIsReachable
  OBVIOUS
<1>1. \A i \in DOMAIN enabled :
         /\ ~descs[enabled[i]].unsupported
         /\ descs[enabled[i]].needs \subseteq MadeBy({enabled[j] : j \in 1 .. i - 1})
  BY DEF ReachInv, InOrder, Before
<1>2. ASSUME stage = "generate", NEW s \in Described \ Listed
      PROVE  descs[s].unsupported \/ ~ descs[s].needs \subseteq MadeBy(Listed)
  <2>1. s < next
    BY <1>2, DescribedAre DEF ReachInv, ChoiceTypeOK
  <2>2. ~Feasible(s)
    BY <1>2, <2>1 DEF ReachInv, NothingMissed
  <2> QED BY <2>2 DEF Feasible, ReachInv
<1> QED BY <1>1, <1>2 DEF EnabledIsReachable

-----------------------------------------------------------------------------
(* Nothing is missing.                                                     *)

LEMMA DrawnFromAre ==
    ASSUME NEW cands, NEW prev
    PROVE  DrawnFrom(cands, prev) \subseteq cands
<1>1. LeastBlamed(cands, prev) \subseteq cands
  BY DEF LeastBlamed
<1>2. \A S : Drawable(S, prev) \subseteq S
  <2> TAKE S
  <2>1. Row(S, prev) \subseteq S
    BY DEF Row
  <2>2. Heavy(S, StartupWeight) \subseteq S
    BY DEF Heavy
  <2> QED BY <2>1, <2>2 DEF Drawable, InRow
<1> QED BY <1>1, <1>2 DEF DrawnFrom

LEMMA ReadyAre ==
    ASSUME NEW prev
    PROVE  Ready(prev) \subseteq Consumers
  BY DEF Ready

(* A syscall that lacks something can be given way to: there is one that   *)
(* makes some of what is lacking, directly or in the end, and lacks        *)
(* nothing.                                                                *)
LEMMA SomethingHelps ==
    ASSUME ReachInv, NEW s \in Listed, Missing(s) # {}
    PROVE  Producers(s) # {}
<1>1. InOrder /\ ChoiceTypeOK
  BY DEF ReachInv
<1>2. enabled \in Seq(Described) /\ DOMAIN enabled = 1 .. Len(enabled) /\ Len(enabled) \in Nat
  BY <1>1 DEF ChoiceTypeOK
<1>3. \A t \in Listed : descs[t].needs \subseteq ResourceKinds
  BY <1>1, DescribedAre DEF Description
<1>4. \A t \in Listed : Missing(t) \subseteq ResourceKinds /\ Missing(t) \subseteq descs[t].needs
  BY <1>3 DEF Missing
<1> DEFINE W == Sought(Missing(s))
           Makers == {i \in DOMAIN enabled : W \cap Keys(enabled[i]) # {}}
(* What is sought is made by a syscall that is listed.                     *)
<1>5. Missing(s) \subseteq W
  BY <1>4 DEF Sought
<1>6. Closed(W)
  <2> SUFFICES ASSUME NEW k \in W, NEW m \in Lacked(k) PROVE m \in W
    BY DEF Closed
  <2>1. m \in ResourceKinds
    BY <1>4 DEF Lacked, Constructors
  <2>2. ASSUME NEW C \in SUBSET ResourceKinds, Missing(s) \subseteq C, Closed(C) PROVE m \in C
    BY <2>2 DEF Sought, Closed
  <2> QED BY <2>1, <2>2 DEF Sought
<1> HIDE DEF W
<1>7. Makers # {}
  <2>1. PICK k \in Missing(s) : TRUE
    OBVIOUS
  <2>2. PICK i \in DOMAIN enabled : s = enabled[i]
    BY DEF Listed
  <2>3. k \in MadeBy(Before(i))
    BY <1>1, <1>4, <2>1, <2>2 DEF InOrder
  <2>4. PICK j \in 1 .. i - 1 : k \in Keys(enabled[j])
    BY <2>3 DEF MadeBy, Before
  <2>5. j \in DOMAIN enabled
    BY <1>2, <2>2, <2>4
  <2> QED BY <1>5, <2>1, <2>4, <2>5
<1>8. PICK i \in Makers : \A j \in Makers : i <= j
  <2>1. Makers \in SUBSET Nat
    BY <1>2
  <2> HIDE DEF Makers
  <2> QED BY <1>7, <2>1, Least
<1> DEFINE t == enabled[i]
<1>9. t \in Listed
  BY <1>8 DEF Listed
<1>10. PICK k \in W : t \in Constructors(k)
  <2>1. PICK k \in W : k \in Keys(t)
    BY <1>8
  <2>2. t \in Constructors(k)
    BY <1>9, <2>1 DEF Constructors, Keys, AcceptsKind
  <2> QED BY <2>2
(* The first one that makes it lacks nothing that is made later.           *)
<1>11. Missing(t) = {}
  <2> SUFFICES ASSUME NEW m \in Missing(t) PROVE FALSE
    OBVIOUS
  <2>1. m \in W
    BY <1>6, <1>10 DEF Closed, Lacked
  <2>2. m \in MadeBy(Before(i))
    BY <1>1, <1>4, <1>8, <1>9 DEF InOrder
  <2>3. PICK j \in 1 .. i - 1 : m \in Keys(enabled[j])
    BY <2>2 DEF MadeBy, Before
  <2>4. i \in 1 .. Len(enabled)
    BY <1>2, <1>8
  <2>5. j \in DOMAIN enabled /\ j < i
    BY <1>2, <2>3, <2>4
  <2>6. j \in Makers
    BY <2>1, <2>3, <2>5
  <2> QED BY <1>2, <1>8, <2>5, <2>6
<1> QED
  BY <1>10, <1>11 DEF Producers, W

LEMMA ReachFeeds == ReachInv => NothingIsMissing
<1> SUFFICES ASSUME ReachInv, NEW c \in Chosen(Previous) PROVE Missing(c) = {}
  BY DEF NothingIsMissing
<1> DEFINE prev == Previous
           ready == Ready(prev)
<1> HIDE DEF prev
<1>1. c \in ChosenFrom(ready, prev)
  BY DEF Chosen, prev
<1> HIDE DEF ready
<1>2. CASE ready # {}
  <2>1. PICK s \in DrawnFrom(ready, prev) : c \in FedBy({}, s, prev)
    BY <1>1, <1>2 DEF ChosenFrom
  <2>2. c = s /\ s \in ready
    BY <2>1, DrawnFromAre DEF FedBy
  <2> QED BY <2>2, ReadyAre DEF Consumers, ready
<1>3. CASE ready = {}
  <2>1. PICK s \in DrawnFrom(Listed, prev) : c \in FedBy(Producers(s), s, prev)
    BY <1>1, <1>3 DEF ChosenFrom
  <2>2. s \in Listed
    BY <2>1, DrawnFromAre
  <2>3. CASE Producers(s) = {}
    <3>1. c = s
      BY <2>1, <2>3 DEF FedBy
    <3> QED BY <2>2, <2>3, <3>1, SomethingHelps
  <2>4. CASE Producers(s) # {}
    <3>1. c \in Producers(s)
      BY <2>1, <2>4, DrawnFromAre DEF FedBy
    <3> QED BY <3>1 DEF Producers
  <2> QED BY <2>3, <2>4
<1> QED BY <1>2, <1>3

(* Whatever the descriptions and their order, generation never starts a    *)
(* call with a resource missing that it cannot do without, although kinds  *)
(* may need each other and calls close what was made.                      *)
THEOREM EnabledCallsAreFed == ChoiceSpec => []CallsAreFed
<1>1. ReachInv => CallsAreFed
  BY ReachIsEnabled, ReachFeeds DEF CallsAreFed
<1> QED BY ReachInit, ReachNext, <1>1, PTL DEF ChoiceSpec

-----------------------------------------------------------------------------
(* Something is chosen.                                                    *)

CallsAreListed == calls \in Seq(Nat) /\ \A i \in DOMAIN calls : calls[i] \in Listed

LEMMA PreviousIs ==
    ASSUME ChoiceTypeOK, CallsAreListed
    PROVE  Previous = 0 \/ (Previous # 0 /\ Previous \in Listed /\ Previous \in Described)
<1>1. CASE calls = <<>>
  BY <1>1 DEF Previous
<1>2. CASE calls # <<>>
  <2>1. Len(calls) \in DOMAIN calls
    BY <1>2 DEF CallsAreListed
  <2>2. Previous \in Listed
    BY <1>2, <2>1 DEF Previous, CallsAreListed
  <2> QED BY <2>2, DescribedAre
<1> QED BY <1>1, <1>2

LEMMA BlameIs ==
    ASSUME ChoiceTypeOK, NEW prev, prev = 0 \/ prev \in Described, NEW c \in Described
    PROVE  Blame(prev, c) \in Nat
<1>1. CASE prev # 0
  <2>1. <<prev, c>> \in (DOMAIN descs) \X (DOMAIN descs)
    BY <1>1 DEF Described
  <2>2. edgeFailures[<<prev, c>>] \in Nat
    BY <2>1, ChoiceAssumption DEF ChoiceTypeOK
  <2> QED BY <2>2 DEF Blame
<1>2. CASE prev = 0
  BY <1>2 DEF Blame
<1> QED BY <1>1, <1>2

LEMMA SomethingIsDrawn ==
    ASSUME ChoiceTypeOK, NEW prev, prev = 0 \/ prev \in Described,
           NEW cands \in SUBSET Described, cands # {}
    PROVE  DrawnFrom(cands, prev) # {}
<1> DEFINE least == LeastBlamed(cands, prev)
           blames == {Blame(prev, c) : c \in cands}
<1>1. least # {}
  <2>1. blames \in SUBSET Nat /\ blames # {}
    BY BlameIs
  <2>2. PICK m \in blames : \A n \in blames : m <= n
    <3> HIDE DEF blames
    <3> QED BY <2>1, Least
  <2>3. PICK c \in cands : m = Blame(prev, c)
    OBVIOUS
  <2>4. c \in least
    BY <2>2, <2>3 DEF LeastBlamed
  <2> QED BY <2>4
<1> HIDE DEF least
<1>2. Heavy(least, StartupWeight) # {}
  BY <1>1 DEF Heavy
<1>3. Drawable(least, prev) # {}
  BY <1>1, <1>2 DEF Drawable, InRow
<1> QED BY <1>3 DEF DrawnFrom, least

LEMMA ReadyHaveAll ==
    ASSUME NEW prev, Consumers # {}
    PROVE  Ready(prev) # {}
  BY DEF Ready

LEMMA SomeCallIsChosen ==
    ASSUME ReachInv, CallsAreListed, stage = "generate"
    PROVE  Chosen(Previous) \subseteq Listed /\ Chosen(Previous) # {}
<1> DEFINE prev == Previous
           ready == Ready(prev)
           from == IF ready = {} THEN Listed ELSE ready
           Feeders(s) == IF ready = {} THEN Producers(s) ELSE {}
<1>1. Listed # {}
  <2>1. enabled \in Seq(Described) /\ enabled # <<>>
    BY DEF ReachInv, ChoiceTypeOK
  <2>2. 1 \in DOMAIN enabled
    BY <2>1
  <2> QED BY <2>2 DEF Listed
<1>2. ChoiceTypeOK /\ Listed \subseteq Described
  BY DescribedAre DEF ReachInv
<1>3. prev = 0 \/ prev \in Described
  BY <1>2, PreviousIs
<1> HIDE DEF prev
<1>4. from \subseteq Listed /\ from # {}
  BY <1>1, ReadyAre DEF Consumers
<1>5. \A s : Feeders(s) \subseteq Listed
  BY DEF Producers, Constructors
<1>6. Chosen(prev) = UNION {FedBy(Feeders(s), s, prev) : s \in DrawnFrom(from, prev)}
  BY DEF Chosen, ChosenFrom
<1> HIDE DEF from, Feeders
<1>7. \A s \in Listed : FedBy(Feeders(s), s, prev) \subseteq Listed
  BY <1>5, DrawnFromAre DEF FedBy
<1>8. \A s : FedBy(Feeders(s), s, prev) # {}
  BY <1>2, <1>3, <1>5, SomethingIsDrawn DEF FedBy
<1>9. DrawnFrom(from, prev) # {}
  BY <1>2, <1>3, <1>4, SomethingIsDrawn
<1>10. DrawnFrom(from, prev) \subseteq Listed
  BY <1>4, DrawnFromAre
<1> QED BY <1>6, <1>7, <1>8, <1>9, <1>10 DEF prev

GenerateInv == ReachInv /\ CallsAreListed

LEMMA GenerateInit == ChoiceInit => GenerateInv
<1> SUFFICES ASSUME ChoiceInit PROVE CallsAreListed
  BY ReachInit DEF GenerateInv
<1>1. calls = <<>>
  BY DEF ChoiceInit
<1> QED BY <1>1 DEF CallsAreListed

LEMMA CallsStayListed ==
    ASSUME CallsAreListed, calls' = calls, Listed \subseteq Listed'
    PROVE  CallsAreListed'
  BY DEF CallsAreListed

LEMMA GenerateNext == GenerateInv /\ [ChoiceNext]_choiceVars => GenerateInv'
<1> SUFFICES ASSUME GenerateInv, [ChoiceNext]_choiceVars PROVE CallsAreListed'
  BY ReachNext DEF GenerateInv
<1>1. CASE Visit
  <2>1. calls' = calls /\ (enabled' = enabled \/ enabled' = Append(enabled, next))
    BY <1>1 DEF Visit
  <2>2. enabled \in Seq(Described)
    BY DEF GenerateInv, ReachInv, ChoiceTypeOK
  <2>3. \A i \in DOMAIN enabled : i \in DOMAIN enabled' /\ enabled'[i] = enabled[i]
    BY <2>1, <2>2
  <2>4. Listed \subseteq Listed'
    BY <2>3 DEF Listed
  <2> QED BY <2>1, <2>4, CallsStayListed DEF GenerateInv
<1>2. CASE AppendCall
  <2>1. PICK s \in Chosen(Previous) : calls' = Append(calls, s)
    BY <1>2 DEF AppendCall
  <2>2. enabled' = enabled /\ Listed' = Listed
    BY <1>2 DEF AppendCall, reached, Listed
  <2>3. s \in Listed /\ s \in Nat
    <3>1. s \in Listed
      BY <1>2, <2>1, SomeCallIsChosen DEF AppendCall, GenerateInv
    <3>2. Listed \subseteq 1 .. Len(descs) /\ Len(descs) \in Nat
      BY DescribedAre DEF GenerateInv, ReachInv
    <3> QED BY <3>1, <3>2
  <2>4. calls \in Seq(Nat) /\ \A i \in DOMAIN calls : calls[i] \in Listed
    BY DEF GenerateInv, CallsAreListed
  <2>5. calls' \in Seq(Nat)
    BY <2>1, <2>3, <2>4
  <2>6. \A i \in DOMAIN calls' : calls'[i] \in Listed
    BY <2>1, <2>3, <2>4
  <2> QED BY <2>2, <2>5, <2>6 DEF CallsAreListed
<1>3. CASE UNCHANGED <<calls, enabled>>
  BY <1>3, CallsStayListed DEF GenerateInv, Listed
<1>4. NextRound \/ StartGeneration \/ UNCHANGED choiceVars => UNCHANGED <<calls, enabled>>
  BY DEF NextRound, StartGeneration, choiceVars, reached
<1> QED BY <1>1, <1>2, <1>3, <1>4 DEF ChoiceNext

-----------------------------------------------------------------------------
(* A consumer that was never blamed can be drawn.                          *)

LEMMA PairsAre ==
    ASSUME NEW S, NEW T, IsFiniteSet(S), IsFiniteSet(T), NEW P \in SUBSET (S \X T)
    PROVE  Cardinality(P) \in Nat /\ (P # {} => Cardinality(P) > 0)
<1>1. IsFiniteSet(P)
  BY FS_Product, FS_Subset
<1> QED BY <1>1, FS_CardinalityType, FS_EmptySet

LEMMA ResultsAre ==
    ASSUME ChoiceTypeOK, NEW s \in Described
    PROVE  IsFiniteSet(ResultsOf(s)) /\ IsFiniteSet(descs[s].needs)
<1>1. descs[s] \in Description
  BY DescribedAre
<1>2. descs[s].gives \in Seq(ResourceKinds) /\ descs[s].needs \subseteq ResourceKinds
  BY <1>1 DEF Description
<1> DEFINE n == Len(descs[s].gives)
<1>3. n \in Nat /\ DOMAIN descs[s].gives = 1 .. n
  BY <1>2
<1>4. \A i \in 1 .. n : descs[s].gives[i] \in ResourceKinds
  BY <1>2, <1>3
<1> HIDE DEF n
<1>5. ResultsOf(s) \subseteq ResourceKinds \X (1 .. n)
  BY <1>3, <1>4 DEF ResultsOf
<1>6. IsFiniteSet(ResourceKinds \X (1 .. n))
  <2>1. IsFiniteSet(1 .. n)
    BY <1>3, FS_Interval
  <2> QED BY <2>1, ChoiceAssumption, FS_Product
<1> QED BY <1>2, <1>5, <1>6, ChoiceAssumption, FS_Subset

(* A syscall that takes what another makes has a weight after it.          *)
LEMMA ScoreIs ==
    ASSUME ChoiceTypeOK, NEW s \in Described, NEW t \in Described,
           NEW k \in descs[t].needs, NEW l \in Makes(s), AcceptsKind(k, l)
    PROVE  Score(s, t) \in Nat \ {0}
<1> DEFINE P == {p \in ResultsOf(s) \X descs[t].needs : AcceptsKind(p[2], p[1][1])}
           Q == {p \in descs[s].needs \X descs[t].needs : Overlap(p[1], p[2])}
           R == {p \in ResultsOf(s) \X ResultsOf(t) : Overlap(p[1][1], p[2][1])}
<1>1. Score(s, t) = Producer * Cardinality(P) + Both * Cardinality(Q) + Sharing * Cardinality(R)
  BY DEF Score, Pairs
<1>2. P # {}
  <2>1. PICK n \in DOMAIN descs[s].gives : l = descs[s].gives[n]
    BY DEF Makes
  <2>2. <<l, n>> \in ResultsOf(s)
    BY <2>1 DEF ResultsOf
  <2>3. <<<<l, n>>, k>> \in P
    BY <2>2
  <2> QED BY <2>3
<1>3. Cardinality(P) \in Nat /\ Cardinality(P) > 0
  <2>1. P \in SUBSET (ResultsOf(s) \X descs[t].needs)
    OBVIOUS
  <2> HIDE DEF P
  <2> QED BY <1>2, <2>1, ResultsAre, PairsAre
<1>4. Cardinality(Q) \in Nat
  <2>1. Q \in SUBSET (descs[s].needs \X descs[t].needs)
    OBVIOUS
  <2> HIDE DEF Q
  <2> QED BY <2>1, ResultsAre, PairsAre
<1>5. Cardinality(R) \in Nat
  <2>1. R \in SUBSET (ResultsOf(s) \X ResultsOf(t))
    OBVIOUS
  <2> HIDE DEF R
  <2> QED BY <2>1, ResultsAre, PairsAre
<1> DEFINE p == Cardinality(P)  q == Cardinality(Q)  r == Cardinality(R)
<1>6. Producer \in Nat /\ Producer > 0 /\ Both \in Nat /\ Sharing \in Nat
  BY ChoiceAssumption
<1>7. Score(s, t) = Producer * p + Both * q + Sharing * r
  BY <1>1
<1>8. p \in Nat /\ p > 0 /\ q \in Nat /\ r \in Nat
  BY <1>3, <1>4, <1>5
<1> HIDE DEF p, q, r
<1>9. Producer * p \in Nat /\ Producer * p > 0
  BY <1>6, <1>8
<1>10. Both * q \in Nat /\ Sharing * r \in Nat
  BY <1>6, <1>8
<1> QED BY <1>7, <1>9, <1>10

LEMMA FollowsIs ==
    ASSUME ChoiceTypeOK, NEW s, NEW t
    PROVE  Follows(s, t) \in Nat
<1> DEFINE Places(p) == {ij \in (DOMAIN p) \X (DOMAIN p) :
                             ij[1] < ij[2] /\ p[ij[1]] = s /\ p[ij[2]] = t}
           In(p) == {<<p, ij>> : ij \in Places(p)}
           f == [p \in corpus |-> In(p)]
           All == {In(p) : p \in corpus}
<1>1. Follows(s, t) = Cardinality(UNION All)
  BY DEF Follows
<1>2. IsFiniteSet(corpus) /\ corpus \subseteq Seq(Nat)
  BY ChoiceAssumption DEF ChoiceTypeOK
<1>3. ASSUME NEW p \in corpus PROVE IsFiniteSet(In(p))
  <2>1. p \in Seq(Nat)
    BY <1>2
  <2>2. DOMAIN p = 1 .. Len(p) /\ Len(p) \in Nat
    BY <2>1
  <2>3. IsFiniteSet((DOMAIN p) \X (DOMAIN p))
    <3>1. IsFiniteSet(1 .. Len(p))
      BY <2>2, FS_Interval
    <3> QED BY <2>2, <3>1, FS_Product
  <2>4. IsFiniteSet({p} \X ((DOMAIN p) \X (DOMAIN p)))
    BY <2>3, FS_Singleton, FS_Product
  <2>5. In(p) \in SUBSET ({p} \X ((DOMAIN p) \X (DOMAIN p)))
    OBVIOUS
  <2> QED BY <2>4, <2>5, FS_Subset
<1>4. f \in Surjection(corpus, All)
  BY DEF Surjection
<1> HIDE DEF f
<1>5. IsFiniteSet(All)
  BY <1>2, <1>4, FS_Surjection
<1>6. IsFiniteSet(UNION All)
  <2>1. \A T \in All : IsFiniteSet(T)
    BY <1>3
  <2> HIDE DEF All
  <2> QED BY <1>5, <2>1, FS_UNION
<1> QED BY <1>1, <1>6, FS_CardinalityType

(* There is a number next to the root.                                     *)
LEMMA DynamicIs ==
    ASSUME ChoiceTypeOK, NEW s, NEW t
    PROVE  Dynamic(s, t) \in Nat
<1> DEFINE c == Follows(s, t)
           S == {n \in Nat : 144 * c < (2 * n + 1) * (2 * n + 1)}
           Near(n) == /\ 144 * c < (2 * n + 1) * (2 * n + 1)
                      /\ n > 0 => 144 * c >= (2 * n - 1) * (2 * n - 1)
<1>1. c \in Nat
  BY FollowsIs
<1>2. Dynamic(s, t) = CHOOSE n \in 0 .. 6 * c : Near(n)
  BY DEF Dynamic
<1> HIDE DEF c
<1>3. 6 * c \in Nat
  BY <1>1
<1>4. 6 * c \in S
  <2> DEFINE a == 6 * c
  <2>1. a \in Nat /\ 144 * c = 24 * a
    BY <1>1
  <2>2. (2 * a + 1) * (2 * a + 1) = 4 * (a * a) + 4 * a + 1 /\ a * a \in Nat
    BY <2>1
  <2>3. a = 0 \/ a >= 6
    BY <1>1
  <2>4. a * a >= 6 * a
    <3>1. CASE a = 0
      BY <3>1
    <3>2. CASE a >= 6
      BY <2>1, <3>2
    <3> QED BY <2>3, <3>1, <3>2
  <2>5. 24 * a < (2 * a + 1) * (2 * a + 1)
    <3> DEFINE q == a * a
    <3>1. q \in Nat /\ q >= 6 * a /\ (2 * a + 1) * (2 * a + 1) = 4 * q + 4 * a + 1
      BY <2>2, <2>4
    <3> HIDE DEF q, a
    <3> QED BY <2>1, <3>1
  <2> QED BY <2>1, <2>5
<1>5. PICK n \in S : \A m \in S : n <= m
  <2>1. S \in SUBSET Nat /\ S # {}
    BY <1>4
  <2> HIDE DEF S
  <2> QED BY <2>1, Least
<1>6. n \in 0 .. 6 * c
  <2>1. n \in Nat /\ n <= 6 * c
    BY <1>4, <1>5
  <2> DEFINE b == 6 * c
  <2>2. b \in Nat /\ n <= b
    BY <1>3, <2>1
  <2> HIDE DEF b
  <2>3. n \in 0 .. b
    BY <2>1, <2>2
  <2> QED BY <2>3 DEF b
<1>7. Near(n)
  <2>1. ASSUME n > 0 PROVE 144 * c >= (2 * n - 1) * (2 * n - 1)
    <3>1. n - 1 \in Nat /\ n - 1 \notin S
      BY <1>5, <2>1
    <3>2. ~(144 * c < (2 * (n - 1) + 1) * (2 * (n - 1) + 1))
      BY <3>1
    <3>3. 2 * (n - 1) + 1 = 2 * n - 1
      BY <1>5
    <3> DEFINE x == (2 * n - 1) * (2 * n - 1)
    <3>4. x \in Int /\ ~(144 * c < x)
      BY <1>5, <3>2, <3>3
    <3>5. 144 * c \in Int
      BY <1>1
    <3> HIDE DEF x
    <3>6. 144 * c >= x
      BY <3>4, <3>5
    <3> QED BY <3>6 DEF x
  <2>2. 144 * c < (2 * n + 1) * (2 * n + 1)
    BY <1>5
  <2> QED BY <2>1, <2>2
<1> HIDE DEF Near
<1>8. (CHOOSE m \in 0 .. 6 * c : Near(m)) \in 0 .. 6 * c
  BY <1>6, <1>7
<1> QED BY <1>2, <1>3, <1>8

(* Neither penalty takes anything from it.                                 *)
LEMMA WeightAfter ==
    ASSUME ChoiceTypeOK, NEW s \in Described, NEW t \in Described, s # t,
           NEW k \in descs[t].needs, NEW l \in Makes(s), AcceptsKind(k, l),
           SyscallFine(t) = 0, s # 0, Blame(s, t) = 0
    PROVE  Weight(s, t) > 0
<1>1. Static(s, t) = Score(s, t)
  BY DEF Static
<1>2. EdgeFine(s, t) = 0
  <2>1. CASE descs[s].prone /\ descs[t].prone
    <3>1. edgeFailures[<<s, t>>] = 0
      BY <2>1 DEF Blame
    <3>2. EdgeFine(s, t) = 0 * EdgePenalty
      BY <2>1, <3>1 DEF EdgeFine
    <3> QED BY <3>2, ChoiceAssumption
  <2>2. CASE ~(descs[s].prone /\ descs[t].prone)
    BY <2>2 DEF EdgeFine
  <2> QED BY <2>1, <2>2
<1> DEFINE w == Static(s, t) + Dynamic(s, t)
<1>3. w \in Nat /\ w > 0
  <2>1. Score(s, t) \in Nat /\ Score(s, t) > 0
    BY ScoreIs
  <2> QED BY <1>1, <2>1, DynamicIs
<1>4. Weight(s, t) = Less(Less(w, 0), 0)
  BY <1>2 DEF Weight
<1> HIDE DEF w
<1>5. Less(w, 0) = w
  BY <1>3 DEF Less
<1> QED BY <1>3, <1>4, <1>5

LEMMA FollowUpIsChosen ==
    ASSUME ReachInv, CallsAreListed
    PROVE  FollowUpsKeepAChance
<1> SUFFICES
      ASSUME NEW s \in Ready(Previous), Previous # 0, Previous # s,
             NEW k \in descs[s].needs, NEW l \in Makes(Previous), AcceptsKind(k, l),
             SyscallFine(s) = 0, Blame(Previous, s) = 0
      PROVE  s \in Chosen(Previous)
  BY DEF FollowUpsKeepAChance
<1> DEFINE prev == Previous
           ready == Ready(prev)
           least == LeastBlamed(ready, prev)
<1>1. ChoiceTypeOK /\ prev \in Listed /\ prev \in Described /\ Listed \subseteq Described
  BY PreviousIs, DescribedAre DEF ReachInv
<1>2. ready \subseteq Described /\ s \in Described
  BY <1>1, ReadyAre DEF Consumers
<1> HIDE DEF prev
<1>3. s \in least
  <2>1. \A d \in ready : Blame(prev, s) <= Blame(prev, d)
    <3> TAKE d \in ready
    <3>1. Blame(prev, d) \in Nat
      BY <1>1, <1>2, BlameIs
    <3> QED BY <3>1 DEF prev
  <2> QED BY <2>1 DEF LeastBlamed, prev
<1>4. Weight(prev, s) > 0
  BY <1>1, <1>2, WeightAfter DEF prev
<1>5. s \in Drawable(least, prev)
  <2>1. s \in Row(least, prev)
    BY <1>1, <1>3, <1>4 DEF Row
  <2> HIDE DEF least
  <2> QED BY <1>3, <2>1 DEF Drawable, InRow
<1>6. s \in DrawnFrom(ready, prev)
  BY <1>5 DEF DrawnFrom
<1>7. ready # {} /\ FedBy({}, s, prev) = {s}
  BY DEF FedBy, prev
<1> HIDE DEF ready
<1>8. s \in ChosenFrom(ready, prev)
  BY <1>6, <1>7 DEF ChosenFrom
<1> QED BY <1>8 DEF Chosen, ready, prev

(* Whatever the penalties, there is an enabled call to draw, and a call    *)
(* that can take what the last one made and never timed out, alone or      *)
(* after it, keeps its chance.                                             *)
THEOREM ThereIsAChoice == ChoiceSpec => []ChoiceNeverFails
<1>1. GenerateInv => ChoiceNeverFails
  <2> SUFFICES ASSUME GenerateInv PROVE ChoiceNeverFails
    OBVIOUS
  <2>1. SomethingIsChosen
    BY SomeCallIsChosen DEF SomethingIsChosen, GenerateInv
  <2> QED BY <2>1, FollowUpIsChosen DEF ChoiceNeverFails, GenerateInv
<1> QED BY GenerateInit, GenerateNext, <1>1, PTL DEF ChoiceSpec

-----------------------------------------------------------------------------
(* Varint: words and their codes.                                          *)

(* Zigzag coding loses nothing: for a word of any width the executor gets  *)
(* back what write_val was given, and never needs a wider word for it.     *)
THEOREM ZigZagReadsBack ==
    \A v \in Word : ZigZag(v) \in Word /\ UnZigZag(ZigZag(v)) = v
<1> SUFFICES ASSUME NEW v \in Word PROVE ZigZag(v) \in Word /\ UnZigZag(ZigZag(v)) = v
  OBVIOUS
<1>1. Half \in Nat /\ v \in Int /\ 0 <= v /\ v <= 2 * Half - 1
  BY WordsAssumption DEF Word
<1>2. CASE v < Half
  <2>1. ZigZag(v) = 2 * v
    BY <1>2 DEF ZigZag
  <2>2. (2 * v) % 2 = 0 /\ (2 * v) \div 2 = v
    BY <1>1
  <2> QED BY <1>1, <1>2, <2>1, <2>2 DEF UnZigZag, Word
<1>3. CASE ~(v < Half)
  <2> DEFINE u == 4 * Half - 1 - 2 * v
  <2>1. ZigZag(v) = u /\ u \in Word
    BY <1>1, <1>3 DEF ZigZag, Word
  <2>2. u % 2 = 1
    BY <1>1
  <2>3. (u + 1) \div 2 = 2 * Half - v
    BY <1>1
  <2> QED BY <1>1, <2>1, <2>2, <2>3 DEF UnZigZag
<1> QED BY <1>1, <1>2, <1>3

(* Two words are never written alike.                                      *)
THEOREM ZigZagTellsApart ==
    \A v, w \in Word : ZigZag(v) = ZigZag(w) => v = w
<1> SUFFICES ASSUME NEW v \in Word, NEW w \in Word, ZigZag(v) = ZigZag(w) PROVE v = w
  OBVIOUS
<1>1. UnZigZag(ZigZag(v)) = v /\ UnZigZag(ZigZag(w)) = w
  BY ZigZagReadsBack
<1> QED BY <1>1

-----------------------------------------------------------------------------
(* The bytes of the encoding, as whoever reads them from the start comes   *)
(* to know them: before byte i the reader is at word of[i] and has part[i] *)
(* of it, and the next group counts val[i].                                *)
WordAfter(b, of) == IF b >= GroupSize THEN of ELSE of + 1
PartAfter(b, part, val) == IF b >= GroupSize THEN part + (b - GroupSize) * val ELSE 0
ValueAfter(b, val) == IF b >= GroupSize THEN val * GroupSize ELSE 1
Whole(b, part, val) == part + b * val

Reads(bytes, n, of, part, val) ==
    /\ of[1] = 1 /\ part[1] = 0 /\ val[1] = 1
    /\ \A i \in 1 .. n :
          /\ of[i + 1] = WordAfter(bytes[i], of[i])
          /\ part[i + 1] = PartAfter(bytes[i], part[i], val[i])
          /\ val[i + 1] = ValueAfter(bytes[i], val[i])

(* Where a byte ends a word, it is one of the words to write.              *)
EndsWords(bytes, n, of, part, val) ==
    \A i \in 1 .. n : bytes[i] < GroupSize =>
        /\ of[i] \in 1 .. Len(first)
        /\ Whole(bytes[i], part[i], val[i]) = ZigZag(first[of[i]])

WordsTypeOK ==
    /\ first \in Seq(Word) /\ words \in Seq(Word)
    /\ rest \in Nat \cup {-1} /\ buf \in Seq(Nat)
    /\ pos \in 0 .. Len(buf) /\ group \in Nat /\ partial \in Nat /\ read \in Seq(Nat)

Begun == Len(first) - Len(words)

(* What is not written yet is at the end of the words; and the group that  *)
(* is written next goes on where the bytes end.                            *)
WritesOn(of, part, val) ==
    /\ Len(words) <= Len(first)
    /\ \A i \in 1 .. Len(words) : words[i] = first[Begun + i]
    /\ rest = -1 =>
          of[Len(buf) + 1] = Begun + 1 /\ part[Len(buf) + 1] = 0 /\ val[Len(buf) + 1] = 1
    /\ rest # -1 =>
          /\ Begun >= 1 /\ of[Len(buf) + 1] = Begun
          /\ Whole(rest, part[Len(buf) + 1], val[Len(buf) + 1]) = ZigZag(first[Begun])

(* The executor has read words that were to be written, and is where the   *)
(* bytes have led it.                                                      *)
ReadsOn(of, part, val) ==
    /\ of[pos + 1] = Len(read) + 1 /\ part[pos + 1] = partial /\ val[pos + 1] = group
    /\ Len(read) <= Len(first)
    /\ \A i \in 1 .. Len(read) : read[i] = first[i]

Agrees(of, part, val) ==
    /\ Reads(buf, Len(buf), of, part, val)
    /\ EndsWords(buf, Len(buf), of, part, val)
    /\ WritesOn(of, part, val)
    /\ ReadsOn(of, part, val)

Followed == [Nat -> Nat]

WordsInv ==
    /\ WordsTypeOK
    /\ \E of, part, val \in Followed : Agrees(of, part, val)

-----------------------------------------------------------------------------
(* A group taken off the rest is a group more that was read.               *)
LEMMA GroupsAddUp ==
    ASSUME NEW v \in Nat, NEW part \in Nat, NEW val \in Nat, More(v)
    PROVE  LET b == GroupSize + (v % GroupSize) IN
           /\ b \in Nat /\ b >= GroupSize /\ v \div GroupSize \in Nat
           /\ PartAfter(b, part, val) \in Nat /\ ValueAfter(b, val) \in Nat
           /\ Whole(v \div GroupSize, PartAfter(b, part, val), ValueAfter(b, val)) = Whole(v, part, val)
<1> DEFINE q == v \div GroupSize
           r == v % GroupSize
<1>1. GroupSize \in Nat /\ GroupSize > 1
  BY WordsAssumption
<1>2. q \in Nat /\ r \in Nat /\ v = q * GroupSize + r
  BY <1>1
<1> HIDE DEF q, r
<1>3. GroupSize + r >= GroupSize /\ GroupSize + r \in Nat /\ (GroupSize + r) - GroupSize = r
  BY <1>1, <1>2
<1>4. /\ PartAfter(GroupSize + r, part, val) = part + r * val
      /\ ValueAfter(GroupSize + r, val) = val * GroupSize
  BY <1>3 DEF PartAfter, ValueAfter
<1>5. r * val \in Nat /\ val * GroupSize \in Nat
  BY <1>1, <1>2
<1>6. q * (val * GroupSize) = (q * GroupSize) * val
  BY <1>1, <1>2
<1>7. (q * GroupSize + r) * val = (q * GroupSize) * val + r * val
  BY <1>1, <1>2
<1>8. (q * GroupSize) * val \in Nat
  BY <1>1, <1>2
<1>9. (part + r * val) + q * (val * GroupSize) = part + v * val
  BY <1>2, <1>5, <1>6, <1>7, <1>8
<1>10. Whole(q, part + r * val, val * GroupSize) = Whole(v, part, val)
  BY <1>9 DEF Whole
<1> QED
  BY <1>2, <1>3, <1>4, <1>5, <1>10 DEF q, r

(* The next byte read leads on as ReadMore and ReadLast do.                *)
LEMMA BytesLeadOn ==
    ASSUME NEW bytes \in Seq(Nat), NEW more \in Nat,
           NEW of \in Followed, NEW part \in Followed, NEW val \in Followed,
           Reads(bytes, Len(bytes), of, part, val), EndsWords(bytes, Len(bytes), of, part, val),
           PartAfter(more, part[Len(bytes) + 1], val[Len(bytes) + 1]) \in Nat,
           ValueAfter(more, val[Len(bytes) + 1]) \in Nat,
           more < GroupSize =>
               /\ of[Len(bytes) + 1] \in 1 .. Len(first)
               /\ Whole(more, part[Len(bytes) + 1], val[Len(bytes) + 1])
                      = ZigZag(first[of[Len(bytes) + 1]])
    PROVE  \E o, p, v \in Followed :
              /\ Reads(Append(bytes, more), Len(bytes) + 1, o, p, v)
              /\ EndsWords(Append(bytes, more), Len(bytes) + 1, o, p, v)
              /\ \A i \in 1 .. Len(bytes) + 1 : o[i] = of[i] /\ p[i] = part[i] /\ v[i] = val[i]
              /\ o[Len(bytes) + 2] = WordAfter(more, of[Len(bytes) + 1])
              /\ p[Len(bytes) + 2] = PartAfter(more, part[Len(bytes) + 1], val[Len(bytes) + 1])
              /\ v[Len(bytes) + 2] = ValueAfter(more, val[Len(bytes) + 1])
<1> DEFINE n == Len(bytes)
           b == Append(bytes, more)
           Longer(f, x) == [f EXCEPT ![n + 2] = x]
           o == Longer(of, WordAfter(more, of[n + 1]))
           p == Longer(part, PartAfter(more, part[n + 1], val[n + 1]))
           v == Longer(val, ValueAfter(more, val[n + 1]))
<1>1. n \in Nat
  OBVIOUS
<1>2. WordAfter(more, of[n + 1]) \in Nat
  <2>1. of[n + 1] \in Nat
    BY <1>1 DEF Followed
  <2> QED BY <2>1 DEF WordAfter
<1>3. o \in Followed /\ p \in Followed /\ v \in Followed
  BY <1>1, <1>2 DEF Followed
<1>4. \A i \in 1 .. n : b[i] = bytes[i]
  OBVIOUS
<1>5. b[n + 1] = more
  OBVIOUS
<1> HIDE DEF n, b
<1>6. ASSUME NEW f \in [Nat -> Nat], NEW x
      PROVE  Longer(f, x)[n + 2] = x /\ \A i \in 1 .. n + 1 : Longer(f, x)[i] = f[i]
  <2>1. n + 2 \in Nat /\ \A i \in 1 .. n + 1 : i \in Nat /\ i # n + 2
    BY <1>1
  <2> QED BY <2>1
<1> HIDE DEF Longer
<1>7. \A i \in 1 .. n + 1 : o[i] = of[i] /\ p[i] = part[i] /\ v[i] = val[i]
  <2>1. \A i \in 1 .. n + 1 : o[i] = of[i]
    BY <1>6 DEF Followed
  <2>2. \A i \in 1 .. n + 1 : p[i] = part[i]
    BY <1>6 DEF Followed
  <2>3. \A i \in 1 .. n + 1 : v[i] = val[i]
    BY <1>6 DEF Followed
  <2> QED BY <2>1, <2>2, <2>3
<1>8. /\ o[n + 2] = WordAfter(more, of[n + 1])
      /\ p[n + 2] = PartAfter(more, part[n + 1], val[n + 1])
      /\ v[n + 2] = ValueAfter(more, val[n + 1])
  BY <1>6 DEF Followed
<1> HIDE DEF o, p, v
<1>9. Reads(b, n + 1, o, p, v)
  <2>1. o[1] = 1 /\ p[1] = 0 /\ v[1] = 1
    BY <1>1, <1>7 DEF Reads
  <2>2. ASSUME NEW i \in 1 .. n + 1
        PROVE  /\ o[i + 1] = WordAfter(b[i], o[i])
               /\ p[i + 1] = PartAfter(b[i], p[i], v[i])
               /\ v[i + 1] = ValueAfter(b[i], v[i])
    <3>1. CASE i \in 1 .. n
      <4>1. i + 1 \in 1 .. n + 1 /\ i \in 1 .. n + 1
        BY <1>1, <3>1
      <4>2. /\ of[i + 1] = WordAfter(bytes[i], of[i])
            /\ part[i + 1] = PartAfter(bytes[i], part[i], val[i])
            /\ val[i + 1] = ValueAfter(bytes[i], val[i])
        BY <3>1 DEF Reads, n
      <4>3. /\ o[i + 1] = of[i + 1] /\ p[i + 1] = part[i + 1] /\ v[i + 1] = val[i + 1]
            /\ o[i] = of[i] /\ p[i] = part[i] /\ v[i] = val[i]
        BY <1>7, <4>1
      <4> QED BY <1>4, <3>1, <4>2, <4>3
    <3>2. CASE i \notin 1 .. n
      <4>1. i = n + 1 /\ i + 1 = n + 2
        BY <1>1, <3>2
      <4>2. o[i] = of[i] /\ p[i] = part[i] /\ v[i] = val[i]
        BY <1>7
      <4> QED BY <1>5, <1>8, <4>1, <4>2
    <3> QED BY <3>1, <3>2
  <2> QED BY <2>1, <2>2 DEF Reads
<1>10. EndsWords(b, n + 1, o, p, v)
  <2> SUFFICES ASSUME NEW i \in 1 .. n + 1, b[i] < GroupSize
               PROVE  /\ o[i] \in 1 .. Len(first)
                      /\ Whole(b[i], p[i], v[i]) = ZigZag(first[o[i]])
    BY DEF EndsWords
  <2>0. o[i] = of[i] /\ p[i] = part[i] /\ v[i] = val[i]
    BY <1>7
  <2>1. CASE i \in 1 .. n
    <3>1. b[i] = bytes[i]
      BY <1>4, <2>1
    <3>2. of[i] \in 1 .. Len(first) /\ Whole(bytes[i], part[i], val[i]) = ZigZag(first[of[i]])
      BY <2>1, <3>1 DEF EndsWords, n
    <3> QED BY <2>0, <3>1, <3>2
  <2>2. CASE i \notin 1 .. n
    <3>1. i = n + 1
      BY <1>1, <2>2
    <3>2. b[i] = more /\ more < GroupSize
      BY <1>5, <3>1
    <3>3. /\ of[n + 1] \in 1 .. Len(first)
          /\ Whole(more, part[n + 1], val[n + 1]) = ZigZag(first[of[n + 1]])
      BY <3>2 DEF n
    <3> QED BY <2>0, <3>1, <3>2, <3>3
  <2> QED BY <2>1, <2>2
<1> QED
  BY <1>3, <1>7, <1>8, <1>9, <1>10 DEF n, b

-----------------------------------------------------------------------------
LEMMA WordsInitInv == WordsInit => WordsInv
<1> SUFFICES ASSUME WordsInit PROVE WordsInv
  OBVIOUS
<1>1. first \in Seq(Word) /\ words = first
  BY WordsAssumption DEF WordsInit
<1>2. WordsTypeOK
  BY <1>1 DEF WordsInit, WordsTypeOK
<1> DEFINE one == [i \in Nat |-> 1]
           zero == [i \in Nat |-> 0]
<1>3. one \in Followed /\ zero \in Followed
  BY DEF Followed
<1>4. one[1] = 1 /\ zero[1] = 0
  OBVIOUS
<1> HIDE DEF one, zero
<1>5. Len(buf) = 0 /\ pos = 0 /\ Len(read) = 0 /\ rest = -1 /\ group = 1 /\ partial = 0
  BY DEF WordsInit
<1>6. Reads(buf, Len(buf), one, zero, one) /\ EndsWords(buf, Len(buf), one, zero, one)
  BY <1>4, <1>5 DEF Reads, EndsWords
<1>7. WritesOn(one, zero, one)
  BY <1>1, <1>4, <1>5 DEF WritesOn, Begun
<1>8. ReadsOn(one, zero, one)
  BY <1>1, <1>4, <1>5 DEF ReadsOn
<1> QED
  BY <1>2, <1>3, <1>6, <1>7, <1>8 DEF WordsInv, Agrees

LEMMA WriteInv ==
    ASSUME WordsInv, Write
    PROVE  WordsInv'
<1>1. PICK of \in Followed, part \in Followed, val \in Followed : Agrees(of, part, val)
  BY DEF WordsInv
<1> DEFINE w == Head(words)
<1>2. w \in Word /\ Tail(words) \in Seq(Word) /\ Len(Tail(words)) = Len(words) - 1
      /\ Len(words) > 0 /\ w = words[1]
      /\ \A i \in 1 .. Len(words) - 1 : Tail(words)[i] = words[i + 1]
  BY DEF WordsInv, WordsTypeOK, Write
<1>3. ZigZag(w) \in Nat
  BY <1>2, ZigZagReadsBack, WordsAssumption DEF Word
<1>4. WordsTypeOK'
  BY <1>2, <1>3 DEF WordsInv, WordsTypeOK, Write, reader
<1>5. UNCHANGED <<first, buf, pos, group, partial, read>>
  BY DEF Write, reader
<1>6. Reads(buf, Len(buf), of, part, val)' /\ EndsWords(buf, Len(buf), of, part, val)'
      /\ ReadsOn(of, part, val)'
  BY <1>1, <1>5 DEF Agrees, Reads, EndsWords, ReadsOn
<1>7. WritesOn(of, part, val)'
  <2>0. Len(first) \in Nat /\ Len(words) \in Nat /\ Len(words) <= Len(first) /\ Len(words') = Len(words) - 1
    BY <1>1, <1>2 DEF WordsInv, WordsTypeOK, Agrees, WritesOn, Write
  <2>1. Begun' = Begun + 1 /\ Begun \in Nat
    BY <1>2, <1>5, <2>0 DEF Begun
  <2>2. \A i \in 1 .. Len(words) : words[i] = first[Begun + i]
    BY <1>1 DEF Agrees, WritesOn
  <2>3. \A i \in 1 .. Len(words') : words'[i] = first'[Begun' + i]
    <3> SUFFICES ASSUME NEW i \in 1 .. Len(words') PROVE words'[i] = first'[Begun' + i]
      OBVIOUS
    <3>1. i + 1 \in 1 .. Len(words) /\ i \in 1 .. Len(words) - 1
      BY <2>0
    <3>2. words'[i] = words[i + 1]
      BY <1>2, <3>1 DEF Write
    <3>3. words[i + 1] = first[Begun + (i + 1)]
      BY <2>2, <3>1
    <3>4. Begun + (i + 1) = Begun' + i
      BY <2>1, <3>1
    <3> QED BY <1>5, <3>2, <3>3, <3>4
  <2>4. of[Len(buf) + 1] = Begun + 1 /\ part[Len(buf) + 1] = 0 /\ val[Len(buf) + 1] = 1
    BY <1>1 DEF Agrees, WritesOn, Write
  <2>5. rest' = ZigZag(w) /\ rest' # -1
    BY <1>3 DEF Write
  <2>6. words[1] = first[Begun + 1]
    BY <1>2, <2>0, <2>2
  <2>7. Whole(rest', 0, 1) = ZigZag(first[Begun + 1])
    BY <1>2, <1>3, <2>5, <2>6 DEF Whole
  <2>8. Whole(rest', part[Len(buf') + 1], val[Len(buf') + 1]) = ZigZag(first'[Begun'])
    BY <1>5, <2>1, <2>4, <2>7
  <2>9. Begun' >= 1 /\ of[Len(buf') + 1] = Begun'
    BY <1>5, <2>1, <2>4
  <2>10. Len(words') <= Len(first')
    BY <1>5, <2>0
  <2> QED
    BY <2>3, <2>5, <2>8, <2>9, <2>10 DEF WritesOn
<1> QED
  BY <1>4, <1>6, <1>7 DEF WordsInv, Agrees

(* Where the reader is stays as it was when bytes are added.               *)
LEMMA ReaderIsKept ==
    ASSUME WordsTypeOK,
           NEW of, NEW part, NEW val, NEW o, NEW p, NEW v,
           \A i \in 1 .. Len(buf) + 1 : o[i] = of[i] /\ p[i] = part[i] /\ v[i] = val[i],
           ReadsOn(of, part, val),
           UNCHANGED <<first, reader>>
    PROVE  ReadsOn(o, p, v)'
<1>1. pos + 1 \in 1 .. Len(buf) + 1
  BY DEF WordsTypeOK
<1>2. o[pos + 1] = of[pos + 1] /\ p[pos + 1] = part[pos + 1] /\ v[pos + 1] = val[pos + 1]
  BY <1>1
<1>3. UNCHANGED <<first, pos, group, partial, read>>
  BY DEF reader
<1> QED BY <1>2, <1>3 DEF ReadsOn

LEMMA WriteGroupInv ==
    ASSUME WordsInv, WriteGroup
    PROVE  WordsInv'
<1>1. PICK of \in Followed, part \in Followed, val \in Followed : Agrees(of, part, val)
  BY DEF WordsInv
<1> DEFINE n == Len(buf)
           more == GroupSize + (rest % GroupSize)
<1>2. rest \in Nat /\ n \in Nat /\ buf \in Seq(Nat) /\ More(rest)
  BY DEF WordsInv, WordsTypeOK, WriteGroup
<1>3. part[n + 1] \in Nat /\ val[n + 1] \in Nat
  BY <1>2 DEF Followed
<1>4. /\ more \in Nat /\ more >= GroupSize /\ rest \div GroupSize \in Nat
      /\ PartAfter(more, part[n + 1], val[n + 1]) \in Nat /\ ValueAfter(more, val[n + 1]) \in Nat
      /\ Whole(rest \div GroupSize, PartAfter(more, part[n + 1], val[n + 1]),
               ValueAfter(more, val[n + 1])) = Whole(rest, part[n + 1], val[n + 1])
  BY <1>2, <1>3, GroupsAddUp
<1>5. rest' = rest \div GroupSize /\ buf' = Append(buf, more) /\ UNCHANGED <<first, words, reader>>
  BY DEF WriteGroup
<1> HIDE DEF more
<1>6. ~(more < GroupSize)
  BY <1>4, WordsAssumption
<1>7. Reads(buf, n, of, part, val) /\ EndsWords(buf, n, of, part, val)
  BY <1>1 DEF Agrees
<1>8. PICK o \in Followed, p \in Followed, v \in Followed :
              /\ Reads(Append(buf, more), n + 1, o, p, v)
              /\ EndsWords(Append(buf, more), n + 1, o, p, v)
              /\ \A i \in 1 .. n + 1 : o[i] = of[i] /\ p[i] = part[i] /\ v[i] = val[i]
              /\ o[n + 2] = WordAfter(more, of[n + 1])
              /\ p[n + 2] = PartAfter(more, part[n + 1], val[n + 1])
              /\ v[n + 2] = ValueAfter(more, val[n + 1])
  BY <1>2, <1>4, <1>6, <1>7, BytesLeadOn
<1>9. Len(buf') = n + 1 /\ Len(buf') + 1 = n + 2 /\ buf' \in Seq(Nat)
  BY <1>2, <1>4, <1>5
<1>10. WordsTypeOK'
  BY <1>2, <1>4, <1>5, <1>9 DEF WordsInv, WordsTypeOK, reader
<1>11. Reads(buf, Len(buf), o, p, v)'
  BY <1>5, <1>8, <1>9 DEF Reads
<1>12. EndsWords(buf, Len(buf), o, p, v)'
  BY <1>5, <1>8, <1>9 DEF EndsWords
<1>13. WritesOn(o, p, v)'
  <2>1. rest # -1 /\ rest' # -1
    BY <1>2, <1>4, <1>5
  <2>2. /\ Len(words) <= Len(first)
        /\ \A i \in 1 .. Len(words) : words[i] = first[Begun + i]
        /\ Begun >= 1 /\ of[n + 1] = Begun
        /\ Whole(rest, part[n + 1], val[n + 1]) = ZigZag(first[Begun])
    BY <1>1, <2>1 DEF Agrees, WritesOn
  <2>3. o[n + 2] = Begun
    BY <1>4, <1>8, <2>2 DEF WordAfter
  <2>4. Whole(rest', p[n + 2], v[n + 2]) = ZigZag(first[Begun])
    BY <1>4, <1>5, <1>8, <2>2
  <2>5. Begun' = Begun
    BY <1>5 DEF Begun
  <2> QED
    BY <1>5, <1>9, <2>1, <2>2, <2>3, <2>4, <2>5 DEF WritesOn
<1>14. ReadsOn(o, p, v)'
  BY <1>1, <1>5, <1>8, ReaderIsKept DEF WordsInv, Agrees
<1> QED
  BY <1>10, <1>11, <1>12, <1>13, <1>14 DEF WordsInv, Agrees

LEMMA WriteLastInv ==
    ASSUME WordsInv, WriteLast
    PROVE  WordsInv'
<1>1. PICK of \in Followed, part \in Followed, val \in Followed : Agrees(of, part, val)
  BY DEF WordsInv
<1> DEFINE n == Len(buf)
<1>2. rest \in Nat /\ rest # -1 /\ n \in Nat /\ buf \in Seq(Nat) /\ rest < GroupSize
  BY WordsAssumption DEF WordsInv, WordsTypeOK, WriteLast, More
<1>3. /\ Len(words) <= Len(first)
      /\ \A i \in 1 .. Len(words) : words[i] = first[Begun + i]
      /\ Begun >= 1 /\ of[n + 1] = Begun
      /\ Whole(rest, part[n + 1], val[n + 1]) = ZigZag(first[Begun])
  BY <1>2, <1>1 DEF Agrees, WritesOn
<1>4. Begun \in 1 .. Len(first)
  BY <1>3 DEF WordsInv, WordsTypeOK, Begun
<1>5. PartAfter(rest, part[n + 1], val[n + 1]) = 0 /\ ValueAfter(rest, val[n + 1]) = 1
      /\ WordAfter(rest, of[n + 1]) = Begun + 1
  BY <1>2, <1>3, WordsAssumption DEF PartAfter, ValueAfter, WordAfter
<1>6. /\ PartAfter(rest, part[n + 1], val[n + 1]) \in Nat /\ ValueAfter(rest, val[n + 1]) \in Nat
      /\ of[n + 1] \in 1 .. Len(first)
      /\ Whole(rest, part[n + 1], val[n + 1]) = ZigZag(first[of[n + 1]])
  BY <1>3, <1>4, <1>5
<1>7. rest' = -1 /\ buf' = Append(buf, rest) /\ UNCHANGED <<first, words, reader>>
  BY DEF WriteLast
<1>8. Reads(buf, n, of, part, val) /\ EndsWords(buf, n, of, part, val)
  BY <1>1 DEF Agrees
<1>9. PICK o \in Followed, p \in Followed, v \in Followed :
              /\ Reads(Append(buf, rest), n + 1, o, p, v)
              /\ EndsWords(Append(buf, rest), n + 1, o, p, v)
              /\ \A i \in 1 .. n + 1 : o[i] = of[i] /\ p[i] = part[i] /\ v[i] = val[i]
              /\ o[n + 2] = WordAfter(rest, of[n + 1])
              /\ p[n + 2] = PartAfter(rest, part[n + 1], val[n + 1])
              /\ v[n + 2] = ValueAfter(rest, val[n + 1])
  BY <1>2, <1>6, <1>8, BytesLeadOn
<1>10. Len(buf') = n + 1 /\ Len(buf') + 1 = n + 2 /\ buf' \in Seq(Nat)
  BY <1>2, <1>7
<1>11. WordsTypeOK'
  BY <1>2, <1>7, <1>10 DEF WordsInv, WordsTypeOK, reader
<1>12. Reads(buf, Len(buf), o, p, v)'
  BY <1>7, <1>9, <1>10 DEF Reads
<1>13. EndsWords(buf, Len(buf), o, p, v)'
  BY <1>7, <1>9, <1>10 DEF EndsWords
<1>14. WritesOn(o, p, v)'
  <2>1. Begun' = Begun
    BY <1>7 DEF Begun
  <2> QED
    BY <1>3, <1>5, <1>7, <1>9, <1>10, <2>1 DEF WritesOn
<1>15. ReadsOn(o, p, v)'
  BY <1>1, <1>7, <1>9, ReaderIsKept DEF WordsInv, Agrees
<1> QED
  BY <1>11, <1>12, <1>13, <1>14, <1>15 DEF WordsInv, Agrees

-----------------------------------------------------------------------------
(* The byte the executor reads is one of those written.                    *)
LEMMA NextByte ==
    ASSUME WordsTypeOK, pos < Len(buf),
           NEW of \in Followed, NEW part \in Followed, NEW val \in Followed, Agrees(of, part, val)
    PROVE  LET b == buf[pos + 1] IN
           /\ pos + 1 \in 1 .. Len(buf) /\ b \in Nat
           /\ of[pos + 2] = WordAfter(b, Len(read) + 1)
           /\ part[pos + 2] = PartAfter(b, partial, group)
           /\ val[pos + 2] = ValueAfter(b, group)
           /\ b < GroupSize =>
                 /\ Len(read) + 1 \in 1 .. Len(first)
                 /\ Whole(b, partial, group) = ZigZag(first[Len(read) + 1])
<1>1. pos + 1 \in 1 .. Len(buf) /\ buf[pos + 1] \in Nat /\ (pos + 1) + 1 = pos + 2
  BY DEF WordsTypeOK
<1>2. of[pos + 1] = Len(read) + 1 /\ part[pos + 1] = partial /\ val[pos + 1] = group
  BY DEF Agrees, ReadsOn
<1>3. /\ of[(pos + 1) + 1] = WordAfter(buf[pos + 1], of[pos + 1])
      /\ part[(pos + 1) + 1] = PartAfter(buf[pos + 1], part[pos + 1], val[pos + 1])
      /\ val[(pos + 1) + 1] = ValueAfter(buf[pos + 1], val[pos + 1])
  BY <1>1 DEF Agrees, Reads
<1>4. buf[pos + 1] < GroupSize =>
          /\ of[pos + 1] \in 1 .. Len(first)
          /\ Whole(buf[pos + 1], part[pos + 1], val[pos + 1]) = ZigZag(first[of[pos + 1]])
  BY <1>1 DEF Agrees, EndsWords
<1> QED BY <1>1, <1>2, <1>3, <1>4

(* What was written stays as it is when the executor reads.                *)
LEMMA WriterIsKept ==
    ASSUME NEW of, NEW part, NEW val, Agrees(of, part, val), UNCHANGED <<first, writer>>
    PROVE  /\ Reads(buf, Len(buf), of, part, val)'
           /\ EndsWords(buf, Len(buf), of, part, val)'
           /\ WritesOn(of, part, val)'
<1>1. UNCHANGED <<first, words, rest, buf>>
  BY DEF writer
<1>2. Begun' = Begun
  BY <1>1 DEF Begun
<1> QED BY <1>1, <1>2 DEF Agrees, Reads, EndsWords, WritesOn

LEMMA ReadMoreInv ==
    ASSUME WordsInv, ReadMore
    PROVE  WordsInv'
<1>1. PICK of \in Followed, part \in Followed, val \in Followed : Agrees(of, part, val)
  BY DEF WordsInv
<1> DEFINE b == buf[pos + 1]
<1>2. WordsTypeOK /\ pos < Len(buf) /\ b >= GroupSize
  BY DEF WordsInv, ReadMore
<1>3. /\ pos + 1 \in 1 .. Len(buf) /\ b \in Nat
      /\ of[pos + 2] = WordAfter(b, Len(read) + 1)
      /\ part[pos + 2] = PartAfter(b, partial, group)
      /\ val[pos + 2] = ValueAfter(b, group)
  BY <1>2, <1>1, NextByte
<1>4. partial' = PartAfter(b, partial, group) /\ group' = ValueAfter(b, group) /\ pos' = pos + 1
      /\ UNCHANGED <<first, words, rest, buf, read>>
  BY <1>2 DEF ReadMore, PartAfter, ValueAfter, writer
<1>5. of[pos' + 1] = Len(read') + 1 /\ part[pos' + 1] = partial' /\ val[pos' + 1] = group'
  <2>1. pos' + 1 = pos + 2
    BY <1>2, <1>4 DEF WordsTypeOK
  <2>2. WordAfter(b, Len(read) + 1) = Len(read) + 1
    BY <1>2 DEF WordAfter
  <2> QED BY <1>3, <1>4, <2>1, <2>2
<1>6. partial' \in Nat /\ group' \in Nat
  <2>1. pos + 2 \in Nat
    BY <1>2 DEF WordsTypeOK
  <2> QED BY <1>3, <1>4, <2>1 DEF Followed
<1>7. WordsTypeOK'
  BY <1>2, <1>3, <1>4, <1>6 DEF WordsTypeOK
<1>8. ReadsOn(of, part, val)'
  BY <1>1, <1>4, <1>5 DEF Agrees, ReadsOn
<1>9. Reads(buf, Len(buf), of, part, val)' /\ EndsWords(buf, Len(buf), of, part, val)'
      /\ WritesOn(of, part, val)'
  BY <1>1, <1>4, WriterIsKept DEF writer
<1> QED
  BY <1>7, <1>8, <1>9 DEF WordsInv, Agrees

LEMMA ReadLastInv ==
    ASSUME WordsInv, ReadLast
    PROVE  WordsInv'
<1>1. PICK of \in Followed, part \in Followed, val \in Followed : Agrees(of, part, val)
  BY DEF WordsInv
<1> DEFINE b == buf[pos + 1]
           k == Len(read) + 1
<1>2. WordsTypeOK /\ pos < Len(buf) /\ b < GroupSize
  BY DEF WordsInv, ReadLast
<1>3. /\ pos + 1 \in 1 .. Len(buf) /\ b \in Nat
      /\ of[pos + 2] = WordAfter(b, k)
      /\ part[pos + 2] = PartAfter(b, partial, group)
      /\ val[pos + 2] = ValueAfter(b, group)
      /\ k \in 1 .. Len(first)
      /\ Whole(b, partial, group) = ZigZag(first[k])
  BY <1>2, <1>1, NextByte
<1>4. read' = Append(read, UnZigZag(Whole(b, partial, group)))
      /\ partial' = 0 /\ group' = 1 /\ pos' = pos + 1
      /\ UNCHANGED <<first, words, rest, buf>>
  BY DEF ReadLast, Whole, writer
<1>5. first[k] \in Word /\ UnZigZag(ZigZag(first[k])) = first[k] /\ first[k] \in Nat
  <2>1. first[k] \in Word
    BY <1>2, <1>3 DEF WordsTypeOK
  <2> QED BY <2>1, ZigZagReadsBack, WordsAssumption DEF Word
<1>6. read' = Append(read, first[k])
  BY <1>3, <1>4, <1>5
<1>7. read' \in Seq(Nat) /\ Len(read') = k /\ read'[k] = first[k]
      /\ \A i \in 1 .. Len(read) : read'[i] = read[i]
  BY <1>2, <1>5, <1>6 DEF WordsTypeOK
<1>8. of[pos' + 1] = Len(read') + 1 /\ part[pos' + 1] = partial' /\ val[pos' + 1] = group'
  <2>1. pos' + 1 = pos + 2
    BY <1>2, <1>4 DEF WordsTypeOK
  <2>2. WordAfter(b, k) = k + 1 /\ PartAfter(b, partial, group) = 0 /\ ValueAfter(b, group) = 1
    BY <1>2, <1>3, WordsAssumption DEF WordAfter, PartAfter, ValueAfter
  <2> QED BY <1>3, <1>4, <1>7, <2>1, <2>2
<1>9. WordsTypeOK'
  BY <1>2, <1>3, <1>4, <1>7 DEF WordsTypeOK
<1>10. ReadsOn(of, part, val)'
  <2>1. Len(read) \in Nat /\ \A i \in 1 .. Len(read) : read[i] = first[i]
    BY <1>2, <1>1 DEF Agrees, ReadsOn, WordsTypeOK
  <2>2. \A i \in 1 .. Len(read') : read'[i] = first'[i]
    BY <1>4, <1>7, <2>1
  <2> QED BY <1>3, <1>4, <1>7, <1>8, <2>2 DEF ReadsOn
<1>11. Reads(buf, Len(buf), of, part, val)' /\ EndsWords(buf, Len(buf), of, part, val)'
      /\ WritesOn(of, part, val)'
  BY <1>1, <1>4, WriterIsKept DEF writer
<1> QED
  BY <1>9, <1>10, <1>11 DEF WordsInv, Agrees

LEMMA WordsStay == WordsInv /\ UNCHANGED wordsVars => WordsInv'
<1> SUFFICES ASSUME WordsInv, UNCHANGED wordsVars PROVE WordsInv'
  OBVIOUS
<1>1. UNCHANGED <<words, first, rest, buf, pos, group, partial, read>>
  BY DEF wordsVars, writer, reader
<1>2. WordsTypeOK'
  BY <1>1 DEF WordsInv, WordsTypeOK
<1>3. PICK of \in Followed, part \in Followed, val \in Followed : Agrees(of, part, val)
  BY DEF WordsInv
<1>4. Reads(buf, Len(buf), of, part, val)' /\ EndsWords(buf, Len(buf), of, part, val)'
      /\ WritesOn(of, part, val)'
  BY <1>1, <1>3, WriterIsKept DEF writer
<1>5. ReadsOn(of, part, val)'
  BY <1>1, <1>3 DEF Agrees, ReadsOn
<1> QED BY <1>2, <1>4, <1>5 DEF WordsInv, Agrees

LEMMA WordsNextInv == WordsInv /\ [WordsNext]_wordsVars => WordsInv'
  BY WriteInv, WriteGroupInv, WriteLastInv, ReadMoreInv, ReadLastInv, WordsStay DEF WordsNext

(* The executor reads exactly the words that were written, in their order, *)
(* however many there are and however wide words and groups are, and       *)
(* however reading and writing interleave.                                 *)
THEOREM NumbersReadBack == WordsSpec => []WordsReadBack
<1>1. WordsInv => WordsReadBack
  <2> SUFFICES ASSUME WordsInv PROVE WordsReadBack
    OBVIOUS
  <2>1. Len(read) <= Len(first) /\ \A i \in 1 .. Len(read) : read[i] = first[i]
    BY DEF WordsInv, Agrees, ReadsOn
  <2>2. DOMAIN read = 1 .. Len(read)
    BY DEF WordsInv, WordsTypeOK
  <2> QED BY <2>1, <2>2 DEF WordsReadBack
<1> QED
  BY WordsInitInv, WordsNextInv, <1>1, PTL DEF WordsSpec
=============================================================================
