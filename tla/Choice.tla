------------------------------- MODULE Choice -------------------------------
(***************************************************************************)
(* Which syscalls can be generated at all, how likely each is after        *)
(* another, and which one generation adds next.                            *)
(*                                                                         *)
(* A description of a syscall is a record: the kinds of resources it takes *)
(* and cannot do without, those its results have, whether generation can   *)
(* handle it, whether it ends the life of what it takes (close), and       *)
(* whether it is prone to time out.  Syscalls are numbered in the order of *)
(* the descriptions.                                                       *)
(***************************************************************************)
EXTENDS Naturals, Sequences, FiniteSets, FiniteSetsExt

CONSTANTS
    ResourceKinds,    \* kinds of resources
    LineageOf,        \* LineageOf[k]: k and the kinds it derives from
    Tables,           \* sequences of descriptions to start from
    Corpora,          \* sets of sequences of syscalls, to learn from
    SysTimeouts,      \* functions that say how often each syscall may have timed out
    EdgeTimeouts,     \* the same for pairs of syscalls
    MaxChosen,        \* bound of the calls of a program
    SyscallPenalty, EdgePenalty,   \* TIMEOUT_SYSCALL_PRIORITY_PENALTY, ..._EDGE_...
    Producer, Both, Sharing        \* scores of static_syscall_priorities

Description ==
    [needs : SUBSET ResourceKinds, gives : Seq(ResourceKinds), unsupported : BOOLEAN,
     terminal : BOOLEAN, prone : BOOLEAN]

ASSUME ChoiceAssumption ==
    /\ IsFiniteSet(ResourceKinds) /\ LineageOf \in [ResourceKinds -> SUBSET ResourceKinds]
    /\ \A t \in Tables :
          /\ t \in Seq(Description)
          /\ \A f \in SysTimeouts, s \in DOMAIN t : f[s] \in Nat
          /\ \A f \in EdgeTimeouts : \A p \in (DOMAIN t) \X (DOMAIN t) : f[p] \in Nat
    /\ \A c \in Corpora : IsFiniteSet(c) /\ c \subseteq Seq(Nat)
    /\ MaxChosen \in Nat
    /\ SyscallPenalty \in Nat /\ EdgePenalty \in Nat
    /\ Producer \in Nat \ {0} /\ Both \in Nat /\ Sharing \in Nat

VARIABLES
    stage,       \* "reach", "generate"
    descs,       \* the descriptions
    next,        \* the syscall the loop of transitively_available_syscalls is at
    enabled,     \* syscalls found to be generatable, in this order
    creatable,   \* kinds that they can make
    progress,    \* has this round found any?
    corpus,      \* programs to learn from
    sysFailures, edgeFailures,   \* timeouts blamed on syscalls and pairs
    calls,       \* syscalls of the program that is generated
    avail        \* its results that are not closed: [call, result]

choiceVars == <<stage, descs, next, enabled, creatable, progress, corpus, sysFailures,
                edgeFailures, calls, avail>>
reached == <<descs, next, enabled, creatable, progress>>
learned == <<corpus, sysFailures, edgeFailures>>

Described == DOMAIN descs
Listed == {enabled[i] : i \in DOMAIN enabled}

AcceptsKind(k, actual) == k \in LineageOf[actual]
Overlap(k, l) == AcceptsKind(k, l) \/ AcceptsKind(l, k)

Makes(s) == {descs[s].gives[n] : n \in DOMAIN descs[s].gives}
Keys(s) == UNION {LineageOf[k] : k \in Makes(s)}

-----------------------------------------------------------------------------
(* transitively_generatable_syscalls: rounds over all syscalls, until one  *)
(* finds nothing new.                                                      *)

FeasibleOnce(s) ==   \* mutant: one constructor is enough for all that is needed
    /\ s \notin Listed
    /\ ~descs[s].unsupported
    /\ descs[s].needs = {} \/ descs[s].needs \cap creatable # {}

Feasible(s) ==
    /\ s \notin Listed
    /\ ~descs[s].unsupported
    /\ descs[s].needs \subseteq creatable

Visit ==
    /\ stage = "reach" /\ next \in Described
    /\ next' = next + 1
    /\ IF Feasible(next)
       THEN /\ enabled' = Append(enabled, next)
            /\ creatable' = creatable \cup Keys(next)
            /\ progress' = TRUE
       ELSE UNCHANGED <<enabled, creatable, progress>>
    /\ UNCHANGED <<stage, descs, learned, calls, avail>>

NextRound ==
    /\ stage = "reach" /\ next \notin Described /\ progress
    /\ next' = 1 /\ progress' = FALSE
    /\ UNCHANGED <<stage, descs, enabled, creatable, learned, calls, avail>>

(* The assertion in build_with_avoidance: something is generatable.        *)
StartGeneration ==
    /\ stage = "reach" /\ next \notin Described /\ ~progress /\ enabled # <<>>
    /\ stage' = "generate"
    /\ UNCHANGED <<reached, learned, calls, avail>>

-----------------------------------------------------------------------------
(* Weights of a syscall after another.                                     *)

Less(m, n) == IF m < n THEN 0 ELSE m - n   \* saturating_sub

(* static_syscall_priorities                                               *)
Pairs(S, T, Op(_, _)) == Cardinality({p \in S \X T : Op(p[1], p[2])})
ResultsOf(s) == {<<descs[s].gives[n], n>> : n \in DOMAIN descs[s].gives}
Score(s, t) ==
      Producer * Pairs(ResultsOf(s), descs[t].needs, LAMBDA out, in : AcceptsKind(in, out[1]))
    + Both * Pairs(descs[s].needs, descs[t].needs, Overlap)
    + Sharing * Pairs(ResultsOf(s), ResultsOf(t), LAMBDA o, p : Overlap(o[1], p[1]))

Static(s, t) ==
    IF s # t THEN Score(s, t)
    ELSE LET most == Max({Score(s, u) : u \in Listed \ {s}} \cup {0})
         IN  IF most = 0 THEN 1 ELSE (most * 3) \div 4

(* dynamic_syscall_priorities: 6 times the root of how often t comes after *)
(* s in a program of the corpus, rounded.                                  *)
Follows(s, t) ==
    Cardinality(UNION {{<<p, ij>> : ij \in {ij \in (DOMAIN p) \X (DOMAIN p) :
                                               ij[1] < ij[2] /\ p[ij[1]] = s /\ p[ij[2]] = t}} :
                       p \in corpus})

Dynamic(s, t) ==
    LET c == Follows(s, t)
    IN  CHOOSE n \in 0 .. 6 * c : 144 * c < (2 * n + 1) * (2 * n + 1)
                                  /\ (n > 0 => 144 * c >= (2 * n - 1) * (2 * n - 1))

SyscallFine(t) == IF descs[t].prone THEN sysFailures[t] * SyscallPenalty ELSE 0
EdgeFine(s, t) == IF descs[s].prone /\ descs[t].prone THEN edgeFailures[<<s, t>>] * EdgePenalty ELSE 0

WeightBackwards(s, t) ==   \* mutant: the pair is blamed the other way around
    Less(Less(Static(s, t) + Dynamic(s, t), SyscallFine(t)), EdgeFine(t, s))

(* avoidance_adjusted_syscall_priorities                                   *)
Weight(s, t) == Less(Less(Static(s, t) + Dynamic(s, t), SyscallFine(t)), EdgeFine(s, t))

(* build_startup_weights                                                   *)
StartupWeight(t) == Less(1 + MapThenSumSet(LAMBDA s : Weight(s, t), Listed), SyscallFine(t))

-----------------------------------------------------------------------------
(* What may be drawn from candidates.                                      *)

Heavy(cands, W(_)) ==
    IF \E c \in cands : W(c) > 0 THEN {c \in cands : W(c) > 0} ELSE cands

(* choose_subset, after the syscall prev or 0                              *)
Row(cands, prev) == IF prev \in Listed THEN {c \in cands : Weight(prev, c) > 0} ELSE {}
InRow(row, cands) == IF row # {} THEN row ELSE Heavy(cands, StartupWeight)

Drawable(cands, prev) ==
    IF Cardinality(cands) = 1 THEN cands ELSE InRow(Row(cands, prev), cands)

(* prefer_low_penalty_candidates.  Failures of pairs may be newer than the *)
(* weights.                                                                *)
Blame(prev, c) ==
    IF prev # 0 /\ descs[prev].prone /\ descs[c].prone THEN edgeFailures[<<prev, c>>] ELSE 0

LeastBlamed(cands, prev) ==
    {c \in cands : \A d \in cands : Blame(prev, c) <= Blame(prev, d)}

Fits(k, r) == AcceptsKind(k, descs[calls[r.call]].gives[r.result])
Have(k) == \E r \in avail : Fits(k, r)
Missing(s) == {k \in descs[s].needs : ~Have(k)}

(* resource_consumers_for_available_inputs                                 *)
Consumers == {s \in Listed : descs[s].needs # {} /\ Missing(s) = {}}

(* prefer_non_terminal_resource_consumers and then                         *)
(* prefer_breaking_repeated_ready_consumers                                *)
Ready(prev) ==
    LET ending == {s \in Consumers : descs[s].terminal}
        preferred == IF Consumers \subseteq ending THEN Consumers ELSE Consumers \ ending
    IN  IF preferred = {prev} /\ ending # {} THEN ending ELSE preferred

(* resource_constructor_syscalls, of those that are enabled                *)
Constructors(k) == {s \in Listed : \E l \in Makes(s) : AcceptsKind(k, l)}

(* collect_next_step_resource_producers goes after a missing kind, what    *)
(* its constructors lack, what the constructors of that lack, and so on;   *)
(* a kind that it is at already ends the search.                           *)
Lacked(k) == UNION {Missing(s) : s \in Constructors(k)}
Closed(C) == \A k \in C : Lacked(k) \subseteq C
Sought(S) ==
    {k \in ResourceKinds :
        \A C \in SUBSET ResourceKinds : S \subseteq C /\ Closed(C) => k \in C}

(* Of their constructors it takes those that lack nothing.                 *)
Producers(s) ==
    {t \in UNION {Constructors(k) : k \in Sought(Missing(s))} : Missing(t) = {}}

(* choose_syscall_for_generation                                           *)
DrawnFrom(cands, prev) == Drawable(LeastBlamed(cands, prev), prev)

FedBy(producers, s, prev) == IF producers = {} THEN {s} ELSE DrawnFrom(producers, prev)

ChosenFrom(ready, prev) ==
    UNION {FedBy(IF ready = {} THEN Producers(s) ELSE {}, s, prev) :
               s \in DrawnFrom(IF ready = {} THEN Listed ELSE ready, prev)}

Chosen(prev) == ChosenFrom(Ready(prev), prev)

Previous == IF calls = <<>> THEN 0 ELSE calls[Len(calls)]

(* A round of generate_with_choice_table_and_edge_bias.  A terminal call   *)
(* ends the life of one result of each kind it takes.                      *)
AppendCall ==
    /\ stage = "generate" /\ Len(calls) < MaxChosen
    /\ \E s \in Chosen(Previous) :
        \E arg \in {f \in [descs[s].needs -> avail] : \A k \in descs[s].needs : Fits(k, f[k])} :
            /\ calls' = Append(calls, s)
            /\ avail' = (IF descs[s].terminal THEN avail \ {arg[k] : k \in descs[s].needs} ELSE avail)
                   \cup {[call |-> Len(calls) + 1, result |-> n] : n \in DOMAIN descs[s].gives}
    /\ UNCHANGED <<stage, reached, learned>>

ChoiceInit ==
    /\ stage = "reach"
    /\ descs \in Tables
    /\ next = 1 /\ enabled = <<>> /\ creatable = {} /\ progress = FALSE
    /\ corpus \in Corpora
    /\ sysFailures \in SysTimeouts
    /\ edgeFailures \in EdgeTimeouts
    /\ calls = <<>> /\ avail = {}

ChoiceNext == Visit \/ NextRound \/ StartGeneration \/ AppendCall

ChoiceSpec == ChoiceInit /\ [][ChoiceNext]_choiceVars

-----------------------------------------------------------------------------
(* What a set of syscalls can make.                                        *)
MadeBy(S) == UNION {Keys(s) : s \in S}

(* The loop finds what it should (transitively_available_syscalls): the    *)
(* order it finds syscalls in is one a program could call them in, and     *)
(* when it stops nothing outside could run on what those inside make,      *)
(* whatever the order of the descriptions.                                 *)
EnabledIsReachable ==
    /\ \A i \in DOMAIN enabled :
          /\ ~descs[enabled[i]].unsupported
          /\ descs[enabled[i]].needs \subseteq MadeBy({enabled[j] : j \in 1 .. i - 1})
    /\ stage = "generate" =>
          \A s \in Described \ Listed :
              descs[s].unsupported \/ ~ descs[s].needs \subseteq MadeBy(Listed)

(* Generation never lacks what it can make: whatever syscall comes next,   *)
(* every resource it cannot do without is there, whichever is drawn, even  *)
(* if the constructors of a kind need each other or live results were      *)
(* closed (the test generation_never_starts_with_missing_resource_consumer *)
(* asks it of an empty program).                                           *)
NothingIsMissing ==
    stage = "generate" => \A s \in Chosen(Previous) : Missing(s) = {}

(* Penalties may leave a row of the table without any weight; there is     *)
(* always a call to draw, and never one that is not generatable.           *)
SomethingIsChosen ==
    stage = "generate" => Chosen(Previous) # {} /\ Chosen(Previous) \subseteq Listed

(* Penalties hit those blamed: a syscall that takes what the previous call *)
(* made and never timed out, alone or after it, stays a possible choice    *)
(* among the consumers.                                                    *)
FollowUpsKeepAChance ==
    stage = "generate" =>
        LET prev == Previous IN
        \A s \in Ready(prev) :
            /\ prev # 0 /\ prev # s
            /\ \E k \in descs[s].needs, l \in Makes(prev) : AcceptsKind(k, l)
            /\ SyscallFine(s) = 0 /\ Blame(prev, s) = 0
            => s \in Chosen(prev)

(* Whatever the order of the descriptions, exactly the syscalls that a     *)
(* program can get to count as generatable; and whichever comes next, all  *)
(* resources it cannot do without are there.                               *)
CallsAreFed == EnabledIsReachable /\ NothingIsMissing

(* Penalties may empty a row of the table: there is a generatable call to  *)
(* draw even then, and a consumer that never timed out keeps its chance.   *)
ChoiceNeverFails == SomethingIsChosen /\ FollowUpsKeepAChance
=============================================================================
