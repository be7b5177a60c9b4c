---------------------------- MODULE ProgramRefs ----------------------------
(***************************************************************************)
(* References to results in a program, under generation and mutation.      *)
(*                                                                         *)
(* An argument that takes a resource is a constant or a reference to a     *)
(* result of another call, by the position of the call and the number of   *)
(* the result.  Positions shift when calls are inserted and removed, calls *)
(* of another program are spliced in, and a close ends the life of what it *)
(* is given.  Each mutation ends with a pass that repairs references, one  *)
(* call after the other.                                                   *)
(*                                                                         *)
(* Positions count from 1.  Values other than references do not matter and *)
(* are all Plain.                                                          *)
(***************************************************************************)
EXTENDS Naturals, Sequences

CONSTANTS
    Syscalls,   \* syscalls that may be generated
    Terminal,   \* those named close, which end the life of their arguments
    Kinds,      \* kinds of resources
    Lineage,    \* Lineage[k]: k and the kinds it derives from, as a set
    Takes,      \* Takes[s][a]: the kinds argument a of s takes, {k}, or {} if it is no resource
    Optional,   \* Optional[s]: the arguments of s that may be left out
    Gives,      \* Gives[s][n]: the kind of result n of s
    MinCalls, MaxCalls,   \* bounds of the length of a generated program
    Given       \* programs read from a corpus, which are valid but may use what was closed

Results == UNION {DOMAIN Gives[s] : s \in Syscalls}
Refs == [call : 1 .. MaxCalls, result : Results]
Plain == [call |-> 0, result |-> 0]                \* a constant, or no resource at all
Gone == [call |-> MaxCalls + 1, result |-> 0]      \* referred to a call that was removed
Values == Refs \cup {Plain, Gone}

Calls == UNION {[sys : {s}, args : [DOMAIN Takes[s] -> Values]] : s \in Syscalls}

(* A result fits where any kind of its lineage is asked for.               *)
Accepts(k, actual) == k \in Lineage[actual]

-----------------------------------------------------------------------------
(* Does call i use r as an argument and end its life?                      *)
Ends(p, i, r) == p[i].sys \in Terminal /\ \E a \in DOMAIN p[i].args : p[i].args[a] = r

Produces(p, r, k) ==
    /\ r.call \in DOMAIN p
    /\ r.result \in DOMAIN Gives[p[r.call].sys]
    /\ Accepts(k, Gives[p[r.call].sys][r.result])

(* The results of the first n calls that fit k and that none of them has   *)
(* ended: available_resources_before and the map that generation keeps.    *)
AvailableToo(p, n, k) ==   \* mutant: what a close ended is still on offer
    {r \in Refs : r.call <= n /\ Produces(p, r, k)}

Available(p, n, k) ==
    {r \in Refs : /\ r.call <= n
                  /\ Produces(p, r, k)
                  /\ \A i \in r.call .. n : ~Ends(p, i, r)}

(* What argument a of a call of s may refer to after the first n calls.    *)
Offered(p, n, s, a) == UNION {Available(p, n, k) : k \in Takes[s][a]}

(* The arguments generation may draw for s after the first n calls of p: a *)
(* resource that has to be there is never a constant if there is one.      *)
Drawn(p, n, s) ==
    {args \in [DOMAIN Takes[s] -> Refs \cup {Plain}] :
        \A a \in DOMAIN args :
            \/ args[a] \in Offered(p, n, s, a)
            \/ args[a] = Plain /\ (a \in Optional[s] \/ Offered(p, n, s, a) = {})}

(* Later than any other: what the last entry of the list of a kind is.     *)
Latest(refs) ==
    CHOOSE r \in refs : \A q \in refs :
        q.call < r.call \/ (q.call = r.call /\ q.result <= r.result)

(* repair_result_refs on argument a of call i: a reference that is not     *)
(* available is replaced by the latest that is, or by the default value.   *)
RepairedValue(p, i, a) ==
    LET v == p[i].args[a]
        offered == Offered(p, i - 1, p[i].sys, a)
    IN  IF v = Plain \/ v \in offered THEN v
        ELSE IF offered # {} THEN Latest(offered) ELSE Plain

RepairedCall(p, i) ==
    [sys |-> p[i].sys, args |-> [a \in DOMAIN p[i].args |-> RepairedValue(p, i, a)]]

(* References to the call at pos and later, after a call is put at pos.    *)
ShiftedForInsertLate(v, pos) ==   \* mutant: a reference to the call at pos itself is not shifted
    IF v.call > pos THEN [v EXCEPT !.call = @ + 1] ELSE v

ShiftedForInsert(v, pos) == IF v.call >= pos THEN [v EXCEPT !.call = @ + 1] ELSE v

ShiftedForRemoval(v, pos) ==
    IF v.call = pos THEN Gone
    ELSE IF v.call > pos THEN [v EXCEPT !.call = @ - 1] ELSE v

Mapped(p, Op(_)) ==
    [i \in DOMAIN p |-> [sys |-> p[i].sys,
                         args |-> [a \in DOMAIN p[i].args |-> Op(p[i].args[a])]]]

(* validate_result_ref: every reference is to an earlier call with such a  *)
(* result, of a kind the argument takes.                                   *)
ValidCall(p, i) ==
    \A a \in DOMAIN p[i].args : LET v == p[i].args[a] IN
        v # Plain => v.call < i /\ \E k \in Takes[p[i].sys][a] : Produces(p, v, k)

ASSUME SyscallsOK ==
    /\ Terminal \subseteq Syscalls
    /\ Lineage \in [Kinds -> SUBSET Kinds]
    /\ Takes \in [Syscalls -> Seq(SUBSET Kinds)]
    /\ Gives \in [Syscalls -> Seq(Kinds)]

ASSUME LimitsOK == MinCalls \in Nat \ {0} /\ MaxCalls \in Nat /\ MinCalls <= MaxCalls

ASSUME GivenOK ==
    \A p \in Given : p \in Seq(Calls) /\ Len(p) <= MaxCalls /\ \A i \in DOMAIN p : ValidCall(p, i)

-----------------------------------------------------------------------------
VARIABLES
    pc,       \* "idle", "generating" or "repairing"
    prog,     \* the program
    draft,    \* the program that is being generated
    purpose,  \* what the draft is for: "new", "splice" or "refill"
    at,       \* the call whose references are repaired next
    passes,   \* passes of repair left, this one included
    old,      \* history: the program before the mutation
    origin    \* history: where each call of prog was in old, 0 if it was not

vars == <<pc, prog, draft, purpose, at, passes, old, origin>>

New(p) == [i \in DOMAIN p |-> 0]
Same(p) == [i \in DOMAIN p |-> i]

Init ==
    /\ pc = "idle"
    /\ prog \in Given
    /\ draft = <<>> /\ purpose = "new"
    /\ at = 1 /\ passes = 0
    /\ old = prog /\ origin = Same(prog)

Generating(p) ==
    /\ pc' = "generating"
    /\ draft' = <<>> /\ purpose' = p
    /\ old' = prog /\ origin' = Same(prog)
    /\ UNCHANGED <<prog, at, passes>>

(* The manager asks for a new program, or for a mutation by splicing.      *)
Generate == pc = "idle" /\ Generating("new")
StartSplice == pc = "idle" /\ Generating("splice")

(* One round of the loop in generate_with_choice_table_and_edge_bias.  The *)
(* syscall may be any: module Choice has what is drawn when.               *)
GenerateCall ==
    /\ pc = "generating" /\ Len(draft) < MaxCalls
    /\ \E s \in Syscalls : \E args \in Drawn(draft, Len(draft), s) :
          draft' = Append(draft, [sys |-> s, args |-> args])
    /\ UNCHANGED <<pc, prog, purpose, at, passes, old, origin>>

(* The number of calls was drawn before the loop.                          *)
Generated == pc = "generating" /\ Len(draft) >= MinCalls

UseNew ==
    /\ Generated /\ purpose = "new"
    /\ pc' = "idle"
    /\ prog' = draft /\ draft' = <<>>
    /\ old' = draft /\ origin' = New(draft)
    /\ UNCHANGED <<purpose, at, passes>>

Repairing(p, from, n) ==
    /\ pc' = "repairing"
    /\ prog' = p /\ origin' = from
    /\ old' = prog
    /\ at' = 1 /\ passes' = n
    /\ draft' = <<>>

Truncated(seq) == SubSeq(seq, 1, IF Len(seq) < MaxCalls THEN Len(seq) ELSE MaxCalls)

(* splice: calls from i on are replaced by those of the draft from j on.   *)
(* What exceeds the limit goes only after a first repair; a pass does not  *)
(* look at later calls, so it goes before it here.                         *)
UseSplice ==
    /\ Generated /\ purpose = "splice" /\ prog # <<>>
    /\ \E i \in DOMAIN prog : \E j \in DOMAIN draft :
          LET head == SubSeq(prog, 1, i - 1)
              tail == SubSeq(draft, j, Len(draft))
          IN  Repairing(Truncated(head \o tail), Truncated(Same(head) \o New(tail)), 2)
    /\ UNCHANGED purpose

(* A mutation that ends with no call generates a program: there was none,  *)
(* and nothing was inserted.                                               *)
Refill ==
    /\ prog = <<>>
    /\ pc = "idle" \/ (Generated /\ purpose = "splice")
    /\ Generating("refill")

UseRefill ==
    /\ Generated /\ purpose = "refill"
    /\ Repairing(draft, New(draft), 1)
    /\ UNCHANGED purpose

InsertedAt(seq, pos, e) == SubSeq(seq, 1, pos - 1) \o <<e>> \o SubSeq(seq, pos, Len(seq))

(* mutate_insert_call                                                      *)
Insert ==
    /\ pc = "idle" /\ Len(prog) < MaxCalls
    /\ \E pos \in 1 .. Len(prog) + 1 :
          LET shifted == Mapped(prog, LAMBDA v : ShiftedForInsert(v, pos))
          IN  \E s \in Syscalls : \E args \in Drawn(shifted, pos - 1, s) :
                 Repairing(InsertedAt(shifted, pos, [sys |-> s, args |-> args]),
                           InsertedAt(Same(prog), pos, 0), 1)
    /\ UNCHANGED purpose

RemovedAt(seq, pos) == SubSeq(seq, 1, pos - 1) \o SubSeq(seq, pos + 1, Len(seq))

(* mutate_remove_call                                                      *)
Remove ==
    /\ pc = "idle" /\ Len(prog) > 1
    /\ \E pos \in DOMAIN prog :
          Repairing(Mapped(RemovedAt(prog, pos), LAMBDA v : ShiftedForRemoval(v, pos)),
                    RemovedAt(Same(prog), pos), 1)
    /\ UNCHANGED purpose

(* mutate_args                                                             *)
RedrawArgs ==
    /\ pc = "idle"
    /\ \E i \in DOMAIN prog : \E args \in Drawn(prog, i - 1, prog[i].sys) :
          Repairing([prog EXCEPT ![i] = [sys |-> prog[i].sys, args |-> args]],
                    [Same(prog) EXCEPT ![i] = 0], 1)
    /\ UNCHANGED purpose

(* mutate_integer and mutate_buffer, and any mutation that finds nothing   *)
(* to do: no reference changes before the repair.                          *)
LeaveRefs ==
    /\ pc = "idle" /\ prog # <<>>
    /\ Repairing(prog, Same(prog), 1)
    /\ UNCHANGED purpose

RepairCall ==
    /\ pc = "repairing" /\ at <= Len(prog)
    /\ prog' = [prog EXCEPT ![at] = RepairedCall(prog, at)]
    /\ at' = at + 1
    /\ UNCHANGED <<pc, draft, purpose, passes, old, origin>>

EndPass ==
    /\ pc = "repairing" /\ at > Len(prog)
    /\ passes' = passes - 1
    /\ at' = 1
    /\ pc' = IF passes > 1 THEN "repairing" ELSE "idle"
    /\ UNCHANGED <<prog, draft, purpose, old, origin>>

Next ==
    \/ Generate \/ StartSplice \/ GenerateCall
    \/ UseNew \/ UseSplice \/ Refill \/ UseRefill
    \/ Insert \/ Remove \/ RedrawArgs \/ LeaveRefs
    \/ RepairCall \/ EndPass

Spec == Init /\ [][Next]_vars

-----------------------------------------------------------------------------
(* Programs are sequences of at most MaxCalls calls of known syscalls with *)
(* one value for each argument.                                            *)
TypeOK ==
    /\ pc \in {"idle", "generating", "repairing"}
    /\ prog \in Seq(Calls) /\ Len(prog) <= MaxCalls
    /\ draft \in Seq(Calls) /\ Len(draft) <= MaxCalls
    /\ purpose \in {"new", "splice", "refill"}
    /\ at \in 1 .. MaxCalls + 1 /\ passes \in 0 .. 2
    /\ old \in Seq(Calls)
    /\ origin \in Seq(0 .. MaxCalls) /\ Len(origin) = Len(prog)

(* No use after the end: no reference is to a result that an earlier call  *)
(* closed.                                                                 *)
LiveCall(p, i) ==
    \A a \in DOMAIN p[i].args : LET v == p[i].args[a] IN
        v # Plain => \A j \in v.call .. i - 1 : ~Ends(p, j, v)

(* What a mutation leaves and what is generated passes validate_result_ref *)
(* (the debug assertions at the end of both): however positions shifted,   *)
(* no reference dangles, points forward or is to a result of another kind. *)
RefsAreValid ==
    /\ pc = "idle" => \A i \in DOMAIN prog : ValidCall(prog, i)
    /\ \A i \in DOMAIN draft : ValidCall(draft, i)

(* ... and no call uses what an earlier one closed, although the corpus    *)
(* may hold programs that do.                                              *)
UsesAreLive ==
    /\ pc = "idle" /\ prog \notin Given => \A i \in DOMAIN prog : LiveCall(prog, i)
    /\ \A i \in DOMAIN draft : LiveCall(draft, i)

(* Both: no reference dangles, points forward, is to a result of another   *)
(* kind or to one that was closed.                                         *)
RefsAreSound == RefsAreValid /\ UsesAreLive

(* A mutation carries references along: a call that is kept still uses the *)
(* same result of the same call, wherever both have moved, if that call is *)
(* kept and nothing closes the result in between.                          *)
RefsFollowTheirCalls ==
    pc = "idle" =>
        \A i, j \in DOMAIN prog : origin[i] # 0 /\ origin[j] # 0 =>
            \A a \in DOMAIN prog[i].args : LET v == old[origin[i]].args[a]
                                              w == [call |-> j, result |-> v.result] IN
                v.call = origin[j] /\ w \in Offered(prog, i - 1, prog[i].sys, a)
                    => prog[i].args[a] = w
=============================================================================
