------------------------------- MODULE TypeDefs -------------------------------
(***************************************************************************)
(* How the type definitions of syscall descriptions are resolved.  They    *)
(* may come in any order and refer to each other, also in circles: what    *)
(* cannot be resolved waits for the next round, and if a round resolves    *)
(* nothing, pointers into the circle become opaque.  A directory is gone   *)
(* through twice: once with all of its definitions together and then, file *)
(* by file, with what is known from the first time.                        *)
(*                                                                         *)
(* Of a type, only its references to others matter here, each with the way *)
(* it is made: "value" (by value or as elements of an array), "ptr" (a     *)
(* pointer to just that type), "ptrarray" (a pointer to an array of it) or *)
(* "use" (a use of a template).                                            *)
(***************************************************************************)
EXTENDS Integers, Sequences, FiniteSets, SequencesExt, FiniteSetsExt

CONSTANTS
    None,
    Names        \* names of types

(* A definition: kind is "alias", "struct", "union", "varunion" (a union   *)
(* that varies in size) or "template".                                     *)
Def(name, kind, refs) == [name |-> name, kind |-> kind, refs |-> refs]
Ref(via, to) == [via |-> via, to |-> to]

VARIABLES
    load,        \* what is loaded: whether it is a directory, and its files
    at,          \* the group of definitions at work
    pending,     \* definitions of it that are not resolved
    types,       \* types and templates by name, or None
    verdict      \* "resolving", "done" or "error"

vars == <<load, at, pending, types, verdict>>

-----------------------------------------------------------------------------
(* A resolved type carries copies of the types it is made of.              *)

Opaque == [name |-> None]
Type(def, fields) == [name |-> def.name, kind |-> def.kind, fields |-> fields, refs |-> def.refs]
Field(ref, type) == [via |-> IF ref.via \in {"ptr", "ptrarray"} THEN "ptr" ELSE "value", type |-> type]
Missing(name) == [via |-> "missing", name |-> name]
Skipped == [via |-> "skipped"]

Known(name, known) == known[name] # None /\ known[name].kind # "template"

(* The first field that something is missing for, or None.                 *)
FirstMissing(fields) ==
    LET bad == {i \in DOMAIN fields : fields[i].via = "missing"}
    IN  IF bad = {} THEN None ELSE fields[Min(bad)]

(* instantiate_template *)
Instantiated(ref, template, inside) ==
    IF FirstMissing(inside) # None THEN FirstMissing(inside) ELSE Field(ref, Type(template, inside))

(* parse_arg and parse_ptr: self is the type around, excused the names a   *)
(* pointer may be opaque for.                                              *)
RECURSIVE FieldFor(_, _, _, _)
FieldsInside(template, known, excused) ==
    [i \in DOMAIN template.refs |-> FieldFor(template.refs[i], template.name, known, excused)]

FieldFor(ref, self, known, excused) ==
    CASE ref.via # "use" /\ Known(ref.to, known) -> Field(ref, known[ref.to])
      [] ref.via = "ptr" /\ ~Known(ref.to, known) /\ ref.to \in excused \cup {self} -> Field(ref, Opaque)
      [] ref.via = "use" /\ known[ref.to] # None /\ known[ref.to].kind = "template" ->
            Instantiated(ref, known[ref.to], FieldsInside(known[ref.to], known, excused))
      [] OTHER -> Missing(IF ref.via = "use" THEN None ELSE ref.to)

OrLeftOutOfAny(field, def, ref, waiting) ==   \* mutant: whether it varies in size is not asked
    CASE field.via # "missing" -> field
      [] field.via = "missing" /\ waiting /\ ref.via = "ptrarray" -> Field(ref, Opaque)
      [] /\ field.via = "missing"
         /\ (waiting /\ ref.via # "ptrarray") \/ (~waiting /\ ref.to = def.name) -> Skipped
      [] OTHER -> field

(* build_union_arg_type: what may be left out of a union.  A use of a      *)
(* template that is not known is missing by its whole text.                *)
OrLeftOut(field, def, ref, waiting) ==
    CASE field.via # "missing" -> field
      [] field.via = "missing" /\ waiting /\ ref.via = "ptrarray" -> Field(ref, Opaque)
      [] /\ field.via = "missing" /\ def.kind = "varunion"
         /\ (waiting /\ ref.via # "ptrarray") \/ (~waiting /\ ref.to = def.name) -> Skipped
      [] OTHER -> field

InUnion(field, def, ref, excused) == OrLeftOut(field, def, ref, field.name \in excused)

(* What a definition is made of: nothing is excused for an alias           *)
(* (parse_type_alias); parse_struct_block and its like.                    *)
InDef(field, def, ref, excused) ==
    IF def.kind \in {"alias", "struct"} THEN field ELSE InUnion(field, def, ref, excused)

FieldsOf(def, known, excused) ==
    [i \in DOMAIN def.refs |->
        InDef(FieldFor(def.refs[i], IF def.kind = "alias" THEN None ELSE def.name, known,
                       IF def.kind = "alias" THEN {} ELSE excused),
              def, def.refs[i], excused)]

(* try_parse_pending_type_def_impl: the type, or what is missing for it    *)
Made(def, fields) ==
    IF FirstMissing(fields) # None THEN Missing(FirstMissing(fields).name)
    ELSE Type(def, SelectSeq(fields, LAMBDA f : f.via # "skipped"))

Parsed(def, known, excused) ==
    IF def.kind = "template" THEN Type(def, <<>>) ELSE Made(def, FieldsOf(def, known, excused))

IsType(parsed) == "fields" \in DOMAIN parsed

With(acc, d, parsed) ==
    IF IsType(parsed) THEN [acc EXCEPT !.types[d.name] = parsed]
    ELSE [acc EXCEPT !.pending = Append(@, d)]

(* A round: all definitions see the types known before it.                 *)
OutcomeInTurn(defs, known, excused) ==   \* mutant: also those resolved earlier in the round
    FoldLeft(LAMBDA acc, d : With(acc, d, Parsed(d, acc.types, excused)),
             [types |-> known, pending |-> <<>>], defs)

Outcome(defs, known, excused) ==
    FoldLeft(LAMBDA acc, d : With(acc, d, Parsed(d, known, excused)),
             [types |-> known, pending |-> <<>>], defs)

NamesOf(defs) == {defs[i].name : i \in DOMAIN defs}

(* resolve_pending_type_definitions, one time around its loop: the first   *)
(* of the rounds that resolves anything.                                   *)
OrExcused(plain, defs, known) ==
    IF plain.pending # defs THEN plain ELSE Outcome(defs, known, NamesOf(defs))

Turn(defs, known) == OrExcused(Outcome(defs, known, {}), defs, known)

-----------------------------------------------------------------------------
(* collect_prescan_files                                                   *)
Together(l) == FlattenSeq(l.files)

(* parse_path: what is resolved one after the other.  The first time       *)
(* through a directory is prescan_path_definitions.                        *)
Groups(l) == IF l.dir THEN <<Together(l)>> \o l.files ELSE l.files

Init(loads) ==
    /\ load \in loads
    /\ at = 1 /\ pending = Groups(load)[1]
    /\ types = [n \in Names |-> None]
    /\ verdict = "resolving"

Round ==
    /\ verdict = "resolving" /\ pending # <<>>
    /\ \E turn \in {Turn(pending, types)} :
          /\ turn.pending # pending
          /\ types' = turn.types /\ pending' = turn.pending
    /\ UNCHANGED <<load, at, verdict>>

StuckNever ==   \* mutant: tries again
    /\ verdict = "resolving" /\ pending # <<>>
    /\ Turn(pending, types).pending = pending
    /\ UNCHANGED vars

Stuck ==
    /\ verdict = "resolving" /\ pending # <<>>
    /\ Turn(pending, types).pending = pending
    /\ verdict' = "error"
    /\ UNCHANGED <<load, at, pending, types>>

NextGroup ==
    /\ verdict = "resolving" /\ pending = <<>> /\ at < Len(Groups(load))
    /\ at' = at + 1 /\ pending' = Groups(load)[at + 1]
    /\ UNCHANGED <<load, types, verdict>>

Finish ==
    /\ verdict = "resolving" /\ pending = <<>> /\ at = Len(Groups(load))
    /\ verdict' = "done"
    /\ UNCHANGED <<load, at, pending, types>>

Next == Round \/ Stuck \/ NextGroup \/ Finish

Spec(loads) == Init(loads) /\ [][Next]_vars /\ WF_vars(Next)

-----------------------------------------------------------------------------
(* The references of a definition, with those of the templates it uses.    *)
Expanded(def, all) ==
    {<<ref, None>> : ref \in ToSet(def.refs)} \cup
    {<<ref, t.name>> : ref \in UNION {ToSet(t.refs) : t \in all},
                       t \in {t \in all : t.kind = "template" /\ Ref("use", t.name) \in ToSet(def.refs)}}

(* What a definition cannot do without, if known are the types there are   *)
(* and names those still to be resolved; in a template, which is a struct, *)
(* it is the type that uses the template that cannot do without.           *)
Needs(def, known, names, all) ==
    {r[1].to : r \in {r \in Expanded(def, all) :
        LET ref == r[1]
            inside == r[2] # None
        IN  /\ def.kind # "template"
            /\ inside => \E t \in all : t.name = r[2] /\ ref \in ToSet(t.refs)
            /\ ref.to \notin known
            /\ CASE ref.to \notin names -> ~(~inside /\ def.kind = "varunion" /\ ref.to = def.name)
                 [] ref.to \in names /\ def.kind = "alias" -> TRUE
                 [] ref.to \in names /\ def.kind = "struct" -> ref.via # "ptr"
                 [] ref.to \in names /\ def.kind = "union" ->
                        ref.via \in (IF inside THEN {"value", "ptrarray"} ELSE {"value", "use"})
                 [] OTHER -> ref.via = "use"}}

(* Definitions none of which can be the first one to be resolved.          *)
Blocked(defs, known) ==
    LET all == {defs[i] : i \in DOMAIN defs}
        names == {d.name : d \in all}
    IN  UNION {S \in SUBSET all :
                  \A d \in S : \E n \in Needs(d, known, names, all) :
                      n \notin names \/ \E e \in S : e.name = n}

KnownBefore(i) == {d.name : d \in UNION {ToSet(Groups(load)[j]) : j \in 1 .. i - 1}}

(* Loading fails for a reason only: a name that is not defined, or a       *)
(* circle of types that hold each other by value.  And then it does fail.  *)
(* Circles of pointers, of any length and in any order, are no reason.     *)
FailsForAReason ==
    /\ verdict = "error" => Blocked(Groups(load)[at], KnownBefore(at)) # {}
    /\ \A i \in 1 .. at : (i < at \/ verdict = "done") => Blocked(Groups(load)[i], KnownBefore(i)) = {}

(* What becomes of the definitions does not depend on the order in which   *)
(* they are given.                                                         *)
RECURSIVE Resolved(_, _)
AfterTurn(turn, defs, known) ==
    IF defs = <<>> \/ turn.pending = defs THEN [types |-> known, left |-> NamesOf(defs)]
    ELSE Resolved(turn.pending, turn.types)
Resolved(defs, known) == AfterTurn(Turn(defs, known), defs, known)

OrderDoesNotMatter ==
    at = 1 /\ (pending = <<>> \/ verdict = "error") =>
        Resolved(Reverse(Groups(load)[1]), [n \in Names |-> None])
            = [types |-> types, left |-> NamesOf(pending)]

(* Where a directory is loaded, what a pointer of any of its types points  *)
(* to is known, also where pointers go in a circle.                        *)
PointersAreKnown ==
    verdict = "done" /\ load.dir =>
        \A n \in Names : Known(n, types) =>
            \A i \in DOMAIN types[n].fields : types[n].fields[i].type # Opaque

(* Copies of a type that were taken before the type was resolved again     *)
(* have the layout it has in the end, though pointers may be opaque there: *)
(* only a union that varies in size has fewer fields where it was part of  *)
(* a circle.                                                               *)
RECURSIVE Shape(_)
Shape(type) ==
    <<type.name>> \o [i \in DOMAIN type.fields |->
        IF type.fields[i].via = "ptr" THEN <<"ptr">> ELSE Shape(type.fields[i].type)]

CopiesHaveTheShape ==
    verdict = "done" /\ (\A i \in DOMAIN Groups(load) : \A j \in DOMAIN Groups(load)[i] :
                            Groups(load)[i][j].kind # "varunion") =>
        \A n \in Names : Known(n, types) =>
            \A i \in DOMAIN types[n].fields :
                LET f == types[n].fields[i]
                IN  f.type # Opaque /\ f.type.kind # "template" => Shape(f.type) = Shape(types[f.type.name])
=============================================================================
