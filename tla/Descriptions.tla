----------------------------- MODULE Descriptions -----------------------------
(***************************************************************************)
(* How a directory or a file of syscall descriptions is loaded: which      *)
(* files are gone through and when, and what constants, sets of values,    *)
(* resources and calls come out of their statements.  A file is looked     *)
(* through twice, once for resources and values and then statement by      *)
(* statement; a directory is looked through as a whole before any of its   *)
(* files.  Type definitions are in TypeDefs.                               *)
(*                                                                         *)
(* A constant has one value only, wherever it is defined.                  *)
(***************************************************************************)
EXTENDS Integers, Sequences, FiniteSets, SequencesExt, FiniteSetsExt

CONSTANTS
    None,
    ConstNames,      \* names of constants, in capitals
    SetNames,        \* names of sets of values
    Kinds            \* kinds of resources

(* What there is at a path.  A directory has its entries in the order of   *)
(* path_sort_key; a text file may have a file of constants beside it, and  *)
(* "meta arches" may say that it is not for this target.                   *)
Dir(entries) == [is |-> "dir", entries |-> entries]
Text(sibling, allowed, lines) == [is |-> "txt", sibling |-> sibling, allowed |-> allowed, lines |-> lines]
ConstFile(allowed, lines) == [is |-> "const", allowed |-> allowed, lines |-> lines]

(* Statements.  A value is a constant's name or None, for a number.        *)
Include(path) == [op |-> "include", path |-> path]
Const(name, value) == [op |-> "const", name |-> name, value |-> value]
Absent(name) == [op |-> "absent", name |-> name]    \* in files of constants: none for this target
Define(name, value) == [op |-> "define", name |-> name, value |-> value]
Resource(kind, base, values) == [op |-> "resource", kind |-> kind, base |-> base, values |-> values]
Constset(name, values) == [op |-> "constset", name |-> name, values |-> values]
ValueSet(name, values) == [op |-> "set", name |-> name, values |-> values]
Call(name, id, uses) == [op |-> "call", name |-> name, id |-> id, uses |-> uses]

VARIABLES
    load,        \* what is loaded: the path, and what there is by path
    stack,       \* the paths at work: path, stage and position
    visited,     \* paths that were entered
    state,       \* consts, sets and resources
    descs,       \* calls described
    next,        \* next_synthetic_syscall_id
    verdict      \* "loading", "done" or what is missing

vars == <<load, stack, visited, state, descs, next, verdict>>

-----------------------------------------------------------------------------
(* Statements are carried out on a state; what is missing is noted in it.  *)

Nothing == [consts |-> {}, sets |-> [s \in SetNames |-> None],
            resources |-> [k \in Kinds |-> None], missing |-> None]

(* parse_expr *)
Evaluates(value, st) == value = None \/ value \in st.consts

(* parse_const and, for files of constants, parse_const_value.             *)
WithConst(st, c) ==
    IF Evaluates(c.value, st) THEN [st EXCEPT !.consts = @ \cup {c.name}]
    ELSE [st EXCEPT !.missing = "const"]

(* parse_define: a value that cannot be found is no error.                 *)
WithDefine(st, d) ==
    IF Evaluates(d.value, st) THEN [st EXCEPT !.consts = @ \cup {d.name}] ELSE st

(* parse_value_set *)
WithConstset(st, s) ==
    IF \A i \in DOMAIN s.values : Evaluates(s.values[i], st)
    THEN [st EXCEPT !.sets[s.name] = ToSet(s.values)]
    ELSE [st EXCEPT !.missing = "const"]

(* expand_numeric_value_entries: the names that are not known yet, and the *)
(* values.  A constant that is not known is left out.                      *)
Unknown(values, known) == {v \in ToSet(values) \cap SetNames : known[v] = None}
Expanded(values, st, known) ==
    (ToSet(values) \cap st.consts) \cup UNION {known[v] : v \in ToSet(values) \cap SetNames}

(* parse_implicit_value_set *)
WithSet(st, s, known) ==
    IF Unknown(s.values, known) # {} THEN [st EXCEPT !.missing = "value"]
    ELSE [st EXCEPT !.sets[s.name] = Expanded(s.values, st, known)]

(* parse_resource *)
WithResource(st, r) ==
    LET parent == st.resources[r.base]
    IN  CASE r.base # None /\ parent = None -> [st EXCEPT !.missing = "base"]
          [] (r.base = None \/ parent # None) /\ (\E i \in DOMAIN r.values : ~Evaluates(r.values[i], st)) ->
                [st EXCEPT !.missing = "const"]
          [] OTHER ->
                [st EXCEPT !.resources[r.kind] =
                    [lineage |-> (IF r.base = None THEN <<>> ELSE parent.lineage) \o <<r.kind>>,
                     values |-> IF r.values # <<>> \/ r.base = None THEN r.values ELSE parent.values]]

Of(lines, ops) == SelectSeq(lines, LAMBDA s : s.op \in ops)

(* parse_const_file *)
WithConstFile(st, file) ==
    IF ~file.allowed THEN st
    ELSE FoldLeft(LAMBDA acc, c : IF acc.missing # None THEN acc ELSE WithConst(acc, c),
                  st, Of(file.lines, {"const"}))

OneRound(pending, st) ==   \* mutant: resources are gone through once
    FoldLeft(LAMBDA acc, r : IF acc.missing # None THEN acc ELSE WithResource(acc, r), st, pending)

(* resolve_pending_resource_definitions *)
RECURSIVE WithResources(_, _)
WithResources(pending, st) ==
    LET Step(acc, r) ==
            LET made == WithResource(acc.st, r)
            IN  CASE acc.st.missing # None -> acc
                  [] acc.st.missing = None /\ made.missing = "base" -> [acc EXCEPT !.left = Append(@, r)]
                  [] OTHER -> [acc EXCEPT !.st = made]
        round == FoldLeft(Step, [st |-> st, left |-> <<>>], pending)
    IN  CASE round.st.missing # None \/ round.left = <<>> -> round.st
          [] round.st.missing = None /\ round.left # <<>> /\ round.left = pending ->
                [st EXCEPT !.missing = "base"]
          [] OTHER -> WithResources(round.left, round.st)

(* prescan_local_value_definitions: the sets of a round see those known    *)
(* before it, also from an earlier look at the file.                       *)
RECURSIVE WithSets(_, _)
WithSets(pending, st) ==
    LET Ready(s) == Unknown(s.values, st.sets) = {}
        round == FoldLeft(LAMBDA acc, s : WithSet(acc, s, st.sets), st, SelectSeq(pending, Ready))
        left == SelectSeq(pending, LAMBDA s : ~Ready(s))
    IN  CASE left = <<>> -> round
          [] left # <<>> /\ left = pending -> [st EXCEPT !.missing = "value"]
          [] OTHER -> WithSets(left, round)

WithValues(lines, st) ==
    LET Step(acc, s) ==
            IF acc.missing # None THEN acc
            ELSE IF s.op = "const" THEN WithConst(acc, s) ELSE WithConstset(acc, s)
        plain == FoldLeft(Step, st, Of(lines, {"const", "constset"}))
    IN  IF plain.missing # None THEN plain ELSE WithSets(Of(lines, {"set"}), plain)

-----------------------------------------------------------------------------
(* collect_prescan_files: what a directory holds for this target, without  *)
(* duplicates, constants before the text they are for.                     *)
RECURSIVE Gathered(_, _)
Gathered(paths, there) ==
    LET Inside(p) == CASE there[p].is = "dir" -> Gathered(there[p].entries, there)
                       [] there[p].is = "const" -> IF there[p].allowed THEN <<p>> ELSE <<>>
                       [] there[p].is = "txt" ->
                            CASE ~there[p].allowed -> <<>>
                              [] there[p].allowed /\ there[p].sibling = None -> <<p>>
                              [] OTHER -> Gathered(<<there[p].sibling>>, there) \o <<p>>
        Add(acc, p) == acc \o SelectSeq(Inside(p), LAMBDA q : q \notin ToSet(acc))
    IN  FoldLeft(Add, <<>>, paths)

(* prescan_path_definitions: the resources of all files come first, before *)
(* any constants.                                                          *)
Prescanned(path, st) ==
    LET there == load.there
        files == Gathered(<<path>>, there)
        resources == FlattenSeq([i \in DOMAIN files |->
                                    IF there[files[i]].is = "const" THEN <<>>
                                    ELSE Of(there[files[i]].lines, {"resource"})])
        Step(acc, p) == CASE acc.missing # None -> acc
                          [] acc.missing = None /\ there[p].is = "const" -> WithConstFile(acc, there[p])
                          [] OTHER -> WithValues(there[p].lines, acc)
    IN  FoldLeft(Step, WithResources(resources, st), files)

(* prescan_local_resource_definitions, prescan_local_value_definitions     *)
LookedThrough(lines, st) ==
    LET resources == WithResources(Of(lines, {"resource"}), st)
    IN  IF resources.missing # None THEN resources ELSE WithValues(lines, resources)

Entered(path) == [path |-> path, stage |-> "enter", at |-> 1]
top == stack[Len(stack)]
File == load.there[top.path]
AtStage(stage) == [stack EXCEPT ![Len(stack)] = [path |-> top.path, stage |-> stage, at |-> 1]]
Further == [stack EXCEPT ![Len(stack)].at = @ + 1]

Continue(st) ==   \* what is missing ends the loading
    /\ state' = [st EXCEPT !.missing = None]
    /\ verdict' = IF st.missing = None THEN "loading" ELSE st.missing

-----------------------------------------------------------------------------
Init(loads) ==
    /\ load \in loads
    /\ stack = <<Entered(load.root)>> /\ visited = {}
    /\ state = Nothing /\ descs = <<>> /\ next = 0 /\ verdict = "loading"

Working(is, stage) == verdict = "loading" /\ stack # <<>> /\ File.is = is /\ top.stage = stage

(* parse_path: a path that was entered before, or is for another target.   *)
Skip ==
    /\ verdict = "loading" /\ stack # <<>> /\ top.stage = "enter"
    /\ top.path \in visited \/ (File.is # "dir" /\ ~File.allowed)
    /\ visited' = visited \cup {top.path} /\ stack' = Front(stack)
    /\ UNCHANGED <<load, state, descs, next, verdict>>

EnterDir ==
    /\ Working("dir", "enter") /\ top.path \notin visited
    /\ visited' = visited \cup {top.path}
    /\ Continue(Prescanned(top.path, state))
    /\ stack' = AtStage("entries")
    /\ UNCHANGED <<load, descs, next>>

Entry ==
    /\ Working("dir", "entries")
    /\ stack' = IF top.at > Len(File.entries) THEN Front(stack)
                ELSE Append(Further, Entered(File.entries[top.at]))
    /\ UNCHANGED <<load, visited, state, descs, next, verdict>>

EnterConstFile ==
    /\ Working("const", "enter") /\ top.path \notin visited /\ File.allowed
    /\ visited' = visited \cup {top.path}
    /\ Continue(WithConstFile(state, File))
    /\ stack' = Front(stack)
    /\ UNCHANGED <<load, descs, next>>

(* sibling_const_paths come before the text.                               *)
EnterText ==
    /\ Working("txt", "enter") /\ top.path \notin visited /\ File.allowed
    /\ visited' = visited \cup {top.path}
    /\ stack' = AtStage("includes") \o IF File.sibling = None THEN <<>> ELSE <<Entered(File.sibling)>>
    /\ UNCHANGED <<load, state, descs, next, verdict>>

(* parse_input: what is included comes first, wherever in the file it      *)
(* stands.                                                                 *)
Includes ==
    /\ Working("txt", "includes")
    /\ LET paths == Of(File.lines, {"include"})
       IN  IF top.at <= Len(paths)
           THEN /\ stack' = Append(Further, Entered(paths[top.at].path))
                /\ UNCHANGED <<state, verdict>>
           ELSE /\ stack' = AtStage("statements")
                /\ Continue(LookedThrough(File.lines, state))
    /\ UNCHANGED <<load, visited, descs, next>>

(* What a statement adds to the state.                                     *)
Carried(s) ==
    CASE s.op = "const" -> WithConst(state, s)
      [] s.op = "define" -> WithDefine(state, s)
      [] s.op = "constset" -> WithConstset(state, s)
      [] s.op = "set" -> WithSet(state, s, state.sets)
      [] s.op = "resource" -> WithResource(state, s)
      [] OTHER -> state

Statement ==
    /\ Working("txt", "statements")
    /\ IF top.at > Len(File.lines)
       THEN stack' = AtStage("calls") /\ UNCHANGED <<state, verdict>>
       ELSE LET s == File.lines[top.at]
            IN  /\ stack' = IF s.op = "include" THEN Append(Further, Entered(s.path)) ELSE Further
                /\ Continue(Carried(s))
    /\ UNCHANGED <<load, visited, descs, next>>

(* parse_name_and_id_or_lookup: id is None for a call nobody knows.        *)
Numbered(call) ==
    IF call.id # None THEN [id |-> call.id, next |-> Max({next, call.id + 1})]
    ELSE [id |-> next, next |-> next + 1]

(* parse_syscall: the description carries what it uses as it is now.       *)
Described(call) ==
    [file |-> top.path, name |-> call.name, id |-> Numbered(call).id,
     made |-> call.id = None,
     kinds |-> {state.resources[k].lineage : k \in ToSet(call.uses) \cap Kinds},
     values |-> [s \in ToSet(call.uses) \cap SetNames |-> state.sets[s]]]

Describe ==
    /\ Working("txt", "calls")
    /\ LET calls == Of(File.lines, {"call"})
       IN  IF top.at > Len(calls)
           THEN stack' = Front(stack) /\ UNCHANGED <<descs, next, verdict>>
           ELSE LET call == calls[top.at]
                    unknown == {u \in ToSet(call.uses) :
                                   IF u \in Kinds THEN state.resources[u] = None ELSE state.sets[u] = None}
                IN  /\ stack' = Further
                    /\ IF unknown # {} THEN verdict' = "type" /\ UNCHANGED <<descs, next>>
                       ELSE /\ descs' = Append(descs, Described(call)) /\ next' = Numbered(call).next
                            /\ UNCHANGED verdict
    /\ UNCHANGED <<load, visited, state>>

Finish ==
    /\ verdict = "loading" /\ stack = <<>>
    /\ verdict' = "done"
    /\ UNCHANGED <<load, stack, visited, state, descs, next>>

Next == Skip \/ EnterDir \/ Entry \/ EnterConstFile \/ EnterText \/ Includes
            \/ Statement \/ Describe \/ Finish

Spec(loads) == Init(loads) /\ [][Next]_vars /\ WF_vars(Next)

-----------------------------------------------------------------------------
Allowed == {p \in DOMAIN load.there : load.there[p].is = "dir" \/ load.there[p].allowed}
LedTo(p) ==
    LET f == load.there[p]
    IN  CASE p \notin Allowed -> {}
          [] p \in Allowed /\ f.is = "dir" -> ToSet(f.entries)
          [] p \in Allowed /\ f.is = "txt" -> {i.path : i \in ToSet(Of(f.lines, {"include"}))}
          [] OTHER -> {}
RECURSIVE Reached(_)
Reached(paths) ==
    LET more == paths \cup UNION {LedTo(p) : p \in paths}
    IN  IF more = paths THEN paths ELSE Reached(more)

(* Whatever includes what, also in circles and besides the directory, each *)
(* call of each file is described exactly once.                            *)
EachCallOnce ==
    verdict = "done" =>
        \A p \in DOMAIN load.there :
            LET calls == IF p \in Reached({load.root}) \cap Allowed /\ load.there[p].is = "txt"
                         THEN Of(load.there[p].lines, {"call"}) ELSE <<>>
            IN  [i \in DOMAIN calls |-> calls[i].name] =
                    LET of == SelectSeq(descs, LAMBDA d : d.file = p)
                    IN  [i \in DOMAIN of |-> of[i].name]

(* The number made up for a call nobody knows is not one of the calls      *)
(* described before.  (A known call after it may have the same number.)    *)
SyntheticIdsAreNew ==
    \A i, j \in DOMAIN descs : i < j /\ descs[j].made => descs[i].id # descs[j].id

Lines == UNION {ToSet(load.there[p].lines) : p \in {p \in Allowed : load.there[p].is # "dir"}}

RECURSIVE Grounded(_)
Grounded(kinds) ==
    LET more == kinds \cup {r.kind : r \in {l \in Lines : l.op = "resource" /\ (l.base = None \/ l.base \in kinds)}}
    IN  IF more = kinds THEN kinds ELSE Grounded(more)

(* The resources of a directory may be defined in any order and any of its *)
(* files: only those that have no line of bases at all cannot be loaded.   *)
ResourcesComeInAnyOrder ==
    load.there[load.root].is = "dir" /\ verdict = "base" =>
        \E l \in Lines : l.op = "resource" /\ l.base # None /\ l.base \notin Grounded({})

(* A set has all constants named in it that have a value in any file of    *)
(* the directory, and those of the sets named in it, and so have the calls *)
(* that use it.  Constants from "define" are known further down only, and  *)
(* of sets of sets of sets this is not true.                               *)
Named(set) == UNION {ToSet(l.values) : l \in {l \in Lines : l.op \in {"set", "constset"} /\ l.name = set}}
Lasting == {l.name : l \in {l \in Lines : l.op = "const"}}
ShouldHave(set) ==
    (Named(set) \cup UNION {Named(s) : s \in Named(set) \cap SetNames}) \cap Lasting

SetsLoseNothing ==
    load.there[load.root].is = "dir" /\ verdict = "done" =>
        /\ \A s \in SetNames : state.sets[s] # None => ShouldHave(s) \subseteq state.sets[s]
        /\ \A i \in DOMAIN descs : \A s \in DOMAIN descs[i].values :
                ShouldHave(s) \subseteq descs[i].values[s]

(* Loading comes to an end, also if files include each other in a circle.  *)
LoadingEnds == <>(verdict # "loading")
=============================================================================
