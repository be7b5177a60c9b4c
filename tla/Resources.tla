----------------------------- MODULE Resources -----------------------------
(***************************************************************************)
(* Which resources a syscall makes, and where it leaves them: as what it   *)
(* returns, or in memory behind its pointers; which ones it cannot do      *)
(* without; and whether generation can handle it at all.                   *)
(*                                                                         *)
(* A descriptor has the types of its arguments, the resource it returns or *)
(* None, and the attributes that keep it from being used.                  *)
(***************************************************************************)
EXTENDS Layout

(* A result: the argument and, from there, the offsets of the pointers to  *)
(* follow (chain), and the offset behind the last of them.                 *)
Returned(t) == [name |-> t.name, size |-> t.size, arg |-> None, chain |-> <<>>, offset |-> 0]
InMemory(t, arg, chain, offset) ==
    [name |-> t.name, size |-> t.size, arg |-> arg, chain |-> chain, offset |-> offset]

Concat(f, n) == FoldLeft(LAMBDA acc, i : acc \o f[i], <<>>, [i \in 1 .. n |-> i])

(* effective_field_dir and overlay_field_dir: the direction of a field     *)
FieldDir(t, i, dir) ==
    CASE t.dirs[i] # None -> t.dirs[i]
      [] t.dirs[i] = None /\ t.kind = "struct" /\ t.overlay # None /\ dir # "out" ->
            IF i < t.overlay THEN "in" ELSE "out"
      [] OTHER -> dir

PointeeDir(t, dir) == IF dir = "out" THEN "out" ELSE t.dir

(* arg_type_has_explicit_output_markers                                    *)
RECURSIVE Marked(_)
Marked(t) ==
    CASE t.kind = "array" -> Marked(t.inner)
      [] t.kind = "ptr" -> t.dir # "in" \/ Marked(t.inner)
      [] t.kind \in {"struct", "union"} ->
            \/ t.kind = "struct" /\ t.overlay # None
            \/ \E i \in DOMAIN t.fields : t.dirs[i] \in {"out", "inout"} \/ Marked(t.fields[i])
      [] OTHER -> FALSE

(* collect_pointer_resource_outputs_inner.  Of an array that varies in     *)
(* length the first element counts.                                        *)
CountedOutputs(t, dir) ==
    IF t.min = t.max THEN t.min ELSE IF dir # "in" /\ t.max > 0 THEN 1 ELSE 0

RECURSIVE PointeeOutputs(_, _, _, _, _)
PointeeOutputs(t, arg, chain, base, dir) ==
    CASE t.kind = "resource" -> IF dir = "in" THEN <<>> ELSE <<InMemory(t, arg, chain, base)>>
      [] t.kind = "array" ->
            LET n == CountedOutputs(t, dir)
                one == FixedSize(t.inner)
            IN  IF n # 1 /\ one = None THEN <<>>
                ELSE Concat([k \in 1 .. n |->
                        PointeeOutputs(t.inner, arg, chain,
                                       base + (IF n = 1 THEN 0 ELSE (k - 1) * one), dir)], n)
      [] t.kind = "struct" ->
            LET at == [i \in DOMAIN t.fields |-> FieldOffset(t.fields, i, t.packed, t.overlay)]
                known == {i \in DOMAIN t.fields : \A j \in 1 .. i : at[j] # None}
            IN  Concat([i \in DOMAIN t.fields |->
                    PointeeOutputs(t.fields[i], arg, chain, base + at[i], FieldDir(t, i, dir))],
                       Cardinality(known))
      [] t.kind = "union" ->
            Concat([i \in DOMAIN t.fields |->
                        PointeeOutputs(t.fields[i], arg, chain, base, FieldDir(t, i, dir))],
                   Len(t.fields))
      [] t.kind = "ptr" ->
            LET nested == PointeeDir(t, dir)
            IN  IF nested = "in" /\ (dir = "in" \/ ~Marked(t.inner)) THEN <<>>
                ELSE PointeeOutputs(t.inner, arg, Append(chain, base), 0, nested)
      [] OTHER -> <<>>

(* resource_outputs                                                        *)
Outputs(desc) ==
    (IF desc.ret = None THEN <<>> ELSE <<Returned(desc.ret)>>)
    \o Concat([i \in DOMAIN desc.args |->
                  IF desc.args[i].kind = "ptr"
                  THEN PointeeOutputs(desc.args[i].inner, i, <<>>, 0, desc.args[i].dir) ELSE <<>>],
              Len(desc.args))

(* collect_input_resources and arg_type_contains_resource_input_dir        *)
RECURSIVE Needed(_, _)
Needed(t, dir) ==
    CASE t.kind = "resource" -> IF dir = "out" \/ t.optional THEN {} ELSE {t.name}
      [] t.kind = "array" -> Needed(t.inner, dir)
      [] t.kind \in {"struct", "union"} ->
            UNION {Needed(t.fields[i], FieldDir(t, i, dir)) : i \in DOMAIN t.fields}
      [] t.kind = "ptr" -> IF PointeeDir(t, dir) = "out" THEN {} ELSE Needed(t.inner, PointeeDir(t, dir))
      [] OTHER -> {}

-----------------------------------------------------------------------------
(* arg_type_input_limitation_dir: there is no input for the type.          *)
RECURSIVE Limited(_, _)
Limited(t, dir) ==
    CASE t.kind = "const" -> dir # "out" /\ t.values = {} /\ t.range = None /\ ~t.any
      [] t.kind = "proc" -> dir # "out" /\ t.per = 0
      [] t.kind = "array" -> dir # "out" /\ t.min > 0 /\ Limited(t.inner, dir)
      [] t.kind = "struct" -> \E i \in DOMAIN t.fields : Limited(t.fields[i], FieldDir(t, i, dir))
      [] t.kind = "union" -> \A i \in DOMAIN t.fields : Limited(t.fields[i], FieldDir(t, i, dir))
      [] t.kind = "ptr" -> ~t.optional /\ PointeeDir(t, dir) # "out"
                           /\ Limited(t.inner, PointeeDir(t, dir))
      [] OTHER -> FALSE

(* syscall_unavailable_reason, for generation.  Attributes: "disabled",    *)
(* "helper" (for tests only), "no_generate", "fsck", "builtin" (generation *)
(* has support of its own).                                                *)
Unavailable(desc, possible) ==
    \/ "disabled" \in desc.attrs
    \/ \E i \in DOMAIN desc.args : Limited(desc.args[i], "in")
    \/ "helper" \in desc.attrs
    \/ {"no_generate", "fsck"} \cap desc.attrs # {} /\ "builtin" \notin desc.attrs
    \/ ~possible
=============================================================================
