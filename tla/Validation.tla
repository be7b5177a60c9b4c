----------------------------- MODULE Validation -----------------------------
(***************************************************************************)
(* What the program validator accepts as the arguments of a call.  Where   *)
(* the code indexes data out of its bounds, and panics, the value is not   *)
(* valid either.                                                           *)
(***************************************************************************)
EXTENDS Lengths

CONSTANTS ArenaPages   \* VMA_NUM_PAGES

(* Descriptions that are loaded at all: validate_arg_type, and             *)
(* validate_syscall_descs for the arguments of a syscall.                  *)

NativeSize(size) == size \in 1 .. 8

BitsFit(t) == t.bits # None => t.bits \in 1 .. 8 * t.size   \* validate_bitfield_spec

RECURSIVE ValidType(_)
ValidType(t) ==
    CASE t.kind = "const" -> NativeSize(t.size) /\ BitsFit(t)
      [] t.kind \in {"proc", "resource"} -> NativeSize(t.size)
      [] t.kind = "array" -> t.min <= t.max /\ ValidType(t.inner)
      [] t.kind = "struct" ->
            LET prefix == Prefix(t.fields, t.packed, t.align, t.overlay)
            IN  /\ t.fields # <<>> /\ \A i \in DOMAIN t.fields : ValidType(t.fields[i])
                /\ prefix # None /\ prefix.size <= t.size /\ prefix.var = t.varlen
      [] t.kind = "union" ->
            /\ t.fields # <<>>
            /\ \A i \in DOMAIN t.fields :
                  /\ ValidType(t.fields[i])
                  /\ IF FixedSize(t.fields[i]) = None THEN t.varlen ELSE FixedSize(t.fields[i]) <= t.size
            /\ t.varlen \/ (t.size > 0 /\ t.size % BlockAlignment(t.fields, t.packed, t.align) = 0)
      [] t.kind = "vma" -> 0 < t.min /\ t.min <= t.max
      [] t.kind = "ptr" -> ValidType(t.inner)
      [] t.kind = "len" -> t.scale > 0 /\ NativeSize(t.size) /\ BitsFit(t)
      [] t.kind = "string" ->
            t.fixed # None => /\ t.fixed > 0
                              /\ \A s \in t.values : Len(s) + (IF t.noz THEN 0 ELSE 1) <= t.fixed
      [] t.kind = "buffer" -> t.min <= t.max
      [] t.kind \in {"void", "filename"} -> TRUE

ValidDesc(desc) == \A i \in DOMAIN desc.args : ValidType(desc.args[i])

-----------------------------------------------------------------------------
(* Values                                                                  *)

NoConst(t) == t.values = {} /\ t.range = None /\ ~t.any

(* validate_buffer_size, validate_string_buffer                            *)
ValidBuffer(data, t) == Len(data) \in t.min .. t.max

ValidString(data, t) ==
    /\ t.fixed # None => Len(data) = t.fixed
    /\ t.noz \/ (data # <<>> /\ data[Len(data)] = 0)

RECURSIVE ValidInline(_, _, _, _, _, _, _, _)

(* What data are made of: the elements of an array, if they are given one  *)
(* by one, or the whole.                                                   *)
ElementsAt(t, value) ==
    LET Sum(n) == FoldLeft(LAMBDA acc, size : acc + size, 0, SubSeq(value.sizes, 1, n))
    IN  {[t |-> t.inner, base |-> Sum(k - 1), data |-> SubSeq(value.data, Sum(k - 1) + 1, Sum(k))] :
            k \in DOMAIN value.sizes}

Pieces(t, value) ==
    IF value.v = "array" THEN ElementsAt(t, value) ELSE {[t |-> t, base |-> 0, data |-> value.data]}

ValidSizes(t, value) ==   \* validate_array_value
    /\ t.kind = "array" /\ Len(value.sizes) \in t.min .. t.max
    /\ FoldLeft(LAMBDA acc, size : acc + size, 0, value.sizes) = Len(value.data)

ValidData(t, value, desc, args) ==
    /\ value.v = "array" => ValidSizes(t, value)
    /\ \A p \in Pieces(t, value) :
          ValidInline(p.t, p.data, value.ptrs, value.layouts, p.base, desc, args, <<>>)

(* validate_pointer_value_for_inline_field and, for arrays of elements     *)
(* that vary, validate_pointer_array_value_for_inline_field                *)
ValidPointee(t, dir, value, desc, args) ==
    dir # "out" =>
        /\ ValidData(t, value, desc, args)
        /\ t.kind = "len" /\ t.bits = None => TargetLength(desc, args, t) # None

(* validate_struct_buffer_with_pointers                                    *)
StructHolds(t, prefix, size) ==
    /\ prefix # None
    /\ IF ~t.varlen /\ ~prefix.var THEN size = t.size
       ELSE size >= prefix.size /\ size % BlockAlignment(t.fields, t.packed, t.align) = 0

ValidFields(t, ranges, data, ptrs, layouts, base, desc, args, inside) ==
    /\ ranges # None
    /\ \A i \in DOMAIN t.fields :
          /\ ranges[i][1] <= ranges[i][2] /\ ranges[i][2] <= Len(data)   \* or a panic
          /\ ValidInline(t.fields[i], Slice(data, ranges[i]), ptrs, layouts,
                         base + ranges[i][1], desc, args, inside)

ValidStruct(t, data, ptrs, layouts, base, desc, args, frames) ==
    /\ StructHolds(t, Prefix(t.fields, t.packed, t.align, t.overlay), Len(data))
    /\ ValidFields(t, StructRanges(t, Len(data), layouts, base), data, ptrs, layouts, base, desc, args,
                   Append(frames, Frame(t, Len(data), data, ptrs, layouts, base)))

(* validate_union_buffer_with_pointers                                     *)
ValidUnion(t, data, ptrs, layouts, base, desc, args, frames) ==
    LET sizes == {FixedSize(t.fields[i]) : i \in DOMAIN t.fields}
        inside == Append(frames, Frame(t, t.size, data, ptrs, layouts, base))
        Matches(f, size) ==
            /\ size # None => size <= Len(data) /\ (t.varlen => size = Len(data))
            /\ ValidInline(f, IF size = None THEN data ELSE SubSeq(data, 1, size),
                           ptrs, layouts, base, desc, args, inside)
    IN  /\ IF t.varlen THEN {None, Len(data)} \cap sizes # {}
           ELSE /\ None \notin sizes /\ Len(data) = t.size
                /\ Len(data) % BlockAlignment(t.fields, t.packed, t.align) = 0
        /\ \E i \in DOMAIN t.fields : Matches(t.fields[i], FixedSize(t.fields[i]))

(* validate_inline_value; a length is not looked at if it has no target.   *)
Tells(n, told, scale) == n = None \/ told = Scaled(n, scale)

ValidInline(t, data, ptrs, layouts, base, desc, args, frames) ==
    LET size == Len(data) IN
    CASE t.kind = "const" -> (t.bits # None /\ size = 0) \/ (size = t.size /\ ~NoConst(t))
      [] t.kind = "proc" -> size = t.size /\ t.per # 0
      [] t.kind = "resource" -> size = t.size
      [] t.kind = "array" ->
            LET one == FixedSize(t.inner)
            IN  /\ one # None
                /\ IF one = 0 THEN size = 0
                   ELSE /\ size % one = 0 /\ size \div one \in t.min .. t.max
                        /\ \A k \in 1 .. size \div one :
                              ValidInline(t.inner, Slice(data, <<(k - 1) * one, k * one>>), ptrs,
                                          layouts, base + (k - 1) * one, desc, args, frames)
      [] t.kind = "void" -> size = 0
      [] t.kind = "ptr" ->
            LET value == PointerAt(ptrs, base)
            IN  /\ size = 8
                /\ CASE value = None -> t.optional /\ data = Zeros(8)
                     [] value # None /\ HasData(value) -> ValidPointee(t.inner, t.dir, value, desc, args)
                     [] OTHER -> value = Null /\ t.optional
      [] t.kind = "struct" -> ValidStruct(t, data, ptrs, layouts, base, desc, args, frames)
      [] t.kind = "union" -> ValidUnion(t, data, ptrs, layouts, base, desc, args, frames)
      [] t.kind = "vma" -> size = 8
      [] t.kind = "len" ->
            \/ t.bits # None /\ size \in {0, t.size}
            \/ /\ t.bits = None /\ size = t.size
               /\ Tells(InlineTargetLength(desc, args, frames, t), Decode(data, t.endian), t.scale)
      [] t.kind = "buffer" -> ValidBuffer(data, t)
      [] t.kind = "string" -> ValidString(data, t)
      [] t.kind = "filename" -> data # <<>> /\ data[size] = 0

(* validate_vma_value                                                      *)
ValidMapping(t, value) ==
    /\ value.page >= 0 /\ value.pages \in t.min .. t.max /\ value.pages > 0
    /\ value.page + value.pages <= ArenaPages

(* validate_len_value                                                      *)
Exactly(n, expected, scale) == expected # None /\ n = Scaled(expected, scale)
ValidLength(t, n, desc, args) == Exactly(n, TargetLength(desc, args, t), t.scale)

(* A number that tells a length, if the value is one, or the bytes of one  *)
(* behind a pointer; other data are looked at as a whole.                  *)
IsLength(t, value) ==
    \/ t.kind = "len" /\ value.v = "const"
    \/ t.kind = "ptr" /\ t.inner.kind = "len" /\ value.v = "bytes"
NumberIn(value) == IF value.v = "const" THEN value.n ELSE Decode(value.data, "native")

(* validate_pointer_bytes and validate_pointer_array: an output pointer to *)
(* bytes is looked at like any other, one to elements is refused.          *)
ValidTopPointee(t, value) ==
    /\ value.v = "array" => t.dir # "out"
    /\ IsLength(t, value) => Len(value.data) = t.inner.size

(* validate_arg_value, but for what lengths tell and data hold             *)
ValidArg(t, value) ==
    CASE t.kind = "const" -> value.v = "const" /\ ~NoConst(t)
      [] t.kind = "proc" -> value.v = "const" /\ t.per # 0 /\ value.n < t.per
      [] t.kind = "len" -> value.v = "const"
      [] t.kind = "resource" -> value.v \in {"const", "null", "ref"}
      [] t.kind = "array" -> HasData(value)
      [] t.kind = "ptr" ->
            \/ HasData(value) /\ ValidTopPointee(t, value)
            \/ value.v = "null" /\ t.optional
            \/ value.v = "outptr" /\ t.dir # "in"
      [] t.kind \in {"struct", "union"} -> value.v = "bytes"
      [] t.kind = "vma" -> (value.v = "null" /\ t.optional) \/ (value.v = "vma" /\ ValidMapping(t, value))
      [] t.kind = "string" -> value.v = "bytes" /\ ValidString(value.data, t)
      [] t.kind = "buffer" -> value.v = "bytes" /\ ValidBuffer(value.data, t)
      [] t.kind = "filename" -> value.v = "filename"
      [] t.kind = "void" -> FALSE

Structured(t) == t.kind \in {"array", "struct", "union", "ptr"}

(* validate_program                                                        *)
Valid(desc, args) ==
    \A i \in DOMAIN desc.args :
        LET t == desc.args[i] IN
        /\ ValidArg(t, args[i])
        /\ IF IsLength(t, args[i]) THEN ValidLength(Pointed(t), NumberIn(args[i]), desc, args)
           ELSE Structured(t) /\ HasData(args[i]) => ValidData(Pointed(t), args[i], desc, args)
=============================================================================
