------------------------------- MODULE Lengths -------------------------------
(***************************************************************************)
(* Values of arguments, and the length of what a len, bytesize or offsetof *)
(* names: another argument, a field next to it or further out, a struct    *)
(* around it, or something behind a pointer.                               *)
(*                                                                         *)
(* A descriptor desc of a syscall has the types and the names of its       *)
(* arguments.  Inside of data, pointers (with the value they point to) and *)
(* the recorded layouts of structs carry offsets into that data.           *)
(***************************************************************************)
EXTENDS Layout

CONSTANT PageSize

Number(n) == [v |-> "const", n |-> n]
Result == [v |-> "ref"]
Bytes(data, ptrs, layouts) ==   \* Buffer, or Composite if it has pointers or layouts
    [v |-> "bytes", data |-> data, ptrs |-> ptrs, layouts |-> layouts]
Buffer(data) == Bytes(data, <<>>, <<>>)
Elements(data, ptrs, sizes, layouts) ==
    [v |-> "array", data |-> data, ptrs |-> ptrs, sizes |-> sizes, layouts |-> layouts]
Filename(len) == [v |-> "filename", len |-> len]
Mapping(page, pages) == [v |-> "vma", page |-> page, pages |-> pages]
OutPtr == [v |-> "outptr"]
Null == [v |-> "null"]

HasData(value) == value.v \in {"bytes", "array"}

-----------------------------------------------------------------------------
(* materialized_arg_size and derived_arg_length                            *)

MaterializedSize(t, value) ==
    CASE HasData(value) /\ t.kind \in {"ptr", "string", "buffer", "array"} -> Len(value.data)
      [] t.kind = "ptr" /\ value.v = "outptr" -> FixedSize(t.inner)
      [] t.kind \in {"ptr", "vma"} /\ value.v = "null" -> 0
      [] t.kind = "vma" /\ value.v = "vma" -> value.pages * PageSize
      [] t.kind = "filename" /\ value.v = "filename" -> value.len + 1
      [] OTHER -> FixedSize(t)

CountOf(one, size) ==
    IF one = None THEN None ELSE IF one = 0 THEN 0
    ELSE IF size % one # 0 THEN None ELSE size \div one

CountFromBytes(inner, size) == CountOf(FixedSize(inner), size)

DerivedLength(t, value, what) ==
    LET counted == t.kind = "ptr" /\ t.inner.kind = "array"
    IN  CASE what = "offset" -> None
          [] what = "auto" /\ value.v = "array" /\ (t.kind = "array" \/ counted) -> Len(value.sizes)
          [] what = "auto" /\ t.kind = "array" /\ value.v # "array" ->
                IF t.min = t.max THEN t.min ELSE None
          [] what = "auto" /\ counted /\ value.v = "bytes" ->
                CountFromBytes(t.inner.inner, Len(value.data))
          [] what = "auto" /\ counted /\ value.v = "outptr" ->
                IF t.inner.min = t.inner.max THEN t.inner.min ELSE None
          [] OTHER -> MaterializedSize(t, value)

(* derive_inline_length and derive_static_length                           *)
InlineLength(t, data, what) ==
    CASE what = "offset" -> None
      [] what = "auto" /\ t.kind = "array" -> CountFromBytes(t.inner, Len(data))
      [] OTHER -> Len(data)

StaticLength(t, what) ==
    CASE what = "offset" -> None
      [] what = "auto" /\ t.kind = "array" /\ t.min = t.max -> t.min
      [] OTHER -> FixedSize(t)

Scaled(n, scale) == IF scale <= 1 THEN n ELSE n \div scale

-----------------------------------------------------------------------------
(* Following a path of field names.                                        *)

Where(names, name) == IF \E i \in DOMAIN names : names[i] = name
                      THEN CHOOSE i \in DOMAIN names : names[i] = name ELSE None

(* lookup_inline_struct_layout, relative to the struct: the first layout   *)
(* recorded at this offset for as many fields.                             *)
Recorded(layouts, base, n) ==
    LeastOf({i \in DOMAIN layouts : layouts[i].base = base /\ Len(layouts[i].ranges) = n})

Relative(ranges, base) == [i \in DOMAIN ranges |-> <<ranges[i][1] - base, ranges[i][2] - base>>]

RangesIn(i, layouts, base, t, size) ==
    IF i = None THEN FieldRanges(t, size) ELSE Relative(layouts[i].ranges, base)

StructRanges(t, size, layouts, base) ==
    RangesIn(Recorded(layouts, base, Len(t.fields)), layouts, base, t, size)

Pointee(ptrs, i) == IF i = None THEN None ELSE ptrs[i].value
PointerAt(ptrs, offset) == Pointee(ptrs, LeastOf({i \in DOMAIN ptrs : ptrs[i].offset = offset}))

Resolved(t, value, data, null) == [t |-> t, value |-> value, data |-> data, null |-> null]

(* resolve_path_value; also resolve_path_in_container, for a frame whose   *)
(* data there always is.                                                   *)
RECURSIVE ResolvePath(_, _, _, _, _, _)

Behind(t, value, path) ==   \* in data that a pointer leads to, or that are an argument
    ResolvePath(t, value.data, value.ptrs, value.layouts, 0, path)

AtPointer(t, pointee, data) ==
    IF pointee = None THEN Resolved(t, None, None, data = Zeros(8))
    ELSE Resolved(t, pointee, IF HasData(pointee) THEN pointee.data ELSE None, pointee = Null)

ThroughPointer(t, pointee, path) ==
    IF pointee # None /\ HasData(pointee) THEN Behind(t.inner, pointee, path) ELSE None

(* The part of the data that a field has, or None; what is known of a      *)
(* union are its sizes.                                                    *)
Within(data, range) ==
    IF range[2] > Len(data) \/ range[2] < range[1] THEN None ELSE range
RangeInStruct(data, ranges, i) == IF ranges = None THEN None ELSE Within(data, ranges[i])
RangeInUnion(data, size) ==
    IF size = None \/ (data # None /\ size > Len(data)) THEN None ELSE <<0, size>>

IntoField(f, data, range, ptrs, layouts, base, path) ==
    IF range = None THEN None
    ELSE ResolvePath(f, IF data = None THEN None ELSE Slice(data, range), ptrs, layouts,
                     base + range[1], path)

IntoContainer(t, i, data, ptrs, layouts, base, path) ==
    IF i = None \/ (t.kind = "struct" /\ data = None) THEN None
    ELSE IntoField(t.fields[i], data,
                   IF t.kind = "struct"
                   THEN RangeInStruct(data, StructRanges(t, Len(data), layouts, base), i)
                   ELSE RangeInUnion(data, FixedSize(t.fields[i])),
                   ptrs, layouts, base, path)

ResolvePath(t, data, ptrs, layouts, base, path) ==
    CASE t.kind = "ptr" /\ path = <<>> -> AtPointer(t, PointerAt(ptrs, base), data)
      [] t.kind = "ptr" /\ path # <<>> -> ThroughPointer(t, PointerAt(ptrs, base), path)
      [] t.kind # "ptr" /\ path = <<>> -> Resolved(t, None, data, FALSE)
      [] t.kind \in {"struct", "union"} /\ path # <<>> ->
            IntoContainer(t, Where(t.names, path[1]), data, ptrs, layouts, base, Tail(path))
      [] OTHER -> None

(* resolve_target_from_args, when arguments are there up to this one only  *)
ResolveIn(t, value, path) ==
    IF path = <<>> THEN Resolved(t, value, IF HasData(value) THEN value.data ELSE None, FALSE)
    ELSE IF t.kind = "ptr" /\ value.v = "null" THEN None
    ELSE Behind(Pointed(t), IF HasData(value) THEN value ELSE Buffer(None), path)

ResolveArg(desc, args, name, path) ==
    LET i == Where(desc.names, name)
    IN  IF i = None \/ i \notin DOMAIN args THEN None ELSE ResolveIn(desc.args[i], args[i], path)

(* derive_resolved_length                                                  *)
ResolvedLength(r, what) ==
    CASE r = None -> None
      [] r # None /\ r.null -> 0
      [] r # None /\ ~r.null /\ r.value # None -> DerivedLength(r.t, r.value, what)
      [] r # None /\ ~r.null /\ r.value = None /\ r.data # None -> InlineLength(r.t, r.data, what)
      [] OTHER -> StaticLength(r.t, what)

RECURSIVE PathOffset(_, _)
PathOffset(t, path) ==
    LET i == Where(t.names, path[1])
    IN  IF path = <<>> THEN 0
        ELSE IF t.kind = "ptr" THEN PathOffset(t.inner, path)
        ELSE IF t.kind \notin {"struct", "union"} \/ i = None THEN None
        ELSE Plus(IF t.kind = "union" THEN 0 ELSE FieldOffset(t.fields, i, t.packed, t.overlay),
                  PathOffset(t.fields[i], Tail(path)))

-----------------------------------------------------------------------------
(* Targets.  A frame is a struct or union around a length, with its data;  *)
(* frames lie from the outside in.                                         *)

Frame(t, size, data, ptrs, layouts, base) ==
    [t |-> t, size |-> size, data |-> data, ptrs |-> ptrs, layouts |-> layouts, base |-> base]

(* resolve_frame_root                                                      *)
FrameOf(frames, root) ==
    CASE root.at = "current" -> IF frames = <<>> THEN None ELSE frames[Len(frames)]
      [] root.at = "parent" -> IF root.hops \in 1 .. Len(frames)
                               THEN frames[Len(frames) + 1 - root.hops] ELSE None
      [] root.at = "type" ->
            LET fit == {i \in DOMAIN frames : frames[i].t.name = root.name}
            IN  IF fit = {} THEN None ELSE frames[Largest(fit)]
      [] root.at = "arg" -> None

FrameLength(frame, what) ==
    CASE what = "bytes" -> Len(frame.data) [] what = "auto" -> frame.size [] OTHER -> None

(* compute_path_offset_in_container                                        *)
Start(ranges, i) == IF ranges = None THEN None ELSE ranges[i][1]
OffsetInFrame(frame, path) ==
    LET i == Where(frame.t.names, path[1])
    IN  IF i = None THEN None
        ELSE Plus(IF frame.t.kind = "union" THEN 0
                  ELSE Start(StructRanges(frame.t, frame.size, frame.layouts, frame.base), i),
                  PathOffset(frame.t.fields[i], Tail(path)))

(* derive_target_length, for a len that is an argument of its own; its     *)
(* target is an argument or in one.                                        *)
TargetLength(desc, args, t) ==
    LET arg == Where(desc.names, t.root.name)
    IN  IF t.root.at # "arg" \/ arg = None THEN None
        ELSE IF t.what = "offset" THEN PathOffset(desc.args[arg], t.path)
        ELSE ResolvedLength(ResolveArg(desc, args, t.root.name, t.path), t.what)

LengthInFrame(frame, t) ==
    CASE frame = None -> None
      [] frame # None /\ t.what = "offset" -> OffsetInFrame(frame, t.path)
      [] frame # None /\ t.what # "offset" /\ t.path = <<>> -> FrameLength(frame, t.what)
      [] OTHER -> ResolvedLength(ResolvePath(frame.t, frame.data, frame.ptrs, frame.layouts,
                                             frame.base, t.path), t.what)

(* derive_inline_target_length, for a len inside of data                   *)
InlineTargetLength(desc, args, frames, t) ==
    IF t.root.at = "arg" THEN TargetLength(desc, args, t)
    ELSE LengthInFrame(FrameOf(frames, t.root), t)
=============================================================================
