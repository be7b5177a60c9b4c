----------------------------- MODULE Generation -----------------------------
(***************************************************************************)
(* What generation may make of the arguments of a call: each operator is   *)
(* the set of the values a random choice can lead to.  Random bytes are    *)
(* Noise, random strings have one of RandomLengths.  None is in such a set *)
(* if generation may give up.                                              *)
(*                                                                         *)
(* An inline object is what lies in memory for a type: a value as made by  *)
(* Bytes.  It is reserved rather than filled for output.                   *)
(***************************************************************************)
EXTENDS Lengths

CONSTANTS
    Noise,            \* bytes that a random byte may be
    RandomLengths,    \* lengths of random strings
    NumPages, FirstPage   \* VMA_NUM_PAGES, VMA_RESERVED_START_PAGE

Lesser(m, n) == IF n = None \/ m < n THEN m ELSE n
Fills(n) == {[i \in 1 .. n |-> b] : b \in Noise}

(* All ways to take one element of each set of a sequence.                 *)
Product(sets) ==
    FoldLeft(LAMBDA acc, S : {Append(s, x) : s \in acc, x \in S}, {<<>>}, sets)

-----------------------------------------------------------------------------
(* Scalars, strings and mappings                                           *)

(* choose_scalar_const_value                                               *)
ConstValues(t) ==
    LET limit == IF t.bits = None THEN None ELSE 2 ^ t.bits - 1
        fit == {n \in t.values : limit = None \/ n <= limit}
    IN  CASE t.values # {} -> IF fit # {} THEN fit ELSE {Lesser(n, limit) : n \in t.values}
          [] t.values = {} /\ t.range # None ->
                LET upper == Lesser(t.range[2], limit) IN Lesser(t.range[1], upper) .. upper
          [] t.values = {} /\ t.range = None -> {Lesser(n, limit) : n \in IF t.any THEN Noise ELSE {0}}

EncodeScalar(t, n) ==
    IF t.bits = None THEN Encode(t.size, n, t.endian)
    ELSE EncodeBits(Zeros(t.size), StandaloneBitfield(t), n)

ProcValues(t) == IF t.per = 0 THEN {0} ELSE 0 .. t.per - 1

(* materialize_string_bytes                                                *)
Materialized(source, t) ==
    LET end == IF t.noz THEN <<>> ELSE <<0>>
        room == IF t.fixed = None THEN Len(source)
                ELSE IF t.noz THEN t.fixed ELSE Largest({0, t.fixed - 1})
        string == SubSeq(source, 1, Lesser(Len(source), room)) \o end
    IN  IF t.fixed = None THEN string ELSE Resize(string, t.fixed)

(* generate_string_bytes                                                   *)
Strings(t) ==
    LET fit == {s \in t.values : t.fixed = None \/ Len(s) + (IF t.noz THEN 0 ELSE 1) <= t.fixed}
        room == Largest({1, IF t.fixed = None THEN 16 ELSE IF t.noz THEN t.fixed ELSE t.fixed - 1})
        sources == IF fit # {} THEN fit ELSE IF t.values # {} THEN t.values
                   ELSE {[i \in 1 .. Lesser(n, room) |-> 97] : n \in RandomLengths}
    IN  {Materialized(s, t) : s \in sources}

Filenames == {<<46, 47, 97>>}

(* generate_vma                                                            *)
Mappings(t) ==
    LET usable == Largest({1, NumPages - FirstPage})
        sizes == IF t.min >= t.max THEN {t.min} ELSE t.min .. t.max
        Starts(pages) == LET highest == NumPages - pages
                         IN  IF highest <= FirstPage THEN {highest} ELSE {FirstPage, highest}
    IN  UNION {{Mapping(page, pages) : page \in Starts(pages)} :
                   pages \in {Largest({1, Lesser(n, usable)}) : n \in sizes}}

-----------------------------------------------------------------------------
(* Can any value of a type be generated?  (arg_type_generation_limitation) *)

RECURSIVE Possible(_)

Possible(t) ==
    CASE t.kind \in {"array", "ptr"} -> Possible(t.inner)
      [] t.kind = "const" -> t.values # {} \/ t.range # None \/ t.any
      [] t.kind = "proc" -> t.per # 0
      [] t.kind = "struct" -> \A i \in DOMAIN t.fields : Possible(t.fields[i])
      [] t.kind = "union" -> \E i \in DOMAIN t.fields : Possible(t.fields[i])
      [] OTHER -> TRUE

-----------------------------------------------------------------------------
(* Lengths inside of data are filled in when all of it is there.  A union  *)
(* gives them to its first field that has room, whichever field was made.  *)

ScaledOrZero(n, scale) == IF n = None THEN 0 ELSE Scaled(n, scale)
PartReplaced(data, from, part) == IF part = None THEN None ELSE Splice(data, from, part)

RECURSIVE Patched(_, _, _, _, _, _, _, _, _)

(* patch_inline_len_fields: the data, or None.  A bitfield is patched in   *)
(* all of its unit.                                                        *)
PatchedField(t, i, info, range, desc, args, frames, data, ptrs, layouts, base) ==
    LET end == IF info = None THEN range[2] ELSE range[1] + info.unit
    IN  IF (t.overlay # None /\ i >= t.overlay) \/ (info # None /\ t.fields[i].kind # "len") THEN data
        ELSE IF end > Len(data) THEN None
        ELSE PartReplaced(data, range[1],
                 Patched(t.fields[i], info, desc, args,
                         Append(frames, Frame(t, Len(data), data, ptrs, layouts, base)),
                         Slice(data, <<range[1], end>>), ptrs, layouts, base + range[1]))

PatchedFields(t, ranges, desc, args, frames, data, ptrs, layouts, base) ==
    LET Each(acc, i) ==
            IF acc = None THEN None
            ELSE PatchedField(t, i, BitfieldInfo(t.fields)[i], ranges[i], desc, args, frames, acc,
                              ptrs, layouts, base)
    IN  IF ranges = None THEN None ELSE FoldLeft(Each, data, [i \in DOMAIN t.fields |-> i])

PatchedElements(t, one, desc, args, frames, data, ptrs, layouts, base) ==
    LET Each(acc, k) ==
            IF acc = None THEN None
            ELSE PartReplaced(acc, (k - 1) * one,
                     Patched(t.inner, None, desc, args, frames, Slice(acc, <<(k - 1) * one, k * one>>),
                             ptrs, layouts, base + (k - 1) * one))
    IN  IF one = None THEN None ELSE IF one = 0 THEN data
        ELSE FoldLeft(Each, data, [k \in 1 .. Len(data) \div one |-> k])

PatchedLen(t, info, data, n) ==
    IF info # None THEN EncodeBits(data, info, n)
    ELSE IF Len(data) < t.size THEN None ELSE Splice(data, 0, EncodeScalar(t, n))

FirstOf(i, parts, data) == IF i = None THEN data ELSE Splice(data, 0, parts[i])
PatchedIn(parts, data) == FirstOf(LeastOf({i \in DOMAIN parts : parts[i] # None}), parts, data)

Patched(t, info, desc, args, frames, data, ptrs, layouts, base) ==
    CASE t.kind = "len" ->
            PatchedLen(t, info, data, ScaledOrZero(InlineTargetLength(desc, args, frames, t), t.scale))
      [] t.kind = "array" ->
            PatchedElements(t, FixedSize(t.inner), desc, args, frames, data, ptrs, layouts, base)
      [] t.kind = "struct" ->
            PatchedFields(t, StructRanges(t, Len(data), layouts, base), desc, args, frames, data,
                          ptrs, layouts, base)
      [] t.kind = "union" ->
            LET inside == Append(frames, Frame(t, IF t.varlen THEN Len(data) ELSE t.size,
                                               data, ptrs, layouts, base))
                Part(f, size) ==
                    IF size = None THEN None
                    ELSE IF size > Len(data) \/ (t.varlen /\ size # Len(data)) THEN None
                    ELSE Patched(f, None, desc, args, inside, SubSeq(data, 1, size), ptrs, layouts, base)
            IN  PatchedIn([i \in DOMAIN t.fields |-> Part(t.fields[i], FixedSize(t.fields[i]))], data)
      [] OTHER -> data

-----------------------------------------------------------------------------
(* Inline objects.                                                         *)

RECURSIVE Objects(_, _, _, _)
RECURSIVE Contents(_, _, _)

NoObject == Bytes(<<>>, <<>>, <<>>)

(* merge_inline_child_at, with shift_inline_struct_layout                  *)
Merged(out, base, child) ==
    LET data == Resize(out.data, Largest({Len(out.data), base + Len(child.data)}))
    IN  Bytes(Splice(data, base, child.data),
              out.ptrs \o [i \in DOMAIN child.ptrs |->
                              [child.ptrs[i] EXCEPT !.offset = @ + base]],
              out.layouts \o [i \in DOMAIN child.layouts |->
                  [base |-> child.layouts[i].base + base,
                   ranges |-> [j \in DOMAIN child.layouts[i].ranges |->
                                  <<child.layouts[i].ranges[j][1] + base,
                                    child.layouts[i].ranges[j][2] + base>>]]])

Joined(children) == FoldLeft(LAMBDA out, c : Merged(out, Len(out.data), c), NoObject, children)

(* Data of a type that has no parts.                                       *)
Leaves(t, filled) ==
    CASE t.kind = "const" -> IF filled THEN {EncodeScalar(t, n) : n \in ConstValues(t)} ELSE {Zeros(t.size)}
      [] t.kind = "proc" -> IF filled THEN {Encode(t.size, t.start + n, t.endian) : n \in ProcValues(t)}
                            ELSE {Zeros(t.size)}
      [] t.kind = "resource" -> {IF filled THEN Encode(t.size, t.default, "native") ELSE Zeros(t.size)}
      [] t.kind = "len" -> {Zeros(t.size)}
      [] t.kind = "void" -> {<<>>}
      [] t.kind = "string" -> IF filled THEN Strings(t)
                              ELSE {Zeros(IF t.fixed = None THEN 0 ELSE t.fixed)}
      [] t.kind = "buffer" -> UNION {IF filled /\ t.dir # "out" THEN Fills(n) ELSE {Zeros(n)} :
                                        n \in t.min .. t.max}
      [] t.kind = "vma" -> IF filled THEN {Encode(8, m.page * PageSize, "native") : m \in Mappings(t)}
                           ELSE {Zeros(8)}
      [] t.kind = "filename" -> IF filled THEN {Append(f, 0) : f \in Filenames} ELSE {<<0>>}

(* choose_reserved_array_len                                               *)
Counts(t, filled) ==
    IF filled THEN t.min .. t.max
    ELSE IF t.max = 0 THEN {0} ELSE IF t.min = t.max THEN {t.min} ELSE Largest({1, t.min}) .. t.max

(* One more field of a struct, whose fields so far are out and lie at      *)
(* ranges.                                                                 *)
Extended(out, object, range) == [object |-> object, ranges |-> Append(out.ranges, range)]

BitsAdded(f, info, start, filled, out) ==
    LET data == IF info.offset = 0 THEN Resize(out.object.data, start) \o Zeros(info.unit)
                ELSE out.object.data
        base == Len(data) - info.unit
        unit == SubSeq(data, base + 1, base + info.unit)
    IN  {Extended(out, [out.object EXCEPT !.data = Splice(data, base, EncodeBits(unit, info, n))],
                  <<base, IF info.last THEN base + info.unit ELSE base>>) :
             n \in IF filled /\ f.kind = "const" THEN ConstValues(f) ELSE {0}}

ObjectsAdded(start, objects, out) ==
    {IF c = None THEN None
     ELSE Extended(out, Merged([out.object EXCEPT !.data = Resize(@, start)], start, c),
                   <<start, start + Len(c.data)>>) : c \in objects}

FieldAddedAt(start, info, f, filled, desc, args, out) ==
    IF info # None THEN BitsAdded(f, info, start, filled, out)
    ELSE ObjectsAdded(start, Objects(f, filled, desc, args), out)

FieldAdded(t, i, filled, desc, args, out) ==
    FieldAddedAt(IF t.varlen THEN AlignUp(Len(out.object.data), FieldAlignment(t.fields, i, t.packed))
                 ELSE FieldOffset(t.fields, i, t.packed, t.overlay),
                 BitfieldInfo(t.fields)[i], t.fields[i], filled, desc, args, out)

FieldsAdded(t, upto, filled, desc, args) ==
    FoldLeft(LAMBDA acc, i : UNION {IF out = None THEN {None}
                                    ELSE FieldAdded(t, i, filled, desc, args, out) : out \in acc},
             {[object |-> NoObject, ranges |-> <<>>]}, [i \in 1 .. upto |-> i])

(* The layout is recorded unless it can be found again from the size.      *)
StructMadeUnrecorded(t, out) ==   \* mutant: it is never recorded
    [out.object EXCEPT !.data = Resize(@, IF t.varlen
             THEN AlignUp(Len(@), BlockAlignment(t.fields, t.packed, t.align)) ELSE t.size)]

SizeMade(t, len) ==
    IF t.varlen THEN AlignUp(len, BlockAlignment(t.fields, t.packed, t.align)) ELSE t.size

StructWithData(t, data, out) ==
    Bytes(data, out.object.ptrs,
          IF FieldRanges(t, Len(data)) = out.ranges THEN out.object.layouts
          ELSE Append(out.object.layouts, [base |-> 0, ranges |-> out.ranges]))

StructMade(t, out) ==
    StructWithData(t, Resize(out.object.data, SizeMade(t, Len(out.object.data))), out)

(* generate_inline_object_raw and generate_reserved_inline_object_raw      *)
Objects(t, filled, desc, args) ==
    CASE t.kind = "array" ->
            UNION {LET all == Product([k \in 1 .. n |-> Objects(t.inner, filled, desc, args)])
                   IN  {IF \E k \in 1 .. n : s[k] = None THEN None ELSE Joined(s) : s \in all} :
                       n \in Counts(t, filled)}
      [] t.kind = "struct" ->
            LET below == filled /\ t.overlay # None   \* only the fields below the overlay
                Made(out) == IF out = None THEN None
                             ELSE IF below THEN [out.object EXCEPT !.data = Resize(@, t.size)]
                             ELSE StructMade(t, out)
            IN  {Made(out) : out \in FieldsAdded(t, IF below THEN t.overlay - 1 ELSE Len(t.fields),
                                                 filled, desc, args)}
      [] t.kind = "union" ->
            LET fit == {i \in DOMAIN t.fields : Possible(t.fields[i])}
            IN  IF fit = {} THEN {None}
                ELSE {IF c = None THEN None ELSE [c EXCEPT !.data = Resize(@, SizeMade(t, Len(@)))] :
                          c \in UNION {Objects(t.fields[i], filled, desc, args) : i \in fit}}
      [] t.kind = "ptr" ->
            {Bytes(Zeros(8), <<[offset |-> 0, value |-> value]>>, <<>>) : value \in Contents(t, desc, args)}
            \cup (IF t.optional THEN {Bytes(Zeros(8), <<>>, <<>>)} ELSE {})
      [] OTHER -> {Buffer(data) : data \in Leaves(t, filled)}

(* generate_inline_object, and what generate_reserved_inline_arg_value     *)
(* does                                                                    *)
WithData(object, data) == IF data = None THEN None ELSE [object EXCEPT !.data = data]
Finished(t, object, desc, args) ==
    WithData(object, Patched(t, None, desc, args, <<>>, object.data, object.ptrs, object.layouts, 0))

Inline(t, filled, desc, args) ==
    {IF o = None THEN None ELSE Finished(t, o, desc, args) : o \in Objects(t, filled, desc, args)}

OrElse(S, fallback) == {IF x = None THEN fallback ELSE x : x \in S}

(* generate_array_arg_value, generate_reserved_array_arg_value, of what    *)
(* each element may be                                                     *)
ArrayOf(s) ==
    IF \E k \in DOMAIN s : s[k] = None THEN Elements(<<>>, <<>>, <<>>, <<>>)
    ELSE LET all == Joined(s)
         IN  Elements(all.data, all.ptrs, [k \in DOMAIN s |-> Len(s[k].data)], all.layouts)

ArrayValues(t, filled, elements) ==
    UNION {{ArrayOf(s) : s \in Product([k \in 1 .. n |-> elements])} : n \in Counts(t, filled)}

(* union_fallback_size                                                     *)
FallbackSize(t) ==
    LET first == FixedSize(t.fields[1])
    IN  IF t.kind = "union" /\ t.varlen /\ first # None THEN first ELSE t.size

Fallback(t, filled) ==
    Buffer(Zeros(IF ~filled THEN OrZero(FixedSize(t))
                 ELSE IF t.kind = "array" THEN 0 ELSE FallbackSize(t)))

(* What an array, a struct or a union may be, as an argument or behind a   *)
(* pointer to its data.                                                    *)
OneByOne(t) == t.kind = "array" /\ FixedSize(t.inner) = None

Assembled(t, filled, objects) ==
    IF OneByOne(t) THEN ArrayValues(t, filled, objects) ELSE OrElse(objects, Fallback(t, filled))

Blocks(t, filled, desc, args) ==
    Assembled(t, filled, Inline(IF OneByOne(t) THEN t.inner ELSE t, filled, desc, args))

(* generate_pointer_arg_value, for what has no parts                       *)
LengthBytes(t, n) == IF t.bits # None THEN Zeros(t.size) ELSE Encode(t.size, n, t.endian)

Pointees(t, desc, args) ==
    CASE t.kind = "len" -> {Buffer(LengthBytes(t, ScaledOrZero(TargetLength(desc, args, t), t.scale)))}
      [] t.kind \in {"proc", "string", "filename", "buffer"} -> {Buffer(d) : d \in Leaves(t, TRUE)}
      [] OTHER -> {Buffer(d) : d \in Fills(FixedSize(t))}

(* generate_reserved_pointer_arg_value, for what has no parts              *)
ReservedPointees(t, desc, args) ==
    IF t.kind = "ptr" THEN Contents(t, desc, args) \cup (IF t.optional THEN {Null} ELSE {})
    ELSE {Buffer(d) : d \in Leaves(t, FALSE)}

(* What a pointer leads to, or what an argument is that has parts.         *)
Contents(t, desc, args) ==
    LET filled == t.kind # "ptr" \/ t.dir # "out"
    IN  CASE Pointed(t).kind \in {"array", "struct", "union"} -> Blocks(Pointed(t), filled, desc, args)
          [] Pointed(t).kind \notin {"array", "struct", "union"} /\ filled -> Pointees(t.inner, desc, args)
          [] OTHER -> ReservedPointees(t.inner, desc, args)

-----------------------------------------------------------------------------
(* generate_arg, when the arguments before this one are args.              *)
ArgValues(t, desc, args) ==
    CASE t.kind = "const" ->
            {Number(n) : n \in IF t.values # {} THEN t.values
                               ELSE IF t.range # None THEN t.range[1] .. t.range[2]
                               ELSE IF t.any THEN Noise ELSE {0}}
      [] t.kind = "proc" -> {Number(n) : n \in ProcValues(t)}
      [] t.kind = "len" -> {Number(ScaledOrZero(TargetLength(desc, args, t), t.scale))}
      [] t.kind = "resource" -> {Result, Number(t.default)}
      [] t.kind \in {"ptr", "array", "struct", "union"} ->
            Contents(t, desc, args) \cup (IF t.kind = "ptr" /\ t.optional THEN {Null} ELSE {})
      [] t.kind \in {"void", "string", "buffer"} -> {Buffer(d) : d \in Leaves(t, TRUE)}
      [] t.kind = "vma" -> Mappings(t) \cup (IF t.optional THEN {Null} ELSE {})
      [] t.kind = "filename" -> {Filename(Len(f)) : f \in Filenames}

(* repair_generated_top_level_derived_args: lengths are derived again when *)
(* all arguments are there.                                                *)
RepairedTo(n, t, value) ==
    IF n = None \/ (t.kind = "ptr" /\ (t.dir = "out" \/ t.inner.bits # None)) THEN value
    ELSE IF t.kind = "ptr"
    THEN Buffer(Encode(t.inner.size, Scaled(n, t.inner.scale), t.inner.endian))
    ELSE Number(Scaled(n, t.scale))

Repaired(desc, args) ==
    [i \in DOMAIN args |->
        LET t == desc.args[i] IN
        IF Pointed(t).kind # "len" THEN args[i]
        ELSE RepairedTo(TargetLength(desc, args, Pointed(t)), t, args[i])]
=============================================================================
