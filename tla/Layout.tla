------------------------------- MODULE Layout -------------------------------
(***************************************************************************)
(* The types of arguments and how their values lie in memory: sizes,       *)
(* alignment, groups of bitfields, the ranges of the fields of a struct,   *)
(* also when one of them varies in size, and the bytes of scalars.         *)
(*                                                                         *)
(* A type is a record; its field kind says which.  None stands for an      *)
(* Option that is None and for an error.  Fields are numbered from 1,      *)
(* offsets in memory from 0.  Sizes are far from the limits of usize.      *)
(***************************************************************************)
EXTENDS Integers, Sequences, FiniteSets, SequencesExt

CONSTANT None

(* A signed or unsigned integer makes no difference here; range is <<lo,   *)
(* hi>> or None, any: there is no restriction at all, bits: the width of   *)
(* a bitfield or None.                                                     *)
ConstType(size, values, range, any, endian, bits) ==
    [kind |-> "const", size |-> size, values |-> values, range |-> range, any |-> any,
     endian |-> endian, bits |-> bits]
ProcType(size, start, per) ==
    [kind |-> "proc", size |-> size, start |-> start, per |-> per, endian |-> "native"]
ResourceType(name, size, default, optional) ==
    [kind |-> "resource", name |-> name, size |-> size, default |-> default, optional |-> optional]
ArrayType(inner, min, max) == [kind |-> "array", inner |-> inner, min |-> min, max |-> max]
PtrType(inner, dir, optional) ==
    [kind |-> "ptr", inner |-> inner, dir |-> dir, optional |-> optional]
VoidType == [kind |-> "void"]
VmaType(min, max, optional) == [kind |-> "vma", min |-> min, max |-> max, optional |-> optional]
LenType(root, path, size, what, scale, endian, bits) ==
    [kind |-> "len", root |-> root, path |-> path, size |-> size, what |-> what,
     scale |-> scale, endian |-> endian, bits |-> bits]
BufferType(min, max, dir) == [kind |-> "buffer", min |-> min, max |-> max, dir |-> dir]
StringType(values, noz, fixed) ==
    [kind |-> "string", values |-> values, noz |-> noz, fixed |-> fixed]
FilenameType == [kind |-> "filename"]

Pointed(t) == IF t.kind = "ptr" THEN t.inner ELSE t

-----------------------------------------------------------------------------
(* Scalars                                                                 *)

RECURSIVE Encode(_, _, _)
Encode(size, value, endian) ==
    IF size = 0 THEN <<>>
    ELSE LET low == value % 256  rest == Encode(size - 1, value \div 256, endian)
         IN  IF endian = "big" THEN Append(rest, low) ELSE <<low>> \o rest

Decode(data, endian) ==
    LET weighted == IF endian = "big" THEN data ELSE Reverse(data)
    IN  FoldLeft(LAMBDA acc, b : acc * 256 + b, 0, weighted)

Zeros(n) == [i \in 1 .. n |-> 0]
Slice(data, range) == SubSeq(data, range[1] + 1, range[2])
Splice(data, from, part) ==
    SubSeq(data, 1, from) \o part \o SubSeq(data, from + Len(part) + 1, Len(data))
Resize(data, n) == IF Len(data) >= n THEN SubSeq(data, 1, n) ELSE data \o Zeros(n - Len(data))

-----------------------------------------------------------------------------
(* Sizes and alignments                                                    *)

OnlyOne(S) == IF Cardinality(S) = 1 THEN CHOOSE n \in S : TRUE ELSE None

StringStorage(t) ==
    IF t.fixed # None THEN t.fixed
    ELSE OnlyOne({Len(s) + (IF t.noz THEN 0 ELSE 1) : s \in t.values})

RECURSIVE FixedSize(_)
FixedSize(t) ==
    CASE t.kind \in {"const", "proc", "len", "resource"} -> t.size
      [] t.kind = "array" -> IF t.min = t.max /\ FixedSize(t.inner) # None
                             THEN t.min * FixedSize(t.inner) ELSE None
      [] t.kind \in {"ptr", "vma"} -> 8
      [] t.kind = "void" -> 0
      [] t.kind \in {"struct", "union"} -> IF t.varlen THEN None ELSE t.size
      [] t.kind = "string" -> StringStorage(t)
      [] t.kind = "buffer" -> IF t.min = t.max THEN t.max ELSE None
      [] t.kind = "filename" -> None

Largest(S) == CHOOSE n \in S : \A m \in S : m <= n

(* Alignments are powers of two; the parser of the descriptions and        *)
(* validate_arg_type see to it.                                            *)
RECURSIVE Alignment(_)
BlockAlignment(fields, packed, align) ==
    IF align # None THEN align
    ELSE IF packed THEN 1
    ELSE Largest({1} \cup {Alignment(fields[i]) : i \in DOMAIN fields})
Alignment(t) ==
    CASE t.kind \in {"const", "proc", "len", "resource"} -> t.size
      [] t.kind = "array" -> Alignment(t.inner)
      [] t.kind \in {"ptr", "vma"} -> 8
      [] t.kind \in {"struct", "union"} -> BlockAlignment(t.fields, t.packed, t.align)
      [] t.kind \in {"void", "buffer", "string", "filename"} -> 1

(* Sizes and offsets that are not known are None.                          *)
Plus(m, n) == IF m = None \/ n = None THEN None ELSE m + n
OrZero(n) == IF n = None THEN 0 ELSE n

AlignUp(n, align) == IF align <= 1 THEN n ELSE ((n + align - 1) \div align) * align

-----------------------------------------------------------------------------
(* Bitfields share a unit of storage with their neighbours if units and    *)
(* endianness are the same and there is room.  The last field of a group   *)
(* stands for its storage, the others have no bytes of their own.          *)

Bits(t) == IF t.kind \in {"const", "len"} THEN t.bits ELSE None

BitOffsets(fields) ==
    LET offset[i \in DOMAIN fields] ==
            IF /\ i > 1 /\ Bits(fields[i]) # None /\ Bits(fields[i - 1]) # None
               /\ fields[i - 1].size = fields[i].size /\ fields[i - 1].endian = fields[i].endian
               /\ offset[i - 1] + fields[i - 1].bits + fields[i].bits <= 8 * fields[i].size
            THEN offset[i - 1] + fields[i - 1].bits ELSE 0
    IN  offset

InUnits(fields, offset) ==
    [i \in DOMAIN fields |->
        IF Bits(fields[i]) = None THEN None
        ELSE [unit |-> fields[i].size, endian |-> fields[i].endian, bits |-> fields[i].bits,
              offset |-> offset[i],
              last |-> i = Len(fields) \/ Bits(fields[i + 1]) = None \/ offset[i + 1] = 0]]

BitfieldInfo(fields) == InUnits(fields, BitOffsets(fields))

StandaloneBitfield(t) ==
    [unit |-> t.size, endian |-> t.endian, bits |-> t.bits, offset |-> 0, last |-> TRUE]

(* The lowest bit of a field in the number its unit holds.                 *)
Shift(info) ==
    IF info.endian = "big" THEN 8 * info.unit - info.offset - info.bits ELSE info.offset

EncodeBits(storage, info, value) ==
    LET Replaced(cur, at, range) == cur + ((value % range) - ((cur \div at) % range)) * at
    IN  Encode(info.unit, Replaced(Decode(storage, info.endian), 2 ^ Shift(info), 2 ^ info.bits),
               info.endian)

SizeWith(t, info) == IF info = None THEN FixedSize(t) ELSE IF info.last THEN info.unit ELSE 0
AlignmentWith(t, info) == IF info = None THEN Alignment(t) ELSE info.unit

FieldSize(fields, i) == SizeWith(fields[i], BitfieldInfo(fields)[i])
FieldAlignment(fields, i, packed) ==
    IF packed THEN 1 ELSE AlignmentWith(fields[i], BitfieldInfo(fields)[i])

-----------------------------------------------------------------------------
(* Structs.  The fields from number overlay on lie over the others.        *)

StartsOverOnce(i, overlay) == i = 1   \* mutant: the overlay lies behind the rest

StartsOver(i, overlay) == i = 1 \/ i = overlay

KnownAlignUp(n, align) == IF n = None THEN None ELSE AlignUp(n, align)

(* compute_struct_field_offset                                             *)
FieldOffset(fields, i, packed, overlay) ==
    LET start[j \in 1 .. i] ==
            IF StartsOver(j, overlay) THEN 0
            ELSE KnownAlignUp(Plus(start[j - 1], FieldSize(fields, j - 1)),
                              FieldAlignment(fields, j, packed))
    IN  start[i]

(* struct_layout_prefix_size: the size up to the fields that vary, which   *)
(* are left out, and whether there are any.                                *)
PrefixOf(sum, var, align) == [size |-> IF var THEN sum ELSE AlignUp(sum, align), var |-> var]

RECURSIVE Prefix(_, _, _, _)
Prefix(fields, packed, align, overlay) ==
    IF overlay # None
    THEN IF overlay = 1 \/ overlay > Len(fields) \/ \E i \in DOMAIN fields : FixedSize(fields[i]) = None
         THEN None
         ELSE LET below == Prefix(SubSeq(fields, 1, overlay - 1), packed, None, None)
                  above == Prefix(SubSeq(fields, overlay, Len(fields)), packed, None, None)
              IN  [size |-> AlignUp(Largest({below.size, above.size}),
                                    BlockAlignment(fields, packed, align)),
                   var |-> FALSE]
    ELSE LET Grow(acc, i) == AlignUp(acc, FieldAlignment(fields, i, packed))
                             + OrZero(FieldSize(fields, i))
         IN  PrefixOf(FoldLeft(Grow, 0, [i \in DOMAIN fields |-> i]),
                      \E i \in DOMAIN fields : FixedSize(fields[i]) = None,
                      BlockAlignment(fields, packed, align))

StructWith(prefix, name, fields, names, packed, align, overlay) ==
    [kind |-> "struct", name |-> name, fields |-> fields, names |-> names,
     dirs |-> [i \in DOMAIN fields |-> None],   \* directions given to fields
     size |-> prefix.size, varlen |-> prefix.var, packed |-> packed, align |-> align,
     overlay |-> overlay]

StructType(name, fields, names, packed, align, overlay) ==
    StructWith(Prefix(fields, packed, align, overlay), name, fields, names, packed, align, overlay)

(* build_union_arg_type                                                    *)
UnionType(name, fields, names, varlen) ==
    LET sizes == {FixedSize(fields[i]) : i \in DOMAIN fields} \ {None}
    IN  [kind |-> "union", name |-> name, fields |-> fields, names |-> names,
         dirs |-> [i \in DOMAIN fields |-> None],
         size |-> IF varlen THEN Largest(sizes \cup {0})
                  ELSE AlignUp(Largest(sizes \cup {0}), BlockAlignment(fields, FALSE, None)),
         varlen |-> varlen, packed |-> FALSE, align |-> None]

-----------------------------------------------------------------------------
(* Where the fields are in a struct of a given total size.  If one field   *)
(* of a packed struct varies, its size is what the others leave, less some *)
(* padding: as much as possible, if the field may have that size.  Of a    *)
(* whole that is smaller than the most padding there can be, nothing is    *)
(* found, not even that there is none.                                     *)

RECURSIVE Accepts(_, _)

VaryingFields(fields) == {i \in DOMAIN fields : FixedSize(fields[i]) = None}

LeastOf(S) == IF S = {} THEN None ELSE CHOOSE n \in S : \A m \in S : n <= m

(* infer_packed_var_field_size: the most padding is tried first, and if    *)
(* the whole is smaller than that the search is given up (checked_sub).    *)
VaryingSize(t, fixed, total, align) ==
    IF total < align - 1 THEN None
    ELSE LeastOf({total - p - fixed : p \in
             {p \in 0 .. align - 1 : /\ total - p >= fixed /\ AlignUp(total - p, align) = total
                                     /\ Accepts(t, total - p - fixed)}})

(* What the fields do not fill is their alignment only, or None.           *)
Filling(ranges, align, total) ==
    LET end == ranges[Len(ranges)][2]
    IN  IF end = None \/ AlignUp(end, align) # total THEN None ELSE ranges

EndToEnd(end, n) == [i \in 1 .. n |-> <<end[i - 1], end[i]>>]

PackedRanges(t, total, align) ==
    LET fs == t.fields
        fixed == FoldLeft(LAMBDA acc, i : acc + OrZero(FieldSize(fs, i)), 0, [i \in DOMAIN fs |-> i])
        Size(i) == IF FixedSize(fs[i]) = None THEN VaryingSize(fs[i], fixed, total, align)
                   ELSE FieldSize(fs, i)
        end[i \in 0 .. Len(fs)] == IF i = 0 THEN 0 ELSE Plus(end[i - 1], Size(i))
    IN  EndToEnd(end, Len(fs))

RangeOf(start, size, total) == <<start, IF size # None THEN start + size ELSE total>>
NotInverted(ranges) == IF ranges[Len(ranges)][2] < ranges[Len(ranges)][1] THEN None ELSE ranges

(* compute_struct_field_ranges, as pairs of first and end offsets          *)
FieldRanges(t, total) ==
    LET fs == t.fields
        align == BlockAlignment(fs, TRUE, t.align)
    IN  IF t.varlen /\ t.packed
        THEN IF Cardinality(VaryingFields(fs)) # 1 THEN None
             ELSE Filling(PackedRanges(t, total, align), align, total)
        ELSE IF VaryingFields(fs) \cap 1 .. Len(fs) - 1 # {} THEN None
        ELSE NotInverted([i \in DOMAIN fs |->
                 RangeOf(FieldOffset(fs, i, t.packed, t.overlay),
                         FieldSize(fs, i), total)])

(* arg_type_accepts_inline_size_inner                                      *)
AcceptsElements(t, one, size) ==
    IF one # None THEN one = 0 \/ (size % one = 0 /\ size \div one \in t.min .. t.max)
    ELSE IF size = 0 THEN t.min = 0
    ELSE t.min = 1 /\ t.max = 1 /\ Accepts(t.inner, size)

AcceptsFields(t, ranges) ==
    ranges # None /\ \A i \in DOMAIN t.fields : Accepts(t.fields[i], ranges[i][2] - ranges[i][1])

AcceptsVarying(t, size) ==
    CASE t.kind = "buffer" -> size \in t.min .. t.max
      [] t.kind = "string" -> t.noz \/ size >= 1
      [] t.kind = "filename" -> size >= 1
      [] t.kind = "array" -> AcceptsElements(t, FixedSize(t.inner), size)
      [] t.kind = "struct" ->
            /\ size >= Prefix(t.fields, t.packed, t.align, t.overlay).size
            /\ size % BlockAlignment(t.fields, t.packed, t.align) = 0
            /\ AcceptsFields(t, FieldRanges(t, size))
      [] t.kind = "union" ->
            /\ size % BlockAlignment(t.fields, t.packed, t.align) = 0
            /\ \E i \in DOMAIN t.fields : Accepts(t.fields[i], size)

Accepts(t, size) == IF FixedSize(t) # None THEN size = FixedSize(t) ELSE AcceptsVarying(t, size)
=============================================================================
