------------------------------ MODULE SampleStructs ------------------------------
(***************************************************************************)
(* Structs of up to MaxFields fields out of eleven, declared one at a      *)
(* time, in every combination of packing, alignment and overlay.           *)
(***************************************************************************)
EXTENDS Layout

CONSTANT MaxFields

VARIABLES fields, packed, align, overlay

vars == <<fields, packed, align, overlay>>

Scalar(size) == ConstType(size, {}, None, TRUE, "native", None)
Bit(size, bits, endian) == ConstType(size, {}, None, TRUE, endian, bits)
PairT == StructType("pair", <<Scalar(1), Scalar(2)>>, <<"x", "y">>, FALSE, None, None)
Tailed == StructType("tail", <<Scalar(1), ArrayType(Scalar(2), 0, 2)>>, <<"n", "a">>, FALSE, None, None)

Pool == { Scalar(1), Scalar(4), Bit(1, 3, "native"), Bit(1, 6, "native"), Bit(2, 5, "big"), VoidType,
          PairT, Tailed, ArrayType(Scalar(2), 0, 2), BufferType(1, 3, "plain"),
          UnionType("u", <<Scalar(1), Scalar(2)>>, <<"a", "b">>, FALSE) }

Init ==
    /\ fields \in {<<f>> : f \in Pool}
    /\ packed \in BOOLEAN /\ align \in {None, 4} /\ overlay = None

AddField ==
    /\ Len(fields) < MaxFields
    /\ \E f \in Pool : fields' = Append(fields, f)
    /\ UNCHANGED <<packed, align, overlay>>

AddOverlay ==
    /\ Len(fields) < MaxFields /\ overlay = None
    /\ \E f \in Pool : fields' = Append(fields, f)
    /\ overlay' = Len(fields) + 1
    /\ UNCHANGED <<packed, align>>

Next == AddField \/ AddOverlay

Spec == Init /\ [][Next]_vars

-----------------------------------------------------------------------------
Names == [i \in DOMAIN fields |-> i]
Built == Prefix(fields, packed, align, overlay) # None
T == StructType("t", fields, Names, packed, align, overlay)
Info == BitfieldInfo(fields)
Varying == VaryingFields(fields)

(* A group of bitfields that the overlay would cut in two: the two ways to *)
(* size a struct disagree about it, see the README.                        *)
SplitGroup ==
    overlay # None /\ Info[overlay] # None /\ Info[overlay].offset # 0

(* Total sizes that generation can come to: what it chooses for the only   *)
(* field that varies, and the padding behind.                              *)
Chosen == {n \in 0 .. 8 : \A i \in Varying : Accepts(fields[i], n)}
Fixed == FoldLeft(LAMBDA acc, i : acc + OrZero(FieldSize(fields, i)), 0, [i \in DOMAIN fields |-> i])
TotalFor(n) ==
    AlignUp(n + (IF packed THEN Fixed ELSE FieldOffset(fields, Len(fields), FALSE, None)),
            BlockAlignment(fields, packed, align))

BitRange(range, info) ==   \* from first to last
    IF info = None THEN 8 * range[1] .. 8 * range[2] - 1
    ELSE {8 * range[1] + info.offset + b : b \in 0 .. info.bits - 1}

Apart(ranges, bits, total) ==
    /\ \A i \in DOMAIN fields : bits[i] \subseteq 0 .. 8 * total - 1
    /\ \A i, j \in DOMAIN fields :
          i < j /\ bits[i] \cap bits[j] # {} => overlay # None /\ i < overlay /\ overlay <= j
    /\ packed \/ \A i \in DOMAIN fields : ranges[i][1] % FieldAlignment(fields, i, FALSE) = 0

Proper(ranges, total) ==
    Apart(ranges, [i \in DOMAIN fields |-> BitRange(ranges[i], Info[i])], total)

(* compute_struct_field_ranges places the fields of a struct apart from    *)
(* each other, to the bit, inside its size as struct_layout_prefix_size    *)
(* computes it on its own, and at their alignment; only an overlay may     *)
(* cover the fields before it.                                             *)
FieldsAreApart ==
    Built /\ ~T.varlen /\ ~SplitGroup => Proper(FieldRanges(T, T.size), T.size)

(* The next element of an array of such structs is aligned too.            *)
ElementsStayAligned ==
    Built /\ ~T.varlen /\ align = None /\ ~packed =>
        \A i \in DOMAIN fields : T.size % FieldAlignment(fields, i, FALSE) = 0

(* infer_packed_var_field_size: whatever size generation chose for the one *)
(* field that varies, the layout can be found again from the size of the   *)
(* whole, with the field no larger than it was (padding may be taken for   *)
(* none of it).  Of an empty packed struct with an alignment the layout is *)
(* not found; generation records it then (StructMade in Generation).       *)
Lost(total) == packed /\ total < BlockAlignment(fields, packed, align) - 1

SizeIsFoundAgain ==
    Built /\ T.varlen /\ Cardinality(Varying) = 1 /\ (packed \/ Varying = {Len(fields)}) =>
        \A n \in Chosen : \A total \in {TotalFor(n)} : \A ranges \in {FieldRanges(T, total)} :
            ~Lost(total) =>
            /\ ranges # None
            /\ Proper(ranges, total)
            /\ \A i \in Varying : IF packed THEN ranges[i][2] - ranges[i][1] <= n
                                  ELSE ranges[i][2] - ranges[i][1] >= n

(* encode_bitfield_storage_value: the fields of a group are written one    *)
(* after the other, lengths a second time, and none changes another.       *)
Read(data, info) == (Decode(data, info.endian) \div 2 ^ Shift(info)) % 2 ^ info.bits

BitfieldsKeepApart ==
    \A info \in {Info} : \A i, j \in DOMAIN fields :
        /\ i < j /\ info[i] # None /\ info[j] # None
        /\ \A k \in i .. j - 1 : info[k] # None /\ ~info[k].last
        => \A top \in {2 ^ info[i].bits - 1} :
           \A once \in {EncodeBits(EncodeBits(Zeros(info[i].unit), info[i], top), info[j], 1)} :
           \A again \in {EncodeBits(once, info[i], 1)} :
              /\ Read(once, info[i]) = top /\ Read(once, info[j]) = 1
              /\ Read(again, info[i]) = 1 /\ Read(again, info[j]) = 1
=============================================================================
