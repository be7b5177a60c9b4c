--------------------------- MODULE SampleArgs ---------------------------
(***************************************************************************)
(* Syscalls whose arguments are generated, mutated, told as text and       *)
(* restored: all kinds of types and the ways they are put together, with   *)
(* lengths of each other.                                                  *)
(***************************************************************************)
EXTENDS Layout

Byte == ConstType(1, {}, None, TRUE, "native", None)
Short == ConstType(2, {3, 260}, None, FALSE, "big", None)
Bit(n) == ConstType(1, {}, <<1, 3>>, FALSE, "native", n)
Arg(name) == [at |-> "arg", name |-> name]
Current == [at |-> "current"]
Parent(n) == [at |-> "parent", hops |-> n]
Around(name) == [at |-> "type", name |-> name]
InlineLen(root, path, what) == LenType(root, path, 2, what, 1, "native", None)
ArgLen(name, path, what) == LenType(Arg(name), path, 8, what, 1, "native", None)
InPtr(t) == PtrType(t, "in", FALSE)
OutPtrTo(t) == PtrType(t, "out", FALSE)
Struct(name, fields, names) == StructType(name, fields, names, FALSE, None, None)
Packed(name, fields, names) == StructType(name, fields, names, TRUE, None, None)
CallWith(types, labels, attrs) ==
    [args |-> types, names |-> labels, ret |-> None, attrs |-> attrs]
Call(types, labels) == CallWith(types, labels, {})

Bytes02 == BufferType(0, 2, "plain")
Str == StringType({<<97>>, <<97, 98>>}, FALSE, None)
RawStr == StringType({<<97>>, <<97, 98>>}, TRUE, None)

(* A header with a length of what follows and of the whole, and a tail.    *)
Header == Struct("hdr", <<InlineLen(Current, <<"tail">>, "auto"), InlineLen(Current, <<>>, "bytes"),
                          Byte, ArrayType(Short, 0, 2)>>, <<"n", "all", "b", "tail">>)
(* The field that varies lies in the middle: its layout is recorded.       *)
Middle == Packed("mid", <<Byte, Bytes02, RawStr, InlineLen(Current, <<"data">>, "bytes"),
                         InlineLen(Current, <<"rest">>, "offset")>>,
                 <<"b", "data", "rest", "n", "off">>)
(* May be empty, and then its layout cannot be found from its size.        *)
Padded == StructType("pad", <<Bytes02>>, <<"data">>, TRUE, 4, None)
Flags == Struct("bits", <<Bit(3), LenType(Current, <<"tail">>, 1, "auto", 1, "native", 4), Bytes02>>,
               <<"flags", "n", "tail">>)
(* Lengths that reach out of a struct, and behind a pointer.               *)
Inner == Struct("inner", <<InlineLen(Parent(2), <<"data">>, "bytes"), InlineLen(Around("outer"), <<>>, "bytes")>>,
                <<"n", "all">>)
Outer == Struct("outer", <<Byte, Inner, BufferType(1, 2, "plain")>>, <<"b", "in", "data">>)
Iovec == Struct("iovec", <<InPtr(Bytes02), InlineLen(Current, <<"base">>, "bytes")>>, <<"base", "len">>)
Opt == Struct("opt", <<PtrType(Struct("s", <<Byte, Byte>>, <<"x", "y">>), "in", TRUE),
                       InlineLen(Current, <<"p">>, "bytes")>>, <<"p", "len">>)
Over == StructType("over", <<Byte, Byte, Short>>, <<"x", "y", "z">>, FALSE, None, 3)
Choose == UnionType("u", <<Short, Byte>>, <<"s", "b">>, FALSE)
ChooseSize == UnionType("v", <<Byte, ArrayType(Byte, 3, 3)>>, <<"b", "a">>, TRUE)

(* What has no value on this target, and what has none but may be left out *)
Gone == ConstType(2, {}, None, FALSE, "native", None)
MaybeGone == UnionType("w", <<Gone, Byte>>, <<"g", "b">>, FALSE)

ValueDescs == {
    Call(<<InPtr(ArrayType(Gone, 0, 1)), ArgLen("v", <<>>, "auto")>>, <<"v", "n">>),
    Call(<<InPtr(ArrayType(MaybeGone, 0, 2))>>, <<"v">>),
    Call(<<PtrType(Gone, "in", TRUE)>>, <<"p">>),
    CallWith(<<InPtr(Byte)>>, <<"b">>, {"disabled"}),
    CallWith(<<InPtr(BufferType(1, 2, "image"))>>, <<"img">>, {"no_generate", "builtin"}),
    CallWith(<<InPtr(Byte)>>, <<"b">>, {"fsck"}),
    Call(<<InPtr(BufferType(0, 3, "plain")), ArgLen("buf", <<>>, "auto")>>, <<"buf", "n">>),
    Call(<<ArgLen("arr", <<>>, "auto"), ArgLen("arr", <<>>, "bytes"), InPtr(ArrayType(Short, 0, 2))>>,
         <<"n", "size", "arr">>),
    Call(<<InPtr(Header), ArgLen("h", <<>>, "bytes"), ArgLen("h", <<"tail">>, "offset")>>, <<"h", "n", "off">>),
    Call(<<InPtr(Middle), ArgLen("m", <<"rest">>, "bytes")>>, <<"m", "n">>),
    Call(<<InPtr(Padded), ArgLen("a", <<"data">>, "bytes")>>, <<"a", "n">>),
    Call(<<InPtr(Flags)>>, <<"x">>),
    Call(<<InPtr(Outer), ArgLen("o", <<"data">>, "bytes")>>, <<"o", "n">>),
    Call(<<InPtr(ArrayType(Iovec, 0, 2)), ArgLen("v", <<>>, "auto")>>, <<"v", "n">>),
    Call(<<InPtr(Opt)>>, <<"p">>),
    Call(<<InPtr(ArrayType(Header, 0, 2)), ArgLen("v", <<>>, "auto")>>, <<"v", "n">>),
    Call(<<OutPtrTo(ArrayType(Short, 0, 2)), ArgLen("v", <<>>, "auto")>>, <<"v", "n">>),
    Call(<<OutPtrTo(BufferType(1, 2, "out")), InPtr(LenType(Arg("b"), <<>>, 2, "bytes", 1, "native", None))>>, <<"b", "n">>),
    Call(<<InPtr(BufferType(1, 3, "image")), ArgLen("img", <<>>, "auto")>>, <<"img", "n">>),
    Call(<<InPtr(Choose), InPtr(ChooseSize), ArgLen("v", <<>>, "bytes")>>, <<"u", "v", "n">>),
    Call(<<InPtr(Over), InPtr(RawStr), ArgLen("s", <<>>, "auto")>>, <<"o", "s", "n">>),
    Call(<<VmaType(1, 2, FALSE), ProcType(2, 10, 3), ResourceType("fd", 4, 7, FALSE), FilenameType>>,
         <<"addr", "pid", "fd", "file">>) }

Pair == Struct("pair", <<Byte, Short>>, <<"x", "y">>)
Either == UnionType("e", <<Short, Byte>>, <<"s", "b">>, FALSE)

(* Calls of arguments that a text tells well *)
TextDescs == {
    Call(<<VmaType(2, 3, TRUE), ResourceType("fd", 4, 7, FALSE)>>, <<"addr", "fd">>),
    Call(<<InPtr(Pair), OutPtrTo(ArrayType(Pair, 1, 2)), PtrType(Either, "in", TRUE)>>, <<"p", "q", "u">>),
    Call(<<InPtr(ArrayType(Str, 1, 1)), InPtr(ArrayType(Short, 1, 2)), InPtr(FilenameType)>>,
         <<"s", "a", "f">>),
    Call(<<InPtr(Str), InPtr(StringType({<<97>>}, FALSE, 3)), InPtr(ProcType(2, 10, 3))>>, <<"s", "t", "p">>),
    Call(<<OutPtrTo(ArrayType(Byte, 2, 2)), InPtr(BufferType(1, 2, "plain")),
           ArgLen("b", <<>>, "bytes")>>, <<"o", "b", "n">>) }

SampleDescs == ValueDescs \cup TextDescs
=============================================================================
