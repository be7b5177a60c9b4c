---------------------------- MODULE SampleCalls ----------------------------
(***************************************************************************)
(* Programs of two makers of resources, or of data that need more than a   *)
(* page, and a call that uses them, with arguments as generation makes     *)
(* them.                                                                   *)
(***************************************************************************)
EXTENDS Resources

CONSTANTS PageSize, Noise, RandomLengths, NumPages, FirstPage
Gen == INSTANCE Generation

Fd(optional) == ResourceType("fd", 4, 255, optional)
Byte1 == ConstType(1, {}, None, TRUE, "native", None)
InPtr(t) == PtrType(t, "in", FALSE)
OutPtrTo(t) == PtrType(t, "out", FALSE)
Struct(name, fields, names) == StructType(name, fields, names, FALSE, None, None)
Call(types, labels, ret) == [args |-> types, names |-> labels, ret |-> ret]
Len8(of) == LenType([at |-> "arg", name |-> of], <<>>, 8, "auto", 1, "native", None)

Open == Call(<<FilenameType, ConstType(4, {1}, None, FALSE, "native", None)>>, <<"file", "mode">>, Fd(FALSE))
Pipe == Call(<<OutPtrTo(ArrayType(Fd(FALSE), 2, 2))>>, <<"fds">>, None)
(* returns one and leaves any number more                                  *)
Recv == Call(<<OutPtrTo(ArrayType(Fd(FALSE), 0, 2)), Len8("fds")>>, <<"fds", "n">>, Fd(FALSE))
(* results behind two pointers, one of which may be null                   *)
Info == [Struct("info", <<Byte1, PtrType(Struct("pair", <<Fd(FALSE), Fd(FALSE)>>, <<"a", "b">>), "out", FALSE),
                          PtrType(Fd(FALSE), "out", TRUE)>>, <<"b", "p", "q">>) EXCEPT !.dirs = <<None, None, None>>]
Query == Call(<<InPtr(Info)>>, <<"info">>, None)
Deep == Call(<<InPtr(Struct("outer", <<PtrType(Struct("mid", <<Byte1, PtrType(Fd(FALSE), "out", FALSE)>>,
                                               <<"b", "r">>), "inout", FALSE)>>, <<"m">>))>>, <<"p">>, None)

(* more than a page: data before others, around a pointer, and at the end  *)
Long == BufferType(40, 40, "plain")
Byte7 == ConstType(1, {7}, None, FALSE, "native", None)
Write == Call(<<InPtr(Long), InPtr(Struct("msg", <<Byte7, InPtr(Struct("seven", <<Byte7, Byte7>>, <<"a", "b">>)), Long>>,
                                          <<"b", "p", "data">>)), InPtr(Long)>>, <<"a", "m", "z">>, None)

Use == Call(<<Fd(FALSE), InPtr(ArrayType(Struct("iov", <<InPtr(BufferType(2, 2, "plain")), Byte1>>, <<"base", "b">>), 1, 2)),
              BufferType(2, 2, "plain"), VmaType(1, 1, TRUE), ProcType(2, 10, 1), Fd(TRUE)>>,
            <<"fd", "v", "buf", "addr", "pid", "fd2">>, None)

RECURSIVE Generated(_, _)
Generated(desc, n) ==
    IF n = 0 THEN {<<>>}
    ELSE UNION {{Append(args, v) : v \in Gen!ArgValues(desc.args[n], desc, args)} :
                   args \in Generated(desc, n - 1)}
Finish(desc) == {Gen!Repaired(desc, args) : args \in Generated(desc, Len(desc.args))}

Ref(c, n) == [v |-> "ref", call |-> c, n |-> n]

(* Results are results of the calls before.                                *)
RefsTo(calls) ==
    UNION {{Ref(c, n) : n \in DOMAIN Outputs(calls[c].desc)} : c \in DOMAIN calls}
Bound(calls, args) ==
    LET refs == {i \in DOMAIN args : args[i].v = "ref"}
    IN  {[i \in DOMAIN args |-> IF i \in refs THEN f[i] ELSE args[i]] : f \in [refs -> RefsTo(calls)]}

Made(desc, finished) == {[desc |-> desc, args |-> args] : args \in finished[desc]}
Makers == {Open, Pipe, Recv, Query, Deep, Write}
Starts(made) == {<<a, b>> : a, b \in made}
ThenUsed(use, made) ==
    UNION {{Append(calls, [use EXCEPT !.args = bound]) :
               bound \in Bound(calls, use.args)} : calls \in Starts(made)}

(* Any two of the makers, and a use of what they made.                     *)
ProgramsOf(finished) ==
    UNION {ThenUsed(use, UNION {Made(d, finished) : d \in DOMAIN finished \ {use.desc}}) :
               use \in {u \in Made(Use, finished) : u.args[1].v = "ref"}}

SamplePrograms == ProgramsOf([d \in Makers \cup {Use} |-> Finish(d)])
=============================================================================
