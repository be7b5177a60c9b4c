----------------------------- MODULE ProgramText -----------------------------
(***************************************************************************)
(* The text that is kept of a program, and the program a replay makes of   *)
(* it if there is no structured form next to it: a line for the call, a    *)
(* token for each argument.  Data are told by their length only.  The sets *)
(* below are empty where the code returns an error.                        *)
(***************************************************************************)
EXTENDS CallArgs

Token(is, n, m) == [is |-> is, n |-> n, m |-> m]
Ellipsis == Token("...", 0, 0)

(* describe_program and format_program_arg                                 *)
Told(value) ==
    CASE value.v = "const" -> Token("number", value.n, 0)
      [] value.v = "ref" -> Token("result", 0, 0)
      [] value.v = "bytes" -> Token(IF IsBuffer(value) THEN "buf" ELSE "obj",
                                    Len(value.data), Len(value.ptrs))
      [] value.v = "array" -> Token("arr", Len(value.data), Len(value.sizes))
      [] value.v = "filename" -> Token("name", value.len, 0)
      [] value.v = "vma" -> Token("mapping", value.page, value.pages)
      [] value.v = "null" -> Token("NULL", 0, 0)
      [] value.v = "outptr" -> Token("&out", 0, 0)

Text(values) == [i \in DOMAIN values |-> Told(values[i])]

-----------------------------------------------------------------------------
(* What three dots stand for.  Of several values it is the first one: each *)
(* member of a set may be that.                                            *)

Named(len) == [i \in 1 .. len |-> 97]   \* the text of a name

(* default_string_buffer and materialize_repro_string_bytes                *)
DefaultStrings(t) == {Materialized(s, t) : s \in IF t.values # {} THEN t.values ELSE {Named(5)}}

DefaultOfUnion(t) ==   \* default_union_buffer
    LET first == FixedSize(t.fields[1])
    IN  Zeros(IF t.varlen /\ first # None THEN first ELSE t.size)

(* default_buffer_for_inner                                                *)
RECURSIVE DefaultData(_)
DefaultData(t) ==
    CASE t.kind = "buffer" -> {Zeros(t.min)}
      [] t.kind = "proc" -> {Encode(t.size, t.start, t.endian)}
      [] t.kind = "string" -> DefaultStrings(t)
      [] t.kind = "void" -> {<<>>}
      [] t.kind = "struct" -> {Zeros(t.size)}
      [] t.kind = "union" -> {DefaultOfUnion(t)}
      [] t.kind = "array" -> {FlattenSeq([k \in 1 .. t.min |-> d]) : d \in DefaultData(t.inner)}
      [] t.kind = "filename" -> {Append(Named(5), 0)}
      [] t.kind = "vma" -> {Zeros(8)}
      [] t.kind \in {"const", "len", "resource"} -> {Zeros(t.size)}
      [] t.kind = "ptr" -> DefaultData(t.inner)

(* default_arg_value_for_type                                              *)
Default(t) ==
    CASE t.kind = "const" ->
            {Number(n) : n \in IF t.values # {} THEN t.values
                               ELSE {IF t.range # None THEN t.range[1] ELSE 0}}
      [] t.kind \in {"proc", "len"} -> {Number(0)}
      [] t.kind = "resource" -> {Number(t.default)}
      [] t.kind = "filename" -> {Filename(5)}
      [] t.kind \in {"string", "void", "buffer", "struct", "union", "array"} ->
            {Buffer(d) : d \in DefaultData(t)}
      [] t.kind = "vma" ->
            {IF t.optional THEN Null ELSE Mapping(FirstPage, Lesser(Largest({1, t.min}), t.max))}
      [] t.kind = "ptr" ->
            CASE t.optional -> {Null}
              [] ~t.optional /\ t.dir = "out" -> {OutPtr}
              [] OTHER -> {Buffer(d) : d \in DefaultData(t.inner)}

-----------------------------------------------------------------------------
(* Reading it back                                                         *)

ParsedAsNumbers(token, t) ==   \* mutant: what another call makes is the number zero
    CASE token.is \in {"number", "result"} -> {Number(token.n)}
      [] token.is = "buf" -> {Buffer(Zeros(token.n))}
      [] token.is = "name" -> {Filename(token.n)}
      [] token.is = "mapping" -> {Mapping(token.n, token.m)}
      [] OTHER -> {}

(* parse_program_arg_for_type: objects and arrays with pointers, and       *)
(* mappings where none belongs, do not parse as anything.                  *)
Parsed(token, t) ==
    CASE token.is = "..." -> Default(t)
      [] token.is = "NULL" -> {Null}
      [] token.is = "&out" -> {OutPtr}
      [] token.is = "result" -> {Result}
      [] token.is = "buf" -> {Buffer(Zeros(token.n))}
      [] token.is = "name" ->
            {IF t.kind = "string" THEN Buffer(Materialized(Named(token.n), t)) ELSE Filename(token.n)}
      [] token.is = "mapping" -> IF t.kind = "vma" THEN {Mapping(token.n, token.m)} ELSE {}
      [] token.is = "number" -> {Number(token.n)}
      [] token.is \in {"obj", "arr"} -> {}

(* parse_program_args: three dots may stand for all of the arguments.      *)
ParsedArgs(text, types) ==
    CASE text = <<Ellipsis>> -> Product([i \in DOMAIN types |-> Default(types[i])])
      [] text # <<Ellipsis>> /\ Len(text) # Len(types) -> {}
      [] OTHER -> Product([i \in DOMAIN types |-> Parsed(text[i], types[i])])

(* restore_program, of what the text parses as, or of the arguments that   *)
(* were kept                                                               *)
Restored(candidates, d) == {values \in candidates : Valid(d, values)}

-----------------------------------------------------------------------------
(* Data that are valid whatever they hold, if they end in zero             *)
RECURSIVE Indifferent(_)
Indifferent(t) ==
    CASE t.kind \in {"const", "buffer", "string", "filename", "void", "resource", "proc", "vma"} -> TRUE
      [] t.kind = "array" -> FixedSize(t.inner) # None /\ Indifferent(t.inner)
      [] t.kind = "struct" -> ~t.varlen /\ \A i \in DOMAIN t.fields : Indifferent(t.fields[i])
      [] t.kind = "union" -> ~t.varlen /\ Indifferent(t.fields[1])
      [] t.kind \in {"len", "ptr"} -> FALSE

Simple(t, value) ==
    /\ value.v # "array"
    /\ value.v = "bytes" => IsBuffer(value) /\ Indifferent(Pointed(t))

(* A replay from text loses the contents of data and nothing else: where a *)
(* program is restored at all, every number, result, name, mapping, NULL   *)
(* and the length of all data are those of the program that was run.  And  *)
(* where its data need not hold lengths or pointers, it is not the program *)
(* that was kept alone that can be restored.                               *)
OnlyContentsAreLost ==
    pc # "generate" =>
        /\ \A values \in ParsedArgs(Text(args), desc.args) : \A i \in DOMAIN args :
              Told(values[i]) = Told(args[i]) /\ (args[i].v # "bytes" => values[i] = args[i])
        /\ (\A i \in DOMAIN args : Simple(desc.args[i], args[i])) =>
              \/ args \in ParsedArgs(Text(args), desc.args)
              \/ Restored({args} \cup ParsedArgs(Text(args), desc.args), desc) # {args}

(* Three dots stand for data of the size the type has, also in the arrays  *)
(* whose elements are made one by one, so that a call whose data need not  *)
(* hold lengths or pointers can be written that way.                       *)
DotsAreTaken ==
    pc = "generate" /\ args = <<>> =>
        ((\A i \in DOMAIN desc.args :
             desc.args[i].kind # "len" /\ Indifferent(Pointed(desc.args[i]))) =>
            /\ ParsedArgs(<<Ellipsis>>, desc.args) # {}
            /\ Restored(ParsedArgs(<<Ellipsis>>, desc.args), desc) = ParsedArgs(<<Ellipsis>>, desc.args))
=============================================================================
