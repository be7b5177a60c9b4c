------------------------------ MODULE CallArgs ------------------------------
(***************************************************************************)
(* The arguments of one call: generated one after the other, lengths among *)
(* them repaired at the end, and mutated afterwards.                       *)
(***************************************************************************)
EXTENDS Generation, Validation, Resources

DescsAssumption(descs) ==
    \A d \in descs : Len(d.args) = Len(d.names) /\ d.args # <<>> /\ ValidDesc(d)

VARIABLES
    desc,            \* of the syscall: types and names of arguments, result, attributes
    args,            \* those generated so far
    pc               \* "generate", "generated" or "mutated"

vars == <<desc, args, pc>>

(* syscall_generation_limitation                                           *)
Available(d) == ~Unavailable(d, \A i \in DOMAIN d.args : Possible(d.args[i]))

(* Only syscalls that generation can handle are ever chosen.               *)
Init(descs) == desc \in {d \in descs : Available(d)} /\ args = <<>> /\ pc = "generate"

(* generate_args: one argument, which sees those before it                 *)
GenerateArg ==
    /\ pc = "generate" /\ Len(args) < Len(desc.args)
    /\ \E v \in ArgValues(desc.args[Len(args) + 1], desc, args) : args' = Append(args, v)
    /\ UNCHANGED <<desc, pc>>

Repair ==
    /\ pc = "generate" /\ Len(args) = Len(desc.args)
    /\ args' = Repaired(desc, args) /\ pc' = "generated"
    /\ UNCHANGED desc

(* mutate_args: new arguments for the same call                            *)
MutateArgs ==
    /\ pc # "generate"
    /\ args' = <<>> /\ pc' = "generate"
    /\ UNCHANGED desc

IntegerMutants(t) == IF t.kind = "proc" THEN ProcValues(t) ELSE Noise

(* mutate_integer: a number, unless it is a length, or a mapping           *)
MutateInteger(i) ==
    LET t == desc.args[i] IN
    /\ pc # "generate" /\ t.kind # "len"
    /\ \/ /\ args[i].v = "const"
          /\ \E n \in IntegerMutants(t) : args' = [args EXCEPT ![i] = Number(n)]
       \/ /\ args[i].v # "const" /\ t.kind = "vma"
          /\ \E v \in Mappings(t) \cup (IF t.optional THEN {Null} ELSE {}) :
                args' = [args EXCEPT ![i] = v]
    /\ pc' = "mutated" /\ UNCHANGED desc

Overwritten(data) ==
    UNION {{Splice(data, at, run) : run \in UNION {Fills(n) : n \in 1 .. Lesser(8, Len(data) - at)}} :
              at \in 0 .. Len(data) - 1}

BytesMutants(data) == Overwritten(data)

IsBuffer(value) == value.v = "bytes" /\ value.ptrs = <<>> /\ value.layouts = <<>>
Image(t) == t.kind = "ptr" /\ t.inner.kind = "buffer" /\ t.inner.dir = "image"

(* mutate_buffer: bytes are overwritten in place; a compressed image is    *)
(* changed as a whole, to any size.                                        *)
MutateBuffer(i) ==
    LET t == desc.args[i] IN
    /\ pc # "generate" /\ ~(t.kind = "ptr" /\ t.inner.kind = "len")
    /\ IsBuffer(args[i]) /\ args[i].data # <<>>
    /\ \E data \in BytesMutants(args[i].data) : args' = [args EXCEPT ![i] = Buffer(data)]
    /\ pc' = "mutated" /\ UNCHANGED desc

MutateImageUnrepaired(i) ==   \* mutant: its length is not looked at again
    /\ pc # "generate" /\ Image(desc.args[i])
    /\ IsBuffer(args[i]) /\ args[i].data # <<>>
    /\ \E n \in desc.args[i].inner.min .. desc.args[i].inner.max : \E data \in Fills(n) :
          args' = [args EXCEPT ![i] = Buffer(data)]
    /\ pc' = "mutated" /\ UNCHANGED desc

(* try_mutate_special_buffer_arg                                           *)
MutateImage(i) ==
    /\ pc # "generate" /\ Image(desc.args[i])
    /\ IsBuffer(args[i]) /\ args[i].data # <<>>
    /\ \E n \in desc.args[i].inner.min .. desc.args[i].inner.max : \E data \in Fills(n) :
          args' = Repaired(desc, [args EXCEPT ![i] = Buffer(data)])
    /\ pc' = "mutated" /\ UNCHANGED desc

Next ==
    \/ GenerateArg \/ Repair \/ MutateArgs
    \/ \E i \in DOMAIN args : MutateInteger(i) \/ MutateBuffer(i) \/ MutateImage(i)

Spec(descs) == Init(descs) /\ [][Next]_vars

-----------------------------------------------------------------------------
(* What generation makes the validator accepts: the debug assertion at the *)
(* end of generate_with_choice_table_and_edge_bias.  Generation keeps      *)
(* lengths, layouts and pointers in step with data it makes piece by       *)
(* piece; the validator works all of it out again from the data.           *)
GeneratedIsValid == pc = "generated" => Valid(desc, args)

(* A length given as an argument tells the length of what it names, after  *)
(* any generation and any number of mutations of the arguments, even where *)
(* an argument is refused for another reason.                              *)
LengthsAreTold ==
    pc # "generate" =>
        \A i \in DOMAIN args : desc.args[i].kind = "len" =>
            ValidLength(desc.args[i], args[i].n, desc, args)

(* An output array that may hold an element has room for one when it is    *)
(* generated, so that the kernel has something to write to.                *)
OutputsHaveRoom ==
    pc = "generated" =>
        \A i \in DOMAIN args :
            LET t == desc.args[i] IN
            t.kind = "ptr" /\ t.dir = "out" /\ t.inner.kind = "array" /\ args[i].v = "bytes" =>
                (t.inner.max = 0 \/ t.inner.inner.kind = "void" \/ args[i].data # <<>>)
=============================================================================
