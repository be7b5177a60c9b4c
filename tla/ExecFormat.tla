----------------------------- MODULE ExecFormat -----------------------------
(***************************************************************************)
(* The encoding of a program for the executor: where the data of arguments *)
(* goes in the data segment of the test process, what is copied in before  *)
(* a call, and which results are copied out after it for later calls.  The *)
(* executor, and the memory it works on, are the reader of this.           *)
(*                                                                         *)
(* Addresses in instructions are relative to DATA_OFFSET.                  *)
(***************************************************************************)
EXTENDS Lengths, Resources, TLC

CONSTANT DATA_OFFSET

VARIABLES
    prog,            \* sequence of calls: descriptor and arguments
    pc,              \* "data", "call", "results", "eof", "run"
    call, arg,       \* what the encoder is at
    stream,          \* instructions written
    nextPage,        \* next_data_page
    dataAddrs,       \* data_addrs: of arguments of this call
    nestedAddrs,     \* nested_data_addrs, by argument and pointers on the way
    resolved,        \* resolved_results: index of the copyout of a result
    nextCopyout,     \* next_copyout_idx
    at,              \* instructions executed
    memory,          \* bytes that were written, by address
    results          \* what the executor copied out: of which call, from where

encoder == <<prog, call, arg, stream, nextPage, dataAddrs, nestedAddrs, resolved, nextCopyout>>
executor == <<at, memory, results>>
vars == <<encoder, pc, executor>>

Ref(c, n) == [v |-> "ref", call |-> c, n |-> n]

(* used_results                                                            *)
UsedResults ==
    {prog[c].args[i] : <<c, i>> \in
        {ci \in UNION {{c} \X DOMAIN prog[c].args : c \in DOMAIN prog} :
            prog[ci[1]].args[ci[2]].v = "ref"}}

Desc == prog[call].desc
Type == Desc.args[arg]
Value == prog[call].args[arg]

Empty == <<>>   \* a map without entries

Init(programs) ==
    /\ prog \in programs /\ pc = "data" /\ call = 1 /\ arg = 1
    /\ stream = <<>> /\ nextPage = 0 /\ dataAddrs = Empty /\ nestedAddrs = Empty
    /\ resolved = Empty /\ nextCopyout = 0
    /\ at = 0 /\ memory = Empty /\ results = Empty

-----------------------------------------------------------------------------
(* Copying data in                                                         *)

PageAddr(page) == page * PageSize
CopyIn(addr, data) == [op |-> "copyin", addr |-> addr, data |-> data]
NameBytes(len) == Append([i \in 1 .. len |-> 97], 0)

SamePage(page) == page   \* mutant: a page is used more than once
NextFree(page) == page + 1

LastPointer(chain, offset) == <<offset>>   \* mutant: only the last pointer counts
Through(chain, offset) == Append(chain, offset)

(* What is written for a value at an address, when page is the next that   *)
(* is free: emit_arg_value_copyin, and for data with pointers in it        *)
(* emit_composite_copyin.  Data behind a pointer comes first.              *)
RECURSIVE Emitted(_, _, _, _, _)
WithPointers(addr, value, page, root, chain) ==
    LET Point(acc, p) ==
            LET target == PageAddr(acc.page)
                path == Through(chain, p.offset)
                inner == Emitted(target, p.value, NextFree(acc.page), root, path)
                Set(n) == Splice(acc.data, p.offset, Encode(8, n, "native"))
            IN  IF p.value = Null THEN [acc EXCEPT !.data = Set(0)]
                ELSE [data |-> Set(DATA_OFFSET + target), page |-> inner.page,
                      addrs |-> (<<root, path>> :> target) @@ inner.addrs @@ acc.addrs,
                      instrs |-> acc.instrs \o inner.instrs]
        all == FoldLeft(Point, [data |-> value.data, page |-> page, addrs |-> Empty, instrs |-> <<>>],
                        value.ptrs)
    IN  [page |-> all.page, addrs |-> all.addrs,
         instrs |-> Append(all.instrs, CopyIn(addr, all.data))]

Emitted(addr, value, page, root, chain) ==
    LET Copied(data) == [page |-> page, addrs |-> Empty, instrs |-> <<CopyIn(addr, data)>>]
    IN  CASE HasData(value) -> WithPointers(addr, value, page, root, chain)
          [] value.v = "filename" -> Copied(NameBytes(value.len))
          [] value.v \in {"null", "outptr"} -> [page |-> page, addrs |-> Empty, instrs |-> <<>>]

(* Arguments whose value lies in the data segment.                         *)
InSegment(t, value) ==
    \/ t.kind = "ptr" /\ value # Null
    \/ t.kind = "filename"
    \/ t.kind \in {"array", "string", "buffer"} /\ HasData(value)

(* The first pass over the arguments of a call.                            *)
NextArg ==
    IF arg < Len(Desc.args) THEN arg' = arg + 1 /\ UNCHANGED pc ELSE arg' = 1 /\ pc' = "call"

Place ==
    /\ pc = "data" /\ InSegment(Type, Value)
    /\ dataAddrs' = (arg :> PageAddr(nextPage)) @@ dataAddrs
    /\ \E e \in {Emitted(PageAddr(nextPage), Value, NextFree(nextPage), arg, <<>>)} :
          /\ nextPage' = e.page
          /\ nestedAddrs' = e.addrs @@ nestedAddrs
          /\ stream' = stream \o e.instrs
    /\ NextArg
    /\ UNCHANGED <<prog, call, resolved, nextCopyout, executor>>

PlaceNothing ==
    /\ pc = "data" /\ ~InSegment(Type, Value)
    /\ NextArg
    /\ UNCHANGED <<prog, call, stream, nextPage, dataAddrs, nestedAddrs, resolved, nextCopyout, executor>>

-----------------------------------------------------------------------------
(* The call                                                                *)

Const(size, n) == [a |-> "const", size |-> size, n |-> n, stride |-> 0]
Encoded(t, value, i, known) ==
    CASE t.kind \in {"const", "len", "resource"} /\ value.v = "const" -> Const(t.size, value.n)
      [] t.kind = "proc" /\ value.v = "const" ->
            [Const(t.size, t.start + value.n) EXCEPT !.stride = t.per]
      [] t.kind = "vma" /\ value.v = "vma" -> [a |-> "addr", addr |-> PageAddr(value.page)]
      [] t.kind = "resource" /\ value.v = "ref" ->
            IF value \in DOMAIN known
            THEN [a |-> "result", size |-> t.size, index |-> known[value], default |-> t.default]
            ELSE Const(t.size, t.default)
      [] t.kind = "resource" /\ value.v = "null" -> Const(t.size, t.default)
      [] InSegment(t, value) -> [a |-> "addr", addr |-> dataAddrs[i]]
      [] OTHER -> Const(8, 0)

EmitCall ==
    /\ pc = "call"
    /\ LET returned == Ref(call, 1)
           kept == Desc.ret # None /\ returned \in UsedResults
           known == IF kept THEN (returned :> nextCopyout) @@ resolved ELSE resolved
       IN  /\ resolved' = known
           /\ nextCopyout' = nextCopyout + (IF kept THEN 1 ELSE 0)
           /\ stream' = Append(stream,
                  [op |-> "call", ret |-> IF kept THEN nextCopyout ELSE None,
                   args |-> [i \in DOMAIN Desc.args |->
                                Encoded(Desc.args[i], prog[call].args[i], i, known)]])
    /\ pc' = "results"
    /\ UNCHANGED <<prog, call, arg, nextPage, dataAddrs, nestedAddrs, executor>>

(* Where a result is in memory, or None if a pointer to it is null.        *)
BaseAddr(output) ==
    IF output.chain = <<>>
    THEN IF output.arg \in DOMAIN dataAddrs THEN dataAddrs[output.arg] ELSE None
    ELSE IF <<output.arg, output.chain>> \in DOMAIN nestedAddrs
         THEN nestedAddrs[<<output.arg, output.chain>>] ELSE None

(* The results in memory that a later call uses, one after the other.      *)
Wanted(outputs) ==
    SelectSeq([n \in DOMAIN outputs |-> n],
              LAMBDA n : /\ Ref(call, n) \in UsedResults /\ outputs[n].arg # None
                         /\ BaseAddr(outputs[n]) # None)

Copyout(output, index) ==
    [op |-> "copyout", index |-> index, addr |-> BaseAddr(output) + output.offset, size |-> output.size]

EmitCopyouts ==
    /\ pc = "results"
    /\ \E outputs \in {Outputs(Desc)} : \E used \in {Wanted(outputs)} :
          /\ stream' = stream \o
                [k \in DOMAIN used |-> Copyout(outputs[used[k]], nextCopyout + k - 1)]
          /\ resolved' = [r \in {Ref(call, used[k]) : k \in DOMAIN used} |->
                             nextCopyout - 1 + (CHOOSE k \in DOMAIN used : r = Ref(call, used[k]))]
                         @@ resolved
          /\ nextCopyout' = nextCopyout + Len(used)
    /\ IF call < Len(prog) THEN call' = call + 1 /\ pc' = "data" ELSE call' = call /\ pc' = "eof"
    /\ dataAddrs' = Empty /\ nestedAddrs' = Empty
    /\ UNCHANGED <<prog, arg, nextPage, executor>>

EmitEof ==
    /\ pc = "eof"
    /\ stream' = Append(stream, [op |-> "eof"]) /\ pc' = "run"
    /\ UNCHANGED <<prog, call, arg, nextPage, dataAddrs, nestedAddrs, resolved, nextCopyout, executor>>

-----------------------------------------------------------------------------
(* The executor                                                            *)

Instr == stream[at + 1]
CallsDone == Cardinality({i \in 1 .. at : stream[i].op = "call"})

Execute ==
    /\ pc = "run" /\ Instr.op # "eof"
    /\ at' = at + 1
    /\ memory' = IF Instr.op # "copyin" THEN memory
                 ELSE [a \in Instr.addr .. Instr.addr + Len(Instr.data) - 1 |->
                          Instr.data[a - Instr.addr + 1]] @@ memory
    /\ results' = CASE Instr.op = "call" /\ Instr.ret # None ->
                            (Instr.ret :> <<CallsDone + 1, None>>) @@ results
                    [] Instr.op = "copyout" -> (Instr.index :> <<CallsDone, Instr.addr>>) @@ results
                    [] OTHER -> results
    /\ UNCHANGED <<encoder, pc>>

Next == Place \/ PlaceNothing \/ EmitCall \/ EmitCopyouts \/ EmitEof \/ Execute

Spec(programs) == Init(programs) /\ [][Next]_vars

-----------------------------------------------------------------------------
Byte(a) == IF a \in DOMAIN memory THEN memory[a] ELSE 0
PointerIn(addr) == Decode([i \in 1 .. 8 |-> Byte(addr + i - 1)], "native")

(* What was copied in for the call that is made next.                      *)
CopiedIn == {i \in 1 .. at : stream[i].op = "copyin" /\ \A j \in i .. at : stream[j].op # "call"}

(* The code gives data more than a page if they need it, but not the pages *)
(* after it: byte a of the data at addr is lost if other data, copied in   *)
(* later for the same call, come to lie on it, and one of the two reach    *)
(* beyond their page.                                                      *)
Overrun(a, addr) ==
    \E i, j \in CopiedIn :
        /\ i < j /\ stream[i].addr = addr
        /\ a - stream[j].addr \in 0 .. Len(stream[j].data) - 1
        /\ a >= addr + PageSize \/ a >= stream[j].addr + PageSize

(* The memory from addr on is what a value says, also behind its pointers, *)
(* but for what is overrun.                                                *)
RECURSIVE Holds(_, _)
Holds(addr, value) ==
    CASE HasData(value) ->
            LET Slot(p) == value.ptrs[p].offset .. value.ptrs[p].offset + 7
            IN  /\ \A i \in DOMAIN value.data :
                      \/ Byte(addr + i - 1) = value.data[i]
                      \/ Overrun(addr + i - 1, addr)
                      \/ \E p \in DOMAIN value.ptrs : i - 1 \in Slot(p)
                /\ \A p \in DOMAIN value.ptrs :
                      LET target == PointerIn(addr + value.ptrs[p].offset)
                      IN  \/ \E o \in Slot(p) : Overrun(addr + o, addr)
                          \/ value.ptrs[p].value = Null /\ target = 0
                          \/ /\ value.ptrs[p].value # Null /\ target >= DATA_OFFSET
                             /\ Holds(target - DATA_OFFSET, value.ptrs[p].value)
      [] value.v = "filename" ->
            \A i \in 1 .. value.len + 1 :
                Byte(addr + i - 1) = NameBytes(value.len)[i] \/ Overrun(addr + i - 1, addr)
      [] OTHER -> TRUE

(* Where the kernel puts an output of call c: it follows the pointers that *)
(* it finds in memory, from the argument on; None if one is null.          *)
RECURSIVE Followed(_, _)
Followed(addr, chain) ==
    IF chain = <<>> THEN addr
    ELSE LET target == PointerIn(addr + chain[1])
         IN  IF target = 0 THEN None ELSE Followed(target - DATA_OFFSET, Tail(chain))

CallInstr(c) == CHOOSE i \in DOMAIN stream :
    stream[i].op = "call" /\ Cardinality({j \in 1 .. i : stream[j].op = "call"}) = c

Destination(c, output) ==
    LET a == stream[CallInstr(c)].args[output.arg]
        base == IF a.a = "addr" THEN Followed(a.addr, output.chain) ELSE None
    IN  IF base = None THEN None ELSE base + output.offset

AtCall == pc = "run" /\ Instr.op = "call"

(* When a call is made, the memory at each address it is given holds the   *)
(* data of that argument, also behind pointers in the data, whatever was   *)
(* copied in before or since: the calls before it leave it alone, and so   *)
(* do its other arguments as long as nothing reaches beyond a page.  Where *)
(* data are longer, which the code does not look at, just what overlaps is *)
(* lost (Overrun).                                                         *)
KernelSeesTheData ==
    AtCall =>
        LET c == prog[CallsDone + 1] IN
        \A i \in DOMAIN c.args :
            InSegment(c.desc.args[i], c.args[i]) =>
                /\ Instr.args[i].a = "addr"
                /\ Holds(Instr.args[i].addr, c.args[i])

(* A call that uses a result of an earlier one is given what that call     *)
(* returned, or what the kernel left where the pointers of that call lead; *)
(* the default value if one of them is null.  The executor has copied it   *)
(* out by then, and nothing else to the same place.                        *)
ArrivesFrom(output, from, r, e, t) ==
    IF output.arg # None /\ from = None THEN e.a = "const" /\ e.n = t.default
    ELSE e.a = "result" /\ e.index \in DOMAIN results /\ results[e.index] = <<r.call, from>>

Arrives(output, r, e, t) ==
    ArrivesFrom(output, IF output.arg = None THEN None ELSE Destination(r.call, output), r, e, t)

ResultsArriveWhereUsed ==
    AtCall =>
        LET c == prog[CallsDone + 1] IN
        \A i \in DOMAIN c.args :
            c.args[i].v = "ref" =>
                Arrives(Outputs(prog[c.args[i].call].desc)[c.args[i].n], c.args[i], Instr.args[i],
                        c.desc.args[i])

(* What is copied out for a pointer to output lies in data that generation *)
(* reserved for it: the element of an array that resource_outputs counts   *)
(* on is one that there is.                                                *)
CopyoutsAreReserved ==
    pc = "run" /\ Instr.op = "copyout" =>
        LET c == prog[CallsDone]
            r == CHOOSE r \in DOMAIN resolved : resolved[r] = Instr.index
        IN  c.desc.args[Outputs(c.desc)[r.n].arg].dir = "out" =>
                \E i \in 1 .. at :
                    /\ stream[i].op = "copyin" /\ stream[i].addr <= Instr.addr
                    /\ Instr.addr + Instr.size <= stream[i].addr + Len(stream[i].data)
=============================================================================
