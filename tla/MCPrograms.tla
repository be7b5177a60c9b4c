----------------------------- MODULE MCPrograms -----------------------------
(***************************************************************************)
(* What the manager does to programs before it sends them, on small        *)
(* instances.  The parts do not share state; a behaviour is about one of   *)
(* them, part, and the variables of the others stay None:                  *)
(*   refs     references to results, under generation and mutation         *)
(*   choice   reachability, the table of choices, the next call            *)
(*   structs  the layout of structs                                        *)
(*   values   the values of arguments, and their text                      *)
(*   exec     the encoding for the executor, and the executor              *)
(*   words    numbers in that encoding                                     *)
(***************************************************************************)
EXTENDS ProgramRefs, Choice, Varint

CONSTANTS
    None, Noise, PageSize, SmallPageSize, MaxFields,
    CallDescs, CallPrograms   \* samples to start from

VARIABLES
    part,
    fields, packed, align, overlay,
    desc, args,
    call, arg, stream, nextPage, dataAddrs, nestedAddrs, resolved, nextCopyout, memory, results

refsVars == <<prog, draft, purpose, at, passes, old, origin>>
structsVars == <<fields, packed, align, overlay>>
valuesVars == <<desc, args>>
execVars == <<call, arg, stream, nextPage, dataAddrs, nestedAddrs, resolved, nextCopyout,
              memory, results>>
parts == <<pc, refsVars, choiceVars, structsVars, valuesVars, execVars, wordsVars>>

-----------------------------------------------------------------------------
(* refs: two kinds, sock deriving from fd, and three syscalls: one that    *)
(* makes a file descriptor, one that makes a socket from an optional       *)
(* descriptor, one that needs a socket, and close.  One of the programs    *)
(* read from the corpus uses a descriptor after it closed it.              *)
MCSyscalls == {"open", "socket", "send", "close"}
MCTerminal == {"close"}
MCKinds == {"fd", "sock"}
MCLineage == [k \in MCKinds |-> IF k = "sock" THEN {"fd", "sock"} ELSE {"fd"}]
MCTakes == [open |-> <<>>, socket |-> <<{"fd"}, {}>>, send |-> <<{"sock"}>>, close |-> <<{"fd"}>>]
MCOptional == [open |-> {}, socket |-> {1}, send |-> {}, close |-> {}]
MCGives == [open |-> <<"fd">>, socket |-> <<"sock">>, send |-> <<>>, close |-> <<>>]

To(n) == [call |-> n, result |-> 1]
UsesClosed ==
    << [sys |-> "open", args |-> <<>>],
       [sys |-> "close", args |-> <<To(1)>>],
       [sys |-> "socket", args |-> <<To(1), Plain>>] >>
MCGiven == {<<>>, UsesClosed}

Cases == INSTANCE SampleTables

Structs == INSTANCE SampleStructs

Args == INSTANCE SampleArgs
Told == INSTANCE ProgramText WITH
    RandomLengths <- {0, 3}, NumPages <- 16, FirstPage <- 4, ArenaPages <- 16

Calling == INSTANCE SampleCalls WITH
    PageSize <- SmallPageSize, RandomLengths <- {1}, NumPages <- 25, FirstPage <- 24
Exec == INSTANCE ExecFormat WITH
    PageSize <- SmallPageSize, DATA_OFFSET <- 1024

MCResourceKinds == Cases!SampleKinds
MCLineageOf == Cases!SampleLineage
MCTables == Cases!SampleDescTables
MCCorpora == Cases!SampleCorpora
MCSysTimeouts == Cases!SampleSysTimeouts
MCEdgeTimeouts == Cases!SampleEdgeTimeouts
MCCallDescs == Args!SampleDescs
MCCallPrograms == Calling!SamplePrograms

MCWordLists == {<<v, w>> : v \in Word, w \in {0, Half - 1, Half, 2 * Half - 1}}

ASSUME Told!DescsAssumption(CallDescs)

-----------------------------------------------------------------------------
Idle(v) == v = None
NoRefs ==
    /\ draft = <<>> /\ purpose = "new" /\ passes = 0 /\ old = <<>> /\ origin = <<>>
NoChoice ==
    /\ Idle(stage) /\ Idle(descs) /\ Idle(next) /\ enabled = <<>> /\ Idle(creatable)
    /\ Idle(progress) /\ Idle(corpus) /\ Idle(sysFailures) /\ Idle(edgeFailures) /\ Idle(calls) /\ Idle(avail)
NoStructs == Idle(fields) /\ Idle(packed) /\ Idle(align) /\ Idle(overlay)
NoValues == Idle(desc) /\ Idle(args)
NoExec ==
    /\ Idle(call) /\ Idle(arg) /\ Idle(stream) /\ Idle(nextPage) /\ Idle(dataAddrs)
    /\ Idle(nestedAddrs) /\ Idle(resolved) /\ Idle(nextCopyout) /\ Idle(memory) /\ Idle(results)
NoWords ==
    /\ words = <<>> /\ first = <<>> /\ rest = -1 /\ buf = <<>> /\ pos = 0 /\ group = 1
    /\ partial = 0 /\ read = <<>>
NoProgram == prog = <<>> /\ at = 1

MCInit ==
    \/ part = "refs" /\ Init /\ NoChoice /\ NoStructs /\ NoValues /\ NoExec /\ NoWords
    \/ /\ part = "choice" /\ ChoiceInit
       /\ pc = None /\ NoRefs /\ NoProgram /\ NoStructs /\ NoValues /\ NoExec /\ NoWords
    \/ /\ part = "structs" /\ Structs!Init
       /\ pc = None /\ NoRefs /\ NoProgram /\ NoChoice /\ NoValues /\ NoExec /\ NoWords
    \/ /\ part = "values" /\ Told!Init(CallDescs)
       /\ NoRefs /\ NoProgram /\ NoChoice /\ NoStructs /\ NoExec /\ NoWords
    \/ /\ part = "exec" /\ Exec!Init(CallPrograms)
       /\ NoRefs /\ NoChoice /\ NoStructs /\ NoValues /\ NoWords
    \/ /\ part = "words" /\ WordsInit
       /\ pc = None /\ NoRefs /\ NoProgram /\ NoChoice /\ NoStructs /\ NoValues /\ NoExec

MCNext ==
    /\ part' = part
    /\ \/ /\ part = "refs" /\ Next
          /\ UNCHANGED <<choiceVars, structsVars, valuesVars, execVars, wordsVars>>
       \/ /\ part = "choice" /\ ChoiceNext
          /\ UNCHANGED <<pc, refsVars, structsVars, valuesVars, execVars, wordsVars>>
       \/ /\ part = "structs" /\ Structs!Next
          /\ UNCHANGED <<pc, refsVars, choiceVars, valuesVars, execVars, wordsVars>>
       \/ /\ part = "values" /\ Told!Next
          /\ UNCHANGED <<refsVars, choiceVars, structsVars, execVars, wordsVars>>
       \/ /\ part = "exec" /\ Exec!Next
          /\ UNCHANGED <<draft, purpose, passes, old, origin, choiceVars, structsVars, valuesVars,
                         wordsVars>>
       \/ /\ part = "words" /\ WordsNext
          /\ UNCHANGED <<pc, refsVars, choiceVars, structsVars, valuesVars, execVars>>

MCSpec == MCInit /\ [][MCNext]_<<part, parts>>

-----------------------------------------------------------------------------
(* The fields of a struct lie apart from each other, to the bit, and       *)
(* inside of its size, which another function computes; arrays of it stay  *)
(* aligned; and the size of a field that varies can be found again from    *)
(* the size of the whole.                                                  *)
LayoutsAgree ==
    part = "structs" =>
        /\ Structs!FieldsAreApart /\ Structs!ElementsStayAligned
        /\ Structs!SizeIsFoundAgain /\ Structs!BitfieldsKeepApart

(* What generation makes piece by piece the validator accepts, although it *)
(* works out lengths, layouts and pointers again from the data (the debug  *)
(* assertion at the end of generate_with_choice_table_and_edge_bias), and  *)
(* arrays for output have room for what a result is read from.             *)
GeneratedIsValid == part = "values" => Told!GeneratedIsValid /\ Told!OutputsHaveRoom

(* A length given as an argument tells the length of what it names, after  *)
(* any generation and any number of mutations of the arguments, even where *)
(* an argument is refused for another reason.                              *)
LengthsAreTold == part = "values" => Told!LengthsAreTold

(* A replay from the text of a program loses the contents of data and      *)
(* nothing else, and is possible at all for programs whose data need not   *)
(* hold lengths or pointers.                                               *)
OnlyContentsAreLost ==
    part = "values" =>
        Told!OnlyContentsAreLost /\ Told!DotsAreTaken

(* When the executor makes a call, the memory at each address it is given  *)
(* holds the data of that argument, also behind pointers in the data, but  *)
(* for what other data of the same call overlap because one of the two are *)
(* longer than a page; the instance has such data.                         *)
KernelSeesTheData == part = "exec" => Exec!KernelSeesTheData

(* A call that uses a result of an earlier one is given what that call     *)
(* returned or left where its pointers lead, in data reserved for it; the  *)
(* default value if one of the pointers is null.                           *)
ResultsArriveWhereUsed == part = "exec" => Exec!ResultsArriveWhereUsed /\ Exec!CopyoutsAreReserved
=============================================================================
