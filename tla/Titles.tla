------------------------------- MODULE Titles -------------------------------
(***************************************************************************)
(* How a crash is named: detect_crash picks a line of the console as its   *)
(* title, normalize_summary takes out what changes from one occurrence to  *)
(* the next, and artifact_signature hashes what tells artifacts apart.     *)
(*                                                                         *)
(* A line is the marks in front of it, the needles of CRASH_PATTERNS that  *)
(* its text contains, and its text; a word is a sequence of characters.    *)
(***************************************************************************)
EXTENDS Integers, Sequences, FiniteSets

CONSTANTS
    NoTitle,
    Lines,                \* lines the guest may print
    Characters,           \* of the words of a title
    MinNumber, MinHex,    \* 3 decimal digits in a row, 8 hexadecimal ones
    MaxLines, MaxWord     \* bounds

Mark == [kind : {"level", "time", "task"}, value : Nat]
Line == [marks : Seq(Mark), needles : SUBSET STRING]

PartEnd == "0xff"   \* a byte that occurs in no text

ASSUME TitlesAssumption ==
    /\ Lines \subseteq Line /\ NoTitle \notin Line
    /\ PartEnd \notin Characters
    /\ MinNumber \in Nat /\ MinNumber > 1 /\ MinHex \in Nat /\ MinHex > 1
    /\ MaxLines \in Nat /\ MaxWord \in Nat

VARIABLES
    console,   \* the lines printed so far
    word       \* a word of a title

titlesVars == <<console, word>>

Largest(S) == CHOOSE x \in S : \A y \in S : y <= x
Smallest(S) == CHOOSE x \in S : \A y \in S : x <= y

-----------------------------------------------------------------------------
(* detect_crash.                                                           *)

Priority == [kasan |-> 100, ubsan |-> 100, kernel_panic |-> 100,
             bug_unable_to_handle |-> 95, bug_null_pointer |-> 95,
             general_protection_fault |-> 95, invalid_opcode |-> 95, divide_error |-> 95,
             bug_kfence |-> 92, bug_kcsan |-> 92, kfence |-> 90, kcsan |-> 90,
             bug_sleeping_function |-> 90, kernel_bug_at |-> 90, stack_protector |-> 90,
             warning_cpu |-> 85, bug_soft_lockup |-> 80, rcu_stalls |-> 80, task_hung |-> 80,
             bug |-> 70, oops |-> 60, rip |-> 20, call_trace |-> 10]

Excluded(needle) ==
    IF needle \in {"kasan", "kfence", "kcsan"} THEN {"initialized"} ELSE {}

(* strip_log_prefix: <3> and [  12.345] go, [ T123] does not.              *)
Passing(mark) == mark.kind \in {"level", "time"}

StrippedOnce(line) ==   \* mutant: one mark only
    IF line.marks # <<>> /\ Passing(line.marks[1])
    THEN [line EXCEPT !.marks = Tail(@)] ELSE line

Stripped(line) ==
    LET kept == {i \in DOMAIN line.marks : ~Passing(line.marks[i])}
        from == IF kept = {} THEN Len(line.marks) + 1 ELSE Smallest(kept)
    IN  [line EXCEPT !.marks = SubSeq(@, from, Len(@))]

Weight(line) ==
    LET found == {n \in DOMAIN Priority : n \in line.needles /\ Excluded(n) \cap line.needles = {}}
    IN  IF found = {} THEN 0 ELSE Largest({Priority[n] : n \in found})

(* The title is the line of the greatest priority, the first one of these. *)
Title(lines) ==
    LET best == Largest({Weight(lines[i]) : i \in DOMAIN lines} \cup {0})
    IN  IF best = 0 THEN NoTitle
        ELSE Stripped(lines[Smallest({i \in DOMAIN lines : Weight(lines[i]) = best})])

-----------------------------------------------------------------------------
(* normalize_summary, a word at a time.                                    *)

Digits == {"0", "1", "2", "3", "4", "5", "6", "7", "8", "9"}
HexDigits == Digits \cup {"a", "b", "c", "d", "e", "f"}

(* How many of the characters of w from i on are in S, in a row.           *)
RunLength(w, i, S) ==
    LET ends == {j \in i .. Len(w) : w[j] \notin S}
    IN  (IF ends = {} THEN Len(w) + 1 ELSE Smallest(ends)) - i

HexMark == <<"<", "h", "e", "x", ">">>
NumMark == <<"<", "n", "u", "m", ">">>
Prefix == <<"0", "x">>

Prefixed(w, i) == i + 2 <= Len(w) /\ w[i] = "0" /\ w[i + 1] = "x" /\ w[i + 2] \in HexDigits

(* The normal form from character i on, if rest has those of what follows. *)
NormalFrom(w, i, rest) ==
    LET numbers == RunLength(w, i, Digits)
        hexes == RunLength(w, i, HexDigits)
    IN  IF i > Len(w) THEN <<>>
        ELSE IF Prefixed(w, i) THEN Prefix \o HexMark \o rest[i + 2 + RunLength(w, i + 2, HexDigits)]
        ELSE IF numbers >= MinNumber THEN NumMark \o rest[i + numbers]
        ELSE IF hexes >= MinHex THEN HexMark \o rest[i + hexes]
        ELSE <<w[i]>> \o rest[i + 1]

Normalized(w) ==
    LET rest[i \in 1 .. Len(w) + 1] == NormalFrom(w, i, rest) IN rest[1]

-----------------------------------------------------------------------------
(* artifact_signature: what is hashed.  The byte 0xff ends each part.      *)
Ended(p) == Append(p, PartEnd)
Hashed(kind, name, shape, profile, context) ==
    Ended(<<kind>>) \o Ended(<<name>>) \o Ended(shape) \o Ended(profile) \o Ended(context)

(* crash_signature_program_context: a title that says nothing leaves it to *)
(* the program; the note "(fuzzing in progress, ...)" is no program.       *)
Vague == {"rip:", "call trace:", "oops:"}
ProgramText(program) == program   \* mutant: a note is taken for a program
ProgramContext(program) == IF program # <<>> /\ program[1] = "(" THEN <<>> ELSE program

CrashSignature(summary, shape, profile, program) ==
    Hashed("crash", summary, shape, profile,
           IF summary \in Vague THEN ProgramContext(program) ELSE <<>>)

(* timeout_signature_program_context                                       *)
TimeoutSignature(reason, shape, profile, program) ==
    Hashed("timeout", reason, shape, profile,
           IF shape = <<>> \/ profile \in {<<>>, <<"(none)">>}
           THEN ProgramContext(program) ELSE <<>>)

-----------------------------------------------------------------------------
TitlesInit == console = <<>> /\ word = <<>>

PrintLine(line) ==
    /\ word = <<>> /\ Len(console) < MaxLines
    /\ console' = Append(console, line)
    /\ UNCHANGED word

ReadCharacter(c) ==
    /\ console = <<>> /\ Len(word) < MaxWord
    /\ word' = Append(word, c)
    /\ UNCHANGED console

TitlesNext == (\E line \in Lines : PrintLine(line)) \/ (\E c \in Characters : ReadCharacter(c))

TitlesSpec == TitlesInit /\ [][TitlesNext]_titlesVars

-----------------------------------------------------------------------------
WeightOf(title) == IF title = NoTitle THEN 0 ELSE Weight(title)

(* A title that was found once stays until a line says more, and then is   *)
(* that line: looking again at a console that has grown never names a      *)
(* crash by a line that says no more than the first did.                   *)
TitlesSettle ==
    console # <<>> =>
        LET line == console[Len(console)]
            before == Title(SubSeq(console, 1, Len(console) - 1))
        IN  Title(console) = IF Weight(line) > WeightOf(before) THEN Stripped(line) ELSE before

Untimed(line) ==   \* as if printed at time 0
    [line EXCEPT !.marks = [k \in DOMAIN @ |-> IF Passing(@[k]) THEN [@[k] EXCEPT !.value = 0] ELSE @[k]]]

(* The title does not depend on the time at which the lines were printed,  *)
(* as long as the marks of time come first.                                *)
TimesDoNotMatter ==
    (\A i \in DOMAIN console : \A j, k \in DOMAIN console[i].marks :
        j < k /\ Passing(console[i].marks[k]) => Passing(console[i].marks[j]))
    => Title(console) = Title([i \in DOMAIN console |-> Untimed(console[i])])

(* A crash is reported if and only if some line reports one, and a banner  *)
(* of a sanitizer that starts up is none.                                  *)
BannersAreNoCrash ==
    (\A i \in DOMAIN console : "initialized" \in console[i].needles /\ console[i].needles \subseteq {"kasan", "initialized"})
    => Title(console) = NoTitle

(* Normalizing what is normal changes nothing: a stored summary and a      *)
(* title found later can be compared.                                      *)
NormalIsStable == Normalized(Normalized(word)) = Normalized(word)

(* Where a word has an address or a number as its only run of digits, its  *)
(* normal form does not depend on which: 0x and any number of digits, or   *)
(* at least three decimal digits behind no other digit.                    *)
ValuesDoNotMatter ==
    \A i, j \in DOMAIN word :
        LET value == SubSeq(word, i, j)
            Other(v) == SubSeq(word, 1, i - 1) \o v \o SubSeq(word, j + 1, Len(word))
        IN  /\ i <= j
            /\ i = 1 \/ word[i - 1] \notin HexDigits
            /\ j = Len(word) \/ word[j + 1] \notin HexDigits
            => /\ /\ i > 2 /\ word[i - 1] = "x" /\ word[i - 2] = "0"
                  /\ i > 3 => word[i - 3] \notin HexDigits \cup {"x"}
                  /\ \A k \in DOMAIN value : value[k] \in HexDigits
                  => Normalized(word) = Normalized(Other(<<"a">>))
               /\ /\ Len(value) >= MinNumber /\ \A k \in DOMAIN value : value[k] \in Digits
                  /\ ~(i > 2 /\ word[i - 1] = "x" /\ word[i - 2] = "0")
                  => Normalized(word) = Normalized(Other([k \in 1 .. MinNumber |-> "7"]))

(* Two ways to cut a text into shape and profile never give the same       *)
(* signature.                                                              *)
PartsAreToldApart ==
    \A i, j \in 0 .. Len(word) :
        LET Cut(k) == TimeoutSignature("hang", SubSeq(word, 1, k), SubSeq(word, k + 1, Len(word)), <<>>)
        IN  Cut(i) = Cut(j) => i = j

(* A note in place of a program never tells artifacts apart, whatever it   *)
(* counts; a program does where title, or shape and profile, say nothing.  *)
NotesAreNotPrograms ==
    word # <<>> =>
        LET c == word[1]
            shape == Tail(word)
        IN  \A summary \in Vague \cup {"bug"}, d \in Characters :
            /\ CrashSignature(summary, <<>>, <<>>, <<"(", c>>) = CrashSignature(summary, <<>>, <<>>, <<"(", d>>)
            /\ (CrashSignature(summary, shape, <<>>, <<c>>) = CrashSignature(summary, shape, <<>>, <<d>>))
                   <=> (summary \notin Vague \/ c = d)
            /\ (TimeoutSignature(summary, shape, <<"p">>, <<c>>) = TimeoutSignature(summary, shape, <<"p">>, <<d>>))
                   <=> (shape # <<>> \/ c = d)

(* A crash keeps its name: the title does not depend on the times printed  *)
(* with it nor on what is printed later and says no more; banners are      *)
(* none; its normal form, which signatures are made of, does not depend on *)
(* addresses and numbers; and what tells artifacts apart is never a note,  *)
(* nor where one part of it ends.                                          *)
TitlesAreStable ==
    /\ TitlesSettle /\ TimesDoNotMatter /\ BannersAreNoCrash
    /\ NormalIsStable /\ ValuesDoNotMatter
    /\ PartsAreToldApart /\ NotesAreNotPrograms
=============================================================================
