--------------------------- MODULE ArtifactsProofs ---------------------------
(***************************************************************************)
(* Whatever artifacts there are, how often they are saved and where saves  *)
(* are cut short: the catalog leads to files, what it prefers is whole, of *)
(* one occurrence and never changes, and occurrences are counted.          *)
(*                                                                         *)
(* The steps left of a save are in the order of the code, which tells at   *)
(* each of them what is on disk already: the texts before the metadata,    *)
(* the metadata before the copies, the copies before the entry.            *)
(***************************************************************************)
EXTENDS Artifacts, Titles, WellFoundedInduction, TLAPS

StepSet == [op : {"write", "metadata", "copy", "catalog"}, name : Names \cup {"metadata", "catalog"}]

TypeOK ==
    /\ texts \in [Artifacts -> [Names -> File \cup {Absent}]]
    /\ first \in [Artifacts -> [Names -> File \cup {Absent}]]
    /\ metadata \in [Artifacts -> Metadata \cup {Absent}]
    /\ catalog \in [Artifacts -> CatalogEntry \cup {Absent}]
    /\ save \in Save \cup {Absent} /\ todo \in Seq(StepSet) /\ open \in BOOLEAN
    /\ saves \in [Artifacts -> Nat] /\ stops \in Nat /\ broken \in [Artifacts -> BOOLEAN]

(* A save goes through stages; repro is the one text that is written after *)
(* the metadata.                                                           *)
Stage(step) ==
    CASE step.op = "write" -> IF step.name = "repro" THEN 3 ELSE 1
      [] step.op = "metadata" -> 2
      [] step.op = "copy" -> 4
      [] step.op = "catalog" -> 5

InOrder(s) ==
    \A i, j \in DOMAIN s : i < j =>
        Stage(s[i]) <= Stage(s[j]) /\ (Stage(s[i]) = 2 => Stage(s[j]) > 2)

(* The names to which op is still to be done.                              *)
Left(s, op) == {s[i].name : i \in {j \in DOMAIN s : s[j].op = op}}

(* What every save of an artifact writes, and every replay needs.          *)
Always(a) ==
    {"summary", "program", "repro"} \cup (IF a \in Detailed THEN {"shape", "profile"} ELSE {})

Kept(a, n, f) == f[a][n] = Version(save.number, TRUE)

(* The save in hand: what is not left to be done is on disk.               *)
SaveSound(a) ==
    /\ save.number = saves[a] /\ saves[a] > 0 /\ (a \in CrashArtifacts => save.log)
    /\ InOrder(todo)
    /\ Left(todo, "write") \subseteq NamesSaved /\ Left(todo, "copy") \subseteq Names
    /\ \A n \in NamesSaved : Kept(a, n, texts) \/ n \in Left(todo, "write")
    /\ \A n \in Names :
          \/ n \in Left(todo, "copy")
          \/ /\ Left(todo, "metadata") = {}
             /\ save.occurrences = 1 /\ n \in Always(a) => Kept(a, n, first)
    /\ save.occurrences = 0 => Left(todo, "metadata") # {} /\ ~(Step("metadata") /\ open)
    /\ save.occurrences # 0 =>
          /\ \/ Left(todo, "metadata") = {} /\ metadata[a].whole
             \/ Step("metadata") /\ open
          /\ metadata[a] # Absent /\ metadata[a].occurrences = save.occurrences

SaveInv == IF save = Absent THEN ~open ELSE SaveSound(save.artifact)

Saving(a) == save # Absent /\ save.artifact = a
Counting(a) == Saving(a) /\ save.occurrences = 0

(* The first occurrence was copied from end to end.                        *)
Complete(a) ==
    \A n \in Always(a) :
        first[a][n] # Absent /\ first[a][n].whole /\ first[a][n].save = first[a]["summary"].save

(* The metadata count no save that they do not know of, and tell that the  *)
(* copies of the first occurrence are complete.                            *)
MetaInv(a) == metadata[a] # Absent =>
    /\ metadata[a].occurrences > 0
    /\ metadata[a].occurrences <= saves[a]
    /\ Counting(a) => metadata[a].occurrences < saves[a]
    /\ texts[a]["summary"] # Absent /\ texts[a]["program"] # Absent
    /\ ~broken[a] /\ ~FirstUnderway(a) =>
          /\ Complete(a)
          /\ metadata[a].whole \/ (Saving(a) /\ open /\ Step("metadata"))

(* Nothing is written but this.                                            *)
TextInv(a) == \A n \in Names : texts[a][n] # Absent => n \in Always(a) \cup {"log"}

(* Once the first occurrence is saved the catalog prefers its copies.      *)
CatInv(a) == catalog[a] # Absent =>
    /\ metadata[a] # Absent
    /\ DOMAIN catalog[a].preferred \subseteq Always(a) \cup {"log"}
    /\ \A n \in DOMAIN catalog[a].preferred : LedTo(a, n) # Absent
    /\ ~broken[a] /\ ~FirstUnderway(a) =>
          \A n \in DOMAIN catalog[a].preferred \ {"log"} : catalog[a].preferred[n] = "first"

(* As long as every save comes to its end none is missed.                  *)
CountInv(a) == stops = 0 =>
    /\ ~Saving(a) /\ saves[a] > 0 =>
          /\ metadata[a] = [whole |-> TRUE, occurrences |-> saves[a]]
          /\ catalog[a] # Absent /\ catalog[a].occurrences = saves[a]
    /\ Counting(a) /\ saves[a] > 1 => metadata[a] = [whole |-> TRUE, occurrences |-> saves[a] - 1]
    /\ Saving(a) /\ save.occurrences # 0 => save.occurrences = saves[a]

-----------------------------------------------------------------------------
(* What is left to be done, when its first step is.                        *)

(* Positions in what is left after the first step.                         *)
LEMMA TailOf ==
    ASSUME NEW T, NEW s \in Seq(T), s # <<>>
    PROVE  /\ Tail(s) \in Seq(T) /\ s[1] \in T /\ 1 \in DOMAIN s
           /\ DOMAIN s = 1 .. Len(s) /\ Len(s) \in Nat /\ DOMAIN Tail(s) = 1 .. (Len(s) - 1)
           /\ \A i \in DOMAIN Tail(s) : i + 1 \in DOMAIN s /\ Tail(s)[i] = s[i + 1]
           /\ \A i \in DOMAIN s : i = 1 \/ (i - 1 \in DOMAIN Tail(s) /\ Tail(s)[i - 1] = s[i])
OBVIOUS

(* A step that is done takes one name off what is left of its kind.        *)
LEMMA LeftOfTail ==
    ASSUME NEW s \in Seq(StepSet), s # <<>>, NEW op
    PROVE  Left(s, op) = Left(Tail(s), op) \cup (IF s[1].op = op THEN {s[1].name} ELSE {})
<1>1. Left(Tail(s), op) \subseteq Left(s, op)
  <2> SUFFICES ASSUME NEW i \in DOMAIN Tail(s), Tail(s)[i].op = op
               PROVE  Tail(s)[i].name \in Left(s, op)
    BY DEF Left
  <2>1. i + 1 \in DOMAIN s /\ s[i + 1].op = op /\ s[i + 1].name = Tail(s)[i].name
    BY TailOf
  <2> QED
    BY <2>1 DEF Left
<1>2. s[1].op = op => s[1].name \in Left(s, op)
  BY TailOf DEF Left
<1>3. ASSUME NEW i \in DOMAIN s, s[i].op = op
      PROVE  s[i].name \in Left(Tail(s), op) \cup (IF s[1].op = op THEN {s[1].name} ELSE {})
  <2>1. CASE i = 1
    BY <1>3, <2>1
  <2>2. CASE i # 1
    <3>1. i - 1 \in DOMAIN Tail(s) /\ Tail(s)[i - 1] = s[i]
      BY <2>2, TailOf
    <3>2. s[i].name \in Left(Tail(s), op)
      BY <1>3, <3>1 DEF Left
    <3> QED
      BY <3>2
  <2> QED
    BY <2>1, <2>2
<1>4. Left(s, op) \subseteq Left(Tail(s), op) \cup (IF s[1].op = op THEN {s[1].name} ELSE {})
  BY <1>3 DEF Left
<1> QED
  BY <1>1, <1>2, <1>4

(* The stages of a save.                                                   *)
LEMMA Stages ==
    ASSUME NEW step \in StepSet
    PROVE  /\ Stage(step) \in 1 .. 5
           /\ Stage(step) = 1 <=> step.op = "write" /\ step.name # "repro"
           /\ Stage(step) = 2 <=> step.op = "metadata"
           /\ Stage(step) = 3 <=> step.op = "write" /\ step.name = "repro"
           /\ Stage(step) = 4 <=> step.op = "copy"
           /\ Stage(step) = 5 <=> step.op = "catalog"
<1>1. step.op \in {"write", "metadata", "copy", "catalog"}
  BY DEF StepSet
<1>2. /\ step.op = "write" => Stage(step) = (IF step.name = "repro" THEN 3 ELSE 1)
      /\ step.op = "metadata" => Stage(step) = 2
      /\ step.op = "copy" => Stage(step) = 4
      /\ step.op = "catalog" => Stage(step) = 5
  BY DEF Stage
<1> QED
  BY <1>1, <1>2

(* The rest of an ordered list of steps is ordered.                        *)
LEMMA OrderOfTail ==
    ASSUME NEW s \in Seq(StepSet), s # <<>>, InOrder(s)
    PROVE  InOrder(Tail(s))
<1> SUFFICES ASSUME NEW i \in DOMAIN Tail(s), NEW j \in DOMAIN Tail(s), i < j
             PROVE  /\ Stage(Tail(s)[i]) <= Stage(Tail(s)[j])
                    /\ Stage(Tail(s)[i]) = 2 => Stage(Tail(s)[j]) > 2
  BY DEF InOrder
<1>1. /\ i + 1 \in DOMAIN s /\ Tail(s)[i] = s[i + 1] /\ i + 1 < j + 1
      /\ j + 1 \in DOMAIN s /\ Tail(s)[j] = s[j + 1]
  BY TailOf
<1> QED
  BY <1>1 DEF InOrder

(* The order tells from the step at hand what is behind.                   *)
LEMMA Behind ==
    ASSUME NEW s \in Seq(StepSet), s # <<>>, InOrder(s)
    PROVE  /\ s[1].op \in {"copy", "catalog"} => Left(s, "write") = {} /\ Left(s, "metadata") = {}
           /\ s[1].op = "catalog" => Left(s, "copy") = {}
           /\ s[1].op = "metadata" =>
                 Left(s, "write") \subseteq {"repro"} /\ Left(Tail(s), "metadata") = {}
<1>1. s[1] \in StepSet /\ 1 \in DOMAIN s /\ DOMAIN s = 1 .. Len(s) /\ Len(s) \in Nat
  BY TailOf
<1>2. \A i \in DOMAIN s : s[i] \in StepSet
  OBVIOUS
<1>3. ASSUME NEW i \in DOMAIN s
      PROVE  Stage(s[1]) <= Stage(s[i]) /\ (i # 1 /\ Stage(s[1]) = 2 => Stage(s[i]) > 2)
  <2>1. CASE i = 1
    BY <2>1, <1>1, Stages
  <2>2. CASE i # 1
    <3>1. 1 < i
      BY <1>1, <2>2
    <3> QED
      BY <1>1, <3>1 DEF InOrder
  <2> QED
    BY <2>1, <2>2
<1>4. ASSUME s[1].op \in {"copy", "catalog"}
      PROVE  Left(s, "write") = {} /\ Left(s, "metadata") = {}
  <2>1. \A i \in DOMAIN s : Stage(s[i]) >= 4
    BY <1>1, <1>2, <1>3, <1>4, Stages
  <2>2. \A i \in DOMAIN s : s[i].op # "write" /\ s[i].op # "metadata"
    BY <1>2, <2>1, Stages
  <2> QED
    BY <2>2 DEF Left
<1>5. ASSUME s[1].op = "catalog" PROVE Left(s, "copy") = {}
  <2>1. \A i \in DOMAIN s : Stage(s[i]) >= 5
    BY <1>1, <1>2, <1>3, <1>5, Stages
  <2>2. \A i \in DOMAIN s : s[i].op # "copy"
    BY <1>2, <2>1, Stages
  <2> QED
    BY <2>2 DEF Left
<1>6. ASSUME s[1].op = "metadata"
      PROVE  Left(s, "write") \subseteq {"repro"} /\ Left(Tail(s), "metadata") = {}
  <2>1. Stage(s[1]) = 2
    BY <1>1, <1>6, Stages
  <2>2. \A i \in DOMAIN s : Stage(s[i]) >= 2
    BY <1>3, <2>1
  <2>3. \A i \in DOMAIN s : s[i].op = "write" => s[i].name = "repro"
    BY <1>2, <2>2, Stages
  <2>4. ASSUME NEW i \in DOMAIN Tail(s) PROVE Tail(s)[i].op # "metadata"
    <3>1. i + 1 \in DOMAIN s /\ Tail(s)[i] = s[i + 1] /\ i + 1 # 1
      BY TailOf
    <3>2. Stage(s[i + 1]) > 2
      BY <1>3, <2>1, <3>1
    <3> QED
      BY <1>2, <3>1, <3>2, Stages
  <2> QED
    BY <2>3, <2>4 DEF Left
<1> QED
  BY <1>4, <1>5, <1>6

-----------------------------------------------------------------------------
(* What a save consists of.                                                *)

(* Positions in two sequences joined.                                      *)
LEMMA Joined ==
    ASSUME NEW T, NEW s \in Seq(T), NEW u \in Seq(T)
    PROVE  /\ s \o u \in Seq(T) /\ DOMAIN s = 1 .. Len(s) /\ DOMAIN u = 1 .. Len(u)
           /\ Len(s) \in Nat /\ Len(u) \in Nat
           /\ \A i \in DOMAIN s : i \in DOMAIN (s \o u) /\ (s \o u)[i] = s[i]
           /\ \A i \in DOMAIN u : Len(s) + i \in DOMAIN (s \o u) /\ (s \o u)[Len(s) + i] = u[i]
           /\ \A i \in DOMAIN (s \o u) :
                 \/ i \in DOMAIN s
                 \/ i > Len(s) /\ i - Len(s) \in DOMAIN u /\ (s \o u)[i] = u[i - Len(s)]
OBVIOUS

(* What is left of two lists of steps is what is left of each.             *)
LEMMA LeftJoined ==
    ASSUME NEW s \in Seq(StepSet), NEW u \in Seq(StepSet), NEW op
    PROVE  Left(s \o u, op) = Left(s, op) \cup Left(u, op)
<1> DEFINE j == s \o u
<1>1. /\ \A i \in DOMAIN s : i \in DOMAIN j /\ j[i] = s[i]
      /\ \A i \in DOMAIN u : Len(s) + i \in DOMAIN j /\ j[Len(s) + i] = u[i]
      /\ \A i \in DOMAIN j :
            \/ i \in DOMAIN s
            \/ i > Len(s) /\ i - Len(s) \in DOMAIN u /\ j[i] = u[i - Len(s)]
  BY Joined
<1> HIDE DEF j
<1>2. Left(j, op) \subseteq Left(s, op) \cup Left(u, op)
  <2> SUFFICES ASSUME NEW i \in DOMAIN j, j[i].op = op
               PROVE  j[i].name \in Left(s, op) \cup Left(u, op)
    BY DEF Left
  <2>1. CASE i \in DOMAIN s
    BY <1>1, <2>1 DEF Left
  <2>2. CASE i - Len(s) \in DOMAIN u /\ j[i] = u[i - Len(s)]
    BY <2>2 DEF Left
  <2> QED
    BY <1>1, <2>1, <2>2
<1>3. Left(s, op) \subseteq Left(j, op)
  BY <1>1 DEF Left
<1>4. Left(u, op) \subseteq Left(j, op)
  <2> SUFFICES ASSUME NEW i \in DOMAIN u, u[i].op = op PROVE u[i].name \in Left(j, op)
    BY DEF Left
  <2>1. Len(s) + i \in DOMAIN j /\ j[Len(s) + i] = u[i]
    BY <1>1
  <2> QED
    BY <2>1 DEF Left
<1> QED
  BY <1>2, <1>3, <1>4 DEF j

(* Steps of the stages lo to hi, in order.                                 *)
Within(s, lo, hi) ==
    s \in Seq(StepSet) /\ InOrder(s) /\ \A i \in DOMAIN s : lo <= Stage(s[i]) /\ Stage(s[i]) <= hi

(* A list goes on in order with one of later stages.                       *)
LEMMA OrderJoined ==
    ASSUME NEW a \in Nat, NEW b \in Nat, NEW c \in Nat, NEW d \in Nat,
           NEW s, NEW u, Within(s, a, b), Within(u, c, d),
           a <= b, b <= c, c <= d, b = 2 => b < c
    PROVE  Within(s \o u, a, d)
<1> DEFINE j == s \o u
<1>1. /\ j \in Seq(StepSet) /\ DOMAIN s = 1 .. Len(s) /\ Len(s) \in Nat
      /\ \A i \in DOMAIN s : i \in DOMAIN j /\ j[i] = s[i]
      /\ \A i \in DOMAIN j :
            \/ i \in DOMAIN s
            \/ i > Len(s) /\ i - Len(s) \in DOMAIN u /\ j[i] = u[i - Len(s)]
  <2>1. s \in Seq(StepSet) /\ u \in Seq(StepSet)
    BY DEF Within
  <2> QED
    BY <2>1, Joined
<1>2. DOMAIN j \subseteq Nat /\ DOMAIN u \subseteq Nat
  BY <1>1 DEF Within
<1>3. \A st \in StepSet : Stage(st) \in Nat
  BY Stages
<1>4. /\ \A i \in DOMAIN s : s[i] \in StepSet /\ a <= Stage(s[i]) /\ Stage(s[i]) <= b
      /\ \A i \in DOMAIN u : u[i] \in StepSet /\ c <= Stage(u[i]) /\ Stage(u[i]) <= d
  BY DEF Within
<1> HIDE DEF j
<1>5. ASSUME NEW i \in DOMAIN j
      PROVE  Stage(j[i]) \in Nat /\ a <= Stage(j[i]) /\ Stage(j[i]) <= d
  <2>1. CASE i \in DOMAIN s
    BY <1>1, <1>3, <1>4, <2>1
  <2>2. CASE i - Len(s) \in DOMAIN u /\ j[i] = u[i - Len(s)]
    BY <1>3, <1>4, <2>2
  <2> QED
    BY <1>1, <2>1, <2>2
<1>6. ASSUME NEW i \in DOMAIN j, NEW k \in DOMAIN j, i < k
      PROVE  Stage(j[i]) <= Stage(j[k]) /\ (Stage(j[i]) = 2 => Stage(j[k]) > 2)
  <2>1. CASE i \in DOMAIN s /\ k \in DOMAIN s
    BY <1>1, <1>6, <2>1 DEF Within, InOrder
  <2>2. CASE i \in DOMAIN s /\ k - Len(s) \in DOMAIN u /\ j[k] = u[k - Len(s)]
    <3>1. /\ Stage(j[i]) \in Nat /\ Stage(j[i]) <= b
          /\ Stage(j[k]) \in Nat /\ c <= Stage(j[k])
      BY <1>1, <1>3, <1>4, <2>2
    <3> QED
      BY <3>1
  <2>3. CASE i > Len(s) /\ i - Len(s) \in DOMAIN u /\ j[i] = u[i - Len(s)]
    <3>1. k > Len(s)
      BY <1>1, <1>2, <1>6, <2>3
    <3>2. k - Len(s) \in DOMAIN u /\ j[k] = u[k - Len(s)]
      BY <1>1, <3>1
    <3>3. i - Len(s) < k - Len(s)
      BY <1>1, <1>2, <1>6
    <3> QED
      BY <2>3, <3>2, <3>3 DEF Within, InOrder
  <2> QED
    BY <1>1, <2>1, <2>2, <2>3
<1> QED
  BY <1>1, <1>5, <1>6 DEF Within, InOrder, j

(* To do something with names is a step for each, and no other.            *)
LEMMA DoIs ==
    ASSUME NEW names \in Seq(Names), NEW op \in {"write", "copy"}
    PROVE  /\ Do(op, names) \in Seq(StepSet) /\ DOMAIN Do(op, names) = DOMAIN names
           /\ \A i \in DOMAIN names : Do(op, names)[i] = [op |-> op, name |-> names[i]]
           /\ Left(Do(op, names), op) = ToSet(names)
           /\ \A other : other # op => Left(Do(op, names), other) = {}
<1> DEFINE d == Do(op, names)
<1>1. DOMAIN names = 1 .. Len(names) /\ Len(names) \in Nat /\ \A i \in DOMAIN names : names[i] \in Names
  OBVIOUS
<1>2. DOMAIN d = DOMAIN names /\ \A i \in DOMAIN names : d[i] = [op |-> op, name |-> names[i]]
  BY DEF Do
<1>3. \A i \in DOMAIN names : d[i] \in StepSet /\ d[i].op = op /\ d[i].name = names[i]
  BY <1>1, <1>2 DEF StepSet
<1>4. d = [i \in 1 .. Len(names) |-> d[i]]
  BY <1>1 DEF Do
<1> HIDE DEF d
<1>5. d \in Seq(StepSet)
  BY <1>1, <1>3, <1>4
<1>6. Left(d, op) = {names[i] : i \in DOMAIN names}
  BY <1>2, <1>3 DEF Left
<1>7. \A other : other # op => Left(d, other) = {}
  BY <1>2, <1>3 DEF Left
<1> QED
  BY <1>2, <1>5, <1>6, <1>7 DEF d, ToSet

(* The names of two lists.                                                 *)
LEMMA NamesJoined ==
    ASSUME NEW T, NEW s \in Seq(T), NEW u \in Seq(T)
    PROVE  ToSet(s \o u) = ToSet(s) \cup ToSet(u)
<1> DEFINE j == s \o u
<1>1. /\ \A i \in DOMAIN s : i \in DOMAIN j /\ j[i] = s[i]
      /\ \A i \in DOMAIN u : Len(s) + i \in DOMAIN j /\ j[Len(s) + i] = u[i]
      /\ \A i \in DOMAIN j :
            \/ i \in DOMAIN s
            \/ i > Len(s) /\ i - Len(s) \in DOMAIN u /\ j[i] = u[i - Len(s)]
  BY Joined
<1> HIDE DEF j
<1>2. ASSUME NEW i \in DOMAIN j PROVE j[i] \in ToSet(s) \cup ToSet(u)
  BY <1>1 DEF ToSet
<1>3. \A i \in DOMAIN s : s[i] \in ToSet(j)
  BY <1>1 DEF ToSet
<1>4. ASSUME NEW i \in DOMAIN u PROVE u[i] \in ToSet(j)
  <2>1. Len(s) + i \in DOMAIN j /\ j[Len(s) + i] = u[i]
    BY <1>1
  <2> QED
    BY <2>1 DEF ToSet
<1>5. ToSet(j) \subseteq ToSet(s) \cup ToSet(u)
  BY <1>2 DEF ToSet
<1>6. ToSet(s) \subseteq ToSet(j) /\ ToSet(u) \subseteq ToSet(j)
  BY <1>3, <1>4 DEF ToSet
<1> QED
  BY <1>5, <1>6 DEF j

(* What a save writes, as NamesSaved has it of the save in hand.           *)
Need(a, log) == {"repro"} \cup ToSet(Written(a, log))

(* The texts of a save: what a replay needs, always the same.              *)
LEMMA WrittenIs ==
    ASSUME ArtifactsAssumption, NEW a \in Artifacts, NEW log \in BOOLEAN, a \in CrashArtifacts => log
    PROVE  /\ Written(a, log) \in Seq(Names \ {"repro"})
           /\ {"summary", "program"} \subseteq ToSet(Written(a, log))
           /\ Always(a) \subseteq Need(a, log) /\ Need(a, log) \subseteq Always(a) \cup {"log"}
           /\ Need(a, log) \subseteq Names /\ Always(a) \subseteq Names
<1> DEFINE T == Names \ {"repro"}
           d == Details(a)
           l == IF log THEN <<"log">> ELSE <<>>
           D == IF a \in Detailed THEN {"shape", "profile"} ELSE {}
           L == IF log THEN {"log"} ELSE {}
<1>1. d \in Seq(T) /\ ToSet(d) = D
  <2>1. CASE a \in Detailed
    <3>1. d = <<"shape", "profile">>
      BY <2>1 DEF Details
    <3>2. ToSet(<<"shape", "profile">>) = {"shape", "profile"}
      BY DEF ToSet
    <3>3. <<"shape", "profile">> \in Seq(T)
      BY DEF Names
    <3> QED
      BY <2>1, <3>1, <3>2, <3>3
  <2>2. CASE a \notin Detailed
    <3>1. d = <<>>
      BY <2>2 DEF Details
    <3>2. ToSet(<<>>) = {} /\ <<>> \in Seq(T)
      BY DEF ToSet
    <3> QED
      BY <2>2, <3>1, <3>2
  <2> QED
    BY <2>1, <2>2
<1>2. l \in Seq(T) /\ ToSet(l) = L
  <2>1. <<"log">> \in Seq(T) /\ <<>> \in Seq(T)
    BY DEF Names
  <2>2. ToSet(<<"log">>) = {"log"} /\ ToSet(<<>>) = {}
    BY DEF ToSet
  <2> QED
    BY <2>1, <2>2
<1>3. /\ <<"log", "summary", "program">> \in Seq(T) /\ <<"summary", "program">> \in Seq(T)
      /\ ToSet(<<"log", "summary", "program">>) = {"log", "summary", "program"}
      /\ ToSet(<<"summary", "program">>) = {"summary", "program"}
  BY DEF Names, ToSet
<1>4. Written(a, log) = IF a \in CrashArtifacts THEN <<"log", "summary", "program">> \o d
                        ELSE (<<"summary", "program">> \o d) \o l
  BY DEF Written
<1>5. L \subseteq {"log"}
  OBVIOUS
<1>6. Always(a) = {"summary", "program", "repro"} \cup D /\ D \subseteq {"shape", "profile"}
  BY DEF Always
<1> DEFINE both == <<"summary", "program">>
           all == <<"log", "summary", "program">>
<1>9. /\ all \in Seq(T) /\ both \in Seq(T) /\ ToSet(all) = {"log", "summary", "program"}
      /\ ToSet(both) = {"summary", "program"}
  BY <1>3
<1>10. Written(a, log) = IF a \in CrashArtifacts THEN all \o d ELSE (both \o d) \o l
  BY <1>4
<1> HIDE DEF d, l, L, D, T, both, all
<1>7. CASE a \in CrashArtifacts
  <2>1. Written(a, log) = all \o d
    BY <1>10, <1>7
  <2>2. Written(a, log) \in Seq(T)
    BY <1>1, <1>9, <2>1
  <2>4. ToSet(all \o d) = ToSet(all) \cup ToSet(d)
    BY <1>1, <1>9, NamesJoined
  <2>3. ToSet(Written(a, log)) = {"log", "summary", "program"} \cup D
    BY <1>1, <1>9, <2>1, <2>4
  <2> QED
    BY <1>6, <2>2, <2>3 DEF Need, Names, T
<1>8. CASE a \notin CrashArtifacts
  <2>1. Written(a, log) = (both \o d) \o l
    BY <1>10, <1>8
  <2>2. both \o d \in Seq(T)
    BY <1>1, <1>9
  <2>3. ToSet(both \o d) = ToSet(both) \cup ToSet(d)
    BY <1>1, <1>9, NamesJoined
  <2>4. Written(a, log) \in Seq(T)
    BY <1>2, <2>1, <2>2
  <2>5. ToSet(Written(a, log)) = {"summary", "program"} \cup D \cup L
    <3> DEFINE some == both \o d
    <3>1. some \in Seq(T) /\ ToSet(some) = {"summary", "program"} \cup D
      BY <1>1, <1>9, <2>2, <2>3
    <3> HIDE DEF some
    <3>2. ToSet(some \o l) = ToSet(some) \cup ToSet(l)
      BY <1>2, <3>1, NamesJoined
    <3> QED
      BY <1>2, <2>1, <3>1, <3>2 DEF some
  <2> QED
    BY <1>5, <1>6, <2>4, <2>5 DEF Need, Names, T
<1> QED
  BY <1>7, <1>8

(* The steps of a save: in order, and everything there is is copied.       *)
LEMMA StepsAre ==
    ASSUME ArtifactsAssumption, NEW a \in Artifacts, NEW log \in BOOLEAN, a \in CrashArtifacts => log
    PROVE  /\ Steps(a, log) \in Seq(StepSet) /\ InOrder(Steps(a, log))
           /\ Left(Steps(a, log), "write") = Need(a, log)
           /\ Left(Steps(a, log), "metadata") # {}
           /\ Left(Steps(a, log), "copy") = Names
<1> DEFINE w == Do("write", Written(a, log))
           m == <<[op |-> "metadata", name |-> "metadata"]>>
           r == Do("write", <<"repro">>)
           c == Do("copy", Copied(a))
           k == <<[op |-> "catalog", name |-> "catalog"]>>
<1>1. Steps(a, log) = (((w \o m) \o r) \o c) \o k
  BY DEF Steps
<1>2. /\ Within(w, 1, 1) /\ Left(w, "write") = ToSet(Written(a, log))
      /\ Left(w, "metadata") = {} /\ Left(w, "copy") = {}
  <2> DEFINE W == Written(a, log)
  <2>1. W \in Seq(Names \ {"repro"})
    BY WrittenIs
  <2>2. W \in Seq(Names) /\ \A i \in DOMAIN W : W[i] # "repro"
    BY <2>1
  <2> HIDE DEF W
  <2>3. /\ Do("write", W) \in Seq(StepSet) /\ DOMAIN Do("write", W) = DOMAIN W
        /\ \A i \in DOMAIN W : Do("write", W)[i] = [op |-> "write", name |-> W[i]]
        /\ Left(Do("write", W), "write") = ToSet(W)
        /\ Left(Do("write", W), "metadata") = {} /\ Left(Do("write", W), "copy") = {}
    BY <2>2, DoIs
  <2>4. ASSUME NEW i \in DOMAIN W PROVE Stage(Do("write", W)[i]) = 1
    <3>1. Do("write", W)[i] = [op |-> "write", name |-> W[i]] /\ W[i] \in Names /\ W[i] # "repro"
      BY <2>2, <2>3
    <3>2. /\ Do("write", W)[i] \in StepSet /\ Do("write", W)[i].op = "write"
          /\ Do("write", W)[i].name # "repro"
      BY <3>1 DEF StepSet
    <3> QED
      BY <3>2, Stages
  <2> QED
    BY <2>3, <2>4 DEF Within, InOrder, W
<1>3. /\ Within(m, 2, 2) /\ Left(m, "write") = {} /\ Left(m, "copy") = {}
      /\ Left(m, "metadata") = {"metadata"}
  <2> DEFINE x == [op |-> "metadata", name |-> "metadata"]
  <2>1. x \in StepSet /\ x.op = "metadata" /\ x.name = "metadata"
    BY DEF StepSet
  <2>2. Stage(x) = 2
    BY <2>1, Stages
  <2>3. m = <<x>>
    OBVIOUS
  <2> HIDE DEF x
  <2>4. <<x>> \in Seq(StepSet) /\ DOMAIN <<x>> = {1} /\ <<x>>[1] = x
    BY <2>1
  <2> QED
    BY <2>1, <2>2, <2>3, <2>4 DEF Within, InOrder, Left
<1>4. /\ Within(r, 3, 3) /\ Left(r, "write") = {"repro"}
      /\ Left(r, "metadata") = {} /\ Left(r, "copy") = {}
  <2> DEFINE R == <<"repro">>
  <2>1. R \in Seq(Names) /\ DOMAIN R = {1} /\ R[1] = "repro" /\ ToSet(R) = {"repro"}
    BY DEF Names, ToSet
  <2> HIDE DEF R
  <2>2. /\ Do("write", R) \in Seq(StepSet) /\ DOMAIN Do("write", R) = DOMAIN R
        /\ \A i \in DOMAIN R : Do("write", R)[i] = [op |-> "write", name |-> R[i]]
        /\ Left(Do("write", R), "write") = ToSet(R)
        /\ Left(Do("write", R), "metadata") = {} /\ Left(Do("write", R), "copy") = {}
    BY <2>1, DoIs
  <2>3. \A i \in DOMAIN R : Stage(Do("write", R)[i]) = 3
    BY <2>1, <2>2 DEF Stage
  <2> QED
    BY <2>1, <2>2, <2>3 DEF Within, InOrder, R
<1>5. /\ Within(c, 4, 4) /\ Left(c, "copy") = Names
      /\ Left(c, "metadata") = {} /\ Left(c, "write") = {}
  <2> DEFINE C == Copied(a)
  <2>1. C \in Seq(Names) /\ ToSet(C) = Names
    <3>1. CASE a \in CrashArtifacts
      <4>1. C = <<"log", "summary", "program", "shape", "profile", "repro">>
        BY <3>1 DEF Copied
      <4>2. ToSet(<<"log", "summary", "program", "shape", "profile", "repro">>) = Names
        BY DEF ToSet, Names
      <4> QED
        BY <4>1, <4>2 DEF Names
    <3>2. CASE a \notin CrashArtifacts
      <4>1. C = <<"summary", "program", "shape", "profile", "log", "repro">>
        BY <3>2 DEF Copied
      <4>2. ToSet(<<"summary", "program", "shape", "profile", "log", "repro">>) = Names
        BY DEF ToSet, Names
      <4> QED
        BY <4>1, <4>2 DEF Names
    <3> QED
      BY <3>1, <3>2
  <2> HIDE DEF C
  <2>2. /\ Do("copy", C) \in Seq(StepSet) /\ DOMAIN Do("copy", C) = DOMAIN C
        /\ \A i \in DOMAIN C : Do("copy", C)[i] = [op |-> "copy", name |-> C[i]]
        /\ Left(Do("copy", C), "copy") = ToSet(C)
        /\ Left(Do("copy", C), "metadata") = {} /\ Left(Do("copy", C), "write") = {}
    BY <2>1, DoIs
  <2>3. \A i \in DOMAIN C : Stage(Do("copy", C)[i]) = 4
    <3> SUFFICES ASSUME NEW i \in DOMAIN C PROVE Stage(Do("copy", C)[i]) = 4
      OBVIOUS
    <3>1. Do("copy", C)[i] = [op |-> "copy", name |-> C[i]] /\ C[i] \in Names
      BY <2>1, <2>2
    <3>2. Do("copy", C)[i] \in StepSet /\ Do("copy", C)[i].op = "copy"
      BY <3>1 DEF StepSet
    <3> QED
      BY <3>2, Stages
  <2> QED
    BY <2>1, <2>2, <2>3 DEF Within, InOrder, C
<1>6. /\ Within(k, 5, 5) /\ Left(k, "write") = {} /\ Left(k, "copy") = {}
      /\ Left(k, "metadata") = {}
  <2> DEFINE x == [op |-> "catalog", name |-> "catalog"]
  <2>1. x \in StepSet /\ x.op = "catalog"
    BY DEF StepSet
  <2>2. Stage(x) = 5
    BY <2>1, Stages
  <2>3. k = <<x>>
    OBVIOUS
  <2> HIDE DEF x
  <2>4. <<x>> \in Seq(StepSet) /\ DOMAIN <<x>> = {1} /\ <<x>>[1] = x
    BY <2>1
  <2> QED
    BY <2>1, <2>2, <2>3, <2>4 DEF Within, InOrder, Left
<1> HIDE DEF w, m, r, c, k
<1>7. Within(w \o m, 1, 2)
  BY <1>2, <1>3, OrderJoined
<1>8. Within((w \o m) \o r, 1, 3)
  BY <1>7, <1>4, OrderJoined
<1>9. Within(((w \o m) \o r) \o c, 1, 4)
  BY <1>8, <1>5, OrderJoined
<1>10. Within(Steps(a, log), 1, 5)
  BY <1>1, <1>9, <1>6, OrderJoined
<1>11. ASSUME NEW op
       PROVE  Left(Steps(a, log), op) =
                 Left(w, op) \cup Left(m, op) \cup Left(r, op) \cup Left(c, op) \cup Left(k, op)
  <2>1. /\ w \in Seq(StepSet) /\ m \in Seq(StepSet) /\ r \in Seq(StepSet) /\ c \in Seq(StepSet)
        /\ k \in Seq(StepSet) /\ w \o m \in Seq(StepSet) /\ (w \o m) \o r \in Seq(StepSet)
        /\ ((w \o m) \o r) \o c \in Seq(StepSet)
    BY <1>2, <1>3, <1>4, <1>5, <1>6, <1>7, <1>8, <1>9 DEF Within
  <2> DEFINE wm == w \o m
             wmr == wm \o r
             wmrc == wmr \o c
  <2>2. Left(wm, op) = Left(w, op) \cup Left(m, op)
    BY <2>1, LeftJoined
  <2>3. wm \in Seq(StepSet) /\ wmr \in Seq(StepSet) /\ wmrc \in Seq(StepSet)
    BY <2>1
  <2>4. Steps(a, log) = wmrc \o k
    BY <1>1
  <2> HIDE DEF wm
  <2>5. Left(wm \o r, op) = Left(wm, op) \cup Left(r, op)
    BY <2>1, <2>3, LeftJoined
  <2> HIDE DEF wmr
  <2>6. Left(wmr \o c, op) = Left(wmr, op) \cup Left(c, op)
    BY <2>1, <2>3, LeftJoined
  <2> HIDE DEF wmrc
  <2>7. Left(wmrc \o k, op) = Left(wmrc, op) \cup Left(k, op)
    BY <2>1, <2>3, LeftJoined
  <2> QED
    BY <2>2, <2>4, <2>5, <2>6, <2>7 DEF wmr, wmrc
<1>12. Left(Steps(a, log), "write") = Need(a, log)
  BY <1>11, <1>2, <1>3, <1>4, <1>5, <1>6 DEF Need
<1>13. Left(Steps(a, log), "metadata") # {} /\ Left(Steps(a, log), "copy") = Names
  BY <1>11, <1>2, <1>3, <1>4, <1>5, <1>6
<1> QED
  BY <1>10, <1>12, <1>13 DEF Within

-----------------------------------------------------------------------------
(* Types.                                                                  *)

(* Absent is none of them.                                                 *)
LEMMA NoneIsNothing ==
    ASSUME ArtifactsAssumption
    PROVE  Absent \notin File /\ Absent \notin Metadata /\ Absent \notin CatalogEntry /\ Absent \notin Save
BY DEF ArtifactsAssumption

(* What an entry says and which names it has.                              *)
LEMMA EntryIs ==
    ASSUME NEW a, NEW k \in Nat, NEW N \in SUBSET Names
    PROVE  /\ EntryOf(a, k, N) \in CatalogEntry /\ EntryOf(a, k, N).occurrences = k
           /\ DOMAIN EntryOf(a, k, N).preferred = N
           /\ \A n \in N : EntryOf(a, k, N).preferred[n] = PreferredPath(a, n)
<1>1. [name \in N |-> PreferredPath(a, name)] \in [N -> {"first", "current"}]
  BY DEF PreferredPath
<1>2. [N -> {"first", "current"}] \in {[M -> {"first", "current"}] : M \in SUBSET Names}
  OBVIOUS
<1>3. [name \in N |-> PreferredPath(a, name)] \in UNION {[M -> {"first", "current"}] : M \in SUBSET Names}
  BY <1>1, <1>2
<1> QED
  BY <1>3 DEF EntryOf, CatalogEntry

(* The save in hand.                                                       *)
LEMMA InHand ==
    ASSUME ArtifactsAssumption, TypeOK, SaveInv, save # Absent
    PROVE  /\ save \in Save /\ save.artifact \in Artifacts /\ save.number \in Nat
           /\ save.log \in BOOLEAN /\ save.occurrences \in Nat
           /\ NamesSaved = Need(save.artifact, save.log)
           /\ {"summary", "program"} \subseteq NamesSaved /\ NamesSaved \subseteq Names
           /\ Always(save.artifact) \subseteq NamesSaved
           /\ NamesSaved \subseteq Always(save.artifact) \cup {"log"}
<1>1. /\ save \in Save /\ save.artifact \in Artifacts /\ save.number \in Nat
      /\ save.log \in BOOLEAN /\ save.occurrences \in Nat
  BY DEF TypeOK, Save
<1>2. NamesSaved = Need(save.artifact, save.log)
  BY DEF NamesSaved, Need
<1>3. save.artifact \in CrashArtifacts => save.log
  BY DEF SaveInv, SaveSound
<1>4. /\ {"summary", "program"} \subseteq ToSet(Written(save.artifact, save.log))
      /\ Always(save.artifact) \subseteq Need(save.artifact, save.log)
      /\ Need(save.artifact, save.log) \subseteq Always(save.artifact) \cup {"log"}
      /\ Need(save.artifact, save.log) \subseteq Names
  BY <1>1, <1>3, WrittenIs
<1> QED
  BY <1>1, <1>2, <1>4 DEF Need

(* A step that is due.                                                     *)
LEMMA Due ==
    ASSUME ArtifactsAssumption, TypeOK, SaveInv, NEW op, Step(op)
    PROVE  /\ save # Absent /\ todo \in Seq(StepSet) /\ todo # <<>> /\ InOrder(todo)
           /\ todo[1] \in StepSet /\ todo[1].op = op /\ todo[1].name \in Left(todo, op)
           /\ Tail(todo) \in Seq(StepSet) /\ InOrder(Tail(todo))
           /\ \A other : other # op => Left(Tail(todo), other) = Left(todo, other)
           /\ Left(todo, op) = Left(Tail(todo), op) \cup {todo[1].name}
<1>1. save # Absent /\ todo \in Seq(StepSet) /\ todo # <<>> /\ todo[1].op = op /\ InOrder(todo)
  BY DEF Step, TypeOK, SaveInv, SaveSound
<1>2. InOrder(Tail(todo))
  BY <1>1, OrderOfTail
<1>3. Tail(todo) \in Seq(StepSet) /\ todo[1] \in StepSet
  BY <1>1, TailOf
<1>4. \A other : Left(todo, other) =
                    Left(Tail(todo), other) \cup (IF todo[1].op = other THEN {todo[1].name} ELSE {})
  BY <1>1, LeftOfTail
<1> QED
  BY <1>1, <1>2, <1>3, <1>4

(* Every step preserves the types.                                         *)
LEMMA TypeNext ==
    ASSUME ArtifactsAssumption, TypeOK, SaveInv, [FilingNext]_filingVars
    PROVE  TypeOK'
<1>1. ASSUME NEW a \in Artifacts, NEW log \in BOOLEAN, Begin(a, log) PROVE TypeOK'
  <2>1. Steps(a, log) \in Seq(StepSet)
    BY <1>1, StepsAre DEF Begin
  <2>2. [artifact |-> a, number |-> saves[a] + 1, log |-> log, occurrences |-> 0] \in Save
    BY DEF TypeOK, Save
  <2>3. [saves EXCEPT ![a] = saves[a] + 1] \in [Artifacts -> Nat]
    BY DEF TypeOK
  <2> QED
    BY <1>1, <2>1, <2>2, <2>3 DEF Begin, TypeOK, disk
<1>2. CASE Write
  <2>1. Step("write") /\ save # Absent
    BY <1>2 DEF Write, Step
  <2>2. Version(save.number, open) \in File /\ save.artifact \in Artifacts
    BY <2>1, InHand DEF Version, File, TypeOK
  <2>3. texts' \in [Artifacts -> [Names -> File \cup {Absent}]]
    <3>1. texts' = [texts EXCEPT ![save.artifact][todo[1].name] = Version(save.number, open)]
      BY <1>2 DEF Write
    <3> QED
      BY <2>2, <3>1 DEF TypeOK
  <2>4. todo' \in Seq(StepSet) /\ open' \in BOOLEAN
    BY <1>2, <2>1, Due DEF Write, Advance
  <2> QED
    BY <1>2, <2>3, <2>4 DEF Write, TypeOK
<1>3. CASE WriteMetadata
  <2> DEFINE a == save.artifact
             k == IF open THEN save.occurrences ELSE Occurrences(a)
  <2>1. Step("metadata") /\ save # Absent
    BY <1>3 DEF WriteMetadata, Step
  <2>2. save \in Save /\ a \in Artifacts /\ open \in BOOLEAN
    BY <2>1, InHand DEF TypeOK
  <2>3. Occurrences(a) \in Nat
    <3>1. metadata[a] # Absent => metadata[a] \in Metadata
      BY <2>2 DEF TypeOK
    <3> QED
      BY <3>1 DEF Occurrences, Metadata
  <2>4. k \in Nat
    BY <2>2, <2>3 DEF Save
  <2>5. /\ save' = [save EXCEPT !.occurrences = k]
        /\ metadata' = [metadata EXCEPT ![a] = [whole |-> open, occurrences |-> k]]
    BY <1>3 DEF WriteMetadata
  <2> HIDE DEF k
  <2>6. save' \in Save
    BY <2>2, <2>4, <2>5 DEF Save
  <2>7. [whole |-> open, occurrences |-> k] \in Metadata
    BY <2>2, <2>4 DEF Metadata
  <2>8. metadata' \in [Artifacts -> Metadata \cup {Absent}]
    BY <2>5, <2>7 DEF TypeOK
  <2>9. todo' \in Seq(StepSet) /\ open' \in BOOLEAN
    BY <1>3, <2>1, Due DEF WriteMetadata, Advance
  <2> QED
    BY <1>3, <2>6, <2>8, <2>9 DEF WriteMetadata, TypeOK
<1>4. CASE Copy
  <2> DEFINE source == texts[save.artifact][todo[1].name]
             v == Version(source.save, open /\ source.whole)
  <2>1. Step("copy") /\ save # Absent /\ CopyDue
    BY <1>4 DEF Copy, Step
  <2>2. save.artifact \in Artifacts /\ todo[1].name \in Names /\ open \in BOOLEAN
    BY <2>1, InHand, Due DEF TypeOK, SaveInv, SaveSound
  <2>3. source \in File
    BY <2>1, <2>2 DEF CopyDue, TypeOK
  <2>4. v \in File
    BY <2>2, <2>3 DEF File, Version
  <2>5. first' = [first EXCEPT ![save.artifact][todo[1].name] = v]
    BY <1>4 DEF Copy
  <2> HIDE DEF v
  <2>6. first' \in [Artifacts -> [Names -> File \cup {Absent}]]
    BY <2>4, <2>5 DEF TypeOK
  <2>7. todo' \in Seq(StepSet) /\ open' \in BOOLEAN
    BY <1>4, <2>1, Due DEF Copy, Advance
  <2> QED
    BY <1>4, <2>6, <2>7 DEF Copy, TypeOK
<1>5. CASE CopyNothing
  <2>1. Step("copy")
    BY <1>5 DEF CopyNothing
  <2>2. todo' \in Seq(StepSet) /\ open' \in BOOLEAN
    BY <1>5, <2>1, Due DEF CopyNothing, Advance
  <2> QED
    BY <1>5, <2>2 DEF CopyNothing, TypeOK, disk
<1>6. CASE Catalogue
  <2>1. Step("catalog") /\ save # Absent
    BY <1>6 DEF Catalogue, Step
  <2>2. EntryOf(save.artifact, save.occurrences, NamesSaved) \in CatalogEntry
    BY <2>1, InHand, EntryIs
  <2>3. catalog' = [catalog EXCEPT ![save.artifact] =
                       EntryOf(save.artifact, save.occurrences, NamesSaved)]
    BY <1>6 DEF Catalogue
  <2>4. catalog' \in [Artifacts -> CatalogEntry \cup {Absent}]
    BY <2>2, <2>3 DEF TypeOK
  <2>5. todo' \in Seq(StepSet) /\ open' \in BOOLEAN
    BY <1>6, <2>1, Due DEF Catalogue, Advance
  <2> QED
    BY <1>6, <2>4, <2>5 DEF Catalogue, TypeOK
<1>7. CASE Sync
  <2>1. ASSUME NEW a \in Artifacts PROVE Synced(a) \in CatalogEntry \cup {Absent}
    <3>1. CASE metadata[a] # Absent /\ metadata[a].whole
      <4>1. metadata[a].occurrences \in Nat
        BY <3>1 DEF TypeOK, Metadata
      <4>2. FilesFound(a) \subseteq Names
        BY DEF FilesFound, Names
      <4>3. Synced(a) = EntryOf(a, metadata[a].occurrences, FilesFound(a))
        BY <3>1 DEF Synced
      <4> QED
        BY <4>1, <4>2, <4>3, EntryIs
    <3>2. CASE ~ (metadata[a] # Absent /\ metadata[a].whole)
      BY <3>2 DEF Synced
    <3> QED
      BY <3>1, <3>2
  <2>2. catalog' \in [Artifacts -> CatalogEntry \cup {Absent}]
    BY <1>7, <2>1 DEF Sync
  <2> QED
    BY <1>7, <2>2 DEF Sync, TypeOK
<1>8. CASE Stop
  <2>1. save # Absent /\ save.artifact \in Artifacts
    BY <1>8, InHand DEF Stop
  <2>2. broken' \in [Artifacts -> BOOLEAN]
    <3> DEFINE b == (Step("metadata") /\ open) \/ save.occurrences = 1
    <3>1. broken' = [broken EXCEPT ![save.artifact] = broken[save.artifact] \/ b]
      BY <1>8 DEF Stop
    <3> HIDE DEF b
    <3>2. broken \in [Artifacts -> BOOLEAN]
      BY DEF TypeOK
    <3>3. PICK x \in BOOLEAN : x = (broken[save.artifact] \/ b)
      OBVIOUS
    <3>4. broken' = [broken EXCEPT ![save.artifact] = x]
      BY ONLY <3>1, <3>3
    <3> QED
      BY <3>2, <3>3, <3>4
  <2>3. todo' \in Seq(StepSet) /\ open' \in BOOLEAN /\ save' = Absent /\ stops' \in Nat
    <3>1. todo' = <<>> /\ open' = FALSE /\ save' = Absent /\ stops' = stops + 1
      BY <1>8 DEF Stop
    <3>2. stops \in Nat
      BY DEF TypeOK
    <3>3. todo' \in Seq(StepSet)
      BY <3>1
    <3>4. open' \in BOOLEAN
      BY <3>1
    <3> QED
      BY <3>1, <3>2, <3>3, <3>4
  <2> QED
    BY <1>8, <2>2, <2>3 DEF Stop, TypeOK, disk
<1>9. CASE UNCHANGED filingVars
  BY <1>9 DEF filingVars, disk, TypeOK
<1> QED
  BY <1>1, <1>2, <1>3, <1>4, <1>5, <1>6, <1>7, <1>8, <1>9 DEF FilingNext

-----------------------------------------------------------------------------
(* What holds of each artifact stays so if a step is about another one.    *)
Sound(a) == MetaInv(a) /\ TextInv(a) /\ CatInv(a) /\ CountInv(a)

(* An artifact is left alone.                                              *)
LEMMA OthersStay ==
    ASSUME NEW a \in Artifacts, Sound(a), ~Saving(a), ~Saving(a)',
           texts'[a] = texts[a], first'[a] = first[a], metadata'[a] = metadata[a],
           catalog'[a] = catalog[a], saves'[a] = saves[a], broken'[a] = broken[a],
           stops' = 0 => stops = 0
    PROVE  Sound(a)'
<1>1. ~FirstUnderway(a) /\ ~FirstUnderway(a)' /\ ~Counting(a) /\ ~Counting(a)'
  BY DEF FirstUnderway, Saving, Counting
<1>2. MetaInv(a)'
  BY <1>1 DEF Sound, MetaInv, Complete
<1>3. TextInv(a)'
  BY DEF Sound, TextInv
<1>4. CatInv(a)'
  BY <1>1 DEF Sound, CatInv, LedTo
<1>5. CountInv(a)'
  BY <1>1 DEF Sound, CountInv
<1> QED
  BY <1>2, <1>3, <1>4, <1>5 DEF Sound

(* The inductive invariant.                                                *)
IInv == TypeOK /\ SaveInv /\ \A a \in Artifacts : Sound(a)

(* A save begins.                                                          *)
LEMMA BeginNext ==
    ASSUME ArtifactsAssumption, IInv, NEW a \in Artifacts, NEW log \in BOOLEAN, Begin(a, log)
    PROVE  SaveInv' /\ \A b \in Artifacts : Sound(b)'
<1> DEFINE new == [artifact |-> a, number |-> saves[a] + 1, log |-> log, occurrences |-> 0]
<1>1. /\ save = Absent /\ save' = new /\ (a \in CrashArtifacts => log)
      /\ saves' = [saves EXCEPT ![a] = saves[a] + 1] /\ todo' = Steps(a, log)
      /\ texts' = texts /\ first' = first /\ metadata' = metadata /\ catalog' = catalog
      /\ open' = open /\ stops' = stops /\ broken' = broken
  BY DEF Begin, disk
<1>2. new \in Save
  BY DEF IInv, TypeOK, Save
<1>3. save' # Absent
  BY <1>1, <1>2, NoneIsNothing
<1>4. /\ save'.artifact = a /\ save'.number = saves[a] + 1 /\ save'.log = log
      /\ save'.occurrences = 0
  BY <1>1
<1>5. /\ saves[a] \in Nat /\ saves'[a] = saves[a] + 1
      /\ \A b \in Artifacts \ {a} : saves'[b] = saves[b]
  BY <1>1 DEF IInv, TypeOK
<1>6. NamesSaved' = Need(a, log)
  BY <1>4 DEF NamesSaved, Need
<1>7. /\ InOrder(Steps(a, log)) /\ Left(Steps(a, log), "write") = Need(a, log)
      /\ Left(Steps(a, log), "metadata") # {} /\ Left(Steps(a, log), "copy") = Names
  BY <1>1, StepsAre
<1>8. ~open'
  BY <1>1 DEF IInv, SaveInv
<1> HIDE DEF new
<1>9. SaveSound(a)'
  BY <1>1, <1>4, <1>5, <1>6, <1>7, <1>8 DEF SaveSound
<1>10. SaveInv'
  BY <1>3, <1>4, <1>9 DEF SaveInv, SaveSound
<1>11. Saving(a)' /\ Counting(a)' /\ ~Saving(a) /\ ~Counting(a)
  BY <1>1, <1>3, <1>4 DEF Saving, Counting
<1>12. Sound(a)'
  <2>1. ~FirstUnderway(a) /\ (~FirstUnderway(a)' => saves'[a] # 1)
    BY <1>1, <1>3, <1>4 DEF FirstUnderway
  <2>2. metadata[a] # Absent => metadata[a].occurrences \in Nat
    BY DEF IInv, TypeOK, Metadata
  <2>3. MetaInv(a)'
    BY <1>1, <1>5, <1>11, <2>1, <2>2 DEF IInv, Sound, MetaInv, Complete
  <2>4. TextInv(a)' /\ CatInv(a)'
    BY <1>1, <2>1 DEF IInv, Sound, TextInv, CatInv, LedTo
  <2>5. CountInv(a)'
    <3>1. stops = 0 /\ saves[a] > 0 => metadata[a] = [whole |-> TRUE, occurrences |-> saves[a]]
      BY <1>11 DEF IInv, Sound, CountInv
    <3>2. saves'[a] - 1 = saves[a] /\ (saves'[a] > 1 => saves[a] > 0)
      BY <1>5
    <3> QED
      BY <1>1, <1>4, <1>11, <3>1, <3>2 DEF CountInv
  <2> QED
    BY <2>3, <2>4, <2>5 DEF Sound
<1>13. ASSUME NEW b \in Artifacts \ {a} PROVE Sound(b)'
  BY <1>1, <1>3, <1>4, <1>5, OthersStay DEF IInv, Saving
<1> QED
  BY <1>10, <1>12, <1>13

(* A step of the save in hand that leaves the other artifacts alone.       *)
LEMMA OwnStep ==
    ASSUME IInv, save # Absent, NEW a \in Artifacts, a = save.artifact,
           save' # Absent => save'.artifact = a, saves' = saves, stops' = 0 => stops = 0,
           \A b \in Artifacts \ {a} :
              /\ texts'[b] = texts[b] /\ first'[b] = first[b] /\ metadata'[b] = metadata[b]
              /\ catalog'[b] = catalog[b] /\ broken'[b] = broken[b],
           IF save' = Absent THEN ~open' ELSE SaveSound(a)', Sound(a)'
    PROVE  SaveInv' /\ \A b \in Artifacts : Sound(b)'
<1>1. ASSUME NEW b \in Artifacts \ {a} PROVE Sound(b)'
  BY <1>1, OthersStay DEF IInv, Saving
<1>2. SaveInv'
  BY DEF SaveInv, SaveSound
<1> QED
  BY <1>1, <1>2

(* A text is truncated, or filled.                                         *)
LEMMA WriteNext ==
    ASSUME ArtifactsAssumption, IInv, Write
    PROVE  SaveInv' /\ \A b \in Artifacts : Sound(b)'
<1>1. PICK a : a = save.artifact
  OBVIOUS
<1>2. PICK n : n = todo[1].name
  OBVIOUS
<1>3. PICK v : v = Version(save.number, open)
  OBVIOUS
<1>4. /\ Step("write") /\ save # Absent /\ save' = save /\ saves' = saves /\ stops' = stops
      /\ broken' = broken /\ first' = first /\ metadata' = metadata /\ catalog' = catalog
      /\ texts' = [texts EXCEPT ![a][n] = v]
      /\ IF open THEN todo' = Tail(todo) /\ open' = FALSE ELSE todo' = todo /\ open' = TRUE
  BY <1>1, <1>2, <1>3 DEF Write, Advance, Step
<1>5. TypeOK /\ SaveInv /\ SaveSound(a) /\ Sound(a) /\ a \in Artifacts
  <2>1. TypeOK /\ SaveInv /\ a \in Artifacts
    BY <1>1, <1>4, InHand DEF IInv
  <2>2. SaveSound(a)
    BY <1>1, <1>4, <2>1 DEF SaveInv
  <2> QED
    BY <2>1, <2>2 DEF IInv
<1>6. /\ save \in Save /\ save.number \in Nat /\ save.occurrences \in Nat
      /\ NamesSaved \subseteq Names /\ NamesSaved \subseteq Always(a) \cup {"log"}
  BY <1>1, <1>4, <1>5, InHand
<1>7. /\ todo[1].op = "write" /\ n \in Left(todo, "write")
      /\ InOrder(todo) /\ InOrder(Tail(todo))
      /\ Left(Tail(todo), "metadata") = Left(todo, "metadata")
      /\ Left(Tail(todo), "copy") = Left(todo, "copy")
      /\ Left(todo, "write") = Left(Tail(todo), "write") \cup {n}
  BY <1>2, <1>4, <1>5, Due
<1>8. n \in NamesSaved /\ n \in Names
  <2>1. Left(todo, "write") \subseteq NamesSaved
    BY <1>5 DEF SaveSound
  <2> QED
    BY <1>6, <1>7, <2>1
<1>9. v \in File /\ v # Absent /\ (open => v = Version(save.number, TRUE))
  <2>1. open \in BOOLEAN
    BY <1>5 DEF TypeOK
  <2>2. v \in File
    BY <1>3, <1>6, <2>1 DEF File, Version
  <2>3. open => v = Version(save.number, TRUE)
    <3>1. open => open = TRUE
      BY <2>1
    <3> QED
      BY <1>3, <3>1
  <2> QED
    BY <2>2, <2>3, NoneIsNothing
<1>10. /\ texts'[a][n] = v /\ \A m \in Names \ {n} : texts'[a][m] = texts[a][m]
       /\ \A b \in Artifacts \ {a} : texts'[b] = texts[b]
  BY <1>4, <1>5, <1>8 DEF TypeOK
<1>11. NamesSaved' = NamesSaved
  BY <1>4 DEF NamesSaved
<1>12. ~(Step("metadata") /\ open) /\ ~(Step("metadata")' /\ open')
  BY <1>4, <1>7 DEF Step
<1>13. SaveSound(a)'
  <2>1. ASSUME NEW m \in NamesSaved PROVE Kept(a, m, texts)' \/ m \in Left(todo, "write")'
    <3>1. CASE m = n /\ ~open
      BY <1>4, <1>7, <3>1
    <3>2. CASE m = n /\ open
      BY <1>4, <1>9, <1>10, <3>2 DEF Kept, Version
    <3>3. CASE m # n
      BY <1>4, <1>5, <1>6, <1>7, <1>10, <3>3 DEF SaveSound, Kept, Version
    <3> QED
      BY <3>1, <3>2, <3>3
  <2>2. /\ Left(todo, "metadata")' = Left(todo, "metadata") /\ Left(todo, "copy")' = Left(todo, "copy")
        /\ Left(todo, "write")' \subseteq Left(todo, "write") /\ InOrder(todo)'
    BY <1>4, <1>7
  <2>3. \A m \in Names : Kept(a, m, first)' <=> Kept(a, m, first)
    BY <1>4 DEF Kept
  <2> QED
    BY <1>4, <1>5, <1>11, <1>12, <2>1, <2>2, <2>3 DEF SaveSound
<1>14. \A m \in Names : texts[a][m] # Absent => texts'[a][m] # Absent
  BY <1>9, <1>10
<1>15. Sound(a)'
  <2>1. FirstUnderway(a)' <=> FirstUnderway(a)
    BY <1>4 DEF FirstUnderway
  <2>2. Counting(a)' <=> Counting(a)
    BY <1>4 DEF Counting, Saving
  <2>3. MetaInv(a)'
    BY <1>4, <1>5, <1>12, <1>14, <2>1, <2>2 DEF Sound, MetaInv, Complete, Names
  <2>4. TextInv(a)'
    BY <1>5, <1>6, <1>8, <1>10 DEF Sound, TextInv
  <2>5. CatInv(a)'
    <3>1. catalog[a] # Absent => DOMAIN catalog[a].preferred \subseteq Names
      BY <1>5 DEF Sound, CatInv, Always, Names
    <3> QED
      BY <1>4, <1>5, <1>14, <2>1, <3>1 DEF Sound, CatInv, LedTo
  <2>6. CountInv(a)'
    BY <1>4, <1>5, <2>2 DEF Sound, CountInv, Saving
  <2> QED
    BY <2>3, <2>4, <2>5, <2>6 DEF Sound
<1> QED
  BY <1>1, <1>4, <1>5, <1>10, <1>13, <1>15, OwnStep

-----------------------------------------------------------------------------
(* What is known of the save in hand at any of its steps.                  *)
LEMMA OfTheSave ==
    ASSUME ArtifactsAssumption, IInv, save # Absent, NEW a, a = save.artifact
    PROVE  /\ TypeOK /\ SaveInv /\ SaveSound(a) /\ Sound(a) /\ a \in Artifacts
           /\ save \in Save /\ save.number \in Nat /\ save.occurrences \in Nat /\ Saving(a)
           /\ NamesSaved \subseteq Names /\ NamesSaved \subseteq Always(a) \cup {"log"}
           /\ Always(a) \subseteq NamesSaved /\ Always(a) \subseteq Names
           /\ saves[a] \in Nat /\ save.number = saves[a] /\ saves[a] > 0
           /\ open \in BOOLEAN /\ {"summary", "program"} \subseteq NamesSaved
<1>1. TypeOK /\ SaveInv /\ a \in Artifacts /\ Saving(a)
  BY InHand DEF IInv, Saving
<1>2. SaveSound(a)
  BY <1>1 DEF SaveInv
<1>3. Sound(a)
  BY <1>1 DEF IInv
<1>4. /\ save \in Save /\ save.number \in Nat /\ save.occurrences \in Nat
      /\ NamesSaved \subseteq Names /\ NamesSaved \subseteq Always(a) \cup {"log"}
      /\ Always(a) \subseteq NamesSaved /\ {"summary", "program"} \subseteq NamesSaved
  BY <1>1, InHand
<1>5. saves[a] \in Nat /\ open \in BOOLEAN
  BY <1>1 DEF TypeOK
<1>6. save.number = saves[a] /\ saves[a] > 0
  BY <1>2 DEF SaveSound
<1> QED
  BY <1>1, <1>2, <1>3, <1>4, <1>5, <1>6

(* Once copies are due all texts are in place, and so is the metadata.     *)
LEMMA CopiesComeLater ==
    ASSUME ArtifactsAssumption, IInv, Step("copy") \/ Step("catalog"), NEW a, a = save.artifact
    PROVE  /\ save # Absent /\ ~Step("metadata") /\ todo # <<>>
           /\ Left(todo, "write") = {} /\ Left(todo, "metadata") = {}
           /\ Left(Tail(todo), "write") = {} /\ Left(Tail(todo), "metadata") = {}
           /\ \A n \in NamesSaved : texts[a][n] = Version(save.number, TRUE)
           /\ save.occurrences # 0 /\ metadata[a] # Absent /\ metadata[a].whole
           /\ metadata[a].occurrences = save.occurrences
<1>1. PICK op \in {"copy", "catalog"} : Step(op)
  OBVIOUS
<1>2. save # Absent /\ TypeOK /\ SaveInv
  BY <1>1 DEF Step, IInv
<1>3. SaveSound(a)
  BY <1>2, OfTheSave
<1>4. /\ todo \in Seq(StepSet) /\ todo # <<>> /\ InOrder(todo) /\ todo[1].op = op
      /\ \A other : other # op => Left(Tail(todo), other) = Left(todo, other)
  BY <1>1, <1>2, Due
<1>5. Left(todo, "write") = {} /\ Left(todo, "metadata") = {}
  BY <1>4, Behind
<1>6. ~Step("metadata")
  BY <1>4 DEF Step
<1>7. \A n \in NamesSaved : texts[a][n] = Version(save.number, TRUE)
  BY <1>3, <1>5 DEF SaveSound, Kept
<1>8. /\ save.occurrences # 0 /\ metadata[a] # Absent /\ metadata[a].whole
      /\ metadata[a].occurrences = save.occurrences
  BY <1>3, <1>5, <1>6 DEF SaveSound
<1> QED
  BY <1>2, <1>4, <1>5, <1>6, <1>7, <1>8

(* Nothing is to be copied.                                                *)
LEMMA CopyNothingNext ==
    ASSUME ArtifactsAssumption, IInv, CopyNothing
    PROVE  SaveInv' /\ \A b \in Artifacts : Sound(b)'
<1>1. PICK a : a = save.artifact
  OBVIOUS
<1>2. PICK n : n = todo[1].name
  OBVIOUS
<1>3. /\ Step("copy") /\ ~CopyDue /\ save' = save /\ saves' = saves /\ stops' = stops
      /\ broken' = broken /\ first' = first /\ metadata' = metadata /\ catalog' = catalog
      /\ texts' = texts /\ todo' = Tail(todo) /\ open' = FALSE
  BY DEF CopyNothing, Advance, disk
<1>4. /\ save # Absent /\ ~Step("metadata")
      /\ Left(todo, "write") = {} /\ Left(todo, "metadata") = {}
      /\ Left(Tail(todo), "write") = {} /\ Left(Tail(todo), "metadata") = {}
      /\ \A m \in NamesSaved : texts[a][m] = Version(save.number, TRUE)
      /\ save.occurrences # 0 /\ metadata[a] # Absent /\ metadata[a].whole
  BY <1>1, <1>3, CopiesComeLater
<1>5. /\ TypeOK /\ SaveInv /\ SaveSound(a) /\ Sound(a) /\ a \in Artifacts /\ Saving(a)
      /\ save.number \in Nat /\ Always(a) \subseteq NamesSaved
  BY <1>1, <1>4, OfTheSave
<1>6. /\ InOrder(Tail(todo)) /\ n \in Left(todo, "copy")
      /\ Left(todo, "copy") = Left(Tail(todo), "copy") \cup {n}
  BY <1>2, <1>3, <1>5, Due
<1>7. NamesSaved' = NamesSaved
  BY <1>3 DEF NamesSaved
<1>8. save.occurrences # 1 \/ n \notin Always(a)
  <2>1. Version(save.number, TRUE) \in File
    BY <1>5 DEF Version, File
  <2>2. n \in Always(a) => texts[a][n] # Absent
    BY <1>4, <1>5, <2>1, NoneIsNothing
  <2> QED
    BY <1>1, <1>2, <1>3, <2>2 DEF CopyDue
<1>9. SaveSound(a)'
  <2>1. \A m \in Names : Kept(a, m, first)' <=> Kept(a, m, first)
    BY <1>3 DEF Kept
  <2>2. \A m \in NamesSaved : Kept(a, m, texts)'
    BY <1>3, <1>4 DEF Kept
  <2>3. /\ Left(todo, "write")' = {} /\ Left(todo, "metadata")' = {}
        /\ Left(todo, "copy")' = Left(Tail(todo), "copy") /\ InOrder(todo)'
    BY <1>3, <1>4, <1>6
  <2> QED
    BY <1>3, <1>4, <1>5, <1>6, <1>7, <1>8, <2>1, <2>2, <2>3 DEF SaveSound
<1>10. Sound(a)'
  <2>1. (FirstUnderway(a)' <=> FirstUnderway(a)) /\ (Counting(a)' <=> Counting(a))
    BY <1>3 DEF FirstUnderway, Counting, Saving
  <2>2. MetaInv(a)'
    BY <1>3, <1>4, <1>5, <2>1 DEF Sound, MetaInv, Complete
  <2>3. TextInv(a)' /\ CatInv(a)'
    BY <1>3, <1>5, <2>1 DEF Sound, TextInv, CatInv, LedTo
  <2>4. CountInv(a)'
    BY <1>3, <1>5, <2>1 DEF Sound, CountInv, Saving
  <2> QED
    BY <2>2, <2>3, <2>4 DEF Sound
<1> QED
  BY <1>1, <1>3, <1>4, <1>5, <1>9, <1>10, OwnStep

(* A first_* copy is truncated, or filled.                                 *)
LEMMA CopyNext ==
    ASSUME ArtifactsAssumption, IInv, Copy
    PROVE  SaveInv' /\ \A b \in Artifacts : Sound(b)'
<1>1. PICK a : a = save.artifact
  OBVIOUS
<1>2. PICK n : n = todo[1].name
  OBVIOUS
<1>3. PICK v : v = Version(texts[a][n].save, open /\ texts[a][n].whole)
  OBVIOUS
<1>4. /\ Step("copy") /\ CopyDue /\ save' = save /\ saves' = saves /\ stops' = stops
      /\ broken' = broken /\ texts' = texts /\ metadata' = metadata /\ catalog' = catalog
      /\ first' = [first EXCEPT ![a][n] = v]
      /\ IF open THEN todo' = Tail(todo) /\ open' = FALSE ELSE todo' = todo /\ open' = TRUE
  BY <1>1, <1>2, <1>3 DEF Copy, Advance
<1>5. /\ save # Absent /\ ~Step("metadata")
      /\ Left(todo, "write") = {} /\ Left(todo, "metadata") = {}
      /\ Left(Tail(todo), "write") = {} /\ Left(Tail(todo), "metadata") = {}
      /\ \A m \in NamesSaved : texts[a][m] = Version(save.number, TRUE)
      /\ save.occurrences # 0 /\ metadata[a] # Absent /\ metadata[a].whole
  BY <1>1, <1>4, CopiesComeLater
<1>6. /\ TypeOK /\ SaveInv /\ SaveSound(a) /\ Sound(a) /\ a \in Artifacts /\ Saving(a)
      /\ save.number \in Nat /\ Always(a) \subseteq NamesSaved /\ open \in BOOLEAN
  BY <1>1, <1>5, OfTheSave
<1>7. /\ InOrder(todo) /\ InOrder(Tail(todo)) /\ n \in Left(todo, "copy")
      /\ Left(todo, "copy") = Left(Tail(todo), "copy") \cup {n}
  BY <1>2, <1>4, <1>6, Due
<1>8. n \in Names /\ save.occurrences = 1 /\ texts[a][n] \in File
  <2>1. n \in Names
    BY <1>6, <1>7 DEF SaveSound
  <2> QED
    BY <1>1, <1>2, <1>4, <1>6, <2>1 DEF CopyDue, TypeOK
<1>9. v \in File /\ v # Absent
  <2>1. v \in File
    BY <1>3, <1>6, <1>8 DEF File, Version
  <2> QED
    BY <2>1, NoneIsNothing
<1>10. /\ first'[a][n] = v /\ \A m \in Names \ {n} : first'[a][m] = first[a][m]
       /\ \A b \in Artifacts \ {a} : first'[b] = first[b]
  BY <1>4, <1>6, <1>8 DEF TypeOK
<1>11. NamesSaved' = NamesSaved
  BY <1>4 DEF NamesSaved
<1>12. open /\ n \in Always(a) => v = Version(save.number, TRUE)
  <2>1. n \in Always(a) => texts[a][n] = Version(save.number, TRUE)
    BY <1>5, <1>6
  <2>2. ASSUME open, n \in Always(a) PROVE v = Version(save.number, TRUE)
    <3>1. texts[a][n].save = save.number /\ texts[a][n].whole = TRUE
      BY <2>1, <2>2 DEF Version
    <3>2. (open /\ texts[a][n].whole) = TRUE
      <4>1. open = TRUE
        BY <1>6, <2>2
      <4> QED
        BY ONLY <3>1, <4>1
    <3> QED
      BY ONLY <1>3, <3>1, <3>2 DEF Version
  <2> QED
    BY <2>2
<1>13. SaveSound(a)'
  <2>1. ASSUME NEW m \in Names, save.occurrences = 1 /\ m \in Always(a), m \notin Left(todo, "copy")'
        PROVE  Kept(a, m, first)'
    <3>1. CASE m = n /\ ~open
      BY <1>4, <1>7, <2>1, <3>1
    <3>2. CASE m = n /\ open
      BY <1>4, <1>10, <1>12, <2>1, <3>2 DEF Kept, Version
    <3>3. CASE m # n
      <4>1. m \notin Left(todo, "copy")
        BY <1>4, <1>7, <2>1, <3>3
      <4>2. Kept(a, m, first)
        BY <1>6, <2>1, <4>1 DEF SaveSound
      <4> QED
        BY <1>4, <1>10, <3>3, <4>2 DEF Kept, Version
    <3> QED
      BY <3>1, <3>2, <3>3
  <2>2. \A m \in NamesSaved : Kept(a, m, texts)'
    BY <1>4, <1>5 DEF Kept
  <2>3. /\ Left(todo, "write")' = {} /\ Left(todo, "metadata")' = {}
        /\ Left(todo, "copy")' \subseteq Left(todo, "copy") /\ InOrder(todo)'
    BY <1>4, <1>5, <1>7
  <2> QED
    BY <1>4, <1>5, <1>6, <1>7, <1>8, <1>11, <2>1, <2>2, <2>3 DEF SaveSound
<1>14. Sound(a)'
  <2>1. /\ FirstUnderway(a)' /\ FirstUnderway(a) /\ (Counting(a)' <=> Counting(a))
    BY <1>1, <1>4, <1>5, <1>8 DEF FirstUnderway, Counting, Saving
  <2>2. MetaInv(a)'
    BY <1>4, <1>6, <2>1 DEF Sound, MetaInv
  <2>3. TextInv(a)'
    BY <1>4, <1>6 DEF Sound, TextInv
  <2>4. CatInv(a)'
    <3>1. catalog[a] # Absent => DOMAIN catalog[a].preferred \subseteq Names
      BY <1>6 DEF Sound, CatInv, Always, Names
    <3>2. \A m \in Names : first[a][m] # Absent => first'[a][m] # Absent
      BY <1>9, <1>10
    <3> QED
      BY <1>4, <1>6, <2>1, <3>1, <3>2 DEF Sound, CatInv, LedTo
  <2>5. CountInv(a)'
    BY <1>4, <1>6, <2>1 DEF Sound, CountInv, Saving
  <2> QED
    BY <2>2, <2>3, <2>4, <2>5 DEF Sound
<1> QED
  BY <1>1, <1>4, <1>5, <1>6, <1>10, <1>13, <1>14, OwnStep

-----------------------------------------------------------------------------
(* The metadata are truncated, with the number of occurrences in hand.     *)
LEMMA MetadataBegins ==
    ASSUME ArtifactsAssumption, IInv, WriteMetadata, ~open
    PROVE  SaveInv' /\ \A b \in Artifacts : Sound(b)'
<1>1. PICK a : a = save.artifact
  OBVIOUS
<1>2. PICK k : k = Occurrences(a)
  OBVIOUS
<1>3. /\ Step("metadata") /\ save # Absent /\ save' = [save EXCEPT !.occurrences = k]
      /\ saves' = saves /\ stops' = stops
      /\ broken' = broken /\ first' = first /\ texts' = texts /\ catalog' = catalog
      /\ metadata' = [metadata EXCEPT ![a] = [whole |-> FALSE, occurrences |-> k]]
      /\ todo' = todo /\ open' = TRUE
  <2>1. open = FALSE
    BY DEF IInv, TypeOK
  <2> QED
    BY <1>1, <1>2, <2>1 DEF WriteMetadata, Step
<1>4. /\ TypeOK /\ SaveInv /\ SaveSound(a) /\ Sound(a) /\ a \in Artifacts /\ Saving(a)
      /\ save \in Save /\ saves[a] \in Nat /\ saves[a] > 0 /\ save.number \in Nat
      /\ {"summary", "program"} \subseteq NamesSaved
  BY <1>1, <1>3, OfTheSave
<1>5. /\ todo \in Seq(StepSet) /\ todo # <<>> /\ InOrder(todo) /\ todo[1].op = "metadata"
      /\ todo[1].name \in Left(todo, "metadata")
  BY <1>3, <1>4, Due
<1>6. Left(todo, "write") \subseteq {"repro"}
  BY <1>5, Behind
<1>7. save.occurrences = 0 /\ Counting(a) /\ save \in Save
  <2>1. save.occurrences = 0
    BY <1>4, <1>5 DEF SaveSound
  <2> QED
    BY <1>4, <2>1 DEF Counting
<1>8. metadata[a] # Absent =>
        metadata[a].occurrences \in Nat /\ metadata[a].occurrences > 0 /\ metadata[a].occurrences < saves[a]
  <2>1. metadata[a] # Absent => metadata[a].occurrences \in Nat
    BY <1>4 DEF TypeOK, Metadata
  <2>2. metadata[a] # Absent => metadata[a].occurrences > 0 /\ metadata[a].occurrences < saves[a]
    BY <1>4, <1>7 DEF Sound, MetaInv
  <2> QED
    BY <2>1, <2>2
<1>9. /\ k \in Nat /\ k > 0 /\ k <= saves[a]
      /\ k # 1 => metadata[a] # Absent /\ metadata[a].whole
      /\ metadata[a] # Absent /\ metadata[a].whole => k = metadata[a].occurrences + 1
  BY <1>2, <1>4, <1>8 DEF Occurrences
<1>10. /\ save'.artifact = a /\ save'.number = save.number /\ save'.log = save.log
       /\ save'.occurrences = k /\ save' # Absent
  <2>1. save' \in Save
    BY <1>3, <1>4, <1>9 DEF Save
  <2> QED
    BY <1>1, <1>3, <1>7, <2>1, NoneIsNothing DEF Save
<1>11. /\ metadata'[a] = [whole |-> FALSE, occurrences |-> k] /\ metadata'[a] # Absent
       /\ \A b \in Artifacts \ {a} : metadata'[b] = metadata[b]
  <2>1. [whole |-> FALSE, occurrences |-> k] \in Metadata
    BY <1>9 DEF Metadata
  <2> QED
    BY <1>3, <1>4, <2>1, NoneIsNothing DEF TypeOK
<1>12. NamesSaved' = NamesSaved
  BY <1>1, <1>10 DEF NamesSaved
<1>13. SaveSound(a)'
  <2>1. \A n \in Names : n \in Left(todo, "copy")
    BY <1>4, <1>5 DEF SaveSound
  <2>2. \A n \in NamesSaved : Kept(a, n, texts)' <=> Kept(a, n, texts)
    BY <1>3, <1>10 DEF Kept
  <2>3. Step("metadata")' /\ open'
    BY <1>3, <1>10 DEF Step
  <2> QED
    BY <1>3, <1>4, <1>9, <1>10, <1>11, <1>12, <2>1, <2>2, <2>3 DEF SaveSound
<1>14. ~FirstUnderway(a)' =>
         /\ ~FirstUnderway(a) /\ metadata[a] # Absent /\ metadata[a].whole
  BY <1>1, <1>3, <1>7, <1>9, <1>10 DEF FirstUnderway
<1>15. texts[a]["summary"] # Absent /\ texts[a]["program"] # Absent
  <2>1. Version(save.number, TRUE) \in File
    BY <1>4 DEF Version, File
  <2>2. Kept(a, "summary", texts) /\ Kept(a, "program", texts)
    BY <1>4, <1>6 DEF SaveSound
  <2> QED
    BY <2>1, <2>2, NoneIsNothing DEF Kept
<1>16. ~Counting(a)' /\ Saving(a)'
  BY <1>9, <1>10 DEF Counting, Saving
<1>17. Sound(a)'
  <2>1. MetaInv(a)'
    <3>1. ~broken[a] /\ ~FirstUnderway(a)' => Complete(a)
      BY <1>4, <1>14 DEF Sound, MetaInv
    <3>2. Complete(a)' <=> Complete(a)
      BY <1>3 DEF Complete
    <3>3. Step("metadata")' /\ open'
      BY <1>3, <1>10 DEF Step
    <3> QED
      BY <1>3, <1>9, <1>11, <1>15, <1>16, <3>1, <3>2, <3>3 DEF MetaInv
  <2>2. TextInv(a)'
    BY <1>3, <1>4 DEF Sound, TextInv
  <2>3. CatInv(a)'
    BY <1>3, <1>4, <1>11, <1>14 DEF Sound, CatInv, LedTo
  <2>4. CountInv(a)'
    <3>1. ASSUME stops = 0 PROVE k = saves[a]
      <4>1. CASE saves[a] > 1
        <5>1. metadata[a] = [whole |-> TRUE, occurrences |-> saves[a] - 1]
          BY <1>4, <1>7, <3>1, <4>1 DEF Sound, CountInv
        <5>2. [whole |-> TRUE, occurrences |-> saves[a] - 1] \in Metadata
          BY <1>4, <4>1 DEF Metadata
        <5>3. metadata[a] # Absent /\ metadata[a].whole = TRUE /\ metadata[a].occurrences = saves[a] - 1
          <6>1. metadata[a] # Absent
            BY <5>1, <5>2, NoneIsNothing
          <6> QED
            BY ONLY <5>1, <6>1
        <5>4. k = metadata[a].occurrences + 1
          BY <1>9, <5>3
        <5> QED
          BY <1>4, <5>3, <5>4
      <4>2. CASE saves[a] = 1
        BY <1>4, <1>8, <1>9, <4>2
      <4> QED
        BY <1>4, <4>1, <4>2
    <3> QED
      BY <1>3, <1>10, <1>16, <3>1 DEF CountInv
  <2> QED
    BY <2>1, <2>2, <2>3, <2>4 DEF Sound
<1> QED
  BY <1>1, <1>3, <1>4, <1>10, <1>11, <1>13, <1>17, OwnStep DEF IInv

(* They are filled.                                                        *)
LEMMA MetadataEnds ==
    ASSUME ArtifactsAssumption, IInv, WriteMetadata, open
    PROVE  SaveInv' /\ \A b \in Artifacts : Sound(b)'
<1>1. PICK a : a = save.artifact
  OBVIOUS
<1>2. PICK k : k = save.occurrences
  OBVIOUS
<1>3. /\ Step("metadata") /\ save # Absent /\ save' = [save EXCEPT !.occurrences = k]
      /\ saves' = saves /\ stops' = stops
      /\ broken' = broken /\ first' = first /\ texts' = texts /\ catalog' = catalog
      /\ metadata' = [metadata EXCEPT ![a] = [whole |-> TRUE, occurrences |-> k]]
      /\ todo' = Tail(todo) /\ open' = FALSE
  <2>1. open = TRUE
    BY DEF IInv, TypeOK
  <2> QED
    BY <1>1, <1>2, <2>1 DEF WriteMetadata, Step, Advance
<1>4. /\ TypeOK /\ SaveInv /\ SaveSound(a) /\ Sound(a) /\ a \in Artifacts /\ Saving(a)
      /\ save \in Save /\ saves[a] \in Nat /\ saves[a] > 0 /\ save.number \in Nat
  BY <1>1, <1>3, OfTheSave
<1>5. /\ todo \in Seq(StepSet) /\ todo # <<>> /\ InOrder(todo) /\ todo[1].op = "metadata"
      /\ todo[1].name \in Left(todo, "metadata") /\ InOrder(Tail(todo))
      /\ Left(Tail(todo), "write") = Left(todo, "write")
      /\ Left(Tail(todo), "copy") = Left(todo, "copy")
  BY <1>3, <1>4, Due
<1>6. Left(Tail(todo), "metadata") = {}
  BY <1>5, Behind
<1>7. /\ save.occurrences # 0 /\ ~Counting(a)
      /\ metadata[a] # Absent /\ metadata[a].occurrences = k
  <2>1. save.occurrences # 0
    BY <1>3, <1>4 DEF SaveSound
  <2> QED
    BY <1>2, <1>4, <2>1 DEF Counting, SaveSound
<1>8. save' = save
  BY <1>2, <1>3, <1>4 DEF Save
<1>9. k \in Nat
  BY <1>2, <1>4 DEF Save
<1>11. /\ metadata'[a] = [whole |-> TRUE, occurrences |-> k] /\ metadata'[a] # Absent
       /\ \A b \in Artifacts \ {a} : metadata'[b] = metadata[b]
  <2>1. [whole |-> TRUE, occurrences |-> k] \in Metadata
    BY <1>9 DEF Metadata
  <2> QED
    BY <1>3, <1>4, <2>1, NoneIsNothing DEF TypeOK
<1>12. NamesSaved' = NamesSaved
  BY <1>8 DEF NamesSaved
<1>13. SaveSound(a)'
  <2>1. \A n \in Names : n \in Left(todo, "copy")
    BY <1>4, <1>5 DEF SaveSound
  <2>2. \A n \in NamesSaved : Kept(a, n, texts)' <=> Kept(a, n, texts)
    BY <1>3, <1>8 DEF Kept
  <2>3. /\ Left(todo, "write")' = Left(todo, "write") /\ Left(todo, "metadata")' = {}
        /\ Left(todo, "copy")' = Left(todo, "copy") /\ InOrder(todo)'
    BY <1>3, <1>5, <1>6
  <2> QED
    BY <1>2, <1>3, <1>4, <1>7, <1>8, <1>11, <1>12, <2>1, <2>2, <2>3 DEF SaveSound
<1>14. /\ FirstUnderway(a)' <=> FirstUnderway(a)
       /\ ~Counting(a)' /\ (Saving(a)' <=> Saving(a))
  BY <1>3, <1>7, <1>8 DEF FirstUnderway, Saving, Counting
<1>15. Sound(a)'
  <2>1. MetaInv(a)'
    BY <1>3, <1>4, <1>7, <1>11, <1>14 DEF Sound, MetaInv, Complete
  <2>2. TextInv(a)'
    BY <1>3, <1>4 DEF Sound, TextInv
  <2>3. CatInv(a)'
    BY <1>3, <1>4, <1>11, <1>14 DEF Sound, CatInv, LedTo
  <2>4. CountInv(a)'
    BY <1>3, <1>4, <1>8, <1>14 DEF Sound, CountInv
  <2> QED
    BY <2>1, <2>2, <2>3, <2>4 DEF Sound
<1> QED
  BY <1>1, <1>3, <1>4, <1>8, <1>11, <1>13, <1>15, OwnStep DEF IInv

-----------------------------------------------------------------------------
(* What is settled of an artifact: all that a replay needs was copied.     *)
LEMMA SettledIsComplete ==
    ASSUME NEW a, Sound(a), metadata[a] # Absent, ~broken[a], ~FirstUnderway(a)
    PROVE  \A n \in Always(a) : first[a][n] # Absent /\ PreferredPath(a, n) = "first"
BY DEF Sound, MetaInv, Complete, PreferredPath

(* The entry is made, and the save ends.                                   *)
LEMMA CatalogueNext ==
    ASSUME ArtifactsAssumption, IInv, Catalogue
    PROVE  SaveInv' /\ \A b \in Artifacts : Sound(b)'
<1>1. PICK a : a = save.artifact
  OBVIOUS
<1>2. PICK e : e = EntryOf(a, save.occurrences, NamesSaved)
  OBVIOUS
<1>3. /\ Step("catalog") /\ save' = Absent /\ saves' = saves /\ stops' = stops
      /\ broken' = broken /\ first' = first /\ texts' = texts /\ metadata' = metadata
      /\ catalog' = [catalog EXCEPT ![a] = e] /\ todo' = Tail(todo) /\ open' = FALSE
  BY <1>1, <1>2 DEF Catalogue, Advance
<1>4. /\ save # Absent /\ todo # <<>>
      /\ Left(todo, "write") = {} /\ Left(todo, "metadata") = {}
      /\ \A n \in NamesSaved : texts[a][n] = Version(save.number, TRUE)
      /\ save.occurrences # 0 /\ metadata[a] # Absent /\ metadata[a].whole
      /\ metadata[a].occurrences = save.occurrences
  BY <1>1, <1>3, CopiesComeLater
<1>5. /\ TypeOK /\ SaveInv /\ SaveSound(a) /\ Sound(a) /\ a \in Artifacts /\ Saving(a)
      /\ save.number \in Nat /\ save.occurrences \in Nat /\ saves[a] \in Nat /\ saves[a] > 0
      /\ NamesSaved \subseteq Names /\ NamesSaved \subseteq Always(a) \cup {"log"}
      /\ Always(a) \subseteq Names /\ save.number = saves[a]
  BY <1>1, <1>4, OfTheSave
<1>6. Left(todo, "copy") = {}
  <2>1. todo \in Seq(StepSet) /\ InOrder(todo) /\ todo[1].op = "catalog"
    BY <1>3, <1>5, Due
  <2> QED
    BY <1>4, <2>1, Behind
<1>7. Version(save.number, TRUE) \in File /\ Version(save.number, TRUE) # Absent
  <2>1. Version(save.number, TRUE) \in File
    BY <1>5 DEF Version, File
  <2> QED
    BY <2>1, NoneIsNothing
<1>8. /\ e \in CatalogEntry /\ e # Absent /\ e.occurrences = save.occurrences
      /\ DOMAIN e.preferred = NamesSaved /\ \A n \in NamesSaved : e.preferred[n] = PreferredPath(a, n)
  <2>1. /\ e \in CatalogEntry /\ e.occurrences = save.occurrences
        /\ DOMAIN e.preferred = NamesSaved /\ \A n \in NamesSaved : e.preferred[n] = PreferredPath(a, n)
    BY <1>2, <1>5, EntryIs
  <2> QED
    BY <2>1, NoneIsNothing
<1>9. /\ catalog'[a] = e /\ \A b \in Artifacts \ {a} : catalog'[b] = catalog[b]
  BY <1>3, <1>5 DEF TypeOK
<1>10. ~broken[a] => Complete(a)
  <2>1. CASE save.occurrences = 1
    <3>1. \A n \in Always(a) : Kept(a, n, first)
      BY <1>5, <1>6, <2>1 DEF SaveSound
    <3>2. "summary" \in Always(a)
      BY DEF Always
    <3>3. \A n \in Always(a) : first[a][n] = Version(save.number, TRUE)
      BY <3>1 DEF Kept
    <3>4. /\ Version(save.number, TRUE).whole = TRUE
          /\ Version(save.number, TRUE).save = save.number
      BY DEF Version
    <3>5. ASSUME NEW n \in Always(a)
          PROVE  first[a][n] # Absent /\ first[a][n].whole /\ first[a][n].save = first[a]["summary"].save
      BY <1>7, <3>2, <3>3, <3>4
    <3> QED
      BY <3>5 DEF Complete
  <2>2. CASE save.occurrences # 1
    <3>1. metadata[a].occurrences > 0 /\ metadata[a].occurrences <= saves[a]
      BY <1>4, <1>5 DEF Sound, MetaInv
    <3>2. ~FirstUnderway(a)
      BY <1>4, <1>5, <2>2, <3>1 DEF FirstUnderway
    <3> QED
      BY <1>4, <1>5, <3>2 DEF Sound, MetaInv
  <2> QED
    BY <2>1, <2>2
<1>11. ~Saving(a)' /\ ~FirstUnderway(a)' /\ ~Counting(a)'
  BY <1>3 DEF Saving, FirstUnderway, Counting
<1>12. Sound(a)'
  <2>1. MetaInv(a)'
    <3>1. Complete(a)' <=> Complete(a)
      BY <1>3 DEF Complete
    <3> QED
      BY <1>3, <1>4, <1>5, <1>10, <1>11, <3>1 DEF Sound, MetaInv
  <2>2. TextInv(a)'
    BY <1>3, <1>5 DEF Sound, TextInv
  <2>3. CatInv(a)'
    <3>1. ASSUME NEW n \in NamesSaved PROVE LedTo(a, n)' # Absent
      <4>1. texts'[a][n] # Absent
        BY <1>3, <1>4, <1>7, <3>1
      <4>2. e.preferred[n] = "first" => first'[a][n] # Absent
        BY <1>3, <1>8, <3>1 DEF PreferredPath
      <4> QED
        BY <1>9, <4>1, <4>2 DEF LedTo
    <3>2. ASSUME NEW n \in NamesSaved \ {"log"}, ~broken[a] PROVE e.preferred[n] = "first"
      <4>1. n \in Always(a)
        BY <1>5, <3>2
      <4> QED
        BY <1>8, <1>10, <3>2, <4>1 DEF Complete, PreferredPath
    <3> QED
      BY <1>3, <1>4, <1>5, <1>8, <1>9, <3>1, <3>2 DEF CatInv
  <2>4. CountInv(a)'
    <3>1. ASSUME stops = 0 PROVE metadata[a] = [whole |-> TRUE, occurrences |-> saves[a]]
      <4>1. metadata[a].occurrences = saves[a]
        BY <1>4, <1>5, <3>1 DEF Sound, CountInv
      <4>2. metadata[a] \in Metadata
        BY <1>4, <1>5 DEF TypeOK
      <4>3. metadata[a].whole = TRUE
        BY <1>4, <4>2 DEF Metadata
      <4> QED
        BY <4>1, <4>2, <4>3 DEF Metadata
    <3>2. stops = 0 => save.occurrences = saves[a]
      BY <1>4, <1>5 DEF Sound, CountInv
    <3> QED
      BY <1>3, <1>8, <1>9, <1>11, <3>1, <3>2 DEF CountInv
  <2> QED
    BY <2>1, <2>2, <2>3, <2>4 DEF Sound
<1> QED
  BY <1>1, <1>3, <1>4, <1>5, <1>9, <1>12, OwnStep

(* The save does not come to its end.                                      *)
LEMMA StopNext ==
    ASSUME ArtifactsAssumption, IInv, Stop
    PROVE  SaveInv' /\ \A b \in Artifacts : Sound(b)'
<1>1. PICK a : a = save.artifact
  OBVIOUS
<1>2. PICK x \in BOOLEAN : x = (broken[a] \/ (Step("metadata") /\ open) \/ save.occurrences = 1)
  OBVIOUS
<1>3. /\ save # Absent /\ save' = Absent /\ saves' = saves /\ stops' = stops + 1
      /\ first' = first /\ texts' = texts /\ metadata' = metadata /\ catalog' = catalog
      /\ todo' = <<>> /\ open' = FALSE
  BY DEF Stop, disk
<1>4. broken' = [broken EXCEPT ![a] = x]
  <2>1. broken' = [broken EXCEPT ![a] =
                      broken[a] \/ (Step("metadata") /\ open) \/ save.occurrences = 1]
    BY <1>1 DEF Stop
  <2> QED
    BY ONLY <1>2, <2>1
<1>5. /\ TypeOK /\ SaveInv /\ SaveSound(a) /\ Sound(a) /\ a \in Artifacts /\ Saving(a)
      /\ save.occurrences \in Nat /\ saves[a] \in Nat /\ saves[a] > 0
  BY <1>1, <1>3, OfTheSave
<1>6. broken'[a] = x /\ \A b \in Artifacts \ {a} : broken'[b] = broken[b]
  BY <1>4, <1>5 DEF TypeOK
<1>7. stops' # 0
  BY <1>3, <1>5 DEF TypeOK
<1>8. metadata[a] # Absent => metadata[a].occurrences \in Nat
  BY <1>5 DEF TypeOK, Metadata
<1>9. ASSUME ~broken'[a], metadata[a] # Absent
      PROVE  ~broken[a] /\ ~(Step("metadata") /\ open) /\ ~FirstUnderway(a)
  <2>1. ~x
    BY ONLY <1>6, <1>9
  <2>2. ~broken[a] /\ ~(Step("metadata") /\ open) /\ save.occurrences # 1
    BY <1>2, <2>1
  <2>3. saves[a] # 1
    <3>1. metadata[a].occurrences > 0 /\ metadata[a].occurrences <= saves[a]
      BY <1>5, <1>9 DEF Sound, MetaInv
    <3>2. save.occurrences = 0 => metadata[a].occurrences < saves[a]
      BY <1>5, <1>9 DEF Sound, MetaInv, Counting
    <3>3. save.occurrences # 0 => metadata[a].occurrences = save.occurrences
      BY <1>5 DEF SaveSound
    <3> QED
      BY <1>5, <1>8, <1>9, <2>2, <3>1, <3>2, <3>3
  <2> QED
    BY <2>2, <2>3 DEF FirstUnderway
<1>10. ~Saving(a)' /\ ~FirstUnderway(a)' /\ ~Counting(a)'
  BY <1>3 DEF Saving, FirstUnderway, Counting
<1>11. Sound(a)'
  <2>1. MetaInv(a)'
    <3>1. Complete(a)' <=> Complete(a)
      BY <1>3 DEF Complete
    <3>2. metadata[a] # Absent =>
             /\ metadata[a].occurrences > 0
             /\ metadata[a].occurrences <= saves[a]
             /\ texts[a]["summary"] # Absent /\ texts[a]["program"] # Absent
      BY <1>5 DEF Sound, MetaInv
    <3>3. metadata[a] # Absent /\ ~broken'[a] => Complete(a) /\ metadata[a].whole
      BY <1>5, <1>9 DEF Sound, MetaInv
    <3> QED
      BY <1>3, <1>10, <3>1, <3>2, <3>3 DEF MetaInv
  <2>2. TextInv(a)'
    BY <1>3, <1>5 DEF Sound, TextInv
  <2>3. CatInv(a)'
    BY <1>3, <1>5, <1>9 DEF Sound, CatInv, LedTo
  <2>4. CountInv(a)'
    BY <1>7 DEF CountInv
  <2> QED
    BY <2>1, <2>2, <2>3, <2>4 DEF Sound
<1> QED
  BY <1>1, <1>3, <1>5, <1>6, <1>7, <1>11, OwnStep

(* The catalog is made anew from what is found.                            *)
LEMMA SyncNext ==
    ASSUME ArtifactsAssumption, IInv, Sync
    PROVE  SaveInv' /\ \A b \in Artifacts : Sound(b)'
<1>1. /\ save' = save /\ saves' = saves /\ stops' = stops /\ broken' = broken /\ first' = first
      /\ texts' = texts /\ metadata' = metadata /\ todo' = todo /\ open' = open
      /\ \A a \in Artifacts : catalog'[a] = Synced(a)
  BY DEF Sync
<1>2. SaveInv'
  <2>1. NamesSaved' = NamesSaved
    BY <1>1 DEF NamesSaved
  <2> QED
    BY <1>1, <2>1 DEF IInv, SaveInv, SaveSound, Kept, Step
<1>3. ASSUME NEW a \in Artifacts PROVE Sound(a)'
  <2>1. TypeOK /\ Sound(a)
    BY DEF IInv
  <2>2. /\ FirstUnderway(a)' <=> FirstUnderway(a)
        /\ Counting(a)' <=> Counting(a)
        /\ Saving(a)' <=> Saving(a)
        /\ Step("metadata")' <=> Step("metadata")
    BY <1>1 DEF FirstUnderway, Counting, Saving, Step
  <2>3. MetaInv(a)'
    BY <1>1, <2>1, <2>2 DEF Sound, MetaInv, Complete
  <2>4. TextInv(a)'
    BY <1>1, <2>1 DEF Sound, TextInv
  <2>5. PICK k : k = metadata[a].occurrences
    OBVIOUS
  <2>6. PICK e : e = EntryOf(a, k, FilesFound(a))
    OBVIOUS
  <2>7. metadata[a] # Absent /\ metadata[a].whole => catalog'[a] = e
    BY <1>1, <2>5, <2>6 DEF Synced
  <2>8. ~(metadata[a] # Absent /\ metadata[a].whole) => catalog'[a] = Absent
    BY <1>1 DEF Synced
  <2>9. ASSUME metadata[a] # Absent
        PROVE  /\ e # Absent /\ e.occurrences = k /\ DOMAIN e.preferred = FilesFound(a)
               /\ \A n \in FilesFound(a) : e.preferred[n] = PreferredPath(a, n)
    <3>1. k \in Nat
      BY <2>1, <2>5, <2>9 DEF TypeOK, Metadata
    <3>2. FilesFound(a) \subseteq Names
      BY DEF FilesFound, Names
    <3>3. /\ e \in CatalogEntry /\ e.occurrences = k /\ DOMAIN e.preferred = FilesFound(a)
          /\ \A n \in FilesFound(a) : e.preferred[n] = PreferredPath(a, n)
      BY <2>6, <3>1, <3>2, EntryIs
    <3> QED
      BY <3>3, NoneIsNothing
  <2>10. CatInv(a)'
    <3> SUFFICES ASSUME catalog'[a] # Absent PROVE CatInv(a)'
      BY DEF CatInv
    <3>1. metadata[a] # Absent /\ catalog'[a] = e
      BY <2>7, <2>8
    <3>2. FilesFound(a) \subseteq Always(a) \cup {"log"}
      BY <2>1 DEF Sound, TextInv, FilesFound, Always
    <3>3. ASSUME NEW n \in FilesFound(a) PROVE LedTo(a, n)' # Absent
      <4>1. texts[a][n] # Absent
        BY <2>1, <3>1, <3>3 DEF Sound, MetaInv, FilesFound
      <4>2. e.preferred[n] = "first" => first[a][n] # Absent
        BY <2>9, <3>1, <3>3 DEF PreferredPath
      <4> QED
        BY <1>1, <3>1, <4>1, <4>2 DEF LedTo
    <3>4. ASSUME NEW n \in FilesFound(a) \ {"log"}, ~broken[a], ~FirstUnderway(a)
          PROVE  e.preferred[n] = "first"
      BY <2>1, <2>9, <3>1, <3>2, <3>4, SettledIsComplete
    <3> QED
      BY <1>1, <2>2, <2>9, <3>1, <3>2, <3>3, <3>4 DEF CatInv
  <2>11. CountInv(a)'
    <3>1. ASSUME stops = 0, ~Saving(a), saves[a] > 0
          PROVE  /\ metadata[a] = [whole |-> TRUE, occurrences |-> saves[a]]
                 /\ catalog'[a] # Absent /\ catalog'[a].occurrences = saves[a]
      <4>1. metadata[a] = [whole |-> TRUE, occurrences |-> saves[a]]
        BY <2>1, <3>1 DEF Sound, CountInv
      <4>2. saves[a] \in Nat
        BY <2>1 DEF TypeOK
      <4>3. metadata[a] \in Metadata
        BY <4>1, <4>2 DEF Metadata
      <4>4. metadata[a] # Absent /\ metadata[a].whole /\ k = saves[a]
        <5>1. metadata[a] # Absent
          BY <4>3, NoneIsNothing
        <5>2. metadata[a].whole = TRUE /\ metadata[a].occurrences = saves[a]
          BY ONLY <4>1
        <5> QED
          BY ONLY <2>5, <5>1, <5>2
      <4> QED
        BY <2>7, <2>9, <4>1, <4>4
    <3>2. CountInv(a)
      BY <2>1 DEF Sound
    <3> QED
      BY <1>1, <2>2, <3>1, <3>2 DEF CountInv
  <2> QED
    BY <2>3, <2>4, <2>10, <2>11 DEF Sound
<1> QED
  BY <1>2, <1>3

-----------------------------------------------------------------------------
(* The invariant holds of an empty directory.                              *)
LEMMA InvInit == ArtifactsAssumption /\ FilingInit => IInv
<1> SUFFICES ASSUME ArtifactsAssumption, FilingInit PROVE IInv
  OBVIOUS
<1>1. TypeOK
  <2>1. todo \in Seq(StepSet)
    BY DEF FilingInit
  <2>2. /\ texts \in [Artifacts -> [Names -> File \cup {Absent}]]
        /\ first \in [Artifacts -> [Names -> File \cup {Absent}]]
    BY DEF FilingInit
  <2>3. /\ metadata \in [Artifacts -> Metadata \cup {Absent}]
        /\ catalog \in [Artifacts -> CatalogEntry \cup {Absent}]
        /\ saves \in [Artifacts -> Nat] /\ broken \in [Artifacts -> BOOLEAN]
    BY DEF FilingInit
  <2>4. save \in Save \cup {Absent} /\ open \in BOOLEAN /\ stops \in Nat
    BY DEF FilingInit
  <2> QED
    BY <2>1, <2>2, <2>3, <2>4 DEF TypeOK
<1>2. SaveInv
  BY DEF FilingInit, SaveInv
<1>3. ASSUME NEW a \in Artifacts PROVE Sound(a)
  <2>1. /\ \A n \in Names : texts[a][n] = Absent
        /\ metadata[a] = Absent /\ catalog[a] = Absent /\ saves[a] = 0 /\ save = Absent
    BY DEF FilingInit
  <2> QED
    BY <2>1 DEF Sound, MetaInv, TextInv, CatInv, CountInv, Saving, Counting
<1> QED
  BY <1>1, <1>2, <1>3 DEF IInv

(* Every step preserves the invariant.                                     *)
LEMMA InvNext == ArtifactsAssumption /\ IInv /\ [FilingNext]_filingVars => IInv'
<1> SUFFICES ASSUME ArtifactsAssumption, IInv, [FilingNext]_filingVars PROVE IInv'
  OBVIOUS
<1>1. TypeOK'
  BY TypeNext DEF IInv
<1>2. SaveInv' /\ \A b \in Artifacts : Sound(b)'
  <2>1. ASSUME NEW a \in Artifacts, NEW log \in BOOLEAN, Begin(a, log)
        PROVE  SaveInv' /\ \A b \in Artifacts : Sound(b)'
    BY <2>1, BeginNext
  <2>2. CASE Write
    BY <2>2, WriteNext
  <2>3. CASE WriteMetadata
    BY <2>3, MetadataBegins, MetadataEnds
  <2>4. CASE Copy
    BY <2>4, CopyNext
  <2>5. CASE CopyNothing
    BY <2>5, CopyNothingNext
  <2>6. CASE Catalogue
    BY <2>6, CatalogueNext
  <2>7. CASE Sync
    BY <2>7, SyncNext
  <2>8. CASE Stop
    BY <2>8, StopNext
  <2>9. CASE UNCHANGED filingVars
    <3>1. /\ save' = save /\ saves' = saves /\ stops' = stops /\ broken' = broken /\ first' = first
          /\ texts' = texts /\ metadata' = metadata /\ catalog' = catalog
          /\ todo' = todo /\ open' = open
      BY <2>9 DEF filingVars, disk
    <3>2. SaveInv'
      <4>1. NamesSaved' = NamesSaved
        BY <3>1 DEF NamesSaved
      <4> QED
        BY <3>1, <4>1 DEF IInv, SaveInv, SaveSound, Kept, Step
    <3>3. ASSUME NEW a \in Artifacts PROVE Sound(a)'
      <4>1. /\ FirstUnderway(a)' <=> FirstUnderway(a)
            /\ Counting(a)' <=> Counting(a)
            /\ Saving(a)' <=> Saving(a)
            /\ Step("metadata")' <=> Step("metadata")
        BY <3>1 DEF FirstUnderway, Counting, Saving, Step
      <4>2. Sound(a)
        BY DEF IInv
      <4>3. MetaInv(a)' /\ TextInv(a)'
        BY <3>1, <4>1, <4>2 DEF Sound, MetaInv, TextInv, Complete
      <4>4. CatInv(a)' /\ CountInv(a)'
        BY <3>1, <4>1, <4>2 DEF Sound, CatInv, CountInv, LedTo
      <4> QED
        BY <4>3, <4>4 DEF Sound
    <3> QED
      BY <3>2, <3>3
  <2> QED
    BY <2>1, <2>2, <2>3, <2>4, <2>5, <2>6, <2>7, <2>8, <2>9 DEF FilingNext
<1> QED
  BY <1>1, <1>2 DEF IInv

(* What the invariant says of the catalog.                                 *)
LEMMA InvTellsOfTheCatalog == ArtifactsAssumption /\ IInv => CatalogLeadsToFiles
<1> SUFFICES ASSUME ArtifactsAssumption, IInv PROVE CatalogLeadsToFiles
  OBVIOUS
<1>1. PathsLeadToFiles
  BY DEF PathsLeadToFiles, IInv, Sound, CatInv
<1>2. PreferredAgree
  <2> SUFFICES ASSUME NEW a \in Artifacts, Settled(a), NEW m \in Stable(a), NEW n \in Stable(a)
               PROVE  LedTo(a, m).whole /\ LedTo(a, m).save = LedTo(a, n).save
    BY DEF PreferredAgree
  <2>1. catalog[a] # Absent /\ ~broken[a] /\ ~FirstUnderway(a) /\ Sound(a)
    BY DEF Settled, IInv
  <2>2. /\ metadata[a] # Absent /\ Stable(a) \subseteq Always(a)
        /\ \A x \in Stable(a) : catalog[a].preferred[x] = "first"
    BY <2>1 DEF Sound, CatInv, Stable
  <2>3. Complete(a)
    BY <2>1, <2>2 DEF Sound, MetaInv
  <2>4. /\ \A x \in Stable(a) : LedTo(a, x) = first[a][x]
        /\ \A x \in Stable(a) : first[a][x].whole /\ first[a][x].save = first[a]["summary"].save
    BY <2>2, <2>3 DEF LedTo, Complete
  <2>5. LedTo(a, m) = first[a][m] /\ LedTo(a, n) = first[a][n]
    BY <2>4
  <2>6. /\ first[a][m].whole /\ first[a][m].save = first[a]["summary"].save
        /\ first[a][n].save = first[a]["summary"].save
    BY <2>4
  <2> QED
    BY <2>5, <2>6
<1>3. OccurrencesAreCounted
  <2> SUFFICES ASSUME save = Absent, stops = 0, NEW a \in Artifacts, saves[a] > 0
               PROVE  metadata[a].occurrences = saves[a] /\ catalog[a].occurrences = saves[a]
    BY DEF OccurrencesAreCounted
  <2>1. ~Saving(a) /\ CountInv(a)
    BY DEF Saving, IInv, Sound
  <2>2. /\ metadata[a] = [whole |-> TRUE, occurrences |-> saves[a]]
        /\ catalog[a].occurrences = saves[a]
    BY <2>1 DEF CountInv
  <2> QED
    BY <2>2
<1> QED
  BY <1>1, <1>2, <1>3 DEF CatalogLeadsToFiles

(* What an entry that is made of a settled artifact prefers.               *)
LEMMA StaysPreferred ==
    ASSUME ArtifactsAssumption, IInv, [FilingNext]_filingVars, NEW a \in Artifacts, Settled(a),
           catalog'[a] # Absent, NEW name \in Stable(a), name \in Stable(a)'
    PROVE  catalog'[a].preferred[name] = "first" /\ first'[a][name] = first[a][name]
<1>1. catalog[a] # Absent /\ ~broken[a] /\ ~FirstUnderway(a) /\ Sound(a)
  BY DEF Settled, IInv
<1>2. /\ metadata[a] # Absent /\ name \in Always(a) /\ catalog[a].preferred[name] = "first"
      /\ name \in DOMAIN catalog'[a].preferred
  BY <1>1 DEF Sound, CatInv, Stable
<1>3. PreferredPath(a, name) = "first"
  BY <1>1, <1>2, SettledIsComplete
<1>4. CASE catalog' = catalog /\ first' = first
  BY <1>2, <1>4
<1>5. CASE Copy
  <2>1. /\ save # Absent /\ save.occurrences = 1 /\ catalog' = catalog
        /\ \E n, v : first' = [first EXCEPT ![save.artifact][n] = v]
    BY <1>5 DEF Copy, CopyDue, Step
  <2>2. a # save.artifact
    BY <1>1, <2>1 DEF FirstUnderway
  <2>3. first'[a] = first[a]
    BY <2>1, <2>2 DEF IInv, TypeOK
  <2> QED
    BY <1>2, <2>1, <2>3
<1>6. CASE Catalogue
  <2>1. /\ save # Absent /\ first' = first
        /\ catalog' = [catalog EXCEPT ![save.artifact] =
                          EntryOf(save.artifact, save.occurrences, NamesSaved)]
    BY <1>6 DEF Catalogue, Step
  <2>2. CASE a = save.artifact
    <3>1. catalog'[a] = EntryOf(a, save.occurrences, NamesSaved)
      BY <2>1, <2>2 DEF IInv, TypeOK
    <3>2. save.occurrences \in Nat /\ NamesSaved \subseteq Names
      BY <2>1, OfTheSave
    <3>3. DOMAIN catalog'[a].preferred = NamesSaved
      BY <3>1, <3>2, EntryIs
    <3>4. catalog'[a].preferred[name] = PreferredPath(a, name)
      BY <1>2, <3>1, <3>2, <3>3, EntryIs
    <3> QED
      BY <1>3, <2>1, <3>4
  <2>3. CASE a # save.artifact
    <3>1. catalog'[a] = catalog[a]
      BY <2>1, <2>3 DEF IInv, TypeOK
    <3> QED
      BY <1>2, <2>1, <3>1
  <2> QED
    BY <2>2, <2>3
<1>7. CASE Sync
  <2>1. first' = first /\ catalog'[a] = Synced(a)
    BY <1>7 DEF Sync
  <2>2. catalog'[a] = EntryOf(a, metadata[a].occurrences, FilesFound(a))
    BY <2>1 DEF Synced
  <2>3. metadata[a].occurrences \in Nat /\ FilesFound(a) \subseteq Names
    BY <1>2 DEF IInv, TypeOK, Metadata, FilesFound, Names
  <2>4. DOMAIN catalog'[a].preferred = FilesFound(a)
    BY <2>2, <2>3, EntryIs
  <2>5. catalog'[a].preferred[name] = PreferredPath(a, name)
    BY <1>2, <2>2, <2>3, <2>4, EntryIs
  <2> QED
    BY <1>3, <2>1, <2>5
<1>8. ASSUME NEW b \in Artifacts, NEW log \in BOOLEAN, Begin(b, log)
      PROVE  catalog' = catalog /\ first' = first
  BY <1>8 DEF Begin, disk
<1>9. Write \/ WriteMetadata \/ CopyNothing \/ Stop \/ UNCHANGED filingVars => catalog' = catalog /\ first' = first
  BY DEF Write, WriteMetadata, CopyNothing, Stop, filingVars, disk
<1> QED
  BY <1>4, <1>5, <1>6, <1>7, <1>8, <1>9 DEF FilingNext

(* No step changes what a settled artifact prefers.                        *)
LEMMA StepsKeepThePreferred == ArtifactsAssumption /\ IInv /\ [FilingNext]_filingVars => PreferredStays
<1> SUFFICES ASSUME ArtifactsAssumption, IInv, [FilingNext]_filingVars,
                    NEW a \in Artifacts, Settled(a), catalog'[a] # Absent,
                    NEW name \in Stable(a), name \in Stable(a)'
             PROVE  LedTo(a, name)' = LedTo(a, name)
  BY DEF PreferredStays
<1>1. catalog'[a].preferred[name] = "first" /\ first'[a][name] = first[a][name]
  BY StaysPreferred
<1>2. catalog[a].preferred[name] = "first"
  BY DEF Settled, Stable, IInv, Sound, CatInv
<1> QED
  BY <1>1, <1>2 DEF LedTo

-----------------------------------------------------------------------------
(* Wherever saves were cut short, every path of the catalog leads to a     *)
(* file, and what it prefers of an artifact, once its first occurrence is  *)
(* saved, is whole and of one occurrence, while others are saved; and      *)
(* occurrences are counted (save_crash, save_timeout_with_log,             *)
(* sync_artifact_catalog in crash.rs).                                     *)
THEOREM CatalogLeadsSomewhere == ArtifactsAssumption => (FilingSpec => []CatalogLeadsToFiles)
<1>1. ASSUME ArtifactsAssumption PROVE FilingSpec => []CatalogLeadsToFiles
  <2>1. FilingInit => IInv
    BY <1>1, InvInit
  <2>2. IInv /\ [FilingNext]_filingVars => IInv'
    BY <1>1, InvNext
  <2>3. IInv => CatalogLeadsToFiles
    BY <1>1, InvTellsOfTheCatalog
  <2> QED
    BY <2>1, <2>2, <2>3, PTL DEF FilingSpec
<1> QED
  BY <1>1

(* What the catalog prefers of a settled artifact never changes: no save,  *)
(* stop or sync leads a worker that replays it to another file, or to the  *)
(* same with other contents (snapshot_first_seen_files).                   *)
THEOREM ReplayedFilesStay == ArtifactsAssumption => (FilingSpec => [][PreferredStays]_filingVars)
<1>1. ASSUME ArtifactsAssumption PROVE FilingSpec => [][PreferredStays]_filingVars
  <2>1. FilingInit => IInv
    BY <1>1, InvInit
  <2>2. IInv /\ [FilingNext]_filingVars => IInv'
    BY <1>1, InvNext
  <2>3. IInv /\ [FilingNext]_filingVars => [PreferredStays]_filingVars
    BY <1>1, StepsKeepThePreferred
  <2> QED
    BY <2>1, <2>2, <2>3, PTL DEF FilingSpec
<1> QED
  BY <1>1

-----------------------------------------------------------------------------
(***************************************************************************)
(* Whatever is printed and whatever a title is made of: crashes keep their *)
(* names.  The normal form from a character on has no run left, and does   *)
(* not begin with a longer one than the word has there; so it is its own   *)
(* normal form.  It is what follows, found from the end of the word, that  *)
(* makes it: words that end alike have the same from there on, and what    *)
(* differs behind a character that ends every run makes no difference.     *)
(***************************************************************************)

(* Nonempty sets of naturals have a least element, and a greatest one if   *)
(* they have a bound.                                                      *)
LEMMA SmallestIsLeast ==
    ASSUME NEW S \in SUBSET Nat, S # {}
    PROVE  Smallest(S) \in S /\ \A n \in S : Smallest(S) <= n
<1> DEFINE R == {ss \in Nat \X Nat : ss[1] < ss[2]}
<1>1. IsWellFoundedOn(R, Nat)
  <2>1. OpToRel(<, Nat) = R  BY DEF OpToRel
  <2>2. QED BY <2>1, NatLessThanWellFounded
<1> HIDE DEF R
<1>2. PICK m \in S : \A n \in S : ~ (<<n, m>> \in R)
  BY <1>1, WFMin
<1>3. ASSUME NEW n \in S PROVE m <= n
  <2>1. ~(n < m) BY <1>2 DEF R
  <2> QED BY <2>1
<1> QED BY <1>3 DEF Smallest

LEMMA LargestIsGreatest ==
    ASSUME NEW M \in Nat, NEW S \in SUBSET (0 .. M), S # {}
    PROVE  Largest(S) \in S /\ \A n \in S : n <= Largest(S)
<1> DEFINE T == {M - n : n \in S}
<1>1. T \subseteq Nat
  OBVIOUS
<1>2. T # {}
  OBVIOUS
<1>3. PICK x \in T : \A y \in T : x <= y
  <2> HIDE DEF T
  <2> QED BY <1>2, <1>1, SmallestIsLeast
<1>4. PICK m \in S : x = M - m
  OBVIOUS
<1>5. ASSUME NEW n \in S PROVE n <= m
  <2>1. M - n \in T
    OBVIOUS
  <2>2. x <= M - n
    BY <1>3, <2>1
  <2> QED BY <1>4, <2>2
<1> QED BY <1>5 DEF Largest

(* Greatest elements are unique.                                           *)
LEMMA LargestIs ==
    ASSUME NEW M \in Nat, NEW S \in SUBSET (0 .. M), NEW m \in S, \A n \in S : n <= m
    PROVE  Largest(S) = m
<1>1. PICK x \in S : x = Largest(S) /\ \A n \in S : n <= x
  BY LargestIsGreatest
<1>2. x <= m /\ m <= x /\ x \in Nat /\ m \in Nat
  BY <1>1
<1> QED BY <1>1, <1>2

LEMMA SmallestIs ==
    ASSUME NEW S \in SUBSET Nat, NEW m \in S, \A n \in S : m <= n
    PROVE  Smallest(S) = m
<1>1. PICK x \in S : x = Smallest(S) /\ \A n \in S : x <= n
  BY SmallestIsLeast
<1>2. x <= m /\ m <= x /\ x \in Nat /\ m \in Nat
  BY <1>1
<1> QED BY <1>1, <1>2

-----------------------------------------------------------------------------
(* Titles.                                                                 *)

LEMMA PriorityRange == \A n \in DOMAIN Priority : Priority[n] \in 1 .. 100
BY DEF Priority

LEMMA WeightRange == ASSUME NEW line PROVE Weight(line) \in 0 .. 100
<1> DEFINE found == {n \in DOMAIN Priority : n \in line.needles /\ Excluded(n) \cap line.needles = {}}
           S == {Priority[n] : n \in found}
<1>1. Weight(line) = IF found = {} THEN 0 ELSE Largest(S)
  BY DEF Weight
<1>2. S \subseteq 0 .. 100
  BY PriorityRange
<1>3. CASE found # {}
  <2>1. S # {}
    BY <1>3
  <2> HIDE DEF S
  <2>2. Largest(S) \in S
    BY <1>2, <2>1, LargestIsGreatest
  <2> QED BY <1>1, <1>2, <1>3, <2>2
<1> QED BY <1>1, <1>3

LEMMA StrippedLine ==
    ASSUME NEW line \in Line
    PROVE  /\ Stripped(line) \in Line /\ Stripped(line).needles = line.needles
           /\ Weight(Stripped(line)) = Weight(line)
<1> DEFINE kept == {i \in DOMAIN line.marks : ~Passing(line.marks[i])}
           from == IF kept = {} THEN Len(line.marks) + 1 ELSE Smallest(kept)
<1>1. line.marks \in Seq(Mark) /\ line.needles \in SUBSET STRING
  BY DEF Line
<1>2. from \in 1 .. Len(line.marks) + 1
  <2>1. kept \in SUBSET Nat /\ kept \subseteq 1 .. Len(line.marks)
    BY <1>1
  <2> HIDE DEF kept
  <2>2. kept # {} => Smallest(kept) \in kept
    BY <2>1, SmallestIsLeast
  <2>3. Len(line.marks) \in Nat
    BY <1>1
  <2>4. CASE kept = {}
    BY <2>3, <2>4
  <2>5. CASE kept # {}
    <3>1. PICK k \in 1 .. Len(line.marks) : k = Smallest(kept)
      BY <2>1, <2>2, <2>5
    <3> QED BY <2>3, <2>5, <3>1
  <2> QED BY <2>4, <2>5
<1>3. Stripped(line) = [line EXCEPT !.marks = SubSeq(@, from, Len(@))]
  BY DEF Stripped
<1> HIDE DEF from, kept
<1>4. SubSeq(line.marks, from, Len(line.marks)) \in Seq(Mark)
  BY <1>1, <1>2
<1>5. Stripped(line) \in Line /\ Stripped(line).needles = line.needles
  BY <1>1, <1>3, <1>4 DEF Line
<1> QED BY <1>5 DEF Weight

(* The title is found where the weight is greatest, and nowhere before.    *)
LEMMA TitleIs ==
    ASSUME NEW lines, DOMAIN lines \subseteq Nat, NEW i \in DOMAIN lines, Weight(lines[i]) > 0,
           \A j \in DOMAIN lines : Weight(lines[j]) <= Weight(lines[i]),
           \A j \in DOMAIN lines : j < i => Weight(lines[j]) < Weight(lines[i])
    PROVE  Title(lines) = Stripped(lines[i])
<1> DEFINE V == {Weight(lines[j]) : j \in DOMAIN lines}
           W == V \cup {0}
           B == {j \in DOMAIN lines : Weight(lines[j]) = Weight(lines[i])}
<1>1. \A j \in DOMAIN lines : Weight(lines[j]) \in 0 .. 100
  BY WeightRange
<1>2. Weight(lines[i]) \in 0 .. 100
  BY WeightRange
<1>3. W \subseteq 0 .. 100 /\ Weight(lines[i]) \in W /\ \A n \in W : n <= Weight(lines[i])
  <2>1. V \subseteq 0 .. 100
    BY <1>1
  <2>2. \A n \in V : n <= Weight(lines[i])
    BY <1>1
  <2>3. Weight(lines[i]) \in V
    OBVIOUS
  <2>4. Weight(lines[i]) >= 0
    BY <1>2
  <2> HIDE DEF V
  <2> QED BY <2>1, <2>2, <2>3, <2>4
<1>4. Largest(W) = Weight(lines[i])
  <2> HIDE DEF W
  <2> QED BY <1>3, LargestIs
<1>5. B \subseteq Nat /\ i \in B /\ \A j \in B : i <= j
  <2>1. ASSUME NEW j \in B PROVE ~(j < i)
    <3>1. ASSUME j < i PROVE FALSE
      <4>1. Weight(lines[j]) < Weight(lines[i]) /\ Weight(lines[j]) = Weight(lines[i])
        BY <3>1
      <4>2. Weight(lines[i]) \in Int
        BY <1>2
      <4> QED BY <4>1, <4>2
    <3> QED BY <3>1
  <2>2. B \subseteq Nat /\ i \in B
    OBVIOUS
  <2>3. \A j \in B : j \in Nat
    BY <2>2
  <2>4. \A j \in B : i <= j
    BY <2>1, <2>2, <2>3
  <2> QED BY <2>2, <2>4
<1>6. Smallest(B) = i
  <2> HIDE DEF B
  <2> QED BY <1>5, SmallestIs
<1>7. Title(lines) = IF Largest(W) = 0 THEN NoTitle
                     ELSE Stripped(lines[Smallest({j \in DOMAIN lines : Weight(lines[j]) = Largest(W)})])
  BY DEF Title
<1> HIDE DEF W
<1> QED BY <1>4, <1>6, <1>7

LEMMA NoTitleIs ==
    ASSUME NEW lines, \A j \in DOMAIN lines : Weight(lines[j]) = 0
    PROVE  Title(lines) = NoTitle
<1> DEFINE W == {Weight(lines[j]) : j \in DOMAIN lines} \cup {0}
<1>1. W = {0}
  OBVIOUS
<1>2. Largest(W) = 0
  BY <1>1 DEF Largest
<1> HIDE DEF W
<1>3. Title(lines) = IF Largest(W) = 0 THEN NoTitle
                     ELSE Stripped(lines[Smallest({j \in DOMAIN lines : Weight(lines[j]) = Largest(W)})])
  BY DEF Title, W
<1> QED BY <1>2, <1>3

(* There is such a line unless none says anything.                         *)
LEMMA TitleLine ==
    ASSUME NEW lines, DOMAIN lines \subseteq Nat, NEW j \in DOMAIN lines, Weight(lines[j]) > 0
    PROVE  \E i \in DOMAIN lines :
              /\ Weight(lines[i]) > 0
              /\ \A k \in DOMAIN lines : Weight(lines[k]) <= Weight(lines[i])
              /\ \A k \in DOMAIN lines : k < i => Weight(lines[k]) < Weight(lines[i])
<1> DEFINE W == {Weight(lines[k]) : k \in DOMAIN lines}
           b == Largest(W)
           B == {k \in DOMAIN lines : Weight(lines[k]) = b}
           i == Smallest(B)
<1>1. W \subseteq 0 .. 100 /\ Weight(lines[j]) \in W
  BY WeightRange
<1>2. b \in W /\ \A n \in W : n <= b
  <2> HIDE DEF W
  <2> QED BY <1>1, LargestIsGreatest
<1>3. B \in SUBSET Nat /\ B # {}
  <2> HIDE DEF b
  <2>1. B \subseteq Nat
    OBVIOUS
  <2>2. B # {}
    BY <1>2
  <2> QED BY <2>1, <2>2
<1>4. i \in B /\ \A k \in B : i <= k
  <2> HIDE DEF B
  <2> QED BY <1>3, SmallestIsLeast
<1> HIDE DEF b, i
<1>5. i \in DOMAIN lines /\ Weight(lines[i]) = b
  BY <1>4
<1>6. W \subseteq Int
  <2> HIDE DEF W
  <2> QED BY <1>1
<1>7. b > 0
  <2>1. Weight(lines[j]) <= b /\ Weight(lines[j]) \in Int /\ b \in Int
    BY <1>1, <1>2, <1>6
  <2> QED BY <2>1
<1>8. ASSUME NEW k \in DOMAIN lines PROVE Weight(lines[k]) <= b /\ (k < i => Weight(lines[k]) < b)
  <2>1. Weight(lines[k]) \in W
    OBVIOUS
  <2>2. Weight(lines[k]) <= b
    BY <1>2, <2>1
  <2>3. k < i => Weight(lines[k]) # b
    BY <1>4
  <2>4. Weight(lines[k]) \in Int /\ b \in Int
    BY <1>2, <1>6, <2>1
  <2> QED BY <2>2, <2>3, <2>4
<1> QED BY <1>5, <1>7, <1>8

LEMMA WeightIsNumber == ASSUME NEW line PROVE Weight(line) \in Int /\ Weight(line) >= 0
BY WeightRange

LEMMA TitleOfLonger ==
    ASSUME TitlesAssumption, NEW before, NEW lines, NEW n \in Nat, NEW line \in Line,
           DOMAIN before = 1 .. n, DOMAIN lines = 1 .. n + 1,
           \A k \in 1 .. n : before[k] \in Line /\ lines[k] = before[k], lines[n + 1] = line
    PROVE  Title(lines) = IF Weight(line) > WeightOf(Title(before)) THEN Stripped(line) ELSE Title(before)
<1>1. \A x : Weight(x) \in Int /\ Weight(x) >= 0
  BY ONLY WeightIsNumber
<1>2. \A k \in 1 .. n : k \in 1 .. n + 1
  OBVIOUS
<1>3. \A k \in 1 .. n + 1 : k \in 1 .. n \/ k = n + 1
  OBVIOUS
<1>4. DOMAIN before \subseteq Nat /\ DOMAIN lines \subseteq Nat /\ n + 1 \in DOMAIN lines
  OBVIOUS
<1>5. CASE \A k \in 1 .. n : Weight(before[k]) = 0
  <2>1. WeightOf(Title(before)) = 0 /\ Title(before) = NoTitle
    BY <1>5, NoTitleIs DEF WeightOf
  <2>2. CASE Weight(line) > 0
    <3>1. \A k \in 1 .. n + 1 :
             Weight(lines[k]) <= Weight(lines[n + 1]) /\ (k < n + 1 => Weight(lines[k]) < Weight(lines[n + 1]))
      BY <1>1, <1>3, <1>5, <2>2
    <3>2. Title(lines) = Stripped(lines[n + 1])
      BY <1>4, <2>2, <3>1, TitleIs
    <3> QED BY <2>1, <2>2, <3>2
  <2>3. CASE ~(Weight(line) > 0)
    <3>1. \A k \in 1 .. n + 1 : Weight(lines[k]) = 0
      BY <1>1, <1>3, <1>5, <2>3
    <3>2. Title(lines) = NoTitle
      BY <3>1, NoTitleIs
    <3> QED BY <2>1, <2>3, <3>2
  <2> QED BY <2>2, <2>3
<1>6. CASE \E k \in 1 .. n : Weight(before[k]) # 0
  <2>1. PICK k \in 1 .. n : Weight(before[k]) > 0
    BY <1>1, <1>6
  <2>2. PICK i \in DOMAIN before :
          /\ Weight(before[i]) > 0
          /\ \A j \in DOMAIN before : Weight(before[j]) <= Weight(before[i])
          /\ \A j \in DOMAIN before : j < i => Weight(before[j]) < Weight(before[i])
    BY <1>4, <2>1, TitleLine
  <2>3. i \in 1 .. n /\ i \in DOMAIN lines /\ i < n + 1
    OBVIOUS
  <2>4. Title(before) = Stripped(before[i])
    BY <1>4, <2>2, TitleIs
  <2>5. before[i] \in Line /\ lines[i] = before[i]
    BY <2>3
  <2>6. Stripped(before[i]) # NoTitle
    BY <2>5, StrippedLine DEF TitlesAssumption
  <2>7. WeightOf(Title(before)) = Weight(before[i])
    BY <2>4, <2>5, <2>6, StrippedLine DEF WeightOf
  <2>8. CASE Weight(line) > Weight(before[i])
    <3>1. \A j \in 1 .. n + 1 :
             Weight(lines[j]) <= Weight(lines[n + 1]) /\ (j < n + 1 => Weight(lines[j]) < Weight(lines[n + 1]))
      <4>1. ASSUME NEW j \in 1 .. n PROVE Weight(lines[j]) < Weight(lines[n + 1])
        <5>1. Weight(lines[j]) <= Weight(before[i])
          BY <2>2
        <5> QED BY <1>1, <2>8, <5>1
      <4> QED BY <1>1, <1>3, <4>1
    <3>2. Weight(lines[n + 1]) > 0
      BY <1>1, <2>2, <2>8
    <3>3. Title(lines) = Stripped(lines[n + 1])
      BY <1>4, <3>1, <3>2, TitleIs
    <3> QED BY <2>7, <2>8, <3>3
  <2>9. CASE ~(Weight(line) > Weight(before[i]))
    <3>1. \A j \in 1 .. n + 1 :
             Weight(lines[j]) <= Weight(lines[i]) /\ (j < i => Weight(lines[j]) < Weight(lines[i]))
      <4>1. ASSUME NEW j \in 1 .. n PROVE Weight(lines[j]) <= Weight(lines[i]) /\ (j < i => Weight(lines[j]) < Weight(lines[i]))
        BY <2>2, <2>5
      <4>2. Weight(lines[n + 1]) <= Weight(lines[i]) /\ ~(n + 1 < i)
        BY <1>1, <2>3, <2>5, <2>9
      <4> QED BY <1>3, <4>1, <4>2
    <3>2. Title(lines) = Stripped(lines[i])
      BY <1>4, <2>2, <2>3, <2>5, <3>1, TitleIs
    <3> QED BY <2>4, <2>5, <2>7, <2>9, <3>2
  <2> QED BY <2>8, <2>9
<1> QED BY <1>5, <1>6

LEMMA TitlesAreSettled == ASSUME TitlesAssumption, console \in Seq(Lines) PROVE TitlesSettle
<1> SUFFICES ASSUME console # <<>>
             PROVE  LET line == console[Len(console)]
                        before == Title(SubSeq(console, 1, Len(console) - 1))
                    IN  Title(console) = IF Weight(line) > WeightOf(before) THEN Stripped(line) ELSE before
  BY DEF TitlesSettle
<1> DEFINE n == Len(console) - 1
           before == SubSeq(console, 1, n)
<1>1. n \in Nat /\ Len(console) = n + 1 /\ DOMAIN console = 1 .. n + 1
  OBVIOUS
<1>2. DOMAIN before = 1 .. n
  BY <1>1
<1>3. \A k \in 1 .. n + 1 : console[k] \in Line
  BY <1>1 DEF TitlesAssumption
<1>4. \A k \in 1 .. n : before[k] = console[k]
  BY <1>1
<1>5. \A k \in 1 .. n : before[k] \in Line /\ console[k] = before[k]
  BY <1>1, <1>3, <1>4
<1>6. console[n + 1] \in Line
  BY <1>1, <1>3
<1> HIDE DEF n, before
<1>7. Title(console) = IF Weight(console[n + 1]) > WeightOf(Title(before)) THEN Stripped(console[n + 1]) ELSE Title(before)
  BY ONLY TitlesAssumption, <1>1, <1>2, <1>5, <1>6, TitleOfLonger
<1> QED BY <1>1, <1>7 DEF n, before

LEMMA OtherMarks ==
    ASSUME NEW line, line = [marks |-> line.marks, needles |-> line.needles], NEW m
    PROVE  [line EXCEPT !.marks = m] = [marks |-> m, needles |-> line.needles]
<1>1. DOMAIN line = {"marks", "needles"}
  <2> DEFINE m1 == line.marks
             n1 == line.needles
  <2>1. line = [marks |-> m1, needles |-> n1]
    OBVIOUS
  <2> HIDE DEF m1, n1
  <2> QED BY ONLY <2>1
<1> QED BY ONLY <1>1

(* What is printed in front does not matter, if times come first.          *)
LEMMA StrippedUntimed ==
    ASSUME NEW line \in Line,
           \A j, k \in DOMAIN line.marks : j < k /\ Passing(line.marks[k]) => Passing(line.marks[j])
    PROVE  Stripped(line) = Stripped(Untimed(line)) /\ Weight(Untimed(line)) = Weight(line)
<1> DEFINE m == line.marks
           u == [k \in DOMAIN m |-> IF Passing(m[k]) THEN [m[k] EXCEPT !.value = 0] ELSE m[k]]
           kept == {i \in DOMAIN m : ~Passing(m[i])}
           from == IF kept = {} THEN Len(m) + 1 ELSE Smallest(kept)
<1>1. line = [marks |-> m, needles |-> line.needles] /\ m \in Seq(Mark)
  BY DEF Line
<1>2. Untimed(line) = [marks |-> u, needles |-> line.needles]
  <2>1. line = [marks |-> line.marks, needles |-> line.needles]
    BY <1>1
  <2>2. [line EXCEPT !.marks = u] = [marks |-> u, needles |-> line.needles]
    <3> HIDE DEF u
    <3> QED BY ONLY <2>1, OtherMarks
  <2> QED BY <2>2 DEF Untimed
<1>3. \A k \in DOMAIN m : m[k] \in Mark
  BY <1>1
<1>4. \A k \in DOMAIN m : Passing(u[k]) <=> Passing(m[k])
  BY <1>3 DEF Passing, Mark
<1>5. DOMAIN u = DOMAIN m /\ Len(u) = Len(m)
  BY <1>1
<1>6. {i \in DOMAIN u : ~Passing(u[i])} = kept
  BY <1>4, <1>5
<1>7. Stripped(line) = [marks |-> SubSeq(m, from, Len(m)), needles |-> line.needles]
  <2>1. line = [marks |-> line.marks, needles |-> line.needles]
    BY <1>1
  <2>2. [line EXCEPT !.marks = SubSeq(m, from, Len(m))] = [marks |-> SubSeq(m, from, Len(m)), needles |-> line.needles]
    <3> HIDE DEF from, m
    <3> QED BY ONLY <2>1, OtherMarks
  <2> QED BY <2>2 DEF Stripped
<1>8. Stripped(Untimed(line)) = [marks |-> SubSeq(u, from, Len(m)), needles |-> line.needles]
  <2> DEFINE other == Untimed(line)
             s == SubSeq(u, from, Len(m))
  <2>1. other.marks = u /\ other.needles = line.needles
    BY <1>2
  <2>2. Stripped(other) = [other EXCEPT !.marks = s]
    <3> DEFINE k2 == {i \in DOMAIN other.marks : ~Passing(other.marks[i])}
    <3>1. k2 = kept
      BY <1>6, <2>1
    <3>2. Stripped(other) =
             [other EXCEPT !.marks =
                SubSeq(other.marks, IF k2 = {} THEN Len(other.marks) + 1 ELSE Smallest(k2), Len(other.marks))]
      BY DEF Stripped
    <3> HIDE DEF k2, u, other, kept
    <3> QED BY <1>5, <2>1, <3>1, <3>2
  <2>3. other = [marks |-> other.marks, needles |-> other.needles]
    BY <1>2, <2>1
  <2> HIDE DEF other, s
  <2>4. [other EXCEPT !.marks = s] = [marks |-> s, needles |-> other.needles]
    BY ONLY <2>3, OtherMarks
  <2> QED BY <2>1, <2>2, <2>4 DEF other, s
<1>9. \A k \in from .. Len(m) : u[k] = m[k]
  <2> SUFFICES ASSUME NEW k \in from .. Len(m) PROVE u[k] = m[k]
    OBVIOUS
  <2>1. Len(m) \in Nat /\ DOMAIN m = 1 .. Len(m) /\ kept \in SUBSET Nat
    BY <1>1
  <2>2. CASE kept = {}
    BY <2>1, <2>2
  <2>3. CASE kept # {}
    <3>1. PICK s \in kept : from = s
      <4> HIDE DEF kept
      <4> QED BY <2>1, <2>3, SmallestIsLeast
    <3> HIDE DEF from
    <3>2. s \in DOMAIN m /\ k \in DOMAIN m /\ s <= k
      BY <2>1, <3>1
    <3>3. ~Passing(m[k])
      <4>1. CASE s = k
        BY <3>1, <4>1
      <4>2. CASE s < k
        BY <3>1, <3>2, <4>2
      <4> QED BY <2>1, <3>2, <4>1, <4>2
    <3> QED BY <3>2, <3>3
  <2> QED BY <2>2, <2>3
<1>10. from \in 1 .. Len(m) + 1
  <2>1. Len(m) \in Nat /\ kept \in SUBSET Nat /\ kept \subseteq 1 .. Len(m)
    BY <1>1
  <2>2. CASE kept = {}
    BY <2>1, <2>2
  <2>3. CASE kept # {}
    <3>1. PICK s \in kept : from = s
      <4> HIDE DEF kept
      <4> QED BY <2>1, <2>3, SmallestIsLeast
    <3> HIDE DEF from
    <3> QED BY <2>1, <3>1
  <2> QED BY <2>2, <2>3
<1>11. u \in Seq(Mark)
  <2>1. \A k \in DOMAIN m : u[k] \in Mark
    BY <1>3 DEF Mark
  <2> QED BY <1>1, <2>1
<1>12. SubSeq(u, from, Len(m)) = SubSeq(m, from, Len(m))
  <2> HIDE DEF u, from, m
  <2> QED BY <1>1, <1>5, <1>9, <1>10, <1>11
<1>13. Weight(Untimed(line)) = Weight(line)
  BY <1>2 DEF Weight
<1> HIDE DEF u, from, m
<1> QED BY <1>7, <1>8, <1>12, <1>13

LEMMA TitleOfOthers ==
    ASSUME NEW lines, NEW others, DOMAIN lines \subseteq Nat, DOMAIN others = DOMAIN lines,
           \A i \in DOMAIN lines : Weight(others[i]) = Weight(lines[i]) /\ Stripped(others[i]) = Stripped(lines[i])
    PROVE  Title(others) = Title(lines)
<1>1. \A x : Weight(x) \in Int /\ Weight(x) >= 0
  BY ONLY WeightIsNumber
<1>2. CASE \A i \in DOMAIN lines : Weight(lines[i]) = 0
  <2>1. Title(lines) = NoTitle
    BY <1>2, NoTitleIs
  <2>2. Title(others) = NoTitle
    BY <1>2, NoTitleIs
  <2> QED BY <2>1, <2>2
<1>3. CASE \E j \in DOMAIN lines : Weight(lines[j]) > 0
  <2>1. PICK i \in DOMAIN lines :
          /\ Weight(lines[i]) > 0
          /\ \A j \in DOMAIN lines : Weight(lines[j]) <= Weight(lines[i])
          /\ \A j \in DOMAIN lines : j < i => Weight(lines[j]) < Weight(lines[i])
    BY <1>3, TitleLine
  <2>2. Title(lines) = Stripped(lines[i])
    BY <2>1, TitleIs
  <2>3. /\ Weight(others[i]) > 0
        /\ \A j \in DOMAIN others : Weight(others[j]) <= Weight(others[i])
        /\ \A j \in DOMAIN others : j < i => Weight(others[j]) < Weight(others[i])
    BY <2>1
  <2>4. Title(others) = Stripped(others[i])
    BY <2>3, TitleIs
  <2> QED BY <2>2, <2>4
<1> QED BY <1>1, <1>2, <1>3

LEMMA TimesPass == ASSUME TitlesAssumption, console \in Seq(Lines) PROVE TimesDoNotMatter
<1> SUFFICES ASSUME \A i \in DOMAIN console : \A j, k \in DOMAIN console[i].marks :
                       j < k /\ Passing(console[i].marks[k]) => Passing(console[i].marks[j])
             PROVE  Title(console) = Title([i \in DOMAIN console |-> Untimed(console[i])])
  BY DEF TimesDoNotMatter
<1> DEFINE others == [i \in DOMAIN console |-> Untimed(console[i])]
<1>1. DOMAIN console \subseteq Nat /\ DOMAIN others = DOMAIN console
  OBVIOUS
<1>2. \A i \in DOMAIN console : console[i] \in Line
  BY DEF TitlesAssumption
<1>3. \A i \in DOMAIN console : Weight(others[i]) = Weight(console[i]) /\ Stripped(others[i]) = Stripped(console[i])
  BY <1>2, StrippedUntimed
<1> HIDE DEF others
<1>4. Title(others) = Title(console)
  BY ONLY <1>1, <1>3, TitleOfOthers
<1> QED BY <1>4 DEF others

LEMMA BannersSayNothing == ASSUME console \in Seq(Lines) PROVE BannersAreNoCrash
<1> SUFFICES ASSUME \A i \in DOMAIN console :
                       "initialized" \in console[i].needles /\ console[i].needles \subseteq {"kasan", "initialized"}
             PROVE  Title(console) = NoTitle
  BY DEF BannersAreNoCrash
<1>1. ASSUME NEW line, "initialized" \in line.needles, line.needles \subseteq {"kasan", "initialized"}
      PROVE  Weight(line) = 0
  <2>1. {n \in DOMAIN Priority : n \in line.needles /\ Excluded(n) \cap line.needles = {}} = {}
    <3>1. "initialized" \notin DOMAIN Priority
      BY DEF Priority
    <3> QED BY <1>1, <3>1 DEF Excluded
  <2> QED BY <2>1 DEF Weight
<1>2. \A i \in DOMAIN console : Weight(console[i]) = 0
  BY <1>1
<1> QED BY <1>2, NoTitleIs

-----------------------------------------------------------------------------
(* What is hashed.                                                         *)

(* What may be hashed in these properties.                                 *)
Texts == Characters \cup Vague \cup {PartEnd, "crash", "timeout", "bug", "hang", "p"}

LEMMA InTexts ==
    /\ Characters \subseteq Texts /\ Vague \subseteq Texts
    /\ PartEnd \in Texts /\ "crash" \in Texts /\ "timeout" \in Texts
    /\ "bug" \in Texts /\ "hang" \in Texts /\ "p" \in Texts
BY DEF Texts

LEMMA Strung ==
    ASSUME NEW s \in Seq(Texts), NEW t \in Seq(Texts), NEW u, u = s \o t
    PROVE  /\ u \in Seq(Texts) /\ Len(u) = Len(s) + Len(t)
           /\ Len(s) \in Nat /\ Len(t) \in Nat
           /\ \A m \in 1 .. Len(s) : u[m] = s[m]
           /\ \A m \in 1 .. Len(t) : u[Len(s) + m] = t[m]
OBVIOUS

Ends(e, p) == e = Append(p, PartEnd)

LEMMA EndedProps ==
    ASSUME NEW p \in Seq(Texts), NEW e, Ends(e, p)
    PROVE  /\ e \in Seq(Texts) /\ Len(e) = Len(p) + 1 /\ Len(p) \in Nat
           /\ \A m \in 1 .. Len(p) : e[m] = p[m]
           /\ e[Len(p) + 1] = PartEnd
BY InTexts DEF Ends

Joins(t, s, e) == t = s \o e
LEMMA JoinedEnd ==
    ASSUME NEW s \in Seq(Texts), NEW p \in Seq(Texts), NEW e, Ends(e, p), NEW t, Joins(t, s, e)
    PROVE  /\ t \in Seq(Texts) /\ Len(t) = Len(s) + Len(p) + 1 /\ Len(s) \in Nat /\ Len(p) \in Nat
           /\ \A m \in 1 .. Len(s) : t[m] = s[m]
           /\ \A m \in 1 .. Len(p) : t[Len(s) + m] = p[m]
           /\ t[Len(s) + Len(p) + 1] = PartEnd
<1>1. /\ e \in Seq(Texts) /\ Len(e) = Len(p) + 1 /\ Len(p) \in Nat
      /\ \A m \in 1 .. Len(p) : e[m] = p[m]
      /\ e[Len(p) + 1] = PartEnd
  BY EndedProps
<1>2. /\ t \in Seq(Texts) /\ Len(t) = Len(s) + Len(e) /\ Len(s) \in Nat
      /\ \A m \in 1 .. Len(s) : t[m] = s[m]
      /\ \A m \in 1 .. Len(e) : t[Len(s) + m] = e[m]
  <2>1. e \in Seq(Texts)
    BY <1>1
  <2> QED BY ONLY s \in Seq(Texts), Joins(t, s, e), <2>1, Strung DEF Joins
<1>3. ASSUME NEW m \in 1 .. Len(p) PROVE t[Len(s) + m] = p[m]
  <2>1. m \in 1 .. Len(e)
    BY ONLY <1>1, m \in 1 .. Len(p)
  <2> QED BY ONLY <1>1, <1>2, <2>1, m \in 1 .. Len(p)
<1>4. t[Len(s) + Len(p) + 1] = PartEnd
  <2>1. Len(p) + 1 \in 1 .. Len(e) /\ Len(s) + (Len(p) + 1) = Len(s) + Len(p) + 1
    BY ONLY <1>1, <1>2
  <2> QED BY ONLY <1>1, <1>2, <2>1
<1>5. Len(t) = Len(s) + Len(p) + 1
  BY ONLY <1>1, <1>2
<1> QED BY ONLY <1>1, <1>2, <1>3, <1>4, <1>5

IsHash(h, kind, name, shape, profile, context) == h = Hashed(kind, name, shape, profile, context)

LEMMA HashedProps ==
    ASSUME NEW kind \in Texts, NEW name \in Texts,
           NEW shape \in Seq(Texts), NEW profile \in Seq(Texts), NEW context \in Seq(Texts),
           NEW h, IsHash(h, kind, name, shape, profile, context)
    PROVE  /\ h \in Seq(Texts)
           /\ Len(h) = 7 + Len(shape) + Len(profile) + Len(context)
           /\ \A m \in 1 .. Len(shape) : h[4 + m] = shape[m]
           /\ h[5 + Len(shape)] = PartEnd
           /\ \A m \in 1 .. Len(context) : h[6 + Len(shape) + Len(profile) + m] = context[m]
<1> DEFINE k == <<kind>>
           n == <<name>>
           eK == Append(k, PartEnd)
           eN == Append(n, PartEnd)
           eS == Append(shape, PartEnd)
           eP == Append(profile, PartEnd)
           eC == Append(context, PartEnd)
           a == eK \o eN
           b == a \o eS
           d == b \o eP
           nS == Len(shape)
           nP == Len(profile)
           nC == Len(context)
<1>1. /\ k \in Seq(Texts) /\ n \in Seq(Texts) /\ Len(k) = 1 /\ Len(n) = 1
  OBVIOUS
<1>2. Joins(h, d, eC)
  BY DEF IsHash, Hashed, Ended, Joins
<1>3. /\ Ends(eK, k) /\ Ends(eN, n) /\ Ends(eS, shape)
      /\ Ends(eP, profile) /\ Ends(eC, context)
      /\ Joins(a, eK, eN) /\ Joins(b, a, eS) /\ Joins(d, b, eP)
  BY DEF Ends, Joins
<1> HIDE DEF k, n, eK, eN, eS, eP, eC, a, b, d
<1>4. /\ k \in Seq(Texts) /\ n \in Seq(Texts)
      /\ shape \in Seq(Texts) /\ profile \in Seq(Texts) /\ context \in Seq(Texts)
  BY <1>1
<1>5. Len(k) = 1 /\ Len(n) = 1
  BY <1>1
<1>6. nS = Len(shape) /\ nP = Len(profile) /\ nC = Len(context)
  OBVIOUS
<1>7. nS \in Nat /\ nP \in Nat /\ nC \in Nat
  OBVIOUS
<1> HIDE DEF nS, nP, nC
<1>8. eK \in Seq(Texts) /\ Len(eK) = 2
  <2>1. eK \in Seq(Texts) /\ Len(eK) = Len(k) + 1
    BY ONLY <1>3, <1>4, EndedProps
  <2> QED BY ONLY <2>1, <1>5
<1>9. a \in Seq(Texts) /\ Len(a) = 4
  <2>1. eK \in Seq(Texts)
    BY ONLY <1>8
  <2>2. a \in Seq(Texts) /\ Len(a) = Len(eK) + Len(n) + 1
    BY ONLY <2>1, <1>3, <1>4, JoinedEnd
  <2> QED BY ONLY <1>8, <2>2, <1>5
<1>10. /\ b \in Seq(Texts) /\ Len(b) = 5 + nS
       /\ \A m \in 1 .. nS : b[4 + m] = shape[m]
       /\ b[5 + nS] = PartEnd
  <2>1. a \in Seq(Texts)
    BY ONLY <1>9
  <2>2. /\ b \in Seq(Texts) /\ Len(b) = Len(a) + Len(shape) + 1
        /\ \A m \in 1 .. Len(shape) : b[Len(a) + m] = shape[m]
        /\ b[Len(a) + Len(shape) + 1] = PartEnd
    BY ONLY <2>1, <1>3, <1>4, JoinedEnd
  <2>3. Len(a) + nS + 1 = 5 + nS
    BY <1>7, <1>9
  <2> QED BY ONLY <1>7, <1>9, <2>2, <2>3, <1>6
<1>11. /\ d \in Seq(Texts) /\ Len(d) = 6 + nS + nP
       /\ \A m \in 1 .. 5 + nS : d[m] = b[m]
  <2>1. b \in Seq(Texts)
    BY ONLY <1>10
  <2>2. /\ d \in Seq(Texts) /\ Len(d) = Len(b) + Len(profile) + 1
        /\ \A m \in 1 .. Len(b) : d[m] = b[m]
    BY ONLY <2>1, <1>3, <1>4, JoinedEnd
  <2> QED BY ONLY <1>7, <1>10, <2>2, <1>6
<1>12. /\ h \in Seq(Texts) /\ Len(h) = 7 + nS + nP + nC
       /\ \A m \in 1 .. 6 + nS + nP : h[m] = d[m]
       /\ \A m \in 1 .. nC : h[6 + nS + nP + m] = context[m]
  <2>1. d \in Seq(Texts)
    BY ONLY <1>11
  <2>2. /\ h \in Seq(Texts) /\ Len(h) = Len(d) + Len(context) + 1
        /\ \A m \in 1 .. Len(d) : h[m] = d[m]
        /\ \A m \in 1 .. Len(context) : h[Len(d) + m] = context[m]
    BY ONLY <2>1, <1>2, <1>3, <1>4, JoinedEnd
  <2>3. Len(h) = 7 + nS + nP + nC
    BY ONLY <1>7, <1>11, <2>2, <1>6
  <2>4. Len(d) = 6 + nS + nP
    BY ONLY <1>11
  <2> QED BY ONLY <2>2, <2>3, <2>4, <1>6
<1>13. ASSUME NEW m \in 1 .. 5 + nS PROVE h[m] = b[m]
  <2>1. m \in 1 .. 6 + nS + nP
    BY ONLY <1>7, m \in 1 .. 5 + nS
  <2> QED BY ONLY <1>11, <1>12, <2>1, m \in 1 .. 5 + nS
<1>14. ASSUME NEW m \in 1 .. nS PROVE h[4 + m] = shape[m]
  <2>1. 4 + m \in 1 .. 5 + nS
    BY ONLY <1>7, m \in 1 .. nS
  <2> QED BY ONLY <1>10, <1>13, <2>1, m \in 1 .. nS
<1>15. h[5 + nS] = PartEnd
  <2>1. 5 + nS \in 1 .. 5 + nS
    BY ONLY <1>7
  <2> QED BY ONLY <1>10, <1>13, <2>1
<1> QED BY ONLY <1>12, <1>14, <1>15, <1>6

(* The same hash of the same parts is of the same context.                 *)
LEMMA HashedContext ==
    ASSUME NEW kind \in Texts, NEW name \in Texts, NEW shape \in Seq(Texts), NEW profile \in Seq(Texts),
           NEW c1 \in Seq(Texts), NEW c2 \in Seq(Texts),
           Hashed(kind, name, shape, profile, c1) = Hashed(kind, name, shape, profile, c2)
    PROVE  c1 = c2
<1> DEFINE h == Hashed(kind, name, shape, profile, c1)
           at == 6 + Len(shape) + Len(profile)
<1>1. IsHash(h, kind, name, shape, profile, c1) /\ IsHash(h, kind, name, shape, profile, c2)
  BY DEF IsHash
<1> HIDE DEF h
<1>2. /\ Len(h) = 7 + Len(shape) + Len(profile) + Len(c1)
      /\ \A m \in 1 .. Len(c1) : h[at + m] = c1[m]
  BY <1>1, HashedProps
<1>3. /\ Len(h) = 7 + Len(shape) + Len(profile) + Len(c2)
      /\ \A m \in 1 .. Len(c2) : h[at + m] = c2[m]
  BY <1>1, HashedProps
<1>4. Len(shape) \in Nat /\ Len(profile) \in Nat /\ Len(c1) \in Nat /\ Len(c2) \in Nat
  OBVIOUS
<1> HIDE DEF at
<1>5. Len(c1) = Len(c2)
  BY <1>2, <1>3, <1>4
<1>6. \A m \in 1 .. Len(c1) : c1[m] = c2[m]
  BY <1>2, <1>3, <1>5
<1> QED BY <1>5, <1>6

LEMMA CutsAreToldApart ==
    ASSUME TitlesAssumption, NEW w \in Seq(Characters), NEW i \in 0 .. Len(w), NEW j \in 0 .. Len(w), i < j,
           TimeoutSignature("hang", SubSeq(w, 1, i), SubSeq(w, i + 1, Len(w)), <<>>) =
              TimeoutSignature("hang", SubSeq(w, 1, j), SubSeq(w, j + 1, Len(w)), <<>>)
    PROVE  FALSE
<1>1. Characters \subseteq Texts /\ "timeout" \in Texts /\ "hang" \in Texts
  BY InTexts
<1>2. ASSUME NEW k \in 0 .. Len(w)
      PROVE  LET h == TimeoutSignature("hang", SubSeq(w, 1, k), SubSeq(w, k + 1, Len(w)), <<>>)
             IN  h[5 + k] = PartEnd /\ \A m \in 1 .. k : h[4 + m] = w[m]
  <2> DEFINE h == TimeoutSignature("hang", SubSeq(w, 1, k), SubSeq(w, k + 1, Len(w)), <<>>)
             s == SubSeq(w, 1, k)
             p == SubSeq(w, k + 1, Len(w))
             kind == "timeout"
             name == "hang"
             context == <<>>
  <2>1. s \in Seq(Characters) /\ Len(s) = k /\ \A m \in 1 .. k : s[m] = w[m]
    OBVIOUS
  <2>2. p \in Seq(Characters)
    OBVIOUS
  <2>3. s \in Seq(Texts) /\ p \in Seq(Texts) /\ <<>> \in Seq(Texts)
    <3> HIDE DEF s, p
    <3> QED BY <1>1, <2>1, <2>2
  <2>4. IsHash(h, kind, name, s, p, context)
    BY DEF IsHash, TimeoutSignature, ProgramContext
  <2>5. kind \in Texts /\ name \in Texts /\ context \in Seq(Texts)
    BY <1>1
  <2> HIDE DEF h, s, p, kind, name, context
  <2>6. (\A m \in 1 .. Len(s) : h[4 + m] = s[m]) /\ h[5 + Len(s)] = PartEnd
    BY <2>3, <2>4, <2>5, HashedProps
  <2>7. h[5 + k] = PartEnd /\ \A m \in 1 .. k : h[4 + m] = w[m]
    BY <2>1, <2>6
  <2> QED BY <2>7 DEF h
<1> DEFINE h == TimeoutSignature("hang", SubSeq(w, 1, i), SubSeq(w, i + 1, Len(w)), <<>>)
<1>3. h[5 + i] = PartEnd
  BY <1>2
<1>4. \A m \in 1 .. j : h[4 + m] = w[m]
  BY <1>2
<1> HIDE DEF h
<1>5. i + 1 \in 1 .. j /\ 4 + (i + 1) = 5 + i /\ w[i + 1] \in Characters
  OBVIOUS
<1>6. w[i + 1] = PartEnd
  BY <1>3, <1>4, <1>5
<1> QED BY <1>5, <1>6 DEF TitlesAssumption

LEMMA PartsApart == ASSUME TitlesAssumption, word \in Seq(Characters) PROVE PartsAreToldApart
<1> SUFFICES ASSUME NEW i \in 0 .. Len(word), NEW j \in 0 .. Len(word),
                    TimeoutSignature("hang", SubSeq(word, 1, i), SubSeq(word, i + 1, Len(word)), <<>>) =
                       TimeoutSignature("hang", SubSeq(word, 1, j), SubSeq(word, j + 1, Len(word)), <<>>)
             PROVE  i = j
  BY DEF PartsAreToldApart
<1>1. ~(i < j)
  BY CutsAreToldApart
<1>2. ~(j < i)
  BY CutsAreToldApart
<1> QED BY <1>1, <1>2

LEMMA NotesAreNone == ASSUME word \in Seq(Characters) PROVE NotesAreNotPrograms
<1> SUFFICES ASSUME word # <<>>
             PROVE  LET c == word[1]
                        shape == Tail(word)
                    IN  \A summary \in Vague \cup {"bug"}, d \in Characters :
                        /\ CrashSignature(summary, <<>>, <<>>, <<"(", c>>) = CrashSignature(summary, <<>>, <<>>, <<"(", d>>)
                        /\ (CrashSignature(summary, shape, <<>>, <<c>>) = CrashSignature(summary, shape, <<>>, <<d>>))
                               <=> (summary \notin Vague \/ c = d)
                        /\ (TimeoutSignature(summary, shape, <<"p">>, <<c>>) = TimeoutSignature(summary, shape, <<"p">>, <<d>>))
                               <=> (shape # <<>> \/ c = d)
  BY DEF NotesAreNotPrograms
<1> DEFINE c == word[1]
           shape == Tail(word)
<1>1. c \in Characters /\ shape \in Seq(Characters)
  OBVIOUS
<1> HIDE DEF c, shape
<1> SUFFICES ASSUME NEW summary \in Vague \cup {"bug"}, NEW d \in Characters
             PROVE  /\ CrashSignature(summary, <<>>, <<>>, <<"(", c>>) = CrashSignature(summary, <<>>, <<>>, <<"(", d>>)
                    /\ (CrashSignature(summary, shape, <<>>, <<c>>) = CrashSignature(summary, shape, <<>>, <<d>>))
                           <=> (summary \notin Vague \/ c = d)
                    /\ (TimeoutSignature(summary, shape, <<"p">>, <<c>>) = TimeoutSignature(summary, shape, <<"p">>, <<d>>))
                           <=> (shape # <<>> \/ c = d)
  BY DEF c, shape
<1>2. /\ Characters \subseteq Texts /\ "timeout" \in Texts /\ "crash" \in Texts /\ "p" \in Texts
      /\ summary \in Texts
  BY InTexts
<1>3. shape \in Seq(Texts) /\ <<>> \in Seq(Texts) /\ <<"p">> \in Seq(Texts) /\ c \in Texts /\ d \in Texts
  BY <1>1, <1>2
<1>4. ProgramContext(<<c>>) = (IF c = "(" THEN <<>> ELSE <<c>>) /\ ProgramContext(<<d>>) = (IF d = "(" THEN <<>> ELSE <<d>>)
  BY DEF ProgramContext
<1>5. ProgramContext(<<c>>) \in Seq(Texts) /\ ProgramContext(<<d>>) \in Seq(Texts)
  <2>1. <<c>> \in Seq(Texts) /\ <<d>> \in Seq(Texts)
    BY <1>3
  <2> QED BY <1>3, <1>4, <2>1
<1>6. ProgramContext(<<c>>) = ProgramContext(<<d>>) => c = d
  BY <1>4
<1>7. CrashSignature(summary, <<>>, <<>>, <<"(", c>>) = CrashSignature(summary, <<>>, <<>>, <<"(", d>>)
  <2>1. ProgramContext(<<"(", c>>) = <<>> /\ ProgramContext(<<"(", d>>) = <<>>
    BY DEF ProgramContext
  <2> QED BY <2>1 DEF CrashSignature
<1>8. (CrashSignature(summary, shape, <<>>, <<c>>) = CrashSignature(summary, shape, <<>>, <<d>>))
         <=> (summary \notin Vague \/ c = d)
  <2>1. CASE summary \notin Vague
    BY <2>1 DEF CrashSignature
  <2>2. CASE summary \in Vague
    <3>1. CrashSignature(summary, shape, <<>>, <<c>>) = CrashSignature(summary, shape, <<>>, <<d>>)
             => ProgramContext(<<c>>) = ProgramContext(<<d>>)
      <4> DEFINE p == ProgramContext(<<c>>)
                 q == ProgramContext(<<d>>)
      <4>1. CrashSignature(summary, shape, <<>>, <<c>>) = Hashed("crash", summary, shape, <<>>, p)
        BY <2>2 DEF CrashSignature
      <4>2. CrashSignature(summary, shape, <<>>, <<d>>) = Hashed("crash", summary, shape, <<>>, q)
        BY <2>2 DEF CrashSignature
      <4>3. p \in Seq(Texts) /\ q \in Seq(Texts)
        BY <1>5
      <4> HIDE DEF p, q
      <4>4. Hashed("crash", summary, shape, <<>>, p) = Hashed("crash", summary, shape, <<>>, q) => p = q
        BY <1>2, <1>3, <4>3, HashedContext
      <4> QED BY <4>1, <4>2, <4>4 DEF p, q
    <3> QED BY <1>6, <2>2, <3>1
  <2> QED BY <2>1, <2>2
<1>9. (TimeoutSignature(summary, shape, <<"p">>, <<c>>) = TimeoutSignature(summary, shape, <<"p">>, <<d>>))
         <=> (shape # <<>> \/ c = d)
  <2>1. <<"p">> \notin {<<>>, <<"(none)">>}
    OBVIOUS
  <2>2. CASE shape # <<>>
    BY <2>1, <2>2 DEF TimeoutSignature
  <2>3. CASE shape = <<>>
    <3>1. TimeoutSignature(summary, shape, <<"p">>, <<c>>) = TimeoutSignature(summary, shape, <<"p">>, <<d>>)
             => ProgramContext(<<c>>) = ProgramContext(<<d>>)
      <4> DEFINE p == ProgramContext(<<c>>)
                 q == ProgramContext(<<d>>)
      <4>1. TimeoutSignature(summary, shape, <<"p">>, <<c>>) = Hashed("timeout", summary, shape, <<"p">>, p)
        BY <2>3 DEF TimeoutSignature
      <4>2. TimeoutSignature(summary, shape, <<"p">>, <<d>>) = Hashed("timeout", summary, shape, <<"p">>, q)
        BY <2>3 DEF TimeoutSignature
      <4>3. p \in Seq(Texts) /\ q \in Seq(Texts)
        BY <1>5
      <4> HIDE DEF p, q
      <4>4. Hashed("timeout", summary, shape, <<"p">>, p) = Hashed("timeout", summary, shape, <<"p">>, q) => p = q
        BY <1>2, <1>3, <4>3, HashedContext
      <4> QED BY <4>1, <4>2, <4>4 DEF p, q
    <3> QED BY <1>6, <2>3, <3>1
  <2> QED BY <2>2, <2>3
<1> QED BY <1>7, <1>8, <1>9

-----------------------------------------------------------------------------
(* Runs of characters.                                                     *)

(* What holds of k if it holds of all numbers from there to n holds of all.*)
LEMMA Downward ==
    ASSUME NEW l \in Nat, NEW n \in Nat, NEW A,
           \A k \in l .. n : (\A m \in k + 1 .. n : m \in A) => k \in A
    PROVE  \A k \in l .. n : k \in A
<1> DEFINE bad == {k \in l .. n : k \notin A}
<1>1. SUFFICES ASSUME bad # {} PROVE FALSE
  OBVIOUS
<1>2. bad \in SUBSET (0 .. n)
  OBVIOUS
<1>3. PICK k \in bad : \A m \in bad : m <= k
  <2> HIDE DEF bad
  <2> QED BY <1>1, <1>2, LargestIsGreatest
<1>4. k \in l .. n /\ k \notin A
  BY <1>3
<1>5. ASSUME NEW m \in k + 1 .. n PROVE m \in A
  <2>1. m \in l .. n /\ ~(m <= k)
    BY <1>4
  <2> QED BY <1>3, <2>1
<1> QED BY <1>4, <1>5

(* Characters of words and of their normal forms.                          *)
Chars == Characters \cup {"0", "7", "a", "x", "<", "h", "e", ">", "n", "u", "m"}

IsRun(w, i, S, r) ==
    /\ r \in Nat /\ i + r <= Len(w) + 1
    /\ \A j \in i .. i + r - 1 : w[j] \in S
    /\ i + r <= Len(w) => w[i + r] \notin S

LEMMA RunLengthIsRun ==
    ASSUME NEW w, Len(w) \in Nat, NEW i \in 1 .. Len(w) + 1, NEW S
    PROVE  IsRun(w, i, S, RunLength(w, i, S))
<1> DEFINE ends == {j \in i .. Len(w) : w[j] \notin S}
           n == Len(w)
<1>1. RunLength(w, i, S) = (IF ends = {} THEN n + 1 ELSE Smallest(ends)) - i
  BY DEF RunLength
<1>2. CASE ends = {}
  <2>1. RunLength(w, i, S) = n + 1 - i
    BY <1>1, <1>2
  <2>2. \A j \in i .. n : w[j] \in S
    BY <1>2
  <2>3. i + (n + 1 - i) = n + 1 /\ n + 1 - i \in Nat
    OBVIOUS
  <2> HIDE DEF n, ends
  <2> QED BY <2>1, <2>2, <2>3 DEF IsRun, n
<1>3. CASE ends # {}
  <2>1. PICK s \in ends : s = Smallest(ends) /\ \A j \in ends : s <= j
    <3>1. ends \in SUBSET Nat
      OBVIOUS
    <3> HIDE DEF ends
    <3> QED BY <1>3, <3>1, SmallestIsLeast
  <2>2. RunLength(w, i, S) = s - i
    <3> HIDE DEF ends
    <3> QED BY <1>1, <1>3, <2>1
  <2>3. s \in i .. n /\ w[s] \notin S
    OBVIOUS
  <2>4. ASSUME NEW j \in i .. s - 1 PROVE w[j] \in S
    <3>1. j \in i .. n /\ ~(s <= j)
      BY <2>3
    <3> QED BY <2>1, <3>1
  <2>5. i + (s - i) = s /\ s - i \in Nat /\ s <= n + 1
    BY <2>3
  <2> HIDE DEF ends, n
  <2> QED BY <2>2, <2>3, <2>4, <2>5 DEF IsRun, n
<1> QED BY <1>2, <1>3

LEMMA RunsAreUnique ==
    ASSUME NEW w, Len(w) \in Nat, NEW i \in 1 .. Len(w) + 1, NEW S,
           NEW r, IsRun(w, i, S, r), NEW q, IsRun(w, i, S, q)
    PROVE  r = q
<1>1. ASSUME NEW a, IsRun(w, i, S, a), NEW b, IsRun(w, i, S, b), a < b PROVE FALSE
  <2>1. a \in Nat /\ b \in Nat /\ i + b <= Len(w) + 1
    BY <1>1 DEF IsRun
  <2>2. i + a \in i .. i + b - 1 /\ i + a <= Len(w)
    BY <1>1, <2>1
  <2>3. w[i + a] \in S
    BY <1>1, <2>2 DEF IsRun
  <2>4. w[i + a] \notin S
    BY <1>1, <2>2 DEF IsRun
  <2> QED BY <2>3, <2>4
<1>2. r \in Nat /\ q \in Nat
  BY DEF IsRun
<1>3. ~(r < q) /\ ~(q < r)
  BY <1>1
<1> QED BY <1>2, <1>3

LEMMA RunLengthIs ==
    ASSUME NEW w, Len(w) \in Nat, NEW i \in 1 .. Len(w) + 1, NEW S, NEW r, IsRun(w, i, S, r)
    PROVE  RunLength(w, i, S) = r
BY RunLengthIsRun, RunsAreUnique

LEMMA RunLengthRange ==
    ASSUME NEW w, Len(w) \in Nat, NEW i \in 1 .. Len(w) + 1, NEW S
    PROVE  RunLength(w, i, S) \in Nat /\ i + RunLength(w, i, S) <= Len(w) + 1
BY RunLengthIsRun DEF IsRun

(* A run is a character longer than the one that starts behind it.         *)
LEMMA RunLengthHere ==
    ASSUME NEW w, Len(w) \in Nat, NEW i \in 1 .. Len(w), NEW S
    PROVE  RunLength(w, i, S) = IF w[i] \in S THEN 1 + RunLength(w, i + 1, S) ELSE 0
<1>1. i \in 1 .. Len(w) + 1 /\ i + 1 \in 1 .. Len(w) + 1
  OBVIOUS
<1>2. CASE w[i] \in S
  <2> DEFINE r == RunLength(w, i + 1, S)
  <2>1. IsRun(w, i + 1, S, r)
    BY <1>1, RunLengthIsRun
  <2> HIDE DEF r
  <2>2. IsRun(w, i, S, 1 + r)
    <3>1. r \in Nat /\ i + 1 + r <= Len(w) + 1 /\ (\A j \in i + 1 .. i + 1 + r - 1 : w[j] \in S)
      BY <2>1 DEF IsRun
    <3>2. i + 1 + r <= Len(w) => w[i + 1 + r] \notin S
      BY <2>1 DEF IsRun
    <3>3. \A j \in i .. i + (1 + r) - 1 : w[j] \in S
      <4> SUFFICES ASSUME NEW j \in i .. i + (1 + r) - 1 PROVE w[j] \in S
        OBVIOUS
      <4>1. j = i \/ j \in i + 1 .. i + 1 + r - 1
        BY <3>1
      <4> QED BY <1>2, <3>1, <4>1
    <3>4. i + (1 + r) = i + 1 + r /\ 1 + r \in Nat
      BY <3>1
    <3> QED BY <3>1, <3>2, <3>3, <3>4 DEF IsRun
  <2>3. RunLength(w, i, S) = 1 + r
    BY <1>1, <2>2, RunLengthIs
  <2> QED BY <1>2, <2>3 DEF r
<1>3. CASE w[i] \notin S
  <2>1. IsRun(w, i, S, 0)
    BY <1>3 DEF IsRun
  <2> QED BY <1>1, <1>3, <2>1, RunLengthIs
<1> QED BY <1>2, <1>3

(* It depends on the characters from its start on only.                    *)
Alike(w, i, u, k) == Len(w) - i = Len(u) - k /\ \A m \in 0 .. Len(w) - i : w[i + m] = u[k + m]

LEMMA RunLengthShifts ==
    ASSUME NEW w, Len(w) \in Nat, NEW u, Len(u) \in Nat, NEW i \in 1 .. Len(w) + 1, NEW k \in 1 .. Len(u) + 1,
           Alike(w, i, u, k), NEW S
    PROVE  RunLength(w, i, S) = RunLength(u, k, S)
<1> DEFINE r == RunLength(u, k, S)
<1>1. Len(w) - i = Len(u) - k /\ \A m \in 0 .. Len(w) - i : w[i + m] = u[k + m]
  BY DEF Alike
<1>2. IsRun(u, k, S, r)
  BY RunLengthIsRun
<1> HIDE DEF r
<1>3. /\ r \in Nat /\ k + r <= Len(u) + 1
      /\ \A j \in k .. k + r - 1 : u[j] \in S
  BY <1>2 DEF IsRun
<1>4. k + r <= Len(u) => u[k + r] \notin S
  BY <1>2 DEF IsRun
<1>5. ASSUME NEW j \in i .. i + r - 1 PROVE w[j] \in S
  <2>1. j - i \in 0 .. Len(w) - i /\ i + (j - i) = j /\ k + (j - i) \in k .. k + r - 1
    BY <1>1, <1>3
  <2>2. w[i + (j - i)] = u[k + (j - i)]
    BY <1>1, <2>1
  <2> QED BY <1>3, <2>1, <2>2
<1>6. i + r <= Len(w) => w[i + r] \notin S
  <2> SUFFICES ASSUME i + r <= Len(w) PROVE w[i + r] \notin S
    OBVIOUS
  <2>1. r \in 0 .. Len(w) - i /\ k + r <= Len(u)
    BY <1>1, <1>3
  <2>2. w[i + r] = u[k + r]
    BY <1>1, <2>1
  <2> QED BY <1>4, <2>1, <2>2
<1>7. i + r <= Len(w) + 1
  BY <1>1, <1>3
<1>8. IsRun(w, i, S, r)
  BY <1>3, <1>5, <1>6, <1>7 DEF IsRun
<1> QED BY <1>8, RunLengthIs DEF r

-----------------------------------------------------------------------------
(* The normal form, an occurrence at a time: what stands for characters    *)
(* from i on, and where the rest begins.                                   *)

Emitted(w, i) ==
    IF Prefixed(w, i) THEN Prefix \o HexMark
    ELSE IF RunLength(w, i, Digits) >= MinNumber THEN NumMark
    ELSE IF RunLength(w, i, HexDigits) >= MinHex THEN HexMark
    ELSE <<w[i]>>

NextAt(w, i) ==
    IF Prefixed(w, i) THEN i + 2 + RunLength(w, i + 2, HexDigits)
    ELSE IF RunLength(w, i, Digits) >= MinNumber THEN i + RunLength(w, i, Digits)
    ELSE IF RunLength(w, i, HexDigits) >= MinHex THEN i + RunLength(w, i, HexDigits)
    ELSE i + 1

LEMMA NormalFromIs ==
    ASSUME NEW w, NEW i, NEW rest
    PROVE  NormalFrom(w, i, rest) = IF i > Len(w) THEN <<>> ELSE Emitted(w, i) \o rest[NextAt(w, i)]
<1>1. CASE Prefixed(w, i)
  BY <1>1 DEF NormalFrom, Emitted, NextAt
<1>2. CASE ~Prefixed(w, i) /\ RunLength(w, i, Digits) >= MinNumber
  BY <1>2 DEF NormalFrom, Emitted, NextAt
<1>3. CASE ~Prefixed(w, i) /\ ~(RunLength(w, i, Digits) >= MinNumber) /\ RunLength(w, i, HexDigits) >= MinHex
  BY <1>3 DEF NormalFrom, Emitted, NextAt
<1>4. CASE ~Prefixed(w, i) /\ ~(RunLength(w, i, Digits) >= MinNumber) /\ ~(RunLength(w, i, HexDigits) >= MinHex)
  BY <1>4 DEF NormalFrom, Emitted, NextAt
<1> QED BY <1>1, <1>2, <1>3, <1>4

LEMMA NextAtRange ==
    ASSUME TitlesAssumption, NEW w, Len(w) \in Nat, NEW i \in 1 .. Len(w)
    PROVE  NextAt(w, i) \in i + 1 .. Len(w) + 1
<1>1. MinNumber \in Nat /\ MinNumber > 1 /\ MinHex \in Nat /\ MinHex > 1
  BY DEF TitlesAssumption
<1>2. i \in 1 .. Len(w) + 1
  OBVIOUS
<1> DEFINE d == RunLength(w, i, Digits)
           h == RunLength(w, i, HexDigits)
           p == RunLength(w, i + 2, HexDigits)
<1>3. d \in Nat /\ i + d <= Len(w) + 1 /\ h \in Nat /\ i + h <= Len(w) + 1
  BY <1>2, RunLengthRange
<1>4. CASE Prefixed(w, i)
  <2>1. i + 2 \in 1 .. Len(w) + 1
    BY <1>4 DEF Prefixed
  <2>2. p \in Nat /\ i + 2 + p <= Len(w) + 1
    BY <2>1, RunLengthRange
  <2>3. NextAt(w, i) = i + 2 + p
    BY <1>4 DEF NextAt
  <2> HIDE DEF p
  <2> QED BY <2>2, <2>3
<1>5. CASE ~Prefixed(w, i)
  <2>1. NextAt(w, i) = IF d >= MinNumber THEN i + d ELSE IF h >= MinHex THEN i + h ELSE i + 1
    BY <1>5 DEF NextAt
  <2> HIDE DEF d, h
  <2> QED BY <1>1, <1>2, <1>3, <2>1
<1> QED BY <1>4, <1>5

(* The function that Normalized is the first value of.                     *)
IsRest(w, f) == f = [i \in 1 .. Len(w) + 1 |-> NormalFrom(w, i, f)]
RestOf(w) == CHOOSE f : IsRest(w, f)

LEMMA NormalizedIs == ASSUME NEW w PROVE Normalized(w) = RestOf(w)[1]
BY DEF Normalized, RestOf, IsRest

IsRestFrom(w, k, f) == f = [i \in k .. Len(w) + 1 |-> NormalFrom(w, i, f)]

LEMMA RestsExist ==
    ASSUME TitlesAssumption, NEW w, Len(w) \in Nat
    PROVE  IsRest(w, RestOf(w))
<1> DEFINE n == Len(w)
           A == {k \in 1 .. n + 1 : \E f : IsRestFrom(w, k, f)}
<1>1. n \in Nat
  OBVIOUS
<1>2. ASSUME NEW k \in 1 .. n + 1, \A m \in k + 1 .. n + 1 : m \in A PROVE k \in A
  <2>1. CASE k = n + 1
    <3> DEFINE f == [i \in k .. n + 1 |-> <<>>]
    <3>1. \A i \in k .. n + 1 : NormalFrom(w, i, f) = <<>>
      <4> SUFFICES ASSUME NEW i \in k .. n + 1 PROVE NormalFrom(w, i, f) = <<>>
        OBVIOUS
      <4>1. i > Len(w)
        BY <2>1
      <4> HIDE DEF f
      <4> QED BY <4>1, NormalFromIs
    <3>2. IsRestFrom(w, k, f)
      BY <3>1 DEF IsRestFrom
    <3> HIDE DEF f
    <3> QED BY <3>2
  <2>2. CASE k # n + 1
    <3>1. k + 1 \in A /\ k \in 1 .. n
      BY <1>2, <2>2
    <3>2. PICK g : IsRestFrom(w, k + 1, g)
      BY <3>1
    <3> DEFINE f == [i \in k .. n + 1 |-> IF i = k THEN NormalFrom(w, k, g) ELSE g[i]]
    <3>3. \A i \in k + 1 .. n + 1 : g[i] = NormalFrom(w, i, g)
      <4>1. g = [i \in k + 1 .. n + 1 |-> NormalFrom(w, i, g)]
        BY <3>2 DEF IsRestFrom
      <4> QED BY ONLY <4>1
    <3>4. \A i \in k + 1 .. n + 1 : f[i] = g[i]
      BY <3>1
    <3>5. ASSUME NEW i \in k .. n + 1 PROVE NormalFrom(w, i, f) = NormalFrom(w, i, g)
      <4>1. CASE i > n
        BY <4>1, NormalFromIs
      <4>2. CASE ~(i > n)
        <5>1. i \in 1 .. Len(w)
          BY <3>1, <4>2
        <5>2. NextAt(w, i) \in k + 1 .. n + 1
          BY <3>1, <5>1, NextAtRange
        <5>3. f[NextAt(w, i)] = g[NextAt(w, i)]
          <6> HIDE DEF f
          <6> QED BY <3>4, <5>2
        <5> HIDE DEF f
        <5> QED BY <4>2, <5>3, NormalFromIs
      <4> QED BY <4>1, <4>2
    <3>6. \A i \in k .. n + 1 : f[i] = NormalFrom(w, i, f)
      <4> SUFFICES ASSUME NEW i \in k .. n + 1 PROVE f[i] = NormalFrom(w, i, f)
        OBVIOUS
      <4>1. f[i] = NormalFrom(w, i, g)
        <5>1. CASE i = k
          BY <5>1
        <5>2. CASE i # k
          <6>1. i \in k + 1 .. n + 1
            BY <3>1, <5>2
          <6> QED BY <3>3, <3>4, <6>1
        <5> QED BY <5>1, <5>2
      <4> HIDE DEF f
      <4> QED BY <3>5, <4>1
    <3>7. f = [i \in k .. n + 1 |-> f[i]]
      OBVIOUS
    <3> HIDE DEF f
    <3>8. f = [i \in k .. n + 1 |-> NormalFrom(w, i, f)]
      BY <3>6, <3>7
    <3>9. IsRestFrom(w, k, f)
      BY <3>8 DEF IsRestFrom
    <3> QED BY <3>9
  <2> QED BY <2>1, <2>2
<1>3. 1 \in A
  <2> HIDE DEF A
  <2>1. \A k \in 1 .. n + 1 : (\A m \in k + 1 .. n + 1 : m \in A) => k \in A
    BY <1>2
  <2>2. 1 \in Nat /\ n + 1 \in Nat
    BY <1>1
  <2>3. \A k \in 1 .. n + 1 : k \in A
    BY ONLY <2>1, <2>2, Downward
  <2> QED BY <1>1, <2>3
<1>4. \E f : IsRest(w, f)
  BY <1>3 DEF IsRest, IsRestFrom
<1> QED BY <1>4 DEF RestOf

LEMMA RestIs ==
    ASSUME TitlesAssumption, NEW w, Len(w) \in Nat, NEW i \in 1 .. Len(w) + 1
    PROVE  RestOf(w)[i] = IF i > Len(w) THEN <<>> ELSE Emitted(w, i) \o RestOf(w)[NextAt(w, i)]
<1> DEFINE f == RestOf(w)
<1>1. IsRest(w, f)
  BY RestsExist
<1> HIDE DEF f
<1>2. f = [k \in 1 .. Len(w) + 1 |-> NormalFrom(w, k, f)]
  BY <1>1 DEF IsRest
<1>3. f[i] = NormalFrom(w, i, f)
  BY ONLY <1>2, i \in 1 .. Len(w) + 1
<1> QED BY <1>3, NormalFromIs DEF f

LEMMA RestThere ==
    ASSUME TitlesAssumption, NEW w, Len(w) \in Nat, NEW i \in 1 .. Len(w)
    PROVE  RestOf(w)[i] = Emitted(w, i) \o RestOf(w)[NextAt(w, i)]
<1>1. i \in 1 .. Len(w) + 1 /\ ~(i > Len(w))
  OBVIOUS
<1> QED BY <1>1, RestIs

-----------------------------------------------------------------------------
(* Normal forms have no runs left.                                         *)

NoRun(v, k) ==
    /\ ~Prefixed(v, k)
    /\ RunLength(v, k, Digits) < MinNumber /\ RunLength(v, k, HexDigits) < MinHex

Quiet(v) == \A k \in 1 .. Len(v) : NoRun(v, k)

LEMMA CharacterFacts ==
    /\ Digits \subseteq HexDigits
    /\ "0" \in Digits /\ "0" \in HexDigits
    /\ \A c \in {"x", "<", "h", ">", "n", "u", "m"} : c \notin HexDigits /\ c \notin Digits
    /\ "e" \notin Digits
BY DEF Digits, HexDigits

(* Where a run ends at once there is none.                                 *)
LEMMA ShortRun ==
    ASSUME TitlesAssumption, NEW v, Len(v) \in Nat, NEW k \in 1 .. Len(v),
           v[k] \notin HexDigits \/ (k < Len(v) /\ v[k + 1] \notin HexDigits),
           ~Prefixed(v, k)
    PROVE  /\ NoRun(v, k)
           /\ \A S \in {Digits, HexDigits} : RunLength(v, k, S) = IF v[k] \in S THEN 1 ELSE 0
<1>1. MinNumber \in Nat /\ MinNumber > 1 /\ MinHex \in Nat /\ MinHex > 1
  BY DEF TitlesAssumption
<1>2. ASSUME NEW S, S \subseteq HexDigits
      PROVE  RunLength(v, k, S) = IF v[k] \in S THEN 1 ELSE 0
  <2>1. RunLength(v, k, S) = IF v[k] \in S THEN 1 + RunLength(v, k + 1, S) ELSE 0
    BY RunLengthHere
  <2>2. CASE v[k] \in S
    <3>1. k + 1 \in 1 .. Len(v) /\ v[k + 1] \notin S
      BY <1>2, <2>2
    <3>2. RunLength(v, k + 1, S) = 0
      BY <3>1, RunLengthHere
    <3> QED BY <2>1, <2>2, <3>2
  <2>3. CASE v[k] \notin S
    BY <2>1, <2>3
  <2> QED BY <2>2, <2>3
<1>3. RunLength(v, k, Digits) = IF v[k] \in Digits THEN 1 ELSE 0
  BY <1>2, CharacterFacts
<1>4. RunLength(v, k, HexDigits) = IF v[k] \in HexDigits THEN 1 ELSE 0
  BY <1>2
<1> QED BY <1>1, <1>3, <1>4 DEF NoRun

(* What is put in front of characters does not make them a run.            *)
LEMMA QuietBehind ==
    ASSUME NEW u, Len(u) \in Nat, Quiet(u), NEW d \in Nat, NEW v, Len(v) = d + Len(u),
           \A m \in 1 .. Len(u) : v[d + m] = u[m]
    PROVE  /\ \A k \in d + 1 .. Len(v) : NoRun(v, k)
           /\ \A S \in {Digits, HexDigits} : RunLength(v, d + 1, S) = RunLength(u, 1, S)
<1>1. ASSUME NEW m \in 1 .. Len(u) + 1, NEW S PROVE RunLength(v, d + m, S) = RunLength(u, m, S)
  <2>1. d + m \in 1 .. Len(v) + 1 /\ Len(v) - (d + m) = Len(u) - m /\ Len(v) \in Nat
    OBVIOUS
  <2>2. ASSUME NEW j \in 0 .. Len(v) - (d + m) PROVE v[d + m + j] = u[m + j]
    <3>1. m + j \in 1 .. Len(u) /\ d + (m + j) = d + m + j
      BY <2>1
    <3> QED BY <3>1
  <2>3. Alike(v, d + m, u, m)
    BY <2>1, <2>2 DEF Alike
  <2> QED BY <2>1, <2>3, RunLengthShifts
<1>2. ASSUME NEW m \in 1 .. Len(u) PROVE NoRun(v, d + m)
  <2>1. NoRun(u, m)
    BY DEF Quiet
  <2>2. m \in 1 .. Len(u) + 1
    OBVIOUS
  <2>3. Prefixed(v, d + m) => Prefixed(u, m)
    <3> SUFFICES ASSUME Prefixed(v, d + m) PROVE Prefixed(u, m)
      OBVIOUS
    <3>1. d + m + 2 <= Len(v) /\ v[d + m] = "0" /\ v[d + m + 1] = "x" /\ v[d + m + 2] \in HexDigits
      BY DEF Prefixed
    <3>2. m + 1 \in 1 .. Len(u) /\ m + 2 \in 1 .. Len(u) /\ d + (m + 1) = d + m + 1 /\ d + (m + 2) = d + m + 2
      BY <3>1
    <3>3. v[d + m] = u[m] /\ v[d + m + 1] = u[m + 1] /\ v[d + m + 2] = u[m + 2]
      <4>1. v[d + m] = u[m]
        OBVIOUS
      <4>2. v[d + (m + 1)] = u[m + 1]
        BY <3>2
      <4>3. v[d + (m + 2)] = u[m + 2]
        BY <3>2
      <4> QED BY <3>2, <4>1, <4>2, <4>3
    <3> QED BY <3>1, <3>2, <3>3 DEF Prefixed
  <2> QED BY <1>1, <2>1, <2>2, <2>3 DEF NoRun
<1>3. ASSUME NEW k \in d + 1 .. Len(v) PROVE NoRun(v, k)
  <2>1. k - d \in 1 .. Len(u) /\ d + (k - d) = k
    OBVIOUS
  <2> QED BY <1>2, <2>1
<1>4. 1 \in 1 .. Len(u) + 1
  OBVIOUS
<1> QED BY <1>1, <1>3, <1>4

(* v stands for the characters of w from i on.                             *)
StandsFor(v, w, i) ==
    /\ v \in Seq(Chars) /\ Quiet(v)
    /\ \A S \in {Digits, HexDigits} : RunLength(v, 1, S) <= RunLength(w, i, S)
    /\ v # <<>> => i <= Len(w) /\ v[1] \in {w[i], "<"}

Joining(v, p, u) == v = p \o u

LEMMA JoiningProps ==
    ASSUME NEW p \in Seq(Chars), NEW u \in Seq(Chars), NEW v, Joining(v, p, u)
    PROVE  /\ v \in Seq(Chars) /\ Len(v) = Len(p) + Len(u) /\ Len(u) \in Nat /\ Len(p) \in Nat /\ Len(v) \in Nat
           /\ \A m \in 1 .. Len(p) : v[m] = p[m]
           /\ \A m \in 1 .. Len(u) : v[Len(p) + m] = u[m]
BY DEF Joining

LEMMA MarksAreChars ==
    /\ HexMark \in Seq(Chars) /\ Len(HexMark) = 5
    /\ HexMark[1] = "<" /\ HexMark[2] = "h" /\ HexMark[3] = "e" /\ HexMark[4] = "x" /\ HexMark[5] = ">"
    /\ NumMark \in Seq(Chars) /\ Len(NumMark) = 5
    /\ NumMark[1] = "<" /\ NumMark[2] = "n" /\ NumMark[3] = "u" /\ NumMark[4] = "m" /\ NumMark[5] = ">"
    /\ Prefix \in Seq(Chars) /\ Len(Prefix) = 2 /\ Prefix[1] = "0" /\ Prefix[2] = "x"
BY DEF HexMark, NumMark, Prefix, Chars

(* A mark of five characters, the second of which is "h" or "n".           *)
LEMMA MarkStands ==
    ASSUME TitlesAssumption, NEW mark \in {HexMark, NumMark}, NEW u \in Seq(Chars), Quiet(u), NEW v, Joining(v, mark, u)
    PROVE  /\ v \in Seq(Chars) /\ Quiet(v) /\ Len(v) \in Nat /\ Len(v) > 4 /\ v[1] = "<"
           /\ \A S \in {Digits, HexDigits} : RunLength(v, 1, S) = 0
<1>1. /\ mark \in Seq(Chars) /\ Len(mark) = 5
      /\ mark[1] = "<" /\ mark[2] \in {"h", "n"} /\ mark[3] \in {"e", "u"} /\ mark[4] \in {"x", "m"} /\ mark[5] = ">"
  BY MarksAreChars
<1>2. /\ v \in Seq(Chars) /\ Len(v) = Len(mark) + Len(u) /\ Len(u) \in Nat /\ Len(v) \in Nat
      /\ \A m \in 1 .. Len(mark) : v[m] = mark[m]
      /\ \A m \in 1 .. Len(u) : v[Len(mark) + m] = u[m]
  <2>1. mark \in Seq(Chars)
    BY <1>1
  <2> QED BY ONLY <2>1, u \in Seq(Chars), Joining(v, mark, u), JoiningProps
<1>3. Len(v) = 5 + Len(u) /\ Len(v) > 4
  BY <1>1, <1>2
<1>4. \A m \in 1 .. Len(u) : v[5 + m] = u[m]
  BY <1>1, <1>2
<1>5. v[1] = "<" /\ v[2] \in {"h", "n"} /\ v[3] \in {"e", "u"} /\ v[4] \in {"x", "m"} /\ v[5] = ">"
  BY <1>1, <1>2
<1>6. v[1] \notin HexDigits /\ v[2] \notin HexDigits /\ v[4] \notin HexDigits /\ v[5] \notin HexDigits
  BY <1>5, CharacterFacts
<1>7. \A k \in 1 .. 5 : v[k] # "0"
  BY <1>5
<1>8. ASSUME NEW k \in 1 .. 5 PROVE NoRun(v, k) /\ (k = 1 => \A S \in {Digits, HexDigits} : RunLength(v, k, S) = 0)
  <2>1. k \in 1 .. Len(v)
    BY <1>2, <1>3
  <2>2. ~Prefixed(v, k)
    BY <1>7 DEF Prefixed
  <2>3. v[k] \notin HexDigits \/ (k < Len(v) /\ v[k + 1] \notin HexDigits)
    <3>1. k = 1 \/ k = 2 \/ k = 3 \/ k = 4 \/ k = 5
      OBVIOUS
    <3>2. k = 3 => k < Len(v) /\ v[k + 1] \notin HexDigits
      BY <1>3, <1>6
    <3> QED BY <1>6, <3>1, <3>2
  <2>4. /\ NoRun(v, k)
        /\ \A S \in {Digits, HexDigits} : RunLength(v, k, S) = IF v[k] \in S THEN 1 ELSE 0
    BY <1>2, <2>1, <2>2, <2>3, ShortRun
  <2>5. k = 1 => v[k] \notin HexDigits /\ v[k] \notin Digits
    BY <1>6, CharacterFacts
  <2> QED BY <2>4, <2>5
<1>9. \A k \in 5 + 1 .. Len(v) : NoRun(v, k)
  BY <1>2, <1>3, <1>4, QuietBehind
<1>10. Quiet(v)
  <2> SUFFICES ASSUME NEW k \in 1 .. Len(v) PROVE NoRun(v, k)
    BY DEF Quiet
  <2>1. k \in 1 .. 5 \/ k \in 5 + 1 .. Len(v)
    BY <1>2
  <2> QED BY <1>8, <1>9, <2>1
<1> QED BY <1>2, <1>3, <1>5, <1>8, <1>10

LEMMA PrefixStands ==
    ASSUME TitlesAssumption, NEW u \in Seq(Chars), Quiet(u), NEW v, v = (Prefix \o HexMark) \o u
    PROVE  /\ v \in Seq(Chars) /\ Quiet(v) /\ Len(v) \in Nat /\ v[1] = "0"
           /\ \A S \in {Digits, HexDigits} : RunLength(v, 1, S) = 1
<1> DEFINE t == HexMark \o u
           p == Prefix
<1>1. /\ t \in Seq(Chars) /\ Quiet(t) /\ Len(t) \in Nat /\ Len(t) > 4 /\ t[1] = "<"
  BY MarkStands DEF Joining
<1>2. p \in Seq(Chars) /\ Len(p) = 2 /\ p[1] = "0" /\ p[2] = "x"
  BY MarksAreChars
<1>3. Joining(v, p, t)
  <2>1. (Prefix \o HexMark) \o u = Prefix \o (HexMark \o u)
    <3> DEFINE a == Prefix
               b == HexMark
    <3>1. a \in Seq(Chars) /\ b \in Seq(Chars)
      BY MarksAreChars
    <3> HIDE DEF a, b
    <3>2. (a \o b) \o u = a \o (b \o u)
      BY <3>1
    <3> QED BY <3>2 DEF a, b
  <2> QED BY <2>1 DEF Joining
<1> HIDE DEF t, p
<1>4. /\ v \in Seq(Chars) /\ Len(v) = 2 + Len(t) /\ Len(v) \in Nat
      /\ v[1] = "0" /\ v[2] = "x"
      /\ \A m \in 1 .. Len(t) : v[2 + m] = t[m]
  <2>1. /\ v \in Seq(Chars) /\ Len(v) = Len(p) + Len(t) /\ Len(v) \in Nat
        /\ \A m \in 1 .. Len(p) : v[m] = p[m]
        /\ \A m \in 1 .. Len(t) : v[Len(p) + m] = t[m]
    <3>1. p \in Seq(Chars) /\ t \in Seq(Chars)
      BY <1>1, <1>2
    <3> QED BY ONLY <3>1, <1>3, JoiningProps
  <2>2. v[1] = p[1] /\ v[2] = p[2]
    <3>1. 1 \in 1 .. Len(p) /\ 2 \in 1 .. Len(p)
      BY <1>2
    <3> QED BY ONLY <2>1, <3>1
  <2>3. Len(v) = 2 + Len(t) /\ \A m \in 1 .. Len(t) : v[2 + m] = t[m]
    <3>1. Len(p) = 2
      BY <1>2
    <3> QED BY ONLY <2>1, <3>1
  <2> QED BY <1>2, <2>1, <2>2, <2>3
<1>5. v[3] = "<" /\ Len(v) > 6
  <2>1. 1 \in 1 .. Len(t) /\ 2 + 1 = 3
    BY <1>1
  <2>2. \A m \in 1 .. Len(t) : v[2 + m] = t[m]
    BY <1>4
  <2>3. v[2 + 1] = t[1]
    BY ONLY <2>1, <2>2
  <2>4. Len(v) > 6
    BY <1>1, <1>4
  <2> QED BY <1>1, <2>1, <2>3, <2>4
<1>6. ~Prefixed(v, 1) /\ ~Prefixed(v, 2)
  <2>1. v[1 + 2] \notin HexDigits /\ v[2] # "0"
    BY <1>4, <1>5, CharacterFacts
  <2> QED BY <2>1 DEF Prefixed
<1>7. v[2] \notin HexDigits
  BY <1>4, CharacterFacts
<1>8. NoRun(v, 1) /\ \A S \in {Digits, HexDigits} : RunLength(v, 1, S) = 1
  <2>1. /\ 1 \in 1 .. Len(v) /\ Len(v) \in Nat /\ ~Prefixed(v, 1)
        /\ v[1] \notin HexDigits \/ (1 < Len(v) /\ v[1 + 1] \notin HexDigits)
    BY <1>4, <1>5, <1>6, <1>7
  <2>2. /\ NoRun(v, 1)
        /\ \A S \in {Digits, HexDigits} : RunLength(v, 1, S) = IF v[1] \in S THEN 1 ELSE 0
    BY ONLY TitlesAssumption, <2>1, ShortRun
  <2>3. v[1] \in Digits /\ v[1] \in HexDigits
    BY <1>4, CharacterFacts
  <2> QED BY <2>2, <2>3
<1>9. NoRun(v, 2)
  <2>1. 2 \in 1 .. Len(v)
    BY <1>4, <1>5
  <2> QED BY <1>4, <1>6, <1>7, <2>1, ShortRun
<1>10. \A k \in 2 + 1 .. Len(v) : NoRun(v, k)
  <2>1. Len(v) = 2 + Len(t) /\ \A m \in 1 .. Len(t) : v[2 + m] = t[m]
    BY <1>4
  <2>2. Len(t) \in Nat /\ Quiet(t) /\ 2 \in Nat
    BY <1>1
  <2> QED BY ONLY <2>1, <2>2, QuietBehind
<1>11. Quiet(v)
  <2> SUFFICES ASSUME NEW k \in 1 .. Len(v) PROVE NoRun(v, k)
    BY DEF Quiet
  <2>1. k = 1 \/ k = 2 \/ k \in 2 + 1 .. Len(v)
    BY <1>4
  <2> QED BY <1>8, <1>9, <1>10, <2>1
<1> QED BY <1>4, <1>8, <1>11

(* A character in front of what is quiet.                                  *)
InFront(v, c, u) == v = <<c>> \o u

LEMMA CharacterInFront ==
    ASSUME TitlesAssumption, NEW c \in Chars, NEW u \in Seq(Chars), Quiet(u), NEW v, InFront(v, c, u)
    PROVE  /\ v \in Seq(Chars) /\ Len(v) = 1 + Len(u) /\ Len(v) \in Nat /\ Len(u) \in Nat /\ v[1] = c
           /\ \A m \in 1 .. Len(u) : v[1 + m] = u[m]
           /\ \A k \in 1 + 1 .. Len(v) : NoRun(v, k)
           /\ \A S \in {Digits, HexDigits} : RunLength(v, 1, S) = IF c \in S THEN 1 + RunLength(u, 1, S) ELSE 0
<1> DEFINE p == <<c>>
<1>1. p \in Seq(Chars) /\ Len(p) = 1 /\ p[1] = c
  OBVIOUS
<1>2. Joining(v, p, u)
  BY DEF Joining, InFront
<1> HIDE DEF p
<1>3. /\ v \in Seq(Chars) /\ Len(v) = 1 + Len(u) /\ Len(v) \in Nat /\ Len(u) \in Nat /\ v[1] = c
      /\ \A m \in 1 .. Len(u) : v[1 + m] = u[m]
  <2>1. /\ v \in Seq(Chars) /\ Len(v) = Len(p) + Len(u) /\ Len(v) \in Nat /\ Len(u) \in Nat
        /\ \A m \in 1 .. Len(p) : v[m] = p[m]
        /\ \A m \in 1 .. Len(u) : v[Len(p) + m] = u[m]
    <3>1. p \in Seq(Chars)
      BY <1>1
    <3> QED BY ONLY <3>1, u \in Seq(Chars), <1>2, JoiningProps
  <2> QED BY <1>1, <2>1
<1>4. /\ \A k \in 1 + 1 .. Len(v) : NoRun(v, k)
      /\ \A S \in {Digits, HexDigits} : RunLength(v, 1 + 1, S) = RunLength(u, 1, S)
  BY <1>3, QuietBehind
<1>5. ASSUME NEW S \in {Digits, HexDigits}
      PROVE  RunLength(v, 1, S) = IF c \in S THEN 1 + RunLength(u, 1, S) ELSE 0
  <2>1. 1 \in 1 .. Len(v)
    BY <1>3
  <2>2. RunLength(v, 1, S) = IF v[1] \in S THEN 1 + RunLength(v, 1 + 1, S) ELSE 0
    BY <1>3, <2>1, RunLengthHere
  <2> QED BY <1>3, <1>4, <2>2
<1> QED BY <1>3, <1>4, <1>5

LEMMA NothingStands ==
    ASSUME NEW w, NEW i, RunLength(w, i, Digits) >= 0, RunLength(w, i, HexDigits) >= 0
    PROVE  StandsFor(<<>>, w, i)
<1> DEFINE v == <<>>
<1>1. v \in Seq(Chars) /\ Len(v) = 0
  OBVIOUS
<1>2. \A S : IsRun(v, 1, S, 0)
  BY DEF IsRun
<1>3. \A S : RunLength(v, 1, S) = 0
  <2> SUFFICES ASSUME NEW S PROVE RunLength(v, 1, S) = 0
    OBVIOUS
  <2>1. Len(v) \in Nat /\ 1 \in 1 .. Len(v) + 1 /\ IsRun(v, 1, S, 0)
    BY <1>1, <1>2
  <2> HIDE DEF v
  <2> QED BY <2>1, RunLengthIs
<1>4. v = <<>>
  OBVIOUS
<1> HIDE DEF v
<1>5. Quiet(v)
  BY <1>1 DEF Quiet
<1>6. StandsFor(v, w, i)
  BY <1>1, <1>3, <1>4, <1>5 DEF StandsFor
<1> QED BY <1>6 DEF v

LEMMA RestStands ==
    ASSUME TitlesAssumption, NEW w \in Seq(Chars), NEW i \in 1 .. Len(w),
           \A k \in i + 1 .. Len(w) + 1 : StandsFor(RestOf(w)[k], w, k)
    PROVE  StandsFor(RestOf(w)[i], w, i)
<1> DEFINE v == RestOf(w)[i]
           u == RestOf(w)[NextAt(w, i)]
<1>1. Len(w) \in Nat /\ i \in 1 .. Len(w) + 1
  OBVIOUS
<1>2. v = Emitted(w, i) \o u
  BY ONLY TitlesAssumption, <1>1, i \in 1 .. Len(w), RestThere
<1>3. NextAt(w, i) \in i + 1 .. Len(w) + 1
  BY <1>1, NextAtRange
<1>4. StandsFor(u, w, NextAt(w, i))
  BY <1>3
<1> HIDE DEF u
<1>5. u \in Seq(Chars) /\ Quiet(u)
  BY <1>4 DEF StandsFor
<1>6. RunLength(w, i, Digits) \in Nat /\ RunLength(w, i, HexDigits) \in Nat
  BY <1>1, RunLengthRange
<1> SUFFICES StandsFor(v, w, i)
  OBVIOUS
<1> HIDE DEF v
<1>7. CASE Prefixed(w, i)
  <2>1. v = (Prefix \o HexMark) \o u
    BY <1>2, <1>7 DEF Emitted
  <2>2. /\ v \in Seq(Chars) /\ Quiet(v) /\ v[1] = "0"
        /\ \A S \in {Digits, HexDigits} : RunLength(v, 1, S) = 1
    BY <1>5, <2>1, PrefixStands
  <2>3. w[i] = "0"
    BY <1>7 DEF Prefixed
  <2>4. ASSUME NEW S \in {Digits, HexDigits} PROVE RunLength(w, i, S) >= 1
    <3>1. w[i] \in S
      BY <2>3, CharacterFacts
    <3>2. RunLength(w, i, S) = 1 + RunLength(w, i + 1, S)
      BY <1>1, <3>1, RunLengthHere
    <3>3. RunLength(w, i + 1, S) \in Nat
      <4>1. i + 1 \in 1 .. Len(w) + 1
        OBVIOUS
      <4> QED BY <1>1, <4>1, RunLengthRange
    <3> QED BY <3>2, <3>3
  <2>5. \A S \in {Digits, HexDigits} : RunLength(v, 1, S) <= RunLength(w, i, S)
    BY <2>2, <2>4
  <2> QED BY <2>2, <2>3, <2>5 DEF StandsFor
<1>8. ASSUME ~Prefixed(w, i), NEW mark \in {HexMark, NumMark}, v = mark \o u PROVE StandsFor(v, w, i)
  <2>1. /\ v \in Seq(Chars) /\ Quiet(v) /\ v[1] = "<"
        /\ \A S \in {Digits, HexDigits} : RunLength(v, 1, S) = 0
    BY <1>5, <1>8, MarkStands DEF Joining
  <2>2. \A S \in {Digits, HexDigits} : RunLength(v, 1, S) <= RunLength(w, i, S)
    BY <1>6, <2>1
  <2> QED BY <2>1, <2>2 DEF StandsFor
<1>9. CASE ~Prefixed(w, i) /\ RunLength(w, i, Digits) >= MinNumber
  <2>1. v = NumMark \o u
    BY <1>2, <1>9 DEF Emitted
  <2> QED BY <1>8, <1>9, <2>1
<1>10. CASE ~Prefixed(w, i) /\ ~(RunLength(w, i, Digits) >= MinNumber) /\ RunLength(w, i, HexDigits) >= MinHex
  <2>1. v = HexMark \o u
    BY <1>2, <1>10 DEF Emitted
  <2> QED BY <1>8, <1>10, <2>1
<1>11. CASE ~Prefixed(w, i) /\ ~(RunLength(w, i, Digits) >= MinNumber) /\ ~(RunLength(w, i, HexDigits) >= MinHex)
  <2> DEFINE c == w[i]
  <2>1. v = <<c>> \o u /\ NextAt(w, i) = i + 1 /\ c \in Chars
    BY <1>2, <1>11 DEF Emitted, NextAt
  <2>2. InFront(v, c, u)
    BY <2>1 DEF InFront
  <2>3. StandsFor(u, w, i + 1)
    BY <1>4, <2>1
  <2> HIDE DEF c
  <2>4. /\ v \in Seq(Chars) /\ Len(v) = 1 + Len(u) /\ Len(v) \in Nat /\ Len(u) \in Nat /\ v[1] = c
        /\ \A m \in 1 .. Len(u) : v[1 + m] = u[m]
        /\ \A k \in 1 + 1 .. Len(v) : NoRun(v, k)
    BY ONLY TitlesAssumption, <1>5, <2>1, <2>2, CharacterInFront
  <2>5. \A S \in {Digits, HexDigits} : RunLength(v, 1, S) = IF c \in S THEN 1 + RunLength(u, 1, S) ELSE 0
    BY ONLY TitlesAssumption, <1>5, <2>1, <2>2, CharacterInFront
  <2>6. ASSUME NEW S \in {Digits, HexDigits} PROVE RunLength(v, 1, S) <= RunLength(w, i, S)
    <3>1. RunLength(w, i, S) = IF c \in S THEN 1 + RunLength(w, i + 1, S) ELSE 0
      BY <1>1, RunLengthHere DEF c
    <3>2. RunLength(u, 1, S) <= RunLength(w, i + 1, S)
      BY <2>3 DEF StandsFor
    <3>3. RunLength(u, 1, S) \in Nat /\ RunLength(w, i + 1, S) \in Nat
      <4>1. i + 1 \in 1 .. Len(w) + 1 /\ 1 \in 1 .. Len(u) + 1
        BY <2>4
      <4> QED BY <1>1, <2>4, <4>1, RunLengthRange
    <3> QED BY <2>5, <3>1, <3>2, <3>3
  <2>7. ~Prefixed(v, 1)
    <3> SUFFICES ASSUME Prefixed(v, 1) PROVE FALSE
      OBVIOUS
    <3>1. 1 + 2 <= Len(v) /\ v[1] = "0" /\ v[1 + 1] = "x" /\ v[1 + 2] \in HexDigits
      BY DEF Prefixed
    <3>2. 1 \in 1 .. Len(u) /\ 2 \in 1 .. Len(u)
      BY <2>4, <3>1
    <3>3. w[i] = "0" /\ u[1] = "x" /\ u[2] \in HexDigits
      BY <2>4, <3>1, <3>2 DEF c
    <3>4. u # <<>>
      BY <3>2
    <3>5. i + 1 <= Len(w) /\ u[1] \in {w[i + 1], "<"}
      BY <2>3, <3>4 DEF StandsFor
    <3>6. w[i + 1] = "x"
      BY <3>3, <3>5
    <3> DEFINE j == i + 1
               t == RestOf(w)[NextAt(w, j)]
    <3>7. j \in 1 .. Len(w) /\ j \in 1 .. Len(w) + 1
      BY <3>5
    <3>8. ~Prefixed(w, j) /\ RunLength(w, j, Digits) = 0 /\ RunLength(w, j, HexDigits) = 0
      <4>1. w[j] = "x"
        BY <3>6
      <4>2. w[j] # "0" /\ w[j] \notin Digits /\ w[j] \notin HexDigits
        BY <4>1, CharacterFacts
      <4> HIDE DEF j
      <4>3. RunLength(w, j, Digits) = 0 /\ RunLength(w, j, HexDigits) = 0
        BY <1>1, <3>7, <4>2, RunLengthHere
      <4> QED BY <4>2, <4>3 DEF Prefixed
    <3>9. MinNumber \in Nat /\ MinNumber > 1 /\ MinHex \in Nat /\ MinHex > 1
      BY DEF TitlesAssumption
    <3>10. Emitted(w, j) = <<w[j]>> /\ NextAt(w, j) = j + 1
      <4> HIDE DEF j
      <4> QED BY <3>8, <3>9 DEF Emitted, NextAt
    <3>11. u = <<w[j]>> \o t
      <4>1. u = RestOf(w)[j]
        BY <2>1 DEF u
      <4> HIDE DEF j
      <4>2. RestOf(w)[j] = Emitted(w, j) \o t
        BY ONLY TitlesAssumption, <1>1, <3>7, RestThere
      <4> QED BY <3>10, <4>1, <4>2
    <3>12. StandsFor(t, w, j + 1)
      <4>1. j + 1 \in i + 1 .. Len(w) + 1
        BY <3>7
      <4> QED BY <3>10, <4>1
    <3> HIDE DEF t
    <3>13. t \in Seq(Chars)
      BY <3>12 DEF StandsFor
    <3>14. t # <<>> /\ u[2] = t[1]
      <4>1. Len(u) = 1 + Len(t) /\ Len(t) \in Nat
        BY <3>11, <3>13
      <4>2. 1 \in 1 .. Len(t)
        BY <3>2, <4>1
      <4> QED BY <3>11, <3>13, <4>2
    <3>15. j + 1 <= Len(w) /\ t[1] \in {w[j + 1], "<"}
      BY <3>12, <3>14 DEF StandsFor
    <3>16. w[j + 1] \in HexDigits
      BY <3>3, <3>14, <3>15, CharacterFacts
    <3>17. j + 1 = i + 2
      OBVIOUS
    <3>18. i + 2 <= Len(w) /\ w[i + 2] \in HexDigits
      BY <3>15, <3>16, <3>17
    <3>19. Prefixed(w, i)
      BY <3>3, <3>6, <3>18 DEF Prefixed
    <3> QED BY <1>11, <3>19
  <2>8. NoRun(v, 1)
    <3>1. RunLength(v, 1, Digits) <= RunLength(w, i, Digits) /\ RunLength(v, 1, HexDigits) <= RunLength(w, i, HexDigits)
      BY <2>6
    <3>2. RunLength(v, 1, Digits) \in Nat /\ RunLength(v, 1, HexDigits) \in Nat
      <4>1. 1 \in 1 .. Len(v) + 1
        BY <2>4
      <4> QED BY <2>4, <4>1, RunLengthRange
    <3>3. MinNumber \in Nat /\ MinHex \in Nat
      BY DEF TitlesAssumption
    <3> QED BY <1>6, <1>11, <2>7, <3>1, <3>2, <3>3 DEF NoRun
  <2>9. Quiet(v)
    <3> SUFFICES ASSUME NEW k \in 1 .. Len(v) PROVE NoRun(v, k)
      BY DEF Quiet
    <3>1. k = 1 \/ k \in 1 + 1 .. Len(v)
      BY <2>4
    <3> QED BY <2>4, <2>8, <3>1
  <2> QED BY <2>4, <2>6, <2>9 DEF StandsFor, c
<1> QED BY <1>7, <1>9, <1>10, <1>11

LEMMA RestsStand ==
    ASSUME TitlesAssumption, NEW w \in Seq(Chars)
    PROVE  \A i \in 1 .. Len(w) + 1 : StandsFor(RestOf(w)[i], w, i)
<1> DEFINE n == Len(w) + 1
           A == {k \in 1 .. n : StandsFor(RestOf(w)[k], w, k)}
<1>1. Len(w) \in Nat /\ n \in Nat /\ 1 \in Nat
  OBVIOUS
<1>2. ASSUME NEW k \in 1 .. n, \A m \in k + 1 .. n : m \in A PROVE k \in A
  <2>1. \A m \in k + 1 .. n : StandsFor(RestOf(w)[m], w, m)
    BY <1>2
  <2>2. CASE k = n
    <3>1. RestOf(w)[k] = <<>>
      <4>1. k > Len(w) /\ k \in 1 .. Len(w) + 1
        BY <2>2
      <4> QED BY <1>1, <4>1, RestIs
    <3>2. RunLength(w, k, Digits) >= 0 /\ RunLength(w, k, HexDigits) >= 0
      <4>1. RunLength(w, k, Digits) \in Nat /\ RunLength(w, k, HexDigits) \in Nat
        BY <1>1, RunLengthRange
      <4> QED BY <4>1
    <3>3. StandsFor(<<>>, w, k)
      BY <3>2, NothingStands
    <3> QED BY <3>1, <3>3
  <2>3. CASE k # n
    <3>1. k \in 1 .. Len(w)
      BY <1>1, <2>3
    <3>2. StandsFor(RestOf(w)[k], w, k)
      BY <2>1, <3>1, RestStands
    <3> QED BY <3>2
  <2> QED BY <2>2, <2>3
<1> HIDE DEF A
<1>3. \A k \in 1 .. n : (\A m \in k + 1 .. n : m \in A) => k \in A
  BY <1>2
<1>4. \A k \in 1 .. n : k \in A
  <2> HIDE DEF n
  <2> QED BY ONLY <1>1, <1>3, Downward
<1> QED BY <1>4 DEF A

(* What is quiet is its own normal form.                                   *)
LEMMA QuietIsNormal ==
    ASSUME TitlesAssumption, NEW v \in Seq(Chars), Quiet(v)
    PROVE  Normalized(v) = v
<1> DEFINE n == Len(v) + 1
           A == {k \in 1 .. n : RestOf(v)[k] = SubSeq(v, k, Len(v))}
<1>1. Len(v) \in Nat /\ n \in Nat /\ 1 \in Nat
  OBVIOUS
<1>2. ASSUME NEW k \in 1 .. n, \A m \in k + 1 .. n : m \in A PROVE k \in A
  <2>1. CASE k = n
    <3>1. k > Len(v) /\ k \in 1 .. Len(v) + 1
      BY <2>1
    <3>2. RestOf(v)[k] = <<>>
      BY <1>1, <3>1, RestIs
    <3>3. SubSeq(v, k, Len(v)) = <<>>
      BY <3>1
    <3> QED BY <3>2, <3>3
  <2>2. CASE k # n
    <3>1. k \in 1 .. Len(v) /\ k \in 1 .. Len(v) + 1 /\ ~(k > Len(v)) /\ k + 1 \in k + 1 .. n
      BY <1>1, <2>2
    <3>2. RestOf(v)[k + 1] = SubSeq(v, k + 1, Len(v))
      BY <1>2, <3>1
    <3>3. NoRun(v, k)
      BY <3>1 DEF Quiet
    <3>4. Emitted(v, k) = <<v[k]>> /\ NextAt(v, k) = k + 1
      <4>1. RunLength(v, k, Digits) \in Nat /\ RunLength(v, k, HexDigits) \in Nat
        BY <1>1, <3>1, RunLengthRange
      <4>2. MinNumber \in Nat /\ MinHex \in Nat
        BY DEF TitlesAssumption
      <4> QED BY <3>3, <4>1, <4>2 DEF Emitted, NextAt, NoRun
    <3>5. RestOf(v)[k] = <<v[k]>> \o SubSeq(v, k + 1, Len(v))
      BY <1>1, <3>1, <3>2, <3>4, RestIs
    <3>6. <<v[k]>> \o SubSeq(v, k + 1, Len(v)) = SubSeq(v, k, Len(v))
      BY <3>1
    <3> QED BY <3>5, <3>6
  <2> QED BY <2>1, <2>2
<1> HIDE DEF A
<1>3. \A k \in 1 .. n : (\A m \in k + 1 .. n : m \in A) => k \in A
  BY <1>2
<1>4. \A k \in 1 .. n : k \in A
  <2> HIDE DEF n
  <2> QED BY ONLY <1>1, <1>3, Downward
<1>5. RestOf(v)[1] = SubSeq(v, 1, Len(v))
  BY <1>1, <1>4 DEF A
<1>6. SubSeq(v, 1, Len(v)) = v
  OBVIOUS
<1> QED BY <1>5, <1>6, NormalizedIs

LEMMA NormalStable == ASSUME TitlesAssumption, word \in Seq(Characters) PROVE NormalIsStable
<1>1. word \in Seq(Chars) /\ Len(word) \in Nat
  BY DEF Chars
<1>2. StandsFor(RestOf(word)[1], word, 1)
  BY <1>1, RestsStand
<1> DEFINE v == Normalized(word)
<1>3. v = RestOf(word)[1]
  BY NormalizedIs
<1>4. v \in Seq(Chars) /\ Quiet(v)
  BY <1>2, <1>3 DEF StandsFor
<1> HIDE DEF v
<1>5. Normalized(v) = v
  BY <1>4, QuietIsNormal
<1> QED BY <1>5 DEF NormalIsStable, v

-----------------------------------------------------------------------------
(* Values do not matter.                                                   *)

(* What is the same at two places has the same normal form, and the rest   *)
(* begins as far behind.                                                   *)
LEMMA SameEmitted ==
    ASSUME NEW w, NEW u, NEW i \in Nat, NEW k \in Nat, w[i] = u[k],
           Prefixed(w, i) <=> Prefixed(u, k),
           Prefixed(w, i) => RunLength(w, i + 2, HexDigits) = RunLength(u, k + 2, HexDigits),
           RunLength(w, i, Digits) = RunLength(u, k, Digits),
           RunLength(w, i, HexDigits) = RunLength(u, k, HexDigits)
    PROVE  Emitted(w, i) = Emitted(u, k)
BY DEF Emitted

LEMMA SameNext ==
    ASSUME TitlesAssumption, NEW w, Len(w) \in Nat, NEW u, Len(u) \in Nat,
           NEW i \in 1 .. Len(w), NEW k \in 1 .. Len(u),
           Prefixed(w, i) <=> Prefixed(u, k),
           Prefixed(w, i) => RunLength(w, i + 2, HexDigits) = RunLength(u, k + 2, HexDigits),
           RunLength(w, i, Digits) = RunLength(u, k, Digits),
           RunLength(w, i, HexDigits) = RunLength(u, k, HexDigits)
    PROVE  NextAt(w, i) - i = NextAt(u, k) - k
<1>1. RunLength(w, i, Digits) \in Nat /\ RunLength(w, i, HexDigits) \in Nat
  BY RunLengthRange
<1>2. CASE Prefixed(w, i)
  <2>1. i + 2 \in 1 .. Len(w) + 1
    BY <1>2 DEF Prefixed
  <2>2. RunLength(w, i + 2, HexDigits) \in Nat
    BY <2>1, RunLengthRange
  <2>3. NextAt(w, i) = i + 2 + RunLength(w, i + 2, HexDigits) /\ NextAt(u, k) = k + 2 + RunLength(u, k + 2, HexDigits)
    BY <1>2 DEF NextAt
  <2> QED BY <1>2, <2>2, <2>3
<1>3. CASE ~Prefixed(w, i) /\ RunLength(w, i, Digits) >= MinNumber
  <2>1. NextAt(w, i) = i + RunLength(w, i, Digits) /\ NextAt(u, k) = k + RunLength(u, k, Digits)
    BY <1>3 DEF NextAt
  <2> QED BY <1>1, <2>1
<1>4. CASE ~Prefixed(w, i) /\ ~(RunLength(w, i, Digits) >= MinNumber) /\ RunLength(w, i, HexDigits) >= MinHex
  <2>1. NextAt(w, i) = i + RunLength(w, i, HexDigits) /\ NextAt(u, k) = k + RunLength(u, k, HexDigits)
    BY <1>4 DEF NextAt
  <2> QED BY <1>1, <2>1
<1>5. CASE ~Prefixed(w, i) /\ ~(RunLength(w, i, Digits) >= MinNumber) /\ ~(RunLength(w, i, HexDigits) >= MinHex)
  <2>1. NextAt(w, i) = i + 1 /\ NextAt(u, k) = k + 1
    BY <1>5 DEF NextAt
  <2> QED BY <2>1
<1> QED BY <1>2, <1>3, <1>4, <1>5

(* The same characters follow.                                             *)
EndAlike(w, b, u, a) == Len(w) - b = Len(u) - a /\ \A m \in 1 .. Len(w) - b : w[b + m] = u[a + m]

(* Where two words end alike, so do their normal forms.                    *)
LEMMA RestsAreLocal ==
    ASSUME TitlesAssumption, NEW w, Len(w) \in Nat, NEW u, Len(u) \in Nat,
           NEW b \in 0 .. Len(w), NEW a \in 0 .. Len(u), EndAlike(w, b, u, a)
    PROVE  RestOf(w)[b + 1] = RestOf(u)[a + 1]
<1> DEFINE n == Len(w) - b + 1
           A == {m \in 1 .. n : RestOf(w)[b + m] = RestOf(u)[a + m]}
<1>1. Len(w) - b = Len(u) - a /\ \A m \in 1 .. Len(w) - b : w[b + m] = u[a + m]
  BY DEF EndAlike
<1>2. n \in Nat /\ n >= 1 /\ 1 \in Nat
  OBVIOUS
<1>3. ASSUME NEW m \in 1 .. n, \A k \in m + 1 .. n : k \in A PROVE m \in A
  <2>1. CASE m = n
    <3>1. b + m > Len(w) /\ b + m \in 1 .. Len(w) + 1 /\ a + m > Len(u) /\ a + m \in 1 .. Len(u) + 1
      BY <2>1, <1>1
    <3>2. RestOf(w)[b + m] = <<>> /\ RestOf(u)[a + m] = <<>>
      BY <3>1, RestIs
    <3> QED BY <3>2
  <2>2. CASE m # n
    <3> DEFINE i == b + m
               k == a + m
    <3>1. /\ i \in 1 .. Len(w) /\ k \in 1 .. Len(u) /\ i \in Nat /\ k \in Nat
          /\ i \in 1 .. Len(w) + 1 /\ k \in 1 .. Len(u) + 1 /\ Len(w) - i = Len(u) - k
      BY <2>2, <1>1
    <3>2. \A j \in 0 .. Len(w) - i : w[i + j] = u[k + j]
      <4> SUFFICES ASSUME NEW j \in 0 .. Len(w) - i PROVE w[i + j] = u[k + j]
        OBVIOUS
      <4>1. m + j \in 1 .. Len(w) - b /\ b + (m + j) = i + j /\ a + (m + j) = k + j
        BY <2>2
      <4> QED BY <4>1, <1>1
    <3>3. i - b = m /\ k - a = m
      OBVIOUS
    <3> HIDE DEF i, k
    <3>4. RunLength(w, i, Digits) = RunLength(u, k, Digits) /\ RunLength(w, i, HexDigits) = RunLength(u, k, HexDigits)
      <4>1. i \in 1 .. Len(w) + 1 /\ k \in 1 .. Len(u) + 1 /\ Len(w) - i = Len(u) - k
        BY <3>1
      <4>2. Alike(w, i, u, k)
        BY <4>1, <3>2 DEF Alike
      <4>3. \A S : RunLength(w, i, S) = RunLength(u, k, S)
        BY ONLY Len(w) \in Nat, Len(u) \in Nat, <4>1, <4>2, RunLengthShifts
      <4> QED BY <4>3
    <3>5. w[i] = u[k]
      <4>1. 0 \in 0 .. Len(w) - i /\ i + 0 = i /\ k + 0 = k
        BY <3>1
      <4> QED BY <3>2, <4>1
    <3>6. ASSUME i + 2 <= Len(w)
          PROVE  /\ w[i + 1] = u[k + 1] /\ w[i + 2] = u[k + 2]
                 /\ RunLength(w, i + 2, HexDigits) = RunLength(u, k + 2, HexDigits)
      <4>1. 1 \in 0 .. Len(w) - i /\ 2 \in 0 .. Len(w) - i
        BY <3>1, <3>6
      <4>2. w[i + 1] = u[k + 1] /\ w[i + 2] = u[k + 2]
        BY <3>2, <4>1
      <4>3. i + 2 \in 1 .. Len(w) + 1 /\ k + 2 \in 1 .. Len(u) + 1 /\ Len(w) - (i + 2) = Len(u) - (k + 2)
        BY <3>1, <3>6
      <4>4. \A j \in 0 .. Len(w) - (i + 2) : w[i + 2 + j] = u[k + 2 + j]
        <5> SUFFICES ASSUME NEW j \in 0 .. Len(w) - (i + 2) PROVE w[i + 2 + j] = u[k + 2 + j]
          OBVIOUS
        <5>1. 2 + j \in 0 .. Len(w) - i /\ i + (2 + j) = i + 2 + j /\ k + (2 + j) = k + 2 + j
          BY <3>1
        <5> QED BY <3>2, <5>1
      <4>5. Alike(w, i + 2, u, k + 2)
        BY <4>3, <4>4 DEF Alike
      <4>6. \A S : RunLength(w, i + 2, S) = RunLength(u, k + 2, S)
        BY ONLY Len(w) \in Nat, Len(u) \in Nat, <4>3, <4>5, RunLengthShifts
      <4> QED BY <4>2, <4>6
    <3>7. i + 2 <= Len(w) <=> k + 2 <= Len(u)
      BY <3>1
    <3>8. Prefixed(w, i) <=> Prefixed(u, k)
      BY <3>5, <3>6, <3>7 DEF Prefixed
    <3>9. Prefixed(w, i) => RunLength(w, i + 2, HexDigits) = RunLength(u, k + 2, HexDigits)
      BY <3>6 DEF Prefixed
    <3>10. Emitted(w, i) = Emitted(u, k)
      BY <3>1, <3>4, <3>5, <3>8, <3>9, SameEmitted
    <3>11. NextAt(w, i) - i = NextAt(u, k) - k
      BY <3>1, <3>4, <3>8, <3>9, SameNext
    <3>12. NextAt(w, i) \in i + 1 .. Len(w) + 1 /\ NextAt(u, k) \in k + 1 .. Len(u) + 1
      BY <3>1, NextAtRange
    <3> DEFINE x == NextAt(w, i)
               y == NextAt(u, k)
               q == x - b
    <3>13. q \in m + 1 .. n /\ b + q = x /\ a + q = y
      <4>1. x - i = y - k /\ x \in i + 1 .. Len(w) + 1 /\ y \in Int
        BY <3>11, <3>12
      <4> HIDE DEF x, y
      <4> QED BY <3>1, <3>3, <4>1
    <3> HIDE DEF q
    <3>14. q \in A
      BY <1>3, <3>13
    <3>15. RestOf(w)[NextAt(w, i)] = RestOf(u)[NextAt(u, k)]
      BY <3>13, <3>14
    <3>16. RestOf(w)[i] = RestOf(u)[k]
      BY <3>1, <3>10, <3>15, RestThere
    <3> QED BY <3>16 DEF i, k
  <2> QED BY <2>1, <2>2
<1> HIDE DEF A
<1>4. \A k \in 1 .. n : (\A m \in k + 1 .. n : m \in A) => k \in A
  BY <1>3
<1>5. \A k \in 1 .. n : k \in A
  <2> HIDE DEF n
  <2> QED BY ONLY <1>2, <1>4, Downward
<1>6. 1 \in A
  <2> HIDE DEF n
  <2> QED BY <1>2, <1>5
<1> QED BY <1>6 DEF A

(* A run stops where a character is not of its kind.                       *)
LEMMA RunStops ==
    ASSUME NEW w, Len(w) \in Nat, NEW u, Len(u) \in Nat, NEW s \in 1 .. Len(w), s \in 1 .. Len(u),
           \A m \in 1 .. s : w[m] = u[m], NEW S, w[s] \notin S, NEW k \in 1 .. s
    PROVE  RunLength(w, k, S) = RunLength(u, k, S) /\ k + RunLength(w, k, S) <= s
<1> DEFINE r == RunLength(w, k, S)
<1>1. k \in 1 .. Len(w) + 1 /\ k \in 1 .. Len(u) + 1
  OBVIOUS
<1>2. IsRun(w, k, S, r)
  BY <1>1, RunLengthIsRun
<1> HIDE DEF r
<1>3. r \in Nat /\ \A j \in k .. k + r - 1 : w[j] \in S
  BY <1>2 DEF IsRun
<1>4. k + r <= s
  <2>1. ~(s \in k .. k + r - 1)
    BY <1>3
  <2> QED BY <1>3, <2>1
<1>5. w[k + r] \notin S
  <2>1. k + r <= Len(w)
    BY <1>3, <1>4
  <2> QED BY <1>2, <2>1 DEF IsRun
<1>6. \A j \in k .. k + r - 1 : u[j] \in S
  <2> SUFFICES ASSUME NEW j \in k .. k + r - 1 PROVE u[j] \in S
    OBVIOUS
  <2>1. j \in 1 .. s
    BY <1>3, <1>4
  <2> QED BY <1>3, <2>1
<1>7. u[k + r] \notin S
  <2>1. k + r \in 1 .. s
    BY <1>3, <1>4
  <2> QED BY <1>5, <2>1
<1>8. k + r <= Len(u) + 1
  BY <1>3, <1>4
<1>9. IsRun(u, k, S, r)
  BY <1>3, <1>6, <1>7, <1>8 DEF IsRun
<1>10. RunLength(u, k, S) = r
  BY <1>1, <1>9, RunLengthIs
<1> QED BY <1>4, <1>10 DEF r

(* The rest begins no later than just behind the runs.                     *)
LEMMA NextBefore ==
    ASSUME NEW w, NEW k \in Nat, NEW s \in Nat, NEW c, c = s + 1, k <= s,
           RunLength(w, k, Digits) \in Nat, RunLength(w, k, HexDigits) \in Nat,
           k + RunLength(w, k, Digits) <= s, k + RunLength(w, k, HexDigits) <= s,
           Prefixed(w, k) => RunLength(w, k + 2, HexDigits) \in Nat /\ k + 2 + RunLength(w, k + 2, HexDigits) <= s
    PROVE  NextAt(w, k) <= c
<1> DEFINE d == RunLength(w, k, Digits)
           h == RunLength(w, k, HexDigits)
           p == RunLength(w, k + 2, HexDigits)
<1>1. CASE Prefixed(w, k)
  <2>1. NextAt(w, k) = k + 2 + p /\ p \in Nat /\ k + 2 + p <= s
    BY <1>1 DEF NextAt
  <2> HIDE DEF p
  <2> QED BY <2>1
<1>2. CASE ~Prefixed(w, k)
  <2>1. NextAt(w, k) \in {k + d, k + h, k + 1}
    BY <1>2 DEF NextAt
  <2>2. d \in Nat /\ h \in Nat /\ k + d <= s /\ k + h <= s
    OBVIOUS
  <2> HIDE DEF d, h
  <2> QED BY <2>1, <2>2
<1> QED BY <1>1, <1>2

(* A difference behind characters that end every run leaves their normal   *)
(* form as it is.                                                          *)
LEMMA HeadsAreSame ==
    ASSUME TitlesAssumption, NEW w, Len(w) \in Nat, NEW u, Len(u) \in Nat,
           NEW c \in 1 .. Len(w), c \in 1 .. Len(u), \A m \in 1 .. c - 1 : w[m] = u[m],
           c > 1 => w[c - 1] \notin HexDigits,
           c > 2 => ~(w[c - 1] = "x" /\ w[c - 2] = "0"),
           RestOf(w)[c] = RestOf(u)[c]
    PROVE  RestOf(w)[1] = RestOf(u)[1]
<1> DEFINE A == {k \in 1 .. c : RestOf(w)[k] = RestOf(u)[k]}
<1>1. c \in Nat /\ 1 \in Nat
  OBVIOUS
<1>2. ASSUME NEW k \in 1 .. c, \A m \in k + 1 .. c : m \in A PROVE k \in A
  <2>1. CASE k = c
    BY <2>1
  <2>2. CASE k # c
    <3> DEFINE s == c - 1
    <3>1. /\ s \in 1 .. Len(w) /\ s \in 1 .. Len(u) /\ k \in 1 .. s /\ c > 1 /\ s + 1 = c
          /\ k \in 1 .. Len(w) /\ k \in 1 .. Len(u) /\ k \in Nat /\ s \in Nat
      BY <2>2
    <3>2. (\A m \in 1 .. s : w[m] = u[m]) /\ w[s] \notin HexDigits
      BY <3>1
    <3>3. w[s] \notin Digits /\ w[s] # "0"
      BY <3>2, CharacterFacts
    <3>4. s > 1 => ~(w[s] = "x" /\ w[s - 1] = "0")
      BY <3>1
    <3> HIDE DEF s
    <3>5. \A m \in 1 .. s : RunLength(w, m, HexDigits) = RunLength(u, m, HexDigits) /\ m + RunLength(w, m, HexDigits) <= s
      BY <3>1, <3>2, RunStops
    <3>6. RunLength(w, k, Digits) = RunLength(u, k, Digits) /\ k + RunLength(w, k, Digits) <= s
      BY <3>1, <3>2, <3>3, RunStops
    <3>7. w[k] = u[k]
      BY <3>1, <3>2
    <3>8. ASSUME NEW v \in {w, u}, Prefixed(v, k) PROVE k + 2 \in 1 .. s
      <4>1. v[k] = "0" /\ v[k + 1] = "x"
        BY <3>8 DEF Prefixed
      <4>2. k # s
        BY <3>3, <3>7, <4>1
      <4>3. k + 1 # s
        <5> SUFFICES ASSUME k + 1 = s PROVE FALSE
          OBVIOUS
        <5>1. k + 1 \in 1 .. s /\ s - 1 = k /\ s > 1
          BY <3>1
        <5>2. w[k + 1] = "x" /\ w[k] = "0"
          BY <3>2, <3>7, <4>1, <5>1
        <5> QED BY <3>4, <5>1, <5>2
      <4> QED BY <3>1, <4>2, <4>3
    <3>9. k + 2 \in 1 .. s => w[k + 1] = u[k + 1] /\ w[k + 2] = u[k + 2]
      <4>1. k + 2 \in 1 .. s => k + 1 \in 1 .. s
        BY <3>1
      <4> QED BY <3>2, <4>1
    <3>10. Prefixed(w, k) => Prefixed(u, k)
      <4> SUFFICES ASSUME Prefixed(w, k) PROVE Prefixed(u, k)
        OBVIOUS
      <4>1. k + 2 \in 1 .. s
        BY <3>8
      <4>2. k + 2 <= Len(u)
        BY <3>1, <4>1
      <4> QED BY <3>7, <3>9, <4>1, <4>2 DEF Prefixed
    <3>11. Prefixed(u, k) => Prefixed(w, k)
      <4> SUFFICES ASSUME Prefixed(u, k) PROVE Prefixed(w, k)
        OBVIOUS
      <4>1. k + 2 \in 1 .. s
        BY <3>8
      <4>2. k + 2 <= Len(w)
        BY <3>1, <4>1
      <4> QED BY <3>7, <3>9, <4>1, <4>2 DEF Prefixed
    <3>12. Prefixed(w, k) => /\ RunLength(w, k + 2, HexDigits) = RunLength(u, k + 2, HexDigits)
                             /\ k + 2 + RunLength(w, k + 2, HexDigits) <= s
      BY <3>5, <3>8
    <3>13. RunLength(w, k, HexDigits) = RunLength(u, k, HexDigits) /\ k + RunLength(w, k, HexDigits) <= s
      BY <3>1, <3>5
    <3>14. Emitted(w, k) = Emitted(u, k)
      BY <3>1, <3>6, <3>7, <3>10, <3>11, <3>12, <3>13, SameEmitted
    <3>15. NextAt(w, k) = NextAt(u, k)
      <4>1. NextAt(w, k) - k = NextAt(u, k) - k
        BY <3>1, <3>6, <3>10, <3>11, <3>12, <3>13, SameNext
      <4>2. NextAt(w, k) \in k + 1 .. Len(w) + 1 /\ NextAt(u, k) \in k + 1 .. Len(u) + 1
        BY <3>1, NextAtRange
      <4> DEFINE x == NextAt(w, k)
                 y == NextAt(u, k)
      <4>3. x \in Int /\ y \in Int /\ x - k = y - k
        BY <4>1, <4>2
      <4> HIDE DEF x, y
      <4>4. x = y
        BY <3>1, <4>3
      <4> QED BY <4>4 DEF x, y
    <3>16. NextAt(w, k) \in k + 1 .. c
      <4>1. NextAt(w, k) \in k + 1 .. Len(w) + 1
        BY <3>1, NextAtRange
      <4>2. NextAt(w, k) <= c
        <5>1. RunLength(w, k, Digits) \in Nat /\ RunLength(w, k, HexDigits) \in Nat
          <6>1. k \in 1 .. Len(w) + 1
            BY <3>1
          <6> QED BY <6>1, RunLengthRange
        <5>2. Prefixed(w, k) => RunLength(w, k + 2, HexDigits) \in Nat /\ k + 2 + RunLength(w, k + 2, HexDigits) <= s
          <6>1. Prefixed(w, k) => k + 2 \in 1 .. Len(w) + 1
            BY <3>1 DEF Prefixed
          <6> QED BY <3>12, <6>1, RunLengthRange
        <5>3. c = s + 1 /\ k <= s /\ k \in Nat /\ s \in Nat
          BY <3>1
        <5> QED BY ONLY <3>6, <3>13, <5>1, <5>2, <5>3, NextBefore
      <4> DEFINE x == NextAt(w, k)
      <4>3. x \in k + 1 .. Len(w) + 1 /\ x <= c
        BY <4>1, <4>2
      <4> HIDE DEF x
      <4>4. x \in k + 1 .. c
        BY <4>3
      <4> QED BY <4>4 DEF x
    <3>17. NextAt(w, k) \in A
      BY <1>2, <3>16
    <3>18. RestOf(w)[NextAt(w, k)] = RestOf(u)[NextAt(w, k)]
      BY <3>17
    <3>19. RestOf(w)[k] = RestOf(u)[k]
      <4>1. k \in 1 .. Len(w) /\ k \in 1 .. Len(u)
        BY <3>1
      <4>2. RestOf(w)[k] = Emitted(w, k) \o RestOf(w)[NextAt(w, k)]
        BY ONLY TitlesAssumption, Len(w) \in Nat, <4>1, RestThere
      <4>3. RestOf(u)[k] = Emitted(u, k) \o RestOf(u)[NextAt(u, k)]
        BY ONLY TitlesAssumption, Len(u) \in Nat, <4>1, RestThere
      <4> QED BY <3>14, <3>15, <3>18, <4>2, <4>3
    <3> QED BY <3>19
  <2> QED BY <2>1, <2>2
<1> HIDE DEF A
<1>3. \A k \in 1 .. c : (\A m \in k + 1 .. c : m \in A) => k \in A
  BY <1>2
<1>4. \A k \in 1 .. c : k \in A
  BY ONLY <1>1, <1>3, Downward
<1>5. 1 \in A
  BY <1>1, <1>4
<1> QED BY <1>5 DEF A

-----------------------------------------------------------------------------
(* u is w with v in place of its characters i to j.                        *)
Replaces(u, w, i, j, v) ==
    /\ Len(u) = i - 1 + Len(v) + (Len(w) - j)
    /\ \A m \in 1 .. i - 1 : u[m] = w[m]
    /\ \A m \in 1 .. Len(v) : u[i - 1 + m] = v[m]
    /\ \A m \in 1 .. Len(w) - j : u[i - 1 + Len(v) + m] = w[j + m]

OtherThan(w, i, j, v) == SubSeq(w, 1, i - 1) \o v \o SubSeq(w, j + 1, Len(w))

AllIn(v, S) == \A k \in 1 .. Len(v) : v[k] \in S
EndsAt(w, j) == j = Len(w) \/ w[j + 1] \notin HexDigits

LEMMA OtherReplaces ==
    ASSUME NEW w \in Seq(Chars), NEW i \in 1 .. Len(w), NEW j \in i .. Len(w), NEW v \in Seq(Chars)
    PROVE  Replaces(OtherThan(w, i, j, v), w, i, j, v)
<1> DEFINE a == SubSeq(w, 1, i - 1)
           b == a \o v
           c == SubSeq(w, j + 1, Len(w))
           u == b \o c
<1>1. /\ Len(w) \in Nat /\ Len(v) \in Nat
      /\ i - 1 \in 0 .. Len(w) /\ Len(w) - j \in Nat
  OBVIOUS
<1>2. /\ a \in Seq(Chars) /\ Len(a) = i - 1 /\ \A m \in 1 .. i - 1 : a[m] = w[m]
  OBVIOUS
<1>3. /\ c \in Seq(Chars) /\ Len(c) = Len(w) - j /\ \A m \in 1 .. Len(w) - j : c[m] = w[j + m]
  OBVIOUS
<1> HIDE DEF a, c
<1>4. Joining(b, a, v)
  BY DEF Joining
<1> HIDE DEF b
<1>5. /\ b \in Seq(Chars) /\ Len(b) = Len(a) + Len(v)
      /\ \A m \in 1 .. Len(a) : b[m] = a[m]
      /\ \A m \in 1 .. Len(v) : b[Len(a) + m] = v[m]
  <2>1. a \in Seq(Chars)
    BY <1>2
  <2>2. b \in Seq(Chars) /\ Len(b) = Len(a) + Len(v)
    BY ONLY <2>1, <1>4, v \in Seq(Chars), JoiningProps
  <2>3. \A m \in 1 .. Len(a) : b[m] = a[m]
    BY ONLY <2>1, <1>4, v \in Seq(Chars), JoiningProps
  <2>4. \A m \in 1 .. Len(v) : b[Len(a) + m] = v[m]
    BY ONLY <2>1, <1>4, v \in Seq(Chars), JoiningProps
  <2> QED BY <2>2, <2>3, <2>4
<1>6. Joining(u, b, c)
  BY DEF Joining
<1> HIDE DEF u
<1>7. /\ Len(u) = Len(b) + Len(c)
      /\ \A m \in 1 .. Len(b) : u[m] = b[m]
      /\ \A m \in 1 .. Len(c) : u[Len(b) + m] = c[m]
  <2>1. b \in Seq(Chars) /\ c \in Seq(Chars)
    BY <1>3, <1>5
  <2>2. Len(u) = Len(b) + Len(c)
    BY ONLY <2>1, <1>6, JoiningProps
  <2>3. \A m \in 1 .. Len(b) : u[m] = b[m]
    BY ONLY <2>1, <1>6, JoiningProps
  <2>4. \A m \in 1 .. Len(c) : u[Len(b) + m] = c[m]
    BY ONLY <2>1, <1>6, JoiningProps
  <2> QED BY <2>2, <2>3, <2>4
<1>8. Len(u) = i - 1 + Len(v) + (Len(w) - j)
  BY <1>1, <1>2, <1>3, <1>5, <1>7
<1>9. \A m \in 1 .. i - 1 : u[m] = w[m]
  <2> SUFFICES ASSUME NEW m \in 1 .. i - 1 PROVE u[m] = w[m]
    OBVIOUS
  <2>1. m \in 1 .. Len(a) /\ m \in 1 .. Len(b)
    BY <1>1, <1>2, <1>5
  <2> QED BY <1>2, <1>5, <1>7, <2>1
<1>10. \A m \in 1 .. Len(v) : u[i - 1 + m] = v[m]
  <2> SUFFICES ASSUME NEW m \in 1 .. Len(v) PROVE u[i - 1 + m] = v[m]
    OBVIOUS
  <2>1. i - 1 + m \in 1 .. Len(b) /\ i - 1 + m = Len(a) + m
    BY <1>1, <1>2, <1>5
  <2>2. b[i - 1 + m] = v[m]
    BY <1>5, <2>1
  <2> QED BY <1>7, <2>1, <2>2
<1>11. \A m \in 1 .. Len(w) - j : u[i - 1 + Len(v) + m] = w[j + m]
  <2> SUFFICES ASSUME NEW m \in 1 .. Len(w) - j PROVE u[i - 1 + Len(v) + m] = w[j + m]
    OBVIOUS
  <2>1. m \in 1 .. Len(c) /\ i - 1 + Len(v) + m = Len(b) + m
    BY <1>1, <1>2, <1>3, <1>5
  <2>2. u[i - 1 + Len(v) + m] = c[m]
    BY <1>7, <2>1
  <2> QED BY <1>3, <2>2
<1>12. Replaces(u, w, i, j, v)
  BY <1>8, <1>9, <1>10, <1>11 DEF Replaces
<1> QED BY <1>12 DEF u, b, a, c, OtherThan

LEMMA ValueReplacesItself ==
    ASSUME NEW w \in Seq(Chars), NEW i \in 1 .. Len(w), NEW j \in i .. Len(w)
    PROVE  /\ Replaces(w, w, i, j, SubSeq(w, i, j))
           /\ SubSeq(w, i, j) \in Seq(Chars) /\ Len(SubSeq(w, i, j)) = j - i + 1
<1>1. Len(w) \in Nat /\ i \in Nat /\ j \in Nat
  OBVIOUS
<1> DEFINE v == SubSeq(w, i, j)
<1>2. v \in Seq(Chars) /\ Len(v) = j - i + 1 /\ \A m \in 1 .. Len(v) : v[m] = w[i - 1 + m]
  OBVIOUS
<1> HIDE DEF v
<1>3. i - 1 + Len(v) = j
  BY <1>1, <1>2
<1>4. Replaces(w, w, i, j, v)
  BY <1>1, <1>2, <1>3 DEF Replaces
<1> QED BY <1>2, <1>4 DEF v

(* The value is one run, and what follows it is as it was.                 *)
LEMMA ValueRun ==
    ASSUME TitlesAssumption, NEW w, Len(w) \in Nat, NEW i \in 1 .. Len(w), NEW j \in i .. Len(w),
           EndsAt(w, j),
           NEW v, Len(v) \in Nat, NEW u, Replaces(u, w, i, j, v),
           NEW S, S \subseteq HexDigits, AllIn(v, S)
    PROVE  /\ Len(u) \in Nat /\ i - 1 + Len(v) <= Len(u)
           /\ RunLength(u, i, S) = Len(v)
           /\ RestOf(u)[i + Len(v)] = RestOf(w)[j + 1]
<1> DEFINE a == i - 1 + Len(v)
<1>1. Len(u) = a + (Len(w) - j) /\ \A m \in 1 .. Len(w) - j : u[a + m] = w[j + m]
  BY DEF Replaces
<1>2. a \in Nat /\ i + Len(v) = a + 1 /\ j \in Nat /\ j \in 0 .. Len(w)
  OBVIOUS
<1>3. \A m \in 1 .. Len(v) : u[i - 1 + m] = v[m]
  BY DEF Replaces
<1> HIDE DEF a
<1>4. Len(u) \in Nat /\ a \in 0 .. Len(u) /\ Len(w) - j = Len(u) - a
  BY <1>1, <1>2
<1>5. RestOf(w)[j + 1] = RestOf(u)[a + 1]
  <2>1. \A m \in 1 .. Len(w) - j : w[j + m] = u[a + m]
    BY <1>1
  <2>2. a \in 0 .. Len(u) /\ j \in 0 .. Len(w) /\ Len(u) \in Nat /\ Len(w) - j = Len(u) - a
    BY <1>2, <1>4
  <2>3. EndAlike(w, j, u, a)
    BY <2>1, <2>2 DEF EndAlike
  <2> QED BY ONLY TitlesAssumption, Len(w) \in Nat, <2>2, <2>3, RestsAreLocal
<1>6. IsRun(u, i, S, Len(v))
  <2>1. i + Len(v) <= Len(u) + 1
    BY <1>2, <1>4
  <2>2. ASSUME NEW k \in i .. i + Len(v) - 1 PROVE u[k] \in S
    <3>1. k - i + 1 \in 1 .. Len(v) /\ i - 1 + (k - i + 1) = k
      OBVIOUS
    <3> QED BY <1>3, <3>1 DEF AllIn
  <2>3. i + Len(v) <= Len(u) => u[i + Len(v)] \notin S
    <3> SUFFICES ASSUME i + Len(v) <= Len(u) PROVE u[i + Len(v)] \notin S
      OBVIOUS
    <3>1. 1 \in 1 .. Len(w) - j /\ j # Len(w)
      BY <1>2, <1>4
    <3>2. u[a + 1] = w[j + 1]
      BY <1>1, <3>1
    <3> QED BY <1>2, <3>1, <3>2 DEF EndsAt
  <2> QED BY <2>1, <2>2, <2>3 DEF IsRun
<1>7. i \in 1 .. Len(u) + 1
  BY <1>2, <1>4
<1>8. RunLength(u, i, S) = Len(v)
  BY <1>4, <1>6, <1>7, RunLengthIs
<1>9. a = i - 1 + Len(v)
  BY DEF a
<1> QED BY <1>2, <1>4, <1>5, <1>8, <1>9

LEMMA AddressNormal ==
    ASSUME TitlesAssumption, NEW w, Len(w) \in Nat, NEW i \in 1 .. Len(w), NEW j \in i .. Len(w),
           EndsAt(w, j), i > 2, w[i - 1] = "x", w[i - 2] = "0",
           NEW v, Len(v) \in Nat, Len(v) > 0, AllIn(v, HexDigits),
           NEW u, Replaces(u, w, i, j, v)
    PROVE  Len(u) \in Nat /\ i - 2 \in 1 .. Len(u) /\ RestOf(u)[i - 2] = (Prefix \o HexMark) \o RestOf(w)[j + 1]
<1>1. /\ Len(u) \in Nat /\ i - 1 + Len(v) <= Len(u)
      /\ RunLength(u, i, HexDigits) = Len(v) /\ RestOf(u)[i + Len(v)] = RestOf(w)[j + 1]
  BY ValueRun
<1> DEFINE c == i - 2
<1>2. c \in 1 .. Len(u) /\ c + 2 <= Len(u) /\ c + 1 = i - 1 /\ c + 2 = i
  BY <1>1
<1>3. u[c] = "0" /\ u[c + 1] = "x" /\ u[c + 2] \in HexDigits
  <2>1. c \in 1 .. i - 1 /\ c + 1 \in 1 .. i - 1
    BY <1>2
  <2>2. u[c] = w[c] /\ u[c + 1] = w[c + 1]
    BY <2>1 DEF Replaces
  <2>3. 1 \in 1 .. Len(v) /\ i - 1 + 1 = i
    OBVIOUS
  <2>4. u[i] = v[1] /\ v[1] \in HexDigits
    BY <2>3 DEF Replaces, AllIn
  <2> QED BY <1>2, <2>2, <2>3, <2>4
<1> HIDE DEF c
<1>4. Prefixed(u, c)
  BY <1>2, <1>3 DEF Prefixed
<1>5. Emitted(u, c) = Prefix \o HexMark /\ NextAt(u, c) = i + Len(v)
  BY <1>1, <1>2, <1>4 DEF Emitted, NextAt
<1>6. RestOf(u)[c] = Emitted(u, c) \o RestOf(u)[NextAt(u, c)]
  BY ONLY TitlesAssumption, <1>1, <1>2, RestThere
<1> QED BY <1>1, <1>2, <1>5, <1>6 DEF c

LEMMA NumberNormal ==
    ASSUME TitlesAssumption, NEW w, Len(w) \in Nat, NEW i \in 1 .. Len(w), NEW j \in i .. Len(w),
           EndsAt(w, j),
           NEW v, Len(v) \in Nat, Len(v) >= MinNumber, AllIn(v, Digits),
           NEW u, Replaces(u, w, i, j, v)
    PROVE  Len(u) \in Nat /\ i \in 1 .. Len(u) /\ RestOf(u)[i] = NumMark \o RestOf(w)[j + 1]
<1>1. MinNumber \in Nat /\ MinNumber > 1
  BY DEF TitlesAssumption
<1>2. /\ Len(u) \in Nat /\ i - 1 + Len(v) <= Len(u)
      /\ RunLength(u, i, Digits) = Len(v) /\ RestOf(u)[i + Len(v)] = RestOf(w)[j + 1]
  <2> DEFINE S == Digits
  <2>1. S \subseteq HexDigits /\ AllIn(v, S)
    BY CharacterFacts
  <2> HIDE DEF S
  <2>2. /\ Len(u) \in Nat /\ i - 1 + Len(v) <= Len(u)
        /\ RunLength(u, i, S) = Len(v) /\ RestOf(u)[i + Len(v)] = RestOf(w)[j + 1]
    BY <2>1, ValueRun
  <2> QED BY <2>2 DEF S
<1>3. i \in 1 .. Len(u)
  BY <1>1, <1>2
<1>4. ~Prefixed(u, i)
  <2>1. 2 \in 1 .. Len(v) /\ i - 1 + 2 = i + 1
    BY <1>1
  <2>2. u[i + 1] = v[2] /\ v[2] \in Digits
    BY <2>1 DEF Replaces, AllIn
  <2> QED BY <2>1, <2>2, CharacterFacts DEF Prefixed
<1>5. Emitted(u, i) = NumMark /\ NextAt(u, i) = i + Len(v)
  BY <1>2, <1>4 DEF Emitted, NextAt
<1>6. RestOf(u)[i] = Emitted(u, i) \o RestOf(u)[NextAt(u, i)]
  BY ONLY TitlesAssumption, <1>2, <1>3, RestThere
<1> QED BY <1>2, <1>3, <1>5, <1>6

LEMMA AddressDoesNotMatter ==
    ASSUME TitlesAssumption, NEW w \in Seq(Chars), NEW i \in 1 .. Len(w), NEW j \in i .. Len(w),
           EndsAt(w, j), i > 2, w[i - 1] = "x", w[i - 2] = "0",
           i > 3 => w[i - 3] \notin HexDigits \cup {"x"},
           AllIn(SubSeq(w, i, j), HexDigits),
           NEW v \in Seq(Chars), Len(v) > 0, AllIn(v, HexDigits)
    PROVE  Normalized(w) = Normalized(OtherThan(w, i, j, v))
<1> DEFINE u == OtherThan(w, i, j, v)
           q == SubSeq(w, i, j)
           c == i - 2
<1>1. Len(w) \in Nat /\ Len(v) \in Nat /\ i \in Nat /\ j \in Nat /\ i <= j
  OBVIOUS
<1>2. Replaces(u, w, i, j, v)
  BY OtherReplaces
<1>3. Replaces(w, w, i, j, q) /\ q \in Seq(Chars) /\ Len(q) = j - i + 1
  BY ValueReplacesItself
<1>4. AllIn(q, HexDigits)
  OBVIOUS
<1> HIDE DEF q, u
<1>5. Len(q) \in Nat /\ Len(q) > 0
  BY <1>1, <1>3
<1>6. Len(u) \in Nat /\ i - 2 \in 1 .. Len(u) /\ RestOf(u)[i - 2] = (Prefix \o HexMark) \o RestOf(w)[j + 1]
  BY ONLY TitlesAssumption, i \in 1 .. Len(w), j \in i .. Len(w), EndsAt(w, j), i > 2, w[i - 1] = "x", w[i - 2] = "0",
     Len(v) > 0, AllIn(v, HexDigits), <1>1, <1>2, AddressNormal
<1>7. Len(w) \in Nat /\ i - 2 \in 1 .. Len(w) /\ RestOf(w)[i - 2] = (Prefix \o HexMark) \o RestOf(w)[j + 1]
  BY ONLY TitlesAssumption, i \in 1 .. Len(w), j \in i .. Len(w), EndsAt(w, j), i > 2, w[i - 1] = "x", w[i - 2] = "0",
     <1>1, <1>3, <1>4, <1>5, AddressNormal
<1>8. c - 1 = i - 3 /\ c > 2 => c > 1
  OBVIOUS
<1>9. \A m \in 1 .. c - 1 : w[m] = u[m]
  <2>1. \A m \in 1 .. c - 1 : m \in 1 .. i - 1
    OBVIOUS
  <2> QED BY <1>2, <2>1 DEF Replaces
<1>10. (c > 1 => w[c - 1] \notin HexDigits) /\ (c > 2 => ~(w[c - 1] = "x" /\ w[c - 2] = "0"))
  BY <1>8
<1>11. c \in 1 .. Len(w) /\ c \in 1 .. Len(u) /\ RestOf(w)[c] = RestOf(u)[c]
  BY <1>6, <1>7
<1> HIDE DEF c
<1>12. RestOf(w)[1] = RestOf(u)[1]
  BY ONLY TitlesAssumption, <1>1, <1>6, <1>9, <1>10, <1>11, HeadsAreSame
<1> QED BY <1>12, NormalizedIs DEF u

LEMMA NumberDoesNotMatter ==
    ASSUME TitlesAssumption, NEW w \in Seq(Chars), NEW i \in 1 .. Len(w), NEW j \in i .. Len(w),
           i = 1 \/ w[i - 1] \notin HexDigits, EndsAt(w, j),
           ~(i > 2 /\ w[i - 1] = "x" /\ w[i - 2] = "0"),
           Len(SubSeq(w, i, j)) >= MinNumber,
           AllIn(SubSeq(w, i, j), Digits),
           NEW v \in Seq(Chars), Len(v) >= MinNumber, AllIn(v, Digits)
    PROVE  Normalized(w) = Normalized(OtherThan(w, i, j, v))
<1> DEFINE u == OtherThan(w, i, j, v)
           q == SubSeq(w, i, j)
<1>1. Len(w) \in Nat /\ Len(v) \in Nat /\ i \in Nat /\ j \in Nat /\ i <= j
  OBVIOUS
<1>2. Replaces(u, w, i, j, v)
  BY OtherReplaces
<1>3. Replaces(w, w, i, j, q) /\ q \in Seq(Chars) /\ Len(q) = j - i + 1
  BY ValueReplacesItself
<1>4. Len(q) >= MinNumber /\ AllIn(q, Digits)
  OBVIOUS
<1> HIDE DEF q, u
<1>5. Len(q) \in Nat
  BY <1>1, <1>3
<1>6. Len(u) \in Nat /\ i \in 1 .. Len(u) /\ RestOf(u)[i] = NumMark \o RestOf(w)[j + 1]
  BY ONLY TitlesAssumption, i \in 1 .. Len(w), j \in i .. Len(w), EndsAt(w, j),
     Len(v) >= MinNumber, AllIn(v, Digits), <1>1, <1>2, NumberNormal
<1>7. i \in 1 .. Len(w) /\ RestOf(w)[i] = NumMark \o RestOf(w)[j + 1]
  BY ONLY TitlesAssumption, i \in 1 .. Len(w), j \in i .. Len(w), EndsAt(w, j),
     <1>1, <1>3, <1>4, <1>5, NumberNormal
<1>8. \A m \in 1 .. i - 1 : w[m] = u[m]
  BY <1>2 DEF Replaces
<1>9. (i > 1 => w[i - 1] \notin HexDigits) /\ (i > 2 => ~(w[i - 1] = "x" /\ w[i - 2] = "0"))
  OBVIOUS
<1>10. i \in 1 .. Len(u) /\ RestOf(w)[i] = RestOf(u)[i]
  BY <1>6, <1>7
<1>11. RestOf(w)[1] = RestOf(u)[1]
  BY ONLY TitlesAssumption, <1>1, <1>6, <1>7, <1>8, <1>9, <1>10, HeadsAreSame
<1> QED BY <1>11, NormalizedIs DEF u

LEMMA ValuesSame == ASSUME TitlesAssumption, word \in Seq(Characters) PROVE ValuesDoNotMatter
<1> DEFINE w == word
           one == <<"a">>
           few == [k \in 1 .. MinNumber |-> "7"]
<1>1. w \in Seq(Chars)
  BY DEF Chars
<1>2. one \in Seq(Chars) /\ Len(one) > 0 /\ AllIn(one, HexDigits)
  BY DEF Chars, HexDigits, AllIn
<1>3. few \in Seq(Chars) /\ Len(few) >= MinNumber /\ AllIn(few, Digits)
  <2>1. MinNumber \in Nat
    BY DEF TitlesAssumption
  <2>2. few \in Seq(Chars) /\ Len(few) = MinNumber
    BY <2>1 DEF Chars
  <2> QED BY <2>1, <2>2 DEF Digits, AllIn
<1> HIDE DEF w, one, few
<1>4. ASSUME NEW i \in DOMAIN w, NEW j \in DOMAIN w, i <= j,
             i = 1 \/ w[i - 1] \notin HexDigits, j = Len(w) \/ w[j + 1] \notin HexDigits
      PROVE  /\ /\ i > 2 /\ w[i - 1] = "x" /\ w[i - 2] = "0"
                /\ i > 3 => w[i - 3] \notin HexDigits \cup {"x"}
                /\ \A k \in DOMAIN SubSeq(w, i, j) : SubSeq(w, i, j)[k] \in HexDigits
                => Normalized(w) = Normalized(OtherThan(w, i, j, one))
             /\ /\ Len(SubSeq(w, i, j)) >= MinNumber
                /\ \A k \in DOMAIN SubSeq(w, i, j) : SubSeq(w, i, j)[k] \in Digits
                /\ ~(i > 2 /\ w[i - 1] = "x" /\ w[i - 2] = "0")
                => Normalized(w) = Normalized(OtherThan(w, i, j, few))
  <2>1. i \in 1 .. Len(w) /\ j \in i .. Len(w)
    BY <1>1, <1>4
  <2>2. EndsAt(w, j) /\ SubSeq(w, i, j) \in Seq(Chars)
    BY <1>1, <1>4, <2>1 DEF EndsAt
  <2>3. \A S : (\A k \in DOMAIN SubSeq(w, i, j) : SubSeq(w, i, j)[k] \in S) => AllIn(SubSeq(w, i, j), S)
    BY <2>2 DEF AllIn
  <2>4. ASSUME i > 2 /\ w[i - 1] = "x" /\ w[i - 2] = "0",
               i > 3 => w[i - 3] \notin HexDigits \cup {"x"},
               \A k \in DOMAIN SubSeq(w, i, j) : SubSeq(w, i, j)[k] \in HexDigits
        PROVE  Normalized(w) = Normalized(OtherThan(w, i, j, one))
    <3>1. AllIn(SubSeq(w, i, j), HexDigits)
      BY <2>4, <2>3
    <3> QED BY ONLY TitlesAssumption, <1>1, <1>2, <1>4, <2>1, <2>2, <3>1, <2>4, AddressDoesNotMatter
  <2>5. ASSUME Len(SubSeq(w, i, j)) >= MinNumber,
               \A k \in DOMAIN SubSeq(w, i, j) : SubSeq(w, i, j)[k] \in Digits,
               ~(i > 2 /\ w[i - 1] = "x" /\ w[i - 2] = "0")
        PROVE  Normalized(w) = Normalized(OtherThan(w, i, j, few))
    <3>1. AllIn(SubSeq(w, i, j), Digits)
      BY <2>5, <2>3
    <3> QED BY ONLY TitlesAssumption, <1>1, <1>3, <1>4, <2>1, <2>2, <3>1, <2>5, NumberDoesNotMatter
  <2> QED BY <2>4, <2>5
<1> QED BY <1>4 DEF ValuesDoNotMatter, OtherThan, w, one, few

-----------------------------------------------------------------------------
(* What detect_crash and normalize_summary find names a crash by what it   *)
(* is, whatever was printed when and with which addresses and numbers, and *)
(* the signatures made of it tell artifacts apart by their parts.          *)
THEOREM TitlesStayStable == TitlesSpec => []TitlesAreStable
<1> DEFINE ReadSoFar == console \in Seq(Lines) /\ word \in Seq(Characters)
<1>1. TitlesInit => ReadSoFar
  BY DEF TitlesInit
<1>2. ReadSoFar /\ [TitlesNext]_titlesVars => ReadSoFar'
  <2> SUFFICES ASSUME ReadSoFar, [TitlesNext]_titlesVars PROVE ReadSoFar'
    OBVIOUS
  <2>1. ASSUME NEW line \in Lines, PrintLine(line) PROVE ReadSoFar'
    BY <2>1 DEF PrintLine
  <2>2. ASSUME NEW c \in Characters, ReadCharacter(c) PROVE ReadSoFar'
    BY <2>2 DEF ReadCharacter
  <2>3. CASE UNCHANGED titlesVars
    BY <2>3 DEF titlesVars
  <2> QED BY <2>1, <2>2, <2>3 DEF TitlesNext
<1>3. ReadSoFar => TitlesAreStable
  BY TitlesAssumption, TitlesAreSettled, TimesPass, BannersSayNothing, NormalStable, ValuesSame, PartsApart, NotesAreNone
     DEF TitlesAreStable
<1> QED BY <1>1, <1>2, <1>3, PTL DEF TitlesSpec
=============================================================================
