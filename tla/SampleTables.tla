------------------------------ MODULE SampleTables ------------------------------
(***************************************************************************)
(* close and three of nine other syscalls in any order, over files,        *)
(* sockets and listeners.  A listener is made from a socket and a socket   *)
(* from a listener, so that each of the two may have no other constructor. *)
(***************************************************************************)
EXTENDS Naturals, Sequences

SampleKinds == {"fd", "sock", "lis"}
SampleLineage == [k \in SampleKinds |->
    CASE k = "fd" -> {"fd"} [] k = "sock" -> {"fd", "sock"} [] k = "lis" -> {"fd", "sock", "lis"}]

Desc(needs, gives, unsupported, terminal, prone) ==
    [needs |-> needs, gives |-> gives, unsupported |-> unsupported, terminal |-> terminal,
     prone |-> prone]

Pool == {
    Desc({}, <<"fd">>, FALSE, FALSE, FALSE),             \* open
    Desc({}, <<"sock">>, FALSE, FALSE, TRUE),            \* socket
    Desc({}, <<"sock", "sock">>, TRUE, FALSE, FALSE),    \* socketpair, not supported
    Desc({"sock"}, <<"lis">>, FALSE, FALSE, FALSE),      \* listen
    Desc({"lis"}, <<"sock">>, FALSE, FALSE, TRUE),       \* accept
    Desc({"sock"}, <<>>, FALSE, FALSE, TRUE),            \* send
    Desc({"fd"}, <<>>, FALSE, FALSE, TRUE),              \* read
    Desc({"fd", "lis"}, <<>>, FALSE, FALSE, FALSE),      \* pass
    Desc({}, <<>>, FALSE, FALSE, FALSE) }                \* getpid

Close == Desc({"fd"}, <<>>, FALSE, TRUE, FALSE)
Distinct(t) == \A i, j \in DOMAIN t : t[i] = t[j] => i = j
SampleDescTables == {t \in {<<a, b, c, Close>> : a, b, c \in Pool} : Distinct(t)}
SampleCorpora == {{}, {<<1, 2, 1, 3>>, <<4, 2, 2>>}}

(* At most one pair has timed out, and one syscall or all.                 *)
Only(S, e) == [x \in S |-> IF x = e THEN 20 ELSE 0]
SampleSysTimeouts == {Only(1 .. 4, e) : e \in 0 .. 4} \cup {[s \in 1 .. 4 |-> 20]}
SampleEdgeTimeouts == {Only((1 .. 4) \X (1 .. 4), e) : e \in {<<0, 0>>, <<1, 2>>, <<2, 1>>, <<3, 1>>}}
=============================================================================
