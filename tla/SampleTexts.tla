----------------------------- MODULE SampleTexts ------------------------------
(* Files of descriptions to be loaded.                                     *)
EXTENDS Descriptions

CONSTANTS X, Y, Z, S1, S2, R1, R2, D, E, F1, F2, K1, K2

Calls == {<<Call("unknown1", None, <<R2>>), Call("known1", 3, <<S1>>)>>,
          <<Call("known1", 0, <<S2, R1>>), Call("unknown1", None, <<>>)>>}

(* The first text: sets and resources, from the other text or for it.      *)
Firsts ==
    {<<ValueSet(S1, <<X, Y, Z>>), ValueSet(S2, <<S1>>), Resource(R1, R2, <<>>), Include(F2)>>,
     <<ValueSet(S2, <<S1, Y>>), ValueSet(S1, <<X>>), Resource(R1, None, <<>>)>>,
     <<Define(Z, None), ValueSet(S1, <<Z, Y>>), Resource(R2, R1, <<>>), ValueSet(S2, <<X>>)>>,
     <<ValueSet(S2, <<S1>>), Resource(R1, R2, <<>>)>>,
     <<Resource(R2, R1, <<>>), Constset(S1, <<X>>), ValueSet(S2, <<S1, S1>>), Include(F1)>>}
Seconds ==
    {<<Resource(R2, None, <<>>), Const(Y, None)>>,
     <<Resource(R2, R1, <<>>), Resource(R1, None, <<>>), Const(Z, None)>>,
     <<Include(F1), Const(Y, X), Resource(R1, None, <<>>)>>,
     <<Include(F1), Const(Y, None), Resource(R2, R1, <<>>), Define(Z, Y)>>,
     <<Resource(R2, R1, <<>>), Resource(R1, R2, <<>>)>>,
     <<>>}

Consts1 == {ConstFile(TRUE, <<Const(X, None)>>), ConstFile(TRUE, <<Absent(X)>>)}
Consts2 == {ConstFile(TRUE, <<Const(Y, None)>>), ConstFile(FALSE, <<Const(Y, None), Const(X, None)>>),
            ConstFile(TRUE, <<Const(X, Y)>>)}

Dirs == {<<Dir(<<K1, F1, K2, F2>>), Dir(<<>>)>>, <<Dir(<<K1, F1, E>>), Dir(<<K2, F2>>)>>}

TextLoads ==
    {[root |-> r, there |-> D :> d[1] @@ E :> d[2] @@ K1 :> k1 @@ K2 :> k2 @@
            F1 :> Text(K1, TRUE, f1 \o c) @@ F2 :> Text(K2, a, f2 \o <<Call("unknown2", None, <<>>)>>)] :
       r \in {D, F1, F2}, d \in Dirs, k1 \in Consts1, k2 \in Consts2, f1 \in Firsts, f2 \in Seconds,
       c \in Calls, a \in BOOLEAN}

(* Files that include each other, themselves and what is in the directory. *)
CircularLoads ==
    {[root |-> D, there |-> D :> Dir(<<F1, F2>>) @@ K1 :> ConstFile(a, <<>>) @@
            F1 :> Text(K1, TRUE, i) @@ F2 :> Text(None, b, j)] :
       a \in BOOLEAN, b \in BOOLEAN,
       i \in {<<Include(F1), Include(F2)>>, <<Include(F2), Call("known1", 3, <<>>), Include(F1)>>, <<Include(F2)>>},
       j \in {<<Include(F1)>>, <<Call("unknown1", None, <<>>), Include(F2)>>, <<>>}}
=============================================================================
