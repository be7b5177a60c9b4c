----------------------------- MODULE SampleTypes ------------------------------
(* Definitions of types to be resolved.                                    *)
EXTENDS TypeDefs

CONSTANTS
    A, B, C,
    T    \* not defined anywhere if there is no template

Refs(vias, names) == {Ref(via, n) : via \in vias, n \in names}
All == Refs({"value", "ptr"}, {A, B, C}) \cup {Ref("ptrarray", C), Ref("use", T)}

DefsOfA == {Def(A, k, <<r>>) : k \in {"struct", "union"}, r \in All}
               \cup {Def(A, k, r) : k \in {"struct", "varunion"},
                        r \in {<<Ref("value", B), Ref("ptr", C)>>, <<Ref("ptr", B), Ref("value", C)>>,
                               <<Ref("value", B), Ref("ptr", A)>>, <<Ref("value", C), Ref("value", A)>>}}
DefsOfB == {Def(B, k, <<Ref(via, n)>>) : k \in {"alias", "struct", "union"},
                via \in {"value", "ptr", "ptrarray"}, n \in {A, C}}
               \cup {Def(B, "varunion", <<Ref("ptr", C), Ref("value", A)>>), Def(B, "struct", <<Ref("use", T)>>)}
DefsOfC == {Def(C, "struct", <<>>), Def(C, "struct", <<Ref("value", A)>>),
            Def(C, "struct", <<Ref("ptr", A)>>), Def(C, "union", <<Ref("ptrarray", B)>>),
            Def(C, "alias", <<Ref("ptr", A)>>)}
Templates == {<<>>} \cup {<<Def(T, "template", <<r>>)>> : r \in {Ref("value", B), Ref("ptr", B), Ref("ptr", A)}}

Uses(def) == Ref("use", T) \in ToSet(def.refs)

TypeLoads ==
    UNION {{[dir |-> FALSE, files |-> <<<<a, b, c>> \o t>>],
            [dir |-> TRUE, files |-> <<t \o <<a>>, <<b, c>>>>]} :
              <<a, b, c, t>> \in {l \in DefsOfA \X DefsOfB \X DefsOfC \X Templates :
                                    l[4] = <<>> \/ Uses(l[1]) \/ Uses(l[2])}}
=============================================================================
