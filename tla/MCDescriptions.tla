---------------------------- MODULE MCDescriptions ----------------------------
(***************************************************************************)
(* The description compiler on small instances.  A behaviour is about one  *)
(* part:                                                                   *)
(*   texts   files with their statements (Descriptions)                    *)
(*   circles files that include each other (Descriptions)                  *)
(*   types   definitions that refer to each other (TypeDefs)               *)
(* and the variables of the other module stay None.                        *)
(***************************************************************************)
EXTENDS Integers, Sequences, FiniteSets, SequencesExt, FiniteSetsExt

CONSTANTS
    None,
    X, Y, Z, S1, S2, R1, R2, D, E, F1, F2, K1, K2,
    A, B, C,
    T          \* not defined anywhere if there is no template

VARIABLES
    part,
    load, verdict,
    stack, visited, state, descs, next,
    at, pending, types

textsVars == <<stack, visited, state, descs, next>>
typesVars == <<at, pending, types>>

Texts == INSTANCE SampleTexts WITH
    ConstNames <- {X, Y, Z}, SetNames <- {S1, S2}, Kinds <- {R1, R2}
Loading == INSTANCE Descriptions WITH
    ConstNames <- {X, Y, Z}, SetNames <- {S1, S2}, Kinds <- {R1, R2}

Types == INSTANCE SampleTypes WITH Names <- {A, B, C, T}
Resolving == INSTANCE TypeDefs WITH Names <- {A, B, C, T}

-----------------------------------------------------------------------------
Idle(v) == v = None

MCInit ==
    \/ /\ \/ part = "texts" /\ Loading!Init(Texts!TextLoads)
          \/ part = "circles" /\ Loading!Init(Texts!CircularLoads)
       /\ Idle(at) /\ Idle(pending) /\ Idle(types)
    \/ /\ part = "types" /\ Resolving!Init(Types!TypeLoads)
       /\ Idle(stack) /\ Idle(visited) /\ Idle(state) /\ Idle(descs) /\ Idle(next)

MCNext ==
    /\ part' = part
    /\ \/ part \in {"texts", "circles"} /\ Loading!Next /\ UNCHANGED typesVars
       \/ part = "types" /\ Resolving!Next /\ UNCHANGED textsVars

(* A single thread works until it is done.  That it ends is asked of the   *)
(* circles and of the types.                                               *)
MCSpec ==
    /\ MCInit /\ [][MCNext]_<<part, load, verdict, textsVars, typesVars>>
    /\ WF_<<load, verdict, textsVars, typesVars>>(part # "texts" /\ MCNext)

-----------------------------------------------------------------------------
(* What comes out of the files is what is in them, in whatever order they  *)
(* come and include each other: each call once; for a call nobody knows a  *)
(* number that none of the calls described before it has (a known call     *)
(* that comes later may bring the same one); resources, unless a base is   *)
(* nowhere; and sets with all their constants, in the calls that use them, *)
(* too.                                                                    *)
FilesLoseNothing ==
    part # "types" =>
        /\ Loading!EachCallOnce /\ Loading!SyntheticIdsAreNew
        /\ Loading!ResourcesComeInAnyOrder /\ Loading!SetsLoseNothing

(* What becomes of types does not depend on the order of their definitions,*)
(* and they are refused only for a name that is nowhere, or a circle of    *)
(* types that hold each other by value.                                    *)
OrderDoesNotMatter ==
    part = "types" => Resolving!OrderDoesNotMatter /\ Resolving!FailsForAReason

(* Copies of a type taken before it was resolved for good have the layout  *)
(* it has in the end; and what pointers lead to is known in a directory.   *)
CopiesHaveTheShape ==
    part = "types" => Resolving!CopiesHaveTheShape /\ Resolving!PointersAreKnown

(* Loading files and resolving types come to an end, also in circles.      *)
LoadingEnds == part # "texts" => <>(verdict \notin {"loading", "resolving"})
=============================================================================
