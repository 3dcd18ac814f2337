-------------------------- MODULE MCShapeInference --------------------------
(***************************************************************************)
(* Four families of function bodies, each closed by a return:              *)
(*   - every body of at most MaxWide operations;                           *)
(*   - every body of two operations without operands and one of any kind;  *)
(*   - every body of MaxDeep operations from the menu a .toy file uses;    *)
(*   - every body of MaxRanks operations on tensors of different ranks.    *)
(***************************************************************************)
EXTENDS ShapeInference

CONSTANTS MaxWide, MaxDeep, MaxRanks

Shapes == {<<2, 3>>, <<3, 2>>}

Operation(k, a, s) == [kind |-> k, args |-> a, value |-> s]

TensorTypes == {Unranked} \cup {Ranked(s) : s \in Shapes}

Entries(K, A, V, T) ==
    {<<Operation(k, a, s), t>> : k \in K, a \in A, s \in V, t \in T}

NoArgs  == {<< >>}
NoShape == {<< >>}

(* Entries that may start a body.                                          *)
Leaf(b) ==
    Entries({"arg"}, NoArgs, NoShape, {Unranked, Struct, Ranked(<<2, 3>>)})
    \cup Entries({"constant"}, NoArgs, Shapes, TensorTypes)
    \cup Entries({"struct_constant"}, NoArgs, NoShape, {Struct})
    \cup Entries({"generic_call"}, NoArgs, NoShape, {Unranked, Struct})

(* Entries that may follow the body b: every kind, every operand, every    *)
(* type its verifier lets a parsed file give it.                           *)
Wide(b) ==
    LET vals == {v \in DOMAIN b.ops : b.types[v] # NoResult}
        One  == {<<v>> : v \in vals}
        Two  == {<<v, w>> : v, w \in vals}
    IN  UNION { Leaf(b),
                Entries({"add"}, Two, NoShape, {Unranked, Ranked(<<2, 3>>)}),
                Entries({"mul"}, Two, NoShape, {Unranked}),
                Entries({"transpose", "cast"}, One, NoShape, TensorTypes),
                Entries({"reshape"}, One, NoShape, {Ranked(<<3, 2>>)}),
                Entries({"generic_call"}, One, NoShape, {Unranked}),
                Entries({"struct_access"}, One, NoShape, {Unranked, Ranked(<<2, 3>>)}),
                Entries({"print"}, One, NoShape, {NoResult}) }

(* Chains of operations whose shapes are all to be inferred.               *)
Deep(b) ==
    LET vals == DOMAIN b.ops
    IN  UNION { Entries({"arg"}, NoArgs, NoShape, {Unranked}),
                Entries({"constant"}, NoArgs, {<<2, 3>>}, {Ranked(<<2, 3>>), Unranked}),
                Entries({"add"}, {<<v, w>> : v, w \in vals}, NoShape, {Unranked}),
                Entries({"transpose", "cast"}, {<<v>> : v \in vals}, NoShape, {Unranked}) }

(* Transposes and casts of tensors of rank 0, 1 and 3; a parsed file gives *)
(* them results of any rank its verifier does not see to be wrong.         *)
OtherRanks == {<< >>, <<2>>, <<2, 3, 2>>, <<2, 3, 4>>}

Ranks(b) ==
    LET types == {Unranked} \cup {Ranked(s) : s \in OtherRanks}
    IN  UNION { Entries({"arg"}, NoArgs, NoShape, {Unranked}),
                Entries({"constant"}, NoArgs, OtherRanks, types),
                Entries({"transpose", "cast"}, {<<v>> : v \in DOMAIN b.ops}, NoShape, types) }

Extend(b, Menu(_), result) ==
    {[b EXCEPT !.ops = Append(@, e[1]), !.types = Append(@, e[2])] :
        e \in {x \in Menu(b) : OpVerifies(x[1], x[2], b.types, result)}}

Empty == [ops |-> << >>, types |-> << >>, result |-> << >>]

WideBodies[n \in 0 .. MaxWide] ==
    IF n = 0 THEN {Empty}
             ELSE UNION {Extend(b, Wide, << >>) : b \in WideBodies[n - 1]}

DeepBodies[n \in 0 .. MaxDeep] ==
    IF n = 0 THEN {Empty}
             ELSE UNION {Extend(b, Deep, << >>) : b \in DeepBodies[n - 1]}

RankBodies[n \in 0 .. MaxRanks] ==
    IF n = 0 THEN {Empty}
             ELSE UNION {Extend(b, Ranks, << >>) : b \in RankBodies[n - 1]}

(* A return of nothing, or of a value under a signature that allows it.    *)
Returning(b) ==
    LET vals == {v \in DOMAIN b.ops : b.types[v] # NoResult}
        Ret(a) == {<<Operation("return", a, << >>), NoResult>>}
    IN  Extend(b, LAMBDA x : Ret(<< >>), << >>) \cup
        UNION {Extend([b EXCEPT !.result = <<t>>], LAMBDA x : Ret(<<v>>), <<t>>) :
                   v \in vals, t \in {Unranked, Ranked(<<3, 2>>)}}

LeafThenAny ==
    UNION {Extend(b, Wide, << >>) :
        b \in UNION {Extend(c, Leaf, << >>) : c \in Extend(Empty, Leaf, << >>)}}

MCPrograms ==
    UNION {Returning(b) : b \in UNION {WideBodies[n] : n \in 0 .. MaxWide}}
    \cup UNION {Extend(b, LAMBDA x : {<<Operation("return", << >>, << >>), NoResult>>}, << >>) :
                    b \in LeafThenAny \cup DeepBodies[MaxDeep] \cup RankBodies[MaxRanks]}

(* The solution, computed in the order of definition.                      *)
Solve(p) ==
    LET sol[v \in Nat] ==
            IF \/ IsRanked(p.types[v])
               \/ ~ HasInterface(p.ops[v])
               \/ \E a \in Args(p, v) : ~ IsRanked(sol[a])
            THEN p.types[v]
            ELSE InferredType(p.ops[v], sol)
    IN  [v \in Defs(p) |-> sol[v]]
=============================================================================
