----------------------------- MODULE MCCompiler -----------------------------
(***************************************************************************)
(* Programs for the whole compiler: those of MCMLIRGen, and programs whose *)
(* functions, reshapes, transposes and structs the passes rewrite.         *)
(***************************************************************************)
EXTENDS EndToEnd, MCMLIRGen

Matrix(a, b, c, d, e, f) ==
    Literal(<<Literal(<<Num(a), Num(b), Num(c)>>), Literal(<<Num(d), Num(e), Num(f)>>)>>)

M == Matrix("1", "2", "3", "4", "5", "6")
N == Matrix("7", "8", "9", "a", "b", "c")
T(e) == Call("transpose", <<e>>)
Times(l, r) == Binary("*", l, r)
Tensor(name) == Member("tensor", name)
Main(body) == Def("main", << >>, body)

-----------------------------------------------------------------------------
(* One function, called from main.                                         *)

Returned ==
    LET p == Var("p")
    IN  {p, M, T(p), T(T(p)), T(T(T(p))), Times(p, T(T(p))), Times(T(p), T(p)), Times(p, T(p)),
         Call("f", <<p>>)}

CalleeBodies ==
    {<<Return(<<e>>)>> : e \in Returned}
    \cup { <<Printed(T(Var("p"))), Return(<<Var("p")>>)>>, <<Return(<< >>)>>,
           <<Shaped("q", <<3, 2>>, Var("p")), Return(<<Times(Var("q"), Var("q"))>>)>>,
           <<Decl("tensor", "q", N), Printed(Var("q")), Return(<<Times(Var("q"), Var("p"))>>)>> }

Called ==
    LET a == Var("a")
        f(e) == Call("f", <<e>>)
    IN  {f(a), T(f(a)), f(T(a)), f(f(a)), Times(f(a), f(a)), Times(a, f(f(a))),
         Call("f", <<a, a>>), Call("h", <<a>>)}

Calls1 ==
    { <<Def("f", <<Tensor("p")>>, body), Main(<<Decl("tensor", "a", M), use>>)>> :
        body \in CalleeBodies,
        use \in {Printed(e) : e \in Called} \cup {Call("f", <<Var("a")>>), Return(<<Call("f", <<Var("a")>>)>>)} }

(* A function between f and main, defined before or after its callee, with *)
(* the parameters in another order, and calls in a circle.                 *)
Calls2 ==
    LET f(e) == Call("f", <<e>>)
        defF == Def("f", <<Tensor("p")>>, <<Printed(Var("p")), Return(<<T(Var("p"))>>)>>)
        defG(e) == Def("g", <<Tensor("x"), Tensor("p")>>, <<Return(<<e>>)>>)
        main(l, r) == Main(<<Decl("tensor", "a", M), Printed(Call("g", <<l, r>>))>>)
    IN  UNION { { <<defF, defG(e), main(l, r)>>, <<defG(e), defF, main(l, r)>> } :
            e \in {f(Var("x")), Times(f(Var("p")), f(Var("x"))), Times(f(f(Var("x"))), Var("p")), Var("x")},
            l \in {Var("a"), T(T(Var("a")))}, r \in {N, Var("a")} }
        \cup { <<Def("f", <<Tensor("p")>>, <<Return(<<Call("g", <<Var("p"), Var("p")>>)>>)>>),
                 defG(f(Var("x"))), main(Var("a"), N)>> }

-----------------------------------------------------------------------------
(* Declarations with a shape, one on top of the other.                     *)

Sizes == {<< >>, <<2, 3>>, <<3, 2>>, <<6>>, <<4>>}

Reshapes ==
    LET a == Var("a")
        b == Var("b")
    IN  { Main(<<Shaped("a", s1, e1), Shaped("b", s2, e2), Printed(e3)>>) :
            s1 \in Sizes, e1 \in {M, T(M)}, s2 \in Sizes \ {<<6>>}, e2 \in {a, T(a), Times(a, a)},
            e3 \in {b, T(T(b)), Times(b, M)} }

-----------------------------------------------------------------------------
(* Structs that are passed, accessed and folded.                           *)

StructFlows ==
    LET v == Var("v")
        structs == <<StructDef("A", <<Tensor("a"), Tensor("b")>>),
                     StructDef("B", <<Tensor("c"), Member("A", "d")>>)>>
        inA == {Dot(v, "a"), Dot(v, "b"), Times(Dot(v, "a"), T(T(Dot(v, "b")))), v}
        inB == {Dot(v, "c"), Dot(Dot(v, "d"), "b"), Times(Dot(v, "c"), Dot(Dot(v, "d"), "a")),
                Call("f", <<Dot(v, "d")>>)}
        w == Var("w")
        init == Braces(<<Num("1"), Braces(<<M, N>>)>>)
        f(e) == Def("f", <<Member("A", "v")>>, <<Return(<<e>>)>>)
        g(e) == Def("g", <<Member("B", "v")>>, <<Return(<<e>>)>>)
        uses == {Call("g", <<w>>), Call("f", <<Dot(w, "d")>>), Dot(Dot(w, "d"), "a"),
                 Call("f", <<w>>), Call("f", <<M>>)}
    IN  { structs \o <<f(ea), g(eb), Main(<<Decl("B", "w", init), Printed(use)>>)>> :
            ea \in inA, eb \in inB, use \in uses }
        \cup { structs \o <<f(ea), Main(<<Decl("A", "w", Braces(<<M, N>>)), use>>)>> :
            ea \in inA, use \in {Printed(Call("f", <<w>>)), Return(<<w>>), Printed(Dot(w, "b"))} }

Flows == Calls1 \cup Calls2 \cup {<<m>> : m \in Reshapes} \cup StructFlows

-----------------------------------------------------------------------------

ChainOf(e) == <<Main(<<Printed(e)>>)>>

(* The programs compiled with every action.                                *)
Everywhere == { ChainOf(T(T(M))), ChainOf(Var("x")), <<Main(<< >>)>>, <<Null>> }

MCPrograms == MCModules \cup Flows \cup Everywhere

MCRequests(p) == IF p \in Everywhere THEN ToSet(Actions) ELSE {"llvm"}

(* The programs are such as the parser makes, with all their nodes.  It    *)
(* never returns a module without a record.                                *)
RECURSIVE NodesOf(_)
NodesOf(nodes) ==
    UNION {{nodes[n]} \cup NodesOf(nodes[n].c) : n \in DOMAIN nodes}

ASSUME ProgramsAreGrammatical ==
    \A p \in MCPrograms : p # << >> /\ Grammatical(NodesOf(p))

RECURSIVE MCComplete(_)
MCComplete(nodes) ==
    \A n \in DOMAIN nodes : nodes[n] # Null /\ MCComplete(nodes[n].c)
=============================================================================
