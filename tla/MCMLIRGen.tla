----------------------------- MODULE MCMLIRGen -----------------------------
(***************************************************************************)
(* Modules for MLIRGen: expressions of every shape in one function, the    *)
(* scopes of two functions, and structs.                                   *)
(***************************************************************************)
EXTENDS SourceMeaning

Var(name)      == Node("variable", name, << >>)
Num(n)         == Node("num", n, << >>)
Row(n)         == Literal(<<Num(n), Num(n)>>)
Binary(op, l, r) == Node("binary", op, <<l, r>>)
Dot(e, name)   == Binary(".", e, Var(name))
Call(f, args)  == Node("call", f, args)
Printed(e)       == Node("print", "print", <<e>>)
Return(es)     == Node("return", "", es)
Braces(es)     == Node("struct_literal", "", es)
Decl(type, name, e) == VarDecl(name, VarType(type, << >>), <<e>>)
Shaped(name, dims, e) == VarDecl(name, VarType("tensor", dims), <<e>>)
Member(type, name) == VarDecl(name, VarType(type, << >>), << >>)
Def(name, params, body) == Node("def", name, <<Node("params", "", params)>> \o body)
StructDef(name, members) == Node("struct", name, members)

-----------------------------------------------------------------------------
(* One function that uses an expression once.                              *)

Leaves == {Var("x"), Var("y"), Num("1"), Row("2")}

Over(S) ==
    {Binary(op, l, r) : op \in {"+", "*", "-"}, l \in S, r \in S}
    \cup {Call("transpose", <<e>>) : e \in S}
    \cup {Call("f", <<e>>) : e \in S} \cup {Printed(e) : e \in S}

Deep ==
    LET inner == {Binary("+", Var("x"), Num("1")), Call("f", <<Var("x")>>),
                  Call("transpose", <<Var("x")>>), Printed(Var("x"))}
    IN  Over(Leaves) \cup Over(inner \cup {Num("1")})
        \cup {Call("f", <<l, r>>) : l, r \in inner}
        \cup {Call("f", << >>), Call("transpose", << >>),
              Call("transpose", <<Num("1"), Num("2")>>)}

Use(how, e) ==
    CASE how = "print"  -> Printed(e)
      [] how = "return" -> Return(<<e>>)
      [] how = "decl"   -> Decl("tensor", "z", e)
      [] how = "shaped" -> Shaped("z", <<2, 1>>, e)
      [] how = "alone"  -> e

Expressions ==
    { <<Def("main", << >>, <<Decl("tensor", "x", Row("1")), Use(how, e), Printed(Var("x"))>>)>> :
        how \in {"print", "return", "decl", "shaped", "alone"}, e \in Deep }

-----------------------------------------------------------------------------
(* Two functions that share names.                                         *)

Statements ==
    { Decl("tensor", "x", Num("1")), Decl("tensor", "p", Num("2")),
      Decl("tensor", "y", Binary("+", Var("x"), Var("p"))),
      Decl("tensor", "x", Null),
      Printed(Var("x")), Printed(Binary("*", Num("3"), Var("y"))), Call("f", <<Var("p")>>),
      Return(<< >>), Return(<<Var("x")>>), Return(<<Null>>) }

Bodies(n) == UNION {[1 .. m -> Statements] : m \in 0 .. n}

ParamLists ==
    { << >>, <<Member("tensor", "p")>>, <<Member("tensor", "x"), Member("tensor", "p")>>,
      <<Member("tensor", "p"), Member("tensor", "p")>> }

(* A function of up to one statement before one of up to two, and a        *)
(* function of up to three.                                                *)
Scopes ==
    { <<Def("f", ps, b), Def("main", << >>, c)>> :
        ps \in ParamLists, b \in Bodies(1), c \in Bodies(2) }
    \cup { <<Def("main", <<Member("tensor", "p")>>, b)>> : b \in Bodies(3) }
    \cup { <<Def("f", << >>, << >>), Def("f", << >>, b)>> : b \in Bodies(1) }
    \cup { <<Null>>, <<Def("main", << >>, << >>), Null>> }

-----------------------------------------------------------------------------
(* Structs.                                                                *)

Declarations ==
    { << >>,
      <<StructDef("A", <<Member("tensor", "a"), Member("tensor", "b")>>)>>,
      <<StructDef("A", <<Member("A", "a")>>)>>,
      <<StructDef("A", <<Member("tensor", "a")>>), StructDef("A", <<Member("tensor", "b")>>)>>,
      <<StructDef("B", <<Member("tensor", "a")>>),
        StructDef("A", <<Member("B", "a"), Member("tensor", "b")>>)>> }

Braced ==
    { Braces(es) : es \in { << >>, <<Num("1")>>, <<Num("1"), Row("2")>>, <<Var("p")>>,
                            <<Var("p"), Row("2"), Num("1")>>, <<Null>>,
                            <<Braces(<<Row("1")>>), Num("2")>>,
                            <<Braces(<<Var("p")>>), Num("2")>> } }

Accesses ==
    { Dot(Var("v"), "a"), Dot(Var("v"), "b"), Dot(Var("v"), "c"),
      Dot(Dot(Var("v"), "a"), "a"), Dot(Dot(Var("v"), "c"), "a"),
      Dot(Var("p"), "a"), Dot(Call("f", <<Var("v")>>), "a"),
      Binary(".", Var("v"), Num("1")), Var("v"), Binary("+", Var("v"), Var("p")) }

Using(how, e) == IF how = "print" THEN Printed(e) ELSE Decl("A", "w", e)

StructModules ==
    { decls \o <<Def("f", <<Member(type, "v")>>, <<Return(<<e>>)>>)>> :
        decls \in Declarations, type \in {"A", "tensor"}, e \in Accesses }
    \cup { decls \o <<Def("main", << >>, <<Decl("tensor", "p", Row("1")), Decl(type, "v", b),
                                          Using(how, e)>>)>> :
             decls \in {d \in Declarations : d # << >>}, type \in {"A", "tensor"},
             b \in Braced \cup {Num("1")},
             how \in {"print", "decl"}, e \in Accesses }

MCModules == Expressions \cup Scopes \cup StructModules
=============================================================================
