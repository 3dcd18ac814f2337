--------------------------- MODULE SourceMeaning ---------------------------
(***************************************************************************)
(* What a Toy program says, read off its AST: which programs are legal,    *)
(* and the calls, prints and returns of a function in the order in which   *)
(* they are written, each with the term of its operands.  MLIRGen must     *)
(* accept the legal programs and generate code with the same effects.      *)
(***************************************************************************)
EXTENDS MLIRGen

Term(op, attr, args) == [op |-> op, attr |-> attr, args |-> args]

-----------------------------------------------------------------------------
(* The generated code.                                                     *)

RECURSIVE Unfold(_, _)
Unfold(f, v) ==
    LET op == f.ops[v]
    IN  Term(op.kind,
             IF op.kind = "reshape" THEN VarType("tensor", f.types[v].shape) ELSE op.attr,
             [i \in DOMAIN op.args |-> Unfold(f, op.args[i])])

EffectsOf(f) ==
    LET effects == SelectSeq([v \in DOMAIN f.ops |-> v],
                       LAMBDA v : f.ops[v].kind \in {"generic_call", "print", "return"})
    IN  [n \in DOMAIN effects |-> Unfold(f, effects[n])]

-----------------------------------------------------------------------------
(* The source: structs and types.  A type is "tensor" or a struct's name.  *)

Structs == {n \in DOMAIN prog : prog[n].k = "struct"}

Defined(name) == name = "tensor" \/ \E n \in Structs : prog[n].name = name

MembersOf(name) == prog[CHOOSE n \in Structs : prog[n].name = name].c

MembersNamed(name, member) ==
    {n \in DOMAIN MembersOf(name) : MembersOf(name)[n].name = member}

RECURSIVE Layout(_)
Layout(name) ==
    IF name = "tensor" THEN Unranked
    ELSE StructOf([n \in DOMAIN MembersOf(name) |-> Layout(MembersOf(name)[n].c[1].name)])

RECURSIVE LayoutOf(_)
LayoutOf(e) ==
    IF e.k = "struct_literal" THEN StructOf([n \in DOMAIN e.c |-> LayoutOf(e.c[n])])
    ELSE IF e.k \in {"num", "tensor"} THEN Unranked ELSE NoResult

(* The type of an expression, "error" if it is not legal.  env maps the    *)
(* variables to their types and terms.                                     *)
RECURSIVE TypeOfExpr(_, _)
TypeOfExpr(e, env) ==
    LET Arg(n) == TypeOfExpr(e.c[n], env)
        legal(b, t) == IF b THEN t ELSE "error"
    IN  CASE e.k = "variable" ->
               IF e.name \in DOMAIN env THEN env[e.name].type ELSE "error"
          [] e.k \in {"num", "tensor"} -> "tensor"
          [] e.k = "binary" /\ e.name \in {"+", "*"} ->
               legal(Arg(1) = "tensor" /\ Arg(2) = "tensor", "tensor")
          [] e.k = "binary" /\ e.name = "." ->
               IF /\ Arg(1) \notin {"error", "tensor"}
                  /\ e.c[2].k = "variable"
                  /\ MembersNamed(Arg(1), e.c[2].name) # {}
               THEN MembersOf(Arg(1))[CHOOSE n \in MembersNamed(Arg(1), e.c[2].name) : TRUE]
                        .c[1].name
               ELSE "error"
          [] e.k = "call" /\ e.name = "transpose" ->
               legal(Len(e.c) = 1 /\ \A n \in DOMAIN e.c : Arg(n) = "tensor", "tensor")
          [] e.k = "call" /\ e.name # "transpose" ->
               legal(\A n \in DOMAIN e.c : Arg(n) # "error", "tensor")
          [] OTHER -> "error"

(* A struct variable is initialized by a literal of its layout or by an    *)
(* expression of its type.                                                 *)
Initializes(e, type, env) ==
    \/ TypeOfExpr(e, env) = type
    \/ type # "tensor" /\ e.k = "struct_literal" /\ LayoutOf(e) = Layout(type)

-----------------------------------------------------------------------------
(* The source: terms and effects.                                          *)

RECURSIVE ArrayOf(_)
ArrayOf(e) ==
    IF e.k = "struct_literal"
    THEN Node("array", "", [n \in DOMAIN e.c |-> ArrayOf(e.c[n])])
    ELSE e

RECURSIVE TermOf(_, _)
TermOf(e, env) ==
    LET args == [n \in DOMAIN e.c |-> TermOf(e.c[n], env)]
    IN  CASE e.k = "variable" -> env[e.name].term
          [] e.k \in {"num", "tensor"} -> Term("constant", e, << >>)
          [] e.k = "struct_literal" -> Term("struct_constant", ArrayOf(e), << >>)
          [] e.k = "binary" /\ e.name = "+" -> Term("add", Null, args)
          [] e.k = "binary" /\ e.name = "*" -> Term("mul", Null, args)
          [] e.k = "binary" /\ e.name = "." ->
               LET n == CHOOSE m \in MembersNamed(TypeOfExpr(e.c[1], env), e.c[2].name) : TRUE
               IN  Term("struct_access", SizedNode("index", "", <<n>>, << >>),
                        <<TermOf(e.c[1], env)>>)
          [] e.k = "call" /\ e.name = "transpose" -> Term("transpose", Null, args)
          [] e.k = "call" /\ e.name # "transpose" ->
               Term("generic_call", Node("callee", e.name, << >>), args)

(* The calls of an expression, operands first and from left to right.      *)
RECURSIVE Calls(_, _)
Calls(e, env) ==
    (IF e.k = "binary" /\ e.name = "." THEN Calls(e.c[1], env)
     ELSE IF e.k \in {"binary", "call"}
     THEN FlattenSeq([n \in DOMAIN e.c |-> Calls(e.c[n], env)]) ELSE << >>)
    \o (IF e.k = "call" /\ e.name # "transpose" THEN <<TermOf(e, env)>> ELSE << >>)

(* The environment after a declaration.                                    *)
With(env, decl) ==
    LET type == decl.c[1]
        term == TermOf(decl.c[2], env)
    IN  (decl.name :>
            [type |-> type.name,
             term |-> IF type.dims = << >> THEN term
                      ELSE Term("reshape", VarType("tensor", type.dims), <<term>>)]) @@ env

(* The statements up to the first return are legal.                        *)
RECURSIVE LegalBlock(_, _)
LegalBlock(statements, env) ==
    statements = << >> \/
    LET s == statements[1]
        more(e) == LegalBlock(Tail(statements), e)
    IN  CASE s.k = "decl" ->
               /\ s.name \notin DOMAIN env
               /\ Initializes(s.c[2], s.c[1].name, env)
               /\ more(With(env, s))
          [] s.k = "print"  -> TypeOfExpr(s.c[1], env) = "tensor" /\ more(env)
          [] s.k = "return" -> \A n \in DOMAIN s.c : TypeOfExpr(s.c[n], env) # "error"
          [] OTHER -> TypeOfExpr(s, env) # "error" /\ more(env)

RECURSIVE Effects(_, _)
Effects(statements, env) ==
    IF statements = << >> THEN <<Term("return", Null, << >>)>>
    ELSE LET s == statements[1]
             more(e) == Effects(Tail(statements), e)
             args == [n \in DOMAIN s.c |-> TermOf(s.c[n], env)]
         IN  CASE s.k = "decl"   -> Calls(s.c[2], env) \o more(With(env, s))
               [] s.k = "print"  -> Calls(s.c[1], env) \o <<Term("print", Null, args)>>
                                    \o more(env)
               [] s.k = "return" -> FlattenSeq([n \in DOMAIN s.c |-> Calls(s.c[n], env)])
                                    \o <<Term("return", Null, args)>>
               [] OTHER -> Calls(s, env) \o more(env)

-----------------------------------------------------------------------------
(* Legal programs.                                                         *)

EnvOf(def) ==
    LET params == def.c[1].c
    IN  [name \in {params[n].name : n \in DOMAIN params} |->
            [type |-> params[CHOOSE n \in DOMAIN params : params[n].name = name].c[1].name,
             term |-> Term("arg", Node("param", name, << >>), << >>)]]

(* Structs are defined before they are used, and once.                     *)
LegalStruct(n) ==
    /\ \A m \in Structs : prog[m].name = prog[n].name => m = n
    /\ prog[n].name # "tensor"
    /\ Distinct(prog[n].c)
    /\ \A i \in DOMAIN prog[n].c : LET type == prog[n].c[i].c[1].name IN
           type = "tensor" \/ \E m \in Structs : m < n /\ prog[m].name = type

LegalFunction(n) ==
    LET params == prog[n].c[1].c
    IN  /\ \A m \in DOMAIN prog : prog[m].k = "def" /\ prog[m].name = prog[n].name => m = n
        /\ Distinct(params)
        /\ \A i \in DOMAIN params : Defined(params[i].c[1].name)
        /\ LegalBlock(Tail(prog[n].c), EnvOf(prog[n]))

Legal ==
    \A n \in DOMAIN prog :
        \/ prog[n].k = "struct" /\ LegalStruct(n)
        \/ prog[n].k = "def" /\ (\A m \in Structs : m < n) /\ LegalFunction(n)

(* Members and parameters are tensors, or structs defined further up.      *)
TypesDefined ==
    \A n \in DOMAIN prog :
        LET decls == IF prog[n].k = "def" THEN prog[n].c[1].c ELSE prog[n].c
        IN  \A i \in DOMAIN decls : LET type == decls[i].c[1].name IN
                type = "tensor" \/ \E m \in Structs : m < n /\ prog[m].name = type

(* A legal program is never rejected and never stops the compiler, and a   *)
(* program with an unknown type never becomes a module: getType has none   *)
(* to go on with after its message (src/src/MLIRGen.cpp:639).              *)
AcceptsLegal ==
    /\ status \in {"null", "crash"} => ~ Legal
    /\ status = "module" => TypesDefined

(* The module of a legal program calls, prints and returns what the source *)
(* says, in its order.                                                     *)
MeaningPreserved ==
    status = "module" /\ Legal =>
        LET defs == SelectSeq(prog, LAMBDA r : r.k = "def")
        IN  /\ Len(funcs) = Len(defs)
            /\ \A n \in DOMAIN defs :
                   EffectsOf(funcs[n]) = Effects(Tail(defs[n].c), EnvOf(defs[n]))
=============================================================================
