-------------------------------- MODULE AST --------------------------------
(***************************************************************************)
(* The abstract syntax of src/inc/AST.h, which the parser builds and       *)
(* MLIRGen walks.  A node has its class, a name (of a variable, a callee,  *)
(* an operator, a type), the dimensions of a literal or of a VarType, and  *)
(* its children.                                                           *)
(*                                                                         *)
(*   "num"             a NumberExprAST; the name stands for its value      *)
(*   "tensor"          a LiteralExprAST with its dims and values           *)
(*   "struct_literal"  a StructLiteralExprAST with its values              *)
(*   "variable", "binary", "call", "print", "return"                       *)
(*   "decl"            a VarDeclExprAST: its VarType, and the initializer  *)
(*   "def"             a FunctionAST: "params", then the statements        *)
(*   "struct"          a StructAST with its members                        *)
(***************************************************************************)
EXTENDS Integers, Sequences

SizedNode(k, name, dims, children) ==
    [k |-> k, name |-> name, dims |-> dims, c |-> children]

Node(k, name, children) == SizedNode(k, name, << >>, children)

(* Of a node without a name.                                               *)
NoName == ""

(* A null unique_ptr.                                                      *)
Null == Node("null", NoName, << >>)

(* A VarType: a type name and a shape.                                     *)
VarType(name, shape) == SizedNode("type", name, shape, << >>)

(* A VarDeclExprAST has a null initializer when init is << >>.             *)
VarDecl(name, type, init) == Node("decl", name, <<type>> \o init)

IsLiteral(node) == node.k = "tensor"

(* A node as the parser builds it.  It never makes a declaration among the *)
(* statements without an initializer, which may be null; a shape is only   *)
(* that of a tensor.                                                       *)
InGrammar(x) ==
    /\ x.dims \in Seq(Nat)
    /\ x.k = "binary" => Len(x.c) = 2
    /\ x.k = "print" => Len(x.c) = 1
    /\ x.k = "decl" => x.c # << >> /\ (x.c[1].name = "tensor" \/ x.c[1].dims = << >>)
    /\ x.k = "struct" => \A n \in DOMAIN x.c : x.c[n].k = "decl"
    /\ x.k = "def" =>
           /\ x.c # << >>
           /\ \A n \in DOMAIN x.c[1].c : x.c[1].c[n].k = "decl"
           /\ \A n \in 2 .. Len(x.c) : x.c[n].k = "decl" => Len(x.c[n].c) = 2

(* A set of such nodes with all their children.                            *)
Grammatical(S) == \A x \in S : x.c \in Seq(S) /\ InGrammar(x)

(* A literal of these values, which are all numbers or all of one shape.   *)
Literal(values) ==
    SizedNode("tensor", NoName,
              <<Len(values)>> \o (IF IsLiteral(values[1]) THEN values[1].dims ELSE << >>),
              values)
=============================================================================
