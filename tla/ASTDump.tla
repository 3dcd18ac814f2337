------------------------------ MODULE ASTDump ------------------------------
(***************************************************************************)
(* -emit=ast: the parser and then the ASTDumper of src/src/AST.cpp.        *)
(*                                                                         *)
(* The dump is a sequence of lines with their indentation, a label and the *)
(* pieces of text behind it; spaces, commas and locations are left out.    *)
(* Reading it back by its indentation must give the tree again.            *)
(***************************************************************************)
EXTENDS SourceText

Piece(str, dims) == [str |-> str, dims |-> dims]

Word(str) == Piece(str, << >>)

Line(indent, label, pieces) == [indent |-> indent, label |-> label, pieces |-> pieces]

(* TypeSwitch and dyn_cast assert that the pointer is not null.            *)
Asserts == Line(0, "assertion", << >>)

(* printLitHelper: the dimensions at each level of the literal.            *)
RECURSIVE LiteralText(_)
LiteralText(e) ==
    IF e.k = "num" THEN <<Word(e.name)>>
    ELSE <<Piece("<>", e.dims), Word("[")>>
         \o FlattenSeq([n \in DOMAIN e.c |-> LiteralText(e.c[n])]) \o <<Word("]")>>

(* The shape of a tensor, the name of a struct.                            *)
TypeText(type) == IF type.name = "tensor" THEN Piece("<>", type.dims) ELSE Word(type.name)

Initializer(decl) == SelectSeq(Tail(decl.c), LAMBDA e : e # Null)

(* Faulty variant: the Indent is a temporary and gone before the children. *)
DeeperTemporary(n) == n

(* INDENT: an Indent that lives until the node has been dumped.            *)
Deeper(n) == n + 1

(* What dump() of a node writes when curIndent is n.  A "paren" is no node *)
(* of the AST.                                                             *)
RECURSIVE Dumped(_, _)
Dumped(e, n) ==
    LET line(label, pieces) == <<Line(Deeper(n), label, pieces)>>
        nested(nodes, depth) ==
            FlattenSeq([i \in DOMAIN nodes |-> Dumped(nodes[i], depth)])
        named(label) == line(label, <<Word(e.name)>>)
    IN  CASE e.k = "null"     -> <<Asserts>>
          [] e.k = "paren"    -> nested(e.c, n)
          [] e.k = "num"      -> named("")
          [] e.k = "variable" -> named("var")
          [] e.k = "tensor"   -> line("Literal", LiteralText(e))
          [] e.k = "binary"   -> named("BinOp") \o nested(e.c, Deeper(n))
          [] e.k = "decl"     -> line("VarDecl", <<Word(e.name), TypeText(e.c[1])>>)
                                 \o nested(Initializer(e), Deeper(n))
          [] e.k = "call"     -> named("Call") \o nested(e.c, Deeper(n)) \o line("]", << >>)
          [] e.k = "print"    -> line("Print", << >>) \o nested(e.c, Deeper(n)) \o line("]", << >>)
          [] e.k = "struct_literal" ->
                 line("{", << >>) \o nested(e.c, Deeper(n)) \o line("}", << >>)
          [] e.k = "return"   ->
                 line("Return", << >>)
                 \o (IF e.c = << >> THEN <<Line(Deeper(Deeper(n)), "(void)", << >>)>> ELSE nested(e.c, Deeper(n)))
          [] e.k = "struct"   -> named("struct") \o nested(e.c, Deeper(n)) \o line("}", << >>)
          [] e.k = "def"      ->
                 line("Function", << >>)
                 \o <<Line(Deeper(Deeper(n)), "Proto", <<Word(e.name)>>),
                      Line(Deeper(Deeper(n)), "Params",
                           [i \in DOMAIN e.c[1].c |-> Word(e.c[1].c[i].name)]),
                      Line(Deeper(Deeper(n)), "Block", << >>)>>
                 \o nested(Tail(e.c), Deeper(Deeper(n))) \o <<Line(Deeper(Deeper(n)), "}", << >>)>>

Dump == FlattenSeq([n \in DOMAIN module |-> Dumped(module[n], 0)])

-----------------------------------------------------------------------------
(* Reading a dump.                                                         *)

(* How many pieces a literal of these dimensions has.                      *)
RECURSIVE Width(_)
Width(dims) == IF dims = << >> THEN 1 ELSE 3 + Head(dims) * Width(Tail(dims))

RECURSIVE ReadLiteral(_)
ReadLiteral(ps) ==
    LET dims == ps[1].dims
        w == Width(Tail(dims))
    IN  IF dims = << >> THEN Node("num", ps[1].str, << >>)
        ELSE SizedNode("tensor", "", dims,
                 [n \in 1 .. Head(dims) |->
                     ReadLiteral(SubSeq(ps, 3 + (n - 1) * w, 2 + n * w))])

ReadType(piece) ==
    IF piece.str = "<>" THEN VarType("tensor", piece.dims) ELSE VarType(piece.str, << >>)

Params(names) == Node("params", "", [n \in DOMAIN names |-> Node("param", names[n].str, << >>)])

ReadNode(line, inner) ==
    LET p == line.pieces
    IN  CASE line.label = ""         -> Node("num", p[1].str, << >>)
          [] line.label = "var"      -> Node("variable", p[1].str, << >>)
          [] line.label = "Literal"  -> ReadLiteral(p)
          [] line.label = "BinOp"    -> Node("binary", p[1].str, inner)
          [] line.label = "VarDecl"  -> VarDecl(p[1].str, ReadType(p[2]), inner)
          [] line.label = "Call"     -> Node("call", p[1].str, inner)
          [] line.label = "Print"    -> Node("print", "", inner)
          [] line.label = "{"        -> Node("struct_literal", "", inner)
          [] line.label = "Return"   -> Node("return", "", inner)
          [] line.label = "struct"   -> Node("struct", p[1].str, inner)
          [] line.label = "Proto"    -> Node("proto", p[1].str, << >>)
          [] line.label = "Params"   -> Params(p)
          [] line.label = "Block"    -> Node("block", "", inner)
          [] line.label = "Function" /\ Len(inner) = 3 ->
                 Node("def", inner[1].name, <<inner[2]>> \o inner[3].c)
          [] OTHER -> Null

(* A line owns the lines after it that are indented further.               *)
RECURSIVE ReadLines(_)
ReadLines(lines) ==
    IF lines = << >> THEN << >>
    ELSE LET rest == Tail(lines)
             next == SelectInSeq(rest, LAMBDA l : l.indent <= lines[1].indent)
             n == IF next = 0 THEN Len(rest) ELSE next - 1
         IN  <<ReadNode(lines[1], ReadLines(SubSeq(rest, 1, n)))>>
             \o ReadLines(SubSeq(rest, n + 1, Len(rest)))

Read(lines) ==
    ReadLines(SelectSeq(lines, LAMBDA l : l.label \notin {"]", "}", "(void)"}))

-----------------------------------------------------------------------------

ErasedType(type) == IF type.name = "tensor" THEN type ELSE VarType(type.name, << >>)

(* A tree without what the dump leaves out: parentheses, null initializers,*)
(* the types of parameters and shapes given to struct types.               *)
RECURSIVE Erased(_)
Erased(e) ==
    LET erased(nodes) ==
            FlattenSeq([n \in DOMAIN nodes |->
                IF nodes[n].k = "paren" THEN [i \in DOMAIN nodes[n].c |-> Erased(nodes[n].c[i])]
                ELSE <<Erased(nodes[n])>>])
    IN  CASE e.k = "decl"   -> VarDecl(e.name, ErasedType(e.c[1]), erased(Initializer(e)))
          [] e.k = "params" -> Params([n \in DOMAIN e.c |-> Word(e.c[n].name)])
          [] e.k = "paren"  -> Erased(e.c[1])
          [] e.k \in {"print", "return", "struct_literal"} -> Node(e.k, "", erased(e.c))
          [] OTHER          -> [e EXCEPT !.c = erased(@)]

(* The dump of a module, when no null pointer stops it, tells the whole    *)
(* tree: which operand belongs to which operator, where a block ends and   *)
(* how literals are nested.                                                *)
DumpFaithful ==
    status = "module" /\ Asserts \notin ToSet(Dump) =>
        Read(Dump) = [n \in DOMAIN module |-> Erased(module[n])]
=============================================================================
