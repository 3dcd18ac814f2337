----------------------------- MODULE SourceText -----------------------------
(***************************************************************************)
(* What the parser of src/inc/Parser.h has read, told from the tree it     *)
(* returns: the tokens of the tree in order are those of the source.       *)
(***************************************************************************)
EXTENDS Parser

(* The source text of a node without separators.                           *)
RECURSIVE Yield(_)
Yield(node) ==
    LET Text(nodes) == FlattenSeq([n \in DOMAIN nodes |-> Yield(nodes[n])])
        all == Text(node.c)
    IN  CASE node.k = "null" -> << >>
          [] node.k \in {"variable", "num"} -> <<node.name>>
          [] node.k \in {"paren", "params"} -> <<"(">> \o all \o <<")">>
          [] node.k = "tensor" -> <<"[">> \o all \o <<"]">>
          [] node.k = "struct_literal" -> <<"{">> \o all \o <<"}">>
          [] node.k = "binary" -> Yield(node.c[1]) \o <<node.name>> \o Yield(node.c[2])
          [] node.k \in {"call", "print"} -> <<node.name, "(">> \o all \o <<")">>
          [] node.k = "decl"   -> (IF node.c[1].name = "tensor" THEN <<"var">>
                                   ELSE <<node.c[1].name>>) \o <<node.name>> \o
                                  [n \in DOMAIN node.c[1].dims |-> "num"] \o
                                  Text(Tail(node.c))
          [] node.k = "return" -> <<"return">> \o all
          [] node.k = "struct" -> <<"struct", node.name, "{">> \o all \o <<"}">>
          [] node.k = "def"    -> <<"def", node.name>> \o Yield(node.c[1]) \o
                                  <<"{">> \o Text(Tail(node.c)) \o <<"}">>

(* A module returned without a hole has every token of the source in its   *)
(* place: none lost, none twice, none moved to another operand.            *)
SourcePreserved ==
    LET significant(t) == t \notin {",", ";", "=", "<", ">"}
    IN  status = "module" /\ Null \notin Parsed =>
            FlattenSeq([n \in DOMAIN module |-> Yield(module[n])])
                = SelectSeq(text, significant)

(* The structs among the first n records of the module.                    *)
StructsWithin(n) ==
    {module[m].name : m \in {i \in 1 .. n : module[i].k = "struct"}}

(* Whether a statement that begins with a name is a declaration or an      *)
(* expression is told by the records before its function: it is a          *)
(* declaration exactly when the name is that of a struct whose definition  *)
(* stands there, not one that failed, comes later or was only begun        *)
(* (src/inc/Parser.h:453).                                                 *)
DeclaresKnownStructs ==
    status = "module" =>
        \A n \in DOMAIN module : module[n].k = "def" =>
            \A i \in 2 .. Len(module[n].c) :
                LET s == module[n].c[i]
                    first == Head(Yield(s))
                IN  first # "var" =>
                        (s.k = "decl" <=> first \in StructsWithin(n - 1))
=============================================================================
