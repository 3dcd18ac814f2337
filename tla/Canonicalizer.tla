--------------------------- MODULE Canonicalizer ---------------------------
(***************************************************************************)
(* The rewrites of one function: the patterns and folds the dialect gives  *)
(* the canonicalizer (src/toy/ToyCombine.cpp, ToyCombine.td), the hooks it *)
(* gives the inliner (src/toy/Dialect.cpp), and what the library adds to   *)
(* them.  Each pattern is the set of functions one application leads to;   *)
(* the greedy driver applies them in any order until none matches.         *)
(***************************************************************************)
EXTENDS MLIRGen, Tensors

(* The members of S, a part of 1 .. n, in order.                           *)
Ascending(S, n) ==
    LET upto[k \in 0 .. n] ==
            IF k = 0 THEN << >>
            ELSE IF k \in S THEN Append(upto[k - 1], k) ELSE upto[k - 1]
    IN  upto[n]

OfKind(f, kinds) == {v \in DOMAIN f.ops : f.ops[v].kind \in kinds}

Input(f, v) == f.ops[v].args[1]

(* The operations of a kind whose operand is defined by one of a kind.     *)
Pairs(f, kind, inner) ==
    {v \in OfKind(f, {kind}) : f.ops[Input(f, v)].kind = inner}

Users(f, v) == {u \in DOMAIN f.ops : v \in ToSet(f.ops[u].args)}

(* replaceOp: the users of v use w, which is defined before v, and v is    *)
(* erased.  A value being a position, those after v move up.               *)
Replaced(f, v, w) ==
    LET Now(a) == IF a = v THEN w ELSE IF a > v THEN a - 1 ELSE a
        ops == RemoveAt(f.ops, v)
    IN  [f EXCEPT
            !.ops = [n \in DOMAIN ops |->
                        [ops[n] EXCEPT !.args = [i \in DOMAIN @ |-> Now(@[i])]]],
            !.types = RemoveAt(@, v)]

-----------------------------------------------------------------------------
(* The patterns and folds of the dialect.                                  *)

(* Faulty variant: the inner transpose stays.                              *)
SimplifyRedundantTransposeOnce(f) ==
    {Replaced(f, v, Input(f, v)) : v \in Pairs(f, "transpose", "transpose")}

(* transpose(transpose(x)) -> x                                            *)
SimplifyRedundantTranspose(f) ==
    {Replaced(f, v, Input(f, Input(f, v))) : v \in Pairs(f, "transpose", "transpose")}

(* Faulty variant: the new reshape is one of the inner reshape.            *)
ReshapeReshapeShallow(f) == {f : v \in Pairs(f, "reshape", "reshape")}

(* reshape(reshape(x)) -> reshape(x), with the type of the outer one.      *)
ReshapeReshape(f) ==
    {[f EXCEPT !.ops[v].args = f.ops[Input(f, v)].args] : v \in Pairs(f, "reshape", "reshape")}

(* reshape(x) -> x when the types are identical.                           *)
RedundantReshape(f) ==
    {Replaced(f, v, Input(f, v)) :
        v \in {u \in OfKind(f, {"reshape"}) : f.types[u] = f.types[Input(f, u)]}}

ConstantInput(f, v) == f.ops[Input(f, v)].attr

(* Reshapes of a constant with another number of elements, for which the   *)
(* assertion of DenseElementsAttr::reshape fails.                          *)
IllSized(f) ==
    {v \in Pairs(f, "reshape", "constant") :
        Size(f.types[v].shape) # Size(ConstantInput(f, v).dims)}

(* reshape(constant) -> the constant with the dimensions of the reshape.   *)
FoldConstantReshape(f) ==
    {[f EXCEPT !.ops[v] =
         NewOp("constant", << >>, [ConstantInput(f, v) EXCEPT !.dims = f.types[v].shape])] :
        v \in Pairs(f, "reshape", "constant") \ IllSized(f)}

(* materializeConstant of the attribute a fold returned.                   *)
Materialized(attr, type) ==
    NewOp(IF IsStruct(type) THEN "struct_constant" ELSE "constant", << >>, attr)

AccessIndex(f, v) == f.ops[v].attr.dims[1]

(* Faulty variant: the index counts from the other end of the attribute.   *)
ElementReversed(f, v) ==
    LET elements == ConstantInput(f, v).c IN elements[Len(elements) + 1 - AccessIndex(f, v)]

(* values[index]; the bound is that of the verifier.                       *)
Element(f, v) == ConstantInput(f, v).c[AccessIndex(f, v)]

(* StructAccessOp::fold with the fold of the struct constant.              *)
FoldAccess(f) ==
    {[f EXCEPT !.ops[v] = Materialized(Element(f, v), f.types[v])] :
        v \in Pairs(f, "struct_access", "struct_constant")}

-----------------------------------------------------------------------------
(* The library, for operations with the traits Ops.td gives them.          *)

Pure(op) == op.kind \notin {"arg", "generic_call", "print", "return"}

EraseDead(f) ==
    {Replaced(f, v, v) : v \in {u \in DOMAIN f.ops : Pure(f.ops[u]) /\ Users(f, u) = {}}}

(* Faulty variant: a cast stays.                                           *)
FoldCastNever(f) == {}

(* A cast to the type of its operand.                                      *)
FoldCast(f) ==
    {Replaced(f, v, Input(f, v)) :
        v \in {u \in OfKind(f, {"cast"}) : f.types[u] = f.types[Input(f, u)]}}

Twins(f, v) ==
    {w \in v + 1 .. Len(f.ops) : f.ops[w] = f.ops[v] /\ f.types[w] = f.types[v]}

Merge(f, values) == UNION { {Replaced(f, w, v) : w \in Twins(f, v)} : v \in values }

MergeConstants(f) == Merge(f, OfKind(f, {"constant", "struct_constant"}))

Canonicalized(f) ==
    SimplifyRedundantTranspose(f) \cup ReshapeReshape(f) \cup RedundantReshape(f)
    \cup FoldConstantReshape(f) \cup FoldAccess(f)
    \cup EraseDead(f) \cup FoldCast(f) \cup MergeConstants(f)

(* Common subexpression elimination.                                       *)
Eliminated(f) == EraseDead(f) \cup Merge(f, {v \in DOMAIN f.ops : Pure(f.ops[v])})

-----------------------------------------------------------------------------
(* Inlining.                                                               *)

(* materializeCallConversion: the parameters of g whose operand at call v  *)
(* of f has another type, and gets a cast.                                 *)
Converted(f, v, g) ==
    LET args == f.ops[v].args
    IN  Ascending({i \in DOMAIN args : f.types[args[i]] # g.types[i]}, Len(args))

(* Faulty variant: handleTerminator gives the users of the call the first  *)
(* value of the callee instead of the one returned.                        *)
ReturnedFirst(g) == 1

(* handleTerminator: the users of the call use the value returned.         *)
ReturnedValue(g) == g.ops[Len(g.ops)].args[1]

(* f with the body of g, without its arguments and its return, in the      *)
(* place of call v and behind the casts.                                   *)
Inlined(f, v, g) ==
    LET args == f.ops[v].args
        n == Len(args)
        casts == Converted(f, v, g)
        body == SubSeq(g.ops, n + 1, Len(g.ops) - 1)
        grown == Len(casts) + Len(body) - 1
        Inner(b) == IF b > n THEN v - 1 + Len(casts) + b - n
                    ELSE IF b \in ToSet(casts)
                         THEN v - 1 + SelectInSeq(casts, LAMBDA i : i = b) ELSE args[b]
        Outer(a) == IF a < v THEN a ELSE IF a = v THEN Inner(ReturnedValue(g)) ELSE a + grown
        Mapped(ops, Of(_)) ==
            [m \in DOMAIN ops |-> [ops[m] EXCEPT !.args = [i \in DOMAIN @ |-> Of(@[i])]]]
    IN  [f EXCEPT
            !.ops = SubSeq(@, 1, v - 1)
                    \o [c \in DOMAIN casts |-> NewOp("cast", <<args[casts[c]]>>, Null)]
                    \o Mapped(body, Inner)
                    \o Mapped(SubSeq(@, v + 1, Len(@)), Outer),
            !.types = SubSeq(@, 1, v - 1)
                    \o [c \in DOMAIN casts |-> g.types[casts[c]]]
                    \o SubSeq(g.types, n + 1, Len(g.types) - 1)
                    \o SubSeq(@, v + 1, Len(@))]
=============================================================================
