------------------------------ MODULE MLIRGen ------------------------------
(***************************************************************************)
(* The generator of Toy dialect operations from the AST, MLIRGenImpl of    *)
(* src/src/MLIRGen.cpp.  The recursion over the tree is unfolded: todo     *)
(* holds what the active functions still have to do, innermost first, and  *)
(* vals the values their callees returned.  An action visits one node, or  *)
(* builds its operation when the operands are there.                       *)
(*                                                                         *)
(* The builder's insertion point is the end of the last function.  The     *)
(* build has assertions on: a failed one, and a null or end iterator that  *)
(* is followed, stop the compiler ("crash").                               *)
(***************************************************************************)
EXTENDS AST, ToyIR

CONSTANT Modules   \* the modules to generate, as sequences of records

VARIABLES
    prog,          \* the ModuleAST
    rec,           \* how many of its records are done
    structMap,     \* the type and the members of each struct, by name
    funcs,         \* the functions of theModule
    symbolTable,   \* the open scopes, outermost first
    todo,          \* what is left to do for the current record
    vals,          \* the values of the finished subexpressions
    attrs,         \* the attributes of the finished elements of a struct literal
    diag,          \* whether an error was reported
    status         \* "run", "module" or "null" (the result), "crash"

vars == <<prog, rec, structMap, funcs, symbolTable, todo, vals, attrs, diag, status>>

-----------------------------------------------------------------------------
(* Types.  A struct type is the list of its element types.                 *)

StructOf(types) == [tag |-> "struct", shape |-> << >>, elements |-> types]

IsStruct(t) == t.tag = "struct"

Known(type) == type.name = "tensor" \/ type.name \in DOMAIN structMap

(* getType of a shape.                                                     *)
TensorType(shape) == IF shape = << >> THEN Unranked ELSE Ranked(shape)

(* getType of a VarType that is Known.                                     *)
TypeOf(type) ==
    IF type.name = "tensor" THEN TensorType(type.dims) ELSE structMap[type.name].type

AllKnown(decls) == \A n \in DOMAIN decls : Known(decls[n].c[1])

DeclaredTypes(decls) == [n \in DOMAIN decls |-> TypeOf(decls[n].c[1])]

-----------------------------------------------------------------------------
(* Functions under construction.  A value is the position of the operation *)
(* that defines it, as in ToyIR; an operation carries a node as attribute. *)

NewOp(kind, args, attr) == [kind |-> kind, args |-> args, attr |-> attr]

Current == funcs[Len(funcs)]

NextValue == Len(Current.ops) + 1

TypeIn(v) == Current.types[v]

Built(op, type) ==
    [funcs EXCEPT ![Len(funcs)].ops = Append(@, op),
                  ![Len(funcs)].types = Append(@, type)]

-----------------------------------------------------------------------------
(* The symbol table.  declare() lets no name into two scopes.              *)

(* Faulty variant: only the innermost scope is asked.                      *)
IsDeclaredInner(name) == name \in DOMAIN symbolTable[Len(symbolTable)]

IsDeclared(name) == \E s \in DOMAIN symbolTable : name \in DOMAIN symbolTable[s]

Lookup(name) ==
    symbolTable[CHOOSE s \in DOMAIN symbolTable : name \in DOMAIN symbolTable[s]][name]

(* declare(), which reports nothing when it fails.                         *)
Declared(decl, value) ==
    [symbolTable EXCEPT ![Len(symbolTable)] =
        [name \in {decl.name} \cup DOMAIN @ |->
            IF name = decl.name THEN [struct |-> decl.c[1].name, value |-> value]
            ELSE @[name]]]

Distinct(decls) ==
    \A m, n \in DOMAIN decls : decls[m].name = decls[n].name => m = n

Parameters(decls) ==
    [name \in {decls[n].name : n \in DOMAIN decls} |->
        LET n == CHOOSE m \in DOMAIN decls : decls[m].name = name
        IN  [struct |-> decls[n].c[1].name, value |-> n]]

-----------------------------------------------------------------------------
(* Control.                                                                *)

Do(what, node) == [do |-> what, node |-> node]

Doing(what) == status = "run" /\ todo # << >> /\ todo[1].do = what

E == todo[1].node

Visiting(k) == Doing("expr") /\ E.k = k

Block(statements) == Do("block", Node("block", "", statements))

(* While an expression is in work, the statement it belongs to, the rest   *)
(* of the block and the end of the function are last in todo.              *)
Statement == todo[Len(todo) - 2]

(* A value; struct is the name getStructType finds for the expression, ""  *)
(* for an expression it does not know.                                     *)
Result(value, struct) == [value |-> value, struct |-> struct]

Top == vals[Len(vals)]

(* Faulty variant: the operands in the order they are popped.              *)
OperandsPopped(n) == [i \in 1 .. n |-> vals[Len(vals) + 1 - i].value]

Operands(n) == [i \in 1 .. n |-> vals[Len(vals) - n + i].value]

Without(n, seq) == SubSeq(seq, 1, Len(seq) - n)

Crash ==
    /\ status' = "crash"
    /\ UNCHANGED <<prog, rec, structMap, funcs, symbolTable, todo, vals, attrs, diag>>

(* Build an operation with the last n values as operands and return it.    *)
Emit(kind, n, attr, type, struct) ==
    /\ funcs' = Built(NewOp(kind, Operands(n), attr), type)
    /\ vals' = Append(Without(n, vals), Result(NextValue, struct))
    /\ todo' = Tail(todo)
    /\ UNCHANGED <<prog, rec, structMap, symbolTable, attrs, diag, status>>

(* Go on with these before the rest; nothing else changes.                 *)
Push(items) ==
    /\ todo' = items \o Tail(todo)
    /\ UNCHANGED <<prog, rec, structMap, funcs, symbolTable, vals, attrs, diag, status>>

(* mlirGen(FunctionAST) erases the function and returns null.              *)
FailFunction(reported) ==
    /\ funcs' = Without(1, funcs)
    /\ diag' = (diag \/ reported)
    /\ status' = "null"
    /\ UNCHANGED <<prog, rec, structMap, symbolTable, todo, vals, attrs>>

(* Faulty variant: the caller is expected to report.                       *)
FailExprSilent == FailFunction(FALSE)

(* A reported error makes the expression null, so its statement, the block *)
(* and the function fail.  Only a print that fails ends the block with     *)
(* success.                                                                *)
FailExpr ==
    \/ Statement.do # "print" /\ FailFunction(TRUE)
    \/ /\ Statement.do = "print"
       /\ diag' = TRUE
       /\ todo' = <<Block(<< >>), todo[Len(todo)]>>
       /\ vals' = << >>
       /\ UNCHANGED <<prog, rec, structMap, funcs, symbolTable, attrs, status>>

-----------------------------------------------------------------------------
(* Expressions.                                                            *)

(* **unique_ptr of a null child.                                           *)
VisitNull == Doing("expr") /\ E = Null /\ Crash

VisitVariable ==
    /\ Visiting("variable")
    /\ \/ ~ IsDeclared(E.name) /\ FailExpr
       \/ /\ IsDeclared(E.name)
          /\ vals' = Append(vals, Result(Lookup(E.name).value, Lookup(E.name).struct))
          /\ todo' = Tail(todo)
          /\ UNCHANGED <<prog, rec, structMap, funcs, symbolTable, attrs, diag, status>>

VisitConstant ==
    \/ Visiting("num") /\ Emit("constant", 0, E, Ranked(<< >>), "")
    \/ Visiting("tensor") /\ Emit("constant", 0, E, TensorType(E.dims), "")

(* The right side of an access is not generated.                           *)
VisitBinary ==
    /\ Visiting("binary")
    /\ Push(<<Do("expr", E.c[1])>> \o
            (IF E.name = "." THEN << >> ELSE <<Do("expr", E.c[2])>>) \o
            <<Do("build", E)>>)

VisitCall ==
    /\ Visiting("call")
    /\ Push([n \in DOMAIN E.c |-> Do("expr", E.c[n])] \o <<Do("build", E)>>)

(* The default of the dispatch.                                            *)
VisitOther == Visiting("print") /\ FailExpr

BuildBinary ==
    /\ Doing("build") /\ E.k = "binary" /\ E.name # "."
    /\ \/ E.name = "+" /\ Emit("add", 2, Null, Unranked, "")
       \/ E.name = "*" /\ Emit("mul", 2, Null, Unranked, "")
       \/ E.name \notin {"+", "*"} /\ FailExpr

Members == structMap[Top.struct].members

MemberIndices == {n \in DOMAIN Members : Members[n].name = E.c[2].name}

(* getMemberIndex, counted from 1.  The index of a member that does not    *)
(* exist is one past the end.                                              *)
MemberIndex ==
    IF MemberIndices = {} THEN Len(Members) + 1
    ELSE CHOOSE n \in MemberIndices : \A m \in MemberIndices : n <= m

(* The struct that getStructType finds for the access itself.              *)
MemberStruct == IF MemberIndices = {} THEN "" ELSE Members[MemberIndex].c[1].name

InvalidAccess == Top.struct \notin DOMAIN structMap \/ E.c[2].k # "variable"

(* The assertions of mlirGen and of StructAccessOp::build on the operand,  *)
(* whose type need not be the declared one.                                *)
AccessAsserted ==
    /\ IsStruct(TypeIn(Top.value))
    /\ MemberIndex \in DOMAIN TypeIn(Top.value).elements

BuildAccess ==
    /\ Doing("build") /\ E.k = "binary" /\ E.name = "."
    /\ \/ InvalidAccess /\ FailExpr
       \/ ~ InvalidAccess /\ ~ AccessAsserted /\ Crash
       \/ /\ ~ InvalidAccess /\ AccessAsserted
          /\ Emit("struct_access", 1, SizedNode("index", "", <<MemberIndex>>, << >>),
                  TypeIn(Top.value).elements[MemberIndex], MemberStruct)

BuildCall ==
    /\ Doing("build") /\ E.k = "call"
    /\ \/ /\ E.name = "transpose"
          /\ \/ Len(E.c) # 1 /\ FailExpr
             \/ Len(E.c) = 1 /\ Emit("transpose", 1, Null, Unranked, "")
       \/ /\ E.name # "transpose"
          /\ Emit("generic_call", Len(E.c), Node("callee", E.name, << >>), Unranked, "")

-----------------------------------------------------------------------------
(* Struct literals.                                                        *)

VisitStructLiteral ==
    Visiting("struct_literal") /\ Push(<<Do("attr", E), Do("struct", E)>>)

PushAttr(attr, type) ==
    /\ attrs' = Append(attrs, [attr |-> attr, type |-> type])
    /\ todo' = Tail(todo)
    /\ UNCHANGED <<prog, rec, structMap, funcs, symbolTable, vals, diag, status>>

(* An element of another kind is left out, without a word.                 *)
VisitElement ==
    /\ Doing("attr")
    /\ \/ E = Null /\ Crash
       \/ E.k \in {"tensor", "num"} /\ PushAttr(E, Unranked)
       \/ /\ E.k = "struct_literal"
          /\ Push([n \in DOMAIN E.c |-> Do("attr", E.c[n])] \o <<Do("array", E)>>)
       \/ E.k \notin {"null", "tensor", "num", "struct_literal"} /\ Push(<< >>)

Kept(nodes) == {n \in DOMAIN nodes : nodes[n].k \in {"tensor", "num", "struct_literal"}}

(* StructType::get asserts that there is an element.                       *)
BuildArray ==
    /\ Doing("array")
    /\ LET n == Cardinality(Kept(E.c))
           elements == SubSeq(attrs, Len(attrs) - n + 1, Len(attrs))
       IN  \/ n = 0 /\ Crash
           \/ /\ n > 0
              /\ attrs' = Append(Without(n, attrs),
                     [attr |-> Node("array", "", [i \in 1 .. n |-> elements[i].attr]),
                      type |-> StructOf([i \in 1 .. n |-> elements[i].type])])
              /\ todo' = Tail(todo)
              /\ UNCHANGED <<prog, rec, structMap, funcs, symbolTable, vals, diag, status>>

BuildStructConstant ==
    /\ Doing("struct")
    /\ LET literal == attrs[Len(attrs)]
       IN  funcs' = Built(NewOp("struct_constant", << >>, literal.attr), literal.type)
    /\ vals' = Append(vals, Result(NextValue, ""))
    /\ attrs' = << >>
    /\ todo' = Tail(todo)
    /\ UNCHANGED <<prog, rec, structMap, symbolTable, diag, status>>

-----------------------------------------------------------------------------
(* Statements.                                                             *)

NextStatement(k) ==
    /\ Doing("block") /\ E.c # << >>
    /\ IF k = "expression" THEN E.c[1].k \notin {"decl", "return", "print"}
       ELSE E.c[1].k = k

First == E.c[1]

Rest == Block(Tail(E.c))

GenVarDecl ==
    /\ NextStatement("decl")
    /\ \/ First.c[2] = Null /\ FailFunction(TRUE)
       \/ First.c[2] # Null /\ Push(<<Do("expr", First.c[2]), Do("declare", First), Rest>>)

Redeclare == Doing("declare") /\ IsDeclared(E.name) /\ FailFunction(FALSE)

(* A shape makes it a reshape of the initializer.                          *)
Declare ==
    /\ Doing("declare") /\ ~ IsDeclared(E.name)
    /\ LET shape == E.c[1].dims
           reshape == NewOp("reshape", Operands(1), Null)
       IN  \/ /\ shape = << >>
              /\ symbolTable' = Declared(E, Top.value)
              /\ funcs' = funcs
           \/ /\ shape # << >>
              /\ symbolTable' = Declared(E, NextValue)
              /\ funcs' = Built(reshape, TypeOf(E.c[1]))
    /\ vals' = << >>
    /\ todo' = Tail(todo)
    /\ UNCHANGED <<prog, rec, structMap, attrs, diag, status>>

(* Faulty variant: the statements after a return are generated.            *)
GenReturnOn ==
    /\ NextStatement("return")
    /\ Push([n \in DOMAIN First.c |-> Do("expr", First.c[n])] \o <<Do("return", First), Rest>>)

(* The statements after a return are not generated.                        *)
GenReturn ==
    /\ NextStatement("return")
    /\ Push([n \in DOMAIN First.c |-> Do("expr", First.c[n])] \o
            <<Do("return", First), Block(<< >>)>>)

GenPrint ==
    NextStatement("print") /\ Push(<<Do("expr", First.c[1]), Do("print", First), Rest>>)

GenExpression ==
    NextStatement("expression") /\ Push(<<Do("expr", First), Do("drop", First), Rest>>)

(* The operand of a statement is there.                                    *)
FinishStatement ==
    /\ \/ /\ Doing("return")
          /\ funcs' = Built(NewOp("return", Operands(Len(E.c)), Null), NoResult)
       \/ /\ Doing("print")
          /\ funcs' = Built(NewOp("print", Operands(1), Null), NoResult)
       \/ Doing("drop") /\ funcs' = funcs
    /\ vals' = << >>
    /\ todo' = Tail(todo)
    /\ UNCHANGED <<prog, rec, structMap, symbolTable, attrs, diag, status>>

(* Faulty variant: the scope of the block stays open.                      *)
EndBlockOpen ==
    /\ Doing("block") /\ E.c = << >>
    /\ todo' = Tail(todo)
    /\ UNCHANGED <<prog, rec, structMap, funcs, symbolTable, vals, attrs, diag, status>>

(* The scope of the block is closed.                                       *)
EndBlock ==
    /\ Doing("block") /\ E.c = << >>
    /\ symbolTable' = Without(1, symbolTable)
    /\ todo' = Tail(todo)
    /\ UNCHANGED <<prog, rec, structMap, funcs, vals, attrs, diag, status>>

-----------------------------------------------------------------------------
(* Records.                                                                *)

Record == prog[rec + 1]

NextRecord(k) ==
    status = "run" /\ todo = << >> /\ rec < Len(prog) /\ Record.k = k

(* dyn_cast of a null record.                                              *)
GenNull == NextRecord("null") /\ Crash

(* getType reports an unknown struct and dereferences the end iterator.    *)
UnknownType ==
    /\ diag' = TRUE /\ status' = "crash"
    /\ UNCHANGED <<prog, rec, structMap, funcs, symbolTable, todo, vals, attrs>>

(* A second struct of a name is reported and left out.                     *)
GenStruct ==
    /\ NextRecord("struct")
    /\ \/ ~ AllKnown(Record.c) /\ UnknownType
       \/ /\ AllKnown(Record.c)
          /\ diag' = (diag \/ Record.name \in DOMAIN structMap)
          /\ structMap' =
                 [name \in DOMAIN structMap \cup {Record.name} |->
                     IF name \in DOMAIN structMap THEN structMap[name]
                     ELSE [type |-> StructOf(DeclaredTypes(Record.c)), members |-> Record.c]]
          /\ rec' = rec + 1
          /\ UNCHANGED <<prog, funcs, symbolTable, todo, vals, attrs, status>>

(* A new function with its parameters as the first values.                 *)
NewFunction(name, params) ==
    [name |-> name, private |-> name # "main",
     ops |-> [n \in DOMAIN params |->
                 NewOp("arg", << >>, Node("param", params[n].name, << >>))],
     types |-> DeclaredTypes(params),
     result |-> << >>]

(* A parameter that is declared twice fails without a message and leaves   *)
(* the function in the module that is dropped.  One scope is opened for    *)
(* the parameters and one for the block.                                   *)
BeginFunction ==
    /\ NextRecord("def")
    /\ LET params == Record.c[1].c
       IN  \/ ~ AllKnown(params) /\ UnknownType
           \/ /\ AllKnown(params)
              /\ funcs' = Append(funcs, NewFunction(Record.name, params))
              /\ IF Distinct(params)
                 THEN /\ symbolTable' = symbolTable \o <<Parameters(params), << >>>>
                      /\ todo' = <<Block(Tail(Record.c)), Do("finish", Record)>>
                      /\ status' = status
                 ELSE status' = "null" /\ UNCHANGED <<symbolTable, todo>>
              /\ UNCHANGED <<prog, rec, structMap, vals, attrs, diag>>

(* Faulty variant: the scope of the parameters stays open.                 *)
ClosedNone == symbolTable

ClosedParameters == Without(1, symbolTable)

(* A return with a value gives the function a result of unranked type; a   *)
(* function without a return gets one.                                     *)
FinishFunction ==
    /\ Doing("finish")
    /\ LET last == Current.ops[Len(Current.ops)]
           returns == Current.ops # << >> /\ last.kind = "return"
       IN  funcs' = IF ~ returns THEN Built(NewOp("return", << >>, Null), NoResult)
                    ELSE IF last.args = << >> THEN funcs
                    ELSE [funcs EXCEPT ![Len(funcs)].result = <<Unranked>>]
    /\ symbolTable' = ClosedParameters
    /\ todo' = << >>
    /\ rec' = rec + 1
    /\ UNCHANGED <<prog, structMap, vals, attrs, diag, status>>

-----------------------------------------------------------------------------
(* The module.                                                             *)

(* A function as the passes see it, struct types opaque.                   *)
View(f) ==
    [ops |-> [v \in DOMAIN f.ops |->
                 [kind |-> f.ops[v].kind, args |-> f.ops[v].args,
                  value |-> IF f.ops[v].kind = "constant" THEN f.ops[v].attr.dims
                            ELSE << >>]],
     types |-> [v \in DOMAIN f.types |->
                 IF IsStruct(f.types[v]) THEN Struct ELSE f.types[v]],
     result |-> f.result]

Verifies(p) ==
    \A v \in Defs(p) : OpVerifies(p.ops[v], p.types[v], p.types, p.result)

(* Alone, it is a verification without the verifiers of the operations.   *)
SymbolsUnique ==
    \A m, n \in DOMAIN funcs : funcs[m].name = funcs[n].name => m = n

(* mlir::verify of the module: symbols are unique, operations verify.      *)
ModuleVerifies ==
    /\ SymbolsUnique
    /\ \A n \in DOMAIN funcs : Verifies(View(funcs[n]))

VerifyModule ==
    /\ status = "run" /\ todo = << >> /\ rec = Len(prog)
    /\ status' = IF ModuleVerifies THEN "module" ELSE "null"
    /\ diag' = (diag \/ ~ ModuleVerifies)
    /\ UNCHANGED <<prog, rec, structMap, funcs, symbolTable, todo, vals, attrs>>

Init ==
    /\ prog \in Modules
    /\ rec = 0 /\ structMap = << >> /\ funcs = << >> /\ symbolTable = << >>
    /\ todo = << >> /\ vals = << >> /\ attrs = << >>
    /\ diag = FALSE /\ status = "run"

Expression ==
    \/ VisitNull \/ VisitVariable \/ VisitConstant \/ VisitBinary \/ VisitCall
    \/ VisitOther \/ VisitStructLiteral \/ VisitElement
    \/ BuildBinary \/ BuildAccess \/ BuildCall \/ BuildArray \/ BuildStructConstant

Next ==
    \/ GenNull \/ GenStruct \/ BeginFunction \/ FinishFunction \/ VerifyModule
    \/ GenVarDecl \/ Redeclare \/ Declare \/ GenReturn \/ GenPrint \/ GenExpression
    \/ FinishStatement \/ EndBlock \/ Expression

(* The generator runs on one thread until mlirGen returns.                 *)
Spec == Init /\ [][Next]_vars /\ WF_vars(Next)

-----------------------------------------------------------------------------
(* Properties.                                                             *)

TypeOK ==
    /\ rec \in 0 .. Len(prog)
    /\ diag \in BOOLEAN
    /\ status \in {"run", "module", "null", "crash"}
    /\ \A n \in DOMAIN funcs : DOMAIN funcs[n].ops = DOMAIN funcs[n].types
    /\ status = "run" /\ todo = << >> => symbolTable = << >> /\ vals = << >>

(* In every function, and at every moment, an operand is a value of the    *)
(* same function that was built before its user: no name resolves to a     *)
(* value of another function, of a closed scope or of an operation that    *)
(* has no result.                                                          *)
OperandsDefined ==
    \A n \in DOMAIN funcs : LET f == funcs[n] IN
        \A v \in DOMAIN f.ops : \A i \in DOMAIN f.ops[v].args :
            LET a == f.ops[v].args[i]
            IN  a \in 1 .. v - 1 /\ f.types[a] # NoResult

(* A function ends in its only return.                                     *)
EndsInReturn(p) == {v \in Defs(p) : p.ops[v].kind = "return"} = {Len(p.ops)}

(* A returned module is what the passes expect: each function is well      *)
(* formed in the sense of ToyIR, which ShapeInference starts from, and     *)
(* ends in its only return.                                                *)
HandedOver ==
    status = "module" =>
        \A n \in DOMAIN funcs : LET p == View(funcs[n]) IN WellFormed(p) /\ EndsInReturn(p)

DeclaredTwice(def) ==
    LET nodes == def.c[1].c \o Tail(def.c)
        decls == {n \in DOMAIN nodes : nodes[n].k = "decl"}
    IN  \E m, n \in decls : m # n /\ nodes[m].name = nodes[n].name

(* A rejected module comes with a message, except for a variable that is   *)
(* declared twice, which is rejected without one.                          *)
NullReported ==
    status = "null" /\ ~ diag =>
        Record.k = "def" /\ DeclaredTwice(Record)

(* src/src/MLIRGen.cpp:591: "Codegen a list of expression, return failure  *)
(* if one of them hit an error", in modules without a struct declared      *)
(* twice, which is an error outside a block.                               *)
BlockFails == status = "module" => ~ diag

(* src/src/toy/Dialect.cpp:591: StructAccessOp::build asserts that the     *)
(* index is that of an element.                                            *)
IndexInRange ==
    Doing("build") /\ E.k = "binary" /\ E.name = "." /\ ~ InvalidAccess
        /\ IsStruct(TypeIn(Top.value))
    => MemberIndex \in DOMAIN TypeIn(Top.value).elements
=============================================================================
