------------------------------- MODULE Parser -------------------------------
(***************************************************************************)
(* The recursive descent parser of src/inc/Parser.h as a machine with an   *)
(* explicit stack: one frame per active parse function, which says where   *)
(* the function stands and holds its locals, and a register for the value  *)
(* of the function that returned last.  A step runs a function up to the   *)
(* next token it takes, call it makes, or return.                          *)
(*                                                                         *)
(* The lexer is a source of tokens: getNextToken gives any token of a      *)
(* scenario's lexicon, so a behaviour explores one input.  The build has   *)
(* assertions on: consume() and getId() on another token than expected     *)
(* abort the compiler.                                                     *)
(***************************************************************************)
EXTENDS AST, SequencesExt

CONSTANTS
    Identifiers,   \* the tokens that are tok_identifier, by name
    Scenarios      \* inputs: a fixed beginning, then any tokens of a lexicon

Comma == ","
Semicolon == ";"
OpenBrace == "{"
CloseBrace == "}"

(* The lexer makes other tokens of keywords, numbers and punctuation.       *)
ASSUME IdentifiersAreNames ==
    Identifiers \cap ({"eof", "def", "struct", "var", "return", "num"} \cup
                      {"(", ")", "[", "]", OpenBrace, CloseBrace, "<", ">", Comma, Semicolon, "=",
                       "+", "-", "*", "."}) = {}

(* The tokens of all inputs.                                               *)
Tokens == {"eof"} \cup UNION {ToSet(s.script) \cup s.lexicon : s \in Scenarios}

ASSUME ScenariosAreInputs ==
    \A s \in Scenarios :
        /\ s.script \in Seq(Tokens) /\ s.script # << >>
        /\ s.max \in Nat /\ Len(s.script) < s.max

VARIABLES
    scenario,   \* where the tokens come from
    text,       \* the tokens taken so far
    tok,        \* lexer.getCurToken()
    stack,      \* the active functions, innermost first
    ret,        \* the value just returned, if the caller has not taken it
    structs,    \* the names in structList
    diag,       \* whether a parse error was reported
    status,     \* "run", "module" or "null" (what parseModule returned), "abort"
    module      \* the records of the returned module

vars == <<scenario, text, tok, stack, ret, structs, diag, status, module>>

-----------------------------------------------------------------------------
(* A "paren" node records where the source had a pair of parentheses; the  *)
(* AST of the program has no such node.  All numbers are 1.                *)

Num == Node("num", "num", << >>)

-----------------------------------------------------------------------------
(* The machine.                                                            *)

(* A mutant: an initializer is not required where nothing is said of it.   *)
FrameOptional(at) ==
    [at |-> at, name |-> NoName, items |-> << >>, dims |-> 0,
     lhs |-> Null, op |-> NoName, prec |-> 0, req |-> FALSE]

(* The initializer of a declaration is required by default.                *)
Frame(at) ==
    [at |-> at, name |-> NoName, items |-> << >>, dims |-> 0,
     lhs |-> Null, op |-> NoName, prec |-> 0, req |-> TRUE]

Top == Head(stack)

Input == <<tok, text>>
Others == <<scenario, structs, status, module>>

(* The innermost function stands at l and has nothing to receive.          *)
At(l) == status = "run" /\ Top.at = l /\ ret = << >>

(* The function it called has returned.                                    *)
After(l) == status = "run" /\ Top.at = l /\ ret # << >>

Value == ret[1]

IsId(t) == t \in Identifiers

NextTokens ==
    LET given == Len(text) + 1
    IN  IF given < Len(scenario.script) THEN {scenario.script[given + 1]}
        ELSE IF given < scenario.max THEN scenario.lexicon \cup {"eof"}
        ELSE {"eof"}

Consume ==
    /\ text' = Append(text, tok)
    /\ tok' \in IF tok = "eof" THEN {"eof"} ELSE NextTokens

Goto(frame) == stack' = <<frame>> \o Tail(stack) /\ ret' = << >>

(* Call the function f; the caller goes on at frame.                       *)
CallAt(frame, f) == stack' = <<f, frame>> \o Tail(stack) /\ ret' = << >>

Return(node) == stack' = Tail(stack) /\ ret' = <<node>>

(* parseError.                                                             *)
Fail == Return(Null) /\ diag' = TRUE /\ UNCHANGED Input /\ UNCHANGED Others

(* An assertion of the lexer fails.                                        *)
Abort ==
    /\ status' = "abort"
    /\ UNCHANGED <<scenario, text, tok, stack, ret, structs, diag, module>>

Quiet == UNCHANGED diag /\ UNCHANGED Others

Moved(l) == [Top EXCEPT !.at = l]

(* Take the current token when it is as expected and go on at l.           *)
Take(l) == Consume /\ Goto(Moved(l)) /\ Quiet

(* A mutant: the name is read after the token was consumed.                *)
TakeNameLate(l) == Consume /\ Goto([Top EXCEPT !.at = l, !.name = tok']) /\ Quiet

(* A mutant: the name of a struct is in structList before its members are. *)
TakeNameEntering(l) ==
    /\ Consume /\ Goto([Top EXCEPT !.at = l, !.name = tok])
    /\ structs' = IF l = "struct.open" THEN structs \cup {tok} ELSE structs
    /\ UNCHANGED <<diag, scenario, status, module>>

TakeName(l) == Consume /\ Goto([Top EXCEPT !.at = l, !.name = tok]) /\ Quiet

Stay(l) == Goto(Moved(l)) /\ UNCHANGED Input /\ Quiet

Calling(l, f) == CallAt(Moved(l), f) /\ UNCHANGED Input /\ Quiet

TakeCalling(l, f) == CallAt(Moved(l), f) /\ Consume /\ Quiet

Give(node) == Return(node) /\ UNCHANGED Input /\ Quiet

TakeGive(node) == Consume /\ Return(node) /\ Quiet

Expression == Frame("expression")

-----------------------------------------------------------------------------
(* Expressions.                                                            *)

Prec(t) == IF t \in {"+", "-"} THEN 20
           ELSE IF t = "*" THEN 40
           ELSE IF t = "." THEN 60 ELSE -1

(* A mutant: the end of the input ends an expression too.                  *)
SilentEndsMore == {Semicolon, CloseBrace, "eof"}

(* The tokens that give a null expression without a message.               *)
SilentEnds == {Semicolon, CloseBrace}

(* parsePrimary is a tail call of the function for the token.              *)
ParsePrimary ==
    \/ /\ At("primary")
       /\ \/ IsId(tok) /\ Stay("identifier")
          \/ tok = "num" /\ TakeGive(Num)
          \/ tok = "(" /\ Stay("paren")
          \/ tok = "[" /\ Stay("tensor")
          \/ tok = OpenBrace /\ Stay("struct_literal")
          \/ tok \in SilentEnds /\ Give(Null)
          \/ ~ IsId(tok) /\ tok \notin {"num", "(", "[", OpenBrace} \cup SilentEnds /\ Fail

ParseParenExpr ==
    \/ At("paren") /\ TakeCalling("paren.close", Expression)
    \/ /\ After("paren.close")
       /\ \/ Value = Null /\ Give(Null)
          \/ Value # Null /\ tok # ")" /\ Fail
          \/ Value # Null /\ tok = ")" /\ TakeGive(Node("paren", NoName, <<Value>>))

ParseIdentifierExpr ==
    \/ At("identifier") /\ TakeName("identifier.next")
    \/ /\ At("identifier.next")
       /\ \/ tok # "(" /\ Give(Node("variable", Top.name, << >>))
          \/ tok = "(" /\ Take("call.first")
    \/ /\ At("call.first")
       /\ \/ tok = ")" /\ Stay("call.close")
          \/ tok # ")" /\ Calling("call.arg", Expression)
    \/ /\ After("call.arg")
       /\ \/ Value = Null /\ Give(Null)
          \/ /\ Value # Null
             /\ LET f == [Top EXCEPT !.items = Append(@, Value)]
                IN  \/ /\ tok = ")"
                       /\ Goto([f EXCEPT !.at = "call.close"])
                       /\ UNCHANGED Input /\ Quiet
                    \/ tok = Comma /\ CallAt(f, Expression) /\ Consume /\ Quiet
                    \/ tok \notin {")", Comma} /\ Fail
    \/ /\ At("call.close")
       /\ Consume
       /\ UNCHANGED Others
       /\ LET wrong == Top.name = "print" /\ Len(Top.items) # 1
          IN  /\ Return(IF wrong THEN Null
                        ELSE IF Top.name = "print" THEN Node("print", "print", Top.items)
                        ELSE Node("call", Top.name, Top.items))
              /\ diag' = (diag \/ wrong)

(* A mutant: the shapes of the nested lists are not compared.              *)
FinishTensorRagged(values) ==
    IF \A m, n \in DOMAIN values : IsLiteral(values[m]) = IsLiteral(values[n])
    THEN "literal" ELSE "error"

(* After the ']': a list with a nested list must have nested lists of one  *)
(* shape only; cast<> aborts on a number after a first nested list.        *)
FinishTensor(values) ==
    LET nested  == \E n \in DOMAIN values : IsLiteral(values[n])
        uniform(n) == values[n].dims = values[1].dims
        odd == {n \in DOMAIN values : ~ IsLiteral(values[n]) \/ ~ uniform(n)}
        first == CHOOSE n \in odd : \A m \in odd : n <= m
    IN  IF ~ nested \/ odd = {} THEN "literal"
        ELSE IF IsLiteral(values[1]) /\ ~ IsLiteral(values[first]) THEN "abort"
        ELSE "error"

ParseTensorLiteralExpr ==
    \/ At("tensor") /\ Take("tensor.element")
    \/ /\ At("tensor.element")
       /\ \/ tok = "[" /\ Calling("tensor.nested", Frame("tensor"))
          \/ /\ tok = "num" /\ Consume /\ Quiet
             /\ Goto([Moved("tensor.separator") EXCEPT !.items = Append(@, Num)])
          \/ tok \notin {"[", "num"} /\ Fail
    \/ /\ After("tensor.nested")
       /\ \/ Value = Null /\ Give(Null)
          \/ /\ Value # Null /\ UNCHANGED Input /\ Quiet
             /\ Goto([Moved("tensor.separator") EXCEPT !.items = Append(@, Value)])
    \/ /\ At("tensor.separator")
       /\ \/ tok = Comma /\ Take("tensor.element")
          \/ tok = "]" /\ Take("tensor.finish")
          \/ tok \notin {Comma, "]"} /\ Fail
    \/ /\ At("tensor.finish")
       /\ \/ /\ FinishTensor(Top.items) = "literal"
             /\ Give(Literal(Top.items))
          \/ FinishTensor(Top.items) = "error" /\ Fail
          \/ FinishTensor(Top.items) = "abort" /\ Abort

(* Commas are optional and a null value is kept.  Where an expression      *)
(* fails without taking a token, the loop goes round without end; the      *)
(* list of nulls it collects is cut to the first one here.                 *)
Collected(items, value) ==
    IF value = Null /\ items # << >> /\ Last(items) = Null
    THEN items ELSE Append(items, value)

ParseStructLiteralExpr ==
    \/ At("struct_literal") /\ Take("struct_literal.loop")
    \/ /\ At("struct_literal.loop")
       /\ \/ tok = CloseBrace /\ TakeGive(Node("struct_literal", NoName, Top.items))
          \/ tok # CloseBrace /\ Calling("struct_literal.value", Expression)
    \/ /\ After("struct_literal.value")
       /\ LET f == [Moved("struct_literal.loop") EXCEPT !.items = Collected(@, Value)]
          IN  \/ tok = Comma /\ Goto(f) /\ Consume /\ Quiet
              \/ IsId(tok) /\ Fail
              \/ tok # Comma /\ ~ IsId(tok) /\ Goto(f) /\ UNCHANGED Input /\ Quiet

(* A mutant: the operands are swapped.                                     *)
MergedSwapped(rhs) == Node("binary", Top.op, <<rhs, Top.lhs>>)

Merged(rhs) == Node("binary", Top.op, <<Top.lhs, rhs>>)

(* A mutant: the recursive call takes operators as tight as op.            *)
AsTight(op) == Prec(op)

(* The precedence the recursive call starts from.                          *)
Tighter(op) == Prec(op) + 1

(* The loop of parseBinOpRHS; prec is its exprPrec and lhs what it has     *)
(* parsed.                                                                 *)
ParseBinOpRHS ==
    \/ /\ At("rhs")
       /\ \/ Prec(tok) < Top.prec /\ Give(Top.lhs)
          \/ /\ Prec(tok) >= Top.prec /\ Consume /\ Quiet
             /\ CallAt([Moved("rhs.operand") EXCEPT !.op = tok], Frame("primary"))
    \/ /\ After("rhs.operand")
       /\ \/ Value = Null /\ Fail
          \/ /\ Value # Null /\ UNCHANGED Input /\ Quiet
             /\ IF Prec(Top.op) < Prec(tok)
                THEN CallAt(Moved("rhs.merge"),
                            [Frame("rhs") EXCEPT !.prec = Tighter(Top.op), !.lhs = Value])
                ELSE Goto([Moved("rhs") EXCEPT !.lhs = Merged(Value)])
    \/ /\ After("rhs.merge")
       /\ \/ Value = Null /\ Give(Null)
          \/ /\ Value # Null /\ UNCHANGED Input /\ Quiet
             /\ Goto([Moved("rhs") EXCEPT !.lhs = Merged(Value)])

ParseExpression ==
    \/ At("expression") /\ Calling("expression.rhs", Frame("primary"))
    \/ /\ After("expression.rhs")
       /\ \/ Value = Null /\ Give(Null)
          \/ /\ Value # Null /\ UNCHANGED Input /\ Quiet
             /\ Goto([Moved("rhs") EXCEPT !.lhs = Value])

-----------------------------------------------------------------------------
(* Statements.                                                             *)

(* The optional operand is an optional<unique_ptr>: a null expression      *)
(* counts as one.                                                          *)
ParseReturn ==
    \/ At("return") /\ Take("return.operand")
    \/ /\ At("return.operand")
       /\ \/ tok = Semicolon /\ Give(Node("return", NoName, << >>))
          \/ tok # Semicolon /\ Calling("return.done", Expression)
    \/ After("return.done") /\ Give(Node("return", NoName, <<Value>>))

Declaration(init) ==
    VarDecl(Top.name, VarType("tensor", [n \in 1 .. Top.dims |-> 1]), init)

(* parseType is inlined; in a list of dimensions the commas are optional.  *)
ParseVarDeclaration ==
    \/ At("var") /\ Take("var.name")
    \/ /\ At("var.name")
       /\ \/ IsId(tok) /\ TakeName("var.type")
          \/ ~ IsId(tok) /\ Fail
    \/ /\ At("var.type")
       /\ \/ tok = "<" /\ Take("type.dim")
          \/ tok # "<" /\ Stay("var.init")
    \/ /\ At("type.dim")
       /\ \/ /\ tok = "num" /\ Consume /\ Quiet
             /\ Goto([Moved("type.comma") EXCEPT !.dims = @ + 1])
          \/ tok = ">" /\ Take("var.init")
          \/ tok \notin {"num", ">"} /\ Fail
    \/ /\ At("type.comma")
       /\ \/ tok = Comma /\ Take("type.dim")
          \/ tok # Comma /\ Stay("type.dim")
    \/ /\ At("var.init")
       /\ \/ tok # "=" /\ ~ Top.req /\ Give(Declaration(<< >>))
          \/ tok # "=" /\ Top.req /\ Abort
          \/ tok = "=" /\ TakeCalling("var.done", Expression)
    \/ After("var.done") /\ Give(Declaration(<<Value>>))

(* The type is a struct name.                                              *)
ParseTypedDeclaration ==
    \/ /\ At("typed")
       /\ Consume /\ Quiet
       /\ Goto([Moved("typed.name") EXCEPT !.op = tok])
    \/ /\ At("typed.name")
       /\ \/ IsId(tok) /\ TakeName("typed.init")
          \/ ~ IsId(tok) /\ Fail
    \/ /\ At("typed.init")
       /\ \/ tok # "=" /\ ~ Top.req /\ Give(VarDecl(Top.name, VarType(Top.op, << >>), << >>))
          \/ tok # "=" /\ Top.req /\ Fail
          \/ tok = "=" /\ TakeCalling("typed.done", Expression)
    \/ /\ After("typed.done")
       /\ Give(VarDecl(Top.name, VarType(Top.op, << >>), <<Value>>))

(* parseBlock, and parseDefinition after it.  A statement that is no       *)
(* declaration and no return is asked for its identifier.                  *)
ParseBlock ==
    \/ /\ At("block")
       /\ \/ tok = OpenBrace /\ Take("block.next")
          \/ tok # OpenBrace /\ Fail
    \/ /\ At("block.next")
       /\ \/ tok = Semicolon /\ Take("block.next")
          \/ tok = CloseBrace /\ TakeGive(Node("def", Top.name, Top.items))
          \/ tok = "eof" /\ Fail
          \/ tok = "var" /\ Calling("block.done", Frame("var"))
          \/ tok = "return" /\ Calling("block.done", Frame("return"))
          \/ /\ IsId(tok)
             /\ Calling("block.done", IF tok \in structs THEN Frame("typed") ELSE Expression)
          \/ ~ IsId(tok) /\ tok \notin {Semicolon, CloseBrace, "eof", "var", "return"} /\ Abort
    \/ /\ After("block.done")
       /\ \/ Value = Null /\ Give(Null)
          \/ Value # Null /\ tok # Semicolon /\ Fail
          \/ /\ Value # Null /\ tok = Semicolon /\ UNCHANGED Input /\ Quiet
             /\ Goto([Moved("block.next") EXCEPT !.items = Append(@, Value)])

-----------------------------------------------------------------------------
(* The top level.                                                          *)

(* A parameter is a type name and a name, taken without a check before.    *)
TakeBlock ==
    /\ Consume /\ Quiet
    /\ Goto([Moved("block") EXCEPT !.items = <<Node("params", NoName, @)>>])

ParsePrototype ==
    \/ At("def") /\ Take("def.name")
    \/ /\ At("def.name")
       /\ \/ IsId(tok) /\ TakeName("def.open")
          \/ ~ IsId(tok) /\ Fail
    \/ /\ At("def.open")
       /\ \/ tok = "(" /\ Take("def.first")
          \/ tok # "(" /\ Fail
    \/ /\ At("def.first")
       /\ \/ tok = ")" /\ TakeBlock
          \/ tok # ")" /\ Stay("param.type")
    \/ /\ At("param.type")
       /\ \/ ~ IsId(tok) /\ Abort
          \/ /\ IsId(tok) /\ Consume /\ Quiet
             /\ Goto([Moved("param.name") EXCEPT !.op = tok])
    \/ /\ At("param.name")
       /\ \/ ~ IsId(tok) /\ Abort
          \/ /\ IsId(tok) /\ Consume /\ Quiet
             /\ Goto([Moved("param.next") EXCEPT !.items =
                          Append(@, VarDecl(tok, VarType(Top.op, << >>), << >>))])
    \/ /\ At("param.next")
       /\ \/ tok = Comma /\ Take("param.comma")
          \/ tok = ")" /\ TakeBlock
          \/ tok \notin {Comma, ")"} /\ Fail
    \/ /\ At("param.comma")
       /\ \/ IsId(tok) /\ Stay("param.type")
          \/ ~ IsId(tok) /\ Fail

(* The name goes to structList when the whole definition was read.         *)
ParseStruct ==
    \/ At("struct") /\ Take("struct.name")
    \/ /\ At("struct.name")
       /\ \/ IsId(tok) /\ TakeName("struct.open")
          \/ ~ IsId(tok) /\ Fail
    \/ /\ At("struct.open")
       /\ \/ tok = OpenBrace /\ Take("struct.member")
          \/ tok # OpenBrace /\ Fail
    \/ /\ At("struct.member")
       /\ \/ tok = "var" /\ Calling("struct.next", [Frame("var") EXCEPT !.req = FALSE])
          \/ IsId(tok) /\ Calling("struct.next", [Frame("typed") EXCEPT !.req = FALSE])
          \/ tok # "var" /\ ~ IsId(tok) /\ Fail
    \/ /\ After("struct.next")
       /\ \/ Value = Null /\ Give(Null)
          \/ Value # Null /\ tok # Semicolon /\ Fail
          \/ /\ Value # Null /\ tok = Semicolon /\ Consume /\ Quiet
             /\ Goto([Moved("struct.end") EXCEPT !.items = Append(@, Value)])
    \/ /\ At("struct.end")
       /\ \/ tok # CloseBrace /\ Stay("struct.member")
          \/ /\ tok = CloseBrace /\ Consume
             /\ Return(Node("struct", Top.name, Top.items))
             /\ structs' = structs \cup {Top.name}
             /\ UNCHANGED <<diag, scenario, status, module>>

(* A mutant: a token that begins no record is reported and looked at again.*)
ReportOnly ==
    /\ diag' = TRUE
    /\ UNCHANGED <<scenario, text, tok, stack, ret, structs, status, module>>

(* A token that begins no record.                                          *)
RejectModule ==
    /\ diag' = TRUE /\ status' = "null"
    /\ UNCHANGED <<scenario, text, tok, stack, ret, structs, module>>

(* A record that failed to parse is null and is kept; the loop looks at    *)
(* the token only.                                                         *)
ParseModule ==
    \/ /\ At("module")
       /\ \/ tok = "def" /\ Calling("module.record", Frame("def"))
          \/ tok = "struct" /\ Calling("module.record", Frame("struct"))
          \/ tok \notin {"def", "struct"} /\ RejectModule
    \/ /\ After("module.record")
       /\ LET records == Append(Top.items, Value)
          IN  \/ /\ tok # "eof" /\ UNCHANGED Input /\ Quiet
                 /\ Goto([Moved("module") EXCEPT !.items = records])
              \/ /\ tok = "eof"
                 /\ module' = records /\ status' = "module"
                 /\ UNCHANGED <<scenario, text, tok, stack, ret, structs, diag>>

Init ==
    /\ scenario \in Scenarios
    /\ text = << >>
    /\ tok = scenario.script[1]
    /\ stack = <<Frame("module")>>
    /\ ret = << >>
    /\ structs = {}
    /\ diag = FALSE
    /\ status = "run"
    /\ module = << >>

Next ==
    \/ ParseModule \/ ParsePrototype \/ ParseStruct \/ ParseBlock
    \/ ParseVarDeclaration \/ ParseTypedDeclaration \/ ParseReturn
    \/ ParseExpression \/ ParseBinOpRHS \/ ParsePrimary \/ ParseIdentifierExpr
    \/ ParseParenExpr \/ ParseTensorLiteralExpr \/ ParseStructLiteralExpr

(* The parser runs on one thread until parseModule returns.                *)
Spec == Init /\ [][Next]_vars /\ WF_vars(Next)

-----------------------------------------------------------------------------
(* Properties.                                                             *)

(* The register, the stack and the token are what the machine expects, and *)
(* only names are entered in structList.                                   *)
TypeOK ==
    /\ tok \in Tokens /\ text \in Seq(Tokens)
    /\ Len(text) <= scenario.max
    /\ structs \subseteq Identifiers
    /\ diag \in BOOLEAN
    /\ status \in {"run", "module", "null", "abort"}
    /\ Len(ret) <= 1
    /\ stack # << >> /\ Last(stack).at \in {"module", "module.record"}

WithChildren(trees) == trees \cup UNION {ToSet(x.c) : x \in trees}

(* These trees and all that is below.  A tree has no more levels than the  *)
(* text has tokens, with one more for its types and nulls.                 *)
NodesOf(trees) ==
    LET levels == Len(text) + 1
        upto[n \in 0 .. levels] == IF n = 0 THEN trees ELSE WithChildren(upto[n - 1])
    IN  upto[levels]

Parsed == NodesOf(ToSet(module))

(* The values under construction, before a module is returned.             *)
InProgress == NodesOf(ToSet(ret))

(* An operator never takes an operand that binds less tightly than it, and *)
(* equal operators group to the left; only parentheses change that.        *)
PrecedenceRespected ==
    \A e \in Parsed \cup InProgress : e.k = "binary" =>
        /\ e.c[1].k = "binary" => Prec(e.c[1].name) >= Prec(e.name)
        /\ e.c[2].k = "binary" => Prec(e.c[2].name) > Prec(e.name)

(* The modules returned are of the form MLIRGen relies on: the nodes have  *)
(* the children their classes speak of, and a declaration among statements *)
(* has its initializer, whatever mix of records, holes and literals the    *)
(* input was.                                                              *)
ModulesGrammatical == \A x \in Parsed : InGrammar(x)

(* Rejecting a module, or returning one with a null record, is preceded by *)
(* a message.  Within a record, only a declaration, a struct literal and a *)
(* return keep a null expression, which a ';' or '}' in its place leaves   *)
(* silently; no operator, call or literal has a null operand.              *)
HolesReported ==
    /\ status = "null" \/ Null \in ToSet(module) => diag
    /\ \A e \in Parsed \cup InProgress :
           Null \in ToSet(e.c) => e.k \in {"decl", "struct_literal", "return"}

(* All rows of a literal have the shape its dims announce, by which        *)
(* MLIRGen counts the elements.                                            *)
TensorsUniform ==
    \A e \in Parsed \cup InProgress : IsLiteral(e) =>
        /\ Len(e.c) = Head(e.dims)
        /\ \A n \in DOMAIN e.c : e.c[n].dims = Tail(e.dims)

(* The one loop that may not end: a struct literal whose next element      *)
(* fails on a token the loop does not take.                                *)
InStructLiteral == \E n \in DOMAIN stack : stack[n].at \in
                       {"struct_literal.loop", "struct_literal.value"}

(* Every input is parsed to the end, or hangs in that loop.                *)
TerminatesElsewhere == <>[](InStructLiteral \/ status # "run")

(* src/inc/Parser.h:34: "It produces a well formed AST from a stream of    *)
(* Token supplied by the Lexer."                                           *)
WellFormedAST == status = "module" => Null \notin Parsed

(* src/inc/Lexer.h:85: getId() has the prerequisite that the current token *)
(* is an identifier, and consume() that it is the one named.               *)
PrerequisitesHold == status # "abort"

(* Every input is parsed to the end.                                       *)
Termination == <>(status # "run")
=============================================================================
