---------------------------- MODULE ParserProofs ----------------------------
(***************************************************************************)
(* Proofs about the parser: from any sequence of tokens it makes only      *)
(* trees of the form MLIRGen relies on, with operators grouped by their    *)
(* precedence, literals of one shape and nulls where they are tolerated.   *)
(*                                                                         *)
(* The functions are frames of a stack, so the invariant says which        *)
(* function may have called which (Calls), what it may return to it        *)
(* (Gives, Gets) and what it holds at each of its positions (Stage).       *)
(***************************************************************************)
EXTENDS Parser, SequenceLemmas

-----------------------------------------------------------------------------
(* Where the functions of the grammar stand.                               *)

TensorAts == {"tensor", "tensor.element", "tensor.nested", "tensor.separator",
              "tensor.finish"}

CallAts == {"call.first", "call.arg", "call.close"}

StartAts == {"primary", "identifier", "identifier.next"}

PrimaryAts == StartAts \cup TensorAts \cup CallAts \cup
    {"paren", "paren.close", "struct_literal", "struct_literal.loop", "struct_literal.value"}

RhsAts == {"rhs", "rhs.operand", "rhs.merge"}

ExpressionAts == RhsAts \cup {"expression", "expression.rhs"}

DeclAts == {"var", "var.name", "var.type", "type.dim", "type.comma", "var.init", "var.done",
            "typed", "typed.name", "typed.init", "typed.done"}

ReturnAts == {"return", "return.operand", "return.done"}

ParamAts == {"def", "def.name", "def.open", "def.first", "param.type", "param.name",
             "param.next", "param.comma"}

BlockAts == {"block", "block.next", "block.done"}

StructAts == {"struct", "struct.name", "struct.open", "struct.member", "struct.next",
              "struct.end"}

ModuleAts == {"module", "module.record"}

(* Where they wait for an expression, and where for a primary one.         *)
OperandAts == {"paren.close", "call.arg", "struct_literal.value", "return.done", "var.done",
               "typed.done"}

FirstAts == {"expression.rhs", "rhs.operand"}

(* Where they take a token that the caller has looked at.                  *)
TakingAts == {"identifier", "paren", "tensor", "struct_literal", "call.close", "var", "typed",
              "return", "def", "struct"}

(* What they return.                                                       *)
PrimaryKinds == {"null", "num", "variable", "call", "print", "paren", "tensor",
                 "struct_literal"}

Kinds == PrimaryKinds \cup {"binary"}

-----------------------------------------------------------------------------
(* Calls and values.                                                       *)

(* Function f, waiting, has called g.                                      *)
Calls(f, g) ==
    /\ f.at = "module.record" => g.at \in ParamAts \cup BlockAts \cup StructAts
    /\ f.at = "block.done" => g.at \in ExpressionAts \cup ReturnAts \/ (g.at \in DeclAts /\ g.req)
    /\ f.at = "struct.next" => g.at \in DeclAts
    /\ f.at = "tensor.nested" => g.at \in TensorAts
    /\ f.at = "rhs.merge" => g.at \in RhsAts /\ g.prec = Prec(f.op) + 1
    /\ f.at \in FirstAts => g.at \in PrimaryAts
    /\ f.at \in OperandAts => g.at \in ExpressionAts
    /\ f.at \in {"module.record", "block.done", "struct.next", "tensor.nested", "rhs.merge"}
                \cup FirstAts \cup OperandAts

(* g may return v in front of the token t.                                 *)
Gives(g, v, t) ==
    /\ g.at \in TensorAts => v.k \in {"null", "tensor"}
    /\ g.at \in PrimaryAts => v.k \in PrimaryKinds
    /\ g.at \in ExpressionAts => v.k \in Kinds
    /\ g.at \in RhsAts =>
           /\ v.k = "binary" => Prec(v.name) >= g.prec
           /\ v # Null => Prec(t) < g.prec
    /\ g.at \in DeclAts => v.k \in {"null", "decl"} /\ (g.req /\ v # Null => Len(v.c) = 2)
    /\ g.at \in ReturnAts => v.k = "return"
    /\ g.at \in ParamAts \cup BlockAts => v.k \in {"null", "def"}
    /\ g.at \in StructAts => v.k \in {"null", "struct"}

(* What f relies on when it gets v in front of t.                          *)
Gets(f, v, t) ==
    /\ f.at = "block.done" => (v.k = "decl" => Len(v.c) = 2)
    /\ f.at = "struct.next" => v.k \in {"null", "decl"}
    /\ f.at = "tensor.nested" => v.k \in {"null", "tensor"}
    /\ f.at = "rhs.merge" =>
           /\ v.k \in Kinds
           /\ v.k = "binary" => Prec(v.name) > Prec(f.op)
           /\ v # Null => Prec(t) <= Prec(f.op)
    /\ f.at \in FirstAts => v.k \in PrimaryKinds
    /\ f.at \in OperandAts => v.k \in Kinds

(* The parameters and the statements of a function.                        *)
Body(items) ==
    /\ items # << >> /\ items[1].k = "params"
    /\ \A n \in DOMAIN items[1].c : items[1].c[n].k = "decl"
    /\ \A n \in DOMAIN items :
           items[n] # Null /\ (items[n].k = "decl" => Len(items[n].c) = 2)

(* What a function holds.                                                  *)
Stage(f) ==
    /\ f.at \in StartAts => f.items = << >>
    /\ f.at \in TensorAts => \A n \in DOMAIN f.items : f.items[n].k \in {"num", "tensor"}
    /\ f.at \in {"tensor.separator", "tensor.finish"} => f.items # << >>
    /\ f.at \in CallAts => \A n \in DOMAIN f.items : f.items[n] # Null
    /\ f.at \in RhsAts =>
           /\ f.lhs.k \in Kinds /\ f.lhs # Null
           /\ f.lhs.k = "binary" => Prec(f.lhs.name) >= f.prec
    /\ f.at \in {"rhs.operand", "rhs.merge"} =>
           /\ Prec(f.op) >= f.prec
           /\ f.lhs.k = "binary" => Prec(f.lhs.name) >= Prec(f.op)
    /\ f.at \in ParamAts \cup StructAts => \A n \in DOMAIN f.items : f.items[n].k = "decl"
    /\ f.at \in StructAts /\ f.at \notin {"struct", "struct.name"} => IsId(f.name)
    /\ f.at \in BlockAts => Body(f.items)

(* The token t in front of f, when no value is returned to it.             *)
Facing(f, t) ==
    /\ f.at \in TakingAts => t # "eof"
    /\ f.at = "rhs" /\ f.lhs.k = "binary" => Prec(f.lhs.name) >= Prec(t)

(* A node as it is built.                                                  *)
Built(x) ==
    /\ x.k = "null" => x = Null
    /\ x.k = "num" => x.dims = << >>
    /\ InGrammar(x)
    /\ x.k = "binary" =>
        /\ x.c[1].k = "binary" => Prec(x.c[1].name) >= Prec(x.name)
        /\ x.c[2].k = "binary" => Prec(x.c[2].name) > Prec(x.name)
    /\ IsLiteral(x) =>
        /\ Len(x.c) = Head(x.dims)
        /\ \A n \in DOMAIN x.c : x.c[n].dims = Tail(x.dims)
    /\ \A n \in DOMAIN x.c : x.c[n] = Null => x.k \in {"decl", "struct_literal", "return"}

Tree(S) == Null \in S /\ \A x \in S : x.c \in Seq(S) /\ Built(x)

Labels == PrimaryAts \cup ExpressionAts \cup DeclAts \cup ReturnAts \cup ParamAts \cup
          BlockAts \cup StructAts \cup ModuleAts

Words == Tokens \cup {NoName}

Frames(S) == [at : Labels, name : Words, items : Seq(S), dims : Nat, lhs : S, op : Words,
              prec : Nat, req : BOOLEAN]

(* Going from g to h, a function stays what its caller called.             *)
Continues(g, h) ==
    /\ h.req = g.req /\ h.prec = g.prec
    /\ g.at \in TensorAts => h.at \in TensorAts
    /\ g.at \in PrimaryAts => h.at \in PrimaryAts
    /\ g.at \in RhsAts => h.at \in RhsAts
    /\ g.at \in ExpressionAts => h.at \in ExpressionAts
    /\ g.at \in DeclAts => h.at \in DeclAts
    /\ g.at \in ReturnAts => h.at \in ReturnAts
    /\ g.at \in ParamAts \cup BlockAts => h.at \in ParamAts \cup BlockAts
    /\ g.at \in StructAts => h.at \in StructAts
    /\ g.at \in ModuleAts => h.at \in ModuleAts

-----------------------------------------------------------------------------
(* The invariant.                                                          *)

StackOK(S) ==
    /\ stack \in Seq(Frames(S)) /\ stack # << >>
    /\ \A n \in 1 .. Len(stack) : Stage(stack[n])
    /\ \A n \in 1 .. Len(stack) - 1 : Calls(stack[n + 1], stack[n])
    /\ stack[Len(stack)].at \in ModuleAts

RegisterOK(S) ==
    \/ ret = << >> /\ Facing(stack[1], tok)
    \/ \E v \in S : ret = <<v>> /\ Gets(stack[1], v, tok)

InputOK ==
    /\ scenario \in Scenarios
    /\ tok \in Tokens /\ text \in Seq(Tokens)
    /\ Len(text) <= scenario.max
    /\ tok # "eof" => Len(text) < scenario.max

(* A null is returned without a message in front of a ';' or '}' only, and *)
(* a null record in front of one has no record after it.                   *)
NullsOK ==
    /\ status = "null" => diag
    /\ ~ diag =>
       /\ ret # << >> /\ ret[1] = Null => tok \in SilentEnds
       /\ Null \in ToSet(stack[Len(stack)].items) =>
           /\ Len(stack) = 1 /\ stack[1].at = "module" /\ ret = << >>
           /\ status = "run" /\ tok \in SilentEnds
       /\ Null \notin ToSet(module)

FlagsOK ==
    /\ structs \subseteq Identifiers
    /\ diag \in BOOLEAN
    /\ status \in {"run", "module", "null", "abort"}

Ready(S) ==
    /\ Tree(S) /\ module \in Seq(S)
    /\ StackOK(S) /\ RegisterOK(S) /\ InputOK /\ NullsOK /\ FlagsOK

ParserInv == \E S : Ready(S)

-----------------------------------------------------------------------------
(* The steps of a function.                                                *)

Reads == UNCHANGED Input \/ (tok # "eof" /\ Consume)

Goes(S) ==
    \E T, f :
        /\ Tree(T) /\ S \subseteq T /\ f \in Frames(T)
        /\ Stage(f) /\ Continues(Top, f) /\ Facing(f, tok')
        /\ Goto(f) /\ Reads /\ Quiet

Enters(S) ==
    \E f, g :
        /\ f \in Frames(S) /\ g \in Frames(S)
        /\ Stage(f) /\ Stage(g) /\ Continues(Top, f) /\ Calls(f, g) /\ Facing(g, tok')
        /\ CallAt(f, g) /\ Reads /\ Quiet

Leaves(S) ==
    \E T, v :
        /\ Tree(T) /\ S \subseteq T /\ v \in T
        /\ Gives(Top, v, tok')
        /\ Return(v) /\ Reads /\ UNCHANGED <<scenario, status, module>>
        /\ structs' \subseteq Identifiers /\ diag' \in BOOLEAN
        /\ diag => diag'
        /\ v = Null /\ ~ diag' => tok' \in SilentEnds

(* A function that is not parseModule does one of these.                   *)
Steps(S) ==
    Top.at \notin ModuleAts /\ (Goes(S) \/ Enters(S) \/ Leaves(S) \/ Abort)

-----------------------------------------------------------------------------
(* The stack.                                                              *)

(* Another frame on top.                                                   *)
LEMMA PutFirst ==
    ASSUME NEW X, NEW s \in Seq(X), s # << >>, NEW f \in X
    PROVE  /\ <<f>> \o Tail(s) \in Seq(X) /\ Len(<<f>> \o Tail(s)) = Len(s)
           /\ (<<f>> \o Tail(s))[1] = f
           /\ \A n \in 2 .. Len(s) : (<<f>> \o Tail(s))[n] = s[n]
OBVIOUS

(* Two frames for the one on top.                                          *)
LEMMA PutTwo ==
    ASSUME NEW X, NEW s \in Seq(X), s # << >>, NEW f \in X, NEW g \in X
    PROVE  /\ <<f, g>> \o Tail(s) \in Seq(X) /\ Len(<<f, g>> \o Tail(s)) = Len(s) + 1
           /\ (<<f, g>> \o Tail(s))[1] = f /\ (<<f, g>> \o Tail(s))[2] = g
           /\ \A n \in 2 .. Len(s) : (<<f, g>> \o Tail(s))[n + 1] = s[n]
OBVIOUS

(* The one on top gone.                                                    *)
LEMMA TakeOff ==
    ASSUME NEW X, NEW s \in Seq(X), s # << >>
    PROVE  /\ Tail(s) \in Seq(X) /\ Len(Tail(s)) = Len(s) - 1
           /\ \A n \in 1 .. Len(s) - 1 : Tail(s)[n] = s[n + 1]
OBVIOUS

(* Precedences are numbers.                                                *)
LEMMA PrecRange == \A t : Prec(t) \in Int /\ (Prec(t) < 0 \/ Prec(t) \in Nat)
BY DEF Prec

(* The null pointer has no parts.                                          *)
LEMMA NullParts == Null.k = "null" /\ Null.c = << >> /\ Null.dims = << >>
BY DEF Null, Node, SizedNode

(* More trees do no harm to what is held.                                  *)
LEMMA MoreTrees ==
    ASSUME NEW S, NEW T, S \subseteq T
    PROVE  Frames(S) \subseteq Frames(T) /\ Seq(S) \subseteq Seq(T) /\ Seq(Frames(S)) \subseteq Seq(Frames(T))
<1>1. Seq(S) \subseteq Seq(T)
  OBVIOUS
<1>2. Frames(S) \subseteq Frames(T)
  BY <1>1 DEF Frames
<1>3. Seq(Frames(S)) \subseteq Seq(Frames(T))
  BY <1>2
<1> QED BY <1>1, <1>2, <1>3

(* The function on top is not parseModule, and something called it.        *)
LEMMA BottomIsModule ==
    ASSUME NEW S, StackOK(S)
    PROVE  /\ Len(stack) \in Nat /\ Len(stack) >= 1
           /\ Top = stack[1] /\ Top \in Frames(S) /\ Stage(Top)
           /\ Top.at \notin ModuleAts => Len(stack) >= 2
           /\ Top.at \in ModuleAts => Len(stack) = 1
<1>1. /\ Len(stack) \in Nat /\ Len(stack) >= 1
      /\ Top = stack[1] /\ Top \in Frames(S) /\ Stage(Top)
  BY DEF StackOK, Top
<1>2. Top.at \notin ModuleAts => Len(stack) >= 2
  BY <1>1 DEF StackOK
<1>3. ASSUME Top.at \in ModuleAts, Len(stack) # 1 PROVE FALSE
  <2>0. 1 \in 1 .. Len(stack) - 1 /\ 1 + 1 = 2
    <3> DEFINE L == Len(stack)
    <3>1. L \in Nat /\ L >= 1 /\ L # 1
      BY <1>1, <1>3
    <3> HIDE DEF L
    <3>2. 1 \in 1 .. L - 1
      BY ONLY <3>1
    <3> QED BY <3>2 DEF L
  <2>1. Calls(stack[2], stack[1])
    BY <2>0, Zenon DEF StackOK
  <2> QED BY <2>1, <1>3, <1>1 DEF Calls, ModuleAts, ParamAts, BlockAts, StructAts, ExpressionAts,
             RhsAts, ReturnAts, DeclAts, TensorAts, CallAts, StartAts, PrimaryAts, FirstAts, OperandAts
<1> QED BY <1>1, <1>2, <1>3

(* What may be returned is what the caller relies on.                      *)
LEMMA GivenIsGotten ==
    ASSUME NEW f, NEW g, NEW v, NEW t, Calls(f, g), Gives(g, v, t)
    PROVE  Gets(f, v, t)
<1> USE DEF Calls, Gives, Gets, FirstAts, OperandAts, Kinds, PrimaryKinds
<1>1. CASE f.at = "block.done"
  BY <1>1, NullParts
<1>2. CASE f.at = "struct.next"
  BY <1>2
<1>3. CASE f.at = "tensor.nested"
  BY <1>3
<1>4. CASE f.at = "rhs.merge"
  <2>1. g.at \in ExpressionAts /\ g.at \in RhsAts /\ g.prec = Prec(f.op) + 1
    BY <1>4 DEF ExpressionAts
  <2>2. v.k \in Kinds
    BY <2>1
  <2>3. v.k = "binary" => Prec(v.name) >= Prec(f.op) + 1
    BY <2>1
  <2>4. v # Null => Prec(t) < Prec(f.op) + 1
    BY <2>1
  <2>5. Prec(t) \in Int /\ Prec(f.op) \in Int /\ Prec(v.name) \in Int
    BY PrecRange
  <2>6. /\ v.k = "binary" => Prec(v.name) > Prec(f.op)
        /\ v # Null => Prec(t) <= Prec(f.op)
    BY ONLY <2>3, <2>4, <2>5
  <2> QED BY <1>4, <2>2, <2>6
<1>5. CASE f.at \in FirstAts
  BY <1>5
<1>6. CASE f.at \in OperandAts
  BY <1>6
<1> QED BY <1>1, <1>2, <1>3, <1>4, <1>5, <1>6

(* A step within a function keeps what was called.                         *)
LEMMA StillCalled ==
    ASSUME NEW f, NEW g, NEW h, Calls(f, g), Continues(g, h)
    PROVE  Calls(f, h)
BY DEF Calls, Continues

-----------------------------------------------------------------------------
(* Each such step keeps the invariant.                                     *)

(* The end of the input.                                                   *)
LEMMA EofIsToken == "eof" \in Tokens
BY DEF Tokens

(* No token is taken at the end of the input.                              *)
LEMMA ReadsInput ==
    ASSUME InputOK, Reads, scenario' = scenario
    PROVE  InputOK'
<1>1. CASE UNCHANGED Input
  BY <1>1 DEF InputOK, Input
<1>2. CASE tok # "eof" /\ Consume
  <2>1. /\ scenario.script \in Seq(Tokens) /\ scenario.lexicon \subseteq Tokens
        /\ scenario.max \in Nat /\ Len(scenario.script) < scenario.max
    <3>1. scenario \in Scenarios
      BY DEF InputOK
    <3>2. scenario.lexicon \subseteq Tokens
      BY <3>1 DEF Tokens
    <3> QED BY <3>1, <3>2, ScenariosAreInputs
  <2>2. /\ text \in Seq(Tokens) /\ tok \in Tokens /\ Len(text) < scenario.max
        /\ text' = Append(text, tok) /\ tok' \in NextTokens
    BY <1>2 DEF InputOK, Consume
  <2>3. text' \in Seq(Tokens) /\ Len(text') = Len(text) + 1
    BY <2>2
  <2> DEFINE given == Len(text) + 1
             script == scenario.script
  <2>4. given \in Nat /\ Len(script) \in Nat /\ given > 0
    BY <2>1, <2>2
  <2>5. CASE given < Len(script)
    <3>1. tok' = script[given + 1] /\ given + 1 \in 1 .. Len(script)
      BY <2>2, <2>4, <2>5 DEF NextTokens
    <3>2. tok' \in Tokens
      BY <2>1, <3>1
    <3>3. Len(text') < scenario.max
      BY <2>1, <2>3, <2>4, <2>5
    <3> QED BY <2>1, <2>3, <3>2, <3>3 DEF InputOK
  <2>6. CASE ~ given < Len(script) /\ given < scenario.max
    <3>0. NextTokens = scenario.lexicon \cup {"eof"}
      BY ONLY <2>6 DEF NextTokens
    <3>1. tok' \in scenario.lexicon \cup {"eof"}
      BY <2>2, <3>0
    <3>2. tok' \in Tokens
      BY <2>1, <3>1, EofIsToken
    <3> QED BY <2>1, <2>3, <2>4, <2>6, <3>2 DEF InputOK
  <2>7. CASE ~ given < Len(script) /\ ~ given < scenario.max
    <3>1. tok' = "eof"
      BY <2>2, <2>7 DEF NextTokens
    <3>2. Len(text') <= scenario.max
      BY <2>1, <2>2, <2>3, <2>4
    <3>3. tok' \in Tokens
      BY <3>1, EofIsToken
    <3> QED BY <2>3, <3>1, <3>2, <3>3, Zenon DEF InputOK
  <2> QED BY <2>5, <2>6, <2>7
<1> QED BY <1>1, <1>2 DEF Reads

(* Only the module collects nulls.                                         *)
LEMMA NoNullBelow ==
    ASSUME NEW S, StackOK(S), NullsOK, Top.at \notin ModuleAts, ~ diag
    PROVE  /\ Null \notin ToSet(stack[Len(stack)].items) /\ Null \notin ToSet(module)
           /\ status # "null"
<1>1. Len(stack) >= 2 /\ Len(stack) \in Nat
  BY BottomIsModule
<1> QED BY <1>1 DEF NullsOK

(* Going on.                                                               *)
LEMMA GoesKeeps ==
    ASSUME NEW S, Ready(S), Top.at \notin ModuleAts, Goes(S)
    PROVE  ParserInv'
<1> DEFINE L == Len(stack)
<1>0. StackOK(S)
  BY DEF Ready
<1>1. L \in Nat /\ L >= 2 /\ Top = stack[1]
  BY <1>0, BottomIsModule
<1> PICK T, f :
        /\ Tree(T) /\ S \subseteq T /\ f \in Frames(T)
        /\ Stage(f) /\ Continues(Top, f) /\ Facing(f, tok')
        /\ Goto(f) /\ Reads /\ Quiet
  BY DEF Goes
<1>2. stack' = <<f>> \o Tail(stack) /\ ret' = << >>
  BY DEF Goto
<1>3. stack \in Seq(Frames(T)) /\ stack # << >> /\ module \in Seq(T)
  BY MoreTrees DEF Ready, StackOK
<1>4. /\ stack' \in Seq(Frames(T)) /\ Len(stack') = L
      /\ stack'[1] = f /\ \A n \in 2 .. L : stack'[n] = stack[n]
  BY <1>2, <1>3, PutFirst
<1>5. stack'[L] = stack[L] /\ stack' # << >>
  BY <1>1, <1>4
<1>6. StackOK(T)'
  <2>1. ASSUME NEW n \in 1 .. L PROVE Stage(stack'[n])
    BY <1>0, <1>1, <1>4 DEF StackOK
  <2>2. ASSUME NEW n \in 1 .. L - 1 PROVE Calls(stack'[n + 1], stack'[n])
    <3>1. Calls(stack[n + 1], stack[n])
      BY <1>0 DEF StackOK
    <3>2. stack'[n + 1] = stack[n + 1]
      BY <1>1, <1>4
    <3>3. CASE n = 1
      BY <1>1, <1>4, <3>1, <3>2, <3>3, StillCalled
    <3>4. CASE n # 1
      <4>1. n \in 2 .. L
        BY <1>1, <3>4
      <4> QED BY <1>4, <4>1, <3>1, <3>2
    <3> QED BY <3>3, <3>4
  <2>3. stack'[L].at \in ModuleAts
    BY <1>0, <1>5 DEF StackOK
  <2> QED BY <1>4, <1>5, <2>1, <2>2, <2>3 DEF StackOK
<1>7. RegisterOK(T)'
  BY <1>2, <1>4 DEF RegisterOK
<1>8. InputOK'
  BY ReadsInput DEF Ready, Quiet, Others
<1>9. NullsOK'
  <2>1. UNCHANGED <<diag, status, module>>
    BY DEF Quiet, Others
  <2>2. CASE diag
    BY <2>1, <2>2 DEF NullsOK
  <2>3. CASE ~ diag
    <3>1. Null \notin ToSet(stack[L].items) /\ Null \notin ToSet(module) /\ status # "null"
      BY <1>0, <2>3, NoNullBelow DEF Ready
    <3> QED BY <1>2, <1>4, <1>5, <2>1, <3>1 DEF NullsOK
  <2> QED BY <2>2, <2>3
<1>10. FlagsOK' /\ module' = module
  BY DEF Ready, FlagsOK, Quiet, Others
<1>11. Ready(T)'
  BY <1>3, <1>6, <1>7, <1>8, <1>9, <1>10 DEF Ready, Tree
<1> QED BY <1>11 DEF ParserInv

(* Calling.                                                                *)
LEMMA EntersKeeps ==
    ASSUME NEW S, Ready(S), Top.at \notin ModuleAts, Enters(S)
    PROVE  ParserInv'
<1> DEFINE L == Len(stack)
<1>0. StackOK(S)
  BY DEF Ready
<1>1. L \in Nat /\ L >= 2 /\ Top = stack[1]
  BY <1>0, BottomIsModule
<1> PICK f, g :
        /\ f \in Frames(S) /\ g \in Frames(S)
        /\ Stage(f) /\ Stage(g) /\ Continues(Top, f) /\ Calls(f, g) /\ Facing(g, tok')
        /\ CallAt(f, g) /\ Reads /\ Quiet
  BY DEF Enters
<1>2. stack' = <<g, f>> \o Tail(stack) /\ ret' = << >>
  BY DEF CallAt
<1>3. stack \in Seq(Frames(S)) /\ stack # << >> /\ module \in Seq(S)
  BY DEF Ready, StackOK
<1>4. /\ stack' \in Seq(Frames(S)) /\ Len(stack') = L + 1
      /\ stack'[1] = g /\ stack'[2] = f /\ \A n \in 2 .. L : stack'[n + 1] = stack[n]
  BY <1>2, <1>3, PutTwo
<1>5. stack'[L + 1] = stack[L] /\ stack' # << >>
  BY <1>1, <1>4
<1>6. StackOK(S)'
  <2>1. ASSUME NEW n \in 1 .. L + 1 PROVE Stage(stack'[n])
    <3>1. CASE n \in {1, 2}
      BY <1>4, <3>1
    <3>2. CASE n \notin {1, 2}
      <4>1. n - 1 \in 2 .. L /\ n - 1 \in 1 .. L /\ (n - 1) + 1 = n
        BY <1>1, <3>2
      <4> QED BY <1>0, <1>4, <4>1 DEF StackOK
    <3> QED BY <3>1, <3>2
  <2>2. ASSUME NEW n \in 1 .. L PROVE Calls(stack'[n + 1], stack'[n])
    <3>1. CASE n = 1
      BY <1>4, <3>1
    <3>2. CASE n = 2
      <4>1. Calls(stack[2], stack[1])
        <5>1. 1 \in 1 .. L - 1 /\ 1 + 1 = 2
          BY <1>1
        <5> QED BY <1>0, <5>1, Zenon DEF StackOK
      <4>2. Calls(stack[2], f)
        BY <1>1, <4>1, StillCalled
      <4> QED BY <1>1, <1>4, <3>2, <4>2
    <3>3. CASE n \notin {1, 2}
      <4> DEFINE m == n - 1
      <4>1. m \in 2 .. L /\ m \in 1 .. L - 1 /\ m + 1 = n /\ m + 1 \in 2 .. L
        BY <1>1, <3>3
      <4>2. Calls(stack[m + 1], stack[m])
        BY <1>0, <4>1 DEF StackOK
      <4> QED BY <1>4, <4>1, <4>2
    <3> QED BY <3>1, <3>2, <3>3
  <2>3. stack'[L + 1].at \in ModuleAts
    BY <1>0, <1>5 DEF StackOK
  <2>4. Len(stack') - 1 = L
    BY <1>1, <1>4
  <2> QED BY <1>4, <1>5, <2>1, <2>2, <2>3, <2>4 DEF StackOK
<1>7. RegisterOK(S)'
  BY <1>2, <1>4 DEF RegisterOK
<1>8. InputOK'
  BY ReadsInput DEF Ready, Quiet, Others
<1>9. NullsOK'
  <2>1. UNCHANGED <<diag, status, module>>
    BY DEF Quiet, Others
  <2>2. CASE diag
    BY <2>1, <2>2 DEF NullsOK
  <2>3. CASE ~ diag
    <3>1. Null \notin ToSet(stack[L].items) /\ Null \notin ToSet(module) /\ status # "null"
      BY <1>0, <2>3, NoNullBelow DEF Ready
    <3> QED BY <1>2, <1>4, <1>5, <2>1, <3>1 DEF NullsOK
  <2> QED BY <2>2, <2>3
<1>10. FlagsOK' /\ module' = module
  BY DEF Ready, FlagsOK, Quiet, Others
<1>11. Ready(S)'
  BY <1>3, <1>6, <1>7, <1>8, <1>9, <1>10 DEF Ready, Tree
<1> QED BY <1>11 DEF ParserInv

(* Returning.                                                              *)
LEMMA LeavesKeeps ==
    ASSUME NEW S, Ready(S), Top.at \notin ModuleAts, Leaves(S)
    PROVE  ParserInv'
<1> DEFINE L == Len(stack)
<1>0. StackOK(S)
  BY DEF Ready
<1>1. L \in Nat /\ L >= 2 /\ Top = stack[1]
  BY <1>0, BottomIsModule
<1> PICK T, v :
        /\ Tree(T) /\ S \subseteq T /\ v \in T
        /\ Gives(Top, v, tok')
        /\ Return(v) /\ Reads /\ UNCHANGED <<scenario, status, module>>
        /\ structs' \subseteq Identifiers /\ diag' \in BOOLEAN
        /\ diag => diag'
        /\ v = Null /\ ~ diag' => tok' \in SilentEnds
  BY DEF Leaves
<1>2. stack' = Tail(stack) /\ ret' = <<v>>
  BY DEF Return
<1>3. stack \in Seq(Frames(T)) /\ stack # << >> /\ module \in Seq(T)
  BY MoreTrees DEF Ready, StackOK
<1>4. /\ stack' \in Seq(Frames(T)) /\ Len(stack') = L - 1
      /\ \A n \in 1 .. L - 1 : stack'[n] = stack[n + 1]
  BY <1>2, <1>3, TakeOff
<1>5. stack'[L - 1] = stack[L] /\ stack' # << >> /\ stack'[1] = stack[2]
  BY <1>1, <1>4
<1>6. StackOK(T)'
  <2>1. ASSUME NEW n \in 1 .. L - 1 PROVE Stage(stack'[n])
    BY <1>0, <1>1, <1>4 DEF StackOK
  <2>2. ASSUME NEW n \in 1 .. (L - 1) - 1 PROVE Calls(stack'[n + 1], stack'[n])
    <3>1. n + 1 \in 1 .. L - 1 /\ n \in 1 .. L - 1
      BY <1>1
    <3>2. Calls(stack[(n + 1) + 1], stack[n + 1])
      BY <1>0, <3>1 DEF StackOK
    <3> QED BY <1>4, <3>1, <3>2
  <2>3. stack'[L - 1].at \in ModuleAts
    BY <1>0, <1>5 DEF StackOK
  <2> QED BY <1>4, <1>5, <2>1, <2>2, <2>3 DEF StackOK
<1>7. RegisterOK(T)'
  <2>1. Calls(stack[2], stack[1])
    <3>1. 1 \in 1 .. L - 1 /\ 1 + 1 = 2
      BY <1>1
    <3> QED BY <1>0, <3>1, Zenon DEF StackOK
  <2>2. Gets(stack[2], v, tok')
    BY <1>1, <2>1, GivenIsGotten
  <2> QED BY <1>2, <1>5, <2>2 DEF RegisterOK
<1>8. InputOK'
  BY ReadsInput DEF Ready
<1>9. NullsOK'
  <2>1. CASE diag'
    BY <2>1 DEF NullsOK
  <2>2. CASE ~ diag'
    <3>1. ~ diag
      BY <2>2
    <3>2. Null \notin ToSet(stack[L].items) /\ Null \notin ToSet(module) /\ status # "null"
      BY <1>0, <3>1, NoNullBelow DEF Ready
    <3>3. stack'[Len(stack')] = stack[L] /\ module' = module /\ status' = status
      BY <1>4, <1>5
    <3>4. ret'[1] = v
      BY <1>2
    <3> QED BY <2>2, <3>2, <3>3, <3>4 DEF NullsOK
  <2> QED BY <2>1, <2>2
<1>10. FlagsOK' /\ module' = module
  BY DEF Ready, FlagsOK
<1>11. Ready(T)'
  BY <1>3, <1>6, <1>7, <1>8, <1>9, <1>10 DEF Ready, Tree
<1> QED BY <1>11 DEF ParserInv

(* Stopping.                                                               *)
LEMMA AbortKeeps ==
    ASSUME NEW S, Ready(S), Top.at \notin ModuleAts, Abort
    PROVE  ParserInv'
<1>1. UNCHANGED <<scenario, text, tok, stack, ret, structs, diag, module>> /\ status' = "abort"
  BY DEF Abort
<1>2. StackOK(S)' /\ RegisterOK(S)' /\ InputOK' /\ FlagsOK' /\ Tree(S)' /\ module' \in Seq(S)
  BY <1>1 DEF Ready, StackOK, RegisterOK, InputOK, FlagsOK, Tree
<1>3. NullsOK'
  <2>1. CASE diag
    BY <1>1, <2>1 DEF NullsOK
  <2>2. CASE ~ diag
    <3>1. Null \notin ToSet(stack[Len(stack)].items) /\ Null \notin ToSet(module)
      BY <2>2, NoNullBelow DEF Ready
    <3>2. ret # << >> /\ ret[1] = Null => tok \in SilentEnds
      BY <2>2 DEF Ready, NullsOK
    <3> QED BY <1>1, <3>1, <3>2 DEF NullsOK
  <2> QED BY <2>1, <2>2
<1> QED BY <1>2, <1>3 DEF Ready, ParserInv

(* All of them.                                                            *)
LEMMA StepsKeep ==
    ASSUME NEW S, Ready(S), Steps(S)
    PROVE  ParserInv'
BY GoesKeeps, EntersKeeps, LeavesKeeps, AbortKeeps DEF Steps

-----------------------------------------------------------------------------
(* The ways in which a function steps.                                     *)

(* A new frame.                                                            *)
LEMMA FrameFields ==
    ASSUME NEW S, Tree(S), NEW l \in Labels
    PROVE  /\ Frame(l) \in Frames(S)
           /\ Frame(l).at = l /\ Frame(l).items = << >> /\ Frame(l).prec = 0 /\ Frame(l).req
<1>1. Null \in S /\ << >> \in Seq(S) /\ NoName \in Words
  BY DEF Tree, Words
<1> QED BY <1>1 DEF Frame, Frames

(* A frame that goes on.                                                   *)
LEMMA MovedFields ==
    ASSUME NEW S, NEW f \in Frames(S), NEW l \in Labels
    PROVE  LET h == [f EXCEPT !.at = l]
           IN  /\ h \in Frames(S) /\ h.at = l /\ h.name = f.name
               /\ h.items = f.items /\ h.lhs = f.lhs /\ h.op = f.op /\ h.prec = f.prec /\ h.req = f.req
BY DEF Frames

(* To another position, with the token where it was.                       *)
LEMMA StayGoes ==
    ASSUME NEW S, Ready(S), NEW l \in Labels, Stay(l), Stage(Moved(l)),
           Continues(Top, Moved(l)), Facing(Moved(l), tok)
    PROVE  Goes(S)
<1>1. Top \in Frames(S)
  BY BottomIsModule DEF Ready
<1>2. Moved(l) \in Frames(S)
  BY <1>1, MovedFields DEF Moved
<1>3. Goto(Moved(l)) /\ tok' = tok /\ Quiet /\ Reads
  BY DEF Stay, Reads, Input
<1> QED BY <1>2, <1>3 DEF Goes, Ready

(* To another position, with the token taken.                              *)
LEMMA TakeGoes ==
    ASSUME NEW S, Ready(S), NEW l \in Labels, Take(l), tok # "eof", Stage(Moved(l)),
           Continues(Top, Moved(l)), l \notin TakingAts, l # "rhs"
    PROVE  Goes(S)
<1>1. Top \in Frames(S)
  BY BottomIsModule DEF Ready
<1>2. Moved(l) \in Frames(S) /\ Moved(l).at = l
  BY <1>1, MovedFields DEF Moved
<1>3. Goto(Moved(l)) /\ Quiet /\ Reads
  BY DEF Take, Reads
<1>4. Facing(Moved(l), tok')
  BY <1>2 DEF Facing
<1> QED BY <1>2, <1>3, <1>4 DEF Goes, Ready

(* The token taken was a name.                                             *)
LEMMA TakeNameGoes ==
    ASSUME NEW S, Ready(S), NEW l \in Labels, TakeName(l), tok # "eof", Stage(Moved(l)),
           Continues(Top, Moved(l)), l \notin TakingAts \cup RhsAts, l \in StructAts => IsId(tok)
    PROVE  Goes(S)
<1> DEFINE m == Moved(l)
           h == [Top EXCEPT !.at = l, !.name = tok]
<1>1. Top \in Frames(S) /\ tok \in Words
  BY BottomIsModule DEF Ready, InputOK, Words
<1>2. m \in Frames(S) /\ m.at = l
  BY <1>1, MovedFields DEF Moved
<1>3. /\ h \in Frames(S) /\ h.at = m.at /\ h.name = tok /\ h.items = m.items /\ h.lhs = m.lhs /\ h.op = m.op
      /\ h.prec = m.prec /\ h.req = m.req
  BY <1>1 DEF Moved, Frames
<1>4. Goto(h) /\ Quiet /\ Reads
  BY DEF TakeName, Reads
<1> HIDE DEF h, m
<1>5. Stage(h) /\ Continues(Top, h) /\ Facing(h, tok')
  <2>1. Stage(m) /\ Continues(Top, m)
    BY DEF m
  <2>2. Stage(h)
    BY <1>2, <1>3, <2>1 DEF Stage
  <2>3. Continues(Top, h)
    BY <1>3, <2>1 DEF Continues
  <2>4. Facing(h, tok')
    BY <1>2, <1>3 DEF Facing, RhsAts
  <2> QED BY <2>2, <2>3, <2>4
<1> QED BY <1>3, <1>4, <1>5 DEF Goes, Ready

(* A call, with the token where it was.                                    *)
LEMMA CallEnters ==
    ASSUME NEW S, Ready(S), NEW l \in Labels, NEW g \in Frames(S), Calling(l, g), Stage(g),
           Stage(Moved(l)), Continues(Top, Moved(l)), Calls(Moved(l), g), Facing(g, tok)
    PROVE  Enters(S)
<1>1. Top \in Frames(S)
  BY BottomIsModule DEF Ready
<1>2. Moved(l) \in Frames(S)
  BY <1>1, MovedFields DEF Moved
<1>3. CallAt(Moved(l), g) /\ tok' = tok /\ Quiet /\ Reads
  BY DEF Calling, Reads, Input
<1> QED BY <1>2, <1>3 DEF Enters

(* A call behind the token.                                                *)
LEMMA TakeCallEnters ==
    ASSUME NEW S, Ready(S), NEW l \in Labels, NEW g \in Frames(S), TakeCalling(l, g),
           tok # "eof", Stage(g), g.at \notin TakingAts, g.at # "rhs",
           Stage(Moved(l)), Continues(Top, Moved(l)), Calls(Moved(l), g)
    PROVE  Enters(S)
<1>1. Top \in Frames(S)
  BY BottomIsModule DEF Ready
<1>2. Moved(l) \in Frames(S)
  BY <1>1, MovedFields DEF Moved
<1>3. CallAt(Moved(l), g) /\ Quiet /\ Reads
  BY DEF TakeCalling, Reads
<1>4. Facing(g, tok')
  BY DEF Facing
<1> QED BY <1>2, <1>3, <1>4 DEF Enters

(* A result, with the token where it was.                                  *)
LEMMA GiveLeaves ==
    ASSUME NEW S, Ready(S), NEW T, Tree(T), S \subseteq T, NEW v \in T, Give(v),
           Gives(Top, v, tok), v # Null \/ tok \in SilentEnds
    PROVE  Leaves(S)
<1>1. Return(v) /\ tok' = tok /\ Reads /\ UNCHANGED <<scenario, status, module, structs, diag>>
  BY DEF Give, Reads, Input, Quiet, Others
<1>2. structs' \subseteq Identifiers /\ diag' \in BOOLEAN
  BY <1>1 DEF Ready, FlagsOK
<1> QED BY <1>1, <1>2 DEF Leaves

(* A result behind the token.                                              *)
LEMMA TakeGiveLeaves ==
    ASSUME NEW S, Ready(S), NEW T, Tree(T), S \subseteq T, NEW v \in T, TakeGive(v),
           tok # "eof", Gives(Top, v, tok'), v # Null
    PROVE  Leaves(S)
<1>1. Return(v) /\ Reads /\ UNCHANGED <<scenario, status, module, structs, diag>>
  BY DEF TakeGive, Reads, Quiet, Others
<1>2. structs' \subseteq Identifiers /\ diag' \in BOOLEAN
  BY <1>1 DEF Ready, FlagsOK
<1> QED BY <1>1, <1>2 DEF Leaves

(* Every function but parseReturn may return a null.                       *)
LEMMA NullGiven ==
    ASSUME NEW g, NEW t, g.at \notin ReturnAts
    PROVE  Gives(g, Null, t)
BY NullParts DEF Gives, Kinds, PrimaryKinds

(* An error.                                                               *)
LEMMA FailLeaves ==
    ASSUME NEW S, Ready(S), Fail, Top.at \notin ReturnAts
    PROVE  Leaves(S)
<1>1. /\ Return(Null) /\ diag' = TRUE /\ Reads
      /\ UNCHANGED <<scenario, status, module, structs>>
  BY DEF Fail, Reads, Others
<1>2. structs' \subseteq Identifiers /\ diag' \in BOOLEAN
  BY <1>1 DEF Ready, FlagsOK
<1>3. Tree(S) /\ Null \in S
  BY DEF Ready, Tree
<1>4. Gives(Top, Null, tok')
  BY NullGiven
<1> QED BY <1>1, <1>2, <1>3, <1>4 DEF Leaves

(* The null of a function that was called.                                 *)
LEMMA PassNull ==
    ASSUME NEW S, Ready(S), ret # << >>, Value = Null, Give(Null), Top.at \notin ReturnAts
    PROVE  Leaves(S)
<1>1. /\ Return(Null) /\ Reads /\ tok' = tok
      /\ UNCHANGED <<scenario, status, module, structs, diag>>
  BY DEF Give, Quiet, Input, Reads, Others
<1>2. structs' \subseteq Identifiers /\ diag' \in BOOLEAN
  BY <1>1 DEF Ready, FlagsOK
<1>3. Tree(S) /\ Null \in S
  BY DEF Ready, Tree
<1>4. Gives(Top, Null, tok')
  BY NullGiven
<1>5. ~ diag => tok \in SilentEnds
  BY DEF Ready, NullsOK, Value
<1> QED BY <1>1, <1>2, <1>3, <1>4, <1>5 DEF Leaves

(* A tree more.                                                            *)
LEMMA OneMore ==
    ASSUME NEW S, Tree(S), NEW x, x.c \in Seq(S), Built(x)
    PROVE  Tree(S \cup {x}) /\ S \subseteq S \cup {x} /\ x \in S \cup {x}
<1>1. Seq(S) \subseteq Seq(S \cup {x})
  BY MoreTrees
<1> QED BY <1>1 DEF Tree

-----------------------------------------------------------------------------
(* Positions.                                                              *)

(* From a to b, a function stays what it is.                               *)
Alike(a, b) ==
    /\ b \in Labels
    /\ b \in StartAts => a \in StartAts
    /\ b \in TensorAts <=> a \in TensorAts
    /\ b \in CallAts => a \in CallAts
    /\ a \in PrimaryAts => b \in PrimaryAts
    /\ a \notin RhsAts /\ b \notin RhsAts
    /\ a \in ExpressionAts => b \in ExpressionAts
    /\ a \in DeclAts => b \in DeclAts
    /\ a \in ReturnAts => b \in ReturnAts
    /\ a \in ParamAts <=> b \in ParamAts
    /\ a \in BlockAts <=> b \in BlockAts
    /\ a \in StructAts <=> b \in StructAts
    /\ b \in StructAts => b \in {"struct", "struct.name"} \/ a \notin {"struct", "struct.name"}
    /\ a \in ModuleAts => b \in ModuleAts

(* What it holds is as good at b as it was at a.                           *)
Same(a, b) ==
    Alike(a, b) /\ (b \in {"tensor.separator", "tensor.finish"} => a = "tensor.separator")

(* So only the position has to be looked at.                               *)
LEMMA Onward ==
    ASSUME NEW S, Ready(S), NEW l, Same(Top.at, l)
    PROVE  l \in Labels /\ Stage(Moved(l)) /\ Continues(Top, Moved(l)) /\ Moved(l).at = l
<1> DEFINE h == Moved(l)
           f == Top
<1>0. l \in Labels
  BY DEF Same, Alike
<1>1. f \in Frames(S) /\ Stage(f) /\ Same(f.at, l)
  BY BottomIsModule DEF Ready
<1>2. /\ h \in Frames(S) /\ h.at = l /\ h.items = f.items /\ h.lhs = f.lhs
      /\ h.name = f.name /\ h.op = f.op /\ h.prec = f.prec /\ h.req = f.req
  BY <1>0, <1>1, MovedFields DEF Moved
<1> HIDE DEF f, h
<1>3. Stage(h)
  <2>1. h.at \notin RhsAts /\ h.at \notin {"rhs.operand", "rhs.merge"}
    BY <1>1, <1>2 DEF Same, Alike, RhsAts
  <2>2. h.at \in {"tensor.separator", "tensor.finish"} => h.items # << >>
    BY <1>1, <1>2 DEF Same, Alike, Stage
  <2> QED BY <1>1, <1>2, <2>1, <2>2 DEF Same, Alike, Stage
<1>4. Continues(f, h)
  BY <1>1, <1>2 DEF Same, Alike, Continues
<1> QED BY <1>0, <1>2, <1>3, <1>4 DEF f, h

(* The steps that do no more.                                              *)
LEMMA Staying ==
    ASSUME NEW S, Ready(S), NEW l, Stay(l), Same(Top.at, l),
           l \in TakingAts => tok # "eof", l # "rhs"
    PROVE  Goes(S)
<1>1. l \in Labels /\ Stage(Moved(l)) /\ Continues(Top, Moved(l)) /\ Moved(l).at = l
  BY Onward
<1>2. Facing(Moved(l), tok)
  BY <1>1 DEF Facing
<1> QED BY <1>1, <1>2, StayGoes

(* The same with the token taken.                                          *)
LEMMA Taking ==
    ASSUME NEW S, Ready(S), NEW l, Take(l), Same(Top.at, l), tok # "eof",
           l \notin TakingAts, l # "rhs"
    PROVE  Goes(S)
BY Onward, TakeGoes

(* The same with a name taken.                                             *)
LEMMA TakingName ==
    ASSUME NEW S, Ready(S), NEW l, TakeName(l), Same(Top.at, l), tok # "eof",
           l \notin TakingAts, l \in StructAts => IsId(tok)
    PROVE  Goes(S)
<1>1. l \in Labels /\ Stage(Moved(l)) /\ Continues(Top, Moved(l)) /\ Moved(l).at = l
  BY Onward
<1>2. l \notin RhsAts
  BY DEF Same, Alike
<1> QED BY <1>1, <1>2, TakeNameGoes

(* A call of an expression, or of another function that starts afresh.     *)
LEMMA StartingCall ==
    ASSUME NEW S, Ready(S), NEW l, NEW k \in Labels, Same(Top.at, l),
           k \notin {"tensor.separator", "tensor.finish"} \cup RhsAts \cup BlockAts,
           k \in StructAts => k = "struct",
           l = "module.record" => k \in ParamAts \cup StructAts,
           l = "block.done" => k \in ExpressionAts \cup ReturnAts \cup DeclAts,
           l = "struct.next" => k \in DeclAts,
           l = "tensor.nested" => k \in TensorAts,
           l \in FirstAts => k \in PrimaryAts,
           l \in OperandAts => k \in ExpressionAts,
           l \in {"module.record", "block.done", "struct.next", "tensor.nested"}
                 \cup FirstAts \cup OperandAts
    PROVE  /\ Frame(k) \in Frames(S) /\ Stage(Frame(k)) /\ Frame(k).at = k
           /\ Calls(Moved(l), Frame(k))
<1> DEFINE g == Frame(k)
           h == Moved(l)
<1>1. Tree(S)
  BY DEF Ready
<1>2. g \in Frames(S) /\ g.at = k /\ g.items = << >> /\ g.prec = 0 /\ g.req
  BY <1>1, FrameFields
<1>3. h.at = l /\ l \notin RhsAts
  BY Onward DEF Same, Alike
<1> HIDE DEF g, h
<1>4. Stage(g)
  <2>1. k \notin {"rhs.operand", "rhs.merge"}
    BY DEF RhsAts
  <2> QED BY <1>2, <2>1 DEF Stage
<1>5. Calls(h, g)
  <2>1. l # "rhs.merge"
    BY <1>3 DEF RhsAts
  <2> QED BY <1>2, <1>3, <2>1 DEF Calls
<1> QED BY <1>2, <1>4, <1>5 DEF g, h

-----------------------------------------------------------------------------
(* Waiting, and going on.                                                  *)

(* A function that stands somewhere.                                       *)
LEMMA Standing ==
    ASSUME NEW S, Ready(S), NEW l, At(l)
    PROVE  /\ Top.at = l /\ Top \in Frames(S) /\ Stage(Top) /\ Tree(S)
           /\ Facing(Top, tok) /\ tok \in Tokens
BY BottomIsModule DEF At, Ready, RegisterOK, InputOK

(* A function that gets a value.                                           *)
LEMMA Getting ==
    ASSUME NEW S, Ready(S), NEW l, After(l)
    PROVE  /\ Top.at = l /\ Top \in Frames(S) /\ Stage(Top) /\ Tree(S)
           /\ ret # << >> /\ Value \in S /\ Gets(Top, Value, tok) /\ tok \in Tokens
BY BottomIsModule DEF After, Ready, RegisterOK, InputOK, Value

(* At l, it has taken v to what it holds.                                  *)
Adds(f, h, l, v) ==
    /\ h.at = l /\ h.name = f.name /\ h.items = Append(f.items, v)
    /\ h.lhs = f.lhs /\ h.op = f.op /\ h.prec = f.prec /\ h.req = f.req

(* The frame is made in this way.                                          *)
LEMMA AddedFields ==
    ASSUME NEW S, NEW f \in Frames(S), NEW l \in Labels, NEW v \in S
    PROVE  LET h == [[f EXCEPT !.at = l] EXCEPT !.items = Append(@, v)]
           IN  h \in Frames(S) /\ Adds(f, h, l, v)
<1> DEFINE m == [f EXCEPT !.at = l]
           h == [m EXCEPT !.items = Append(@, v)]
<1>1. /\ m \in Frames(S) /\ m.at = l /\ m.name = f.name /\ m.items = f.items /\ m.lhs = f.lhs
      /\ m.op = f.op /\ m.prec = f.prec /\ m.req = f.req
  BY DEF Frames
<1> HIDE DEF m
<1>2. Append(m.items, v) \in Seq(S)
  BY <1>1 DEF Frames
<1>3. /\ h \in Frames(S) /\ h.at = l /\ h.name = f.name
      /\ h.items = Append(f.items, v) /\ h.lhs = f.lhs
      /\ h.op = f.op /\ h.prec = f.prec /\ h.req = f.req
  BY <1>1, <1>2 DEF Frames
<1>4. h \in Frames(S) /\ Adds(f, h, l, v)
  BY <1>3 DEF Adds
<1> QED BY <1>4 DEF h, m

(* v may be held at l.                                                     *)
Holds(l, v) ==
    /\ l \in TensorAts => v.k \in {"num", "tensor"}
    /\ l \in CallAts => v # Null
    /\ l \in ParamAts \cup StructAts => v.k = "decl"
    /\ l \in BlockAts => v # Null /\ (v.k = "decl" => Len(v.c) = 2)
    /\ l \notin StartAts

(* Then it is ready to go on.                                              *)
LEMMA AddedStage ==
    ASSUME NEW S, NEW f \in Frames(S), Stage(f), NEW l, NEW v \in S, NEW h \in Frames(S),
           Adds(f, h, l, v), Alike(f.at, l), Holds(l, v)
    PROVE  Stage(h) /\ Continues(f, h)
<1>1. f.items \in Seq(S) /\ h.items = Append(f.items, v)
  BY DEF Frames, Adds
<1>2. /\ DOMAIN h.items = 1 .. Len(f.items) + 1 /\ h.items # << >>
      /\ Len(f.items) \in Nat /\ DOMAIN f.items = 1 .. Len(f.items)
      /\ f.items # << >> => h.items[1] = f.items[1]
  BY <1>1
<1>3. \A n \in DOMAIN h.items : (n \in DOMAIN f.items /\ h.items[n] = f.items[n]) \/ h.items[n] = v
  BY <1>1
<1>4. h.at = l /\ h.prec = f.prec /\ h.req = f.req
  BY DEF Adds
<1>5. h.at \notin RhsAts /\ h.at \notin {"rhs.operand", "rhs.merge"} /\ h.at \notin StartAts
  BY <1>4 DEF Alike, RhsAts, Holds
<1>6. h.at \in TensorAts => \A n \in DOMAIN h.items : h.items[n].k \in {"num", "tensor"}
  BY <1>3, <1>4 DEF Alike, Holds, Stage
<1>7. h.at \in CallAts => \A n \in DOMAIN h.items : h.items[n] # Null
  BY <1>3, <1>4 DEF Alike, Holds, Stage
<1>8. h.at \in ParamAts \cup StructAts => \A n \in DOMAIN h.items : h.items[n].k = "decl"
  BY <1>3, <1>4 DEF Alike, Holds, Stage
<1>9. h.at \in BlockAts => Body(h.items)
  BY <1>2, <1>3, <1>4 DEF Alike, Holds, Stage, Body
<1>12. h.at \in StructAts /\ h.at \notin {"struct", "struct.name"} => IsId(h.name)
  BY <1>4 DEF Adds, Alike, Stage
<1>10. Stage(h)
  BY <1>2, <1>5, <1>6, <1>7, <1>8, <1>9, <1>12 DEF Stage
<1>11. Continues(f, h)
  BY <1>4 DEF Alike, Continues
<1> QED BY <1>10, <1>11

-----------------------------------------------------------------------------
(* Expressions.                                                            *)

(* An identifier is no other token.                                        *)
LEMMA NamesAreNames ==
    ASSUME NEW t, IsId(t)
    PROVE  t \notin {"eof", "def", "struct", "var", "return", "num", "(", ")", "[", "]", OpenBrace, CloseBrace,
                     "<", ">", Comma, Semicolon, "=", "+", "-", "*", "."}
BY IdentifiersAreNames DEF IsId

(* Where an expression begins.                                             *)
LEMMA PrimaryPlaces ==
    /\ Same("primary", "identifier") /\ Same("primary", "paren")
    /\ Same("primary", "struct_literal")
    /\ {"primary", "tensor"} \subseteq Labels
    /\ {"primary", "paren", "paren.close"} \cap (ModuleAts \cup ReturnAts) = {}
    /\ Same("paren", "paren.close")
    /\ "paren.close" \in OperandAts
BY DEF Same, Alike, Labels, PrimaryAts, StartAts, TensorAts, CallAts, RhsAts, ExpressionAts, DeclAts,
       ReturnAts, ParamAts, BlockAts, StructAts, ModuleAts, OperandAts

(* The call of an expression, and of a primary one.                        *)
LEMMA ExpressionCall ==
    ASSUME NEW S, Ready(S), NEW l, Same(Top.at, l), l \in OperandAts
    PROVE  /\ Expression \in Frames(S) /\ Stage(Expression) /\ Expression.at = "expression"
           /\ Calls(Moved(l), Expression)
<1> DEFINE k == "expression"
<1>1. /\ k \in Labels /\ k \in ExpressionAts
      /\ k \notin {"tensor.separator", "tensor.finish"} \cup RhsAts \cup BlockAts
      /\ k \notin StructAts
  BY DEF Labels, ExpressionAts, RhsAts, BlockAts, StructAts
<1>2. l \notin {"module.record", "block.done", "struct.next", "tensor.nested"} \cup FirstAts
  BY DEF OperandAts, FirstAts
<1> HIDE DEF k
<1>3. Frame(k) \in Frames(S) /\ Stage(Frame(k)) /\ Frame(k).at = k /\ Calls(Moved(l), Frame(k))
  BY <1>1, <1>2, StartingCall
<1> QED BY <1>3 DEF k, Expression

(* The steps that call it.                                                 *)
LEMMA CallingExpression ==
    ASSUME NEW S, Ready(S), NEW l, Same(Top.at, l), l \in OperandAts,
           Calling(l, Expression) \/ (TakeCalling(l, Expression) /\ tok # "eof")
    PROVE  Enters(S)
<1>1. /\ Expression \in Frames(S) /\ Stage(Expression) /\ Expression.at = "expression"
      /\ Calls(Moved(l), Expression)
  BY ExpressionCall
<1>2. l \in Labels /\ Stage(Moved(l)) /\ Continues(Top, Moved(l))
  BY Onward
<1>3. Expression.at \notin TakingAts /\ Expression.at # "rhs"
  BY <1>1 DEF TakingAts
<1>4. Facing(Expression, tok)
  BY <1>3 DEF Facing
<1>5. CASE Calling(l, Expression)
  BY <1>1, <1>2, <1>4, <1>5, CallEnters
<1>6. CASE TakeCalling(l, Expression) /\ tok # "eof"
  BY <1>1, <1>2, <1>3, <1>6, TakeCallEnters
<1> QED BY <1>5, <1>6

(* What a primary expression gives.                                        *)
LEMMA GivesPrimary ==
    ASSUME NEW g, NEW v, NEW t, g.at \in PrimaryAts, v.k \in PrimaryKinds,
           g.at \in TensorAts => v.k = "tensor"
    PROVE  Gives(g, v, t)
<1>1. /\ g.at \notin ExpressionAts /\ g.at \notin RhsAts /\ g.at \notin DeclAts
      /\ g.at \notin ReturnAts /\ g.at \notin ParamAts \cup BlockAts /\ g.at \notin StructAts
  BY DEF PrimaryAts, StartAts, TensorAts, CallAts, RhsAts, ExpressionAts, DeclAts,
         ReturnAts, ParamAts, BlockAts, StructAts
<1> QED BY <1>1 DEF Gives

(* A list of values begins.                                                *)
LEMMA EmptyOnward ==
    ASSUME NEW S, Ready(S), Top.at \in StartAts, NEW l \in {"tensor", "call.first"}
    PROVE  /\ l \in Labels /\ Stage(Moved(l)) /\ Continues(Top, Moved(l))
           /\ Moved(l).at = l
<1> DEFINE m == Moved(l)
<1>1. Top \in Frames(S) /\ Top.items = << >>
  BY BottomIsModule DEF Ready, Stage
<1>2. l \in Labels
  BY DEF Labels, PrimaryAts, TensorAts, CallAts
<1>3. m.at = l /\ m.items = << >> /\ m.prec = Top.prec /\ m.req = Top.req
  BY <1>1, <1>2, MovedFields DEF Moved
<1> HIDE DEF m
<1>4. Stage(m)
  BY <1>3 DEF Stage, StartAts, TensorAts, CallAts, RhsAts, ParamAts, StructAts, BlockAts
<1>5. Continues(Top, m)
  BY <1>3 DEF Continues, StartAts, TensorAts, CallAts, PrimaryAts, RhsAts, ExpressionAts,
     DeclAts, ReturnAts, ParamAts, StructAts, BlockAts, ModuleAts
<1> QED BY <1>2, <1>3, <1>4, <1>5 DEF m

(* A number.                                                               *)
LEMMA NumberTree ==
    ASSUME NEW S, Tree(S)
    PROVE  /\ Tree(S \cup {Num}) /\ S \subseteq S \cup {Num} /\ Num \in S \cup {Num}
           /\ Num # Null /\ Num.k = "num" /\ Num.dims = << >>
<1>1. Num.k = "num" /\ Num.c = << >> /\ Num.dims = << >>
  BY DEF Num, Node, SizedNode
<1>2. Num.c \in Seq(S)
  BY <1>1
<1>3. Built(Num)
  BY <1>1 DEF Built, InGrammar, IsLiteral
<1>4. Num # Null
  BY <1>1, NullParts
<1> QED BY <1>1, <1>2, <1>3, <1>4, OneMore

(* Nodes about which little has to be known.                               *)
PlainKinds == {"paren", "variable", "call", "print", "struct_literal", "return", "params"}

(* A print has one argument; only a struct literal and a return may have   *)
(* a null among their parts.                                               *)
LEMMA PlainTree ==
    ASSUME NEW S, Tree(S), NEW k, NEW name, NEW cs \in Seq(S),
           k \in PlainKinds,
           k = "print" => Len(cs) = 1,
           k \in {"struct_literal", "return"} \/ \A n \in DOMAIN cs : cs[n] # Null
    PROVE  LET x == Node(k, name, cs)
           IN  /\ Tree(S \cup {x}) /\ S \subseteq S \cup {x} /\ x \in S \cup {x}
               /\ x # Null /\ x.k = k /\ x.c = cs
<1> DEFINE x == Node(k, name, cs)
<1>1. x.k = k /\ x.c = cs /\ x.dims = << >>
  BY DEF Node, SizedNode
<1> HIDE DEF x
<1>2. x # Null
  BY <1>1, NullParts DEF PlainKinds
<1>3. Built(x)
  BY <1>1 DEF Built, InGrammar, IsLiteral, PlainKinds
<1>4. Tree(S \cup {x}) /\ S \subseteq S \cup {x} /\ x \in S \cup {x}
  BY <1>1, <1>3, OneMore
<1> QED BY <1>1, <1>2, <1>4 DEF x

(* At an operator, a bracket or a separator the input does not end.        *)
LEMMA Punctuation ==
    "eof" \notin {OpenBrace, CloseBrace, Comma, Semicolon}
BY Zenon DEF OpenBrace, CloseBrace, Comma, Semicolon

(* parsePrimary.                                                           *)
LEMMA PrimarySteps ==
    ASSUME NEW S, Ready(S), ParsePrimary
    PROVE  Steps(S)
<1>1. At("primary")
  BY DEF ParsePrimary
<1>2. /\ Top.at = "primary" /\ Top.at \notin ModuleAts /\ Top.at \notin ReturnAts
      /\ Tree(S) /\ Top \in Frames(S) /\ Stage(Top)
  BY <1>1, PrimaryPlaces, BottomIsModule DEF At, Ready
<1>3. CASE IsId(tok) /\ Stay("identifier")
  <2>1. tok # "eof"
    BY <1>3, NamesAreNames
  <2> QED BY <1>2, <1>3, <2>1, PrimaryPlaces, Staying DEF Steps
<1>4. CASE tok = "num" /\ TakeGive(Num)
  <2> DEFINE T == S \cup {Num}
  <2>1. Tree(T) /\ S \subseteq T /\ Num \in T /\ Num # Null /\ Num.k = "num"
    BY <1>2, NumberTree
  <2> HIDE DEF T
  <2>2. Gives(Top, Num, tok')
    BY <1>2, <2>1, GivesPrimary DEF PrimaryAts, StartAts, TensorAts, PrimaryKinds
  <2>3. Leaves(S)
    BY <1>4, <2>1, <2>2, TakeGiveLeaves
  <2> QED BY <1>2, <2>3 DEF Steps
<1>5. CASE tok = "(" /\ Stay("paren")
  BY <1>2, <1>5, PrimaryPlaces, Staying DEF Steps
<1>6. CASE tok = "[" /\ Stay("tensor")
  <2>1. /\ "tensor" \in Labels /\ Stage(Moved("tensor")) /\ Continues(Top, Moved("tensor"))
        /\ Moved("tensor").at = "tensor"
    BY <1>2, EmptyOnward DEF StartAts
  <2>2. Facing(Moved("tensor"), tok)
    BY <1>6, <2>1 DEF Facing
  <2>3. Goes(S)
    BY <1>6, <2>1, <2>2, StayGoes
  <2> QED BY <1>2, <2>3 DEF Steps
<1>7. CASE tok = OpenBrace /\ Stay("struct_literal")
  <2>1. tok # "eof"
    BY <1>7, Punctuation
  <2> QED BY <1>2, <1>7, <2>1, PrimaryPlaces, Staying DEF Steps
<1>8. CASE tok \in SilentEnds /\ Give(Null)
  <2>1. Gives(Top, Null, tok) /\ Null \in S
    BY <1>2, NullGiven DEF Tree
  <2>2. Leaves(S)
    BY <1>2, <1>8, <2>1, GiveLeaves
  <2> QED BY <1>2, <2>2 DEF Steps
<1>9. CASE Fail
  BY <1>2, <1>9, FailLeaves DEF Steps
<1> QED BY <1>3, <1>4, <1>5, <1>6, <1>7, <1>8, <1>9 DEF ParsePrimary

(* parseParenExpr.                                                         *)
LEMMA ParenSteps ==
    ASSUME NEW S, Ready(S), ParseParenExpr
    PROVE  Steps(S)
<1>0. Tree(S) /\ Top \in Frames(S) /\ Stage(Top)
  BY BottomIsModule DEF Ready
<1>1. CASE At("paren") /\ TakeCalling("paren.close", Expression)
  <2>1. Top.at = "paren" /\ Top.at \notin ModuleAts
    BY <1>1, PrimaryPlaces DEF At
  <2>2. tok # "eof"
    <3>1. Facing(stack[1], tok)
      BY <1>1 DEF At, Ready, RegisterOK
    <3> QED BY <2>1, <3>1, BottomIsModule DEF Facing, TakingAts, Ready
  <2>5. Enters(S)
    BY <1>1, <2>1, <2>2, PrimaryPlaces, CallingExpression
  <2> QED BY <2>1, <2>5 DEF Steps
<1>2. CASE After("paren.close")
  <2>1. Top.at = "paren.close" /\ Top.at \notin ModuleAts /\ Top.at \notin ReturnAts /\ ret # << >>
    BY <1>2, PrimaryPlaces DEF After
  <2>2. CASE Value = Null /\ Give(Null)
    BY <2>1, <2>2, PassNull DEF Steps
  <2>3. CASE Fail
    BY <2>1, <2>3, FailLeaves DEF Steps
  <2>4. CASE Value # Null /\ tok = ")" /\ TakeGive(Node("paren", NoName, <<Value>>))
    <3> DEFINE k == "paren"
               cs == <<Value>>
               x == Node(k, NoName, cs)
               T == S \cup {x}
    <3>1. Value \in S
      BY <2>1 DEF Ready, RegisterOK, Value
    <3>2. cs \in Seq(S) /\ \A n \in DOMAIN cs : cs[n] # Null
      BY <2>4, <3>1
    <3>0. /\ k \in PlainKinds
          /\ k # "print"
      BY DEF PlainKinds
    <3> HIDE DEF k, cs
    <3>3. Tree(T) /\ S \subseteq T /\ x \in T /\ x # Null /\ x.k = k
      BY <1>0, <3>0, <3>2, PlainTree
    <3> HIDE DEF x, T
    <3>4. Gives(Top, x, tok')
      BY <2>1, <3>3, GivesPrimary DEF k, PrimaryAts, StartAts, TensorAts, CallAts, PrimaryKinds
    <3>5. TakeGive(x) /\ tok # "eof"
      BY <2>4 DEF x, k, cs
    <3>6. Leaves(S)
      BY <3>3, <3>4, <3>5, TakeGiveLeaves
    <3> QED BY <2>1, <3>6 DEF Steps
  <2> QED BY <1>2, <2>1, <2>2, <2>3, <2>4 DEF ParseParenExpr, At
<1> QED BY <1>1, <1>2 DEF ParseParenExpr
(* Where a name or a call is read.                                         *)
LEMMA CallPlaces ==
    /\ Same("identifier", "identifier.next")
    /\ Same("call.first", "call.arg") /\ Same("call.first", "call.close")
    /\ Same("call.arg", "call.arg") /\ Same("call.arg", "call.close")
    /\ {"identifier", "identifier.next", "call.first", "call.arg", "call.close"} \cap
           (ModuleAts \cup ReturnAts \cup TensorAts \cup StructAts) = {}
    /\ {"identifier", "identifier.next", "call.first", "call.arg", "call.close"} \subseteq PrimaryAts
    /\ {"call.arg", "call.close"} \cap (ParamAts \cup StructAts \cup BlockAts \cup StartAts) = {}
    /\ {"identifier.next", "call.first", "call.arg"} \cap TakingAts = {}
    /\ {"identifier", "call.close"} \subseteq TakingAts /\ {"identifier", "identifier.next"} \subseteq StartAts
    /\ {"call.arg", "call.close"} \subseteq CallAts
    /\ "call.arg" \in OperandAts
BY DEF Same, Alike, Labels, PrimaryAts, StartAts, TensorAts, CallAts, RhsAts, ExpressionAts, DeclAts,
       ReturnAts, ParamAts, BlockAts, StructAts, ModuleAts, OperandAts, TakingAts

(* The steps of a function that took an argument.                          *)
LEMMA ArgumentSteps ==
    ASSUME NEW S, Ready(S), After("call.arg"), ParseIdentifierExpr
    PROVE  Goes(S) \/ Enters(S) \/ Leaves(S)
<1>0. /\ Top.at = "call.arg" /\ Top \in Frames(S) /\ Stage(Top) /\ Tree(S)
      /\ ret # << >> /\ Value \in S /\ tok \in Tokens /\ Top.at \notin ReturnAts
  BY Getting, CallPlaces
<1> DEFINE f == [Top EXCEPT !.items = Append(@, Value)]
           h == [f EXCEPT !.at = "call.close"]
<1>1. f \in Frames(S) /\ Adds(Top, f, "call.arg", Value)
  BY <1>0 DEF Frames, Adds
<1>2. h \in Frames(S) /\ Adds(Top, h, "call.close", Value)
  <2>1. "call.close" \in Labels
    BY CallPlaces DEF Same, Alike
  <2> QED BY <1>1, <2>1 DEF Frames, Adds
<1>3. CASE Value = Null /\ Give(Null)
  BY <1>0, <1>3, PassNull
<1>4. CASE Fail
  BY <1>0, <1>4, FailLeaves
<1>5. CASE Value # Null /\ tok = ")" /\ Goto(h) /\ UNCHANGED Input /\ Quiet
  <2> HIDE DEF f, h
  <2>1. Holds("call.close", Value)
    BY <1>5, CallPlaces DEF Holds
  <2>2. Alike(Top.at, "call.close")
    BY <1>0, CallPlaces DEF Same
  <2>3. Stage(h) /\ Continues(Top, h)
    BY <1>0, <1>2, <2>1, <2>2, AddedStage
  <2>4. h.at = "call.close" /\ tok' = tok /\ Reads
    BY <1>2, <1>5 DEF Adds, Input, Reads
  <2>5. Facing(h, tok')
    BY <1>5, <2>4 DEF Facing
  <2> QED BY <1>0, <1>2, <1>5, <2>3, <2>4, <2>5 DEF Goes
<1>6. CASE Value # Null /\ tok = Comma /\ CallAt(f, Expression) /\ Consume /\ Quiet
  <2> HIDE DEF f, h
  <2>1. Holds("call.arg", Value)
    BY <1>6, CallPlaces DEF Holds
  <2>2. Alike(Top.at, "call.arg")
    BY <1>0, CallPlaces DEF Same
  <2>3. Stage(f) /\ Continues(Top, f)
    BY <1>0, <1>1, <2>1, <2>2, AddedStage
  <2>4. /\ Expression \in Frames(S) /\ Stage(Expression) /\ Expression.at = "expression"
        /\ Calls(Moved("call.arg"), Expression)
    BY <1>0, CallPlaces, ExpressionCall
  <2>5. Calls(f, Expression)
    <3>1. f.at = "call.arg" /\ Expression.at \in ExpressionAts
      BY <1>1, <2>4 DEF Adds, ExpressionAts
    <3> QED BY <3>1, CallPlaces DEF Calls, FirstAts
  <2>6. Facing(Expression, tok') /\ Reads
    BY <1>6, <2>4, Punctuation DEF Facing, TakingAts, Reads
  <2> QED BY <1>1, <1>6, <2>3, <2>4, <2>5, <2>6 DEF Enters
<1> QED BY <1>0, <1>3, <1>4, <1>5, <1>6 DEF ParseIdentifierExpr, At, After

(* parseIdentifierExpr.                                                    *)
LEMMA IdentifierSteps ==
    ASSUME NEW S, Ready(S), ParseIdentifierExpr
    PROVE  Steps(S)
<1>1. CASE At("identifier") /\ TakeName("identifier.next")
  <2>1. Top.at = "identifier" /\ tok # "eof" /\ Top.at \notin ModuleAts
    BY <1>1, Standing, CallPlaces DEF Facing
  <2> QED BY <1>1, <2>1, CallPlaces, TakingName DEF Steps
<1>2. CASE At("identifier.next")
  <2>1. /\ Top.at = "identifier.next" /\ Top.at \notin ModuleAts /\ Top.at \in StartAts
        /\ Top \in Frames(S) /\ Tree(S)
    BY <1>2, Standing, CallPlaces
  <2>2. CASE Give(Node("variable", Top.name, << >>))
    <3> DEFINE k == "variable"
               cs == << >>
               x == Node(k, Top.name, cs)
               T == S \cup {x}
    <3>1. /\ k \in PlainKinds
          /\ k # "print" /\ cs \in Seq(S) /\ \A n \in DOMAIN cs : cs[n] # Null
          /\ k \in PrimaryKinds
      BY DEF PrimaryKinds, PlainKinds
    <3>2. Give(x)
      BY <2>2
    <3> HIDE DEF k, cs
    <3>3. Tree(T) /\ S \subseteq T /\ x \in T /\ x # Null /\ x.k = k
      BY <2>1, <3>1, PlainTree
    <3> HIDE DEF x, T
    <3>4. Gives(Top, x, tok)
      BY <2>1, <3>1, <3>3, CallPlaces, GivesPrimary
    <3>5. Leaves(S)
      BY <3>2, <3>3, <3>4, GiveLeaves
    <3> QED BY <2>1, <3>5 DEF Steps
  <2>3. CASE tok = "(" /\ Take("call.first")
    <3>1. /\ "call.first" \in Labels /\ Stage(Moved("call.first"))
          /\ Continues(Top, Moved("call.first"))
      BY <2>1, EmptyOnward
    <3>2. Goes(S)
      BY <2>3, <3>1, CallPlaces, TakeGoes
    <3> QED BY <2>1, <3>2 DEF Steps
  <2> QED BY <1>2, <2>1, <2>2, <2>3 DEF ParseIdentifierExpr, At, After
<1>3. CASE At("call.first")
  <2>1. Top.at = "call.first" /\ Top.at \notin ModuleAts /\ Top \in Frames(S) /\ Tree(S)
    BY <1>3, Standing, CallPlaces
  <2>2. CASE tok = ")" /\ Stay("call.close")
    BY <2>1, <2>2, CallPlaces, Staying DEF Steps
  <2>3. CASE Calling("call.arg", Expression)
    <3>4. Enters(S)
      BY <2>1, <2>3, CallPlaces, CallingExpression
    <3> QED BY <2>1, <3>4 DEF Steps
  <2> QED BY <1>3, <2>1, <2>2, <2>3 DEF ParseIdentifierExpr, At, After
<1>4. CASE After("call.arg")
  <2>1. Top.at \notin ModuleAts
    BY <1>4, Getting, CallPlaces
  <2> QED BY <1>4, <2>1, ArgumentSteps DEF Steps
<1>5. CASE At("call.close")
  <2>1. /\ Top.at = "call.close" /\ tok # "eof" /\ Top.at \notin ModuleAts
        /\ Top \in Frames(S) /\ Tree(S) /\ Stage(Top)
    BY <1>5, Standing, CallPlaces DEF Facing
  <2> DEFINE cs == Top.items
             wrong == Top.name = "print" /\ Len(Top.items) # 1
             k == IF Top.name = "print" THEN "print" ELSE "call"
             w == Top.name
             x == Node(k, w, cs)
             v == IF wrong THEN Null ELSE x
             T == IF wrong THEN S ELSE S \cup {x}
  <2>2. /\ Consume /\ Return(v) /\ diag' = (diag \/ wrong)
        /\ UNCHANGED <<scenario, structs, status, module>>
    BY <1>5, <2>1, Zenon DEF ParseIdentifierExpr, At, After, Others
  <2>3. cs \in Seq(S) /\ \A n \in DOMAIN cs : cs[n] # Null
    BY <2>1, CallPlaces DEF Frames, Stage
  <2>4. Tree(T) /\ S \subseteq T /\ v \in T /\ (v = Null <=> wrong) /\ v.k \in PrimaryKinds
    <3>1. CASE wrong
      BY <2>1, <3>1, NullParts DEF Tree, PrimaryKinds
    <3>2. CASE ~ wrong
      <4>1. /\ k \in PlainKinds
            /\ k \in PrimaryKinds
            /\ k = "print" => Len(cs) = 1
        BY <3>2 DEF PrimaryKinds, PlainKinds
      <4>2. v = x /\ T = S \cup {x}
        BY <3>2
      <4> HIDE DEF k, cs, w
      <4>3. Tree(S \cup {x}) /\ S \subseteq S \cup {x} /\ x \in S \cup {x} /\ x # Null /\ x.k = k
        BY <2>1, <2>3, <4>1, PlainTree
      <4> HIDE DEF x, v, T, wrong
      <4> QED BY <3>2, <4>1, <4>2, <4>3
    <3> QED BY <3>1, <3>2
  <2>5. structs' \subseteq Identifiers /\ diag' \in BOOLEAN /\ (diag => diag') /\ (v = Null => diag')
    BY <2>2, <2>4 DEF Ready, FlagsOK
  <2> HIDE DEF v, T, wrong, cs, k, w, x
  <2>6. Gives(Top, v, tok') /\ Reads
    BY <2>1, <2>2, <2>4, CallPlaces, GivesPrimary DEF Reads
  <2>7. Leaves(S)
    BY <2>2, <2>4, <2>5, <2>6 DEF Leaves
  <2> QED BY <2>1, <2>7 DEF Steps
<1> QED BY <1>1, <1>2, <1>3, <1>4, <1>5 DEF ParseIdentifierExpr
(* A literal that is finished has one shape.                               *)
LEMMA LiteralTree ==
    ASSUME NEW S, Tree(S), NEW items \in Seq(S), items # << >>,
           \A n \in DOMAIN items : items[n].k \in {"num", "tensor"},
           FinishTensor(items) = "literal"
    PROVE  LET x == Literal(items)
           IN  /\ Tree(S \cup {x}) /\ S \subseteq S \cup {x} /\ x \in S \cup {x}
               /\ x # Null /\ x.k = "tensor"
<1> DEFINE x == Literal(items)
           below == IF IsLiteral(items[1]) THEN items[1].dims ELSE << >>
<1>1. \/ \A n \in DOMAIN items : ~ IsLiteral(items[n])
      \/ \A n \in DOMAIN items : IsLiteral(items[n]) /\ items[n].dims = items[1].dims
  <2> DEFINE nested == \E n \in DOMAIN items : IsLiteral(items[n])
             odd == {n \in DOMAIN items : ~ IsLiteral(items[n]) \/ ~ items[n].dims = items[1].dims}
             rest == IF /\ IsLiteral(items[1])
                        /\ ~ IsLiteral(items[CHOOSE n \in odd : \A m \in odd : n <= m])
                     THEN "abort" ELSE "error"
  <2>1. FinishTensor(items) = IF ~ nested \/ odd = {} THEN "literal" ELSE rest
    BY DEF FinishTensor
  <2>2. rest # "literal"
    OBVIOUS
  <2> HIDE DEF rest
  <2>3. ~ nested \/ odd = {}
    BY <2>1, <2>2
  <2> QED BY <2>3
<1>2. 1 \in DOMAIN items /\ Len(items) \in Nat
  OBVIOUS
<1>3. \A n \in DOMAIN items : items[n] \in S /\ Built(items[n])
  BY DEF Tree
<1>4. \A n \in DOMAIN items : items[n].dims = below
  <2>1. CASE \A n \in DOMAIN items : ~ IsLiteral(items[n])
    <3>1. \A n \in DOMAIN items : items[n].k = "num"
      BY <2>1 DEF IsLiteral
    <3>2. \A n \in DOMAIN items : items[n].dims = << >>
      BY <1>3, <3>1 DEF Built
    <3> QED BY <1>2, <2>1, <3>2
  <2>2. CASE \A n \in DOMAIN items : IsLiteral(items[n]) /\ items[n].dims = items[1].dims
    BY <1>2, <2>2
  <2> QED BY <1>1, <2>1, <2>2
<1>5. below \in Seq(Nat)
  BY <1>2, <1>3 DEF Built, InGrammar
<1>6. x.k = "tensor" /\ x.c = items /\ x.dims = <<Len(items)>> \o below
  BY DEF Literal, SizedNode
<1> HIDE DEF x, below
<1>7. x.dims \in Seq(Nat) /\ Len(x.c) = Head(x.dims) /\ Tail(x.dims) = below
  BY <1>2, <1>5, <1>6
<1>8. \A n \in DOMAIN items : items[n] # Null
  BY NullParts
<1>9. x # Null
  BY <1>6, NullParts
<1>10. Built(x)
  BY <1>4, <1>6, <1>7, <1>8 DEF Built, InGrammar
<1>11. Tree(S \cup {x}) /\ S \subseteq S \cup {x} /\ x \in S \cup {x}
  BY <1>6, <1>10, OneMore
<1> QED BY <1>6, <1>9, <1>11 DEF x

(* Where a literal is read.                                                *)
LEMMA TensorPlaces ==
    /\ Same("tensor", "tensor.element") /\ Same("tensor.element", "tensor.nested")
    /\ Alike("tensor.element", "tensor.separator") /\ Alike("tensor.nested", "tensor.separator")
    /\ Same("tensor.separator", "tensor.element") /\ Same("tensor.separator", "tensor.finish")
    /\ TensorAts \cap (ModuleAts \cup ReturnAts \cup CallAts \cup ParamAts \cup StructAts \cup
           BlockAts \cup StartAts \cup FirstAts \cup OperandAts \cup RhsAts) = {}
    /\ TensorAts \cap TakingAts = {"tensor"}
    /\ TensorAts \subseteq PrimaryAts /\ PrimaryAts \subseteq Labels
    /\ {"tensor", "tensor.element", "tensor.nested", "tensor.separator", "tensor.finish"} = TensorAts
    /\ "rhs" \notin TensorAts
BY DEF Same, Alike, Labels, PrimaryAts, StartAts, TensorAts, CallAts, RhsAts, ExpressionAts, DeclAts,
       ReturnAts, ParamAts, BlockAts, StructAts, ModuleAts, OperandAts, FirstAts, TakingAts

(* A value is taken to the list.                                           *)
LEMMA ElementGoes ==
    ASSUME NEW S, Ready(S), NEW T, Tree(T), S \subseteq T, NEW v \in T, v.k \in {"num", "tensor"},
           Top.at \in {"tensor.element", "tensor.nested"},
           Goto([Moved("tensor.separator") EXCEPT !.items = Append(@, v)]), Reads, Quiet
    PROVE  Goes(S)
<1> DEFINE l == "tensor.separator"
           h == [Moved(l) EXCEPT !.items = Append(@, v)]
<1>1. Top \in Frames(T) /\ Stage(Top)
  BY BottomIsModule, MoreTrees DEF Ready
<1>2. l \in Labels /\ l \notin TakingAts /\ l # "rhs"
  BY TensorPlaces
<1>3. Alike(Top.at, l)
  BY TensorPlaces
<1>4. Holds(l, v)
  BY TensorPlaces DEF Holds
<1>0. Goto(h)
  OBVIOUS
<1> HIDE DEF l
<1>5. h \in Frames(T) /\ Adds(Top, h, l, v)
  BY <1>1, <1>2, AddedFields DEF Moved
<1> HIDE DEF h
<1>6. Stage(h) /\ Continues(Top, h)
  BY <1>1, <1>3, <1>4, <1>5, AddedStage
<1>7. Facing(h, tok')
  BY <1>2, <1>5 DEF Facing, Adds
<1> QED BY <1>0, <1>5, <1>6, <1>7 DEF Goes

(* parseTensorLiteralExpr.                                                 *)
LEMMA TensorSteps ==
    ASSUME NEW S, Ready(S), ParseTensorLiteralExpr
    PROVE  Steps(S)
<1>1. CASE At("tensor") /\ Take("tensor.element")
  <2>1. Top.at = "tensor" /\ tok # "eof" /\ Top.at \notin ModuleAts
    BY <1>1, Standing, TensorPlaces DEF Facing
  <2>2. "tensor.element" \notin TakingAts
    BY TensorPlaces
  <2> QED BY <1>1, <2>1, <2>2, TensorPlaces, Taking DEF Steps
<1>2. CASE At("tensor.element")
  <2>1. /\ Top.at = "tensor.element" /\ Top.at \notin ModuleAts /\ Top.at \notin ReturnAts
        /\ Tree(S)
    BY <1>2, Standing, TensorPlaces
  <2>2. CASE tok = "[" /\ Calling("tensor.nested", Frame("tensor"))
    <3> DEFINE l == "tensor.nested"
               k == "tensor"
    <3>1. /\ k \in Labels /\ k \notin {"tensor.separator", "tensor.finish"} \cup RhsAts \cup BlockAts
          /\ k \in TensorAts /\ k \notin StructAts
          /\ l \notin FirstAts /\ l \notin OperandAts
          /\ l \notin {"module.record", "block.done", "struct.next"}
          /\ Same(Top.at, l)
      BY <2>1, TensorPlaces
    <3>2. l = "tensor.nested"
      OBVIOUS
    <3> HIDE DEF k, l
    <3>3. /\ Frame(k) \in Frames(S) /\ Stage(Frame(k)) /\ Frame(k).at = k
          /\ Calls(Moved(l), Frame(k))
      BY <3>1, <3>2, StartingCall
    <3>4. l \in Labels /\ Stage(Moved(l)) /\ Continues(Top, Moved(l))
      BY <3>1, Onward
    <3>5. Facing(Frame(k), tok)
      BY <2>2, <3>3 DEF Facing, k
    <3>6. Calling(l, Frame(k))
      BY <2>2 DEF k, l
    <3>7. Enters(S)
      BY <3>3, <3>4, <3>5, <3>6, CallEnters
    <3> QED BY <2>1, <3>7 DEF Steps
  <2>3. CASE /\ tok = "num" /\ Consume /\ Quiet
             /\ Goto([Moved("tensor.separator") EXCEPT !.items = Append(@, Num)])
    <3> DEFINE T == S \cup {Num}
    <3>1. Tree(T) /\ S \subseteq T /\ Num \in T /\ Num.k = "num"
      BY <2>1, NumberTree
    <3> HIDE DEF T
    <3>2. Reads
      BY <2>3 DEF Reads
    <3>3. Goes(S)
      BY <2>1, <2>3, <3>1, <3>2, ElementGoes
    <3> QED BY <2>1, <3>3 DEF Steps
  <2>4. CASE Fail
    BY <2>1, <2>4, FailLeaves DEF Steps
  <2> QED BY <1>2, <2>1, <2>2, <2>3, <2>4 DEF ParseTensorLiteralExpr, At, After
<1>3. CASE After("tensor.nested")
  <2>1. /\ Top.at = "tensor.nested" /\ Top.at \notin ModuleAts /\ Top.at \notin ReturnAts
        /\ Tree(S) /\ ret # << >> /\ Value \in S /\ Gets(Top, Value, tok)
    BY <1>3, Getting, TensorPlaces
  <2>2. CASE Value = Null /\ Give(Null)
    BY <2>1, <2>2, PassNull DEF Steps
  <2>3. CASE /\ Value # Null /\ UNCHANGED Input /\ Quiet
             /\ Goto([Moved("tensor.separator") EXCEPT !.items = Append(@, Value)])
    <3>1. Value.k = "tensor"
      <4>1. Built(Value) /\ Value.k \in {"null", "tensor"}
        BY <2>1 DEF Gets, Tree
      <4> QED BY <2>3, <4>1 DEF Built
    <3>2. Reads
      BY <2>3 DEF Reads
    <3>3. Goes(S)
      BY <2>1, <2>3, <3>1, <3>2, ElementGoes
    <3> QED BY <2>1, <3>3 DEF Steps
  <2> QED BY <1>3, <2>1, <2>2, <2>3 DEF ParseTensorLiteralExpr, At, After
<1>4. CASE At("tensor.separator")
  <2>1. /\ Top.at = "tensor.separator" /\ Top.at \notin ModuleAts /\ Top.at \notin ReturnAts
    BY <1>4, Standing, TensorPlaces
  <2>2. /\ "tensor.element" \notin TakingAts /\ "tensor.finish" \notin TakingAts
        /\ Same(Top.at, "tensor.element") /\ Same(Top.at, "tensor.finish")
    BY <2>1, TensorPlaces
  <2>3. CASE tok = Comma /\ Take("tensor.element")
    <3>1. tok # "eof"
      BY <2>3, Punctuation
    <3> QED BY <2>1, <2>2, <2>3, <3>1, Taking DEF Steps
  <2>4. CASE tok = "]" /\ Take("tensor.finish")
    BY <2>1, <2>2, <2>4, Taking DEF Steps
  <2>5. CASE Fail
    BY <2>1, <2>5, FailLeaves DEF Steps
  <2> QED BY <1>4, <2>1, <2>3, <2>4, <2>5 DEF ParseTensorLiteralExpr, At, After
<1>5. CASE At("tensor.finish")
  <2>1. /\ Top.at = "tensor.finish" /\ Top.at \notin ModuleAts /\ Top.at \notin ReturnAts
        /\ Top.at \in PrimaryAts
        /\ Top \in Frames(S) /\ Tree(S) /\ Stage(Top)
    BY <1>5, Standing, TensorPlaces
  <2>2. CASE FinishTensor(Top.items) = "literal" /\ Give(Literal(Top.items))
    <3> DEFINE items == Top.items
               x == Literal(items)
               T == S \cup {x}
    <3>1. /\ items \in Seq(S) /\ items # << >>
          /\ \A n \in DOMAIN items : items[n].k \in {"num", "tensor"}
      BY <2>1 DEF Frames, Stage, TensorAts
    <3>2. Give(x) /\ FinishTensor(items) = "literal"
      BY <2>2
    <3> HIDE DEF items
    <3>3. Tree(T) /\ S \subseteq T /\ x \in T /\ x # Null /\ x.k = "tensor"
      BY <2>1, <3>1, <3>2, LiteralTree
    <3> HIDE DEF x, T
    <3>4. Gives(Top, x, tok)
      BY <2>1, <3>3, GivesPrimary DEF PrimaryKinds
    <3>5. Leaves(S)
      BY <3>2, <3>3, <3>4, GiveLeaves
    <3> QED BY <2>1, <3>5 DEF Steps
  <2>3. CASE Fail
    BY <2>1, <2>3, FailLeaves DEF Steps
  <2>4. CASE Abort
    BY <2>1, <2>4 DEF Steps
  <2> QED BY <1>5, <2>1, <2>2, <2>3, <2>4 DEF ParseTensorLiteralExpr, At, After
<1> QED BY <1>1, <1>2, <1>3, <1>4, <1>5 DEF ParseTensorLiteralExpr
(* Where a struct literal is read.                                         *)
LEMMA StructLiteralPlaces ==
    /\ Same("struct_literal", "struct_literal.loop")
    /\ Same("struct_literal.loop", "struct_literal.value")
    /\ Alike("struct_literal.value", "struct_literal.loop")
    /\ {"struct_literal", "struct_literal.loop", "struct_literal.value"} \cap
           (ModuleAts \cup ReturnAts \cup TensorAts) = {}
    /\ {"struct_literal", "struct_literal.loop"} \subseteq PrimaryAts
    /\ "struct_literal" \in TakingAts
    /\ "struct_literal.value" \in OperandAts
    /\ "struct_literal.loop" \notin TakingAts \cup TensorAts \cup CallAts \cup RhsAts \cup
           ParamAts \cup StructAts \cup BlockAts \cup StartAts
    /\ "struct_literal.loop" \notin {"rhs", "rhs.operand", "rhs.merge"}
BY DEF Same, Alike, Labels, PrimaryAts, StartAts, TensorAts, CallAts, RhsAts, ExpressionAts, DeclAts,
       ReturnAts, ParamAts, BlockAts, StructAts, ModuleAts, OperandAts, TakingAts

(* The frame with the value it was given.                                  *)
LEMMA CollectedFrame ==
    ASSUME NEW S, Ready(S), After("struct_literal.value")
    PROVE  LET f == [Moved("struct_literal.loop") EXCEPT !.items = Collected(@, Value)]
           IN  /\ f \in Frames(S) /\ Stage(f) /\ Continues(Top, f)
               /\ \A t : Facing(f, t)
<1> DEFINE l == "struct_literal.loop"
           m == Moved(l)
           f == [m EXCEPT !.items = Collected(@, Value)]
<1>1. /\ Top.at = "struct_literal.value" /\ Top \in Frames(S) /\ Value \in S
  BY Getting
<1>2. l \in Labels
  BY StructLiteralPlaces DEF Alike
<1>3. /\ m \in Frames(S) /\ m.at = l /\ m.prec = Top.prec /\ m.req = Top.req
  BY <1>1, <1>2, MovedFields DEF Moved
<1>4. Alike(Top.at, l) /\ l \notin TakingAts \cup TensorAts \cup CallAts \cup RhsAts \cup
          ParamAts \cup StructAts \cup BlockAts \cup StartAts
      /\ l \notin {"rhs", "rhs.operand", "rhs.merge", "tensor.separator", "tensor.finish"}
  BY <1>1, StructLiteralPlaces
<1> HIDE DEF m, l
<1>5. Collected(m.items, Value) \in Seq(S)
  BY <1>1, <1>3 DEF Collected, Frames
<1>6. f \in Frames(S) /\ f.at = l /\ f.prec = Top.prec /\ f.req = Top.req
  BY <1>3, <1>5 DEF Frames
<1> HIDE DEF f
<1>7. Stage(f) /\ \A t : Facing(f, t)
  BY <1>4, <1>6 DEF Stage, Facing
<1>8. Continues(Top, f)
  BY <1>4, <1>6 DEF Continues, Alike
<1> QED BY <1>6, <1>7, <1>8 DEF f, m, l

(* A struct literal, with the values it holds.                             *)
LEMMA StructLiteralLeaves ==
    ASSUME NEW S, Ready(S), Top.at = "struct_literal.loop", NEW cs \in Seq(S),
           TakeGive(Node("struct_literal", NoName, cs)), tok # "eof"
    PROVE  Leaves(S)
<1> DEFINE k == "struct_literal"
           x == Node(k, NoName, cs)
           T == S \cup {x}
<1>1. /\ k \in PlainKinds
      /\ k # "print" /\ k \in {"struct_literal", "return"} /\ k = "struct_literal" /\ TakeGive(x)
  BY DEF PlainKinds
<1>2. Tree(S) /\ Top.at \in PrimaryAts /\ Top.at \notin TensorAts
  BY StructLiteralPlaces DEF Ready
<1> HIDE DEF k
<1>3. Tree(T) /\ S \subseteq T /\ x \in T /\ x # Null /\ x.k = k
  BY <1>1, <1>2, PlainTree
<1> HIDE DEF x, T
<1>4. Gives(Top, x, tok')
  <2>1. k \in PrimaryKinds
    BY <1>1 DEF PrimaryKinds
  <2> QED BY <1>2, <1>3, <2>1, GivesPrimary
<1> QED BY <1>1, <1>3, <1>4, TakeGiveLeaves

(* parseStructLiteralExpr.                                                 *)
LEMMA StructLiteralSteps ==
    ASSUME NEW S, Ready(S), ParseStructLiteralExpr
    PROVE  Steps(S)
<1>1. CASE At("struct_literal") /\ Take("struct_literal.loop")
  <2>1. Top.at = "struct_literal" /\ tok # "eof" /\ Top.at \notin ModuleAts
    BY <1>1, Standing, StructLiteralPlaces DEF Facing
  <2> QED BY <1>1, <2>1, StructLiteralPlaces, Taking DEF Steps
<1>2. CASE At("struct_literal.loop")
  <2>1. /\ Top.at = "struct_literal.loop" /\ Top.at \notin ModuleAts /\ Top.at \notin TensorAts
        /\ Top.at \in PrimaryAts /\ Top \in Frames(S) /\ Tree(S)
    BY <1>2, Standing, StructLiteralPlaces
  <2>2. CASE tok = CloseBrace /\ TakeGive(Node("struct_literal", NoName, Top.items))
    <3>1. Top.items \in Seq(S) /\ tok # "eof"
      BY <2>1, <2>2, Punctuation DEF Frames
    <3>2. Leaves(S)
      BY <2>1, <2>2, <3>1, StructLiteralLeaves
    <3> QED BY <2>1, <3>2 DEF Steps
  <2>3. CASE Calling("struct_literal.value", Expression)
    BY <2>1, <2>3, StructLiteralPlaces, CallingExpression DEF Steps
  <2> QED BY <1>2, <2>1, <2>2, <2>3 DEF ParseStructLiteralExpr, At, After
<1>3. CASE After("struct_literal.value")
  <2> DEFINE f == [Moved("struct_literal.loop") EXCEPT !.items = Collected(@, Value)]
  <2>1. /\ Top.at = "struct_literal.value" /\ Top.at \notin ModuleAts /\ Top.at \notin ReturnAts
        /\ Tree(S)
    BY <1>3, Getting, StructLiteralPlaces
  <2>2. f \in Frames(S) /\ Stage(f) /\ Continues(Top, f) /\ Facing(f, tok')
    BY <1>3, CollectedFrame
  <2>3. CASE tok = Comma /\ Goto(f) /\ Consume /\ Quiet
    <3>1. Reads
      BY <2>3, Punctuation DEF Reads
    <3> QED BY <2>1, <2>2, <2>3, <3>1 DEF Goes, Steps
  <2>4. CASE Fail
    BY <2>1, <2>4, FailLeaves DEF Steps
  <2>5. CASE Goto(f) /\ UNCHANGED Input /\ Quiet
    <3>1. Reads
      BY <2>5 DEF Reads
    <3> QED BY <2>1, <2>2, <2>5, <3>1 DEF Goes, Steps
  <2> HIDE DEF f
  <2>6. \/ tok = Comma /\ Goto(f) /\ Consume /\ Quiet
        \/ Fail
        \/ Goto(f) /\ UNCHANGED Input /\ Quiet
    BY <1>3, <2>1 DEF ParseStructLiteralExpr, At, After, f
  <2> QED BY <2>3, <2>4, <2>5, <2>6
<1> QED BY <1>1, <1>2, <1>3 DEF ParseStructLiteralExpr
(* Where operators are read.                                               *)
LEMMA OperatorPlaces ==
    /\ {"rhs", "rhs.operand", "rhs.merge"} = RhsAts /\ RhsAts \subseteq ExpressionAts
    /\ {"expression", "expression.rhs"} \subseteq ExpressionAts
    /\ ExpressionAts \subseteq Labels /\ "primary" \in PrimaryAts
    /\ "primary" \notin {"tensor.separator", "tensor.finish"} \cup RhsAts \cup BlockAts \cup TakingAts
    /\ "primary" \in Labels /\ "primary" \notin StructAts
    /\ ExpressionAts \cap (ModuleAts \cup ReturnAts \cup PrimaryAts \cup TensorAts \cup CallAts \cup
           DeclAts \cup ParamAts \cup StructAts \cup BlockAts \cup StartAts \cup TakingAts \cup OperandAts) = {}
    /\ Same("expression", "expression.rhs")
    /\ {"expression.rhs", "rhs.operand"} = FirstAts
BY DEF Same, Alike, Labels, PrimaryAts, StartAts, TensorAts, CallAts, RhsAts, ExpressionAts, DeclAts,
       ReturnAts, ParamAts, BlockAts, StructAts, ModuleAts, OperandAts, TakingAts, FirstAts

(* A frame of the loop over operators, at l with the operand lhs and the   *)
(* operator op, of a call with the precedence prec.                        *)
InLoop(f, l, lhs, op, prec, req) ==
    f.at = l /\ f.lhs = lhs /\ f.op = op /\ f.prec = prec /\ f.req = req

(* What it has to hold.                                                    *)
LEMMA LoopStage ==
    ASSUME NEW f, NEW l \in RhsAts, NEW lhs, NEW op, NEW prec, NEW req,
           InLoop(f, l, lhs, op, prec, req),
           lhs.k \in Kinds, lhs # Null, lhs.k = "binary" => Prec(lhs.name) >= prec,
           l # "rhs" =>
               Prec(op) >= prec /\ (lhs.k = "binary" => Prec(lhs.name) >= Prec(op))
    PROVE  Stage(f)
<1>1. f.at = l /\ l \in ExpressionAts
  BY OperatorPlaces DEF InLoop
<1>2. /\ f.at \notin StartAts /\ f.at \notin TensorAts /\ f.at \notin {"tensor.separator", "tensor.finish"}
      /\ f.at \notin CallAts /\ f.at \notin ParamAts \cup StructAts /\ f.at \notin BlockAts
  BY <1>1, OperatorPlaces, TensorPlaces
<1>3. f.lhs = lhs /\ f.op = op /\ f.prec = prec
  BY DEF InLoop
<1> QED BY <1>1, <1>2, <1>3 DEF Stage

(* A step of the loop stays in it.                                         *)
LEMMA LoopContinues ==
    ASSUME NEW f, NEW g, f.at \in ExpressionAts, g.at \in RhsAts, g.prec = f.prec, g.req = f.req
    PROVE  Continues(f, g)
<1>1. /\ f.at \notin PrimaryAts /\ f.at \notin TensorAts /\ f.at \notin DeclAts
      /\ f.at \notin ReturnAts /\ f.at \notin ParamAts \cup BlockAts /\ f.at \notin StructAts
      /\ f.at \notin ModuleAts /\ g.at \in ExpressionAts
  BY OperatorPlaces
<1> QED BY <1>1 DEF Continues

(* An operator with its operands.                                          *)
LEMMA BinaryTree ==
    ASSUME NEW S, Tree(S), NEW op, NEW a \in S, NEW b \in S, a # Null, b # Null,
           a.k = "binary" => Prec(a.name) >= Prec(op), b.k = "binary" => Prec(b.name) > Prec(op)
    PROVE  LET x == Node("binary", op, <<a, b>>)
           IN  /\ Tree(S \cup {x}) /\ S \subseteq S \cup {x} /\ x \in S \cup {x}
               /\ x # Null /\ x.k = "binary" /\ x.name = op
<1> DEFINE cs == <<a, b>>
           x == Node("binary", op, cs)
<1>1. x.k = "binary" /\ x.c = cs /\ x.name = op /\ x.dims = << >>
  BY DEF Node, SizedNode
<1>2. cs \in Seq(S) /\ Len(cs) = 2 /\ cs[1] = a /\ cs[2] = b /\ \A n \in DOMAIN cs : cs[n] # Null
  OBVIOUS
<1> HIDE DEF x, cs
<1>3. x # Null
  BY <1>1, NullParts
<1>4. Built(x)
  BY <1>1, <1>2 DEF Built, InGrammar, IsLiteral
<1>5. Tree(S \cup {x}) /\ S \subseteq S \cup {x} /\ x \in S \cup {x}
  BY <1>1, <1>2, <1>4, OneMore
<1> QED BY <1>1, <1>3, <1>5 DEF x, cs

(* The loop goes round with the operand it has merged.                     *)
LEMMA MergedGoes ==
    ASSUME NEW S, Ready(S), Top.at \in {"rhs.operand", "rhs.merge"}, Value \in S, Value # Null,
           Value.k = "binary" => Prec(Value.name) > Prec(Top.op), Prec(tok) <= Prec(Top.op),
           Goto([Moved("rhs") EXCEPT !.lhs = Merged(Value)]), UNCHANGED Input, Quiet
    PROVE  Goes(S)
<1> DEFINE op == Top.op
           lhs == Top.lhs
           v == Value
           x == Node("binary", op, <<lhs, v>>)
           T == S \cup {x}
           m == Moved("rhs")
           h == [m EXCEPT !.lhs = x]
<1>1. Tree(S) /\ Top \in Frames(S) /\ Stage(Top)
  BY BottomIsModule DEF Ready
<1>2. /\ lhs \in S /\ lhs # Null /\ (lhs.k = "binary" => Prec(lhs.name) >= Prec(op))
      /\ Prec(op) >= Top.prec /\ Top.prec \in Nat
  BY <1>1 DEF Stage, RhsAts, Frames
<1>3. Goto(h) /\ v \in S /\ v # Null /\ (v.k = "binary" => Prec(v.name) > Prec(op))
  BY DEF Merged
<1>4. "rhs" \in Labels /\ "rhs" \in RhsAts /\ Top.at \in ExpressionAts /\ "rhs" \notin TakingAts
  BY OperatorPlaces
<1>5. m \in Frames(S) /\ m.at = "rhs" /\ m.op = op /\ m.prec = Top.prec /\ m.req = Top.req
  BY <1>1, <1>4, MovedFields DEF Moved
<1>6. tok' = tok /\ Prec(tok) <= Prec(op) /\ Reads
  BY DEF Input, Reads
<1> HIDE DEF op, lhs, v, m
<1>7. Tree(T) /\ S \subseteq T /\ x \in T /\ x # Null /\ x.k = "binary" /\ x.name = op
  BY <1>1, <1>2, <1>3, BinaryTree
<1> HIDE DEF x, T
<1>8. h \in Frames(T) /\ h.at = "rhs" /\ h.lhs = x /\ h.op = op /\ h.prec = Top.prec /\ h.req = Top.req
  <2>1. m \in Frames(T)
    BY <1>5, <1>7, MoreTrees
  <2> QED BY <1>5, <1>7, <2>1 DEF Frames
<1> HIDE DEF h
<1>9. Stage(h)
  <2> DEFINE l == "rhs"
             prec == Top.prec
             req == Top.req
  <2>1. InLoop(h, l, x, op, prec, req) /\ x.k \in Kinds /\ l \in RhsAts /\ l = "rhs"
    BY <1>4, <1>7, <1>8 DEF InLoop, Kinds
  <2>2. Prec(x.name) >= prec
    BY <1>2, <1>7
  <2> HIDE DEF l, prec, req
  <2> QED BY <1>7, <2>1, <2>2, LoopStage
<1>10. Continues(Top, h)
  BY <1>4, <1>8, LoopContinues
<1>11. Facing(h, tok')
  <2>1. Prec(x.name) >= Prec(tok')
    BY <1>6, <1>7, PrecRange
  <2> QED BY <1>4, <1>8, <2>1 DEF Facing
<1> QED BY <1>3, <1>6, <1>7, <1>8, <1>9, <1>10, <1>11 DEF Goes
(* What the loop returns.                                                  *)
LEMMA LoopGives ==
    ASSUME NEW S, Ready(S), Top.at = "rhs", Prec(tok) < Top.prec
    PROVE  Gives(Top, Top.lhs, tok) /\ Top.lhs \in S /\ Top.lhs # Null
<1>1. Top \in Frames(S) /\ Stage(Top)
  BY BottomIsModule DEF Ready
<1>2. /\ Top.lhs \in S /\ Top.lhs # Null /\ Top.lhs.k \in Kinds
      /\ Top.lhs.k = "binary" => Prec(Top.lhs.name) >= Top.prec
  BY <1>1, OperatorPlaces DEF Stage, Frames
<1>3. /\ Top.at \in RhsAts /\ Top.at \in ExpressionAts
      /\ Top.at \notin PrimaryAts /\ Top.at \notin TensorAts /\ Top.at \notin DeclAts
      /\ Top.at \notin ReturnAts /\ Top.at \notin ParamAts \cup BlockAts /\ Top.at \notin StructAts
  BY OperatorPlaces
<1> QED BY <1>2, <1>3 DEF Gives

(* The loop calls for the operand of an operator.                          *)
LEMMA OperandEnters ==
    ASSUME NEW S, Ready(S), At("rhs"), Prec(tok) >= Top.prec, Consume, Quiet,
           CallAt([Moved("rhs.operand") EXCEPT !.op = tok], Frame("primary"))
    PROVE  Enters(S)
<1> DEFINE l == "rhs.operand"
           m == Moved(l)
           f == [m EXCEPT !.op = tok]
           k == "primary"
           g == Frame(k)
           lhs == Top.lhs
           prec == Top.prec
           req == Top.req
<1>1. /\ Tree(S) /\ Top \in Frames(S) /\ Stage(Top) /\ Top.at = "rhs" /\ Facing(Top, tok)
      /\ tok \in Words
  BY Standing DEF Words
<1>2. /\ l \in Labels /\ l \in RhsAts /\ Top.at \in ExpressionAts /\ k \in Labels
      /\ l \in FirstAts /\ k \in PrimaryAts /\ k \notin TakingAts
      /\ k \notin {"tensor.separator", "tensor.finish"} \cup RhsAts \cup BlockAts
      /\ k \notin StructAts
      /\ l \notin OperandAts /\ l \notin {"module.record", "block.done", "struct.next",
             "tensor.nested", "rhs.merge"} /\ k # "rhs"
  BY <1>1, OperatorPlaces
<1>3. /\ lhs.k \in Kinds /\ lhs # Null
      /\ lhs.k = "binary" => Prec(lhs.name) >= prec
      /\ lhs.k = "binary" => Prec(lhs.name) >= Prec(tok)
      /\ prec \in Nat
  BY <1>1, OperatorPlaces DEF Stage, Facing, Frames
<1>4. tok # "eof" /\ Reads
  <2>1. Prec("eof") = -1
    BY DEF Prec
  <2> QED BY <1>3, <2>1 DEF Reads
<1>5. m \in Frames(S) /\ m.at = l /\ m.lhs = lhs /\ m.prec = prec /\ m.req = req
  BY <1>1, <1>2, MovedFields DEF Moved
<1>6. CallAt(f, g)
  OBVIOUS
<1>7. g \in Frames(S) /\ g.at = k /\ g.items = << >>
  BY <1>1, <1>2, FrameFields
<1> HIDE DEF m, l, k, g
<1>8. f \in Frames(S) /\ InLoop(f, l, lhs, tok, prec, req)
  BY <1>1, <1>5 DEF Frames, InLoop
<1> HIDE DEF f, lhs, req
<1>9. Prec(tok) >= prec /\ f.at = l /\ f.prec = prec /\ f.req = req
  BY <1>8 DEF InLoop
<1> HIDE DEF prec
<1>10. Stage(f)
  BY <1>2, <1>3, <1>8, <1>9, LoopStage
<1>11. Continues(Top, f)
  BY <1>2, <1>9, LoopContinues DEF prec, req
<1>12. Stage(g)
  <2>1. k \notin {"rhs.operand", "rhs.merge"}
    BY <1>2 DEF RhsAts
  <2> QED BY <1>2, <1>7, <2>1 DEF Stage
<1>13. Calls(f, g)
  BY <1>2, <1>7, <1>9 DEF Calls
<1>14. Facing(g, tok')
  BY <1>2, <1>7 DEF Facing
<1> QED BY <1>4, <1>6, <1>7, <1>8, <1>10, <1>11, <1>12, <1>13, <1>14 DEF Enters

(* It calls itself for the operators that bind tighter.                    *)
LEMMA TighterEnters ==
    ASSUME NEW S, Ready(S), After("rhs.operand"), Value # Null, UNCHANGED Input, Quiet,
           CallAt(Moved("rhs.merge"),
                  [Frame("rhs") EXCEPT !.prec = Tighter(Top.op), !.lhs = Value])
    PROVE  Enters(S)
<1> DEFINE l == "rhs.merge"
           f == Moved(l)
           k == "rhs"
           b == Frame(k)
           op == Top.op
           v == Value
           p == Prec(op) + 1
           g == [b EXCEPT !.prec = p, !.lhs = v]
           lhs == Top.lhs
           prec == Top.prec
           req == Top.req
<1>1. /\ Tree(S) /\ Top \in Frames(S) /\ Stage(Top) /\ Top.at = "rhs.operand"
      /\ v \in S /\ v # Null /\ Gets(Top, v, tok)
  BY Getting
<1>2. /\ l \in Labels /\ l \in RhsAts /\ Top.at \in ExpressionAts /\ k \in Labels
      /\ k \in RhsAts /\ k \in ExpressionAts /\ k \notin TakingAts /\ Top.at \in FirstAts
      /\ l \notin OperandAts /\ l \notin FirstAts /\ l = "rhs.merge" /\ k = "rhs"
  BY <1>1, OperatorPlaces
<1>3. /\ lhs.k \in Kinds /\ lhs # Null
      /\ lhs.k = "binary" => Prec(lhs.name) >= prec
      /\ lhs.k = "binary" => Prec(lhs.name) >= Prec(op)
      /\ Prec(op) >= prec /\ prec \in Nat
  BY <1>1, OperatorPlaces DEF Stage, Frames
<1>4. v.k \in Kinds /\ v.k # "binary"
  BY <1>1, <1>2 DEF Gets, PrimaryKinds, Kinds
<1>5. f \in Frames(S) /\ f.at = l /\ f.lhs = lhs /\ f.op = op /\ f.prec = prec /\ f.req = req
  BY <1>1, <1>2, MovedFields DEF Moved
<1>6. CallAt(f, g)
  BY DEF Tighter
<1>7. b \in Frames(S) /\ b.at = k
  BY <1>1, <1>2, FrameFields
<1>8. p \in Nat
  BY <1>3, PrecRange
<1> HIDE DEF f, b, v
<1>9. g \in Frames(S) /\ g.at = k /\ g.prec = p /\ g.lhs = v
  BY <1>1, <1>7, <1>8 DEF Frames
<1> HIDE DEF g, lhs, req, prec
<1>10. Stage(f)
  <2>1. InLoop(f, l, lhs, op, prec, req)
    BY <1>5 DEF InLoop
  <2> HIDE DEF l, op
  <2> QED BY <1>2, <1>3, <2>1, LoopStage
<1>11. Stage(g)
  <2> DEFINE o == g.op
             r == g.req
  <2>1. InLoop(g, k, v, o, p, r)
    BY <1>9 DEF InLoop
  <2> HIDE DEF k, o, r, p
  <2> QED BY <1>1, <1>2, <1>4, <2>1, LoopStage
<1>12. Continues(Top, f)
  BY <1>2, <1>5, LoopContinues DEF prec, req
<1>13. Calls(f, g)
  BY <1>2, <1>5, <1>9 DEF Calls
<1>14. Facing(g, tok') /\ Reads
  BY <1>2, <1>4, <1>9 DEF Facing, Reads
<1> QED BY <1>5, <1>6, <1>9, <1>10, <1>11, <1>12, <1>13, <1>14 DEF Enters

(* parseBinOpRHS.                                                          *)
LEMMA RhsSteps ==
    ASSUME NEW S, Ready(S), ParseBinOpRHS
    PROVE  Steps(S)
<1>1. CASE At("rhs")
  <2>1. Top.at = "rhs" /\ Top.at \notin ModuleAts /\ Tree(S)
    BY <1>1, Standing, OperatorPlaces
  <2>2. CASE Prec(tok) < Top.prec /\ Give(Top.lhs)
    <3> DEFINE v == Top.lhs
    <3>1. Gives(Top, v, tok) /\ v \in S /\ v # Null /\ Give(v)
      BY <2>1, <2>2, LoopGives
    <3> HIDE DEF v
    <3>2. Leaves(S)
      BY <2>1, <3>1, GiveLeaves
    <3> QED BY <2>1, <3>2 DEF Steps
  <2>3. CASE /\ Prec(tok) >= Top.prec /\ Consume /\ Quiet
             /\ CallAt([Moved("rhs.operand") EXCEPT !.op = tok], Frame("primary"))
    BY <1>1, <2>1, <2>3, OperandEnters DEF Steps
  <2> QED BY <1>1, <2>1, <2>2, <2>3 DEF ParseBinOpRHS, At, After
<1>2. CASE After("rhs.operand")
  <2>1. /\ Top.at = "rhs.operand" /\ Top.at \notin ModuleAts /\ Top.at \notin ReturnAts
        /\ Top.at \in FirstAts /\ Top \in Frames(S)
        /\ Tree(S) /\ Value \in S /\ Gets(Top, Value, tok)
    BY <1>2, Getting, OperatorPlaces
  <2>2. CASE Fail
    BY <2>1, <2>2, FailLeaves DEF Steps
  <2>3. CASE /\ Value # Null /\ UNCHANGED Input /\ Quiet
             /\ CallAt(Moved("rhs.merge"),
                       [Frame("rhs") EXCEPT !.prec = Tighter(Top.op), !.lhs = Value])
    BY <1>2, <2>1, <2>3, TighterEnters DEF Steps
  <2>4. CASE /\ Value # Null /\ UNCHANGED Input /\ Quiet
             /\ ~ Prec(Top.op) < Prec(tok)
             /\ Goto([Moved("rhs") EXCEPT !.lhs = Merged(Value)])
    <3>1. Value.k # "binary"
      BY <2>1 DEF Gets, PrimaryKinds
    <3>2. Prec(tok) <= Prec(Top.op)
      BY <2>4, PrecRange
    <3>3. Goes(S)
      BY <2>1, <2>4, <3>1, <3>2, MergedGoes
    <3> QED BY <2>1, <3>3 DEF Steps
  <2> QED BY <1>2, <2>1, <2>2, <2>3, <2>4 DEF ParseBinOpRHS, At, After
<1>3. CASE After("rhs.merge")
  <2>1. /\ Top.at = "rhs.merge" /\ Top.at \notin ModuleAts /\ Top.at \notin ReturnAts
        /\ Tree(S) /\ Value \in S /\ Gets(Top, Value, tok) /\ ret # << >>
    BY <1>3, Getting, OperatorPlaces
  <2>2. CASE Value = Null /\ Give(Null)
    BY <2>1, <2>2, PassNull DEF Steps
  <2>3. CASE /\ Value # Null /\ UNCHANGED Input /\ Quiet
             /\ Goto([Moved("rhs") EXCEPT !.lhs = Merged(Value)])
    <3>1. /\ Value.k = "binary" => Prec(Value.name) > Prec(Top.op)
          /\ Prec(tok) <= Prec(Top.op)
      BY <2>1, <2>3 DEF Gets
    <3>2. Goes(S)
      BY <2>1, <2>3, <3>1, MergedGoes
    <3> QED BY <2>1, <3>2 DEF Steps
  <2> QED BY <1>3, <2>1, <2>2, <2>3 DEF ParseBinOpRHS, At, After
<1> QED BY <1>1, <1>2, <1>3 DEF ParseBinOpRHS

(* parseExpression, which goes on as the loop.                             *)
LEMMA ExpressionSteps ==
    ASSUME NEW S, Ready(S), ParseExpression
    PROVE  Steps(S)
<1>1. CASE At("expression") /\ Calling("expression.rhs", Frame("primary"))
  <2> DEFINE l == "expression.rhs"
             k == "primary"
  <2>1. Top.at = "expression" /\ Top.at \notin ModuleAts
    BY <1>1, Standing, OperatorPlaces
  <2>2. /\ k \in Labels /\ k \notin {"tensor.separator", "tensor.finish"} \cup RhsAts \cup BlockAts
        /\ k \in PrimaryAts /\ k \notin TakingAts /\ k # "rhs" /\ Same(Top.at, l)
        /\ k \notin StructAts
        /\ l \in FirstAts /\ l \notin OperandAts
        /\ l \notin {"module.record", "block.done", "struct.next", "tensor.nested"}
    BY <2>1, OperatorPlaces
  <2>3. Calling(l, Frame(k))
    BY <1>1
  <2> HIDE DEF k, l
  <2>4. /\ Frame(k) \in Frames(S) /\ Stage(Frame(k)) /\ Frame(k).at = k
        /\ Calls(Moved(l), Frame(k))
    BY <2>2, StartingCall
  <2>5. l \in Labels /\ Stage(Moved(l)) /\ Continues(Top, Moved(l))
    BY <2>2, Onward
  <2>6. Facing(Frame(k), tok)
    BY <2>2, <2>4 DEF Facing
  <2>7. Enters(S)
    BY <2>3, <2>4, <2>5, <2>6, CallEnters
  <2> QED BY <2>1, <2>7 DEF Steps
<1>2. CASE After("expression.rhs")
  <2>1. /\ Top.at = "expression.rhs" /\ Top.at \notin ModuleAts /\ Top.at \notin ReturnAts
        /\ Top.at \in FirstAts /\ Top.at \in ExpressionAts /\ Top \in Frames(S) /\ ret # << >>
        /\ Tree(S) /\ Value \in S /\ Gets(Top, Value, tok)
    BY <1>2, Getting, OperatorPlaces
  <2>2. CASE Value = Null /\ Give(Null)
    BY <2>1, <2>2, PassNull DEF Steps
  <2>3. CASE /\ Value # Null /\ UNCHANGED Input /\ Quiet
             /\ Goto([Moved("rhs") EXCEPT !.lhs = Value])
    <3> DEFINE l == "rhs"
               m == Moved(l)
               v == Value
               h == [m EXCEPT !.lhs = v]
               op == h.op
               prec == h.prec
               req == h.req
    <3>1. l \in Labels /\ l \in RhsAts /\ l = "rhs" /\ l \notin TakingAts
      BY OperatorPlaces
    <3>2. m \in Frames(S) /\ m.at = l /\ m.prec = Top.prec /\ m.req = Top.req
      BY <2>1, <3>1, MovedFields DEF Moved
    <3>3. v \in S /\ v # Null /\ v.k \in Kinds /\ v.k # "binary" /\ Goto(h)
      BY <2>1, <2>3 DEF Gets, Kinds, PrimaryKinds
    <3> HIDE DEF l, m, v
    <3>4. h \in Frames(S) /\ h.at = l /\ h.lhs = v /\ h.prec = Top.prec /\ h.req = Top.req
      BY <3>2, <3>3 DEF Frames
    <3> HIDE DEF h
    <3>5. InLoop(h, l, v, op, prec, req)
      BY <3>4 DEF InLoop
    <3> HIDE DEF op, prec, req
    <3>6. Stage(h)
      BY <3>1, <3>3, <3>5, LoopStage
    <3>7. Continues(Top, h)
      BY <2>1, <3>1, <3>4, LoopContinues
    <3>8. Facing(h, tok') /\ Reads
      BY <2>3, <3>1, <3>3, <3>4 DEF Facing, Reads
    <3>9. Goes(S)
      BY <2>1, <2>3, <3>3, <3>4, <3>6, <3>7, <3>8 DEF Goes
    <3> QED BY <2>1, <3>9 DEF Steps
  <2> QED BY <1>2, <2>1, <2>2, <2>3 DEF ParseExpression, At, After
<1> QED BY <1>1, <1>2 DEF ParseExpression
-----------------------------------------------------------------------------
(* Statements.                                                             *)

(* Where a return and a declaration are read.                              *)
LEMMA StatementPlaces ==
    /\ Same("return", "return.operand") /\ Same("return.operand", "return.done")
    /\ {"return", "return.operand", "return.done"} = ReturnAts
    /\ {"var", "var.name", "var.type", "type.dim", "type.comma", "var.init", "var.done",
        "typed", "typed.name", "typed.init", "typed.done"} = DeclAts
    /\ \A a, b \in DeclAts : Same(a, b)
    /\ DeclAts \cup ReturnAts \subseteq Labels
    /\ DeclAts \cap TakingAts = {"var", "typed"} /\ ReturnAts \cap TakingAts = {"return"}
    /\ {"return.done", "var.done", "typed.done"} \subseteq OperandAts
    /\ DeclAts \cap ReturnAts = {}
    /\ (DeclAts \cup ReturnAts) \cap (ModuleAts \cup PrimaryAts \cup TensorAts \cup CallAts \cup
           ExpressionAts \cup RhsAts \cup ParamAts \cup StructAts \cup BlockAts \cup StartAts) = {}
    /\ DeclAts \cap {"tensor.separator", "tensor.finish", "rhs", "rhs.operand", "rhs.merge"} = {}
BY DEF Same, Alike, Labels, PrimaryAts, StartAts, TensorAts, CallAts, RhsAts, ExpressionAts, DeclAts,
       ReturnAts, ParamAts, BlockAts, StructAts, ModuleAts, OperandAts, TakingAts, FirstAts

(* What a return gives.                                                    *)
LEMMA GivesReturn ==
    ASSUME NEW g, NEW v, NEW t, g.at \in ReturnAts, v.k = "return"
    PROVE  Gives(g, v, t)
<1>1. /\ g.at \notin PrimaryAts /\ g.at \notin TensorAts /\ g.at \notin ExpressionAts
      /\ g.at \notin RhsAts /\ g.at \notin DeclAts /\ g.at \notin ParamAts \cup BlockAts
      /\ g.at \notin StructAts
  BY StatementPlaces
<1> QED BY <1>1 DEF Gives

(* A return, with the operand it may have.                                 *)
LEMMA ReturnLeaves ==
    ASSUME NEW S, Ready(S), Top.at \in ReturnAts, NEW cs \in Seq(S),
           Give(Node("return", NoName, cs))
    PROVE  Leaves(S)
<1> DEFINE k == "return"
           x == Node(k, NoName, cs)
           T == S \cup {x}
<1>1. /\ k \in PlainKinds
      /\ k # "print" /\ k \in {"struct_literal", "return"} /\ k = "return" /\ Give(x)
  BY DEF PlainKinds
<1>2. Tree(S)
  BY DEF Ready
<1> HIDE DEF k
<1>3. Tree(T) /\ S \subseteq T /\ x \in T /\ x # Null /\ x.k = k
  BY <1>1, <1>2, PlainTree
<1> HIDE DEF x, T
<1>4. Gives(Top, x, tok)
  BY <1>1, <1>3, GivesReturn
<1> QED BY <1>1, <1>3, <1>4, GiveLeaves

(* parseReturn.                                                            *)
LEMMA ReturnSteps ==
    ASSUME NEW S, Ready(S), ParseReturn
    PROVE  Steps(S)
<1>1. CASE At("return") /\ Take("return.operand")
  <2>1. Top.at = "return" /\ tok # "eof" /\ Top.at \notin ModuleAts /\ "return.operand" \notin TakingAts
    BY <1>1, Standing, StatementPlaces DEF Facing
  <2> QED BY <1>1, <2>1, StatementPlaces, Taking DEF Steps
<1>2. CASE At("return.operand")
  <2>1. Top.at = "return.operand" /\ Top.at \notin ModuleAts /\ Top.at \in ReturnAts
    BY <1>2, Standing, StatementPlaces
  <2>2. CASE Give(Node("return", NoName, << >>))
    <3>1. << >> \in Seq(S)
      OBVIOUS
    <3> QED BY <2>1, <2>2, <3>1, ReturnLeaves DEF Steps
  <2>3. CASE Calling("return.done", Expression)
    BY <2>1, <2>3, StatementPlaces, CallingExpression DEF Steps
  <2> QED BY <1>2, <2>1, <2>2, <2>3 DEF ParseReturn, At, After
<1>3. CASE After("return.done") /\ Give(Node("return", NoName, <<Value>>))
  <2> DEFINE cs == <<Value>>
  <2>1. Top.at = "return.done" /\ Top.at \notin ModuleAts /\ Top.at \in ReturnAts /\ Value \in S
    BY <1>3, Getting, StatementPlaces
  <2>2. cs \in Seq(S) /\ Give(Node("return", NoName, cs))
    BY <1>3, <2>1
  <2> HIDE DEF cs
  <2> QED BY <2>1, <2>2, ReturnLeaves DEF Steps
<1> QED BY <1>1, <1>2, <1>3 DEF ParseReturn

(* The dimensions "var x" leaves open are written as ones.                *)
LEMMA OnesAreSizes ==
    ASSUME NEW n \in Nat
    PROVE  [i \in 1 .. n |-> 1] \in Seq(Nat)
  OBVIOUS

(* A declaration with its type.                                            *)
LEMMA DeclTree ==
    ASSUME NEW S, Tree(S), NEW name, NEW type, NEW dims \in Seq(Nat), NEW init \in Seq(S),
           type = "tensor" \/ dims = << >>
    PROVE  LET x == VarDecl(name, VarType(type, dims), init)
           IN  \E T : /\ Tree(T) /\ S \subseteq T /\ x \in T /\ x # Null /\ x.k = "decl"
                      /\ Len(x.c) = 1 + Len(init)
<1> DEFINE t == VarType(type, dims)
           cs == <<t>> \o init
           x == VarDecl(name, t, init)
           U == S \cup {t}
           T == U \cup {x}
<1>1. t.k = "type" /\ t.name = type /\ t.dims = dims /\ t.c = << >>
  BY DEF VarType, SizedNode
<1>2. x.k = "decl" /\ x.c = cs /\ x.dims = << >>
  BY DEF VarDecl, Node, SizedNode
<1> HIDE DEF t, x
<1>3. Built(t) /\ t.c \in Seq(S)
  BY <1>1 DEF Built, InGrammar, IsLiteral
<1>4. Tree(U) /\ S \subseteq U /\ t \in U
  BY <1>3, OneMore
<1> HIDE DEF U
<1>5. cs \in Seq(U) /\ cs # << >> /\ cs[1] = t /\ Len(cs) = 1 + Len(init)
  <2>1. init \in Seq(U)
    BY <1>4, MoreTrees
  <2> QED BY <1>4, <2>1
<1> HIDE DEF cs
<1>6. Built(x)
  BY <1>1, <1>2, <1>5 DEF Built, InGrammar, IsLiteral
<1>7. Tree(T) /\ U \subseteq T /\ x \in T
  BY <1>2, <1>4, <1>5, <1>6, OneMore
<1>8. S \subseteq T /\ x # Null /\ Len(x.c) = 1 + Len(init)
  BY <1>2, <1>4, <1>5, <1>7, NullParts
<1> HIDE DEF T
<1> QED BY <1>2, <1>7, <1>8 DEF x, t

(* What a declaration gives.                                               *)
LEMMA GivesDecl ==
    ASSUME NEW g, NEW v, NEW t, g.at \in DeclAts, v.k = "decl", g.req => Len(v.c) = 2
    PROVE  Gives(g, v, t)
<1>1. /\ g.at \notin PrimaryAts /\ g.at \notin TensorAts /\ g.at \notin ExpressionAts
      /\ g.at \notin RhsAts /\ g.at \notin ReturnAts /\ g.at \notin ParamAts \cup BlockAts
      /\ g.at \notin StructAts
  BY StatementPlaces
<1> QED BY <1>1 DEF Gives

(* A declaration leaves with the initializer it has to have.               *)
LEMMA DeclLeaves ==
    ASSUME NEW S, Ready(S), Top.at \in DeclAts, NEW type, NEW dims \in Seq(Nat), NEW init \in Seq(S),
           type = "tensor" \/ dims = << >>,
           Top.req => Len(init) = 1,
           Give(VarDecl(Top.name, VarType(type, dims), init))
    PROVE  Leaves(S)
<1> DEFINE name == Top.name
           x == VarDecl(name, VarType(type, dims), init)
<1>1. Tree(S) /\ Give(x)
  BY DEF Ready
<1> HIDE DEF name
<1>2. PICK T : /\ Tree(T) /\ S \subseteq T /\ x \in T /\ x # Null /\ x.k = "decl"
               /\ Len(x.c) = 1 + Len(init)
  BY <1>1, DeclTree
<1> HIDE DEF x
<1>0. Len(init) = 1 => Len(x.c) = 2
  <2> DEFINE i == Len(init)
             n == Len(x.c)
  <2>1. n = 1 + i
    BY <1>2
  <2> HIDE DEF i, n
  <2>2. i = 1 => n = 2
    BY ONLY <2>1
  <2> QED BY <2>2 DEF i, n
<1>3. Gives(Top, x, tok)
  BY <1>0, <1>2, GivesDecl
<1> QED BY <1>1, <1>2, <1>3, GiveLeaves

(* A declaration steps from position to position.                          *)
LEMMA DeclGoes ==
    ASSUME NEW S, Ready(S), Top.at \in DeclAts, NEW l \in DeclAts, l \notin {"var", "typed"},
           NEW h \in Frames(S), h.at = l, h.items = Top.items, h.prec = Top.prec, h.req = Top.req,
           Goto(h), Reads, Quiet
    PROVE  Goes(S)
<1>1. /\ h.at \notin PrimaryAts /\ h.at \notin TensorAts /\ h.at \notin ExpressionAts
      /\ h.at \notin RhsAts /\ h.at \notin ReturnAts /\ h.at \notin ParamAts \cup BlockAts
      /\ h.at \notin StructAts /\ h.at \notin StartAts /\ h.at \notin CallAts
      /\ h.at \notin ParamAts \cup StructAts /\ h.at \notin BlockAts
      /\ h.at \notin TakingAts /\ h.at # "rhs" /\ h.at \in DeclAts
      /\ h.at \notin {"tensor.separator", "tensor.finish"} /\ h.at \notin {"rhs.operand", "rhs.merge"}
  BY StatementPlaces
<1>2. /\ Top.at \notin PrimaryAts /\ Top.at \notin TensorAts /\ Top.at \notin ExpressionAts
      /\ Top.at \notin RhsAts /\ Top.at \notin ReturnAts /\ Top.at \notin ParamAts \cup BlockAts
      /\ Top.at \notin StructAts /\ Top.at \notin ModuleAts
  BY StatementPlaces
<1>3. Stage(h) /\ Facing(h, tok')
  BY <1>1 DEF Stage, Facing
<1>4. Continues(Top, h)
  BY <1>1, <1>2 DEF Continues
<1> QED BY <1>3, <1>4 DEF Goes, Ready
(* parseVarDeclaration.                                                    *)
LEMMA VarDeclarationSteps ==
    ASSUME NEW S, Ready(S), ParseVarDeclaration
    PROVE  Steps(S)
<1>0. /\ Top.at \in DeclAts /\ Top.at \notin ModuleAts /\ Top.at \notin ReturnAts
      /\ Top \in Frames(S) /\ Tree(S)
  <2>1. Top.at \in {"var", "var.name", "var.type", "type.dim", "type.comma", "var.init", "var.done"}
    BY DEF ParseVarDeclaration, At, After
  <2>2. Top.at \in DeclAts
    BY <2>1, StatementPlaces
  <2> QED BY <2>2, StatementPlaces, BottomIsModule DEF Ready
<1>1. {"var.name", "var.type", "type.dim", "type.comma", "var.init", "var.done"} \cap TakingAts = {}
  BY StatementPlaces
<1>2. ASSUME Fail PROVE Steps(S)
  BY <1>0, <1>2, FailLeaves DEF Steps
<1>3. ASSUME NEW l \in {"var.name", "type.dim", "var.init"}, Take(l), tok # "eof" PROVE Steps(S)
  BY <1>0, <1>1, <1>3, StatementPlaces, Taking DEF Steps
<1>4. ASSUME NEW l \in {"type.dim", "var.init"}, Stay(l) PROVE Steps(S)
  BY <1>0, <1>1, <1>4, StatementPlaces, Staying DEF Steps
<1>5. CASE At("var") /\ Take("var.name")
  <2>1. tok # "eof"
    BY <1>5, Standing, StatementPlaces DEF Facing
  <2> QED BY <1>3, <1>5, <2>1
<1>6. CASE At("var.name")
  <2>1. CASE IsId(tok) /\ TakeName("var.type")
    <3>1. tok # "eof"
      BY <2>1, NamesAreNames
    <3> QED BY <1>0, <1>1, <2>1, <3>1, StatementPlaces, TakingName DEF Steps
  <2> QED BY <1>2, <1>6, <2>1 DEF ParseVarDeclaration, At, After
<1>7. CASE At("var.type")
  BY <1>3, <1>4, <1>7 DEF ParseVarDeclaration, At, After
<1>8. CASE At("type.dim")
  <2>1. CASE /\ tok = "num" /\ Consume /\ Quiet
             /\ Goto([Moved("type.comma") EXCEPT !.dims = @ + 1])
    <3> DEFINE l == "type.comma"
               m == Moved(l)
               h == [m EXCEPT !.dims = @ + 1]
    <3>1. l \in DeclAts /\ l \notin {"var", "typed"} /\ l \in Labels
      BY StatementPlaces
    <3>2. m \in Frames(S) /\ m.at = l /\ m.items = Top.items /\ m.prec = Top.prec /\ m.req = Top.req
      BY <1>0, <3>1, MovedFields DEF Moved
    <3>3. Goto(h) /\ Reads /\ Quiet
      BY <2>1 DEF Reads
    <3> HIDE DEF m, l
    <3>4. h \in Frames(S) /\ h.at = l /\ h.items = Top.items /\ h.prec = Top.prec /\ h.req = Top.req
      BY <3>2 DEF Frames
    <3> HIDE DEF h
    <3>5. Goes(S)
      BY <1>0, <3>1, <3>3, <3>4, DeclGoes
    <3> QED BY <1>0, <3>5 DEF Steps
  <2> QED BY <1>2, <1>3, <1>8, <2>1 DEF ParseVarDeclaration, At, After
<1>9. CASE At("type.comma")
  BY <1>3, <1>4, <1>9, Punctuation DEF ParseVarDeclaration, At, After
<1>10. CASE At("var.init")
  <2>1. CASE ~ Top.req /\ Give(Declaration(<< >>))
    <3> DEFINE type == "tensor"
               dims == [n \in 1 .. Top.dims |-> 1]
               init == << >>
    <3>1. init \in Seq(S) /\ Len(init) = 0 /\ type = "tensor"
      OBVIOUS
    <3>2. Give(VarDecl(Top.name, VarType(type, dims), init)) /\ ~ Top.req
      BY <2>1 DEF Declaration
    <3>4. dims \in Seq(Nat)
      BY <1>0, OnesAreSizes DEF Frames
    <3> HIDE DEF type, dims, init
    <3>3. Leaves(S)
      BY <1>0, <3>1, <3>2, <3>4, DeclLeaves
    <3> QED BY <1>0, <3>3 DEF Steps
  <2>2. CASE Abort
    BY <1>0, <2>2 DEF Steps
  <2>3. CASE tok = "=" /\ TakeCalling("var.done", Expression)
    <3>1. Same(Top.at, "var.done") /\ "var.done" \in OperandAts /\ tok # "eof"
      BY <1>0, <2>3, StatementPlaces
    <3> QED BY <1>0, <2>3, <3>1, CallingExpression DEF Steps
  <2> QED BY <1>10, <2>1, <2>2, <2>3 DEF ParseVarDeclaration, At, After
<1>11. CASE After("var.done") /\ Give(Declaration(<<Value>>))
  <2> DEFINE type == "tensor"
             dims == [n \in 1 .. Top.dims |-> 1]
             init == <<Value>>
  <2>1. Value \in S
    BY <1>11, Getting
  <2>2. init \in Seq(S) /\ Len(init) = 1 /\ type = "tensor"
    BY <2>1
  <2>3. Give(VarDecl(Top.name, VarType(type, dims), init))
    BY <1>11 DEF Declaration
  <2>5. dims \in Seq(Nat)
    BY <1>0, OnesAreSizes DEF Frames
  <2> HIDE DEF type, dims, init
  <2>4. Leaves(S)
    BY <1>0, <2>2, <2>3, <2>5, DeclLeaves
  <2> QED BY <1>0, <2>4 DEF Steps
<1> QED BY <1>5, <1>6, <1>7, <1>8, <1>9, <1>10, <1>11 DEF ParseVarDeclaration

(* parseTypedDeclaration.                                                  *)
LEMMA TypedDeclarationSteps ==
    ASSUME NEW S, Ready(S), ParseTypedDeclaration
    PROVE  Steps(S)
<1>0. /\ Top.at \in DeclAts /\ Top.at \notin ModuleAts /\ Top.at \notin ReturnAts
      /\ Top \in Frames(S) /\ Tree(S) /\ tok \in Words
  <2>1. Top.at \in {"typed", "typed.name", "typed.init", "typed.done"}
    BY DEF ParseTypedDeclaration, At, After
  <2>2. Top.at \in DeclAts
    BY <2>1, StatementPlaces
  <2> QED BY <2>2, StatementPlaces, BottomIsModule DEF Ready, InputOK, Words
<1>1. CASE /\ At("typed") /\ Consume /\ Quiet
           /\ Goto([Moved("typed.name") EXCEPT !.op = tok])
  <2> DEFINE l == "typed.name"
             m == Moved(l)
             h == [m EXCEPT !.op = tok]
  <2>1. l \in DeclAts /\ l \notin {"var", "typed"} /\ l \in Labels
    BY StatementPlaces
  <2>2. m \in Frames(S) /\ m.at = l /\ m.items = Top.items /\ m.prec = Top.prec /\ m.req = Top.req
    BY <1>0, <2>1, MovedFields DEF Moved
  <2>3. tok # "eof"
    BY <1>1, Standing, StatementPlaces DEF Facing
  <2>4. Goto(h) /\ Reads /\ Quiet
    BY <1>1, <2>3 DEF Reads
  <2> HIDE DEF m, l
  <2>5. h \in Frames(S) /\ h.at = l /\ h.items = Top.items /\ h.prec = Top.prec /\ h.req = Top.req
    BY <1>0, <2>2 DEF Frames
  <2> HIDE DEF h
  <2>6. Goes(S)
    BY <1>0, <2>1, <2>4, <2>5, DeclGoes
  <2> QED BY <1>0, <2>6 DEF Steps
<1>2. CASE At("typed.name")
  <2>1. CASE IsId(tok) /\ TakeName("typed.init")
    <3>1. tok # "eof" /\ Same(Top.at, "typed.init") /\ "typed.init" \notin TakingAts
      BY <1>0, <2>1, NamesAreNames, StatementPlaces
    <3> QED BY <1>0, <2>1, <3>1, TakingName DEF Steps
  <2>2. CASE Fail
    BY <1>0, <2>2, FailLeaves DEF Steps
  <2> QED BY <1>2, <2>1, <2>2 DEF ParseTypedDeclaration, At, After
<1>3. CASE At("typed.init")
  <2>1. CASE ~ Top.req /\ Give(VarDecl(Top.name, VarType(Top.op, << >>), << >>))
    <3> DEFINE type == Top.op
               dims == << >>
               init == << >>
    <3>1. init \in Seq(S) /\ Len(init) = 0 /\ dims = << >>
      OBVIOUS
    <3>4. dims \in Seq(Nat)
      OBVIOUS
    <3>2. Give(VarDecl(Top.name, VarType(type, dims), init)) /\ ~ Top.req
      BY <2>1
    <3> HIDE DEF type, dims, init
    <3>3. Leaves(S)
      BY <1>0, <3>1, <3>2, <3>4, DeclLeaves
    <3> QED BY <1>0, <3>3 DEF Steps
  <2>2. CASE Fail
    BY <1>0, <2>2, FailLeaves DEF Steps
  <2>3. CASE tok = "=" /\ TakeCalling("typed.done", Expression)
    <3>1. Same(Top.at, "typed.done") /\ "typed.done" \in OperandAts /\ tok # "eof"
      BY <1>0, <2>3, StatementPlaces
    <3> QED BY <1>0, <2>3, <3>1, CallingExpression DEF Steps
  <2> QED BY <1>3, <2>1, <2>2, <2>3 DEF ParseTypedDeclaration, At, After
<1>4. CASE /\ After("typed.done")
           /\ Give(VarDecl(Top.name, VarType(Top.op, << >>), <<Value>>))
  <2> DEFINE type == Top.op
             dims == << >>
             init == <<Value>>
  <2>1. Value \in S
    BY <1>4, Getting
  <2>2. init \in Seq(S) /\ Len(init) = 1 /\ dims = << >>
    BY <2>1
  <2>5. dims \in Seq(Nat)
    OBVIOUS
  <2>3. Give(VarDecl(Top.name, VarType(type, dims), init))
    BY <1>4
  <2> HIDE DEF type, dims, init
  <2>4. Leaves(S)
    BY <1>0, <2>2, <2>3, <2>5, DeclLeaves
  <2> QED BY <1>0, <2>4 DEF Steps
<1> QED BY <1>1, <1>2, <1>3, <1>4 DEF ParseTypedDeclaration
-----------------------------------------------------------------------------
(* Definitions.                                                            *)

(* Where a block is read.                                                  *)
LEMMA BlockPlaces ==
    /\ \A a, b \in BlockAts : Same(a, b)
    /\ {"block", "block.next", "block.done"} = BlockAts
    /\ BlockAts \subseteq Labels
    /\ {"var", "typed", "return", "expression"} \subseteq Labels
    /\ {"var", "typed", "return", "expression"} \cap
           ({"tensor.separator", "tensor.finish"} \cup RhsAts \cup BlockAts \cup StructAts) = {}
    /\ {"var", "typed", "return", "expression"} \subseteq ExpressionAts \cup ReturnAts \cup DeclAts
    /\ {"var", "typed"} \subseteq DeclAts
    /\ BlockAts \cap (ModuleAts \cup ReturnAts \cup PrimaryAts \cup TensorAts \cup CallAts \cup
           ExpressionAts \cup RhsAts \cup DeclAts \cup ParamAts \cup StructAts \cup StartAts \cup
           TakingAts \cup FirstAts \cup OperandAts) = {}
    /\ BlockAts \cap {"module.record", "struct.next", "tensor.nested", "tensor.separator",
                      "tensor.finish", "rhs", "rhs.operand", "rhs.merge"} = {}
BY DEF Same, Alike, Labels, PrimaryAts, StartAts, TensorAts, CallAts, RhsAts, ExpressionAts, DeclAts,
       ReturnAts, ParamAts, BlockAts, StructAts, ModuleAts, OperandAts, TakingAts, FirstAts

(* A function is complete.                                                 *)
LEMMA FunctionTree ==
    ASSUME NEW S, Tree(S), NEW name, NEW cs \in Seq(S), Body(cs)
    PROVE  LET x == Node("def", name, cs)
           IN  /\ Tree(S \cup {x}) /\ S \subseteq S \cup {x} /\ x \in S \cup {x}
               /\ x # Null /\ x.k = "def"
<1> DEFINE x == Node("def", name, cs)
<1>1. x.k = "def" /\ x.c = cs /\ x.dims = << >>
  BY DEF Node, SizedNode
<1>2. /\ cs # << >> /\ \A n \in DOMAIN cs[1].c : cs[1].c[n].k = "decl"
      /\ \A n \in 2 .. Len(cs) : cs[n].k = "decl" => Len(cs[n].c) = 2
      /\ \A n \in DOMAIN cs : cs[n] # Null
  BY DEF Body
<1> HIDE DEF x
<1>3. Built(x)
  BY <1>1, <1>2 DEF Built, InGrammar, IsLiteral
<1>4. Tree(S \cup {x}) /\ S \subseteq S \cup {x} /\ x \in S \cup {x} /\ x # Null
  BY <1>1, <1>3, OneMore, NullParts
<1> QED BY <1>1, <1>4 DEF x

(* What a function gives.                                                  *)
LEMMA GivesFunction ==
    ASSUME NEW g, NEW v, NEW t, g.at \in BlockAts, v.k = "def"
    PROVE  Gives(g, v, t)
<1>1. /\ g.at \notin PrimaryAts /\ g.at \notin TensorAts /\ g.at \notin ExpressionAts
      /\ g.at \notin RhsAts /\ g.at \notin ReturnAts /\ g.at \notin DeclAts
      /\ g.at \notin StructAts
  BY BlockPlaces
<1> QED BY <1>1 DEF Gives

(* A statement is read by a call.                                          *)
LEMMA StatementEnters ==
    ASSUME NEW S, Ready(S), Top.at = "block.next", tok # "eof",
           NEW k \in {"var", "typed", "return", "expression"}, Calling("block.done", Frame(k))
    PROVE  Enters(S)
<1> DEFINE l == "block.done"
<1>1. /\ k \in Labels /\ k \notin {"tensor.separator", "tensor.finish"} \cup RhsAts \cup BlockAts
      /\ k \notin StructAts /\ k \in ExpressionAts \cup ReturnAts \cup DeclAts /\ k # "rhs"
  BY BlockPlaces
<1>2. /\ Same(Top.at, l) /\ l = "block.done" /\ l \notin FirstAts /\ l \notin OperandAts
      /\ Calling(l, Frame(k))
  BY BlockPlaces
<1> HIDE DEF l
<1>3. /\ Frame(k) \in Frames(S) /\ Stage(Frame(k)) /\ Frame(k).at = k
      /\ Calls(Moved(l), Frame(k))
  BY <1>1, <1>2, StartingCall
<1>4. l \in Labels /\ Stage(Moved(l)) /\ Continues(Top, Moved(l))
  BY <1>2, Onward
<1>5. Facing(Frame(k), tok)
  BY <1>1, <1>3 DEF Facing
<1> QED BY <1>2, <1>3, <1>4, <1>5, CallEnters

(* A value is taken to the list.                                           *)
LEMMA AddedGoes ==
    ASSUME NEW S, Ready(S), NEW T, Tree(T), S \subseteq T, NEW v \in T,
           NEW l, Alike(Top.at, l), Holds(l, v), l \notin TakingAts,
           Goto([Moved(l) EXCEPT !.items = Append(@, v)]), Reads, Quiet
    PROVE  Goes(S)
<1> DEFINE h == [Moved(l) EXCEPT !.items = Append(@, v)]
<1>1. Top \in Frames(T) /\ Stage(Top)
  BY BottomIsModule, MoreTrees DEF Ready
<1>2. l \in Labels /\ l \notin RhsAts
  BY DEF Alike
<1>3. Goto(h)
  OBVIOUS
<1>4. h \in Frames(T) /\ Adds(Top, h, l, v)
  BY <1>1, <1>2, AddedFields DEF Moved
<1> HIDE DEF h
<1>5. Stage(h) /\ Continues(Top, h)
  BY <1>1, <1>4, AddedStage
<1>6. Facing(h, tok')
  BY <1>2, <1>4 DEF Facing, Adds, RhsAts
<1> QED BY <1>3, <1>4, <1>5, <1>6 DEF Goes

(* parseBlock, and parseDefinition after it.                               *)
LEMMA BlockSteps ==
    ASSUME NEW S, Ready(S), ParseBlock
    PROVE  Steps(S)
<1>0. /\ Top.at \in BlockAts /\ Top.at \notin ModuleAts /\ Top.at \notin ReturnAts
      /\ Top \in Frames(S) /\ Tree(S) /\ Stage(Top)
  <2>1. Top.at \in {"block", "block.next", "block.done"}
    BY DEF ParseBlock, At, After
  <2> QED BY <2>1, BlockPlaces, BottomIsModule DEF Ready
<1>1. ASSUME Fail PROVE Steps(S)
  BY <1>0, <1>1, FailLeaves DEF Steps
<1>2. "block.next" \in BlockAts /\ "block.next" \notin TakingAts /\ "block.next" # "rhs"
      /\ "block.next" \notin StructAts
  BY BlockPlaces
<1>3. ASSUME Take("block.next"), tok # "eof" PROVE Steps(S)
  BY <1>0, <1>2, <1>3, BlockPlaces, Taking DEF Steps
<1>4. CASE At("block")
  BY <1>1, <1>3, <1>4, Punctuation DEF ParseBlock, At, After
<1>5. CASE At("block.next")
  <2>0. Top.at = "block.next"
    BY <1>5 DEF At
  <2>1. CASE tok = Semicolon /\ Take("block.next")
    BY <1>3, <2>1, Punctuation
  <2>2. CASE tok = CloseBrace /\ TakeGive(Node("def", Top.name, Top.items))
    <3> DEFINE name == Top.name
               cs == Top.items
               x == Node("def", name, cs)
               T == S \cup {x}
    <3>1. cs \in Seq(S) /\ Body(cs)
      BY <1>0 DEF Frames, Stage
    <3>2. TakeGive(x) /\ tok # "eof"
      BY <2>2, Punctuation
    <3> HIDE DEF name, cs
    <3>3. Tree(T) /\ S \subseteq T /\ x \in T /\ x # Null /\ x.k = "def"
      BY <1>0, <3>1, FunctionTree
    <3> HIDE DEF x, T
    <3>4. Gives(Top, x, tok')
      BY <1>0, <3>3, GivesFunction
    <3>5. Leaves(S)
      BY <3>2, <3>3, <3>4, TakeGiveLeaves
    <3> QED BY <1>0, <3>5 DEF Steps
  <2>3. CASE tok = "var" /\ Calling("block.done", Frame("var"))
    BY <1>0, <2>0, <2>3, StatementEnters DEF Steps
  <2>4. CASE tok = "return" /\ Calling("block.done", Frame("return"))
    BY <1>0, <2>0, <2>4, StatementEnters DEF Steps
  <2>5. CASE /\ IsId(tok)
             /\ Calling("block.done", IF tok \in structs THEN Frame("typed") ELSE Expression)
    <3>1. tok # "eof"
      BY <2>5, NamesAreNames
    <3>2. CASE tok \in structs
      BY <1>0, <2>0, <2>5, <3>1, <3>2, StatementEnters DEF Steps
    <3>3. CASE tok \notin structs
      <4>1. Calling("block.done", Frame("expression"))
        BY <2>5, <3>3 DEF Expression
      <4> QED BY <1>0, <2>0, <3>1, <4>1, StatementEnters DEF Steps
    <3> QED BY <3>2, <3>3
  <2>6. CASE Abort
    BY <1>0, <2>6 DEF Steps
  <2> QED BY <1>1, <1>5, <2>0, <2>1, <2>2, <2>3, <2>4, <2>5, <2>6 DEF ParseBlock, At, After
<1>6. CASE After("block.done")
  <2>0. ret # << >> /\ Value \in S /\ Gets(Top, Value, tok) /\ Top.at = "block.done"
    BY <1>6, Getting
  <2>1. CASE Value = Null /\ Give(Null)
    BY <1>0, <2>0, <2>1, PassNull DEF Steps
  <2>2. CASE /\ Value # Null /\ UNCHANGED Input /\ Quiet
             /\ Goto([Moved("block.next") EXCEPT !.items = Append(@, Value)])
    <3> DEFINE l == "block.next"
               v == Value
    <3>1. Alike(Top.at, l) /\ l \notin TakingAts
      BY <1>0, <1>2, BlockPlaces DEF Same
    <3>2. Holds(l, v)
      BY <1>0, <2>0, <2>2, BlockPlaces DEF Holds, Gets
    <3>3. Goto([Moved(l) EXCEPT !.items = Append(@, v)]) /\ v \in S /\ Reads
      BY <2>0, <2>2 DEF Reads
    <3> HIDE DEF l, v
    <3>4. Goes(S)
      BY <1>0, <2>2, <3>1, <3>2, <3>3, AddedGoes
    <3> QED BY <1>0, <3>4 DEF Steps
  <2> QED BY <1>1, <1>6, <2>0, <2>1, <2>2 DEF ParseBlock, At, After
<1> QED BY <1>4, <1>5, <1>6 DEF ParseBlock
(* Where a prototype is read.                                              *)
LEMMA PrototypePlaces ==
    /\ \A a, b \in ParamAts : Same(a, b)
    /\ {"def", "def.name", "def.open", "def.first", "param.type", "param.name", "param.next",
        "param.comma"} = ParamAts
    /\ ParamAts \subseteq Labels
    /\ ParamAts \cap TakingAts = {"def"}
    /\ ParamAts \cap (ModuleAts \cup ReturnAts \cup PrimaryAts \cup TensorAts \cup CallAts \cup
           ExpressionAts \cup RhsAts \cup DeclAts \cup BlockAts \cup StructAts \cup StartAts \cup
           FirstAts \cup OperandAts) = {}
    /\ ParamAts \cap {"tensor.separator", "tensor.finish", "rhs", "rhs.operand", "rhs.merge"} = {}
BY DEF Same, Alike, Labels, PrimaryAts, StartAts, TensorAts, CallAts, RhsAts, ExpressionAts, DeclAts,
       ReturnAts, ParamAts, BlockAts, StructAts, ModuleAts, OperandAts, TakingAts, FirstAts

(* The parameters are complete and the block begins.                       *)
LEMMA TakeBlockGoes ==
    ASSUME NEW S, Ready(S), Top.at \in ParamAts, TakeBlock, tok # "eof"
    PROVE  Goes(S)
<1> DEFINE l == "block"
           m == Moved(l)
           k == "params"
           cs == m.items
           x == Node(k, NoName, cs)
           items == <<x>>
           T == S \cup {x}
           h == [m EXCEPT !.items = items]
<1>1. Top \in Frames(S) /\ Stage(Top) /\ Tree(S)
  BY BottomIsModule DEF Ready
<1>2. /\ l \in BlockAts /\ l \in Labels /\ l \notin TakingAts /\ l # "rhs"
      /\ l \notin {"tensor.separator", "tensor.finish", "rhs.operand", "rhs.merge"}
  BY BlockPlaces
<1>3. Goto(h) /\ Reads /\ Quiet
  BY DEF TakeBlock, Reads
<1>4. /\ m \in Frames(S) /\ m.at = l /\ m.items = Top.items
      /\ m.prec = Top.prec /\ m.req = Top.req
  BY <1>1, <1>2, MovedFields DEF Moved
<1>5. cs \in Seq(S) /\ \A n \in DOMAIN cs : cs[n].k = "decl"
  BY <1>1, <1>4 DEF Frames, Stage
<1>6. \A n \in DOMAIN cs : cs[n] # Null
  BY <1>5, NullParts
<1>7. /\ k \in PlainKinds
      /\ k # "print" /\ k = "params"
  BY DEF PlainKinds
<1> HIDE DEF m, cs, k, l
<1>8. Tree(T) /\ S \subseteq T /\ x \in T /\ x # Null /\ x.k = k /\ x.c = cs
  BY SMTT(40), <1>1, <1>5, <1>6, <1>7, PlainTree
<1> HIDE DEF x, T
<1>9. items \in Seq(T) /\ Body(items)
  <2>1. items \in Seq(T) /\ items # << >> /\ DOMAIN items = {1} /\ items[1] = x
    BY <1>8
  <2>2. x.k = "params" /\ x.k # "decl" /\ \A n \in DOMAIN x.c : x.c[n].k = "decl"
    BY <1>5, <1>7, <1>8
  <2>3. x # Null
    BY <1>8
  <2> HIDE DEF items
  <2> QED BY ONLY <2>1, <2>2, <2>3 DEF Body
<1> HIDE DEF items
<1>10. h \in Frames(T) /\ h.at = l /\ h.items = items /\ h.prec = Top.prec /\ h.req = Top.req
  <2>1. m \in Frames(T)
    BY <1>4, <1>8, MoreTrees
  <2> QED BY <1>4, <1>9, <2>1 DEF Frames
<1> HIDE DEF h
<1>11. /\ h.at \in BlockAts /\ h.at \notin PrimaryAts /\ h.at \notin TensorAts
       /\ h.at \notin ExpressionAts /\ h.at \notin RhsAts /\ h.at \notin ReturnAts
       /\ h.at \notin DeclAts /\ h.at \notin ParamAts /\ h.at \notin StructAts
       /\ h.at \notin StartAts /\ h.at \notin CallAts
  BY <1>2, <1>10, BlockPlaces
<1>12. /\ Top.at \notin PrimaryAts /\ Top.at \notin TensorAts /\ Top.at \notin ExpressionAts
       /\ Top.at \notin RhsAts /\ Top.at \notin ReturnAts /\ Top.at \notin DeclAts
       /\ Top.at \notin StructAts /\ Top.at \notin ModuleAts
  BY PrototypePlaces
<1>13. h.at \notin {"tensor.separator", "tensor.finish"} /\ h.at \notin {"rhs.operand", "rhs.merge"}
  BY <1>2, <1>10
<1>14. Stage(h)
  BY <1>9, <1>10, <1>11, <1>13 DEF Stage
<1>15. Continues(Top, h)
  BY <1>10, <1>11, <1>12 DEF Continues
<1>16. Facing(h, tok')
  BY <1>2, <1>10 DEF Facing
<1> QED BY <1>3, <1>8, <1>10, <1>14, <1>15, <1>16 DEF Goes

(* parsePrototype.                                                         *)
LEMMA PrototypeSteps ==
    ASSUME NEW S, Ready(S), ParsePrototype
    PROVE  Steps(S)
<1>0. /\ Top.at \in ParamAts /\ Top.at \notin ModuleAts /\ Top.at \notin ReturnAts
      /\ Top \in Frames(S) /\ Tree(S) /\ Stage(Top) /\ tok \in Words
  <2>1. Top.at \in {"def", "def.name", "def.open", "def.first", "param.type", "param.name",
                    "param.next", "param.comma"}
    BY DEF ParsePrototype, At, After
  <2>2. Top.at \in ParamAts
    BY <2>1, PrototypePlaces
  <2> QED BY <2>2, PrototypePlaces, BottomIsModule DEF Ready, InputOK, Words
<1>1. ASSUME Fail PROVE Steps(S)
  BY <1>0, <1>1, FailLeaves DEF Steps
<1>2. ASSUME NEW l \in {"def.name", "def.first", "param.comma"}, Take(l), tok # "eof"
      PROVE  Steps(S)
  <2>1. l \in ParamAts /\ l \notin TakingAts /\ l # "rhs"
    BY PrototypePlaces
  <2> QED BY <1>0, <1>2, <2>1, PrototypePlaces, Taking DEF Steps
<1>3. ASSUME Stay("param.type") PROVE Steps(S)
  <2>1. "param.type" \in ParamAts /\ "param.type" \notin TakingAts
    BY PrototypePlaces
  <2> QED BY <1>0, <1>3, <2>1, PrototypePlaces, Staying DEF Steps
<1>4. ASSUME TakeBlock, tok # "eof" PROVE Steps(S)
  BY <1>0, <1>4, TakeBlockGoes DEF Steps
<1>5. ASSUME Abort PROVE Steps(S)
  BY <1>0, <1>5 DEF Steps
<1>6. ASSUME IsId(tok) PROVE tok # "eof"
  BY <1>6, NamesAreNames
<1>7. CASE At("def") /\ Take("def.name")
  <2>1. tok # "eof"
    BY <1>7, Standing, PrototypePlaces DEF Facing
  <2> QED BY <1>2, <1>7, <2>1
<1>8. CASE At("def.name")
  <2>1. CASE IsId(tok) /\ TakeName("def.open")
    <3>1. "def.open" \in ParamAts /\ "def.open" \notin TakingAts
      BY PrototypePlaces
    <3> QED BY <1>0, <1>6, <2>1, <3>1, PrototypePlaces, TakingName DEF Steps
  <2> QED BY <1>1, <1>8, <2>1 DEF ParsePrototype, At, After
<1>9. CASE At("def.open")
  BY <1>1, <1>2, <1>9 DEF ParsePrototype, At, After
<1>10. CASE At("def.first")
  BY <1>3, <1>4, <1>10 DEF ParsePrototype, At, After
<1>11. CASE At("param.type")
  <2>1. CASE /\ IsId(tok) /\ Consume /\ Quiet
             /\ Goto([Moved("param.name") EXCEPT !.op = tok])
    <3> DEFINE l == "param.name"
               m == Moved(l)
               h == [m EXCEPT !.op = tok]
    <3>1. l \in ParamAts /\ l \notin TakingAts /\ l # "rhs" /\ Same(Top.at, l) /\ l \notin BlockAts
          /\ l \notin RhsAts /\ l \notin {"rhs.operand", "rhs.merge"}
      BY <1>0, PrototypePlaces
    <3>2. Stage(m) /\ Continues(Top, m) /\ m.at = l /\ m \in Frames(S)
      BY <1>0, <3>1, Onward, MovedFields DEF Moved
    <3>3. Goto(h) /\ Reads
      BY <1>6, <2>1 DEF Reads
    <3> HIDE DEF m, l
    <3>4. /\ h \in Frames(S) /\ h.at = m.at /\ h.name = m.name /\ h.items = m.items
          /\ h.lhs = m.lhs /\ h.prec = m.prec /\ h.req = m.req
      BY <1>0, <3>2 DEF Frames
    <3> HIDE DEF h
    <3>5. Stage(h)
      BY <3>1, <3>2, <3>4 DEF Stage
    <3>6. Continues(Top, h) /\ Facing(h, tok')
      BY <3>1, <3>2, <3>4 DEF Continues, Facing
    <3>7. Goes(S)
      BY <1>0, <2>1, <3>3, <3>4, <3>5, <3>6 DEF Goes
    <3> QED BY <1>0, <3>7 DEF Steps
  <2> QED BY <1>5, <1>11, <2>1 DEF ParsePrototype, At, After
<1>12. CASE At("param.name")
  <2>1. CASE /\ IsId(tok) /\ Consume /\ Quiet
             /\ Goto([Moved("param.next") EXCEPT !.items =
                          Append(@, VarDecl(tok, VarType(Top.op, << >>), << >>))])
    <3> DEFINE l == "param.next"
               type == Top.op
               dims == << >>
               init == << >>
               x == VarDecl(tok, VarType(type, dims), init)
    <3>1. l \in ParamAts /\ l \notin TakingAts /\ Same(Top.at, l) /\ l \notin BlockAts
          /\ l \notin TensorAts /\ l \notin CallAts /\ l \notin StartAts
      BY <1>0, PrototypePlaces
    <3>2. init \in Seq(S) /\ dims = << >> /\ Goto([Moved(l) EXCEPT !.items = Append(@, x)])
      BY <2>1
    <3>7. dims \in Seq(Nat)
      OBVIOUS
    <3>3. Reads
      BY <1>6, <2>1 DEF Reads
    <3>8. Tree(S) /\ init \in Seq(S) /\ (type = "tensor" \/ dims = << >>)
      BY <1>0, <3>2
    <3> HIDE DEF l, type, dims, init
    <3>4. PICK T : Tree(T) /\ S \subseteq T /\ x \in T /\ x # Null /\ x.k = "decl"
      BY <3>7, <3>8, DeclTree
    <3> HIDE DEF x
    <3>5. Holds(l, x) /\ Alike(Top.at, l)
      BY <3>1, <3>4 DEF Holds, Same
    <3>6. Goes(S)
      BY <2>1, <3>1, <3>2, <3>3, <3>4, <3>5, AddedGoes
    <3> QED BY <1>0, <3>6 DEF Steps
  <2> QED BY <1>5, <1>12, <2>1 DEF ParsePrototype, At, After
<1>13. CASE At("param.next")
  BY <1>1, <1>2, <1>4, <1>13, Punctuation DEF ParsePrototype, At, After
<1>14. CASE At("param.comma")
  BY <1>1, <1>3, <1>14 DEF ParsePrototype, At, After
<1> QED BY <1>7, <1>8, <1>9, <1>10, <1>11, <1>12, <1>13, <1>14 DEF ParsePrototype

(* Where a struct is read.                                                 *)
LEMMA StructPlaces ==
    /\ Same("struct", "struct.name") /\ Same("struct.open", "struct.member")
    /\ Same("struct.member", "struct.next") /\ Same("struct.end", "struct.member")
    /\ Alike("struct.next", "struct.end") /\ Alike("struct.name", "struct.name")
    /\ {"struct", "struct.name", "struct.open", "struct.member", "struct.next", "struct.end"} = StructAts
    /\ StructAts \subseteq Labels
    /\ StructAts \cap TakingAts = {"struct"}
    /\ StructAts \cap (ModuleAts \cup ReturnAts \cup PrimaryAts \cup TensorAts \cup CallAts \cup
           ExpressionAts \cup RhsAts \cup DeclAts \cup BlockAts \cup ParamAts \cup StartAts \cup
           FirstAts \cup OperandAts) = {}
    /\ StructAts \cap {"tensor.separator", "tensor.finish", "rhs", "rhs.operand", "rhs.merge",
                       "module.record", "block.done", "tensor.nested"} = {}
BY DEF Same, Alike, Labels, PrimaryAts, StartAts, TensorAts, CallAts, RhsAts, ExpressionAts, DeclAts,
       ReturnAts, ParamAts, BlockAts, StructAts, ModuleAts, OperandAts, TakingAts, FirstAts
(* A struct is complete.                                                   *)
LEMMA StructTree ==
    ASSUME NEW S, Tree(S), NEW name, NEW cs \in Seq(S), \A n \in DOMAIN cs : cs[n].k = "decl"
    PROVE  LET x == Node("struct", name, cs)
           IN  /\ Tree(S \cup {x}) /\ S \subseteq S \cup {x} /\ x \in S \cup {x}
               /\ x # Null /\ x.k = "struct"
<1> DEFINE x == Node("struct", name, cs)
<1>1. x.k = "struct" /\ x.c = cs /\ x.dims = << >>
  BY DEF Node, SizedNode
<1>2. \A n \in DOMAIN cs : cs[n] # Null
  BY NullParts
<1> HIDE DEF x
<1>3. Built(x)
  BY <1>1, <1>2 DEF Built, InGrammar, IsLiteral
<1>4. Tree(S \cup {x}) /\ S \subseteq S \cup {x} /\ x \in S \cup {x} /\ x # Null
  BY <1>1, <1>3, OneMore, NullParts
<1> QED BY <1>1, <1>4 DEF x

(* What a struct gives.                                                    *)
LEMMA GivesStruct ==
    ASSUME NEW g, NEW v, NEW t, g.at \in StructAts, v.k = "struct"
    PROVE  Gives(g, v, t)
<1>1. /\ g.at \notin PrimaryAts /\ g.at \notin TensorAts /\ g.at \notin ExpressionAts
      /\ g.at \notin RhsAts /\ g.at \notin ReturnAts /\ g.at \notin DeclAts
      /\ g.at \notin ParamAts \cup BlockAts
  BY StructPlaces
<1> QED BY <1>1 DEF Gives

(* A member is read by a call; it needs no initializer.                    *)
LEMMA MemberEnters ==
    ASSUME NEW S, Ready(S), Top.at = "struct.member", tok # "eof", NEW k \in {"var", "typed"},
           Calling("struct.next", [Frame(k) EXCEPT !.req = FALSE])
    PROVE  Enters(S)
<1> DEFINE l == "struct.next"
           b == Frame(k)
           g == [b EXCEPT !.req = FALSE]
<1>0. Tree(S)
  BY DEF Ready
<1>1. /\ k \in Labels /\ k \notin {"tensor.separator", "tensor.finish", "rhs.operand", "rhs.merge"}
      /\ k \notin RhsAts /\ k \notin BlockAts /\ k \notin StructAts /\ k \in DeclAts /\ k # "rhs"
      /\ k \notin StartAts /\ k \notin TensorAts /\ k \notin CallAts /\ k \notin ParamAts \cup StructAts
  BY StatementPlaces, BlockPlaces
<1>2. /\ Same(Top.at, l) /\ l = "struct.next" /\ l \in StructAts /\ Calling(l, g)
  BY StructPlaces
<1>3. l \notin FirstAts /\ l \notin OperandAts /\ l \notin {"module.record", "block.done",
         "tensor.nested", "rhs.merge"}
  BY <1>2, StructPlaces
<1> HIDE DEF l
<1>4. b \in Frames(S) /\ b.at = k
  BY <1>0, <1>1, FrameFields
<1> HIDE DEF b
<1>5. g \in Frames(S) /\ g.at = k
  BY <1>4 DEF Frames
<1> HIDE DEF g
<1>6. Stage(g) /\ Facing(g, tok)
  BY <1>1, <1>5 DEF Stage, Facing
<1>7. l \in Labels /\ Stage(Moved(l)) /\ Continues(Top, Moved(l)) /\ Moved(l).at = l
  BY <1>2, Onward
<1>8. Calls(Moved(l), g)
  BY <1>1, <1>2, <1>3, <1>5, <1>7 DEF Calls
<1> QED BY <1>2, <1>5, <1>6, <1>7, <1>8, CallEnters

(* The name of a struct is taken.                                          *)
LEMMA StructNameGoes ==
    ASSUME NEW S, Ready(S), At("struct.name"), IsId(tok), TakeName("struct.open")
    PROVE  Goes(S)
<1> DEFINE l == "struct.open"
           f == Top
           h == [f EXCEPT !.at = l, !.name = tok]
<1>1. f \in Frames(S) /\ Stage(f) /\ f.at = "struct.name" /\ tok \in Words /\ Tree(S)
  BY Standing DEF Words
<1>2. f.at \in StructAts /\ l \in StructAts /\ l \in Labels /\ l \notin TakingAts /\ l # "rhs"
  BY <1>1, StructPlaces
<1>3. Goto(h) /\ Quiet /\ Reads
  BY NamesAreNames DEF TakeName, Reads
<1> HIDE DEF l, f
<1>4. h \in Frames(S) /\ h.at = l /\ h.name = tok /\ h.items = f.items /\ h.prec = f.prec /\ h.req = f.req
  BY <1>1, <1>2 DEF Frames
<1> HIDE DEF h
<1>5. /\ h.at \notin PrimaryAts /\ h.at \notin TensorAts /\ h.at \notin ExpressionAts
      /\ h.at \notin RhsAts /\ h.at \notin ReturnAts /\ h.at \notin DeclAts
      /\ h.at \notin ParamAts /\ h.at \notin BlockAts /\ h.at \notin StartAts /\ h.at \notin CallAts
      /\ h.at \notin {"tensor.separator", "tensor.finish", "rhs.operand", "rhs.merge"}
  BY <1>2, <1>4, StructPlaces
<1>6. /\ f.at \notin PrimaryAts /\ f.at \notin TensorAts /\ f.at \notin ExpressionAts
      /\ f.at \notin RhsAts /\ f.at \notin ReturnAts /\ f.at \notin DeclAts
      /\ f.at \notin ParamAts \cup BlockAts /\ f.at \notin ModuleAts
  BY <1>2, StructPlaces
<1>7. Stage(h)
  BY <1>1, <1>2, <1>4, <1>5 DEF Stage
<1>8. Continues(f, h) /\ Facing(h, tok')
  BY <1>2, <1>4, <1>6 DEF Continues, Facing
<1> QED BY <1>1, <1>3, <1>4, <1>7, <1>8 DEF Goes, f

(* parseStruct.                                                            *)
LEMMA StructSteps ==
    ASSUME NEW S, Ready(S), ParseStruct
    PROVE  Steps(S)
<1>0. /\ Top.at \in StructAts /\ Top.at \notin ModuleAts /\ Top.at \notin ReturnAts
      /\ Top \in Frames(S) /\ Tree(S) /\ Stage(Top)
  <2>1. Top.at \in {"struct", "struct.name", "struct.open", "struct.member", "struct.next",
                    "struct.end"}
    BY DEF ParseStruct, At, After
  <2>2. Top.at \in StructAts
    BY <2>1, StructPlaces
  <2> QED BY <2>2, StructPlaces, BottomIsModule DEF Ready
<1>1. ASSUME Fail PROVE Steps(S)
  BY <1>0, <1>1, FailLeaves DEF Steps
<1>2. ASSUME IsId(tok) PROVE tok # "eof"
  BY <1>2, NamesAreNames
<1>3. CASE At("struct") /\ Take("struct.name")
  <2>1. tok # "eof" /\ Top.at = "struct"
    BY <1>3, Standing, StructPlaces DEF Facing
  <2>2. "struct.name" \notin TakingAts
    BY StructPlaces
  <2> QED BY <1>0, <1>3, <2>1, <2>2, StructPlaces, Taking DEF Steps
<1>4. CASE At("struct.name")
  <2>1. CASE IsId(tok) /\ TakeName("struct.open")
    BY <1>0, <1>4, <2>1, StructNameGoes DEF Steps
  <2> QED BY <1>1, <1>4, <2>1 DEF ParseStruct, At, After
<1>5. CASE At("struct.open")
  <2>1. CASE tok = OpenBrace /\ Take("struct.member")
    <3>1. tok # "eof" /\ Top.at = "struct.open" /\ "struct.member" \notin TakingAts
      BY <1>5, <2>1, Punctuation, StructPlaces DEF At
    <3> QED BY <1>0, <2>1, <3>1, StructPlaces, Taking DEF Steps
  <2> QED BY <1>1, <1>5, <2>1 DEF ParseStruct, At, After
<1>6. CASE At("struct.member")
  <2>0. Top.at = "struct.member"
    BY <1>6 DEF At
  <2>1. CASE tok = "var" /\ Calling("struct.next", [Frame("var") EXCEPT !.req = FALSE])
    BY <1>0, <2>0, <2>1, MemberEnters DEF Steps
  <2>2. CASE IsId(tok) /\ Calling("struct.next", [Frame("typed") EXCEPT !.req = FALSE])
    BY <1>0, <1>2, <2>0, <2>2, MemberEnters DEF Steps
  <2> QED BY <1>1, <1>6, <2>0, <2>1, <2>2 DEF ParseStruct, At, After
<1>7. CASE After("struct.next")
  <2>0. ret # << >> /\ Value \in S /\ Gets(Top, Value, tok) /\ Top.at = "struct.next"
    BY <1>7, Getting
  <2>1. CASE Value = Null /\ Give(Null)
    BY <1>0, <2>0, <2>1, PassNull DEF Steps
  <2>2. CASE /\ Value # Null /\ tok = Semicolon /\ Consume /\ Quiet
             /\ Goto([Moved("struct.end") EXCEPT !.items = Append(@, Value)])
    <3> DEFINE l == "struct.end"
               v == Value
    <3>1. Alike(Top.at, l) /\ l \notin TakingAts /\ l \in StructAts
      BY <2>0, StructPlaces
    <3>2. v.k = "decl"
      <4>1. Built(v) /\ v.k \in {"null", "decl"}
        BY <1>0, <2>0 DEF Tree, Gets
      <4> QED BY <2>2, <4>1 DEF Built
    <3>3. /\ l \notin TensorAts /\ l \notin CallAts /\ l \notin BlockAts /\ l \notin StartAts
      BY <3>1, StructPlaces
    <3>4. Holds(l, v)
      BY <3>2, <3>3 DEF Holds
    <3>5. Goto([Moved(l) EXCEPT !.items = Append(@, v)]) /\ v \in S /\ Reads
      BY <2>0, <2>2, Punctuation DEF Reads
    <3> HIDE DEF l, v
    <3>6. Goes(S)
      BY <1>0, <2>2, <3>1, <3>4, <3>5, AddedGoes
    <3> QED BY <1>0, <3>6 DEF Steps
  <2> QED BY <1>1, <1>7, <2>0, <2>1, <2>2 DEF ParseStruct, At, After
<1>8. CASE At("struct.end")
  <2>0. Top.at = "struct.end"
    BY <1>8 DEF At
  <2>1. CASE Stay("struct.member")
    <3>1. Same(Top.at, "struct.member") /\ "struct.member" \notin TakingAts
      BY <2>0, StructPlaces
    <3> QED BY <1>0, <2>1, <3>1, Staying DEF Steps
  <2>2. CASE /\ tok = CloseBrace /\ Consume
             /\ Return(Node("struct", Top.name, Top.items))
             /\ structs' = structs \cup {Top.name}
             /\ UNCHANGED <<diag, scenario, status, module>>
    <3> DEFINE name == Top.name
               cs == Top.items
               x == Node("struct", name, cs)
               T == S \cup {x}
    <3>1. cs \in Seq(S) /\ (\A n \in DOMAIN cs : cs[n].k = "decl") /\ name \in Identifiers
      BY <1>0, <2>0 DEF Frames, Stage, IsId
    <3>2. Return(x) /\ Reads
      BY <2>2, Punctuation DEF Reads
    <3>3. structs' \subseteq Identifiers /\ diag' \in BOOLEAN /\ (diag => diag')
      BY <2>2, <3>1 DEF Ready, FlagsOK
    <3> HIDE DEF name, cs
    <3>4. Tree(T) /\ S \subseteq T /\ x \in T /\ x # Null /\ x.k = "struct"
      BY <1>0, <3>1, StructTree
    <3> HIDE DEF x, T
    <3>5. Gives(Top, x, tok')
      BY <1>0, <3>4, GivesStruct
    <3>6. Leaves(S)
      BY <2>2, <3>2, <3>3, <3>4, <3>5 DEF Leaves
    <3> QED BY <1>0, <3>6 DEF Steps
  <2> QED BY <1>8, <2>0, <2>1, <2>2 DEF ParseStruct, At, After
<1> QED BY <1>3, <1>4, <1>5, <1>6, <1>7, <1>8 DEF ParseStruct
-----------------------------------------------------------------------------
(* The top level.                                                          *)

(* Where the top level is read.                                            *)
LEMMA ModulePlaces ==
    /\ Same("module", "module.record") /\ Alike("module.record", "module")
    /\ {"module", "module.record"} = ModuleAts /\ ModuleAts \subseteq Labels
    /\ {"def", "struct"} \subseteq Labels /\ "def" \in ParamAts /\ "struct" \in StructAts
    /\ ModuleAts \cap (ReturnAts \cup PrimaryAts \cup TensorAts \cup CallAts \cup
           ExpressionAts \cup RhsAts \cup DeclAts \cup BlockAts \cup ParamAts \cup StructAts \cup
           StartAts \cup TakingAts \cup FirstAts \cup OperandAts) = {}
    /\ "module" \notin {"tensor.separator", "tensor.finish", "rhs", "rhs.operand", "rhs.merge"}
    /\ "module.record" \notin {"block.done", "struct.next", "tensor.nested", "rhs.merge"}
    /\ {"def", "struct"} \cap ({"tensor.separator", "tensor.finish", "rhs"} \cup RhsAts \cup BlockAts) = {}
    /\ "def" \notin StructAts
BY DEF Same, Alike, Labels, PrimaryAts, StartAts, TensorAts, CallAts, RhsAts, ExpressionAts, DeclAts,
       ReturnAts, ParamAts, BlockAts, StructAts, ModuleAts, OperandAts, TakingAts, FirstAts

(* Nothing is read after a null record.                                    *)
LEMMA SilentTokens ==
    {"eof", "def", "struct"} \cap SilentEnds = {}
BY Zenon DEF SilentEnds, Semicolon, CloseBrace

(* A record is read by a call.                                             *)
LEMMA RecordKeeps ==
    ASSUME NEW S, Ready(S), At("module"), NEW k \in {"def", "struct"}, tok = k,
           Calling("module.record", Frame(k))
    PROVE  ParserInv'
<1> DEFINE l == "module.record"
           f == Moved(l)
           g == Frame(k)
<1>0. StackOK(S)
  BY DEF Ready
<1>1. Top.at = "module" /\ Top \in Frames(S) /\ Tree(S) /\ status = "run"
  BY Standing DEF At
<1>2. Top = stack[1] /\ Len(stack) = 1
  BY <1>0, <1>1, ModulePlaces, BottomIsModule
<1>3. /\ k \in Labels /\ k \notin {"tensor.separator", "tensor.finish"} \cup RhsAts \cup BlockAts
      /\ k \in StructAts => k = "struct"
      /\ k \in ParamAts \cup StructAts /\ k # "rhs" /\ k # "eof"
  BY ModulePlaces
<1>4. /\ Same(Top.at, l) /\ l = "module.record" /\ l \notin FirstAts /\ l \notin OperandAts
      /\ l \in ModuleAts
  BY <1>1, ModulePlaces
<1>5. Calling(l, g)
  OBVIOUS
<1> HIDE DEF l
<1>6. g \in Frames(S) /\ Stage(g) /\ g.at = k /\ Calls(f, g)
  BY <1>3, <1>4, StartingCall
<1>7. l \in Labels /\ Stage(f) /\ f.at = l
  BY <1>4, Onward
<1>8. f \in Frames(S) /\ f.items = Top.items
  BY <1>1, <1>7, MovedFields DEF Moved
<1>9. /\ stack' = <<g, f>> \o Tail(stack) /\ ret' = << >> /\ tok' = tok
      /\ UNCHANGED Input /\ UNCHANGED <<diag, scenario, structs, status, module>>
  BY <1>5 DEF Calling, CallAt, Quiet, Others, Input
<1> HIDE DEF f, g
<1>10. /\ stack' \in Seq(Frames(S)) /\ Len(stack') = 2
       /\ stack'[1] = g /\ stack'[2] = f
  <2>1. stack \in Seq(Frames(S)) /\ stack # << >>
    BY <1>0 DEF StackOK
  <2> QED BY <1>2, <1>6, <1>8, <1>9, <2>1, PutTwo
<1>11. StackOK(S)'
  <2>1. \A n \in 1 .. 2 : Stage(stack'[n])
    BY <1>6, <1>7, <1>10
  <2>2. \A n \in 1 .. 2 - 1 : Calls(stack'[n + 1], stack'[n])
    <3> SUFFICES ASSUME NEW n \in 1 .. 2 - 1 PROVE Calls(stack'[n + 1], stack'[n])
      OBVIOUS
    <3>1. n = 1 /\ n + 1 = 2
      OBVIOUS
    <3> QED BY <1>6, <1>10, <3>1
  <2>3. stack' # << >> /\ stack'[2].at \in ModuleAts
    BY <1>4, <1>7, <1>10
  <2> QED BY <1>10, <2>1, <2>2, <2>3 DEF StackOK
<1>12. RegisterOK(S)'
  <2>1. Facing(g, tok')
    BY <1>3, <1>6, <1>9 DEF Facing
  <2> QED BY <1>9, <1>10, <2>1 DEF RegisterOK
<1>13. InputOK'
  BY <1>9 DEF Ready, InputOK, Input
<1>14. FlagsOK' /\ Tree(S)' /\ module' \in Seq(S)
  BY <1>9 DEF Ready, FlagsOK, Tree
<1>15. NullsOK'
  <2>1. CASE diag
    BY <1>9, <2>1 DEF NullsOK
  <2>2. CASE ~ diag
    <3>1. tok \notin SilentEnds
      BY SilentTokens
    <3>2. Null \notin ToSet(Top.items) /\ Null \notin ToSet(module)
      BY <1>2, <2>2, <3>1 DEF Ready, NullsOK
    <3> QED BY <1>1, <1>8, <1>9, <1>10, <3>2 DEF NullsOK
  <2> QED BY <2>1, <2>2
<1>16. Ready(S)'
  BY <1>11, <1>12, <1>13, <1>14, <1>15 DEF Ready
<1> QED BY <1>16 DEF ParserInv

(* The module cannot be read further.                                      *)
LEMMA RejectKeeps ==
    ASSUME NEW S, Ready(S), RejectModule
    PROVE  ParserInv'
<1>1. /\ diag' = TRUE /\ status' = "null"
      /\ UNCHANGED <<scenario, text, tok, stack, ret, structs, module>>
  BY DEF RejectModule
<1>2. /\ StackOK(S)' /\ RegisterOK(S)' /\ InputOK' /\ FlagsOK' /\ Tree(S)' /\ module' \in Seq(S)
  BY <1>1 DEF Ready, StackOK, RegisterOK, InputOK, FlagsOK, Tree
<1>3. NullsOK'
  BY <1>1 DEF NullsOK
<1> QED BY <1>2, <1>3 DEF Ready, ParserInv

(* The records with the one that was read.                                 *)
LEMMA RecordsWithLast ==
    ASSUME NEW S, Ready(S), After("module.record"), NEW records, records = Append(Top.items, Value)
    PROVE  /\ records \in Seq(S)
           /\ ~ diag /\ Null \in ToSet(records) => Value = Null /\ tok \in SilentEnds
<1>1. /\ Top.at = "module.record" /\ Top \in Frames(S) /\ ret # << >> /\ Value \in S
  BY Getting
<1>2. Top = stack[1] /\ Len(stack) = 1
  BY <1>1, ModulePlaces, BottomIsModule DEF Ready
<1>3. Top.items \in Seq(S)
  BY <1>1 DEF Frames
<1>4. ToSet(records) = ToSet(Top.items) \cup {Value}
  BY <1>1, <1>3 DEF ToSet
<1>5. ~ diag => Null \notin ToSet(Top.items)
  BY <1>1, <1>2 DEF Ready, NullsOK
<1>6. ~ diag /\ Value = Null => tok \in SilentEnds
  BY <1>1 DEF Ready, NullsOK, Value
<1> QED BY <1>1, <1>3, <1>4, <1>5, <1>6

(* The top level goes on.                                                  *)
LEMMA OnlyMore ==
    ASSUME NEW S, Ready(S), After("module.record"), UNCHANGED Input, Quiet,
           Goto([Moved("module") EXCEPT !.items = Append(Top.items, Value)])
    PROVE  ParserInv'
<1> DEFINE l == "module"
           m == Moved(l)
           records == Append(Top.items, Value)
           h == [m EXCEPT !.items = records]
<1>0. StackOK(S)
  BY DEF Ready
<1>1. /\ Top.at = "module.record" /\ Top \in Frames(S) /\ ret # << >> /\ Value \in S
      /\ status = "run" /\ Tree(S)
  BY Getting DEF After
<1>2. Top = stack[1] /\ Len(stack) = 1
  BY <1>0, <1>1, ModulePlaces, BottomIsModule
<1>3. records \in Seq(S) /\ (~ diag /\ Null \in ToSet(records) => tok \in SilentEnds)
  BY RecordsWithLast
<1>4. /\ l \in Labels /\ l \in ModuleAts /\ l \notin TakingAts /\ l # "rhs" /\ l = "module"
      /\ l \notin StartAts /\ l \notin TensorAts /\ l \notin {"tensor.separator", "tensor.finish"}
      /\ l \notin CallAts /\ l \notin RhsAts /\ l \notin {"rhs.operand", "rhs.merge"}
      /\ l \notin ParamAts \cup StructAts /\ l \notin StructAts /\ l \notin BlockAts
  BY ModulePlaces
<1>5. m \in Frames(S) /\ m.at = l
  BY <1>1, <1>4, MovedFields DEF Moved
<1>6. /\ stack' = <<h>> \o Tail(stack) /\ ret' = << >> /\ tok' = tok
      /\ UNCHANGED Input /\ UNCHANGED <<diag, scenario, structs, status, module>>
  BY DEF Goto, Quiet, Others, Input
<1> HIDE DEF l, m, records
<1>7. h \in Frames(S) /\ h.at = l /\ h.items = records
  BY <1>3, <1>5 DEF Frames
<1> HIDE DEF h
<1>8. stack' \in Seq(Frames(S)) /\ Len(stack') = 1 /\ stack'[1] = h
  <2>1. stack \in Seq(Frames(S)) /\ stack # << >>
    BY <1>0 DEF StackOK
  <2> QED BY <1>2, <1>6, <1>7, <2>1, PutFirst
<1>9. Stage(h) /\ Facing(h, tok')
  BY <1>4, <1>7 DEF Stage, Facing
<1>10. StackOK(S)'
  <2>1. \A n \in 1 .. 1 : Stage(stack'[n])
    BY <1>8, <1>9
  <2>2. 1 .. 1 - 1 = {}
    OBVIOUS
  <2>3. stack' # << >> /\ stack'[1].at \in ModuleAts
    BY <1>4, <1>7, <1>8
  <2> QED BY <1>8, <2>1, <2>2, <2>3 DEF StackOK
<1>11. RegisterOK(S)'
  BY <1>6, <1>8, <1>9 DEF RegisterOK
<1>12. InputOK'
  BY <1>6 DEF Ready, InputOK, Input
<1>13. FlagsOK' /\ Tree(S)' /\ module' \in Seq(S)
  BY <1>6 DEF Ready, FlagsOK, Tree
<1>14. NullsOK'
  <2>1. CASE diag
    BY <1>6, <2>1 DEF NullsOK
  <2>2. CASE ~ diag
    <3>1. Null \notin ToSet(module)
      BY <2>2 DEF Ready, NullsOK
    <3> QED BY <1>1, <1>3, <1>4, <1>6, <1>7, <1>8, <3>1 DEF NullsOK
  <2> QED BY <2>1, <2>2
<1>15. Ready(S)'
  BY <1>10, <1>11, <1>12, <1>13, <1>14 DEF Ready
<1> QED BY <1>15 DEF ParserInv

(* The module is returned.                                                 *)
LEMMA ModuleReturned ==
    ASSUME NEW S, Ready(S), After("module.record"), tok = "eof",
           module' = Append(Top.items, Value), status' = "module",
           UNCHANGED <<scenario, text, tok, stack, ret, structs, diag>>
    PROVE  ParserInv'
<1> DEFINE records == Append(Top.items, Value)
<1>1. /\ records \in Seq(S)
      /\ ~ diag /\ Null \in ToSet(records) => Value = Null /\ tok \in SilentEnds
  BY RecordsWithLast
<1>2. /\ Top.at = "module.record" /\ ret # << >>
  BY Getting
<1>3. StackOK(S)' /\ RegisterOK(S)' /\ InputOK' /\ FlagsOK' /\ Tree(S)'
  BY DEF Ready, StackOK, RegisterOK, InputOK, FlagsOK, Tree
<1>4. tok \notin SilentEnds
  BY SilentTokens
<1>5. NullsOK'
  <2>1. CASE diag
    BY <2>1 DEF NullsOK
  <2>2. CASE ~ diag
    <3>1. Null \notin ToSet(records)
      BY <1>1, <1>4, <2>2
    <3>2. /\ ret # << >> /\ ret[1] = Null => tok \in SilentEnds
          /\ Null \notin ToSet(stack[Len(stack)].items)
      BY <1>2, <2>2 DEF Ready, NullsOK
    <3> QED BY <3>1, <3>2 DEF NullsOK
  <2> QED BY <2>1, <2>2
<1> QED BY <1>1, <1>3, <1>5 DEF Ready, ParserInv

(* parseModule.                                                            *)
LEMMA ModuleKeeps ==
    ASSUME NEW S, Ready(S), ParseModule
    PROVE  ParserInv'
<1>1. CASE At("module")
  <2>1. CASE tok = "def" /\ Calling("module.record", Frame("def"))
    BY <1>1, <2>1, RecordKeeps
  <2>2. CASE tok = "struct" /\ Calling("module.record", Frame("struct"))
    BY <1>1, <2>2, RecordKeeps
  <2>3. CASE RejectModule
    BY <2>3, RejectKeeps
  <2> QED BY <1>1, <2>1, <2>2, <2>3 DEF ParseModule, At, After
<1>2. CASE After("module.record")
  <2>1. CASE /\ UNCHANGED Input /\ Quiet
             /\ Goto([Moved("module") EXCEPT !.items = Append(Top.items, Value)])
    BY <1>2, <2>1, OnlyMore
  <2>2. CASE /\ tok = "eof"
             /\ module' = Append(Top.items, Value) /\ status' = "module"
             /\ UNCHANGED <<scenario, text, tok, stack, ret, structs, diag>>
    BY <1>2, <2>2, ModuleReturned
  <2> QED BY <1>2, <2>1, <2>2 DEF ParseModule, At, After
<1> QED BY <1>1, <1>2 DEF ParseModule
-----------------------------------------------------------------------------
(* The parser.                                                             *)

(* The parser starts with a null pointer and nothing else.                 *)
LEMMA InitReady == Init => ParserInv
<1> SUFFICES ASSUME Init PROVE ParserInv
  OBVIOUS
<1> DEFINE S == {Null}
           l == "module"
           f == Frame(l)
           first == scenario.script[1]
<1>1. Tree(S)
  <2>1. Null.c \in Seq(S) /\ Null \in S
    BY NullParts
  <2>2. Built(Null)
    BY NullParts DEF Built, InGrammar, IsLiteral
  <2> QED BY <2>1, <2>2 DEF Tree
<1>2. /\ scenario \in Scenarios /\ scenario.script \in Seq(Tokens) /\ scenario.script # << >>
      /\ scenario.max \in Nat /\ Len(scenario.script) < scenario.max
  BY ScenariosAreInputs DEF Init
<1>3. first \in Tokens /\ 0 < scenario.max
  <2> DEFINE script == scenario.script
             max == scenario.max
  <2>1. script \in Seq(Tokens) /\ script # << >> /\ max \in Nat /\ Len(script) < max
    BY <1>2
  <2> HIDE DEF script, max
  <2>2. script[1] \in Tokens /\ 0 < max
    BY <2>1
  <2> QED BY <2>2 DEF script, max
<1>4. /\ text = << >> /\ tok = first /\ stack = <<f>> /\ ret = << >> /\ structs = {}
      /\ diag = FALSE /\ status = "run" /\ module = << >>
  BY DEF Init
<1>5. InputOK
  BY <1>2, <1>3, <1>4 DEF InputOK
<1>6. FlagsOK /\ module \in Seq(S)
  <2>1. FlagsOK
    BY <1>4 DEF FlagsOK
  <2>2. << >> \in Seq(S)
    OBVIOUS
  <2> QED BY <1>4, <2>1, <2>2
<1>7. /\ l \in Labels /\ l \in ModuleAts /\ l \notin TakingAts /\ l # "rhs" /\ l = "module"
      /\ l \notin StartAts /\ l \notin TensorAts /\ l \notin {"tensor.separator", "tensor.finish"}
      /\ l \notin CallAts /\ l \notin RhsAts /\ l \notin {"rhs.operand", "rhs.merge"}
      /\ l \notin ParamAts \cup StructAts /\ l \notin StructAts /\ l \notin BlockAts
  BY ModulePlaces
<1> HIDE DEF S, l, first
<1>8. f \in Frames(S) /\ f.at = l /\ f.items = << >>
  BY <1>1, <1>7, FrameFields
<1> HIDE DEF f
<1>9. stack \in Seq(Frames(S)) /\ Len(stack) = 1 /\ stack[1] = f /\ stack # << >>
  BY <1>4, <1>8
<1>10. Stage(f) /\ Facing(f, tok)
  BY <1>7, <1>8 DEF Stage, Facing
<1>11. StackOK(S)
  <2>1. \A n \in 1 .. 1 : Stage(stack[n])
    BY <1>9, <1>10
  <2>2. 1 .. 1 - 1 = {}
    OBVIOUS
  <2> QED BY <1>7, <1>8, <1>9, <2>1, <2>2 DEF StackOK
<1>12. RegisterOK(S)
  BY <1>4, <1>9, <1>10 DEF RegisterOK
<1>13. NullsOK
  <2>1. ToSet(module) = {} /\ ToSet(f.items) = {}
    BY <1>4, <1>8 DEF ToSet
  <2> QED BY <1>4, <1>9, <2>1 DEF NullsOK
<1>14. Ready(S)
  BY <1>1, <1>5, <1>6, <1>11, <1>12, <1>13 DEF Ready
<1> QED BY <1>14 DEF ParserInv

(* Every step keeps the invariant.                                         *)
LEMMA StepKeeps == ParserInv /\ [Next]_vars => ParserInv'
<1> SUFFICES ASSUME ParserInv, [Next]_vars PROVE ParserInv'
  OBVIOUS
<1> PICK S : Ready(S)
  BY DEF ParserInv
<1>1. CASE UNCHANGED vars
  <2>1. Ready(S)'
    BY <1>1 DEF vars, Ready, StackOK, RegisterOK, InputOK, NullsOK, FlagsOK, Tree
  <2> QED BY <2>1 DEF ParserInv
<1>2. CASE ParseModule
  BY <1>2, ModuleKeeps
<1>3. CASE ParsePrototype
  BY <1>3, PrototypeSteps, StepsKeep
<1>4. CASE ParseStruct
  BY <1>4, StructSteps, StepsKeep
<1>5. CASE ParseBlock
  BY <1>5, BlockSteps, StepsKeep
<1>6. CASE ParseVarDeclaration
  BY <1>6, VarDeclarationSteps, StepsKeep
<1>7. CASE ParseTypedDeclaration
  BY <1>7, TypedDeclarationSteps, StepsKeep
<1>8. CASE ParseReturn
  BY <1>8, ReturnSteps, StepsKeep
<1>9. CASE ParseExpression
  BY <1>9, ExpressionSteps, StepsKeep
<1>10. CASE ParseBinOpRHS
  BY <1>10, RhsSteps, StepsKeep
<1>11. CASE ParsePrimary
  BY <1>11, PrimarySteps, StepsKeep
<1>12. CASE ParseIdentifierExpr
  BY <1>12, IdentifierSteps, StepsKeep
<1>13. CASE ParseParenExpr
  BY <1>13, ParenSteps, StepsKeep
<1>14. CASE ParseTensorLiteralExpr
  BY <1>14, TensorSteps, StepsKeep
<1>15. CASE ParseStructLiteralExpr
  BY <1>15, StructLiteralSteps, StepsKeep
<1> QED BY <1>1, <1>2, <1>3, <1>4, <1>5, <1>6, <1>7, <1>8, <1>9, <1>10, <1>11, <1>12, <1>13,
           <1>14, <1>15 DEF Next

(* The invariant of the parser: each active function was called for what   *)
(* the function below it goes on with, and all that was built is a tree.   *)
THEOREM ParserIsReady == Spec => []ParserInv
BY InitReady, StepKeeps, PTL DEF Spec

-----------------------------------------------------------------------------
(* What lies below a tree.                                                 *)

(* The levels of these trees.                                              *)
Levels(f, trees, k) ==
    f = [n \in 0 .. k |-> IF n = 0 THEN trees ELSE WithChildren(f[n - 1])]

(* There are as many as one wants.                                         *)
LEMMA LevelsExist == \A trees : \A k \in Nat : \E f : Levels(f, trees, k)
<1> TAKE trees
<1> DEFINE P == {k \in Nat : \E f : Levels(f, trees, k)}
<1>1. 0 \in P
  <2> DEFINE f == [n \in 0 .. 0 |-> trees]
  <2>1. \A n \in 0 .. 0 : n = 0 /\ f[n] = trees
    OBVIOUS
  <2>2. f = [n \in 0 .. 0 |-> IF n = 0 THEN trees ELSE WithChildren(f[n - 1])]
    BY <2>1
  <2>3. Levels(f, trees, 0)
    BY <2>2, Zenon DEF Levels
  <2> QED BY <2>3
<1>2. ASSUME NEW k \in Nat, k \in P PROVE k + 1 \in P
  <2> PICK f : Levels(f, trees, k)
    BY <1>2
  <2> DEFINE g == [n \in 0 .. k + 1 |-> IF n = k + 1 THEN WithChildren(f[k]) ELSE f[n]]
  <2>1. ASSUME NEW n \in 0 .. k + 1
        PROVE  g[n] = IF n = 0 THEN trees ELSE WithChildren(g[n - 1])
    <3>1. CASE n = k + 1
      <4>1. n # 0 /\ n - 1 = k /\ k \in 0 .. k + 1 /\ k # k + 1
        BY <3>1
      <4>2. g[n] = WithChildren(f[k]) /\ g[n - 1] = f[k]
        BY <3>1, <4>1
      <4> QED BY <4>1, <4>2
    <3>2. CASE n # k + 1
      <4>1. n \in 0 .. k
        BY <3>2
      <4>2. f[n] = IF n = 0 THEN trees ELSE WithChildren(f[n - 1])
        BY <4>1 DEF Levels
      <4>3. g[n] = f[n]
        BY <3>2
      <4>4. CASE n = 0
        BY <4>2, <4>3, <4>4
      <4>5. CASE n # 0
        <5>1. n - 1 \in 0 .. k + 1 /\ n - 1 # k + 1
          BY <4>1, <4>5
        <5>2. g[n - 1] = f[n - 1]
          BY <5>1
        <5> QED BY <4>2, <4>3, <4>5, <5>2
      <4> QED BY <4>4, <4>5
    <3> QED BY <3>1, <3>2
  <2>2. g = [n \in 0 .. k + 1 |-> g[n]]
    OBVIOUS
  <2> HIDE DEF g
  <2>3. Levels(g, trees, k + 1)
    BY <2>1, <2>2 DEF Levels
  <2> QED BY <2>3
<1> HIDE DEF P
<1>3. Nat \subseteq P
  BY <1>1, <1>2, NatSetInduction
<1> QED BY <1>3 DEF P

(* A set of trees has what lies below its trees.                           *)
LEMMA NodesAreTrees ==
    ASSUME NEW S, Tree(S), NEW trees, trees \subseteq S, text \in Seq(Tokens)
    PROVE  NodesOf(trees) \subseteq S
<1> DEFINE levels == Len(text) + 1
           f == CHOOSE f : Levels(f, trees, levels)
           P == {n \in Nat : n <= levels => f[n] \subseteq S}
<1>1. levels \in Nat
  OBVIOUS
<1>2. NodesOf(trees) = f[levels]
  BY Zenon DEF NodesOf, Levels
<1> HIDE DEF levels
<1>3. Levels(f, trees, levels)
  BY <1>1, LevelsExist, Zenon
<1> HIDE DEF f
<1>4. ASSUME NEW n \in 0 .. levels
      PROVE  f[n] = IF n = 0 THEN trees ELSE WithChildren(f[n - 1])
  BY <1>3 DEF Levels
<1>5. 0 \in P
  <2>1. 0 \in 0 .. levels
    BY <1>1
  <2> QED BY <1>4, <2>1
<1>6. ASSUME NEW n \in Nat, n \in P PROVE n + 1 \in P
  <2> SUFFICES ASSUME n + 1 <= levels PROVE f[n + 1] \subseteq S
    OBVIOUS
  <2>1. n + 1 \in 0 .. levels /\ n + 1 # 0 /\ (n + 1) - 1 = n /\ n <= levels
    BY <1>1
  <2>2. f[n + 1] = WithChildren(f[n])
    BY <1>4, <2>1
  <2>3. f[n] \subseteq S
    BY <1>6, <2>1
  <2>4. \A x \in f[n] : ToSet(x.c) \subseteq S
    BY <2>3 DEF Tree, ToSet
  <2> QED BY <2>2, <2>3, <2>4 DEF WithChildren
<1> HIDE DEF P
<1>7. Nat \subseteq P
  BY <1>5, <1>6, NatSetInduction
<1>8. levels \in P
  BY <1>1, <1>7
<1> QED BY <1>1, <1>2, <1>8 DEF P

(* All nodes of a module and of the value under construction are built     *)
(* well.                                                                   *)
LEMMA AllBuilt ==
    ASSUME NEW S, Ready(S)
    PROVE  \A e \in Parsed \cup InProgress : Built(e) /\ e.c \in Seq(S)
<1>1. Tree(S) /\ text \in Seq(Tokens)
  BY DEF Ready, InputOK
<1>2. ToSet(module) \subseteq S
  BY DEF Ready, ToSet
<1>3. ToSet(ret) \subseteq S
  <2>1. ret = << >> \/ \E v \in S : ret = <<v>>
    BY DEF Ready, RegisterOK
  <2> QED BY <2>1 DEF ToSet
<1>4. Parsed \subseteq S /\ InProgress \subseteq S
  BY <1>1, <1>2, <1>3, NodesAreTrees DEF Parsed, InProgress
<1> QED BY <1>1, <1>4 DEF Tree

(* A module that is returned is a set of trees of the grammar, which is    *)
(* what MLIRGen relies on.                                                 *)
ModuleInGrammar == status = "module" => \E S : Grammatical(S) /\ ToSet(module) \subseteq S

(* What the invariant says of the properties.                              *)
LEMMA ReadyImplies ==
    ParserInv => /\ TypeOK /\ PrecedenceRespected /\ ModulesGrammatical
                 /\ HolesReported /\ TensorsUniform /\ ModuleInGrammar
<1> SUFFICES ASSUME ParserInv
             PROVE  /\ TypeOK /\ PrecedenceRespected /\ ModulesGrammatical
                    /\ HolesReported /\ TensorsUniform /\ ModuleInGrammar
  OBVIOUS
<1> PICK S : Ready(S)
  BY DEF ParserInv
<1>1. \A e \in Parsed \cup InProgress : Built(e)
  BY AllBuilt
<1>2. TypeOK
  <2>1. Len(ret) <= 1
    BY DEF Ready, RegisterOK
  <2>2. stack # << >> /\ Last(stack).at \in {"module", "module.record"}
    BY DEF Ready, StackOK, Last, ModuleAts
  <2> QED BY <2>1, <2>2 DEF Ready, InputOK, FlagsOK, TypeOK
<1>3. PrecedenceRespected
  BY <1>1 DEF PrecedenceRespected, Built
<1>4. ModulesGrammatical
  BY <1>1 DEF ModulesGrammatical, Built
<1>5. HolesReported
  <2>1. status = "null" \/ Null \in ToSet(module) => diag
    BY DEF Ready, NullsOK
  <2>2. ASSUME NEW e \in Parsed \cup InProgress, Null \in ToSet(e.c)
        PROVE  e.k \in {"decl", "struct_literal", "return"}
    BY <1>1, <2>2 DEF Built, ToSet
  <2> QED BY <2>1, <2>2 DEF HolesReported
<1>6. TensorsUniform
  BY <1>1 DEF TensorsUniform, Built
<1>7. ModuleInGrammar
  <2>1. ToSet(module) \subseteq S
    BY DEF Ready, ToSet
  <2>2. Grammatical(S)
    BY DEF Ready, Tree, Built, Grammatical
  <2> QED BY <2>1, <2>2 DEF ModuleInGrammar
<1> QED BY <1>2, <1>3, <1>4, <1>5, <1>6, <1>7

(* The machine keeps its types, and takes no token beyond the end.         *)
THEOREM ParserTypes == Spec => []TypeOK
BY ParserIsReady, ReadyImplies, PTL

(* Operators are grouped by their precedence, equal ones to the left, in   *)
(* every expression parseBinOpRHS builds.                                  *)
THEOREM GroupsByPrecedence == Spec => []PrecedenceRespected
BY ParserIsReady, ReadyImplies, PTL

(* Whatever the tokens, the modules have the form that MLIRGen needs.      *)
THEOREM ParsesTheGrammar == Spec => [](ModulesGrammatical /\ ModuleInGrammar)
BY ParserIsReady, ReadyImplies, PTL

(* No record is lost without a message, and a null expression is left in   *)
(* declarations, struct literals and returns only.                         *)
THEOREM ReportsHoles == Spec => []HolesReported
BY ParserIsReady, ReadyImplies, PTL

(* A literal has one shape, which is the one its dims announce.            *)
THEOREM LiteralsAreUniform == Spec => []TensorsUniform
BY ParserIsReady, ReadyImplies, PTL
=============================================================================
