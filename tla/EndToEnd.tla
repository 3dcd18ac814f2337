------------------------------ MODULE EndToEnd ------------------------------
(***************************************************************************)
(* What a Toy program prints, computed from its source and, in the same    *)
(* way, from the functions at each moment of the pipeline.  Elements are   *)
(* symbols, so an element that is lost, permuted or computed from others   *)
(* shows.  The pipeline must keep the output and, when the source has one, *)
(* get to code the affine lowering accepts.                                *)
(***************************************************************************)
EXTENDS Driver, SourceMeaning

-----------------------------------------------------------------------------
(* Values.                                                                 *)

Value(k, dims, data) == [k |-> k, dims |-> dims, data |-> data]
TensorValue(dims, data) == Value("tensor", dims, data)
StructValue(parts) == Value("struct", << >>, parts)
Undefined == Value("undefined", << >>, << >>)

Sized(dims, data) == IF Size(dims) = Len(data) THEN TensorValue(dims, data) ELSE Undefined

RECURSIVE Numbers(_)
Numbers(e) ==
    IF e.k = "num" THEN <<e.name>>
    ELSE FlattenSeq([n \in DOMAIN e.c |-> Numbers(e.c[n])])

RECURSIVE AttributeValue(_)
AttributeValue(e) ==
    IF e.k = "array" THEN StructValue([n \in DOMAIN e.c |-> AttributeValue(e.c[n])])
    ELSE Sized(e.dims, Numbers(e))

Elementwise(op, x, y) ==
    IF x.k = "tensor" /\ y.k = "tensor" /\ x.dims = y.dims
    THEN TensorValue(x.dims, [n \in DOMAIN x.data |-> <<op, x.data[n], y.data[n]>>])
    ELSE Undefined

Transposed(x) ==
    LET dims == Reverse(x.dims)
    IN  IF x.k # "tensor" THEN Undefined
        ELSE TensorValue(dims,
                 [n \in DOMAIN x.data |-> x.data[Linear(x.dims, Reverse(IndexAt(dims, n - 1))) + 1]])

(* A value of a type, struct layouts included.                             *)
RECURSIVE Fits(_, _)
Fits(x, type) ==
    IF ~ IsStruct(type) THEN x.k = "tensor"
    ELSE /\ x.k = "struct" /\ Len(x.data) = Len(type.elements)
         /\ \A n \in DOMAIN x.data : Fits(x.data[n], type.elements[n])

-----------------------------------------------------------------------------
(* Code: for each function its parameters, their types, its effects and    *)
(* the terms it computes besides.  calls bounds the depth of calls.        *)

RECURSIVE Meaning(_, _, _, _)
Meaning(c, t, env, calls) ==
    LET args == [n \in DOMAIN t.args |-> Meaning(c, t.args[n], env, calls)]
    IN  CASE t.op = "arg" -> env[t.attr.name]
          [] t.op \in {"constant", "struct_constant"} -> AttributeValue(t.attr)
          [] t.op \in {"add", "mul"} -> Elementwise(t.op, args[1], args[2])
          [] t.op = "transpose" -> Transposed(args[1])
          [] t.op = "reshape" ->
               IF args[1].k = "tensor" THEN Sized(t.attr.dims, args[1].data) ELSE Undefined
          [] t.op = "cast" -> args[1]
          [] t.op = "struct_access" ->
               IF args[1].k = "struct" /\ t.attr.dims[1] \in DOMAIN args[1].data
               THEN args[1].data[t.attr.dims[1]] ELSE Undefined
          [] t.op = "generic_call" ->
               IF ~ (/\ calls > 0 /\ t.attr.name \in DOMAIN c
                     /\ Len(args) = Len(c[t.attr.name].params)
                     /\ \A n \in DOMAIN args : Fits(args[n], c[t.attr.name].types[n]))
               THEN Undefined
               ELSE LET f == c[t.attr.name]
                        return == f.effects[Len(f.effects)]
                        inner == [name \in ToSet(f.params) |->
                                     args[CHOOSE n \in DOMAIN args : f.params[n] = name]]
                    IN  IF return.args = << >> THEN Undefined
                        ELSE Meaning(c, return.args[1], inner, calls - 1)

(* What a function prints; Undefined is among it when anything the         *)
(* function computes, or returns to nobody, has no value.                  *)
RECURSIVE Output(_, _, _, _)
Output(c, name, args, calls) ==
    LET f == c[name]
        env == [p \in ToSet(f.params) |-> args[CHOOSE n \in DOMAIN args : f.params[n] = p]]
        Of(t) == Meaning(c, t, env, calls)
        undef == {t \in ToSet(f.terms) : Of(t) = Undefined}
        effect(t) ==
            IF t.op = "return" THEN << >>
            ELSE IF t.op = "print"
            THEN <<IF Of(t.args[1]).k = "tensor" THEN Of(t.args[1]) ELSE Undefined>>
            ELSE IF Of(t) = Undefined THEN <<Undefined>>
            ELSE Output(c, t.attr.name, [n \in DOMAIN t.args |-> Of(t.args[n])], calls - 1)
    IN  IF undef # {} THEN <<Undefined>>
        ELSE FlattenSeq([n \in DOMAIN f.effects |-> effect(f.effects[n])])

-----------------------------------------------------------------------------
(* The two sides.                                                          *)

ParamNames(f) ==
    LET n == Cardinality(OfKind(f, {"arg"})) IN [i \in 1 .. n |-> f.ops[i].attr.name]

GeneratedCode ==
    [name \in {funcs[n].name : n \in DOMAIN funcs} |->
        LET f == funcs[CHOOSE n \in DOMAIN funcs : funcs[n].name = name]
        IN  [params |-> ParamNames(f), types |-> f.types,
             effects |-> EffectsOf(f), terms |-> << >>]]

(* The terms of the statements, used or not.                               *)
RECURSIVE Terms(_, _)
Terms(statements, env) ==
    IF statements = << >> THEN << >>
    ELSE LET s == statements[1]
             more(e) == Terms(Tail(statements), e)
         IN  CASE s.k = "decl"   -> <<With(env, s)[s.name].term>> \o more(With(env, s))
               [] s.k = "print"  -> <<TermOf(s.c[1], env)>> \o more(env)
               [] s.k = "return" -> [n \in DOMAIN s.c |-> TermOf(s.c[n], env)]
               [] OTHER          -> <<TermOf(s, env)>> \o more(env)

Definitions == {n \in DOMAIN prog : prog[n].k = "def"}

SourceCode ==
    [name \in {prog[n].name : n \in Definitions} |->
        LET def == prog[CHOOSE n \in Definitions : prog[n].name = name]
            params == def.c[1].c
        IN  [params |-> [n \in DOMAIN params |-> params[n].name],
             types |-> [n \in DOMAIN params |-> Layout(params[n].c[1].name)],
             effects |-> Effects(Tail(def.c), EnvOf(def)),
             terms |-> Terms(Tail(def.c), EnvOf(def))]]

Calling(c, names) ==
    UNION {{t.attr.name : t \in {e \in ToSet(c[n].effects) : e.op = "generic_call"}} : n \in names}

(* Parameters and members are declared without a shape.                    *)
Plain ==
    \A n \in DOMAIN prog :
        LET decls == IF prog[n].k = "def" THEN prog[n].c[1].c ELSE prog[n].c
        IN  \A i \in DOMAIN decls : decls[i].c[1].dims = << >>

(* A legal program with a main without parameters, from which calls lead   *)
(* to every other function, and in which every value is defined.           *)
HasOutput ==
    /\ Legal /\ Plain
    /\ LET c == SourceCode
       IN  /\ "main" \in DOMAIN c /\ c["main"].params = << >>
           /\ \A S \in SUBSET DOMAIN c :
                  "main" \in S /\ Calling(c, S) \subseteq S => S = DOMAIN c
           /\ Undefined \notin ToSet(Output(c, "main", << >>, Len(prog)))
           /\ \A t \in ToSet(c["main"].effects) : t.op = "return" =>
                  \A n \in DOMAIN t.args :
                      Meaning(c, t.args[n], << >>, Len(prog)).k = "tensor"

-----------------------------------------------------------------------------
(* Properties.                                                             *)

(* What mlirGen hands over means what the source says: the property of     *)
(* SourceMeaning at the moment the driver takes the module.                *)
GeneratedMeaning == phase = "mlirGen" => MeaningPreserved

(* Between two rewrites of the passes the functions are what the verifiers *)
(* accept, as those of mlirGen were: not only between the passes, where    *)
(* the pass manager looks, but for the next pattern too, which relies on   *)
(* it.                                                                     *)
WellFormedThroughout ==
    phase = "passes" /\ level = "toy" /\ HasOutput => HandedOver

(* At every step of inlining, canonicalization, inference and CSE, main    *)
(* prints what the source does: the calls that are left, the values that   *)
(* were remapped and the constants that were folded agree with it element  *)
(* by element.                                                             *)
OutputPreserved ==
    phase = "passes" /\ level = "toy" /\ HasOutput =>
        Output(GeneratedCode, "main", << >>, Len(prog)) =
            Output(SourceCode, "main", << >>, Len(prog))

Failed == phase = "crash" \/ (phase = "exit" /\ dump = "none")

(* A program with an output never stops the compiler and is never rejected *)
(* by it: the inliner's simplification has folded every struct away when   *)
(* shape inference, which cannot, runs (src/src/main.cpp:118).  Only the   *)
(* affine lowering may refuse it, for what it has no pattern for.          *)
LegalCompiles ==
    Failed /\ status # "run" /\ HasOutput =>
        /\ passes # << >> /\ Head(passes) = "affine"
        /\ funcs[1].result # << >> \/ OfKind(funcs[1], {"reshape"}) # {}

(* What reaches the affine lowering is what AffineLowering assumes: main   *)
(* alone, one return at its end, every value with a shape, no cast, call   *)
(* or struct left, and elementwise operations whose operands and result    *)
(* are of one shape (ProgramsAreInferred and Matched).                     *)
ReadyForAffine ==
    Pass({"affine"}) /\ HasOutput =>
        /\ Len(funcs) = 1
        /\ LET f == funcs[1]
           IN  /\ f.ops # << >> /\ OfKind(f, {"return"}) = {Len(f.ops)}
               /\ \A v \in DOMAIN f.ops : IsRanked(f.types[v]) \/ f.types[v] = NoResult
               /\ OfKind(f, Kinds \ {"constant", "add", "mul", "transpose", "reshape",
                                      "print", "return"}) = {}
               /\ \A v \in OfKind(f, {"add", "mul"}) :
                      {f.types[Input(f, v)], f.types[f.ops[v].args[2]]} = {f.types[v]}
=============================================================================
