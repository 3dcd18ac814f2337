------------------------------- MODULE Driver -------------------------------
(***************************************************************************)
(* main, dumpMLIR and dumpAST of src/src/main.cpp: the AST of the parser   *)
(* goes through MLIRGen, whose steps are those of its own module, and the  *)
(* module it returns through the pipeline of the action.                   *)
(*                                                                         *)
(* The inliner goes through the call graph from the callees to the         *)
(* callers.  It canonicalizes a function, inlines all its calls, and       *)
(* begins again until there was nothing to inline.  The other toy passes   *)
(* run on each function for itself, so one function after the other is as  *)
(* good as all at the same time.                                           *)
(***************************************************************************)
EXTENDS Canonicalizer

CONSTANTS
    Requests(_),   \* the values of -emit a module is compiled with
    Complete(_)    \* whether an AST has no null pointer in it

VARIABLES
    emitAction,    \* the option -emit
    phase,         \* "start", "mlirGen", "passes", "exit", "crash"
    passes,        \* what is left of the pipeline
    at,            \* the function the pass is at, 0 between two of them
    done,          \* the functions the pass has done
    inlining,      \* the inliner is inlining calls in function at
    level,         \* the dialect main is in
    dump,          \* what has been dumped
    code           \* the exit code

genVars == vars
passVars == <<passes, at, done, inlining, level>>
driverVars == <<emitAction, phase, passes, at, done, inlining, level, dump, code>>
allVars == <<vars, driverVars>>

-----------------------------------------------------------------------------
(* main() up to the pass manager.                                          *)

Actions == <<"none", "ast", "mlir", "mlir-affine", "mlir-llvm", "llvm", "jit">>

AtLeast(action, bound) ==
    SelectInSeq(Actions, LAMBDA a : a = action) >= SelectInSeq(Actions, LAMBDA a : a = bound)

Exit(what, c) ==
    /\ phase' = "exit" /\ dump' = what /\ code' = c
    /\ UNCHANGED <<emitAction, passVars>>

Stop ==
    /\ phase' = "crash"
    /\ UNCHANGED <<genVars, emitAction, passVars, dump, code>>

(* The default of the switch; the JIT is not implemented.                  *)
Usage ==
    /\ phase = "start" /\ emitAction \in {"none", "jit"}
    /\ Exit("none", 1) /\ UNCHANGED genVars

(* main returns what dumpAST does and drops the result of dumpMLIR.        *)
FileNotOpened ==
    /\ phase = "start" /\ emitAction \notin {"none", "jit"}
    /\ Exit("none", IF emitAction = "ast" THEN -1 ELSE 0) /\ UNCHANGED genVars

(* parseModule returned null, which both functions follow.                 *)
ParserFailed == phase = "start" /\ emitAction \notin {"none", "jit"} /\ Stop

DumpAST ==
    /\ phase = "start" /\ emitAction = "ast"
    /\ \/ Complete(prog) /\ Exit("ast", 0) /\ UNCHANGED genVars
       \/ ~ Complete(prog) /\ Stop

CallMLIRGen ==
    /\ phase = "start" /\ emitAction \notin {"none", "jit", "ast"}
    /\ phase' = "mlirGen"
    /\ UNCHANGED <<genVars, emitAction, passVars, dump, code>>

(* A step of mlirGen.                                                      *)
Generate == phase = "mlirGen" /\ Next /\ UNCHANGED driverVars

(* module.get() of a null module is followed for the name of the anchor.   *)
NullModule == phase = "mlirGen" /\ status \in {"null", "crash"} /\ Stop

(* Faulty variant: shape inference before the inliner.                     *)
PipelineInferringFirst(action) ==
    <<"shape inference", "inliner", "canonicalizer", "cse">>
    \o (IF AtLeast(action, "mlir-affine") THEN <<"affine">> ELSE << >>)
    \o (IF AtLeast(action, "llvm") THEN <<"llvm">> ELSE << >>)

(* The toy passes are added whatever the action is.                        *)
Pipeline(action) ==
    <<"inliner", "shape inference", "canonicalizer", "cse">>
    \o (IF AtLeast(action, "mlir-affine") THEN <<"affine">> ELSE << >>)
    \o (IF AtLeast(action, "llvm") THEN <<"llvm">> ELSE << >>)

BuildPipeline ==
    /\ phase = "mlirGen" /\ status = "module"
    /\ phase' = "passes" /\ passes' = Pipeline(emitAction)
    /\ UNCHANGED <<genVars, emitAction, at, done, inlining, level, dump, code>>

-----------------------------------------------------------------------------
(* Passes over the functions.                                              *)

Pass(names) == phase = "passes" /\ passes # << >> /\ Head(passes) \in names

ToyPasses == {"inliner", "shape inference", "canonicalizer", "cse"}

(* dumpMLIR returns 4, which main drops.                                   *)
PassFails == Exit("none", 0) /\ UNCHANGED genVars

SetFunction(f) ==
    /\ funcs' = [funcs EXCEPT ![at] = f]
    /\ UNCHANGED <<prog, rec, structMap, symbolTable, todo, vals, attrs, diag, status>>

Callees(n) ==
    {m \in DOMAIN funcs : \E v \in OfKind(funcs[n], {"generic_call"}) :
        funcs[n].ops[v].attr.name = funcs[m].name}

(* n and the functions that calls lead to from it.                         *)
Below(n) ==
    {m \in DOMAIN funcs : \A S \in SUBSET DOMAIN funcs :
        n \in S /\ (\A k \in S : Callees(k) \subseteq S) => m \in S}

Recursive(n) == \E m \in Callees(n) : n \in Below(m)

Enter(n) ==
    /\ Pass(ToyPasses) /\ at = 0 /\ n \notin done
    /\ Pass({"inliner"}) => \A m \in Callees(n) \ done : n \in Below(m)
    /\ at' = n
    /\ UNCHANGED <<genVars, emitAction, phase, passes, done, inlining, level, dump, code>>

Rewrites(f) == IF Pass({"cse"}) THEN Eliminated(f) ELSE Canonicalized(f)

Rewriting == Pass({"inliner", "canonicalizer", "cse"}) /\ at # 0 /\ ~ inlining

Rewrite ==
    /\ Rewriting
    /\ \E f \in Rewrites(funcs[at]) : SetFunction(f)
    /\ UNCHANGED driverVars

ReshapeAsserts ==
    /\ Rewriting /\ ~ Pass({"cse"})
    /\ IllSized(funcs[at]) # {}
    /\ Stop

(* The calls of f that can be inlined, by the hooks of the dialect all     *)
(* that the library does not exclude: the callee is known and not          *)
(* recursive, and the counts of operands and results agree.                *)
Inlinable(f) ==
    {v \in OfKind(f, {"generic_call"}) :
        \E n \in DOMAIN funcs :
            /\ funcs[n].name = f.ops[v].attr.name
            /\ n # at /\ ~ Recursive(n)
            /\ Cardinality(OfKind(funcs[n], {"arg"})) = Len(f.ops[v].args)
            /\ funcs[n].result # << >>}

Settled == Rewrites(funcs[at]) = {} /\ IllSized(funcs[at]) = {}

InlineCall ==
    /\ Pass({"inliner"}) /\ at # 0 /\ Inlinable(funcs[at]) # {}
    /\ inlining \/ (Settled /\ Verifies(View(funcs[at])))
    /\ LET v == Min(Inlinable(funcs[at]))
           callee == CHOOSE n \in DOMAIN funcs :
                         funcs[n].name = funcs[at].ops[v].attr.name
           f == Inlined(funcs[at], v, funcs[callee])
       IN  /\ SetFunction(f)
           /\ inlining' = (Inlinable(f) # {})
    /\ UNCHANGED <<emitAction, phase, passes, at, done, level, dump, code>>

Leave ==
    /\ done' = done \cup {at} /\ at' = 0
    /\ UNCHANGED <<emitAction, phase, passes, inlining, level, dump, code>>

(* No rewrite matches; the pass manager verifies the function.             *)
EndRewriting ==
    /\ Rewriting /\ Settled
    /\ \/ ~ Verifies(View(funcs[at])) /\ PassFails
       \/ /\ Verifies(View(funcs[at]))
          /\ Pass({"inliner"}) => Inlinable(funcs[at]) = {}
          /\ Leave /\ UNCHANGED genVars

-----------------------------------------------------------------------------
(* Shape inference: a function on which ShapeInference has one outcome,    *)
(* whatever its order, is taken in one step.                               *)

Inferred(f) ==
    LET p == View(f)
        ty[v \in DOMAIN f.ops] ==
            IF \/ ~ IsDynamic(f.types[v])
               \/ ~ HasInterface(f.ops[v])
               \/ \E a \in Args(p, v) : ~ IsRanked(ty[a])
            THEN f.types[v]
            ELSE InferredType(p.ops[v], ty)
    IN  [f EXCEPT !.types = [v \in DOMAIN f.ops |-> ty[v]]]

AllStatic(f) ==
    \A v \in DOMAIN f.ops : f.ops[v].kind # "arg" => ~ IsDynamic(f.types[v])

InferShapesOf ==
    /\ Pass({"shape inference"}) /\ at # 0
    /\ LET f == Inferred(funcs[at])
       IN  \/ /\ AllStatic(f) /\ Verifies(View(f))
              /\ SetFunction(f) /\ Leave
           \/ ~ (AllStatic(f) /\ Verifies(View(f))) /\ PassFails

-----------------------------------------------------------------------------
(* Passes over the module.                                                 *)

NextPass ==
    /\ passes' = Tail(passes) /\ done' = {}
    /\ UNCHANGED <<emitAction, phase, at, inlining, dump, code>>

(* The inliner erases the private functions that nothing leads to.         *)
Live(n) == \E m \in DOMAIN funcs : ~ funcs[m].private /\ n \in Below(m)

EndPass ==
    /\ Pass(ToyPasses) /\ done = DOMAIN funcs
    /\ IF Pass({"inliner"})
       THEN /\ LET left == Ascending({n \in DOMAIN funcs : Live(n)}, Len(funcs))
               IN  funcs' = [i \in DOMAIN left |-> funcs[left[i]]]
            /\ UNCHANGED <<prog, rec, structMap, symbolTable, todo, vals, attrs, diag, status>>
       ELSE UNCHANGED genVars
    /\ NextPass /\ level' = level

(* What the conversion and the verifier of its loads accept.               *)
Lowers(f) ==
    LET p == View(f)
    IN  /\ f.name = "main" /\ Lowerable(p)
        /\ \A v \in OfKind(f, {"add", "mul"}) :
               Len(f.types[Input(f, v)].shape) = Len(f.types[f.ops[v].args[2]].shape)

LowerToAffine ==
    /\ Pass({"affine"})
    /\ \/ (\E n \in DOMAIN funcs : ~ Lowers(funcs[n])) /\ PassFails
       \/ /\ \A n \in DOMAIN funcs : Lowers(funcs[n])
          /\ NextPass /\ level' = "affine" /\ UNCHANGED genVars

LowerToLLVM ==
    /\ Pass({"llvm"})
    /\ NextPass /\ level' = "llvm" /\ UNCHANGED genVars

DumpModule ==
    /\ phase = "passes" /\ passes = << >>
    /\ Exit(level, 0) /\ UNCHANGED genVars

-----------------------------------------------------------------------------

DriverInit ==
    /\ Init
    /\ emitAction \in Requests(prog)
    /\ phase = "start" /\ passes = << >> /\ at = 0 /\ done = {} /\ inlining = FALSE
    /\ level = "toy" /\ dump = "none" /\ code = 0

RunPasses ==
    \/ \E n \in DOMAIN funcs : Enter(n)
    \/ Rewrite \/ ReshapeAsserts \/ InlineCall \/ EndRewriting
    \/ InferShapesOf \/ EndPass \/ LowerToAffine \/ LowerToLLVM \/ DumpModule

DriverNext ==
    \/ Usage \/ FileNotOpened \/ ParserFailed \/ DumpAST \/ CallMLIRGen
    \/ Generate \/ NullModule \/ BuildPipeline \/ RunPasses

(* One process that runs to its end.                                       *)
DriverSpec == DriverInit /\ [][DriverNext]_allVars /\ WF_allVars(DriverNext)

-----------------------------------------------------------------------------
(* Properties.                                                             *)

(* The state of mlirGen, and a pass that is at a function of the module    *)
(* or between two.                                                         *)
DriverTypeOK ==
    /\ TypeOK
    /\ phase \in {"start", "mlirGen", "passes", "exit", "crash"}
    /\ at \in 0 .. Len(funcs) /\ done \subseteq DOMAIN funcs /\ at \notin done
    /\ inlining => at # 0
    /\ level \in {"toy", "affine", "llvm"}
    /\ dump \in {"none", "ast", "toy", "affine", "llvm"}
    /\ code \in {-1, 0, 1}

(* What mlirGen hands over is what the passes start from.  Whatever the    *)
(* order of inlining, patterns, folds and inference, and whether or not    *)
(* the verifiers will accept the function, each operation has the number   *)
(* of operands that the patterns and casts to its class rely on, and the   *)
(* last one is the return that handleTerminator takes the value of.        *)
FunctionsComplete ==
    /\ phase = "mlirGen" => HandedOver
    /\ phase = "passes" =>
           \A n \in DOMAIN funcs : LET p == View(funcs[n]) IN
               EndsInReturn(p) /\ \A v \in Defs(p) : ArityOK(p.ops[v])

(* src/src/toy/ToyCombine.cpp:41 takes an element of a struct constant     *)
(* without a bound, and materializeConstant casts it to the class its type *)
(* says: no order of inlining and folding leads to an access for which     *)
(* either goes wrong.                                                      *)
AccessesInRange ==
    \A n \in DOMAIN funcs : LET f == funcs[n] IN
        \A v \in Pairs(f, "struct_access", "struct_constant") :
            /\ AccessIndex(f, v) \in DOMAIN ConstantInput(f, v).c
            /\ Element(f, v).k = "array" <=> IsStruct(f.types[v])

(* One operation less, or one that became a constant, or a reshape of a    *)
(* value from further up.                                                  *)
Shrinks(g, f) ==
    LET constants == {"constant", "struct_constant"}
    IN  \/ Len(g.ops) < Len(f.ops)
        \/ /\ Len(g.ops) = Len(f.ops)
           /\ \E v \in DOMAIN f.ops :
                  /\ \A u \in DOMAIN f.ops \ {v} : g.ops[u] = f.ops[u]
                  /\ \/ f.ops[v].kind \notin constants /\ g.ops[v].kind \in constants
                     \/ /\ {f.ops[v].kind, g.ops[v].kind} = {"reshape"}
                        /\ g.ops[v].args[1] < f.ops[v].args[1]

(* No pattern or fold undoes another: whatever one application leads to is *)
(* smaller in an order without infinite descents, so that the greedy       *)
(* driver comes to an end on every function.                               *)
RewritesShrink == Rewriting => \A f \in Rewrites(funcs[at]) : Shrinks(f, funcs[at])

(* Every compilation ends, with or without success: no two rewrites undo   *)
(* each other, and the inliner comes to an end.                            *)
Termination == <>(phase \in {"exit", "crash"})

(* src/src/main.cpp:74: -emit=mlir-llvm is to "output the MLIR dump after  *)
(* llvm lowering".                                                         *)
LevelNamed ==
    phase = "exit" /\ emitAction = "mlir-llvm" /\ dump # "none" => dump = "llvm"
=============================================================================
