--------------------------- MODULE ShapeInference ---------------------------
(***************************************************************************)
(* ShapeInferencePass (src/toy/ShapeInferencePasser.cpp) on one toy.func.  *)
(*                                                                         *)
(* The pass collects the operations with a dynamic result in a             *)
(* SmallPtrSet and repeatedly takes one whose operands all have a static   *)
(* shape.  The set is ordered by pointer value, so which one find_if meets *)
(* first depends on the allocator: here any of them may be taken.          *)
(*                                                                         *)
(* After a pass that did not signal failure the pass manager runs the      *)
(* verifier on the function.                                               *)
(***************************************************************************)
EXTENDS ToyIR

CONSTANTS
    Programs,    \* the functions the pass may be run on
    Sol(_)       \* for each of them, a solution of the typing equations

(* What the typing rules of the interface say of a value: a static type    *)
(* stays, an operation with the interface takes the type its rule gives it *)
(* when its operands have shapes, and nothing else is given a shape.       *)
IsSolution(p, sol) ==
    \A v \in Defs(p) :
        sol[v] = IF \/ IsRanked(p.types[v])
                    \/ ~ HasInterface(p.ops[v])
                    \/ \E a \in Args(p, v) : ~ IsRanked(sol[a])
                 THEN p.types[v]
                 ELSE InferredType(p.ops[v], sol)

ASSUME ProgramsWellFormed == \A p \in Programs : WellFormed(p)

ASSUME SolIsSolution ==
    \A p \in Programs : Sol(p) \in [Defs(p) -> Type] /\ IsSolution(p, Sol(p))

VARIABLES
    prog,         \* the function; constant during a behaviour
    ty,           \* the type of each value
    opWorklist,   \* operations whose result is still dynamic
    pass          \* how far runOnOperation and the verifier have come

vars == <<prog, ty, opWorklist, pass>>

-----------------------------------------------------------------------------

returnsDynamicShape(v) == IsOp(prog, v) /\ IsDynamic(ty[v])

(* Faulty variant: only the operand whose type is copied is looked at.     *)
leftOperandInferred(v) ==
    \A i \in DOMAIN prog.ops[v].args : i = 1 => IsRanked(ty[prog.ops[v].args[i]])

allOperandsInferred(v) == \A a \in Args(prog, v) : IsRanked(ty[a])

Init ==
    /\ prog \in Programs
    /\ ty = prog.types
    /\ opWorklist = {}
    /\ pass = "walk"

Walk ==
    /\ pass = "walk"
    /\ opWorklist' = {v \in Defs(prog) : returnsDynamicShape(v)}
    /\ pass' = "loop"
    /\ UNCHANGED <<prog, ty>>

(* Faulty variants: the inferred dimensions stay dynamic (kDynamic), and   *)
(* the operation stays in the worklist.                                    *)
InferShapesDynamic(v) ==
    /\ pass = "loop"
    /\ allOperandsInferred(v)
    /\ HasInterface(prog.ops[v])
    /\ opWorklist' = opWorklist \ {v}
    /\ ty' = [ty EXCEPT ![v] =
                 Ranked([d \in DOMAIN InferredType(prog.ops[v], ty).shape |-> -1])]
    /\ UNCHANGED <<prog, pass>>

InferShapesKeeping(v) ==
    /\ pass = "loop"
    /\ allOperandsInferred(v)
    /\ HasInterface(prog.ops[v])
    /\ ty' = [ty EXCEPT ![v] = InferredType(prog.ops[v], ty)]
    /\ UNCHANGED <<prog, opWorklist, pass>>

(* find_if found v, and v implements the interface.                        *)
InferShapes(v) ==
    /\ pass = "loop"
    /\ allOperandsInferred(v)
    /\ HasInterface(prog.ops[v])
    /\ opWorklist' = opWorklist \ {v}
    /\ ty' = [ty EXCEPT ![v] = InferredType(prog.ops[v], ty)]
    /\ UNCHANGED <<prog, pass>>

(* Faulty variant: the error is reported but the loop goes on.             *)
NoInterfaceContinuing(v) ==
    /\ pass = "loop"
    /\ allOperandsInferred(v)
    /\ ~ HasInterface(prog.ops[v])
    /\ opWorklist' = opWorklist \ {v}
    /\ UNCHANGED <<prog, ty, pass>>

(* find_if found v, and v does not.                                        *)
NoInterface(v) ==
    /\ pass = "loop"
    /\ allOperandsInferred(v)
    /\ ~ HasInterface(prog.ops[v])
    /\ opWorklist' = opWorklist \ {v}
    /\ pass' = "failure"
    /\ UNCHANGED <<prog, ty>>

(* The worklist is empty or find_if returned end().                        *)
FixPoint ==
    /\ pass = "loop"
    /\ \A v \in opWorklist : ~ allOperandsInferred(v)
    /\ pass' = IF opWorklist = {} THEN "success" ELSE "failure"
    /\ UNCHANGED <<prog, ty, opWorklist>>

Verifies(v) == OpVerifies(prog.ops[v], ty[v], ty, prog.result)

Verify ==
    /\ pass = "success"
    /\ pass' = IF \A v \in Defs(prog) : Verifies(v) THEN "verified" ELSE "invalid"
    /\ UNCHANGED <<prog, ty, opWorklist>>

Next ==
    \/ Walk
    \/ \E v \in opWorklist : InferShapes(v) \/ NoInterface(v)
    \/ FixPoint
    \/ Verify

(* The pass runs to its end on the thread the pass manager gave it.        *)
Spec == Init /\ [][Next]_vars /\ WF_vars(Next)

-----------------------------------------------------------------------------
(* Properties.                                                             *)

(* Types stay types, and the worklist holds operations of the function.     *)
TypeOK ==
    /\ WellFormed(prog)
    /\ ty \in [Defs(prog) -> Type]
    /\ opWorklist \in SUBSET Defs(prog)
    /\ pass \in {"walk", "loop", "success", "failure", "verified", "invalid"}

(* Between two iterations the worklist holds exactly the operations whose  *)
(* result has no static shape: none is lost by the erase of another, none  *)
(* is visited again after it was inferred, and every inference ends in a   *)
(* static shape.                                                           *)
WorklistExact ==
    pass = "loop" => opWorklist = {v \in Defs(prog) : returnsDynamicShape(v)}

(* The shape a value is given does not depend on the pointer order of the  *)
(* worklist: it is the one the typing equations have.                      *)
Confluence == \A v \in Defs(prog) : IsRanked(ty[v]) => ty[v] = Sol(prog)[v]

(* The types an operation is built with by its builder and by the front    *)
(* end: only constants and reshapes start with a shape, and a function     *)
(* has result type tensor<*xf64>.  A parsed .mlir file may say otherwise.  *)
Built(v) ==
    /\ prog.ops[v].kind \in InterfaceKinds \ {"constant"} =>
           prog.types[v] = Unranked
    /\ prog.ops[v].kind = "return" =>
           \A i \in DOMAIN prog.result : prog.result[i] = Unranked

(* TransposeOp::verify walks the result backwards for as many dimensions   *)
(* as the operand has: it stays inside the result.                         *)
ComparesInRange(v) ==
    LET in == ty[prog.ops[v].args[1]]
    IN  prog.ops[v].kind = "transpose" /\ IsRanked(in) /\ IsRanked(ty[v]) =>
            Len(in.shape) <= Len(ty[v].shape)

(* Inference never makes an operation built by the compiler fail its own   *)
(* verifier, or makes the verifier read past a shape: TransposeOp::verify  *)
(* accepts what TransposeOp::inferShapes computes from an operand of any   *)
(* rank inferred earlier, and so on.                                       *)
VerifierAccepts ==
    pass \in {"success", "verified", "invalid"} =>
        \A v \in Defs(prog) : Built(v) => Verifies(v) /\ ComparesInRange(v)

(* Every operation is inferred at most once and the loop ends.             *)
Termination == <>(pass \in {"failure", "verified", "invalid"})

(* src/test/test.toy:23: "calling into `multiply_transpose` with           *)
(* incompatible shapes (<2, 3> and <3, 2>) will trigger a shape inference  *)
(* error."  An elementwise operation on different static shapes should     *)
(* not survive the pass.                                                   *)
MismatchRejected ==
    pass = "verified" =>
        \A v \in Defs(prog) :
            prog.ops[v].kind \in {"add", "mul"} /\ Built(v) =>
                ty[prog.ops[v].args[1]] = ty[prog.ops[v].args[2]]

-----------------------------------------------------------------------------
(* The pass implements ShapeFixpoint.                                      *)

GraphOf(p) ==
    [nodes     |-> Defs(p),
     static    |-> {v \in Defs(p) : IsRanked(p.types[v])},
     inferable |-> {v \in Defs(p) : HasInterface(p.ops[v])},
     need      |-> [v \in Defs(p) |-> Args(p, v)],
     results   |-> {v \in Defs(p) : IsOp(p, v) /\ p.types[v] # NoResult}]

Known == {v \in Defs(prog) : IsRanked(ty[v])}

Verdict ==
    IF pass \in {"walk", "loop"} THEN "open"
    ELSE IF pass = "failure" THEN "reject" ELSE "accept"

Fixpoint == INSTANCE ShapeFixpoint WITH
                graph   <- GraphOf(prog),
                known   <- Known,
                verdict <- Verdict

(* Success means every result has a shape, and failure is signalled only   *)
(* when no order of inference could have given them all one.               *)
ImplementsFixpoint == Fixpoint!Spec
=============================================================================
