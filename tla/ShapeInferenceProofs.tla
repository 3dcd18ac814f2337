------------------------ MODULE ShapeInferenceProofs ------------------------
(***************************************************************************)
(* Proofs about ShapeInference, for every set of well-formed functions.    *)
(*                                                                         *)
(* The inductive invariant adds two facts to the ones the runs check:      *)
(* every type that changed is the one its operation's rule gives from      *)
(* operands that have a shape (Justified), and every value with a shape    *)
(* lies in each set closed under inference (InLeast).                      *)
(***************************************************************************)
EXTENDS ShapeInference, TLAPS

Justified ==
    \A v \in Defs(prog) :
        \/ ty[v] = prog.types[v]
        \/ /\ ~ IsRanked(prog.types[v])
           /\ HasInterface(prog.ops[v])
           /\ allOperandsInferred(v)
           /\ IsRanked(ty[v])
           /\ ty[v] = InferredType(prog.ops[v], ty)

InLeast == Known \subseteq Fixpoint!LeastKnown(GraphOf(prog))

IInv ==
    /\ prog \in Programs
    /\ TypeOK
    /\ WorklistExact
    /\ Justified
    /\ Confluence
    /\ InLeast

-----------------------------------------------------------------------------
(* Lemmas on the operators.                                                *)

(* What well-formedness says of one entry of a body.                       *)
LEMMA OpFacts ==
    ASSUME NEW p, WellFormed(p), NEW v \in Defs(p)
    PROVE  /\ p.ops[v] \in Op
           /\ p.types[v] \in Type
           /\ Args(p, v) \subseteq Defs(p)
           /\ v \notin Args(p, v)
           /\ \A i \in DOMAIN p.ops[v].args : p.ops[v].args[i] \in Args(p, v)
           /\ HasInterface(p.ops[v]) => IsTensor(p.types[v])
           /\ HasInterface(p.ops[v]) /\ p.ops[v].kind # "constant" =>
                  p.ops[v].args[1] \in Args(p, v)
<1>1. p.ops[v] \in Op /\ p.types[v] \in Type /\ v \in 1 .. Len(p.ops)
  BY DEF WellFormed, Defs
<1>2. Args(p, v) \subseteq Defs(p) /\ v \notin Args(p, v)
  BY <1>1 DEF WellFormed, Defs
<1>3. \A i \in DOMAIN p.ops[v].args : p.ops[v].args[i] \in Args(p, v)
  BY DEF Args, ToSet
<1>4. HasInterface(p.ops[v]) => IsTensor(p.types[v])
  BY DEF WellFormed, HasInterface, InterfaceKinds, OpVerifies, CastCompatible
<1>5. HasInterface(p.ops[v]) /\ p.ops[v].kind # "constant" =>
          p.ops[v].args[1] \in Args(p, v)
  <2> SUFFICES ASSUME HasInterface(p.ops[v]), p.ops[v].kind # "constant"
               PROVE  1 \in DOMAIN p.ops[v].args
    BY <1>3
  <2>1. Len(p.ops[v].args) \in {1, 2}
    BY <1>1 DEF WellFormed, HasInterface, InterfaceKinds, ArityOK
  <2>2. p.ops[v].args \in Seq(Nat)
    BY <1>1 DEF Op
  <2> QED BY <2>1, <2>2
<1> QED BY <1>1, <1>2, <1>3, <1>4, <1>5

(* Reversing a shape gives a shape.                                        *)
LEMMA ReverseShape ==
    ASSUME NEW s \in Shape
    PROVE  Reverse(s) \in Shape /\ Len(Reverse(s)) = Len(s)
BY DEF Shape, Reverse

(* An inferred type is a static shape whenever the operands have one.      *)
LEMMA InferredIsRanked ==
    ASSUME NEW p, WellFormed(p), NEW v \in Defs(p), HasInterface(p.ops[v]),
           NEW t \in [Defs(p) -> Type], \A a \in Args(p, v) : IsRanked(t[a])
    PROVE  /\ InferredType(p.ops[v], t) \in Type
           /\ IsRanked(InferredType(p.ops[v], t))
<1>1. CASE p.ops[v].kind = "constant"
  BY <1>1, OpFacts DEF InferredType, Ranked, IsRanked, Type, Op, Shape
<1>2. CASE p.ops[v].kind = "transpose"
  <2>1. t[p.ops[v].args[1]] \in Type
    BY <1>2, OpFacts
  <2>2. Reverse(t[p.ops[v].args[1]].shape) \in Shape
    BY <1>2, <2>1, OpFacts, ReverseShape
    DEF Type, IsRanked, Unranked, Struct, NoResult
  <2> QED BY <1>2, <2>2 DEF InferredType, Ranked, IsRanked, Type
<1>3. CASE p.ops[v].kind \notin {"constant", "transpose"}
  BY <1>3, OpFacts DEF InferredType
<1> QED BY <1>1, <1>2, <1>3

(* An inferred type depends on the types of the operands only.             *)
LEMMA InferredIsLocal ==
    ASSUME NEW p, WellFormed(p), NEW v \in Defs(p), HasInterface(p.ops[v]),
           NEW s, NEW t, \A a \in Args(p, v) : s[a] = t[a]
    PROVE  InferredType(p.ops[v], s) = InferredType(p.ops[v], t)
<1>1. CASE p.ops[v].kind = "constant"
  BY <1>1 DEF InferredType
<1>2. CASE p.ops[v].kind # "constant"
  <2>1. s[p.ops[v].args[1]] = t[p.ops[v].args[1]]
    BY <1>2, OpFacts
  <2> QED BY <1>2, <2>1 DEF InferredType
<1> QED BY <1>1, <1>2

-----------------------------------------------------------------------------
(* The inductive invariant.                                                *)

(* The state runOnOperation starts from.                                    *)
LEMMA InitInvariant == Init => IInv
<1> SUFFICES ASSUME Init PROVE IInv
  OBVIOUS
<1>1. prog \in Programs /\ WellFormed(prog) /\ ty = prog.types
  BY ProgramsWellFormed DEF Init
<1>2. TypeOK
  BY <1>1 DEF Init, TypeOK, WellFormed
<1>3. WorklistExact /\ Justified
  BY <1>1 DEF Init, WorklistExact, Justified
<1>4. Confluence
  BY <1>1, SolIsSolution DEF Confluence, IsSolution
<1>5. InLeast
  BY <1>1 DEF InLeast, Known, Fixpoint!LeastKnown, Fixpoint!Closed, GraphOf
<1> QED BY <1>1, <1>2, <1>3, <1>4, <1>5 DEF IInv

(* A step that leaves the types alone.                                     *)
LEMMA TypesKept ==
    ASSUME IInv, UNCHANGED <<prog, ty>>
    PROVE  Justified' /\ Confluence' /\ InLeast' /\ (prog \in Programs)'
BY DEF IInv, Justified, Confluence, InLeast, Known, allOperandsInferred,
       Fixpoint!LeastKnown, Fixpoint!Closed

(* What InferShapes(w) does to a value: w was dynamic and gets the static  *)
(* shape its rule gives it; no other value changes.                        *)
LEMMA InferStep ==
    ASSUME IInv, NEW w \in opWorklist, InferShapes(w)
    PROVE  /\ w \in Defs(prog) /\ WellFormed(prog)
           /\ ty \in [Defs(prog) -> Type] /\ ty' \in [Defs(prog) -> Type]
           /\ prog' = prog
           /\ HasInterface(prog.ops[w])
           /\ \A a \in Args(prog, w) : IsRanked(ty[a])
           /\ ~ IsRanked(ty[w])
           /\ IsRanked(ty'[w])
           /\ ty'[w] = InferredType(prog.ops[w], ty)
           /\ \A v \in Defs(prog) : v # w => ty'[v] = ty[v]
<1>1. /\ WellFormed(prog) /\ w \in Defs(prog)
      /\ ty \in [Defs(prog) -> Type]
  BY DEF IInv, TypeOK
<1>2. IsDynamic(ty[w])
  BY DEF IInv, WorklistExact, InferShapes, returnsDynamicShape
<1>3. InferredType(prog.ops[w], ty) \in Type /\ IsRanked(InferredType(prog.ops[w], ty))
  BY <1>1, InferredIsRanked DEF InferShapes, allOperandsInferred
<1> QED BY <1>1, <1>2, <1>3
        DEF InferShapes, allOperandsInferred, IsDynamic, IsRanked

(* The step of the loop that infers a shape: the erased operation leaves   *)
(* the worklist exact, and the new type is the one of the solution.        *)
LEMMA InferKeepsInvariant ==
    ASSUME IInv, NEW w \in opWorklist, InferShapes(w)
    PROVE  IInv'
<1> USE InferStep
<1>1. TypeOK'
  BY DEF IInv, TypeOK, InferShapes
<1>2. WorklistExact'
  BY DEF IInv, WorklistExact, InferShapes, returnsDynamicShape, IsDynamic, IsRanked
<1>3. Justified'
  <2> SUFFICES ASSUME NEW v \in Defs(prog)
               PROVE  \/ ty'[v] = prog.types[v]
                      \/ /\ ~ IsRanked(prog.types[v])
                         /\ HasInterface(prog.ops[v])
                         /\ \A a \in Args(prog, v) : IsRanked(ty'[a])
                         /\ IsRanked(ty'[v])
                         /\ ty'[v] = InferredType(prog.ops[v], ty')
    BY DEF Justified, allOperandsInferred
  <2>1. CASE v = w
    <3>1. \A a \in Args(prog, w) : a # w /\ ty'[a] = ty[a] /\ IsRanked(ty[a])
      BY OpFacts
    <3>2. InferredType(prog.ops[w], ty') = InferredType(prog.ops[w], ty)
      BY <3>1, InferredIsLocal
    <3>3. ~ IsRanked(prog.types[w])
      BY DEF IInv, Justified
    <3> QED BY <2>1, <3>1, <3>2, <3>3
  <2>2. CASE v # w /\ ty[v] = prog.types[v]
    BY <2>2
  <2>3. CASE v # w /\ ty[v] # prog.types[v]
    <3>1. /\ ~ IsRanked(prog.types[v]) /\ HasInterface(prog.ops[v])
          /\ \A a \in Args(prog, v) : IsRanked(ty[a])
          /\ IsRanked(ty[v]) /\ ty[v] = InferredType(prog.ops[v], ty)
      BY <2>3 DEF IInv, Justified, allOperandsInferred
    <3>2. \A a \in Args(prog, v) : ty'[a] = ty[a]
      BY <3>1, OpFacts
    <3>3. InferredType(prog.ops[v], ty') = InferredType(prog.ops[v], ty)
      BY <3>1, <3>2, InferredIsLocal
    <3> QED BY <2>3, <3>1, <3>2, <3>3
  <2> QED BY <2>1, <2>2, <2>3
<1>4. Confluence'
  <2>1. \A a \in Args(prog, w) : IsRanked(ty[a]) /\ ty[a] = Sol(prog)[a]
    BY OpFacts DEF IInv, Confluence
  <2>2. Sol(prog)[w] = InferredType(prog.ops[w], Sol(prog))
    <3>1. ~ IsRanked(prog.types[w])
      BY DEF IInv, Justified
    <3> QED BY <2>1, <3>1, SolIsSolution DEF IInv, IsSolution
  <2>3. InferredType(prog.ops[w], Sol(prog)) = InferredType(prog.ops[w], ty)
    BY <2>1, InferredIsLocal
  <2> QED BY <2>2, <2>3 DEF IInv, Confluence
<1>5. InLeast'
  <2>1. Known' = Known \cup {w}
    BY DEF Known
  <2>2. Args(prog, w) \subseteq Known
    BY OpFacts DEF Known
  <2>3. ASSUME NEW K \in SUBSET Defs(prog), Fixpoint!Closed(GraphOf(prog), K)
        PROVE  Known \subseteq K /\ w \in K
    <3>1. Known \subseteq K
      BY <2>3 DEF IInv, InLeast, Fixpoint!LeastKnown, GraphOf
    <3> QED BY <2>2, <2>3, <3>1 DEF Fixpoint!Closed, GraphOf
  <2>4. Known \cup {w} \subseteq Fixpoint!LeastKnown(GraphOf(prog))
    BY <2>3 DEF Known, Fixpoint!LeastKnown, GraphOf
  <2>5. Fixpoint!LeastKnown(GraphOf(prog))' = Fixpoint!LeastKnown(GraphOf(prog))
    BY DEF Fixpoint!LeastKnown, Fixpoint!Closed
  <2> QED BY <2>1, <2>4, <2>5 DEF InLeast
<1> QED BY <1>1, <1>2, <1>3, <1>4, <1>5 DEF IInv, InferShapes

(* Every step of the pass and of the verifier after it.                    *)
LEMMA StepInvariant == IInv /\ [Next]_vars => IInv'
<1> SUFFICES ASSUME IInv, [Next]_vars PROVE IInv'
  OBVIOUS
<1>1. CASE Walk
  BY <1>1, TypesKept DEF IInv, TypeOK, WorklistExact, Walk, returnsDynamicShape
<1>2. ASSUME NEW w \in opWorklist, InferShapes(w) PROVE IInv'
  BY <1>2, InferKeepsInvariant
<1>3. ASSUME NEW w \in opWorklist, NoInterface(w) PROVE IInv'
  BY <1>3, TypesKept DEF IInv, TypeOK, WorklistExact, NoInterface
<1>4. CASE FixPoint
  BY <1>4, TypesKept DEF IInv, TypeOK, WorklistExact, FixPoint
<1>5. CASE Verify
  BY <1>5, TypesKept DEF IInv, TypeOK, WorklistExact, Verify
<1>6. CASE UNCHANGED vars
  BY <1>6, TypesKept DEF IInv, TypeOK, WorklistExact, vars, returnsDynamicShape
<1> QED BY <1>1, <1>2, <1>3, <1>4, <1>5, <1>6 DEF Next

(* The pass keeps its types well-formed and its worklist exact; each type  *)
(* that changed is the one its rule gives and the one of the solution; and *)
(* no shape is known outside the least set closed under inference.         *)
THEOREM Invariant == Spec => []IInv
BY InitInvariant, StepInvariant, PTL DEF Spec

(* The types of values stay well-formed whatever is inferred.              *)
THEOREM TypeCorrect == Spec => []TypeOK
BY Invariant, PTL DEF IInv

(* No operation with a dynamic result is missed by the loop and none that  *)
(* was inferred is left in it.                                             *)
THEOREM WorklistIsExact == Spec => []WorklistExact
BY Invariant, PTL DEF IInv

(* Any order of visiting the worklist gives a value the same shape, the    *)
(* one that solves the typing equations.                                   *)
THEOREM OrderIndependent == Spec => []Confluence
BY Invariant, PTL DEF IInv

-----------------------------------------------------------------------------
(* The verifier after the pass.                                            *)

(* Inference keeps every static type, and a tensor stays a tensor.         *)
LEMMA TypesAfter ==
    ASSUME IInv, NEW v \in Defs(prog)
    PROVE  /\ IsRanked(prog.types[v]) => ty[v] = prog.types[v]
           /\ IsTensor(prog.types[v]) => IsTensor(ty[v])
           /\ ~ IsTensor(prog.types[v]) => ty[v] = prog.types[v]
BY OpFacts DEF IInv, TypeOK, Justified, IsTensor, IsRanked

(* The type of a transpose that was inferred passes its verifier.          *)
LEMMA ReverseVerifies ==
    ASSUME NEW in \in Type
    PROVE  TransposeVerifies(in, Ranked(Reverse(in.shape)))
BY DEF TransposeVerifies, Ranked, Reverse, Type, Shape

(* What inference made of an operation built by the compiler passes the    *)
(* verifier of its kind.                                                   *)
LEMMA BuiltVerifies ==
    ASSUME IInv, NEW v \in Defs(prog), Built(v)
    PROVE  Verifies(v)
<1> DEFINE op == prog.ops[v]
           a  == op.args[1]
<1>1. /\ WellFormed(prog) /\ ty \in [Defs(prog) -> Type] /\ op \in Op
      /\ OpVerifies(op, prog.types[v], prog.types, prog.result)
      /\ ArityOK(op)
  BY OpFacts DEF IInv, TypeOK, WellFormed
<1>2. Args(prog, v) \subseteq Defs(prog)
  BY <1>1, OpFacts
<1>3. (\/ op.kind # "constant" /\ HasInterface(op)
       \/ op.kind \in {"reshape", "struct_access", "print"})
        => a \in Args(prog, v) /\ a \in Defs(prog)
  <2>1. op.kind \in {"reshape", "struct_access", "print"} => 1 \in DOMAIN op.args
    BY <1>1 DEF ArityOK, Op
  <2> QED BY <1>1, <1>2, <2>1, OpFacts
<1>4. op.kind = "arg" => ty[v] # NoResult
  BY <1>1 DEF IInv, Justified, OpVerifies, NoResult, IsRanked
<1>5. op.kind = "constant" =>
          IsTensor(ty[v]) /\ ConstantVerifies(op, ty[v])
  <2>1. op.kind = "constant" /\ ty[v] # prog.types[v] => ty[v] = Ranked(op.value)
    BY DEF IInv, Justified, InferredType
  <2> QED BY <1>1, <2>1
          DEF OpVerifies, ConstantVerifies, Ranked, IsTensor, IsRanked
<1>6. op.kind \in {"add", "mul"} =>
          IsTensor(ty[v]) /\ \A w \in ToSet(op.args) : IsTensor(ty[w])
  BY <1>1, <1>2, TypesAfter DEF OpVerifies, Args
<1>7. ASSUME op.kind \in InterfaceKinds \ {"constant"}
      PROVE  ty[v] = Unranked \/ ty[v] = InferredType(op, ty)
  BY <1>7 DEF Built, IInv, Justified
<1>8. op.kind = "transpose" =>
          /\ IsTensor(ty[v]) /\ IsTensor(ty[a])
          /\ TransposeVerifies(ty[a], ty[v])
  <2> SUFFICES ASSUME op.kind = "transpose"
               PROVE  /\ IsTensor(ty[v]) /\ IsTensor(ty[a])
                      /\ TransposeVerifies(ty[a], ty[v])
    OBVIOUS
  <2>1. a \in Defs(prog) /\ ty[a] \in Type
    BY <1>1, <1>3, SMTT(40) DEF HasInterface, InterfaceKinds
  <2>2. IsTensor(ty[v]) /\ IsTensor(ty[a])
    BY <1>1, <2>1, TypesAfter DEF OpVerifies
  <2>3. ty[v] = Unranked \/ ty[v] = Ranked(Reverse(ty[a].shape))
    BY <1>7 DEF InferredType, InterfaceKinds
  <2>4. TransposeVerifies(ty[a], Unranked)
    BY DEF TransposeVerifies, Unranked, IsRanked
  <2> QED BY <2>1, <2>2, <2>3, <2>4, ReverseVerifies
<1>9. op.kind = "cast" => CastCompatible(ty[a], ty[v])
  <2> SUFFICES ASSUME op.kind = "cast" PROVE CastCompatible(ty[a], ty[v])
    BY SMTT(40)
  <2>1. IsTensor(ty[v]) /\ IsTensor(ty[a])
    BY <1>1, <1>3, TypesAfter
    DEF OpVerifies, CastCompatible, HasInterface, InterfaceKinds
  <2>2. ty[v] = Unranked \/ ty[v] = ty[a]
    BY <1>7 DEF InferredType, InterfaceKinds
  <2> QED BY <2>1, <2>2 DEF CastCompatible, Unranked, IsRanked
<1>10. op.kind = "reshape" => IsRanked(ty[v]) /\ IsTensor(ty[a])
  BY <1>1, <1>3, TypesAfter DEF OpVerifies
<1>11. op.kind = "struct_access" => ty[a] = Struct
  BY <1>1, <1>3, TypesAfter DEF OpVerifies, Struct, IsTensor
<1>12. op.kind = "struct_constant" => ty[v] = Struct
  BY <1>1, TypesAfter, SMTT(40) DEF OpVerifies, Struct, IsTensor
<1>13. op.kind = "return" => ReturnVerifies(op, ty, prog.result)
  BY <1>1 DEF OpVerifies, ReturnVerifies, Built, Op, WellFormed
<1>14. op.kind = "print" => IsTensor(ty[a])
  BY <1>1, <1>3, TypesAfter DEF OpVerifies
<1> QED BY <1>4, <1>5, <1>6, <1>8, <1>9, <1>10, <1>11, <1>12, <1>13, <1>14
        DEF Verifies, OpVerifies

(* A transpose left to inference has the rank of its operand.              *)
LEMMA BuiltInRange ==
    ASSUME IInv, NEW v \in Defs(prog), Built(v)
    PROVE  ComparesInRange(v)
<1> DEFINE in == ty[prog.ops[v].args[1]]
<1> SUFFICES ASSUME prog.ops[v].kind = "transpose", IsRanked(in), IsRanked(ty[v])
             PROVE  Len(in.shape) <= Len(ty[v].shape)
  BY DEF ComparesInRange
<1>1. WellFormed(prog) /\ ty \in [Defs(prog) -> Type]
  BY DEF IInv, TypeOK
<1>2. HasInterface(prog.ops[v])
  BY DEF HasInterface, InterfaceKinds
<1>3. in \in Type
  BY <1>1, <1>2, OpFacts
<1>4. in.shape \in Seq(Int)
  BY <1>3 DEF Type, Shape, IsRanked, Unranked, Struct, NoResult
<1>5. ty[v] = InferredType(prog.ops[v], ty)
  <2>1. prog.ops[v].kind \in InterfaceKinds \ {"constant"}
    BY DEF InterfaceKinds
  <2>2. prog.types[v] = Unranked
    BY <2>1 DEF Built
  <2>3. ty[v] # prog.types[v]
    BY <2>2 DEF IsRanked, Unranked
  <2> QED BY <2>3 DEF IInv, Justified
<1>6. ty[v].shape = Reverse(in.shape)
  BY <1>5 DEF InferredType, Ranked
<1>7. ASSUME NEW s \in Seq(Int) PROVE Len(Reverse(s)) = Len(s) /\ Len(s) \in Nat
  BY DEF Reverse
<1> QED BY <1>4, <1>6, <1>7

(* The verifier never rejects, after inference, an operation whose type    *)
(* was left to inference, and never reads past the type of one.            *)
THEOREM VerifierNeverRejects == Spec => []VerifierAccepts
<1>1. IInv => VerifierAccepts
  BY BuiltVerifies, BuiltInRange DEF VerifierAccepts
<1> QED BY <1>1, Invariant, PTL

-----------------------------------------------------------------------------
(* Refinement.                                                             *)

(* The operand graph of the function is a graph of ShapeFixpoint.          *)
LEMMA GraphIsGraph == ASSUME IInv PROVE Fixpoint!IsGraph(GraphOf(prog))
BY OpFacts DEF IInv, TypeOK, Fixpoint!IsGraph, GraphOf

(* The results of the function that still have no shape.                   *)
LEMMA Unresolved ==
    ASSUME IInv, pass = "loop"
    PROVE  opWorklist = GraphOf(prog).results \ Known
<1> SUFFICES ASSUME NEW v \in Defs(prog), IsOp(prog, v)
             PROVE  IsDynamic(ty[v]) <=> prog.types[v] # NoResult /\ ~ IsRanked(ty[v])
  BY DEF IInv, WorklistExact, returnsDynamicShape, GraphOf, Known
<1>1. ty[v] \in Type
  BY DEF IInv, TypeOK
<1>2. prog.types[v] = NoResult <=> ty[v] = NoResult
  BY TypesAfter DEF IInv, Justified, NoResult, IsTensor, IsRanked
<1> QED BY <1>1, <1>2
        DEF Type, IsDynamic, IsRanked, NoResult, Unranked, Struct

(* Nothing but the static types is known before the pass runs.             *)
LEMMA InitRefines == Init => Fixpoint!Init
<1> SUFFICES ASSUME Init PROVE Fixpoint!Init
  OBVIOUS
<1>1. IInv
  BY InitInvariant
<1>2. Known = GraphOf(prog).static /\ Verdict = "open"
  BY DEF Init, Known, GraphOf, Verdict
<1> QED BY <1>1, <1>2, GraphIsGraph DEF Fixpoint!Init

(* Inferring a shape is a step of learning.                                *)
LEMMA InferRefines ==
    ASSUME IInv, NEW w \in opWorklist, InferShapes(w)
    PROVE  Fixpoint!Next
<1>1. w \in GraphOf(prog).inferable
  BY InferStep DEF GraphOf
<1>2. GraphOf(prog).need[w] \subseteq Known
  BY InferStep, OpFacts DEF GraphOf, Known
<1>3. Known' = Known \cup {w}
  BY InferStep DEF Known
<1>4. Verdict = "open" /\ Verdict' = "open"
  BY DEF InferShapes, Verdict
<1>5. GraphOf(prog)' = GraphOf(prog)
  BY InferStep
<1> QED BY <1>1, <1>2, <1>3, <1>4, <1>5 DEF Fixpoint!Next, Fixpoint!Learn

(* A node outside some closed set makes rejection right.                   *)
LEMMA RejectStep ==
    ASSUME IInv, pass = "loop", pass' = "failure", UNCHANGED <<prog, ty>>,
           NEW K \in SUBSET Defs(prog), Fixpoint!Closed(GraphOf(prog), K),
           ~ GraphOf(prog).results \subseteq K
    PROVE  Fixpoint!Next
<1>1. ~ GraphOf(prog).results \subseteq Fixpoint!LeastKnown(GraphOf(prog))
  BY DEF Fixpoint!LeastKnown, GraphOf
<1>2. Verdict = "open" /\ Verdict' = "reject"
  BY DEF Verdict
<1>3. Known' = Known /\ GraphOf(prog)' = GraphOf(prog)
  BY DEF Known
<1> QED BY <1>1, <1>2, <1>3 DEF Fixpoint!Next, Fixpoint!Reject

(* Everything but an operation without the interface is closed under       *)
(* inference, so no order of visits could have given it a shape.           *)
LEMMA NoInterfaceRefines ==
    ASSUME IInv, NEW w \in opWorklist, NoInterface(w)
    PROVE  Fixpoint!Next
<1>1. w \in GraphOf(prog).results \ Known
  BY Unresolved DEF NoInterface
<1>2. Fixpoint!Closed(GraphOf(prog), Defs(prog) \ {w})
  <2>1. w \in Defs(prog) /\ ~ IsRanked(prog.types[w])
    BY <1>1, TypesAfter DEF Known, GraphOf
  <2> QED BY <2>1 DEF Fixpoint!Closed, GraphOf, NoInterface
<1>3. ~ GraphOf(prog).results \subseteq Defs(prog) \ {w}
  BY <1>1
<1> QED BY <1>2, <1>3, RejectStep DEF NoInterface

(* At a fixpoint the values with a shape are closed under inference.       *)
LEMMA FixPointRefines ==
    ASSUME IInv, FixPoint
    PROVE  Fixpoint!Next
<1>1. opWorklist = GraphOf(prog).results \ Known
  BY Unresolved DEF FixPoint
<1>2. CASE opWorklist = {}
  <2>1. GraphOf(prog).results \subseteq Known
    BY <1>1, <1>2
  <2>2. Verdict = "open" /\ Verdict' = "accept"
    BY <1>2 DEF FixPoint, Verdict
  <2>3. Known' = Known /\ GraphOf(prog)' = GraphOf(prog)
    BY DEF Known, FixPoint
  <2> QED BY <2>1, <2>2, <2>3 DEF Fixpoint!Next, Fixpoint!Accept
<1>3. CASE opWorklist # {}
  <2>1. GraphOf(prog).static \subseteq Known
    BY TypesAfter DEF GraphOf, Known
  <2>2. ASSUME NEW v \in Defs(prog), HasInterface(prog.ops[v]),
               Args(prog, v) \subseteq Known
        PROVE  v \in Known
    <3>1. v \in GraphOf(prog).results
      BY <2>2, OpFacts DEF GraphOf, IInv, TypeOK, IsOp, HasInterface,
         InterfaceKinds, IsTensor, NoResult
    <3>2. allOperandsInferred(v)
      BY <2>2 DEF allOperandsInferred, Known
    <3> QED BY <1>1, <3>1, <3>2 DEF FixPoint
  <2>3. Fixpoint!Closed(GraphOf(prog), Known)
    BY <2>1, <2>2 DEF Fixpoint!Closed, GraphOf
  <2>4. Known \in SUBSET Defs(prog) /\ ~ GraphOf(prog).results \subseteq Known
    BY <1>1, <1>3 DEF Known
  <2> QED BY <1>3, <2>3, <2>4, RejectStep DEF FixPoint
<1> QED BY <1>2, <1>3

(* Every step of the pass is a step of ShapeFixpoint or leaves it alone.   *)
LEMMA StepRefines == IInv /\ [Next]_vars => [Fixpoint!Next]_(Fixpoint!vars)
<1> SUFFICES ASSUME IInv, [Next]_vars
             PROVE  Fixpoint!Next \/ UNCHANGED Fixpoint!vars
  OBVIOUS
<1>1. ASSUME UNCHANGED <<prog, ty>>, Verdict' = Verdict
      PROVE  UNCHANGED Fixpoint!vars
  BY <1>1 DEF Fixpoint!vars, Known
<1>2. CASE Walk
  BY <1>1, <1>2 DEF Walk, Verdict
<1>3. ASSUME NEW w \in opWorklist, InferShapes(w) PROVE Fixpoint!Next
  BY <1>3, InferRefines
<1>4. ASSUME NEW w \in opWorklist, NoInterface(w) PROVE Fixpoint!Next
  BY <1>4, NoInterfaceRefines
<1>5. CASE FixPoint
  BY <1>5, FixPointRefines
<1>6. CASE Verify
  BY <1>1, <1>6 DEF Verify, Verdict
<1>7. CASE UNCHANGED vars
  BY <1>1, <1>7 DEF vars, Verdict
<1> QED BY <1>2, <1>3, <1>4, <1>5, <1>6, <1>7 DEF Next

(* The pass accepts a function exactly when every result can be given a    *)
(* shape, and it signals failure only when no order of visits could have   *)
(* avoided it.                                                             *)
THEOREM Refinement == Spec => ImplementsFixpoint
BY InitRefines, Invariant, StepRefines, PTL
   DEF Spec, ImplementsFixpoint, Fixpoint!Spec
=============================================================================
