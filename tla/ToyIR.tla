------------------------------- MODULE ToyIR -------------------------------
(***************************************************************************)
(* The part of the Toy dialect that the passes read: types, operations in  *)
(* SSA form, their verifiers, and the shape inference interface that some  *)
(* of them implement (src/inc/toy/Ops.td, src/toy/Dialect.cpp).            *)
(*                                                                         *)
(* The body of a function is a sequence of operations.  An operation has   *)
(* at most one result, so a value is named by the position of the          *)
(* operation that defines it.  A block argument is an entry of the pseudo  *)
(* kind "arg": it defines a value and is no operation.                     *)
(*                                                                         *)
(* A struct type is opaque here: shape inference never looks inside one.   *)
(***************************************************************************)
EXTENDS Integers, SequencesExt

Shape == Seq(Nat)

Ranked(s) == [tag |-> "ranked", shape |-> s]
Unranked  == [tag |-> "unranked", shape |-> << >>]
Struct    == [tag |-> "struct", shape |-> << >>]
NoResult  == [tag |-> "none", shape |-> << >>]

(* NoResult is the type of an operation without a result.                  *)
Type == [tag : {"ranked"}, shape : Shape] \cup {Unranked, Struct, NoResult}

IsRanked(t) == t.tag = "ranked"
IsTensor(t) == t.tag \in {"ranked", "unranked"}

(* A result type that is no RankedTensorType, which a struct type is not   *)
(* either.                                                                 *)
IsDynamic(t) == t.tag \in {"unranked", "struct"}

-----------------------------------------------------------------------------

(* The operations that implement the ShapeInference interface.             *)
InterfaceKinds == {"constant", "add", "mul", "transpose", "cast"}

OtherKinds == {"reshape", "generic_call", "struct_constant", "struct_access",
               "print", "return"}

Kinds == {"arg"} \cup InterfaceKinds \cup OtherKinds

(* value is the shape of the attribute of a constant.                      *)
Op == [kind : Kinds, args : Seq(Nat), value : Shape]

HasInterface(op) == op.kind \in InterfaceKinds

(* Faulty variant: a transpose that keeps the order of the dimensions.     *)
InferredTypeUnreversed(op, ty) ==
    IF op.kind = "constant" THEN Ranked(op.value) ELSE ty[op.args[1]]

(* inferShapes() of each operation that has it.  The elementwise           *)
(* operations take the type of their left operand and never look at the    *)
(* right one.                                                              *)
InferredType(op, ty) ==
    IF op.kind = "constant" THEN Ranked(op.value)
    ELSE IF op.kind = "transpose"
         THEN Ranked(Reverse(ty[op.args[1]].shape))
         ELSE ty[op.args[1]]

-----------------------------------------------------------------------------
(* Verifiers.                                                              *)

ConstantVerifies(op, t) == IsRanked(t) => t.shape = op.value

(* Three-iterator std::equal: it compares as many dimensions as the input  *)
(* has, so a result of larger rank may pass.  What it reads past a result  *)
(* of smaller rank is undefined; any outcome is allowed for it here.       *)
TransposeVerifies(in, out) ==
    IsRanked(in) /\ IsRanked(out) =>
        \A i \in DOMAIN in.shape :
            i <= Len(out.shape) =>
                in.shape[i] = out.shape[Len(out.shape) + 1 - i]

CastCompatible(in, out) ==
    /\ IsTensor(in) /\ IsTensor(out)
    /\ IsRanked(in) /\ IsRanked(out) => in = out

(* At most one operand, and as many as the function has results.           *)
ReturnVerifies(op, ty, result) ==
    /\ Len(op.args) <= 1
    /\ Len(op.args) = Len(result)
    /\ \A i \in DOMAIN op.args :
           \/ ty[op.args[i]] = result[i]
           \/ Unranked \in {ty[op.args[i]], result[i]}

(* The type constraints of Ops.td on operands and results and the          *)
(* hand-written verifiers.  result is the list of result types of the      *)
(* function.                                                               *)
OpVerifies(op, t, ty, result) ==
    /\ op.kind = "arg" => t # NoResult
    /\ op.kind = "constant" => IsTensor(t) /\ ConstantVerifies(op, t)
    /\ op.kind \in {"add", "mul"} =>
           IsTensor(t) /\ \A v \in ToSet(op.args) : IsTensor(ty[v])
    /\ op.kind = "transpose" =>
           /\ IsTensor(t) /\ IsTensor(ty[op.args[1]])
           /\ TransposeVerifies(ty[op.args[1]], t)
    /\ op.kind = "cast" => CastCompatible(ty[op.args[1]], t)
    /\ op.kind = "reshape" => IsRanked(t) /\ IsTensor(ty[op.args[1]])
    /\ op.kind = "print" => IsTensor(ty[op.args[1]])
    /\ op.kind = "struct_access" => ty[op.args[1]] = Struct
    /\ op.kind = "struct_constant" => t = Struct
    /\ op.kind = "return" => ReturnVerifies(op, ty, result)

(* The numbers of operands the arguments in Ops.td allow.                  *)
ArityOK(op) ==
    LET n == Len(op.args)
    IN  /\ op.kind \in {"arg", "constant", "struct_constant"} => n = 0
        /\ op.kind \in {"add", "mul"} => n = 2
        /\ op.kind \in {"transpose", "cast", "reshape", "struct_access", "print"} => n = 1

-----------------------------------------------------------------------------
(* Functions.                                                              *)

(* A value of the function, or an operation without a result.              *)
Defs(p) == DOMAIN p.ops

IsOp(p, v) == p.ops[v].kind # "arg"

Args(p, v) == ToSet(p.ops[v].args)

(* A function body that the verifier lets into a pass pipeline: operands   *)
(* are defined before they are used.                                       *)
WellFormed(p) ==
    /\ p.ops \in Seq(Op)
    /\ p.types \in [Defs(p) -> Type]
    /\ p.result \in Seq(Type)
    /\ \A v \in Defs(p) :
           /\ ArityOK(p.ops[v])
           /\ \A a \in Args(p, v) : a \in 1 .. v - 1 /\ p.types[a] # NoResult
           /\ OpVerifies(p.ops[v], p.types[v], p.types, p.result)

(* The functions every operation of which has a lowering: main returns     *)
(* nothing, and has operations of the kinds the affine and the LLVM        *)
(* lowering have patterns for.                                             *)
Lowerable(p) ==
    /\ p.result = << >>
    /\ \A v \in Defs(p) :
           /\ p.ops[v].kind \in {"constant", "add", "mul", "transpose", "print", "return"}
           /\ p.ops[v].kind = "return" => p.ops[v].args = << >>
=============================================================================
