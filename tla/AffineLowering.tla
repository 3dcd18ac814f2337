--------------------------- MODULE AffineLowering ---------------------------
(***************************************************************************)
(* ToyToAffineLoweringPass (src/toy/LowerToAffineLoops.cpp) on the module  *)
(* shape inference leaves: a partial conversion that visits main and then  *)
(* its operations in order, each rewritten by the pattern of its kind.     *)
(*                                                                         *)
(* block is the body of main while it is rewritten.  The driver erases a   *)
(* replaced operation only when the whole conversion has succeeded, so the *)
(* toy operations stay in the block as anchors until Commit; when one has  *)
(* no pattern the rewrites are rolled back and the pass fails.             *)
(*                                                                         *)
(* A buffer is named by the toy value it holds.                            *)
(***************************************************************************)
EXTENDS ToyIR, Tensors

CONSTANT Programs    \* functions as in ToyIR, with a name and the other functions left

ASSUME ProgramsAreInferred ==
    \A p \in Programs :
        /\ WellFormed(p)
        /\ \A v \in Defs(p) :
               /\ p.types[v] = NoResult \/ IsRanked(p.types[v])
               /\ p.ops[v].kind \in {"add", "mul"} => p.types[v] = p.types[p.ops[v].args[1]]
               /\ p.ops[v].kind = "return" <=> v = Len(p.ops)
        /\ p.ops # << >>
        /\ p.others \in SUBSET STRING

VARIABLES
    prog,      \* the program before the pass
    block,     \* the body of main: toy operations and what replaced them
    remap,     \* toy values replaced by a memref
    cur,       \* the next operation to legalize
    status     \* how far the compiler has come

affineVars == <<prog, block, remap, cur, status>>

-----------------------------------------------------------------------------
(* Operations of a block.                                                  *)

ToyOp(v)    == [i |-> "toy", v |-> v]
Alloca(v)   == [i |-> "alloca", v |-> v]
Dealloc(v)  == [i |-> "dealloc", v |-> v]
PrintBuf(v) == [i |-> "print", v |-> v]
FuncReturn  == [i |-> "return"]

(* affine.store of element number val of the constant into buffer v.       *)
Store(v, idx, val) == [i |-> "store", v |-> v, at |-> idx, val |-> val]

(* A loop nest over the shape of v that stores body(ivs) to v[ivs]; each   *)
(* load gives a buffer and the order in which it takes the indices.        *)
Nest(v, body, loads) == [i |-> "nest", v |-> v, body |-> body, loads |-> loads]

Load(v, order) == [v |-> v, order |-> order]

ShapeOf(v) == prog.types[v].shape

Kind(v) == prog.ops[v].kind

Operand(v, n) == prog.ops[v].args[n]

(* A rewriter inserts new operations before the one it rewrites.           *)
Before(b, v, seq) ==
    LET n == SelectInSeq(b, LAMBDA e : e = ToyOp(v))
    IN  SubSeq(b, 1, n - 1) \o seq \o SubSeq(b, n, Len(b))

(* Faulty variants: the dealloc is left in front of the operation, and is  *)
(* never created.                                                          *)
WithBufferInPlace(b, v) == Before(<<Alloca(v)>> \o b, v, <<Dealloc(v)>>)

WithBufferLeaking(b, v) == <<Alloca(v)>> \o b

(* insertAllocAndDealloc: the alloca is created before the operation and   *)
(* moved after the front of the block, which it may itself be; the dealloc *)
(* is moved before the back of the block.                                  *)
WithBuffer(b, v) ==
    LET rest == IF Head(b) = ToyOp(v) THEN <<Alloca(v)>> \o b
                                      ELSE <<Head(b), Alloca(v)>> \o Tail(b)
    IN  Front(rest) \o <<Dealloc(v), Last(rest)>>

(* storeElements: every index of the remaining dimensions, in the order    *)
(* the recursion meets them.                                               *)
StoreOrder(s) ==
    LET suffixes[d \in 1 .. Len(s) + 1] ==
            IF d > Len(s) THEN << << >> >>
            ELSE FlattenSeq([i \in 1 .. s[d] |->
                     [n \in DOMAIN suffixes[d + 1] |-> <<i - 1>> \o suffixes[d + 1][n]]])
    IN  suffixes[1]

(* Faulty variant: the last element is not stored.                         *)
StoresShort(v) ==
    LET order == Front(StoreOrder(ShapeOf(v)))
    IN  [n \in DOMAIN order |-> Store(v, order[n], n - 1)]

Stores(v) ==
    LET order == StoreOrder(ShapeOf(v))
    IN  [n \in DOMAIN order |-> Store(v, order[n], n - 1)]

-----------------------------------------------------------------------------
(* The patterns.                                                           *)

Init ==
    /\ prog \in Programs
    /\ block = [v \in Defs(prog) |-> ToyOp(v)]
    /\ remap = {}
    /\ cur = 1
    /\ status = "func"

(* Faulty variant: every function is taken to be legal.                    *)
LowerFuncAnyway ==
    /\ status = "func"
    /\ status' = "convert"
    /\ UNCHANGED <<prog, block, remap, cur>>

(* FuncOpLowering, and the failure of the functions it does not match.     *)
LowerFunc ==
    /\ status = "func"
    /\ status' = IF /\ prog.others = {}
                    /\ prog.result = << >>
                    /\ \A v \in Defs(prog) : IsOp(prog, v)
                 THEN "convert" ELSE "failed"
    /\ UNCHANGED <<prog, block, remap, cur>>

Legalizing(v) == status = "convert" /\ cur = v /\ v \in Defs(prog)

LowerConstant(v) ==
    /\ Legalizing(v) /\ Kind(v) = "constant"
    /\ block' = Before(WithBuffer(block, v), v, Stores(v))
    /\ remap' = remap \cup {v}
    /\ cur' = cur + 1
    /\ UNCHANGED <<prog, status>>

(* The load of a transpose takes the induction variables in reverse.       *)
LowerTranspose(v) ==
    /\ Legalizing(v) /\ Kind(v) = "transpose"
    /\ Operand(v, 1) \in remap
    /\ block' = Before(WithBuffer(block, v), v,
                       <<Nest(v, "copy", <<Load(Operand(v, 1), "reverse")>>)>>)
    /\ remap' = remap \cup {v}
    /\ cur' = cur + 1
    /\ UNCHANGED <<prog, status>>

(* BinaryOpLowering reads both operands at the induction variables of the  *)
(* result, whose shape is that of the left operand.                        *)
LowerBinary(v) ==
    /\ Legalizing(v) /\ Kind(v) \in {"add", "mul"}
    /\ Args(prog, v) \subseteq remap
    /\ block' = Before(WithBuffer(block, v), v,
                       <<Nest(v, Kind(v), <<Load(Operand(v, 1), "same"),
                                            Load(Operand(v, 2), "same")>>)>>)
    /\ remap' = remap \cup {v}
    /\ cur' = cur + 1
    /\ UNCHANGED <<prog, status>>

(* PrintOpLowering changes the operand of the print in place.              *)
LowerPrint(v) ==
    /\ Legalizing(v) /\ Kind(v) = "print"
    /\ Operand(v, 1) \in remap
    /\ block' = [n \in DOMAIN block |->
                    IF block[n] = ToyOp(v) THEN PrintBuf(Operand(v, 1)) ELSE block[n]]
    /\ cur' = cur + 1
    /\ UNCHANGED <<prog, remap, status>>

(* Faulty variant: the return is erased and nothing takes its place.       *)
LowerReturnErasing(v) ==
    /\ Legalizing(v) /\ Kind(v) = "return" /\ Args(prog, v) = {}
    /\ cur' = cur + 1
    /\ UNCHANGED <<prog, block, remap, status>>

LowerReturn(v) ==
    /\ Legalizing(v) /\ Kind(v) = "return" /\ Args(prog, v) = {}
    /\ block' = Before(block, v, <<FuncReturn>>)
    /\ cur' = cur + 1
    /\ UNCHANGED <<prog, remap, status>>

(* Faulty variant: the failed pattern does not fail the conversion.        *)
RollBackSilently(v) ==
    /\ Legalizing(v)
    /\ Kind(v) \notin {"constant", "add", "mul", "transpose", "print"}
    /\ block' = [n \in Defs(prog) |-> ToyOp(n)]
    /\ remap' = {}
    /\ UNCHANGED <<prog, cur, status>>

(* No pattern for the operation, or a return of a value: the conversion    *)
(* fails and the driver undoes every rewrite.                              *)
RollBack(v) ==
    /\ Legalizing(v)
    /\ \/ Kind(v) \in {"cast", "reshape", "generic_call", "struct_constant", "struct_access"}
       \/ Kind(v) = "return" /\ Args(prog, v) # {}
    /\ block' = [n \in Defs(prog) |-> ToyOp(n)]
    /\ remap' = {}
    /\ status' = "failed"
    /\ UNCHANGED <<prog, cur>>

(* affine.load verifies that it has an index for each dimension.           *)
LoadVerifies(n, l) == Len(ShapeOf(l.v)) = Len(ShapeOf(n.v))

(* The operations of b that were not replaced, in their order.             *)
Erased(b) ==
    FlattenSeq([n \in DOMAIN b |-> IF b[n].i = "toy" THEN << >> ELSE <<b[n]>>])

(* The replaced operations are erased and the module is verified.          *)
Commit ==
    /\ status = "convert"
    /\ cur \notin Defs(prog)
    /\ block' = Erased(block)
    /\ status' = IF \A n \in ToSet(block') : n.i = "nest" =>
                        \A l \in ToSet(n.loads) : LoadVerifies(n, l)
                 THEN "affine" ELSE "invalid"
    /\ UNCHANGED <<prog, remap, cur>>

AffineNext ==
    \/ LowerFunc
    \/ \E v \in Defs(prog) :
           \/ LowerConstant(v)
           \/ LowerTranspose(v)
           \/ LowerBinary(v)
           \/ LowerPrint(v)
           \/ LowerReturn(v)
           \/ RollBack(v)
    \/ Commit
=============================================================================
