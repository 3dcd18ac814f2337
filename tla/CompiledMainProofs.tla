------------------------- MODULE CompiledMainProofs -------------------------
(***************************************************************************)
(* Main after both lowerings and the machine that runs it, for all         *)
(* programs: the steps of the lowerings keep the invariant of              *)
(* LoweringProofs, and running a block that has it is safe.                *)
(***************************************************************************)
EXTENDS CompiledMain, LoweringProofs, FiniteSetTheorems

-----------------------------------------------------------------------------
(* The steps of the lowerings.                                             *)

(* The operations of a program have known types.                           *)
LEMMA TypeFacts ==
    ASSUME prog \in Programs, NEW v \in 1 .. N
    PROVE  /\ ShapeOf(v) \in Seq(Nat)
           /\ prog.types[v] = NoResult \/ IsRanked(prog.types[v])
           /\ prog.types[v] \in Type
           /\ OpVerifies(prog.ops[v], prog.types[v], prog.types, prog.result)
           /\ \A a \in Args(prog, v) : prog.types[a] # NoResult
           /\ Kind(v) \in {"add", "mul"} => prog.types[v] = prog.types[Operand(v, 1)]
           /\ prog.ops[v] \in Op
<1>1. WellFormed(prog) /\ v \in Defs(prog)
  BY ProgramFacts, ProgramsAreInferred
<1>2. prog.types[v] \in Type /\ prog.ops[v] \in Op
  BY <1>1 DEF WellFormed, Defs
<1>3. ShapeOf(v) \in Seq(Nat)
  <2>1. << >> \in Seq(Nat)
    OBVIOUS
  <2>2. \A t \in [tag : {"ranked"}, shape : Seq(Nat)] : t.shape \in Seq(Nat)
    BY Zenon
  <2>3. \A t \in {Unranked, Struct, NoResult} : t.shape = << >>
    BY DEF Unranked, Struct, NoResult
  <2> QED BY <1>2, <2>1, <2>2, <2>3 DEF ShapeOf, Type, Shape
<1> QED BY <1>1, <1>2, <1>3, ProgramsAreInferred DEF WellFormed, Kind, Operand

(* The stores of a constant write each of its elements.                    *)
LEMMA StoresFill ==
    ASSUME prog \in Programs, NEW v \in 1 .. N, Kind(v) = "constant"
    PROVE  /\ Stores(v) \in Seq(ToSet(Stores(v)))
           /\ \A j \in 1 .. Len(Stores(v)) : Fills(Stores(v)[j], v)
           /\ Filled(Stores(v), v)
<1> DEFINE order == StoreOrder(ShapeOf(v))
           L == Len(order)
           seq == Stores(v)
<1>1. L \in Nat /\ DOMAIN order = 1 .. L
  <2>1. ShapeOf(v) \in Seq(Nat)
    BY TypeFacts
  <2>2. order \in Seq(Indices(ShapeOf(v)))
    BY <2>1, StoreOrderIndices
  <2> HIDE DEF order
  <2> QED BY <2>2
<1>2. seq = [n \in 1 .. L |-> StoreOf(v, n)]
  BY <1>1 DEF Stores, StoreOf
<1> HIDE DEF seq, L
<1>3. Len(seq) = L /\ \A n \in 1 .. L : seq[n] = StoreOf(v, n)
  BY <1>1, <1>2
<1>4. seq \in Seq(ToSet(seq))
  <2>1. seq \in [1 .. L -> ToSet(seq)]
    BY <1>2 DEF ToSet
  <2> QED BY <2>1, <1>1, SeqDef
<1>5. ASSUME NEW j \in 1 .. L PROVE Fills(seq[j], v)
  BY <1>1, <1>3 DEF Fills
<1>6. ASSUME NEW k \in DOMAIN order PROVE Occurs(seq, StoreOf(v, k))
  BY <1>1, <1>3 DEF Occurs
<1> QED BY <1>3, <1>4, <1>5, <1>6 DEF Filled, seq

(* The operations that replace one that gets a buffer.                     *)
LEMMA BufferStep ==
    ASSUME prog \in Programs, NEW b, NEW R, NEW v \in 1 .. N,
           RemapInv(R, v), BlockInv(b, R, v), ConvertInv(b, R, v),
           Kind(v) \in BufferKinds, Args(prog, v) \subseteq R,
           NEW seq, seq \in Seq(ToSet(seq)),
           \A j \in 1 .. Len(seq) : Fills(seq[j], v), Filled(seq, v)
    PROVE  /\ RemapInv(R \cup {v}, v + 1)
           /\ BlockInv(Before(WithBuffer(b, v), v, seq), R \cup {v}, v + 1)
           /\ ConvertInv(Before(WithBuffer(b, v), v, seq), R \cup {v}, v + 1)
           /\ (\A n \in 1 .. Len(b) : b[n].i # "printloops") =>
                  \A n \in 1 .. Len(Before(WithBuffer(b, v), v, seq)) :
                      Before(WithBuffer(b, v), v, seq)[n].i # "printloops"
<1> DEFINE r == Before(WithBuffer(b, v), v, seq)
           S == ToSet(b) \cup ToSet(seq) \cup {Alloca(v), Dealloc(v)}
<1>1. v \in Defs(prog) /\ v # N
  BY ProgramFacts DEF BufferKinds
<1>2. PICK p \in 1 .. Len(b) : b[p] = ToyOp(v) /\ \A n \in 1 .. Len(b) : b[n] = ToyOp(v) => n = p
  <2>1. N \in Nat
    BY ProgramFacts
  <2>2. v >= v
    BY <2>1
  <2> QED BY <1>1, <2>2 DEF ConvertInv, TodoInv, Once
<1>3. p # Len(b)
  <2>1. ToyOp(v) # ToyOp(N)
    BY <1>1, OpFields
  <2> QED BY <1>2, <2>1 DEF ConvertInv
<1>4. p \in 1 .. Len(b) - 1
  <2>1. Len(b) \in Nat
    BY DEF BlockInv
  <2> QED BY <2>1, <1>3
<1>5. b \in Seq(S) /\ seq \in Seq(S) /\ Alloca(v) \in S /\ Dealloc(v) \in S
  <2>1. b \in Seq(ToSet(b))
    BY DEF BlockInv
  <2> QED BY <2>1, SeqMonotonic
<1> HIDE DEF S
<1>6. PICK at, al, de, g : Placed(b, r, p, Alloca(v), Dealloc(v), seq, at, al, de, g)
  BY <1>2, <1>4, <1>5, BufferPlaced
<1> HIDE DEF r
<1>7. RemapInv(R \cup {v}, v + 1)
  BY <1>2, <1>4, <1>6, BufferedInv
<1>8. BlockInv(r, R \cup {v}, v + 1)
  BY <1>2, <1>4, <1>6, BufferedInv
<1>9. ConvertInv(r, R \cup {v}, v + 1)
  BY <1>2, <1>4, <1>6, BufferedInv
<1>10. ASSUME \A n \in 1 .. Len(b) : b[n].i # "printloops", NEW q \in 1 .. Len(r)
       PROVE  r[q].i # "printloops"
  <2>1. \/ q = al
        \/ q = de
        \/ \E n \in 1 .. Len(b) : q = at[n]
        \/ \E j \in 1 .. Len(seq) : q = g[j]
    BY <1>6, Zenon DEF Placed
  <2>2. /\ \A n \in 1 .. Len(b) : r[at[n]] = b[n]
        /\ \A j \in 1 .. Len(seq) : r[g[j]] = seq[j]
        /\ r[al] = Alloca(v) /\ r[de] = Dealloc(v)
    BY <1>6, Zenon DEF Placed
  <2>3. \A j \in 1 .. Len(seq) : seq[j].i # "printloops"
    BY FillFacts
  <2>4. Alloca(v).i = "alloca" /\ Dealloc(v).i = "dealloc"
    BY OpFields
  <2>5. CASE q = al \/ q = de
    BY <2>2, <2>4, <2>5
  <2>6. CASE \E n \in 1 .. Len(b) : q = at[n]
    BY <1>10, <2>2, <2>6
  <2>7. CASE \E j \in 1 .. Len(seq) : q = g[j]
    BY <2>2, <2>3, <2>7
  <2> QED BY <2>1, <2>5, <2>6, <2>7
<1> QED BY <1>7, <1>8, <1>9, <1>10 DEF r

(* One nest.                                                               *)
LEMMA NestFills ==
    ASSUME prog \in Programs, NEW v \in 1 .. N, Kind(v) \in BufferKinds,
           Kind(v) # "constant"
    PROVE  /\ <<NestOf(v)>> \in Seq(ToSet(<<NestOf(v)>>))
           /\ \A j \in 1 .. Len(<<NestOf(v)>>) : Fills(<<NestOf(v)>>[j], v)
           /\ Filled(<<NestOf(v)>>, v)
<1> DEFINE e == NestOf(v)
           seq == <<e>>
<1> HIDE DEF e
<1>1. Len(seq) = 1 /\ seq[1] = e /\ seq \in Seq({e})
  OBVIOUS
<1>2. seq \in Seq(ToSet(seq))
  BY <1>1, SeqOfElements
<1>3. \A j \in 1 .. Len(seq) : Fills(seq[j], v)
  BY <1>1 DEF Fills, e
<1>4. Filled(seq, v)
  BY <1>1 DEF Filled, Occurs, e
<1> QED BY <1>2, <1>3, <1>4 DEF e

(* No print is a nest of loops yet.                                        *)
NoLoops == \A n \in 1 .. Len(block) : block[n].i # "printloops"

(* LowerConstant, LowerTranspose and LowerBinary keep the invariant.       *)
LEMMA LowerBufferKeeps ==
    ASSUME LoweringInv, NEW v \in Defs(prog),
           LowerConstant(v) \/ LowerTranspose(v) \/ LowerBinary(v)
    PROVE  LoweringInv' /\ (NoLoops => NoLoops')
<1>1. /\ prog \in Programs /\ status = "convert" /\ cur = v
      /\ UNCHANGED <<prog, status>> /\ remap' = remap \cup {v} /\ cur' = v + 1
      /\ Kind(v) \in BufferKinds /\ v \in 1 .. N
  BY ProgramFacts DEF LoweringInv, LowerConstant, LowerTranspose, LowerBinary, Legalizing,
                      BufferKinds
<1>2. /\ RemapInv(remap, v) /\ BlockInv(block, remap, v) /\ ConvertInv(block, remap, v)
      /\ prog.others = {} /\ prog.result = << >>
  BY <1>1 DEF LoweringInv
<1>3. /\ RemapInv(remap', cur') /\ BlockInv(block', remap', cur')
      /\ ConvertInv(block', remap', cur') /\ (NoLoops => NoLoops')
  <2>1. CASE LowerConstant(v)
    <3>1. Kind(v) = "constant" /\ block' = Before(WithBuffer(block, v), v, Stores(v))
      BY <2>1 DEF LowerConstant
    <3>2. Args(prog, v) \subseteq remap
      BY <1>1, <3>1, ProgramFacts
    <3>3. /\ Stores(v) \in Seq(ToSet(Stores(v)))
          /\ \A j \in 1 .. Len(Stores(v)) : Fills(Stores(v)[j], v)
          /\ Filled(Stores(v), v)
      BY <1>1, <3>1, StoresFill
    <3> QED BY <1>1, <1>2, <3>1, <3>2, <3>3, BufferStep, ZenonT(60) DEF NoLoops
  <2>2. CASE LowerTranspose(v) \/ LowerBinary(v)
    <3>1. /\ Kind(v) # "constant" /\ Args(prog, v) \subseteq remap
          /\ block' = Before(WithBuffer(block, v), v, <<NestOf(v)>>)
      <4>1. CASE LowerTranspose(v)
        <5>1. Kind(v) = "transpose" /\ Operand(v, 1) \in remap
          BY <4>1 DEF LowerTranspose
        <5>2. Args(prog, v) \subseteq {Operand(v, 1)}
          <6>1. prog.ops[v] \in Op /\ ArityOK(prog.ops[v])
            BY <1>1, ProgramsAreInferred, TypeFacts DEF WellFormed
          <6> DEFINE a == prog.ops[v].args
          <6>2. a \in Seq(Nat) /\ Len(a) = 1
            BY <5>1, <6>1 DEF Op, ArityOK, Kind
          <6> HIDE DEF a
          <6>3. ToSet(a) \subseteq {a[1]}
            BY <6>2 DEF ToSet
          <6> QED BY <6>3 DEF a, Args, Operand
        <5> QED BY <4>1, <5>1, <5>2 DEF LowerTranspose, NestOf
      <4>2. CASE LowerBinary(v)
        BY <4>2 DEF LowerBinary, NestOf
      <4> QED BY <2>2, <4>1, <4>2
    <3>2. /\ <<NestOf(v)>> \in Seq(ToSet(<<NestOf(v)>>))
          /\ \A j \in 1 .. Len(<<NestOf(v)>>) : Fills(<<NestOf(v)>>[j], v)
          /\ Filled(<<NestOf(v)>>, v)
      BY <1>1, <3>1, NestFills
    <3> QED BY <1>1, <1>2, <3>1, <3>2, BufferStep DEF NoLoops
  <2> QED BY <2>1, <2>2
<1> QED BY <1>1, <1>2, <1>3, SameProgram

(* LowerFunc fails only on what has no pattern.                            *)
LEMMA LowerFuncKeeps == LoweringInv /\ LowerFunc => LoweringInv'
<1> SUFFICES ASSUME LoweringInv, LowerFunc PROVE LoweringInv'
  OBVIOUS
<1>1. /\ prog \in Programs /\ status = "func" /\ UNCHANGED <<prog, block, remap, cur>>
      /\ block = Initial /\ remap = {} /\ cur = 1
  BY DEF LoweringInv, LowerFunc
<1>2. cur \in 1 .. N + 1
  BY <1>1, ProgramFacts
<1>3. CASE status' = "convert"
  <2>1. prog.others = {} /\ prog.result = << >>
    BY <1>1, <1>3 DEF LowerFunc
  <2>2. /\ RemapInv(remap', cur') /\ BlockInv(block', remap', cur')
        /\ ConvertInv(block', remap', cur')
    BY <1>1, InitialInv
  <2> QED BY <1>1, <1>3, <2>1, <2>2, SameProgram
<1>4. CASE status' = "failed"
  <2>1. ~ (prog.others = {} /\ Lowerable(prog))
    BY <1>1, <1>4 DEF LowerFunc, Lowerable, IsOp
  <2> QED BY <1>1, <1>2, <1>4, <2>1, SameProgram
<1> QED BY <1>3, <1>4 DEF LowerFunc

(* LowerPrint keeps the invariant.                                         *)
LEMMA LowerPrintKeeps ==
    ASSUME LoweringInv, NEW v \in Defs(prog), LowerPrint(v)
    PROVE  LoweringInv'
<1>1. /\ prog \in Programs /\ status = "convert" /\ cur = v
      /\ UNCHANGED <<prog, status, remap>> /\ cur' = v + 1
      /\ Kind(v) = "print" /\ v \in 1 .. N /\ Operand(v, 1) \in remap
      /\ block' = [n \in DOMAIN block |->
                      IF block[n] = ToyOp(v) THEN PrintBuf(Operand(v, 1)) ELSE block[n]]
  BY ProgramFacts DEF LoweringInv, LowerPrint, Legalizing
<1>2. /\ RemapInv(remap, v) /\ BlockInv(block, remap, v) /\ ConvertInv(block, remap, v)
      /\ prog.others = {} /\ prog.result = << >>
  BY <1>1 DEF LoweringInv
<1>3. /\ RemapInv(remap', cur') /\ BlockInv(block', remap', cur')
      /\ ConvertInv(block', remap', cur')
  BY <1>1, <1>2, PrintedInv
<1> QED BY <1>1, <1>2, <1>3, SameProgram

(* LowerReturn keeps the invariant.                                        *)
LEMMA LowerReturnKeeps ==
    ASSUME LoweringInv, NEW v \in Defs(prog), LowerReturn(v)
    PROVE  LoweringInv'
<1>1. /\ prog \in Programs /\ status = "convert" /\ cur = v
      /\ UNCHANGED <<prog, status, remap>> /\ cur' = v + 1
      /\ v = N /\ Args(prog, v) = {}
      /\ block' = Before(block, v, <<FuncReturn>>)
  BY ProgramFacts DEF LoweringInv, LowerReturn, Legalizing
<1>2. /\ RemapInv(remap, v) /\ BlockInv(block, remap, v) /\ ConvertInv(block, remap, v)
      /\ prog.others = {} /\ prog.result = << >>
  BY <1>1 DEF LoweringInv
<1>3. /\ RemapInv(remap', cur') /\ BlockInv(block', remap', cur')
      /\ ConvertInv(block', remap', cur')
  BY <1>1, <1>2, ReturnedInv
<1> QED BY <1>1, <1>2, <1>3, SameProgram

(* A conversion that fails leaves the block it found.                      *)
LEMMA RollBackKeeps ==
    ASSUME LoweringInv, NEW v \in Defs(prog), RollBack(v)
    PROVE  LoweringInv'
<1>1. /\ prog \in Programs /\ status' = "failed" /\ UNCHANGED <<prog, cur>>
      /\ remap' = {} /\ block' = Initial
  BY DEF LoweringInv, RollBack, Initial
<1>2. cur \in 1 .. N + 1
  BY DEF LoweringInv, RollBack, Legalizing, RemapInv
<1>3. ~ Lowerable(prog)
  <2>1. CASE Kind(v) \in {"cast", "reshape", "generic_call", "struct_constant",
                          "struct_access"}
    BY <2>1 DEF Lowerable, Kind
  <2>2. CASE Kind(v) = "return" /\ Args(prog, v) # {}
    <3>1. ToSet(<< >>) = {}
      BY DEF ToSet
    <3>2. prog.ops[v].args # << >>
      BY <2>2, <3>1 DEF Args
    <3> QED BY <2>2, <3>2 DEF Lowerable, Kind
  <2> QED BY <2>1, <2>2 DEF RollBack
<1> QED BY <1>1, <1>2, <1>3, SameProgram

(* Committing leaves the lowered operations; it is "affine" only if they   *)
(* verify.                                                                 *)
LEMMA CommitKeeps == LoweringInv /\ Commit => LoweringInv'
<1> SUFFICES ASSUME LoweringInv, Commit PROVE LoweringInv'
  OBVIOUS
<1>1. /\ prog \in Programs /\ UNCHANGED <<prog, remap, cur>>
      /\ RemapInv(remap, cur) /\ BlockInv(block, remap, cur)
      /\ ConvertInv(block, remap, cur)
      /\ prog.others = {} /\ prog.result = << >>
      /\ block' = Erased(block) /\ status' \in {"affine", "invalid"}
  BY DEF LoweringInv, Commit
<1>2. cur = N + 1
  <2>1. N \in Nat /\ cur \in 1 .. N + 1 /\ cur \notin 1 .. N
    BY <1>1, ProgramFacts DEF Commit, RemapInv
  <2> QED BY <2>1
<1>3. BlockInv(block', remap', cur')
  BY <1>1, <1>2, CommittedInv
<1>4. FinalInv(block', remap', cur')
  BY <1>1, <1>2, CommittedInv
<1>5. status' = "affine" => Verified(block')
  <2>1. block' \in Seq(ToSet(block'))
    BY <1>3 DEF BlockInv
  <2>2. \A n \in 1 .. Len(block') : block'[n] \in ToSet(block')
    BY <2>1
  <2>3. status' = "affine" =>
            \A n \in ToSet(block') : n.i = "nest" =>
                \A l \in ToSet(n.loads) : LoadVerifies(n, l)
    BY DEF Commit
  <2>4. \A x : \A k \in DOMAIN x : x[k] \in ToSet(x)
    BY DEF ToSet
  <2> QED BY <2>2, <2>3, <2>4 DEF Verified
<1>6. RemapInv(remap', cur')
  BY <1>1
<1> QED BY <1>1, <1>3, <1>4, <1>5, <1>6, SameProgram
(* A print that was lowered prints a buffer.                               *)
LEMMA PrintOf ==
    ASSUME prog \in Programs, NEW R, NEW c, RemapInv(R, c), NEW e, Lowered(e, R, c),
           e.i = "print"
    PROVE  \E w \in Defs(prog) : /\ w < c /\ Kind(w) = "print" /\ Operand(w, 1) \in R
                                 /\ e = PrintBuf(Operand(w, 1))
<1>1. ASSUME NEW v \in R, e = Alloca(v) \/ e = Dealloc(v) \/ Fills(e, v)
      PROVE  FALSE
  <2>1. v \in 1 .. N /\ Kind(v) \in BufferKinds
    <3>1. v \in 1 .. c - 1 /\ c \in 1 .. N + 1 /\ Kind(v) \in BufferKinds /\ N \in Nat
      BY ProgramFacts DEF RemapInv
    <3> QED BY <3>1
  <2> QED BY <1>1, <2>1, FillFacts, OpFields
<1>2. e # FuncReturn
  BY OpFields
<1>3. PICK v \in Defs(prog) : v < c /\ Kind(v) = "print" /\ Prints(e, v)
  BY <1>1, <1>2 DEF Lowered
<1>4. Operand(v, 1) \in R
  BY <1>3, ProgramFacts DEF RemapInv
<1> QED BY <1>3, <1>4, OpFields DEF Prints

(* Turning a print into its loops changes no other operation, and what is  *)
(* read.                                                                   *)
LEMMA PrintLoopsInv ==
    ASSUME prog \in Programs, NEW b, NEW R, NEW c,
           RemapInv(R, c), BlockInv(b, R, c), FinalInv(b, R, c), Verified(b),
           NEW p \in 1 .. Len(b), b[p].i = "print",
           NEW r, r = [b EXCEPT ![p] = PrintLoops(b[p].v)]
    PROVE  BlockInv(r, R, c) /\ FinalInv(r, R, c) /\ Verified(r)
<1> DEFINE L == Len(b)
<1>1. L \in Nat /\ DOMAIN b = 1 .. L /\ L >= 1
  BY DEF BlockInv
<1>2. PICK w \in Defs(prog) : /\ w < c /\ Kind(w) = "print" /\ Operand(w, 1) \in R
                              /\ b[p] = PrintBuf(Operand(w, 1))
  <2>1. Lowered(b[p], R, c)
    BY DEF FinalInv
  <2> QED BY <2>1, PrintOf
<1> DEFINE a == Operand(w, 1)
<1>3. b[p].v = a /\ Prints(PrintLoops(a), w) /\ Prints(b[p], w)
  BY <1>2, OpFields DEF Prints
<1>4. /\ \A n \in 1 .. L : n # p => r[n] = b[n]
      /\ r[p] = PrintLoops(a) /\ Len(r) = L /\ DOMAIN r = 1 .. L
  <2>1. DOMAIN r = 1 .. L
    BY <1>1
  <2>2. Len(r) = L
    BY <2>1, <1>1
  <2> QED BY <1>1, <1>3, <2>1, <2>2
<1>5. r \in Seq(ToSet(r)) /\ r # << >>
  <2> HIDE DEF L
  <2>1. r = [n \in 1 .. L |-> r[n]]
    BY <1>1
  <2>2. r \in Seq(ToSet(r))
    <3>1. L \in Nat
      BY <1>1
    <3> QED BY ONLY <2>1, <3>1, FunctionIsSeq
  <2>3. Len(<< >>) = 0
    OBVIOUS
  <2>4. r # << >>
    BY <2>3, <1>1, <1>4
  <2> QED BY <2>2, <2>4
<1> HIDE DEF L
<1>6. r[p].i = "printloops" /\ r[p].v = a /\ b[p].v = a
  BY <1>3, <1>4, OpFields
<1>7. \A n \in 1 .. L : Rank(r[n]) = Rank(b[n])
  <2>1. Rank(r[p]) = 2 /\ Rank(b[p]) = 2
    BY <1>6, OpFields DEF Rank
  <2> QED BY <1>4, <2>1
<1>8. \A n \in 1 .. L : \A x : /\ ReadsFrom(r[n], x) <=> ReadsFrom(b[n], x)
                               /\ WritesTo(r[n], x) <=> WritesTo(b[n], x)
  <2>1. \A x : (ReadsFrom(r[p], x) <=> ReadsFrom(b[p], x))
               /\ (WritesTo(r[p], x) <=> WritesTo(b[p], x))
    BY <1>6 DEF ReadsFrom, WritesTo
  <2> QED BY <1>4, <2>1
<1>9. ASSUME NEW e, e.i \notin {"print", "printloops"}
      PROVE  \A n \in 1 .. L : r[n] = e <=> b[n] = e
  BY <1>4, <1>6, <1>9
<1>10. \A v \in R : v \in 1 .. N /\ Kind(v) \in BufferKinds
  <2>1. c \in 1 .. N + 1 /\ N \in Nat
    BY ProgramFacts DEF RemapInv
  <2> QED BY <2>1 DEF RemapInv
<1>11. Sorted(r)
  <2>1. Sorted(b)
    BY DEF BlockInv
  <2> QED BY <2>1, <1>4, <1>7 DEF Sorted, L
<1>12. WritesFirst(r, R)
  <2>1. WritesFirst(b, R)
    BY DEF BlockInv
  <2> QED BY <2>1, <1>4, <1>8 DEF WritesFirst, L
<1>13. Complete(r, R, c)
  <2>1. Complete(b, R, c)
    BY DEF BlockInv
  <2>2. ASSUME NEW v \in R PROVE Once(r, Alloca(v)) /\ Once(r, Dealloc(v))
    <3>1. Once(b, Alloca(v)) /\ Once(b, Dealloc(v))
      BY <2>1 DEF Complete
    <3>2. Alloca(v).i = "alloca" /\ Dealloc(v).i = "dealloc"
      BY OpFields
    <3> QED BY <3>1, <3>2, <1>4, <1>9 DEF Once, L
  <2>3. ASSUME NEW v \in R PROVE Filled(r, v)
    <3>1. Filled(b, v)
      BY <2>1 DEF Complete
    <3>2. \A k : StoreOf(v, k).i = "store"
      BY OpFields DEF StoreOf
    <3>3. NestOf(v).i = "nest"
      BY OpFields DEF NestOf
    <3> QED BY <3>1, <3>2, <3>3, <1>4, <1>9 DEF Filled, Occurs, L
  <2>4. ASSUME NEW v \in Defs(prog), v < c, Kind(v) = "print"
        PROVE  \E n \in 1 .. Len(r) : Prints(r[n], v)
    <3>1. PICK n \in 1 .. L : Prints(b[n], v)
      BY <2>1, <2>4 DEF Complete, L
    <3>2. CASE n = p
      <4>1. Operand(v, 1) = a
        BY <1>6, <3>1, <3>2, OpFields DEF Prints
      <4> QED BY <1>4, <3>2, <4>1 DEF Prints
    <3>3. CASE n # p
      BY <1>4, <3>1, <3>3
    <3> QED BY <3>2, <3>3
  <2> QED BY <2>2, <2>3, <2>4 DEF Complete
<1>14. FinalInv(r, R, c)
  <2>1. ASSUME NEW n \in 1 .. Len(r) PROVE Lowered(r[n], R, c)
    <3>1. Lowered(r[p], R, c)
      BY <1>2, <1>3, <1>4 DEF Lowered
    <3>2. n # p => Lowered(r[n], R, c)
      BY <1>4 DEF FinalInv, L
    <3> QED BY <3>1, <3>2
  <2>2. \A n \in 1 .. L : r[n] = FuncReturn <=> b[n] = FuncReturn
    BY <1>9, OpFields
  <2> QED BY <2>1, <2>2, <1>4 DEF FinalInv, L
<1>15. Verified(r)
  BY <1>4, <1>6 DEF Verified, L
<1> QED BY <1>5, <1>11, <1>12, <1>13, <1>14, <1>15 DEF BlockInv

(* Lowering a print keeps the invariant.                                   *)
LEMMA LowerPrintLoopsKeeps ==
    ASSUME LoweringInv, NEW n \in DOMAIN block, LowerPrintLoops(n)
    PROVE  LoweringInv'
<1>1. /\ prog \in Programs /\ UNCHANGED <<prog, remap, cur, status>> /\ status = "affine"
      /\ RemapInv(remap, cur) /\ BlockInv(block, remap, cur)
      /\ FinalInv(block, remap, cur) /\ Verified(block)
      /\ prog.others = {} /\ prog.result = << >>
      /\ block' = [block EXCEPT ![n] = PrintLoops(block[n].v)] /\ block[n].i = "print"
  BY DEF LoweringInv, LowerPrintLoops
<1>2. n \in 1 .. Len(block)
  BY <1>1 DEF BlockInv
<1>3. /\ BlockInv(block', remap', cur') /\ FinalInv(block', remap', cur')
      /\ Verified(block')
  BY <1>1, <1>2, PrintLoopsInv
<1> QED BY <1>1, <1>3, SameProgram

(* So do the steps that change the status only.                            *)
LEMMA StatusKeeps ==
    ASSUME LoweringInv, UNCHANGED <<prog, block, remap, cur>>,
           \/ status' = status
           \/ status = "affine" /\ status' = "llvm"
           \/ status = "llvm" /\ status' = "done"
    PROVE  LoweringInv'
<1>1. UNCHANGED prog /\ prog \in Programs
  BY DEF LoweringInv
<1>2. CASE status' = status
  BY <1>1, <1>2, SameProgram DEF LoweringInv
<1>3. CASE status \in {"affine", "llvm"} /\ status' \in {"llvm", "done"}
  <2>1. /\ RemapInv(remap, cur) /\ BlockInv(block, remap, cur)
        /\ FinalInv(block, remap, cur) /\ Verified(block)
        /\ prog.others = {} /\ prog.result = << >>
    BY <1>3 DEF LoweringInv
  <2> QED BY <1>1, <1>3, <2>1, SameProgram
<1> QED BY <1>2, <1>3
(* The affine lowering makes no loops of a print.                          *)
LEMMA NoLoopsKept ==
    ASSUME LoweringInv, AffineNext, NoLoops
    PROVE  NoLoops'
<1>1. CASE LowerFunc
  BY <1>1 DEF NoLoops, LowerFunc
<1>2. ASSUME NEW v \in Defs(prog), LowerConstant(v) \/ LowerTranspose(v) \/ LowerBinary(v)
      PROVE  NoLoops'
  BY <1>2, LowerBufferKeeps
<1>3. ASSUME NEW v \in Defs(prog), LowerPrint(v) PROVE NoLoops'
  <2>1. block' = [n \in DOMAIN block |->
                     IF block[n] = ToyOp(v) THEN PrintBuf(Operand(v, 1)) ELSE block[n]]
    BY <1>3 DEF LowerPrint
  <2>2. DOMAIN block = 1 .. Len(block) /\ Len(block) \in Nat
    BY <1>3 DEF LowerPrint, Legalizing, LoweringInv, BlockInv
  <2>3. DOMAIN block' = 1 .. Len(block)
    BY <2>1, <2>2
  <2>4. Len(block') = Len(block)
    BY <2>2, <2>3
  <2> QED BY <2>1, <2>2, <2>4, OpFields DEF NoLoops
<1>4. ASSUME NEW v \in Defs(prog), LowerReturn(v) PROVE NoLoops'
  <2>1. /\ block' = Before(block, N, <<FuncReturn>>) /\ BlockInv(block, remap, N)
        /\ ConvertInv(block, remap, N) /\ N \in Nat /\ prog \in Programs
    BY <1>4, ProgramFacts DEF LowerReturn, Legalizing, LoweringInv
  <2> DEFINE L == Len(block)
             S == ToSet(block) \cup {FuncReturn}
  <2>2. L \in Nat /\ L >= 1 /\ \A n \in 1 .. L : block[n] = ToyOp(N) <=> n = L
    BY <2>1 DEF BlockInv, ConvertInv
  <2>3. block \in Seq(S) /\ FuncReturn \in S
    BY <2>1, SeqMonotonic DEF BlockInv
  <2> HIDE DEF S
  <2>4. L \in 1 .. Len(block) /\ block[L] = ToyOp(N)
        /\ \A n \in 1 .. Len(block) : block[n] = ToyOp(N) => n = L
    BY <2>2
  <2> HIDE DEF L
  <2>5. /\ Len(block') = Len(block) + 1 /\ block'[L] = FuncReturn
        /\ block'[L + 1] = block[L] /\ \A n \in 1 .. L - 1 : block'[n] = block[n]
    <3>1. block' = Before(block, N, <<FuncReturn>>)
      BY <2>1
    <3> DEFINE r == Before(block, N, <<FuncReturn>>)
    <3>2. /\ Len(r) = Len(block) + 1 /\ r[L] = FuncReturn /\ r[L + 1] = block[L]
          /\ \A n \in 1 .. L - 1 : r[n] = block[n]
      BY ONLY <2>3, <2>4, BeforeOne
    <3> HIDE DEF r
    <3> QED BY <3>2, <3>1 DEF r
  <2>6. \A n \in 1 .. Len(block') : n \in 1 .. L - 1 \/ n = L \/ n = L + 1
    BY <2>2, <2>5 DEF L
  <2>7. \A n \in 1 .. L : block[n].i # "printloops"
    BY DEF NoLoops, L
  <2>8. \A n \in 1 .. L - 1 : n \in 1 .. L
    BY <2>2
  <2>9. L \in 1 .. L
    BY <2>2
  <2> QED BY <2>5, <2>6, <2>7, <2>8, <2>9, OpFields DEF NoLoops
<1>5. ASSUME NEW v \in Defs(prog), RollBack(v) PROVE NoLoops'
  <2>1. block' = [n \in 1 .. N |-> ToyOp(n)] /\ N \in Nat
    BY <1>5, ProgramFacts DEF RollBack, LoweringInv
  <2> QED BY <2>1, OpFields DEF NoLoops
<1>6. CASE Commit
  <2>1. block \in Seq(ToSet(block)) /\ block' = Erased(block)
    BY <1>6 DEF Commit, LoweringInv, BlockInv
  <2>2. PICK from : Kept(block, block', from)
    BY <2>1, ErasedKeeps
  <2> QED BY <2>2 DEF Kept, NoLoops
<1> QED BY <1>1, <1>2, <1>3, <1>4, <1>5, <1>6 DEF AffineNext

(* The steps of the lowerings keep the invariant.                          *)
LEMMA LoweringKeeps ==
    ASSUME LoweringInv,
           AffineNext \/ LLVMNext \/ UNCHANGED <<prog, block, remap, cur, status>>
    PROVE  LoweringInv'
<1>1. CASE AffineNext
  BY <1>1, LowerFuncKeeps, LowerBufferKeeps, LowerPrintKeeps, LowerReturnKeeps,
     RollBackKeeps, CommitKeeps DEF AffineNext
<1>2. CASE LLVMNext
  <2>1. CASE CommitLLVM
    BY <2>1, StatusKeeps DEF CommitLLVM
  <2> QED BY <1>2, <2>1, LowerPrintLoopsKeeps DEF LLVMNext
<1>3. CASE UNCHANGED <<prog, block, remap, cur, status>>
  BY <1>3, StatusKeeps
<1> QED BY <1>1, <1>2, <1>3

(* The invariant holds when the pass starts.                               *)
LEMMA LoweringStarts == Init => LoweringInv
<1> SUFFICES ASSUME Init PROVE LoweringInv
  OBVIOUS
<1>1. prog \in Programs /\ status = "func" /\ block = Initial /\ remap = {} /\ cur = 1
  BY DEF Init, Initial
<1> QED BY <1>1 DEF LoweringInv
-----------------------------------------------------------------------------
(* The machine.                                                            *)

(* Operation e is one of the first k - 1, which have run.                  *)
Ran(k, e) == \E n \in 1 .. k - 1 : block[n] = e

Allocated(k) == {a \in remap : Ran(k, Alloca(a))}
FreedBy(k)   == {a \in remap : Ran(k, Dealloc(a))}

(* One of them wrote the cell of buffer a at idx.                          *)
Wrote(k, a, idx) ==
    \E n \in 1 .. k - 1 :
        WritesTo(block[n], a) /\ (block[n].i = "store" => block[n].at = idx)

(* The machine before the k-th operation: its memory m, frame f and the    *)
(* buffers d it freed.                                                     *)
RunInv(k, m, f, d) ==
    /\ k \in 1 .. Len(block)
    /\ DOMAIN m = Allocated(k) /\ f = Allocated(k)
    /\ d = FreedBy(k)
    /\ \A a \in Allocated(k) :
           /\ DOMAIN m[a] = Indices(ShapeOf(a))
           /\ Matched(prog) =>
                  \A idx \in Indices(ShapeOf(a)) : Wrote(k, a, idx) => m[a][idx] # Undef

MachineInv ==
    /\ status \notin {"llvm", "done"} => pc = 1 /\ memory = << >> /\ frame = {} /\ freed = {}
    /\ status = "llvm" => RunInv(pc, memory, frame, freed)
    /\ status = "done" =>
           pc \in 1 .. Len(block) /\ DOMAIN memory = remap /\ freed = remap /\ frame = {}

(* What an operation touches is what it reads or writes, and such an       *)
(* operation stands between the allocas and the deallocs.                  *)
LEMMA TouchesFacts ==
    /\ \A e : \A a : a \in Touches(e) <=> ReadsFrom(e, a) \/ WritesTo(e, a)
    /\ \A e : \A a : ReadsFrom(e, a) \/ WritesTo(e, a) => Rank(e) = 2
    /\ \A a : Rank(Alloca(a)) = 1 /\ Rank(Dealloc(a)) = 3
    /\ Rank(FuncReturn) = 4 /\ Rank(ToyOp(N)) = 5
<1>1. ASSUME NEW e, NEW a
      PROVE  a \in Touches(e) <=> ReadsFrom(e, a) \/ WritesTo(e, a)
  <2>1. CASE e.i = "nest"
    <3>1. Touches(e) = {e.v} \cup {l.v : l \in ToSet(e.loads)}
      BY <2>1 DEF Touches
    <3>2. ToSet(e.loads) = {e.loads[n] : n \in DOMAIN e.loads}
      BY DEF ToSet
    <3> QED BY <2>1, <3>1, <3>2 DEF ReadsFrom, WritesTo
  <2>2. CASE e.i \in {"store", "print", "printloops"}
    BY <2>2 DEF Touches, ReadsFrom, WritesTo
  <2>3. CASE e.i \notin {"nest", "store", "print", "printloops"}
    BY <2>3 DEF Touches, ReadsFrom, WritesTo
  <2> QED BY <2>1, <2>2, <2>3
<1>2. ASSUME NEW e, NEW a, ReadsFrom(e, a) \/ WritesTo(e, a)
      PROVE  Rank(e) = 2
  <2>1. e.i \in {"nest", "store", "print", "printloops"}
    BY <1>2 DEF ReadsFrom, WritesTo
  <2>2. e # ToyOp(N)
    BY <2>1, OpFields
  <2> QED BY <2>1, <2>2 DEF Rank
<1>3. \A a : Rank(Alloca(a)) = 1 /\ Rank(Dealloc(a)) = 3
  BY OpFields DEF Rank
<1>4. Rank(FuncReturn) = 4 /\ Rank(ToyOp(N)) = 5
  BY OpFields DEF Rank
<1> QED BY <1>1, <1>2, <1>3, <1>4

(* The alloca and the dealloc of a buffer enclose its uses, and are in     *)
(* front of the terminator.                                                *)
LEMMA Enclosed ==
    ASSUME NEW b, NEW R, NEW c, BlockInv(b, R, c),
           b[Len(b)] \in {FuncReturn, ToyOp(N)}, NEW a \in R
    PROVE  \E first, last \in 1 .. Len(b) :
               /\ \A n \in 1 .. Len(b) : b[n] = Alloca(a) <=> n = first
               /\ \A n \in 1 .. Len(b) : b[n] = Dealloc(a) <=> n = last
               /\ \A n \in 1 .. Len(b) : a \in Touches(b[n]) => first < n /\ n < last
               /\ first < last /\ last < Len(b)
<1> DEFINE L == Len(b)
<1>1. L \in Nat /\ L >= 1
  BY DEF BlockInv
<1> HIDE DEF L
<1>2. \A m, n \in 1 .. L : m < n => Rank(b[m]) <= Rank(b[n])
  BY DEF BlockInv, Sorted, L
<1>3. Once(b, Alloca(a)) /\ Once(b, Dealloc(a))
  BY DEF BlockInv, Complete
<1> PICK first \in 1 .. L :
       b[first] = Alloca(a) /\ \A n \in 1 .. L : b[n] = Alloca(a) => n = first
  BY <1>3 DEF Once, L
<1> PICK last \in 1 .. L :
       b[last] = Dealloc(a) /\ \A n \in 1 .. L : b[n] = Dealloc(a) => n = last
  BY <1>3 DEF Once, L
<1>4. Rank(b[first]) = 1 /\ Rank(b[last]) = 3 /\ Rank(b[L]) \in {4, 5}
  BY TouchesFacts DEF L
<1>5. ASSUME NEW m \in 1 .. L, NEW n \in 1 .. L, NEW x \in Nat, NEW y \in Nat,
             Rank(b[m]) = x, Rank(b[n]) = y, x < y
      PROVE  m < n
  <2>1. CASE n < m
    <3>1. y <= x
      BY <1>2, <1>5, <2>1
    <3> QED BY <1>5, <3>1
  <2>2. CASE n = m
    BY <1>5, <2>2
  <2> QED BY <1>1, <2>1, <2>2
<1>6. first < last
  BY <1>4, <1>5
<1>7. last < L
  <2>1. L \in 1 .. L
    BY <1>1
  <2> QED BY <2>1, <1>4, <1>5
<1>8. ASSUME NEW n \in 1 .. L, a \in Touches(b[n]) PROVE first < n /\ n < last
  <2>1. Rank(b[n]) = 2
    BY <1>8, TouchesFacts
  <2> QED BY <2>1, <1>4, <1>5
<1> QED BY <1>6, <1>7, <1>8 DEF L

(* It holds of both kinds of block.                                        *)
LEMMA EnclosedNow ==
    ASSUME LoweringInv, NEW a \in remap
    PROVE  \E first, last \in 1 .. Len(block) :
               /\ \A n \in 1 .. Len(block) : block[n] = Alloca(a) <=> n = first
               /\ \A n \in 1 .. Len(block) : block[n] = Dealloc(a) <=> n = last
               /\ \A n \in 1 .. Len(block) : a \in Touches(block[n]) => first < n /\ n < last
               /\ first < last /\ last < Len(block)
<1>1. status \notin {"func", "failed"}
  BY DEF LoweringInv
<1>2. BlockInv(block, remap, cur)
  BY <1>1 DEF LoweringInv
<1>3. Len(block) \in 1 .. Len(block)
  BY <1>2 DEF BlockInv
<1>4. block[Len(block)] \in {FuncReturn, ToyOp(N)}
  BY <1>1, <1>3 DEF LoweringInv, ConvertInv, FinalInv
<1> QED BY <1>2, <1>4, Enclosed

(* BuffersEncloseUses follows.                                             *)
LEMMA EncloseUses == LoweringInv => BuffersEncloseUses
<1> SUFFICES ASSUME LoweringInv, NEW a \in remap
             PROVE  \E first, last \in DOMAIN block :
                        /\ {n \in DOMAIN block : block[n] = Alloca(a)} = {first}
                        /\ {n \in DOMAIN block : block[n] = Dealloc(a)} = {last}
                        /\ \A n \in DOMAIN block :
                               a \in Touches(block[n]) => first < n /\ n < last
                        /\ last < Len(block)
  BY DEF BuffersEncloseUses
<1>1. DOMAIN block = 1 .. Len(block)
  BY DEF LoweringInv, BlockInv
<1> QED BY <1>1, EnclosedNow

(* The loads of one nest verify when the operands have the rank of the     *)
(* result.                                                                 *)
LEMMA NestRanks ==
    ASSUME prog \in Programs, NEW v \in 1 .. N, Kind(v) \in {"add", "mul", "transpose"}
    PROVE  (\A k \in DOMAIN NestOf(v).loads : LoadVerifies(NestOf(v), NestOf(v).loads[k]))
               <=> \A a \in Args(prog, v) : Len(ShapeOf(a)) = Len(ShapeOf(v))
<1> DEFINE args == prog.ops[v].args
           L    == NestOf(v).loads
<1>1. NestOf(v).v = v
  BY OpFields DEF NestOf
<1>2. args \in Seq(Nat) /\ ArityOK(prog.ops[v])
  BY ProgramFacts, TypeFacts, ProgramsAreInferred DEF Op, WellFormed
<1>3. Args(prog, v) = {args[n] : n \in 1 .. Len(args)}
  BY <1>2 DEF Args, ToSet
<1>4. Operand(v, 1) = args[1] /\ Operand(v, 2) = args[2]
  BY DEF Operand
<1>5. CASE Kind(v) = "transpose"
  <2>1. Len(args) = 1
    BY <1>2, <1>5 DEF ArityOK, Kind
  <2>2. L = <<Load(Operand(v, 1), "reverse")>>
    BY <1>5, OpFields DEF NestOf
  <2> HIDE DEF args, L
  <2>3. DOMAIN L = {1} /\ L[1].v = args[1]
    BY <2>2, <1>4 DEF Load
  <2>4. Args(prog, v) = {args[1]}
    BY <1>3, <2>1
  <2> QED BY <1>1, <2>3, <2>4 DEF L, LoadVerifies
<1>6. CASE Kind(v) \in {"add", "mul"}
  <2>1. Len(args) = 2
    BY <1>2, <1>6 DEF ArityOK, Kind
  <2>2. L = <<Load(Operand(v, 1), "same"), Load(Operand(v, 2), "same")>>
    BY <1>6, OpFields DEF NestOf
  <2> HIDE DEF args, L
  <2>3. DOMAIN L = {1, 2} /\ L[1].v = args[1] /\ L[2].v = args[2]
    BY <2>2, <1>4 DEF Load
  <2>4. Args(prog, v) = {args[1], args[2]}
    BY <1>3, <2>1
  <2> QED BY <1>1, <2>3, <2>4 DEF L, LoadVerifies
<1> QED BY <1>5, <1>6

(* What is left of main verifies exactly when the ranks agree: each nest   *)
(* is the one of an operation, and each operation has its nest.            *)
LEMMA VerifiedRanks ==
    ASSUME prog \in Programs, NEW b, NEW R,
           RemapInv(R, N + 1), BlockInv(b, R, N + 1), FinalInv(b, R, N + 1)
    PROVE  Verified(b) <=> RanksAgree(prog)
<1> DEFINE NestVerifies(v) ==
               \A k \in DOMAIN NestOf(v).loads : LoadVerifies(NestOf(v), NestOf(v).loads[k])
           Nests == {v \in 1 .. N : Kind(v) \in {"add", "mul", "transpose"}}
<1>1. RanksAgree(prog) <=> \A v \in Nests : NestVerifies(v)
  <2>1. Defs(prog) = 1 .. N
    BY ProgramFacts
  <2>2. RanksAgree(prog) <=>
            \A v \in Nests : \A a \in Args(prog, v) : Len(ShapeOf(a)) = Len(ShapeOf(v))
    BY <2>1 DEF RanksAgree, ShapeOf, Kind
  <2> QED BY <2>2, NestRanks
<1>2. ASSUME Verified(b), NEW v \in Nests PROVE NestVerifies(v)
  <2>1. v \in R /\ Kind(v) # "constant"
    BY ProgramFacts DEF RemapInv, BufferKinds
  <2>2. PICK n \in 1 .. Len(b) : b[n] = NestOf(v)
    BY <2>1 DEF BlockInv, Complete, Filled, Occurs
  <2>3. NestOf(v).i = "nest"
    BY OpFields DEF NestOf
  <2> QED BY <1>2, <2>2, <2>3 DEF Verified
<1>3. ASSUME \A v \in Nests : NestVerifies(v) PROVE Verified(b)
  <2> SUFFICES ASSUME NEW n \in 1 .. Len(b), b[n].i = "nest"
               PROVE  \A k \in DOMAIN b[n].loads : LoadVerifies(b[n], b[n].loads[k])
    BY DEF Verified
  <2>1. Lowered(b[n], R, N + 1)
    BY DEF FinalInv
  <2>2. b[n].v \in R /\ Fills(b[n], b[n].v)
    BY <2>1, LoweredFacts
  <2>3. b[n].v \in 1 .. N /\ Kind(b[n].v) \in BufferKinds
    BY <2>2, ProgramFacts DEF RemapInv
  <2>4. Kind(b[n].v) # "constant"
    BY <2>2, <2>3, FillFacts
  <2>5. b[n] = NestOf(b[n].v) /\ b[n].v \in Nests
    BY <2>2, <2>3, <2>4 DEF Fills, BufferKinds
  <2> QED BY <1>3, <2>5
<1> QED BY <1>1, <1>2, <1>3

(* The verifier rejected a block for one of its loads.                     *)
InvalidInv == status = "invalid" => ~ Verified(block)

(* Only committing a conversion can make a block invalid.                  *)
LEMMA InvalidKeeps ==
    ASSUME InvalidInv, LoweringInv, LoweringInv', [Next]_vars
    PROVE  InvalidInv'
<1> SUFFICES ASSUME status' = "invalid" PROVE ~ Verified(block)'
  BY DEF InvalidInv
<1>1. CASE Commit
  <2>1. PICK n \in ToSet(block') : n.i = "nest" /\ \E l \in ToSet(n.loads) : ~ LoadVerifies(n, l)
    BY <1>1 DEF Commit
  <2>2. PICK m \in DOMAIN block' : block'[m] = n
    BY <2>1 DEF ToSet
  <2>3. PICK k \in DOMAIN n.loads : ~ LoadVerifies(n, n.loads[k])
    BY <2>1 DEF ToSet
  <2>4. block' \in Seq(ToSet(block'))
    BY DEF LoweringInv, BlockInv
  <2>5. m \in 1 .. Len(block')
    BY <2>2, <2>4
  <2>6. UNCHANGED prog
    BY <1>1 DEF Commit
  <2>7. ~ (LoadVerifies(n, n.loads[k]))'
    BY <2>3, <2>6 DEF LoadVerifies, ShapeOf
  <2> QED BY <2>1, <2>2, <2>5, <2>7 DEF Verified
<1>2. CASE UNCHANGED vars
  BY <1>2 DEF vars, InvalidInv, Verified, LoadVerifies, ShapeOf
<1>3. ~ LowerFunc
  BY DEF LowerFunc
<1>4. ASSUME NEW v \in Defs(prog)
      PROVE  ~ (\/ LowerConstant(v) \/ LowerTranspose(v) \/ LowerBinary(v)
                \/ LowerPrint(v) \/ LowerReturn(v) \/ RollBack(v))
  BY DEF LowerConstant, LowerTranspose, LowerBinary, LowerPrint, LowerReturn, RollBack,
         Legalizing
<1>5. ~ LLVMNext
  BY DEF LLVMNext, LowerPrintLoops, CommitLLVM
<1>6. ~ Exec
  BY DEF Exec, ExecAlloca, ExecStore, ExecNest, ExecPrint, ExecDealloc, ExecReturn,
         Current, Advance, llvmVars
<1> QED BY <1>1, <1>2, <1>3, <1>4, <1>5, <1>6 DEF Next, AffineNext

(* FailsOnlyIfIllegal follows: whatever was legalized has a pattern.       *)
LEMMA FailsRightly == LoweringInv /\ InvalidInv => FailsOnlyIfIllegal
<1> SUFFICES ASSUME LoweringInv, InvalidInv, status \in {"affine", "invalid", "llvm", "done"}
             PROVE  /\ prog.others = {} /\ Lowerable(prog)
                    /\ status = "invalid" <=> ~ RanksAgree(prog)
  BY DEF FailsOnlyIfIllegal, LoweringInv
<1>1. /\ prog \in Programs /\ prog.others = {} /\ prog.result = << >>
      /\ RemapInv(remap, cur) /\ cur = N + 1
      /\ BlockInv(block, remap, cur) /\ FinalInv(block, remap, cur)
  BY DEF LoweringInv, FinalInv
<1>2. \A v \in Defs(prog) : v < cur
  BY <1>1, ProgramFacts
<1>3. Lowerable(prog)
  BY <1>1, <1>2 DEF Lowerable, RemapInv, Kind, BufferKinds
<1>4. Verified(block) <=> RanksAgree(prog)
  BY <1>1, VerifiedRanks
<1> QED BY <1>1, <1>3, <1>4 DEF LoweringInv, InvalidInv
-----------------------------------------------------------------------------
(* What a main that runs reads.                                            *)

(* The operations of a main that can run.                                  *)
LEMMA MainFacts ==
    ASSUME LoweringInv, status = "llvm", NEW k \in 1 .. Len(block)
    PROVE  /\ prog \in Programs /\ RemapInv(remap, cur) /\ BlockInv(block, remap, cur)
           /\ Lowered(block[k], remap, cur) /\ Len(block) \in Nat
           /\ block[k].i = "return" <=> k = Len(block)
           /\ \A v \in remap : v \in 1 .. N /\ Kind(v) \in BufferKinds
           /\ block[k].i \in {"store", "nest"} =>
                  block[k].v \in remap /\ Fills(block[k], block[k].v)
           /\ \A a : ReadsFrom(block[k], a) => a \in remap
<1>1. /\ prog \in Programs /\ RemapInv(remap, cur) /\ BlockInv(block, remap, cur)
      /\ FinalInv(block, remap, cur)
  BY DEF LoweringInv
<1>2. Lowered(block[k], remap, cur) /\ (block[k] = FuncReturn <=> k = Len(block))
  BY <1>1 DEF FinalInv
<1>3. block[k].i = "return" <=> block[k] = FuncReturn
  BY <1>1, <1>2, LoweredFacts, OpFields
<1>4. \A v \in remap : v \in 1 .. N /\ Kind(v) \in BufferKinds
  <2>1. cur \in 1 .. N + 1 /\ N \in Nat
    BY <1>1, ProgramFacts DEF RemapInv
  <2> QED BY <2>1, <1>1 DEF RemapInv
<1>5. Len(block) \in Nat
  BY <1>1 DEF BlockInv
<1> QED BY <1>1, <1>2, <1>3, <1>4, <1>5, LoweredFacts

(* A buffer that is read is allocated, and each of its cells was written.  *)
LEMMA ReadCells ==
    ASSUME LoweringInv, status = "llvm", NEW k, NEW m, NEW f, NEW d, RunInv(k, m, f, d),
           NEW a, ReadsFrom(block[k], a)
    PROVE  /\ a \in Allocated(k) /\ DOMAIN m[a] = Indices(ShapeOf(a))
           /\ \A idx \in Indices(ShapeOf(a)) : Wrote(k, a, idx)
           /\ Matched(prog) => \A idx \in Indices(ShapeOf(a)) : m[a][idx] # Undef
<1>1. k \in 1 .. Len(block) /\ Len(block) \in Nat
  BY MainFacts DEF RunInv
<1>2. /\ prog \in Programs /\ BlockInv(block, remap, cur) /\ a \in remap
      /\ a \in 1 .. N /\ Kind(a) \in BufferKinds
  BY <1>1, MainFacts
<1>3. a \in Allocated(k)
  <2>1. a \in Touches(block[k])
    BY TouchesFacts
  <2>2. PICK n \in 1 .. Len(block) : block[n] = Alloca(a) /\ n < k
    BY <1>1, <1>2, <2>1, EnclosedNow
  <2>3. n \in 1 .. k - 1
    BY <1>1, <2>2
  <2> QED BY <1>2, <2>2, <2>3 DEF Allocated, Ran
<1>4. ASSUME NEW n \in 1 .. Len(block), WritesTo(block[n], a) PROVE n \in 1 .. k - 1
  <2>1. n < k
    BY <1>1, <1>2, <1>4 DEF BlockInv, WritesFirst
  <2> QED BY <2>1, <1>1
<1>5. ASSUME NEW idx \in Indices(ShapeOf(a)) PROVE Wrote(k, a, idx)
  <2>1. Filled(block, a)
    BY <1>2 DEF BlockInv, Complete
  <2>2. CASE Kind(a) = "constant"
    <3>1. ShapeOf(a) \in Seq(Nat)
      BY <1>2, TypeFacts
    <3>2. PICK j \in DOMAIN StoreOrder(ShapeOf(a)) : StoreOrder(ShapeOf(a))[j] = idx
      BY <3>1, StoreOrderIndices
    <3>3. PICK n \in 1 .. Len(block) : block[n] = StoreOf(a, j)
      BY <2>1, <2>2 DEF Filled, Occurs
    <3>4. WritesTo(block[n], a) /\ block[n].at = idx
      BY <3>2, <3>3 DEF WritesTo, StoreOf, Store
    <3> QED BY <3>4, <1>4 DEF Wrote
  <2>3. CASE Kind(a) # "constant"
    <3>1. PICK n \in 1 .. Len(block) : block[n] = NestOf(a)
      BY <2>1, <2>3 DEF Filled, Occurs
    <3>2. WritesTo(block[n], a) /\ block[n].i = "nest"
      BY <3>1, OpFields DEF WritesTo, NestOf
    <3> QED BY <3>2, <1>4 DEF Wrote
  <2> QED BY <2>2, <2>3
<1> QED BY <1>3, <1>5 DEF RunInv

(* An index of the transpose, reversed, is one of its operand.             *)
LEMMA ReversedIndex ==
    ASSUME NEW s \in Seq(Nat), NEW t \in Seq(Nat), Len(s) = Len(t),
           \A i \in 1 .. Len(s) : s[i] = t[Len(t) + 1 - i],
           NEW idx \in Indices(t)
    PROVE  Reverse(idx) \in Indices(s)
<1> DEFINE L == Len(t)
<1>1. L \in Nat /\ Len(s) = L /\ \A i \in 1 .. L : s[i] = t[L + 1 - i]
  OBVIOUS
<1>2. idx \in Seq(Nat) /\ Len(idx) = L /\ \A i \in 1 .. L : idx[i] < t[i]
  BY IndicesAre
<1> DEFINE r == Reverse(idx)
<1>3. r = [i \in 1 .. L |-> idx[L - i + 1]]
  BY <1>2 DEF Reverse
<1> HIDE DEF L, r
<1>4. ASSUME NEW i \in 1 .. L PROVE r[i] \in Nat /\ r[i] < s[i]
  <2>1. L - i + 1 \in 1 .. L /\ L + 1 - i = L - i + 1
    BY <1>1
  <2>2. r[i] = idx[L - i + 1] /\ s[i] = t[L - i + 1]
    BY <1>1, <1>3, <2>1
  <2>3. idx[L - i + 1] \in Nat
    BY <1>2, <2>1, ElementOfSeq
  <2> QED BY <1>2, <2>1, <2>2, <2>3
<1>5. r \in Seq(Nat) /\ Len(r) = L
  <2>1. r \in [1 .. L -> Nat]
    BY <1>3, <1>4
  <2>2. r \in Seq(Nat)
    BY <2>1, <1>1, SeqDef
  <2>3. DOMAIN r = 1 .. L
    BY <2>1
  <2> QED BY <2>2, <2>3, <1>1
<1> QED BY <1>1, <1>4, <1>5, IndicesAre DEF r
(* The nests of a program whose operands match stay inside the buffers     *)
(* they read.                                                              *)
LEMMA NestReads ==
    ASSUME LoweringInv, status = "llvm", Matched(prog),
           NEW k \in 1 .. Len(block), block[k].i = "nest",
           NEW ivs \in Indices(ShapeOf(block[k].v)), NEW j \in DOMAIN block[k].loads
    PROVE  /\ ReadsFrom(block[k], block[k].loads[j].v)
           /\ Ordered(block[k].loads[j].order, ivs) \in Indices(ShapeOf(block[k].loads[j].v))
<1> DEFINE e == block[k]
           v == e.v
           l == e.loads[j]
<1>1. /\ prog \in Programs /\ v \in 1 .. N /\ Kind(v) \in BufferKinds /\ Fills(e, v)
      /\ N \in Nat
  BY MainFacts, ProgramFacts
<1>2. e = NestOf(v) /\ Kind(v) # "constant"
  BY <1>1, OpFields DEF Fills, StoreOf
<1>3. ReadsFrom(e, l.v)
  BY DEF ReadsFrom
<1>4. Len(ShapeOf(l.v)) = Len(ShapeOf(v))
  <2>1. Verified(block)
    BY DEF LoweringInv
  <2> QED BY <2>1 DEF Verified, LoadVerifies
<1>5. \A a \in Args(prog, v) : a \in 1 .. N /\ IsRanked(prog.types[a])
  <2>1. \A a \in Args(prog, v) : a \in 1 .. N
    BY <1>1, ProgramFacts
  <2> QED BY <2>1, <1>1, TypeFacts
<1> HIDE DEF e
<1>6. CASE Kind(v) = "transpose"
  <2> DEFINE a == Operand(v, 1)
  <2>1. l = Load(a, "reverse")
    <3>1. e.loads = <<Load(a, "reverse")>>
      BY <1>2, <1>6, OpFields DEF NestOf
    <3> QED BY <3>1 DEF e
  <2>2. a \in Args(prog, v)
    BY <1>1, <1>6, ProgramFacts
  <2>3. /\ OpVerifies(prog.ops[v], prog.types[v], prog.types, prog.result)
        /\ prog.types[v] = NoResult \/ IsRanked(prog.types[v])
    BY SMTT(30), <1>1, TypeFacts
  <2>4. IsTensor(prog.types[v]) /\ TransposeVerifies(prog.types[a], prog.types[v])
    BY <1>6, <2>3 DEF OpVerifies, Kind, Operand
  <2>5. IsRanked(prog.types[v]) /\ IsRanked(prog.types[a])
    BY <1>5, <2>2, <2>3, <2>4 DEF IsTensor, IsRanked, NoResult
  <2>6. ShapeOf(a) \in Seq(Nat) /\ ShapeOf(v) \in Seq(Nat)
    BY <1>1, <1>5, <2>2, TypeFacts
  <2>7. Len(ShapeOf(a)) = Len(ShapeOf(v))
    BY <1>4, <2>1 DEF Load
  <2>8. ASSUME NEW i \in 1 .. Len(ShapeOf(a))
        PROVE  ShapeOf(a)[i] = ShapeOf(v)[Len(ShapeOf(v)) + 1 - i]
    <3>1. i \in DOMAIN ShapeOf(a) /\ i <= Len(ShapeOf(v))
      BY <2>6, <2>7
    <3> QED BY <3>1, <2>4, <2>5 DEF TransposeVerifies, ShapeOf
  <2>9. Reverse(ivs) \in Indices(ShapeOf(a))
    BY <2>6, <2>7, <2>8, ReversedIndex DEF e
  <2> QED BY <1>3, <2>1, <2>9 DEF Ordered, Load, e
<1>7. CASE Kind(v) \in {"add", "mul"}
  <2>1. l = Load(Operand(v, 1), "same") \/ l = Load(Operand(v, 2), "same")
    <3>1. e.loads = <<Load(Operand(v, 1), "same"), Load(Operand(v, 2), "same")>>
      BY <1>2, <1>7, OpFields DEF NestOf
    <3> QED BY <3>1 DEF e
  <2>2. prog.types[Operand(v, 1)] = prog.types[v]
    BY <1>1, <1>7, TypeFacts
  <2>3. prog.types[Operand(v, 2)] = prog.types[v]
    BY <1>1, <1>7, ProgramFacts DEF Matched, Kind, Operand
  <2>4. l.order = "same" /\ ShapeOf(l.v) = ShapeOf(v)
    BY <2>1, <2>2, <2>3 DEF Load, ShapeOf
  <2> QED BY <1>3, <2>4 DEF Ordered, e
<1> QED BY <1>1, <1>2, <1>6, <1>7 DEF BufferKinds

(* The value of an iteration that reads only what was written is defined.  *)
LEMMA BodyDefined ==
    ASSUME LoweringInv, status = "llvm", Matched(prog), RunInv(pc, memory, frame, freed),
           block[pc].i = "nest", NEW ivs \in Indices(ShapeOf(block[pc].v))
    PROVE  BodyValue(block[pc], ivs) # Undef
<1> DEFINE e == block[pc]
           v == e.v
<1>1. pc \in 1 .. Len(block)
  BY DEF RunInv
<1>2. ASSUME NEW j \in DOMAIN e.loads PROVE Cell(e.loads[j], ivs) # Undef
  <2> DEFINE l == e.loads[j]
             idx == Ordered(l.order, ivs)
  <2>1. ReadsFrom(e, l.v) /\ idx \in Indices(ShapeOf(l.v))
    BY <1>1, NestReads
  <2>2. InBounds(<<l.v, idx>>)
    BY <2>1 DEF InBounds
  <2>3. Cell(l, ivs) = memory[l.v][idx]
    BY <2>2 DEF Cell
  <2> HIDE DEF e, l, idx
  <2>4. memory[l.v][idx] # Undef
    BY <2>1, ReadCells DEF e
  <2> QED BY <2>3, <2>4 DEF l, e
<1>3. /\ e = NestOf(v) /\ Kind(v) \in {"transpose", "add", "mul"}
  <2>1. Fills(e, v) /\ Kind(v) \in BufferKinds
    BY <1>1, MainFacts
  <2> QED BY <2>1, OpFields DEF Fills, StoreOf, BufferKinds
<1> HIDE DEF e, v
<1>4. CASE Kind(v) = "transpose"
  <2>1. e.body = "copy" /\ e.loads = <<Load(Operand(v, 1), "reverse")>>
    BY <1>3, <1>4, OpFields DEF NestOf
  <2>2. 1 \in DOMAIN e.loads
    BY <2>1
  <2>3. Cell(e.loads[1], ivs) # Undef
    BY <1>2, <2>2
  <2> QED BY <2>1, <2>3 DEF BodyValue, e
<1>5. CASE Kind(v) \in {"add", "mul"}
  <2>1. e.body = Kind(v)
    BY <1>3, <1>5, OpFields DEF NestOf
  <2>2. BodyValue(e, ivs) = <<e.body, Cell(e.loads[1], ivs), Cell(e.loads[2], ivs)>>
    BY <1>5, <2>1 DEF BodyValue
  <2>3. Len(BodyValue(e, ivs)) = 3 /\ Len(Undef) = 1
    BY <2>2 DEF Undef
  <2> QED BY <2>3 DEF e
<1> QED BY <1>3, <1>4, <1>5

(* MemorySafe follows.                                                     *)
LEMMA SafeAccesses == LoweringInv /\ MachineInv => MemorySafe
<1> SUFFICES ASSUME LoweringInv, MachineInv, status = "llvm", Matched(prog)
             PROVE  LET e == block[pc]
                    IN  /\ Touches(e) \subseteq Live
                        /\ e.i = "nest" =>
                               \A ivs \in Indices(ShapeOf(e.v)), l \in ToSet(e.loads) :
                                   /\ InBounds(<<l.v, Ordered(l.order, ivs)>>)
                                   /\ Cell(l, ivs) # Undef
                        /\ e.i = "printloops" =>
                               \A idx \in DOMAIN memory[e.v] : memory[e.v][idx] # Undef
                        /\ e.i = "dealloc" => e.v \in Live
  BY DEF MemorySafe
<1> DEFINE e == block[pc]
<1>1. /\ RunInv(pc, memory, frame, freed) /\ pc \in 1 .. Len(block) /\ Len(block) \in Nat
      /\ frame = Allocated(pc) /\ freed = FreedBy(pc)
  BY MainFacts DEF MachineInv, RunInv
<1>2. ASSUME NEW a \in Touches(e) PROVE a \in Live
  <2>1. a \in remap
    <3>1. ReadsFrom(e, a) \/ WritesTo(e, a)
      BY <1>2, TouchesFacts
    <3> QED BY <1>1, <3>1, MainFacts DEF WritesTo
  <2>2. PICK first, last \in 1 .. Len(block) :
               /\ \A n \in 1 .. Len(block) : block[n] = Alloca(a) <=> n = first
               /\ \A n \in 1 .. Len(block) : block[n] = Dealloc(a) <=> n = last
               /\ first < pc /\ pc < last
    BY <2>1, <1>1, <1>2, EnclosedNow
  <2>3. first \in 1 .. pc - 1 /\ \A n \in 1 .. pc - 1 : n \in 1 .. Len(block) /\ n # last
    BY <1>1, <2>2
  <2> QED BY <1>1, <2>1, <2>2, <2>3 DEF Live, Allocated, FreedBy, Ran
<1>3. ASSUME e.i = "dealloc" PROVE e.v \in Live
  <2> DEFINE a == e.v
  <2>1. a \in remap /\ e = Dealloc(a)
    BY <1>1, <1>3, MainFacts, LoweredFacts
  <2> HIDE DEF a
  <2>2. PICK first, last \in 1 .. Len(block) :
               /\ \A n \in 1 .. Len(block) : block[n] = Alloca(a) <=> n = first
               /\ \A n \in 1 .. Len(block) : block[n] = Dealloc(a) <=> n = last
               /\ first < last
    BY <2>1, EnclosedNow
  <2>3. last = pc
    BY <1>1, <2>1, <2>2
  <2>4. first \in 1 .. pc - 1 /\ \A n \in 1 .. pc - 1 : n \in 1 .. Len(block) /\ n # last
    BY <1>1, <2>2, <2>3
  <2>5. a \in Live
    BY <1>1, <2>1, <2>2, <2>4 DEF Live, Allocated, FreedBy, Ran
  <2> QED BY <2>5 DEF a
<1>4. ASSUME e.i = "printloops", NEW idx \in DOMAIN memory[e.v]
      PROVE  memory[e.v][idx] # Undef
  <2>1. ReadsFrom(e, e.v)
    BY <1>4 DEF ReadsFrom
  <2> QED BY <1>1, <1>4, <2>1, ReadCells
<1>5. ASSUME e.i = "nest", NEW ivs \in Indices(ShapeOf(e.v)), NEW l \in ToSet(e.loads)
      PROVE  InBounds(<<l.v, Ordered(l.order, ivs)>>) /\ Cell(l, ivs) # Undef
  <2>1. PICK j \in DOMAIN e.loads : l = e.loads[j]
    BY <1>5 DEF ToSet
  <2> DEFINE idx == Ordered(l.order, ivs)
  <2>2. ReadsFrom(e, l.v) /\ idx \in Indices(ShapeOf(l.v))
    BY <1>1, <1>5, <2>1, NestReads
  <2>3. InBounds(<<l.v, idx>>)
    BY <2>2 DEF InBounds
  <2>4. Cell(l, ivs) = memory[l.v][idx]
    BY <2>3 DEF Cell
  <2> HIDE DEF idx
  <2>5. memory[l.v][idx] # Undef
    BY <1>1, <2>2, ReadCells
  <2> QED BY <2>3, <2>4, <2>5 DEF idx
<1> QED BY <1>2, <1>3, <1>4, <1>5

-----------------------------------------------------------------------------
(* The steps of the machine.                                               *)

(* One more operation has run, and main goes on after it.                  *)
LEMMA OneMore ==
    ASSUME LoweringInv, MachineInv, status = "llvm", block[pc].i # "return"
    PROVE  /\ RunInv(pc, memory, frame, freed) /\ pc + 1 \in 1 .. Len(block)
           /\ pc \in 1 .. Len(block) /\ Len(block) \in Nat
           /\ \A e : Ran(pc + 1, e) <=> Ran(pc, e) \/ block[pc] = e
           /\ \A a, idx : Wrote(pc + 1, a, idx) <=>
                  \/ Wrote(pc, a, idx)
                  \/ WritesTo(block[pc], a) /\ (block[pc].i = "store" => block[pc].at = idx)
<1>1. RunInv(pc, memory, frame, freed)
  BY DEF MachineInv
<1>2. pc \in 1 .. Len(block) /\ Len(block) \in Nat /\ pc # Len(block)
  <2>1. pc \in 1 .. Len(block)
    BY <1>1 DEF RunInv
  <2> QED BY <2>1, MainFacts
<1>3. pc + 1 \in 1 .. Len(block)
  BY <1>2
<1>4. \A n : n \in 1 .. (pc + 1) - 1 <=> n \in 1 .. pc - 1 \/ n = pc
  BY <1>2
<1> QED BY <1>1, <1>2, <1>3, <1>4 DEF Ran, Wrote

(* The block stays what it is while it runs.                               *)
LEMMA SameBlock ==
    ASSUME prog' = prog, block' = block, remap' = remap,
           RunInv(pc', memory', frame', freed')
    PROVE  RunInv(pc, memory, frame, freed)'
<1>1. Allocated(pc)' = Allocated(pc') /\ FreedBy(pc)' = FreedBy(pc')
  BY DEF Allocated, FreedBy, Ran
<1>2. /\ (pc \in 1 .. Len(block))'
      /\ (DOMAIN memory = Allocated(pc))' /\ (frame = Allocated(pc))'
      /\ (freed = FreedBy(pc))'
  BY <1>1 DEF RunInv
<1>3. (\A a \in Allocated(pc) :
          /\ DOMAIN memory[a] = Indices(ShapeOf(a))
          /\ Matched(prog) =>
                 \A idx \in Indices(ShapeOf(a)) :
                     Wrote(pc, a, idx) => memory[a][idx] # Undef)'
  BY <1>1, ZenonT(60) DEF RunInv, Wrote, WritesTo, ShapeOf
<1> QED BY <1>2, <1>3 DEF RunInv

(* What holds of the machine after an operation is the invariant after it. *)
LEMMA SameMain ==
    ASSUME UNCHANGED llvmVars, status = "llvm", RunInv(pc', memory', frame', freed')
    PROVE  MachineInv'
<1>1. /\ prog' = prog /\ block' = block /\ remap' = remap /\ status' = "llvm"
  BY DEF llvmVars
<1>2. RunInv(pc, memory, frame, freed)'
  BY <1>1, SameBlock
<1> QED BY <1>1, <1>2 DEF MachineInv

(* The alloca of a buffer.                                                 *)
LEMMA AllocaKeeps ==
    ASSUME LoweringInv, MachineInv, ExecAlloca
    PROVE  MachineInv'
<1> DEFINE v == block[pc].v
<1>1. /\ status = "llvm" /\ block[pc].i = "alloca" /\ pc' = pc + 1 /\ UNCHANGED llvmVars
      /\ memory' = [a \in DOMAIN memory \cup {v} |->
                       IF a = v THEN [idx \in Indices(ShapeOf(v)) |-> Undef]
                       ELSE memory[a]]
      /\ frame' = frame \cup {v} /\ freed' = freed
  BY DEF ExecAlloca, Current, Advance
<1>2. /\ RunInv(pc, memory, frame, freed) /\ pc + 1 \in 1 .. Len(block)
      /\ pc \in 1 .. Len(block) /\ Len(block) \in Nat
      /\ \A e : Ran(pc + 1, e) <=> Ran(pc, e) \/ block[pc] = e
      /\ \A a, idx : Wrote(pc + 1, a, idx) <=>
             \/ Wrote(pc, a, idx)
             \/ WritesTo(block[pc], a) /\ (block[pc].i = "store" => block[pc].at = idx)
  BY <1>1, OneMore
<1>3. block[pc] = Alloca(v) /\ v \in remap
  BY <1>1, <1>2, MainFacts, LoweredFacts
<1> HIDE DEF v
<1>4. Allocated(pc + 1) = Allocated(pc) \cup {v}
  <2>1. \A a : Alloca(a) = Alloca(v) => a = v
    BY OpFields
  <2> QED BY <2>1, <1>2, <1>3 DEF Allocated
<1>5. FreedBy(pc + 1) = FreedBy(pc)
  <2>1. \A a : Dealloc(a) # Alloca(v)
    BY OpFields
  <2> QED BY <2>1, <1>2, <1>3 DEF FreedBy
<1>6. /\ DOMAIN memory' = DOMAIN memory \cup {v}
      /\ memory'[v] = [idx \in Indices(ShapeOf(v)) |-> Undef]
      /\ \A a \in DOMAIN memory : a # v => memory'[a] = memory[a]
  BY <1>1
<1>7. \A idx : ~ Wrote(pc + 1, v, idx)
  <2> SUFFICES ASSUME NEW n \in 1 .. (pc + 1) - 1, WritesTo(block[n], v) PROVE FALSE
    BY DEF Wrote
  <2>1. n \in 1 .. Len(block) /\ n <= pc
    BY <1>2
  <2>2. v \in Touches(block[n])
    BY TouchesFacts
  <2>3. pc < n
    BY <2>1, <2>2, <1>2, <1>3, EnclosedNow
  <2> QED BY <2>1, <2>3, <1>2
<1>8. \A a, idx : a # v => (Wrote(pc + 1, a, idx) <=> Wrote(pc, a, idx))
  BY <1>1, <1>2 DEF WritesTo
<1>9. RunInv(pc + 1, memory', frame', freed')
  BY <1>1, <1>2, <1>4, <1>5, <1>6, <1>7, <1>8 DEF RunInv
<1> QED BY <1>1, <1>9, SameMain

(* A store.                                                                *)
LEMMA StoreKeeps ==
    ASSUME LoweringInv, MachineInv, ExecStore
    PROVE  MachineInv'
<1> DEFINE e == block[pc]
           v == e.v
           x == <<"const", e.v, e.val>>
<1>1. /\ status = "llvm" /\ e.i = "store" /\ pc' = pc + 1 /\ UNCHANGED llvmVars
      /\ memory' = [memory EXCEPT ![v] = [@ EXCEPT ![e.at] = x]]
      /\ frame' = frame /\ freed' = freed
  BY DEF ExecStore, Current, Advance
<1>2. /\ RunInv(pc, memory, frame, freed) /\ pc + 1 \in 1 .. Len(block)
      /\ pc \in 1 .. Len(block) /\ Len(block) \in Nat
      /\ \A o : Ran(pc + 1, o) <=> Ran(pc, o) \/ e = o
      /\ \A a, idx : Wrote(pc + 1, a, idx) <=>
             \/ Wrote(pc, a, idx)
             \/ WritesTo(e, a) /\ (e.i = "store" => e.at = idx)
  BY <1>1, OneMore
<1>3. x # Undef
  <2>1. Len(x) = 3 /\ Len(Undef) = 1
    BY DEF Undef
  <2> QED BY <2>1
<1> HIDE DEF e, v, x
<1>4. Allocated(pc + 1) = Allocated(pc) /\ FreedBy(pc + 1) = FreedBy(pc)
  <2>1. \A a : e # Alloca(a) /\ e # Dealloc(a)
    BY <1>1, OpFields
  <2> QED BY <2>1, <1>2 DEF Allocated, FreedBy
<1>5. /\ DOMAIN memory' = DOMAIN memory
      /\ \A a \in DOMAIN memory : a # v => memory'[a] = memory[a]
      /\ v \in DOMAIN memory => memory'[v] = [memory[v] EXCEPT ![e.at] = x]
  BY <1>1
<1>6. \A a, idx : Wrote(pc + 1, a, idx) /\ ~ Wrote(pc, a, idx) => a = v /\ idx = e.at
  BY <1>1, <1>2 DEF WritesTo, v
<1>7. RunInv(pc + 1, memory', frame', freed')
  <2>1. ASSUME NEW a \in Allocated(pc)
        PROVE  /\ DOMAIN memory'[a] = Indices(ShapeOf(a))
               /\ Matched(prog) => \A idx \in Indices(ShapeOf(a)) :
                      Wrote(pc + 1, a, idx) => memory'[a][idx] # Undef
    <3>1. /\ a \in DOMAIN memory /\ DOMAIN memory[a] = Indices(ShapeOf(a))
          /\ Matched(prog) => \A idx \in Indices(ShapeOf(a)) :
                 Wrote(pc, a, idx) => memory[a][idx] # Undef
      BY <1>2 DEF RunInv
    <3>2. CASE a = v
      <4>1. /\ DOMAIN memory'[a] = DOMAIN memory[a]
            /\ \A idx \in DOMAIN memory[a] :
                   memory'[a][idx] = IF idx = e.at THEN x ELSE memory[a][idx]
        BY <1>5, <3>1, <3>2
      <4> QED BY <1>3, <1>6, <3>1, <4>1
    <3>3. CASE a # v
      BY <1>5, <1>6, <3>1, <3>3
    <3> QED BY <3>2, <3>3
  <2> QED BY <2>1, <1>1, <1>2, <1>4, <1>5 DEF RunInv
<1> QED BY <1>1, <1>7, SameMain

(* A nest of loops.                                                        *)
LEMMA NestKeeps ==
    ASSUME LoweringInv, MachineInv, ExecNest
    PROVE  MachineInv'
<1> DEFINE e == block[pc]
           v == e.v
<1>1. /\ status = "llvm" /\ e.i = "nest" /\ pc' = pc + 1 /\ UNCHANGED llvmVars
      /\ memory' = [memory EXCEPT ![v] = [ivs \in DOMAIN @ |-> BodyValue(e, ivs)]]
      /\ frame' = frame /\ freed' = freed
  BY DEF ExecNest, Current, Advance
<1>2. /\ RunInv(pc, memory, frame, freed) /\ pc + 1 \in 1 .. Len(block)
      /\ pc \in 1 .. Len(block) /\ Len(block) \in Nat
      /\ \A o : Ran(pc + 1, o) <=> Ran(pc, o) \/ e = o
      /\ \A a, idx : Wrote(pc + 1, a, idx) <=>
             \/ Wrote(pc, a, idx)
             \/ WritesTo(e, a) /\ (e.i = "store" => e.at = idx)
  BY <1>1, OneMore
<1>3. Matched(prog) => \A ivs \in Indices(ShapeOf(v)) : BodyValue(e, ivs) # Undef
  BY <1>1, <1>2, BodyDefined
<1> HIDE DEF e, v
<1>4. Allocated(pc + 1) = Allocated(pc) /\ FreedBy(pc + 1) = FreedBy(pc)
  <2>1. \A a : e # Alloca(a) /\ e # Dealloc(a)
    BY <1>1, OpFields
  <2> QED BY <2>1, <1>2 DEF Allocated, FreedBy
<1>5. /\ DOMAIN memory' = DOMAIN memory
      /\ \A a \in DOMAIN memory : a # v => memory'[a] = memory[a]
      /\ v \in DOMAIN memory =>
             memory'[v] = [ivs \in DOMAIN memory[v] |-> BodyValue(e, ivs)]
  BY <1>1
<1>6. \A a, idx : a # v => (Wrote(pc + 1, a, idx) <=> Wrote(pc, a, idx))
  BY <1>1, <1>2 DEF WritesTo, v
<1>7. RunInv(pc + 1, memory', frame', freed')
  <2>1. ASSUME NEW a \in Allocated(pc)
        PROVE  /\ DOMAIN memory'[a] = Indices(ShapeOf(a))
               /\ Matched(prog) => \A idx \in Indices(ShapeOf(a)) :
                      Wrote(pc + 1, a, idx) => memory'[a][idx] # Undef
    <3>1. /\ a \in DOMAIN memory /\ DOMAIN memory[a] = Indices(ShapeOf(a))
          /\ Matched(prog) => \A idx \in Indices(ShapeOf(a)) :
                 Wrote(pc, a, idx) => memory[a][idx] # Undef
      BY <1>2 DEF RunInv
    <3>2. CASE a = v
      BY <1>3, <1>5, <3>1, <3>2
    <3>3. CASE a # v
      BY <1>5, <1>6, <3>1, <3>3
    <3> QED BY <3>2, <3>3
  <2> QED BY <2>1, <1>1, <1>2, <1>4, <1>5 DEF RunInv
<1> QED BY <1>1, <1>7, SameMain

(* A print reads only; a dealloc frees one more buffer.                    *)
LEMMA PrintDeallocKeeps ==
    ASSUME LoweringInv, MachineInv, ExecPrint \/ ExecDealloc
    PROVE  MachineInv'
<1> DEFINE e == block[pc]
<1>1. /\ status = "llvm" /\ e.i \in {"printloops", "dealloc"} /\ pc' = pc + 1
      /\ UNCHANGED llvmVars /\ memory' = memory /\ frame' = frame
      /\ freed' = IF e.i = "dealloc" THEN freed \cup {e.v} ELSE freed
  BY DEF ExecPrint, ExecDealloc, Current, Advance
<1>2. /\ RunInv(pc, memory, frame, freed) /\ pc + 1 \in 1 .. Len(block)
      /\ pc \in 1 .. Len(block) /\ Len(block) \in Nat
      /\ \A o : Ran(pc + 1, o) <=> Ran(pc, o) \/ e = o
      /\ \A a, idx : Wrote(pc + 1, a, idx) <=>
             \/ Wrote(pc, a, idx)
             \/ WritesTo(e, a) /\ (e.i = "store" => e.at = idx)
  BY <1>1, OneMore
<1>3. e.i = "dealloc" => e = Dealloc(e.v) /\ e.v \in remap
  BY <1>1, <1>2, MainFacts, LoweredFacts
<1> HIDE DEF e
<1>4. Allocated(pc + 1) = Allocated(pc)
  <2>1. \A a : e # Alloca(a)
    BY <1>1, OpFields
  <2> QED BY <2>1, <1>2 DEF Allocated
<1>5. FreedBy(pc + 1) = freed'
  <2>1. freed = FreedBy(pc)
    BY <1>2 DEF RunInv
  <2>2. \A a : e = Dealloc(a) => e.i = "dealloc" /\ e.v = a
    BY OpFields
  <2>3. CASE e.i = "dealloc"
    <3>1. \A a : e = Dealloc(a) <=> a = e.v
      BY <1>3, <2>2, <2>3
    <3> QED BY <3>1, <1>1, <1>2, <1>3, <2>1, <2>3 DEF FreedBy
  <2>4. CASE e.i # "dealloc"
    BY <2>2, <2>4, <1>1, <1>2, <2>1 DEF FreedBy
  <2> QED BY <2>3, <2>4
<1>6. \A a, idx : Wrote(pc + 1, a, idx) <=> Wrote(pc, a, idx)
  BY <1>1, <1>2 DEF WritesTo
<1>7. RunInv(pc + 1, memory', frame', freed')
  BY <1>1, <1>2, <1>4, <1>5, <1>6 DEF RunInv
<1> QED BY <1>1, <1>7, SameMain

(* When main returns, every buffer was allocated and freed.                *)
LEMMA ReturnKeeps ==
    ASSUME LoweringInv, MachineInv, ExecReturn
    PROVE  MachineInv'
<1>1. /\ status = "llvm" /\ block[pc].i = "return" /\ status' = "done"
      /\ UNCHANGED <<prog, block, remap, pc, memory, freed>> /\ frame' = {}
  BY DEF ExecReturn, Current
<1>2. /\ RunInv(pc, memory, frame, freed) /\ pc \in 1 .. Len(block)
      /\ Len(block) \in Nat /\ pc = Len(block)
  <2>1. RunInv(pc, memory, frame, freed) /\ pc \in 1 .. Len(block)
    BY <1>1 DEF MachineInv, RunInv
  <2> QED BY <2>1, <1>1, MainFacts
<1>3. ASSUME NEW a \in remap PROVE Ran(pc, Alloca(a)) /\ Ran(pc, Dealloc(a))
  <2>1. PICK first, last \in 1 .. Len(block) :
               /\ \A n \in 1 .. Len(block) : block[n] = Alloca(a) <=> n = first
               /\ \A n \in 1 .. Len(block) : block[n] = Dealloc(a) <=> n = last
               /\ first < last /\ last < Len(block)
    BY EnclosedNow
  <2>2. first \in 1 .. pc - 1 /\ last \in 1 .. pc - 1
    BY <1>2, <2>1
  <2> QED BY <2>1, <2>2 DEF Ran
<1>4. DOMAIN memory = remap /\ freed = remap
  BY <1>2, <1>3 DEF RunInv, Allocated, FreedBy
<1> QED BY <1>1, <1>2, <1>4 DEF MachineInv

(* The steps of the machine keep the invariant, and so do those before it  *)
(* starts.                                                                 *)
LEMMA MachineKeeps ==
    ASSUME LoweringInv, LoweringInv', MachineInv, [Next]_vars
    PROVE  MachineInv'
<1>1. CASE AffineNext /\ UNCHANGED <<symbols, pc, memory, frame, freed, out>>
  <2>1. status \in {"func", "convert"} /\ status' \notin {"llvm", "done"}
    BY <1>1 DEF AffineNext, LowerFunc, LowerConstant, LowerTranspose, LowerBinary,
                LowerPrint, LowerReturn, RollBack, Legalizing, Commit
  <2> QED BY <1>1, <2>1 DEF MachineInv
<1>2. CASE LLVMNext /\ UNCHANGED machine
  <2>1. status = "affine" /\ UNCHANGED <<pc, memory, frame, freed>>
    BY <1>2 DEF LLVMNext, LowerPrintLoops, CommitLLVM, machine
  <2>2. pc = 1 /\ memory = << >> /\ frame = {} /\ freed = {}
    BY <2>1 DEF MachineInv
  <2>3. CASE CommitLLVM
    <3>1. Len(block) \in Nat /\ Len(block) >= 1
      BY <2>1 DEF LoweringInv, BlockInv
    <3>2. \A k : Allocated(1) = {} /\ FreedBy(1) = {}
      BY DEF Allocated, FreedBy, Ran
    <3>3. DOMAIN << >> = {} /\ 1 \in 1 .. Len(block)
      BY <3>1
    <3>4. RunInv(1, << >>, {}, {})
      BY <3>2, <3>3 DEF RunInv
    <3>5. /\ prog' = prog /\ block' = block /\ remap' = remap /\ status' = "llvm"
      BY <2>3 DEF CommitLLVM
    <3>6. RunInv(pc', memory', frame', freed')
      BY <2>1, <2>2, <3>4
    <3>7. RunInv(pc, memory, frame, freed)'
      BY <3>5, <3>6, SameBlock
    <3> QED BY <3>5, <3>7 DEF MachineInv
  <2>4. CASE \E n \in DOMAIN block : LowerPrintLoops(n)
    BY <2>1, <2>2, <2>4 DEF LowerPrintLoops, MachineInv
  <2> QED BY <1>2, <2>3, <2>4 DEF LLVMNext
<1>3. CASE Exec
  BY <1>3, AllocaKeeps, StoreKeeps, NestKeeps, PrintDeallocKeeps, ReturnKeeps DEF Exec
<1>4. CASE UNCHANGED vars
  <2>1. UNCHANGED <<prog, block, remap, status, pc, memory, frame, freed>>
    BY <1>4 DEF vars
  <2>2. ASSUME status = "llvm" PROVE MachineInv'
    <3>1. RunInv(pc', memory', frame', freed')
      BY <2>1, <2>2 DEF MachineInv
    <3>2. RunInv(pc, memory, frame, freed)'
      BY <2>1, <3>1, SameBlock
    <3> QED BY <2>1, <2>2, <3>2 DEF MachineInv
  <2> QED BY <2>1, <2>2 DEF MachineInv
<1> QED BY <1>1, <1>2, <1>3, <1>4 DEF Next

-----------------------------------------------------------------------------
(* The symbols.                                                            *)

(* They are there when a print was lowered, all of them once.              *)
SymbolsInv ==
    /\ \/ symbols = << >> /\ NoLoops
       \/ /\ symbols = <<NewLine, FormatSpec, Printf>>
          /\ \E v \in Defs(prog) : Kind(v) = "print"
    /\ status \in {"llvm", "done"} => \A n \in 1 .. Len(block) : block[n].i # "print"

(* Putting an element in front.                                            *)
LEMMA Consed ==
    ASSUME NEW x, NEW y, NEW z
    PROVE  <<x>> \o << >> = <<x>> /\ <<x>> \o <<y>> = <<x, y>>
           /\ <<x>> \o <<y, z>> = <<x, y, z>>
<1> DEFINE S == {x, y, z}
<1>1. <<x>> \in Seq(S) /\ <<y>> \in Seq(S) /\ <<y, z>> \in Seq(S) /\ << >> \in Seq(S)
  OBVIOUS
<1>2. <<x, y>> \in Seq(S) /\ <<x, y, z>> \in Seq(S) /\ <<x>> \o <<y>> \in Seq(S)
      /\ <<x>> \o <<y, z>> \in Seq(S) /\ <<x>> \o << >> \in Seq(S)
  BY <1>1, ConcatProperties
<1>3. <<x>> \o << >> = <<x>>
  BY <1>1, ConcatEmptySeq
<1>4. Len(<<x>> \o <<y>>) = 2 /\ \A n \in 1 .. 2 : (<<x>> \o <<y>>)[n] = <<x, y>>[n]
  BY <1>1, ConcatProperties
<1>5. Len(<<x>> \o <<y, z>>) = 3 /\ \A n \in 1 .. 3 : (<<x>> \o <<y, z>>)[n] = <<x, y, z>>[n]
  BY <1>1, ConcatProperties
<1> HIDE DEF S
<1>6. <<x>> \o <<y>> = <<x, y>>
  BY <1>2, <1>4, SeqEqual
<1>7. <<x>> \o <<y, z>> = <<x, y, z>>
  BY <1>2, <1>5, SeqEqual
<1> QED BY <1>3, <1>6, <1>7

(* A symbol is inserted once.                                              *)
LEMMA PrintSymbols ==
    /\ WithPrintSymbols(<< >>) = <<NewLine, FormatSpec, Printf>>
    /\ WithPrintSymbols(<<NewLine, FormatSpec, Printf>>) = <<NewLine, FormatSpec, Printf>>
<1>1. NewLine.name = "nl" /\ FormatSpec.name = "frmt_spec" /\ Printf.name = "printf"
  BY DEF NewLine, FormatSpec, Printf, Symbol
<1> DEFINE a == NewLine
           b == FormatSpec
           c == Printf
<1> HIDE DEF a, b, c
<1>2. a.name = "nl" /\ b.name = "frmt_spec" /\ c.name = "printf"
  BY <1>1 DEF a, b, c
<1>3. Ensure(<< >>, c) = <<c>>
  BY DEF Ensure, Lookup
<1>4. Ensure(<<c>>, b) = <<b, c>>
  <2>1. ~ Lookup(<<c>>, b.name)
    BY <1>2 DEF Lookup
  <2>2. <<b>> \o <<c>> = <<b, c>>
    BY Consed
  <2> QED BY <2>1, <2>2 DEF Ensure
<1>5. Ensure(<<b, c>>, a) = <<a, b, c>>
  <2>1. ~ Lookup(<<b, c>>, a.name)
    BY <1>2 DEF Lookup
  <2>2. <<a>> \o <<b, c>> = <<a, b, c>>
    BY Consed
  <2> QED BY <2>1, <2>2 DEF Ensure
<1>6. ASSUME NEW n \in 1 .. 3
      PROVE  Ensure(<<a, b, c>>, <<a, b, c>>[n]) = <<a, b, c>>
  <2>1. n \in DOMAIN <<a, b, c>>
    OBVIOUS
  <2>2. Lookup(<<a, b, c>>, <<a, b, c>>[n].name)
    BY <2>1 DEF Lookup
  <2> QED BY <2>2 DEF Ensure
<1>7. <<a, b, c>>[1] = a /\ <<a, b, c>>[2] = b /\ <<a, b, c>>[3] = c
  OBVIOUS
<1>8. /\ Ensure(<<a, b, c>>, a) = <<a, b, c>> /\ Ensure(<<a, b, c>>, b) = <<a, b, c>>
      /\ Ensure(<<a, b, c>>, c) = <<a, b, c>>
  BY <1>6, <1>7
<1> QED BY <1>3, <1>4, <1>5, <1>8 DEF WithPrintSymbols, a, b, c

(* The steps keep SymbolsInv.                                              *)
LEMMA SymbolsKeep ==
    ASSUME LoweringInv, SymbolsInv, [Next]_vars
    PROVE  SymbolsInv'
<1>1. prog' = prog => ((\E v \in Defs(prog) : Kind(v) = "print") =>
                           (\E v \in Defs(prog) : Kind(v) = "print")')
  BY DEF Kind
<1>2. CASE AffineNext /\ UNCHANGED <<symbols, pc, memory, frame, freed, out>>
  <2>1. status' \notin {"llvm", "done"} /\ prog' = prog
    BY <1>2 DEF AffineNext, LowerFunc, LowerConstant, LowerTranspose, LowerBinary,
                LowerPrint, LowerReturn, RollBack, Legalizing, Commit
  <2>2. NoLoops => NoLoops'
    BY <1>2, NoLoopsKept
  <2> QED BY <1>1, <1>2, <2>1, <2>2 DEF SymbolsInv
<1>3. CASE LLVMNext /\ UNCHANGED machine
  <2>1. ASSUME NEW n \in DOMAIN block, LowerPrintLoops(n) PROVE SymbolsInv'
    <3>1. /\ status = "affine" /\ status' = "affine" /\ prog' = prog
          /\ symbols' = WithPrintSymbols(symbols) /\ block[n].i = "print"
      BY <2>1 DEF LowerPrintLoops
    <3>2. /\ prog \in Programs /\ RemapInv(remap, cur) /\ BlockInv(block, remap, cur)
          /\ FinalInv(block, remap, cur)
      BY <3>1 DEF LoweringInv
    <3>3. Lowered(block[n], remap, cur)
      BY <3>2 DEF BlockInv, FinalInv
    <3>4. \E v \in Defs(prog) : Kind(v) = "print"
      BY <3>1, <3>2, <3>3, PrintOf
    <3>5. symbols' = <<NewLine, FormatSpec, Printf>>
      BY <3>1, PrintSymbols DEF SymbolsInv
    <3> QED BY <1>1, <3>1, <3>4, <3>5 DEF SymbolsInv
  <2>2. CASE CommitLLVM
    <3>1. /\ status = "affine" /\ UNCHANGED <<prog, block, symbols>>
          /\ \A n \in DOMAIN block : block[n].i # "print"
      BY <2>2 DEF CommitLLVM
    <3>2. DOMAIN block = 1 .. Len(block)
      BY <3>1 DEF LoweringInv, BlockInv
    <3> QED BY <1>1, <3>1, <3>2 DEF SymbolsInv, NoLoops
  <2> QED BY <1>3, <2>1, <2>2 DEF LLVMNext
<1>4. CASE Exec \/ UNCHANGED vars
  <2>1. UNCHANGED <<prog, block, symbols>> /\ (status' = status \/ status = "llvm")
    BY <1>4 DEF Exec, ExecAlloca, ExecStore, ExecNest, ExecPrint, ExecDealloc, ExecReturn,
                Advance, Current, llvmVars, vars
  <2> QED BY <1>1, <2>1 DEF SymbolsInv, NoLoops
<1> QED BY <1>2, <1>3, <1>4 DEF Next

(* SymbolsOnce follows: a print that was lowered needs the symbols, and    *)
(* without one there is nothing to lower.                                  *)
LEMMA SymbolsCounted == LoweringInv /\ SymbolsInv => SymbolsOnce
<1> SUFFICES ASSUME LoweringInv, SymbolsInv, status \in {"llvm", "done"},
                    NEW name \in {"printf", "frmt_spec", "nl"}
             PROVE  Cardinality({n \in DOMAIN symbols : symbols[n].name = name}) =
                        IF \E v \in Defs(prog) : Kind(v) = "print" THEN 1 ELSE 0
  BY DEF SymbolsOnce
<1>1. CASE symbols = << >> /\ NoLoops
  <2>1. /\ prog \in Programs /\ RemapInv(remap, cur) /\ BlockInv(block, remap, cur)
        /\ cur = N + 1
    BY DEF LoweringInv, FinalInv
  <2>2. ASSUME NEW v \in Defs(prog), Kind(v) = "print" PROVE FALSE
    <3>1. v < cur
      BY <2>1, ProgramFacts
    <3>2. PICK n \in 1 .. Len(block) : Prints(block[n], v)
      BY <2>1, <2>2, <3>1 DEF BlockInv, Complete
    <3>3. block[n].i \in {"print", "printloops"}
      BY <3>2, OpFields DEF Prints
    <3> QED BY <1>1, <3>3 DEF SymbolsInv, NoLoops
  <2>3. {n \in DOMAIN symbols : symbols[n].name = name} = {}
    BY <1>1
  <2> QED BY <2>2, <2>3, FS_EmptySet
<1>2. CASE /\ symbols = <<NewLine, FormatSpec, Printf>>
           /\ \E v \in Defs(prog) : Kind(v) = "print"
  <2>1. /\ symbols[1].name = "nl" /\ symbols[2].name = "frmt_spec"
        /\ symbols[3].name = "printf" /\ DOMAIN symbols = {1, 2, 3}
    <3>1. NewLine.name = "nl" /\ FormatSpec.name = "frmt_spec" /\ Printf.name = "printf"
      BY DEF NewLine, FormatSpec, Printf, Symbol
    <3>2. DOMAIN symbols = 1 .. 3 /\ 1 .. 3 = {1, 2, 3}
      BY <1>2
    <3>3. symbols[1] = NewLine /\ symbols[2] = FormatSpec /\ symbols[3] = Printf
      BY <1>2
    <3> QED BY <3>1, <3>2, <3>3
  <2>2. PICK k \in {1, 2, 3} : {n \in DOMAIN symbols : symbols[n].name = name} = {k}
    <3>1. CASE name = "nl"
      BY <2>1, <3>1
    <3>2. CASE name = "frmt_spec"
      BY <2>1, <3>2
    <3>3. CASE name = "printf"
      BY <2>1, <3>3
    <3> QED BY <3>1, <3>2, <3>3
  <2> QED BY <1>2, <2>2, FS_Singleton
<1> QED BY <1>1, <1>2 DEF SymbolsInv

-----------------------------------------------------------------------------
(* The theorems.                                                           *)

CompiledInv == LoweringInv /\ InvalidInv /\ MachineInv /\ SymbolsInv

(* The four invariants hold together.                                      *)
LEMMA Invariance == Spec => []CompiledInv
<1>1. MainInit => CompiledInv
  <2> SUFFICES ASSUME MainInit PROVE CompiledInv
    OBVIOUS
  <2>1. LoweringInv /\ status = "func" /\ symbols = << >>
    BY LoweringStarts DEF MainInit, Init
  <2>2. NoLoops
    <3>1. block = [v \in 1 .. N |-> ToyOp(v)] /\ N \in Nat
      BY <2>1, ProgramFacts DEF LoweringInv, Initial
    <3> QED BY <3>1, OpFields DEF NoLoops
  <2>3. MachineInv /\ SymbolsInv /\ InvalidInv
    BY <2>1, <2>2 DEF MainInit, MachineInv, SymbolsInv, InvalidInv
  <2> QED BY <2>1, <2>3 DEF CompiledInv
<1>2. CompiledInv /\ [Next]_vars => CompiledInv'
  <2> SUFFICES ASSUME CompiledInv, [Next]_vars PROVE CompiledInv'
    OBVIOUS
  <2>1. CASE ExecReturn
    <3>1. LoweringInv'
      BY <2>1, StatusKeeps DEF ExecReturn, Current, CompiledInv
    <3> QED BY <3>1, InvalidKeeps, MachineKeeps, SymbolsKeep DEF CompiledInv
  <2>2. CASE ~ ExecReturn
    <3>1. AffineNext \/ LLVMNext \/ UNCHANGED <<prog, block, remap, cur, status>>
      BY <2>2 DEF Next, Exec, ExecAlloca, ExecStore, ExecNest, ExecPrint, ExecDealloc,
                  Advance, llvmVars, vars
    <3>2. LoweringInv'
      BY <3>1, LoweringKeeps DEF CompiledInv
    <3> QED BY <3>2, InvalidKeeps, MachineKeeps, SymbolsKeep DEF CompiledInv
  <2> QED BY <2>1, <2>2
<1> QED BY <1>1, <1>2, PTL DEF Spec

(* Every block holds operations that are known, and the machine stays in   *)
(* it: what the lowerings leave always ends in a return.                   *)
LEMMA TypesHold == CompiledInv => TypeOK
<1> SUFFICES ASSUME CompiledInv PROVE TypeOK
  OBVIOUS
<1>1. LoweringInv /\ MachineInv /\ prog \in Programs
  BY DEF CompiledInv, LoweringInv
<1>2. N \in Nat /\ N >= 1 /\ Defs(prog) = 1 .. N /\ WellFormed(prog)
  BY <1>1, ProgramFacts, ProgramsAreInferred
<1>3. /\ cur \in 1 .. N + 1 /\ remap \subseteq Defs(prog)
      /\ Len(block) \in Nat /\ Len(block) >= 1
      /\ \A n \in DOMAIN block : block[n].i \in
             {"toy", "alloca", "store", "nest", "print", "printloops", "dealloc", "return"}
  <2>1. CASE status \in {"func", "failed"}
    <3>1. block = [v \in 1 .. N |-> ToyOp(v)] /\ remap = {} /\ cur \in 1 .. N + 1
      BY <1>1, <1>2, <2>1 DEF LoweringInv, Initial
    <3> QED BY <1>2, <3>1, OpFields
  <2>2. CASE status \notin {"func", "failed"}
    <3>1. RemapInv(remap, cur) /\ BlockInv(block, remap, cur)
      BY <1>1, <2>2 DEF LoweringInv
    <3>2. DOMAIN block = 1 .. Len(block) /\ Len(block) \in Nat /\ Len(block) >= 1
      BY <3>1 DEF BlockInv
    <3>3. cur \in 1 .. N + 1 /\ remap \subseteq 1 .. N
      BY <1>2, <3>1 DEF RemapInv
    <3>4. CASE status = "convert"
      <4>1. ConvertInv(block, remap, cur)
        BY <1>1, <3>4 DEF LoweringInv
      <4> QED BY <1>1, <1>2, <3>1, <3>2, <3>3, <4>1, ElementFacts
    <3>5. CASE status # "convert"
      <4>1. FinalInv(block, remap, cur)
        BY <1>1, <2>2, <3>5, SMTT(30) DEF LoweringInv
      <4>2. \A n \in DOMAIN block : Lowered(block[n], remap, cur)
        BY <3>2, <4>1 DEF FinalInv
      <4> QED BY <1>1, <1>2, <3>1, <3>2, <3>3, <4>2, LoweredFacts
    <3> QED BY <3>4, <3>5
  <2> QED BY <2>1, <2>2
<1>4. /\ pc \in 1 .. Len(block)
      /\ DOMAIN memory \subseteq remap /\ frame \subseteq remap /\ freed \subseteq remap
  <2>1. CASE status = "llvm"
    BY <1>1, <2>1 DEF MachineInv, RunInv, Allocated, FreedBy
  <2>2. CASE status = "done"
    BY <1>1, <2>2 DEF MachineInv
  <2>3. CASE status \notin {"llvm", "done"}
    <3>1. pc = 1 /\ memory = << >> /\ frame = {} /\ freed = {}
      BY <1>1, <2>3 DEF MachineInv
    <3>2. DOMAIN << >> = {}
      OBVIOUS
    <3> QED BY <1>3, <3>1, <3>2
  <2> QED BY <2>1, <2>2, <2>3
<1>5. status \in {"func", "convert", "failed", "affine", "invalid", "llvm", "done"}
  BY <1>1 DEF LoweringInv
<1> QED BY <1>2, <1>3, <1>4, <1>5 DEF TypeOK, N

(* Every state of a compilation and of the run of main is well formed.     *)
THEOREM TypeCorrect == Spec => []TypeOK
BY Invariance, TypesHold, PTL

(* Whatever patterns ran in whatever order, a buffer's alloca and dealloc  *)
(* enclose its uses.                                                       *)
THEOREM BuffersEnclosed == Spec => []BuffersEncloseUses
BY Invariance, EncloseUses, PTL DEF CompiledInv

(* The affine lowering fails on exactly the programs with an operation it  *)
(* has no pattern for.                                                     *)
THEOREM FailureExact == Spec => []FailsOnlyIfIllegal
BY Invariance, FailsRightly, PTL DEF CompiledInv

(* A main whose elementwise operands match in shape accesses only live     *)
(* buffers, inside their bounds, and reads only cells that were written.   *)
THEOREM MemorySafety == Spec => []MemorySafe
BY Invariance, SafeAccesses, PTL DEF CompiledInv

(* main frees every buffer before it returns.                              *)
THEOREM EverythingFreed == Spec => []NothingLeaks
<1>1. CompiledInv => NothingLeaks
  BY DEF CompiledInv, MachineInv, NothingLeaks
<1> QED BY <1>1, Invariance, PTL

(* The module gets each symbol once if it prints, and none if not.         *)
THEOREM SymbolsExact == Spec => []SymbolsOnce
BY Invariance, SymbolsCounted, PTL DEF CompiledInv

-----------------------------------------------------------------------------
(* The rows in which a tensor is printed.                                  *)

(* Row i of j is within K rows of T elements.                              *)
LEMMA RowIndex ==
    ASSUME NEW K \in Nat, NEW T \in Nat, NEW j \in 1 .. K, NEW i \in 1 .. T
    PROVE  (j - 1) * T \in Nat /\ (j - 1) * T + i \in 1 .. K * T
<1> DEFINE a == (j - 1) * T
           b == (K - j) * T
<1>1. a \in Nat
  <2>1. j - 1 \in Nat
    OBVIOUS
  <2> QED BY <2>1
<1>2. b \in Nat
  <2>1. K - j \in Nat
    OBVIOUS
  <2> QED BY <2>1
<1>3. K * T = (a + b) + T
  <2> DEFINE x == j - 1
             y == K - j
  <2>1. x \in Nat /\ y \in Nat /\ K = (x + y) + 1
    OBVIOUS
  <2> HIDE DEF x, y
  <2>2. ((x + y) + 1) * T = (x * T + y * T) + T
    BY <2>1
  <2> QED BY <2>1, <2>2 DEF x, y
<1> HIDE DEF a, b
<1>4. a + i \in 1 .. (a + b) + T
  BY <1>1, <1>2
<1> QED BY <1>1, <1>3, <1>4 DEF a

(* What ends after element n: at most one line for each dimension.         *)
Break(s, n, d) == IF n % Stride(s, Len(s) - d) = 0 THEN <<NL>> ELSE << >>

(* Breaks, dimension by dimension.                                         *)
LEMMA BreaksStep ==
    ASSUME NEW S, NL \in S, NEW s, NEW n, NEW m \in Nat
    PROVE  /\ Breaks(s, n, 0) = << >> /\ Breaks(s, n, -1) = << >>
           /\ Breaks(s, n, m) \in Seq(S)
           /\ Break(s, n, m + 1) \in Seq(S)
           /\ Breaks(s, n, m + 1) = Breaks(s, n, m) \o Break(s, n, m + 1)
<1> DEFINE ss == [d \in Nat |-> Break(s, n, d)]
<1>1. ASSUME NEW k \in Nat PROVE Breaks(s, n, k) = Joint(ss, k)
  <2>1. \A d \in 1 .. k : d \in Nat
    OBVIOUS
  <2>2. [d \in 1 .. k |-> Break(s, n, d)] = [i \in 1 .. k |-> ss[i]]
    BY <2>1, Zenon
  <2> HIDE DEF ss
  <2> QED BY <2>2 DEF Breaks, Break, Joint
<1>2. Breaks(s, n, -1) = << >>
  <2>1. 1 .. -1 = {}
    OBVIOUS
  <2>2. \A f : f = [d \in {} |-> Break(s, n, d)] => f = << >>
    OBVIOUS
  <2>3. FlattenSeq(<< >>) = << >>
    BY DEF FlattenSeq
  <2>4. Breaks(s, n, -1) = FlattenSeq([d \in 1 .. -1 |-> Break(s, n, d)])
    BY DEF Breaks, Break
  <2> QED BY <2>1, <2>2, <2>3, <2>4
<1>3. \A d : Break(s, n, d) \in Seq(S)
  BY DEF Break
<1>4. \A i \in 1 .. m + 1 : ss[i] \in Seq(S)
  <2>1. \A i \in 1 .. m + 1 : i \in Nat
    OBVIOUS
  <2> QED BY <1>3, <2>1
<1>5. ss[m + 1] = Break(s, n, m + 1)
  OBVIOUS
<1> HIDE DEF ss
<1>6. /\ Joint(ss, 0) = << >> /\ Joint(ss, m) \in Seq(S)
      /\ Joint(ss, m + 1) = Joint(ss, m) \o ss[m + 1]
  BY <1>4, JointStep DEF Parts
<1>7. Breaks(s, n, 0) = Joint(ss, 0) /\ Breaks(s, n, m) = Joint(ss, m)
      /\ Breaks(s, n, m + 1) = Joint(ss, m + 1)
  BY <1>1
<1> QED BY <1>2, <1>3, <1>5, <1>6, <1>7

(* What a print of tensor t can write.                                     *)
Texts(s, t) == {t[idx] : idx \in Indices(s)} \cup {NL}

(* Element n, and what ends after it in the last m dimensions.             *)
Line(s, t, m, n) == <<t[IndexAt(s, n - 1)]>> \o Breaks(s, n, m)

Lines(s, t, m) == [n \in Nat |-> Line(s, t, m, n)]

(* The index at any position is one of the tensor.                         *)
LEMMA IndexAtIn ==
    ASSUME NEW s \in Seq(Nat), \A d \in 1 .. Len(s) : s[d] > 0, NEW k \in Nat
    PROVE  IndexAt(s, k) \in Indices(s)
<1> DEFINE g == IndexAt(s, k)
           L == Len(s)
<1>1. L \in Nat /\ DOMAIN s = 1 .. L
  OBVIOUS
<1>2. g = [d \in 1 .. L |-> (k \div Stride(s, d)) % s[d]]
  BY <1>1 DEF IndexAt
<1>3. ASSUME NEW d \in 1 .. L PROVE g[d] \in Nat /\ g[d] < s[d]
  <2>1. d \in 0 .. L /\ s[d] \in Nat /\ s[d] > 0
    BY <1>1
  <2>2. Stride(s, d) \in Nat /\ Stride(s, d) > 0
    BY <2>1, StrideFacts
  <2> DEFINE x == Stride(s, d)
             y == s[d]
             z == k \div x
  <2>3. x \in Nat /\ x > 0 /\ y \in Nat /\ y > 0
    BY <2>1, <2>2
  <2>4. g[d] = z % y
    BY <1>2
  <2> HIDE DEF x, y
  <2>5. z \in Nat
    BY <2>3
  <2> HIDE DEF z
  <2>6. z % y \in Nat /\ z % y < y
    BY <2>3, <2>5
  <2> QED BY <2>4, <2>6 DEF y
<1> HIDE DEF g, L
<1>4. g \in Seq(Nat) /\ Len(g) = L
  <2>1. g \in [1 .. L -> Nat] /\ DOMAIN g = 1 .. L
    <3>1. g = [d \in 1 .. L |-> g[d]]
      BY <1>2
    <3> QED BY <1>3, <3>1
  <2>2. g \in Seq(Nat)
    BY <2>1, <1>1, SeqDef
  <2> QED BY <2>1, <2>2, <1>1
<1>5. g \in Seq(Nat) /\ Len(g) = Len(s) /\ \A d \in 1 .. Len(s) : g[d] < s[d]
  BY <1>3, <1>4 DEF L
<1>6. g \in Indices(s)
  BY ONLY <1>5, s \in Seq(Nat), IndicesAre
<1> QED BY <1>6 DEF g

(* Three sequences.                                                        *)
LEMMA ConcatThree ==
    ASSUME NEW S, NEW x \in Seq(S), NEW y \in Seq(S), NEW z \in Seq(S)
    PROVE  x \o (y \o z) = (x \o y) \o z
OBVIOUS

(* A line is text.                                                         *)
LEMMA LineIn ==
    ASSUME NEW s \in Seq(Nat), \A d \in 1 .. Len(s) : s[d] > 0, NEW t,
           NEW m \in Nat, NEW n \in Nat, n >= 1
    PROVE  /\ Line(s, t, m, n) \in Seq(Texts(s, t))
           /\ Break(s, n, m + 1) \in Seq(Texts(s, t))
           /\ Line(s, t, m + 1, n) = Line(s, t, m, n) \o Break(s, n, m + 1)
           /\ Line(s, t, 0, n) = <<t[IndexAt(s, n - 1)]>>
           /\ Line(s, t, -1, n) = <<t[IndexAt(s, n - 1)]>>
<1> DEFINE S == Texts(s, t)
           x == <<t[IndexAt(s, n - 1)]>>
           y == Breaks(s, n, m)
           z == Break(s, n, m + 1)
<1>1. t[IndexAt(s, n - 1)] \in S
  <2>1. n - 1 \in Nat
    OBVIOUS
  <2>2. IndexAt(s, n - 1) \in Indices(s)
    BY <2>1, IndexAtIn
  <2> QED BY <2>2, Zenon DEF Texts
<1>2. NL \in S
  BY DEF Texts
<1>3. /\ Breaks(s, n, 0) = << >> /\ Breaks(s, n, -1) = << >>
      /\ y \in Seq(S) /\ z \in Seq(S) /\ Breaks(s, n, m + 1) = y \o z
  <2> HIDE DEF S
  <2> QED BY <1>2, BreaksStep
<1>4. x \in Seq(S)
  BY <1>1
<1>5. Line(s, t, m, n) = x \o y /\ Line(s, t, m + 1, n) = x \o (y \o z)
      /\ Line(s, t, 0, n) = x \o << >> /\ Line(s, t, -1, n) = x \o << >>
  BY <1>3 DEF Line
<1> HIDE DEF S, x, y, z
<1>6. x \o y \in Seq(S)
  BY <1>3, <1>4, ConcatProperties
<1>7. x \o (y \o z) = (x \o y) \o z
  <2>1. y \in Seq(S) /\ z \in Seq(S)
    BY <1>3, Zenon
  <2> QED BY ONLY SMTT(40), <1>4, <2>1, ConcatThree
<1>8. x \o << >> = x
  BY <1>4, ConcatEmptySeq
<1> QED BY <1>3, <1>5, <1>6, <1>7, <1>8 DEF S, x, z

(* How many dimensions of the text of a loop at depth d end a line.        *)
Ending(s, d) == IF d = 0 /\ Len(s) > 0 THEN Len(s) - 1 ELSE Len(s) - d

(* The text of the body at depth d, from position q of the dimensions      *)
(* before.                                                                 *)
Seg(s, t, d, q) ==
    Joint(Shifted(Lines(s, t, Ending(s, d)), q * Stride(s, d), Stride(s, d)), Stride(s, d))

(* What the iterations of that loop print.                                 *)
SegRows(rows, s, t, d, q) ==
    \A i \in 1 .. s[d + 1] : rows[i] = Seg(s, t, d + 1, q * s[d + 1] + (i - 1))

(* The loop at depth d prints the segments of the next depth one after the *)
(* other, and ends a line if it is not the outermost.                      *)
LEMMA SegStep ==
    ASSUME NEW s \in Seq(Nat), \A d \in 1 .. Len(s) : s[d] > 0, NEW t,
           NEW d \in 0 .. Len(s) - 1, NEW q \in Nat, NEW rows, SegRows(rows, s, t, d, q)
    PROVE  /\ Joint(rows, s[d + 1]) \in Seq(Texts(s, t))
           /\ d = 0 => Seg(s, t, d, q) = Joint(rows, s[d + 1])
           /\ d # 0 => Seg(s, t, d, q) = Joint(rows, s[d + 1]) \o <<NL>>
<1> DEFINE L == Len(s)
           K == s[d + 1]
           T == Stride(s, d + 1)
           U == Stride(s, d)
           m == L - (d + 1)
           S == Texts(s, t)
           lo == q * U
           ls == Lines(s, t, m)
           ss == Shifted(ls, lo, U)
<1>1. /\ L \in Nat /\ d \in Nat /\ d + 1 \in 1 .. L /\ d + 1 # 0 /\ m \in Nat
      /\ d + 1 \in 0 .. L /\ d \in 0 .. L /\ L > 0 /\ d \in 0 .. L - 1
  OBVIOUS
<1>2. K \in Nat /\ T \in Nat /\ T > 0 /\ U \in Nat /\ U > 0 /\ U = K * T
  <2>1. K \in Nat
    BY <1>1
  <2>2. /\ \A e \in 0 .. L - 1 : Stride(s, e) = s[e + 1] * Stride(s, e + 1)
        /\ \A e \in 0 .. L : Stride(s, e) \in Nat
        /\ \A e \in 0 .. L : Stride(s, e) > 0
    BY StrideFacts, Zenon
  <2> QED BY <1>1, <2>1, <2>2, Zenon
<1>3. lo \in Nat
  <2> HIDE DEF U
  <2> QED BY <1>2
<1>4. /\ \A n \in Nat : ls[n] = Line(s, t, m, n)
      /\ \A i \in 1 .. U : ss[i] = ls[lo + i]
      /\ \A i \in 1 .. U : lo + i \in Nat /\ lo + i >= 1
  <2>1. \A n \in Nat : ls[n] = Line(s, t, m, n)
    BY DEF Lines
  <2>2. \A i \in 1 .. U : ss[i] = ls[lo + i]
    BY Zenon DEF Shifted
  <2> HIDE DEF lo, U
  <2>3. \A i \in 1 .. U : lo + i \in Nat /\ lo + i >= 1
    BY <1>2, <1>3
  <2> QED BY <2>1, <2>2, <2>3
<1>5. \A i \in 1 .. U : ss[i] = Line(s, t, m, lo + i) /\ ss[i] \in Seq(S)
  <2> TAKE i \in 1 .. U
  <2>1. ss[i] = Line(s, t, m, lo + i) /\ lo + i \in Nat /\ lo + i >= 1
    BY <1>4
  <2> HIDE DEF m, lo, U, ss
  <2>2. Line(s, t, m, lo + i) \in Seq(S)
    BY <1>1, <2>1, LineIn
  <2> QED BY <2>1, <2>2
<1> HIDE DEF K, T, U, m, S, lo, ls, ss
<1>6. ASSUME NEW j \in 1 .. K PROVE rows[j] = Joint(Shifted(ss, (j - 1) * T, T), T)
  <2> DEFINE p == q * K + (j - 1)
             lo2 == p * T
             a == Shifted(ls, lo2, T)
             b == Shifted(ss, (j - 1) * T, T)
  <2>1. rows[j] = Seg(s, t, d + 1, p)
    BY DEF K, SegRows
  <2>2. Ending(s, d + 1) = m
    BY <1>1 DEF Ending, m, L
  <2>3. rows[j] = Joint(a, T)
    BY <2>1, <2>2 DEF Seg, T, ls
  <2>4. lo2 = lo + (j - 1) * T
    <3> DEFINE x == j - 1
    <3>1. x \in Nat
      OBVIOUS
    <3> HIDE DEF x
    <3>2. (q * K + x) * T = q * (K * T) + x * T
      BY <1>2, <3>1
    <3> QED BY <3>2, <1>2 DEF lo, x
  <2>5. ASSUME NEW i \in 1 .. T PROVE a[i] = b[i]
    <3> DEFINE c == (j - 1) * T
    <3>1. a[i] = ls[lo2 + i] /\ b[i] = ss[c + i]
      BY Zenon DEF Shifted
    <3>2. c \in Nat /\ c + i \in 1 .. K * T
      <4>1. K \in Nat /\ T \in Nat
        BY <1>2
      <4> QED BY ONLY <4>1, j \in 1 .. K, i \in 1 .. T, RowIndex DEF c
    <3>3. c + i \in 1 .. U
      BY <3>2, <1>2
    <3>4. ss[c + i] = ls[lo + (c + i)]
      BY <3>3, <1>4
    <3> HIDE DEF c, lo2
    <3>5. lo2 = lo + c
      BY <2>4 DEF c, lo2
    <3>6. lo2 + i = lo + (c + i)
      BY <1>3, <3>2, <3>5
    <3> QED BY <3>1, <3>4, <3>6
  <2> HIDE DEF a, b
  <2>6. Joint(a, T) = Joint(b, T)
    <3>1. T \in Nat
      BY <1>2
    <3> QED BY ONLY <2>5, <3>1, JointSame
  <2> QED BY <2>3, <2>6 DEF b
<1>7. Joint(rows, K) = Joint(ss, U) /\ Joint(ss, U) \in Seq(S)
  <2>2. K \in Nat /\ T \in Nat /\ U = K * T
    BY <1>2
  <2>3. Nested(rows, ss, T, K)
    BY <1>6 DEF Nested
  <2>4. Parts(ss, U, S)
    BY <1>5 DEF Parts
  <2>5. Joint(rows, K) = Joint(ss, U) /\ Joint(rows, K) \in Seq(S)
    BY ONLY <2>2, <2>3, <2>4, JointNested
  <2> QED BY <2>5
<1>8. ASSUME d = 0 PROVE Seg(s, t, d, q) = Joint(ss, U)
  <2>1. Ending(s, d) = m
    BY <1>1, <1>8 DEF Ending, m, L
  <2> QED BY <2>1 DEF Seg, ss, ls, lo, U
<1>9. ASSUME d # 0 PROVE Seg(s, t, d, q) = Joint(ss, U) \o <<NL>>
  <2> DEFINE tt == Shifted(Lines(s, t, m + 1), lo, U)
  <2>1. Ending(s, d) = m + 1 /\ L - (m + 1) = d
    BY <1>1, <1>9 DEF Ending, m, L
  <2>2. Seg(s, t, d, q) = Joint(tt, U)
    BY <2>1 DEF Seg, lo, U
  <2>3. ASSUME NEW i \in 1 .. U
        PROVE  tt[i] = ss[i] \o (IF i = U THEN <<NL>> ELSE << >>)
    <3>1. lo + i \in Nat /\ lo + i >= 1 /\ ss[i] = Line(s, t, m, lo + i)
      BY <1>4, <1>5
    <3>2. tt[i] = Lines(s, t, m + 1)[lo + i]
      BY Zenon DEF Shifted
    <3>3. tt[i] = Line(s, t, m + 1, lo + i)
      BY <3>1, <3>2 DEF Lines
    <3>4. Line(s, t, m + 1, lo + i) = Line(s, t, m, lo + i) \o Break(s, lo + i, m + 1)
      BY ZenonT(60), <1>1, <3>1, LineIn
    <3>5. Break(s, lo + i, m + 1) = IF (lo + i) % U = 0 THEN <<NL>> ELSE << >>
      BY <2>1 DEF Break, U, L
    <3>6. (lo + i) % U = 0 <=> i = U
      <4>1. CASE i = U
        <5>1. q + 1 \in Int /\ 0 \in 0 .. U - 1
          BY <1>2
        <5>2. ((q + 1) * U + 0) % U = 0
          BY ONLY <1>2, <5>1, Quotient
        <5>3. (q + 1) * U + 0 = q * U + U
          BY <1>2
        <5> QED BY <4>1, <5>2, <5>3 DEF lo
      <4>2. CASE i # U
        <5>1. i \in 0 .. U - 1 /\ q \in Int /\ i # 0
          BY <1>2, <4>2
        <5>2. (q * U + i) % U = i
          BY ONLY <1>2, <5>1, Quotient
        <5> QED BY <4>2, <5>1, <5>2 DEF lo
      <4> QED BY <4>1, <4>2
    <3> QED BY <3>1, <3>3, <3>4, <3>5, <3>6
  <2> HIDE DEF tt
  <2>4. ASSUME NEW i \in 1 .. U, i # U PROVE tt[i] = ss[i]
    <3>1. tt[i] = ss[i] \o << >>
      BY <2>3, <2>4
    <3> QED BY <3>1, <1>5, ConcatEmptySeq
  <2> DEFINE k == U - 1
  <2>5. k \in Nat /\ k + 1 = U /\ U \in 1 .. U /\ \A i \in 1 .. k : i \in 1 .. U /\ i # U
    BY <1>2
  <2> HIDE DEF k
  <2>6. tt[U] = ss[U] \o <<NL>>
    BY <2>3, <2>5
  <2>7. Joint(tt, k) = Joint(ss, k)
    <3>1. \A i \in 1 .. k : tt[i] = ss[i]
      BY <2>4, <2>5
    <3> QED BY ONLY <2>5, <3>1, JointSame
  <2>8. <<NL>> \in Seq(S)
    BY DEF S, Texts
  <2>9. Joint(ss, k) \in Seq(S) /\ Joint(ss, k + 1) = Joint(ss, k) \o ss[k + 1]
    <3>1. Parts(ss, k + 1, S)
      BY <1>5, <2>5 DEF Parts
    <3> QED BY ONLY <2>5, <3>1, JointStep
  <2>10. \A i \in 1 .. k + 1 : tt[i] \in Seq(S)
    <3> TAKE i \in 1 .. k + 1
    <3>1. i \in 1 .. U /\ ss[i] \in Seq(S)
      BY <1>5, <2>5
    <3>2. CASE i = U
      BY ZenonT(60), <2>6, <2>8, <3>1, <3>2, ConcatProperties
    <3>3. CASE i # U
      BY <2>4, <3>1, <3>3
    <3> QED BY <3>2, <3>3
  <2>11. Joint(tt, k + 1) = Joint(tt, k) \o tt[k + 1]
    BY <2>5, <2>10, JointStep DEF Parts
  <2>12. Joint(tt, U) = Joint(ss, k) \o (ss[U] \o <<NL>>)
    BY <2>5, <2>6, <2>7, <2>11
  <2>13. ss[U] \in Seq(S)
    BY <1>5, <2>5
  <2>14. Joint(ss, k) \o (ss[U] \o <<NL>>) = (Joint(ss, k) \o ss[U]) \o <<NL>>
    <3> DEFINE x == Joint(ss, k)
               y == ss[U]
               z == <<NL>>
    <3>1. x \in Seq(S) /\ y \in Seq(S) /\ z \in Seq(S)
      BY <2>8, <2>9, <2>13
    <3> HIDE DEF x, y, z
    <3>2. x \o (y \o z) = (x \o y) \o z
      BY ONLY SMTT(40), <3>1, ConcatThree
    <3> QED BY <3>2 DEF x, y, z
  <2> QED BY <2>2, <2>5, <2>9, <2>12, <2>14
<1> QED BY <1>7, <1>8, <1>9 DEF K, S

(* The text of one statement of a body; x is that of the loop in it.       *)
Say(stmt, x, t, ivs) ==
    IF stmt = "loop" THEN x
    ELSE IF stmt = "element" THEN <<t[ivs]>>
    ELSE IF stmt = "newline" THEN <<NL>>
    ELSE << >>

(* The text of a body.                                                     *)
BodyText(body, x, t, ivs) == FlattenSeq([n \in DOMAIN body |-> Say(body[n], x, t, ivs)])

(* The alphabet S of the text of a body at depth d of L loops.             *)
BodyIn(S, L, d, t, ivs) == NL \in S /\ (d = L => t[ivs] \in S)

(* r is the text of the body at depth d, when x is that of the loop in it. *)
Spoken(r, L, d, x, t, ivs) == r = BodyText(NestBodies(L)[d + 1], x, t, ivs)

(* That is: an element, or the loop, with a newline if it is not outermost.*)
BodyEnds(r, L, d, x, t, ivs) ==
    /\ d = L => r = <<t[ivs]>>
    /\ d = 0 /\ L # 0 => r = x
    /\ d # 0 /\ d # L => r = x \o <<NL>>

(* Up to three parts.                                                      *)
LEMMA FewParts ==
    ASSUME NEW S, NEW w, w[1] \in Seq(S)
    PROVE  /\ Joint(w, 1) = w[1]
           /\ w[2] \in Seq(S) => Joint(w, 2) = w[1] \o w[2]
           /\ w[2] \in Seq(S) /\ w[3] \in Seq(S) => Joint(w, 3) = (w[1] \o w[2]) \o w[3]
<1>1. Joint(w, 0) = << >> /\ Joint(w, 0 + 1) = Joint(w, 0) \o w[0 + 1]
  <2>1. Parts(w, 0 + 1, S)
    BY DEF Parts
  <2> QED BY ONLY <2>1, JointStep
<1>2. Joint(w, 1) = w[1]
  <2>1. 0 + 1 = 1
    OBVIOUS
  <2>2. << >> \o w[1] = w[1]
    BY ConcatEmptySeq
  <2> QED BY <1>1, <2>1, <2>2
<1>3. ASSUME w[2] \in Seq(S) PROVE Joint(w, 1 + 1) = Joint(w, 1) \o w[1 + 1]
  <2>1. Parts(w, 1 + 1, S)
    <3>1. \A i \in 1 .. 1 + 1 : i = 1 \/ i = 2
      OBVIOUS
    <3> QED BY <1>3, <3>1, Zenon DEF Parts
  <2>2. 1 \in Nat
    OBVIOUS
  <2> QED BY ONLY <2>1, <2>2, JointStep
<1>4. ASSUME w[2] \in Seq(S), w[3] \in Seq(S)
      PROVE  Joint(w, 2 + 1) = Joint(w, 2) \o w[2 + 1]
  <2>1. Parts(w, 2 + 1, S)
    <3>1. \A i \in 1 .. 2 + 1 : i = 1 \/ i = 2 \/ i = 3
      OBVIOUS
    <3> QED BY <1>4, <3>1, Zenon DEF Parts
  <2>2. 2 \in Nat
    OBVIOUS
  <2> QED BY ONLY <2>1, <2>2, JointStep
<1>5. 1 + 1 = 2 /\ 2 + 1 = 3
  OBVIOUS
<1> QED BY <1>2, <1>3, <1>4, <1>5

(* The statements of the bodies the pattern builds.                        *)
LEMMA NestBodyIs ==
    ASSUME NEW L \in Nat, NEW d \in 0 .. L
    PROVE  /\ L = 0 => NestBodies(L)[d + 1] = <<"element">>
           /\ d = L /\ L # 0 => NestBodies(L)[d + 1] = <<"element", "yield">>
           /\ d = 0 /\ L # 0 => NestBodies(L)[d + 1] = <<"loop">>
           /\ d # 0 /\ d # L => NestBodies(L)[d + 1] = <<"loop", "newline", "yield">>
<1> DEFINE b == NestBodies(L)[d + 1]
<1> DEFINE e(n) == (IF n <= L THEN <<"loop">> ELSE <<"element">>)
                   \o (IF n > 1 /\ n - 1 # L THEN <<"newline">> ELSE << >>)
                   \o (IF n > 1 THEN <<"yield">> ELSE << >>)
<1>1. b = e(d + 1)
  <2>1. d + 1 \in 1 .. L + 1
    OBVIOUS
  <2> QED BY <2>1 DEF NestBodies
<1>2. \A c : <<c>> \o << >> = <<c>>
  OBVIOUS
<1>3. /\ d <= L - 1 <=> d + 1 <= L
      /\ d # 0 <=> d + 1 > 1
      /\ (d + 1) - 1 = d
      /\ d = L <=> ~ (d + 1 <= L)
  OBVIOUS
<1>4. d = 0 /\ L = 0 => b = <<"element">>
  BY <1>1, <1>2, <1>3
<1>5. d = L /\ L # 0 => b = <<"element", "yield">>
  BY <1>1, <1>3, TupleConcat
<1>6. d = 0 /\ L # 0 => b = <<"loop">>
  BY <1>1, <1>2, <1>3
<1>7. d # 0 /\ d # L => b = <<"loop", "newline", "yield">>
  BY <1>1, <1>3, TupleConcat
<1>8. L = 0 => d = 0
  OBVIOUS
<1> QED BY <1>4, <1>5, <1>6, <1>7, <1>8

(* Where the loop is in the text of a body, and where a line ends.         *)
LEMMA BodyIs ==
    ASSUME NEW S, NEW L \in Nat, NEW d \in 0 .. L, NEW x \in Seq(S), NEW t, NEW ivs,
           BodyIn(S, L, d, t, ivs), NEW r, Spoken(r, L, d, x, t, ivs)
    PROVE  BodyEnds(r, L, d, x, t, ivs)
<1> DEFINE b == NestBodies(L)[d + 1]
           w == [n \in DOMAIN b |-> Say(b[n], x, t, ivs)]
           y == <<t[ivs]>>
           z == <<NL>>
<1>1. /\ L = 0 => b = <<"element">>
      /\ d = L /\ L # 0 => b = <<"element", "yield">>
      /\ d = 0 /\ L # 0 => b = <<"loop">>
      /\ d # 0 /\ d # L => b = <<"loop", "newline", "yield">>
  BY NestBodyIs
<1>2. r = FlattenSeq(w)
  BY DEF BodyText, Spoken
<1>3. ASSUME NEW n \in Nat, DOMAIN b = 1 .. n PROVE r = Joint(w, n)
  <2>1. w = [i \in 1 .. n |-> w[i]]
    BY <1>3
  <2> QED BY <1>2, <2>1 DEF Joint
<1>4. /\ Say("loop", x, t, ivs) = x /\ Say("element", x, t, ivs) = y
      /\ Say("newline", x, t, ivs) = z /\ Say("yield", x, t, ivs) = << >>
  BY DEF Say
<1>5. z \in Seq(S) /\ << >> \in Seq(S) /\ (d = L => y \in Seq(S))
  BY DEF BodyIn
<1>6. \A n \in DOMAIN b : w[n] = Say(b[n], x, t, ivs)
  BY Zenon
<1> HIDE DEF w, b, y, z
<1>7. ASSUME L = 0 PROVE r = y
  <2>1. DOMAIN b = 1 .. 1 /\ w[1] = y /\ d = L
    BY <1>1, <1>4, <1>6, <1>7
  <2>3. Joint(w, 1) = w[1]
    BY <1>5, <2>1, FewParts
  <2> QED BY <1>3, <2>1, <2>3
<1>8. ASSUME d = L, L # 0 PROVE r = y
  <2>1. DOMAIN b = 1 .. 2 /\ w[1] = y /\ w[2] = << >>
    BY <1>1, <1>4, <1>6, <1>8
  <2>3. Joint(w, 2) = w[1] \o w[2]
    BY <1>5, <1>8, <2>1, FewParts
  <2>4. y \o << >> = y
    BY <1>5, <1>8, ConcatEmptySeq
  <2> QED BY <1>3, <2>1, <2>3, <2>4
<1>9. ASSUME d = 0, L # 0 PROVE r = x
  <2>1. DOMAIN b = 1 .. 1 /\ w[1] = x
    BY <1>1, <1>4, <1>6, <1>9
  <2>3. Joint(w, 1) = w[1]
    BY <1>5, <2>1, FewParts
  <2> QED BY <1>3, <2>1, <2>3
<1>10. ASSUME d # 0, d # L PROVE r = x \o z
  <2>1. DOMAIN b = 1 .. 3 /\ w[1] = x /\ w[2] = z /\ w[3] = << >>
    BY <1>1, <1>4, <1>6, <1>10
  <2>3. Joint(w, 3) = (w[1] \o w[2]) \o w[3]
    BY <1>5, <2>1, FewParts
  <2>4. (x \o z) \o << >> = x \o z
    <3>1. x \o z \in Seq(S)
      BY <1>5, ConcatProperties
    <3> QED BY <3>1, ConcatEmptySeq
  <2> QED BY <1>3, <2>1, <2>3, <2>4
<1> QED BY <1>7, <1>8, <1>9, <1>10 DEF y, z, BodyEnds

-----------------------------------------------------------------------------
(* The text of the loops of a print.                                       *)

(* The induction variables of the loops around a body.                     *)
LoopVars(s) == UNION {Indices(SubSeq(s, 1, d)) : d \in 0 .. Len(s)}

(* The text of the loop in the body with these: its iterations.           *)
LoopText(f, s, ivs) == FlattenSeq([i \in 1 .. s[Len(ivs) + 1] |-> f[Append(ivs, i - 1)]])

(* f[ivs] is the text of the body with these.                              *)
Runs(f, s, t, bodies) ==
    f = [ivs \in LoopVars(s) |->
            BodyText(bodies[Len(ivs) + 1], LoopText(f, s, ivs), t, ivs)]

(* What Printed computes.                                                  *)
LEMMA PrintedIs ==
    ASSUME NEW e
    PROVE  Printed(e) = (CHOOSE f : Runs(f, ShapeOf(e.v), memory[e.v], e.bodies))[<< >>]
BY DEF Printed, Runs, LoopVars, BodyText, LoopText, Say

(* LoopVars of each length, and the next.                                  *)
LEMMA PrefixFacts ==
    ASSUME NEW s \in Seq(Nat)
    PROVE  /\ \A ivs : ivs \in LoopVars(s) <=>
                  /\ ivs \in Seq(Nat) /\ Len(ivs) <= Len(s)
                  /\ \A j \in 1 .. Len(ivs) : ivs[j] < s[j]
           /\ \A ivs \in LoopVars(s) : Len(ivs) = Len(s) => ivs \in Indices(s)
           /\ << >> \in LoopVars(s)
<1> DEFINE L == Len(s)
<1>1. L \in Nat
  OBVIOUS
<1>2. ASSUME NEW d \in 0 .. L
      PROVE  /\ SubSeq(s, 1, d) \in Seq(Nat) /\ Len(SubSeq(s, 1, d)) = d
             /\ \A j \in 1 .. d : SubSeq(s, 1, d)[j] = s[j]
  OBVIOUS
<1> HIDE DEF L
<1>3. ASSUME NEW ivs, NEW d \in 0 .. L
      PROVE  ivs \in Indices(SubSeq(s, 1, d)) <=>
                 ivs \in Seq(Nat) /\ Len(ivs) = d /\ \A j \in 1 .. d : ivs[j] < s[j]
  <2> DEFINE r == SubSeq(s, 1, d)
  <2>1. r \in Seq(Nat) /\ Len(r) = d /\ \A j \in 1 .. d : r[j] = s[j]
    BY <1>2
  <2> HIDE DEF r
  <2>2. ivs \in Indices(r) <=>
            ivs \in Seq(Nat) /\ Len(ivs) = Len(r) /\ \A j \in 1 .. Len(r) : ivs[j] < r[j]
    BY ONLY <2>1, IndicesAre
  <2>3. ivs \in Indices(r) <=>
            ivs \in Seq(Nat) /\ Len(ivs) = d /\ \A j \in 1 .. d : ivs[j] < s[j]
    BY <2>1, <2>2, Zenon
  <2> QED BY <2>3 DEF r
<1>4. ASSUME NEW ivs
      PROVE  ivs \in LoopVars(s) <=> \E d \in 0 .. L : ivs \in Indices(SubSeq(s, 1, d))
  BY DEF LoopVars, L
<1>5. ASSUME NEW ivs
      PROVE  ivs \in LoopVars(s) <=>
                  /\ ivs \in Seq(Nat) /\ Len(ivs) <= L
                  /\ \A j \in 1 .. Len(ivs) : ivs[j] < s[j]
  <2>1. ivs \in Seq(Nat) /\ Len(ivs) <= L => Len(ivs) \in 0 .. L
    BY <1>1
  <2>2. \A d \in 0 .. L : d <= L
    BY <1>1
  <2> QED BY <1>3, <1>4, <2>1, <2>2
<1>6. ASSUME NEW ivs \in LoopVars(s), Len(ivs) = L PROVE ivs \in Indices(s)
  BY <1>5, <1>6, IndicesAre DEF L
<1>7. << >> \in LoopVars(s)
  <2>1. << >> \in Seq(Nat) /\ Len(<< >>) = 0 /\ 1 .. 0 = {} /\ 0 <= L
    BY <1>1
  <2> QED BY <1>5, <2>1
<1> QED BY <1>5, <1>6, <1>7 DEF L

(* One more induction variable.                                            *)
LEMMA PrefixNext ==
    ASSUME NEW s \in Seq(Nat), NEW ivs \in LoopVars(s), Len(ivs) < Len(s),
           NEW i \in 1 .. s[Len(ivs) + 1]
    PROVE  /\ Append(ivs, i - 1) \in LoopVars(s)
           /\ Len(Append(ivs, i - 1)) = Len(ivs) + 1
           /\ \A j \in 1 .. Len(ivs) : Append(ivs, i - 1)[j] = ivs[j]
           /\ Append(ivs, i - 1)[Len(ivs) + 1] = i - 1
<1> DEFINE d == Len(ivs)
           r == Append(ivs, i - 1)
<1>1. ivs \in Seq(Nat) /\ d \in Nat /\ d < Len(s) /\ \A j \in 1 .. d : ivs[j] < s[j]
  BY PrefixFacts
<1>2. s[d + 1] \in Nat /\ Len(s) \in Nat
  BY <1>1
<1>3. i - 1 \in Nat /\ i - 1 < s[d + 1]
  BY <1>2
<1>4. /\ r \in Seq(Nat) /\ Len(r) = d + 1 /\ r[d + 1] = i - 1
      /\ \A j \in 1 .. d : r[j] = ivs[j]
  BY <1>1, <1>3
<1> HIDE DEF r, d
<1>5. \A j \in 1 .. d + 1 : r[j] < s[j]
  <2>1. \A j \in 1 .. d + 1 : j \in 1 .. d \/ j = d + 1
    BY <1>1
  <2> QED BY <1>1, <1>3, <1>4, <2>1
<1>6. d + 1 <= Len(s)
  BY <1>1, <1>2
<1>7. r \in LoopVars(s)
  BY <1>4, <1>5, <1>6, PrefixFacts
<1> QED BY <1>4, <1>7 DEF r, d

(* The innermost body has no loop.                                         *)
LEMMA InnermostText ==
    ASSUME NEW L \in Nat, NEW x, NEW y, NEW t, NEW ivs
    PROVE  BodyText(NestBodies(L)[L + 1], x, t, ivs) = BodyText(NestBodies(L)[L + 1], y, t, ivs)
<1> DEFINE b == NestBodies(L)[L + 1]
<1>1. b = <<"element">> \/ b = <<"element", "yield">>
  <2>1. L \in 0 .. L
    OBVIOUS
  <2> QED BY <2>1, NestBodyIs
<1>2. \A n \in DOMAIN b : b[n] # "loop"
  BY <1>1
<1> HIDE DEF b
<1>3. \A n \in DOMAIN b : Say(b[n], x, t, ivs) = Say(b[n], y, t, ivs)
  BY <1>2 DEF Say
<1>4. [n \in DOMAIN b |-> Say(b[n], x, t, ivs)] = [n \in DOMAIN b |-> Say(b[n], y, t, ivs)]
  BY <1>3, Zenon
<1> QED BY <1>4 DEF BodyText, b

(* The loops have texts.                                                   *)
LEMMA RunsExist ==
    ASSUME NEW s \in Seq(Nat), NEW t
    PROVE  \E f : Runs(f, s, t, NestBodies(Len(s)))
<1> DEFINE L == Len(s)
           B(f, ivs) == BodyText(NestBodies(L)[Len(ivs) + 1], LoopText(f, s, ivs), t, ivs)
           Deep(m) == {ivs \in LoopVars(s) : Len(ivs) >= m}
           From(f, m) == f = [ivs \in Deep(m) |-> B(f, ivs)]
           Good(k) == k <= L + 1 => \E f : From(f, (L + 1) - k)
           P == {k \in Nat : Good(k)}
<1>1. L \in Nat
  OBVIOUS
<1>2. \A ivs \in LoopVars(s) : Len(ivs) \in 0 .. L
  BY PrefixFacts
<1>3. ASSUME NEW ivs \in LoopVars(s), NEW f, NEW g,
             \A j \in Deep(Len(ivs) + 1) : f[j] = g[j]
      PROVE  B(f, ivs) = B(g, ivs)
  <2>1. CASE Len(ivs) = L
    BY <1>1, <2>1, InnermostText
  <2>2. CASE Len(ivs) # L
    <3>1. Len(ivs) < Len(s)
      BY <1>1, <1>2, <2>2
    <3>2. \A i \in 1 .. s[Len(ivs) + 1] : f[Append(ivs, i - 1)] = g[Append(ivs, i - 1)]
      <4> TAKE i \in 1 .. s[Len(ivs) + 1]
      <4> DEFINE j == Append(ivs, i - 1)
      <4>1. j \in LoopVars(s) /\ Len(j) = Len(ivs) + 1
        BY <3>1, PrefixNext
      <4>2. Len(ivs) + 1 >= Len(ivs) + 1
        BY <1>2
      <4> HIDE DEF j
      <4>3. j \in Deep(Len(ivs) + 1)
        BY <4>1, <4>2
      <4> QED BY <1>3, <4>3 DEF j
    <3>3. [i \in 1 .. s[Len(ivs) + 1] |-> f[Append(ivs, i - 1)]]
              = [i \in 1 .. s[Len(ivs) + 1] |-> g[Append(ivs, i - 1)]]
      BY <3>2, Zenon
    <3>4. LoopText(f, s, ivs) = LoopText(g, s, ivs)
      BY <3>3 DEF LoopText
    <3> QED BY <3>4
  <2> QED BY <2>1, <2>2
<1> HIDE DEF L, B
<1>4. 0 \in P
  <2> DEFINE f == [ivs \in Deep(L + 1) |-> B(0, ivs)]
  <2>1. \A ivs \in Deep(L + 1) : FALSE
    BY <1>1, <1>2
  <2>2. [ivs \in Deep(L + 1) |-> B(0, ivs)] = [ivs \in Deep(L + 1) |-> B(f, ivs)]
    BY <2>1, Zenon
  <2>3. From(f, L + 1)
    BY <2>2
  <2>4. (L + 1) - 0 = L + 1
    BY <1>1
  <2> HIDE DEF f
  <2> QED BY <2>3, <2>4
<1>5. ASSUME NEW k \in Nat, k \in P PROVE k + 1 \in P
  <2> SUFFICES Good(k + 1)
    <3>1. k + 1 \in Nat
      OBVIOUS
    <3> HIDE DEF Good
    <3> QED BY <3>1
  <2> SUFFICES ASSUME k + 1 <= L + 1 PROVE \E f : From(f, (L + 1) - (k + 1))
    BY Zenon
  <2>0. Good(k)
    <3> HIDE DEF Good
    <3> QED BY <1>5
  <2> DEFINE m == (L + 1) - (k + 1)
  <2>1. m \in Nat /\ (L + 1) - k = m + 1 /\ k <= L + 1
    BY <1>1
  <2> HIDE DEF m
  <2> PICK f : From(f, m + 1)
    BY <2>0, <2>1
  <2> DEFINE h == [ivs \in Deep(m) |-> IF Len(ivs) = m THEN B(f, ivs) ELSE f[ivs]]
  <2>2. \A ivs \in Deep(m + 1) : ivs \in Deep(m) /\ Len(ivs) # m
    <3>1. \A n \in Nat : n >= m + 1 => n >= m /\ n # m
      BY <2>1
    <3>2. \A ivs \in LoopVars(s) : Len(ivs) \in Nat
      BY <1>2
    <3> QED BY <3>1, <3>2
  <2>3. \A ivs \in Deep(m + 1) : f[ivs] = h[ivs]
    BY <2>2
  <2>4. ASSUME NEW ivs \in Deep(m) PROVE h[ivs] = B(h, ivs)
    <3>1. ivs \in LoopVars(s) /\ Len(ivs) \in Nat /\ Len(ivs) >= m
      BY <1>2
    <3> HIDE DEF h
    <3>2. \A j \in Deep(Len(ivs) + 1) : j \in Deep(m + 1)
      <4>1. \A n \in Nat : n >= Len(ivs) + 1 => n >= m + 1
        BY <2>1, <3>1
      <4>2. \A j \in LoopVars(s) : Len(j) \in Nat
        BY <1>2
      <4> QED BY <4>1, <4>2
    <3>3. \A j \in Deep(Len(ivs) + 1) : f[j] = h[j]
      BY <2>3, <3>2
    <3>4. B(f, ivs) = B(h, ivs)
      BY <1>3, <3>1, <3>3
    <3>5. h[ivs] = IF Len(ivs) = m THEN B(f, ivs) ELSE f[ivs]
      BY DEF h
    <3>6. Len(ivs) # m => f[ivs] = B(f, ivs)
      <4>1. Len(ivs) # m => Len(ivs) >= m + 1
        BY <2>1, <3>1
      <4>2. \A j \in Deep(m + 1) : f[j] = B(f, j)
        BY Zenon
      <4> QED BY <3>1, <4>1, <4>2
    <3> QED BY <3>4, <3>5, <3>6
  <2>5. h = [ivs \in Deep(m) |-> h[ivs]]
    OBVIOUS
  <2> HIDE DEF h
  <2>6. h = [ivs \in Deep(m) |-> B(h, ivs)]
    <3> HIDE DEF Deep
    <3> QED BY <2>4, <2>5, Zenon
  <2> QED BY <2>6 DEF m
<1>6. L + 1 \in P /\ L + 1 <= L + 1 /\ (L + 1) - (L + 1) = 0
  <2>1. Nat \subseteq P
    <3> HIDE DEF P
    <3> QED BY <1>4, <1>5, NatSetInduction
  <2>2. L + 1 \in Nat
    BY <1>1
  <2>3. L + 1 <= L + 1 /\ (L + 1) - (L + 1) = 0
    BY <1>1
  <2> HIDE DEF P
  <2> QED BY <2>1, <2>2, <2>3
<1>7. PICK f : From(f, 0)
  <2>1. Good(L + 1)
    <3> HIDE DEF Good
    <3> QED BY <1>6
  <2> QED BY <1>6, <2>1
<1>8. Deep(0) = LoopVars(s)
  BY <1>2
<1>9. f = [ivs \in LoopVars(s) |-> B(f, ivs)]
  BY <1>7, <1>8
<1> QED BY <1>9, Zenon DEF Runs, B, L

(* The same first d induction variables.                                   *)
Agree(jvs, ivs, d) == \A j \in 1 .. d : jvs[j] = ivs[j]

(* The position one loop further in.                                       *)
LEMMA HornerNext ==
    ASSUME NEW s, NEW d \in Nat, NEW ivs, NEW at,
           Horner(at, s, ivs, d), NEW jvs, Agree(jvs, ivs, d)
    PROVE  \E h : Horner(h, s, jvs, d + 1) /\ h[d + 1] = at[d] * s[d + 1] + jvs[d + 1]
<1> DEFINE h == [j \in 0 .. d + 1 |-> IF j = d + 1 THEN at[d] * s[d + 1] + jvs[d + 1] ELSE at[j]]
<1>1. d \in Nat /\ (d + 1) - 1 = d /\ d + 1 \in 0 .. d + 1 /\ d + 1 # 0 /\ d # d + 1
  OBVIOUS
<1>2. ASSUME NEW j \in 0 .. d + 1
      PROVE  h[j] = IF j = 0 THEN 0 ELSE h[j - 1] * s[j] + jvs[j]
  <2>1. CASE j = d + 1
    <3>1. h[d] = at[d]
      BY <1>1
    <3>2. h[d + 1] = at[d] * s[d + 1] + jvs[d + 1]
      BY <1>1
    <3> HIDE DEF h
    <3> QED BY <2>1, <3>1, <3>2, <1>1
  <2>2. CASE j # d + 1
    <3>1. j \in 0 .. d /\ h[j] = at[j]
      BY <2>2
    <3>2. at[j] = IF j = 0 THEN 0 ELSE at[j - 1] * s[j] + ivs[j]
      BY <3>1, Zenon DEF Horner
    <3>3. CASE j = 0
      BY <3>1, <3>2, <3>3
    <3>4. CASE j # 0
      <4>1. j - 1 \in 0 .. d + 1 /\ j - 1 # d + 1 /\ j \in 1 .. d
        BY <3>1, <3>4
      <4>2. h[j - 1] = at[j - 1] /\ jvs[j] = ivs[j]
        BY <4>1 DEF Agree
      <4> HIDE DEF h
      <4> QED BY <3>1, <3>2, <3>4, <4>2
    <3> QED BY <3>3, <3>4
  <2> QED BY <2>1, <2>2
<1>3. h = [j \in 0 .. d + 1 |-> h[j]] /\ h[d + 1] = at[d] * s[d + 1] + jvs[d + 1]
  BY <1>1
<1> HIDE DEF h
<1>4. Horner(h, s, jvs, d + 1)
  BY <1>2, <1>3, Zenon DEF Horner
<1> QED BY <1>3, <1>4

(* The texts of the bodies at depth d.                                     *)
SegAt(f, s, t, d) ==
    \A ivs \in LoopVars(s) : \A at :
        Len(ivs) = d /\ Horner(at, s, ivs, d) =>
            f[ivs] = Seg(s, t, d, at[d]) /\ f[ivs] \in Seq(Texts(s, t))

(* Innermost, an element.                                                  *)
LEMMA SegLeaf ==
    ASSUME NEW s \in Seq(Nat), \A d \in 1 .. Len(s) : s[d] > 0, NEW t, NEW f,
           Runs(f, s, t, NestBodies(Len(s)))
    PROVE  SegAt(f, s, t, Len(s))
<1> DEFINE L == Len(s)
           S == Texts(s, t)
<1> SUFFICES ASSUME NEW ivs \in LoopVars(s), NEW at, Len(ivs) = L, Horner(at, s, ivs, L)
             PROVE  f[ivs] = Seg(s, t, L, at[L]) /\ f[ivs] \in Seq(S)
  BY DEF SegAt
<1>1. L \in Nat /\ L \in 0 .. L /\ ivs \in Indices(s) /\ L - L = 0 /\ (L = 0 => L - 1 = -1)
  BY PrefixFacts
<1>2. t[ivs] \in S /\ NL \in S
  BY <1>1, Zenon DEF Texts
<1>3. f[ivs] = BodyText(NestBodies(L)[L + 1], LoopText(f, s, ivs), t, ivs)
  BY Zenon DEF Runs
<1>4. f[ivs] = BodyText(NestBodies(L)[L + 1], << >>, t, ivs)
  BY <1>1, <1>3, InnermostText
<1> HIDE DEF S
<1>5. f[ivs] = <<t[ivs]>>
  <2>1. << >> \in Seq(S)
    OBVIOUS
  <2>2. Spoken(f[ivs], L, L, << >>, t, ivs)
    BY <1>4 DEF Spoken
  <2> DEFINE r == f[ivs]
  <2>4. Spoken(r, L, L, << >>, t, ivs)
    BY <2>2
  <2>5. BodyIn(S, L, L, t, ivs)
    BY <1>2 DEF BodyIn
  <2> DEFINE x == << >>
  <2> HIDE DEF L, r, x
  <2>6. x \in Seq(S) /\ Spoken(r, L, L, x, t, ivs)
    BY <2>1, <2>4 DEF x
  <2>7. BodyEnds(r, L, L, x, t, ivs)
    BY ONLY <1>1, <2>5, <2>6, BodyIs
  <2>3. r = <<t[ivs]>>
    BY <2>7 DEF BodyEnds
  <2> QED BY <2>3 DEF r
<1>6. <<t[ivs]>> \in Seq(S)
  BY <1>2
<1>7. Seg(s, t, L, at[L]) = <<t[ivs]>>
  <2>1. Stride(s, L) = 1 /\ Ending(s, L) = 0
    BY <1>1, StrideFacts DEF Ending
  <2>2. at[L] \in Nat /\ IndexAt(s, at[L]) = ivs
    <3>1. \A d \in 1 .. L : ivs[d] \in Nat
      BY <1>1, IndicesAre
    <3>2. \A d \in 0 .. L : at[d] \in Nat
      BY <1>1, <3>1, HornerFacts
    <3> QED BY <1>1, <3>2, HornerQuotients
  <2> DEFINE q == at[L]
             ls == Lines(s, t, 0)
             w == Shifted(ls, q * 1, 1)
  <2>3. Seg(s, t, L, at[L]) = Joint(w, 1)
    BY <2>1 DEF Seg
  <2>4. q * 1 + 1 = q + 1 /\ q + 1 \in Nat /\ q + 1 >= 1 /\ (q + 1) - 1 = q /\ 0 \in Nat
    BY SMTT(40), <2>2
  <2>5. ls[q + 1] = Line(s, t, 0, q + 1)
    BY <2>4 DEF Lines
  <2> HIDE DEF ls
  <2>6. w[1] = ls[q + 1]
    <3>1. 1 \in 1 .. 1
      OBVIOUS
    <3>2. w[1] = ls[q * 1 + 1]
      BY <3>1, Zenon DEF Shifted
    <3> QED BY <2>4, <3>2
  <2> HIDE DEF w, q
  <2>7. Line(s, t, 0, q + 1) = <<t[IndexAt(s, (q + 1) - 1)]>>
    BY <2>4, LineIn
  <2>8. w[1] = <<t[ivs]>>
    BY <2>2, <2>4, <2>5, <2>6, <2>7 DEF q
  <2>9. Joint(w, 1) = w[1]
    BY <1>6, <2>8, FewParts
  <2> QED BY <2>3, <2>8, <2>9
<1> QED BY <1>5, <1>6, <1>7

(* Further out, the texts of the loop's iterations.                        *)
LEMMA SegOut ==
    ASSUME NEW s \in Seq(Nat), \A d \in 1 .. Len(s) : s[d] > 0, NEW t, NEW f,
           Runs(f, s, t, NestBodies(Len(s))), NEW d \in 0 .. Len(s) - 1,
           SegAt(f, s, t, d + 1)
    PROVE  SegAt(f, s, t, d)
<1> DEFINE L == Len(s)
           S == Texts(s, t)
           K == s[d + 1]
<1> SUFFICES ASSUME NEW ivs \in LoopVars(s), NEW at, Len(ivs) = d, Horner(at, s, ivs, d)
             PROVE  f[ivs] = Seg(s, t, d, at[d]) /\ f[ivs] \in Seq(S)
  BY DEF SegAt
<1>1. /\ L \in Nat /\ d \in Nat /\ d \in 0 .. L /\ L # 0 /\ d # L /\ d < L /\ d + 1 \in 1 .. L
      /\ K \in Nat
  OBVIOUS
<1>2. ivs \in Seq(Nat) /\ at[d] \in Nat
  <2>1. ivs \in Seq(Nat)
    BY PrefixFacts
  <2>2. \A j \in 1 .. d : ivs[j] \in Nat
    BY <2>1
  <2>3. \A j \in 0 .. d : at[j] \in Nat
    BY <1>1, <2>2, HornerFacts
  <2> QED BY <1>1, <2>1, <2>3
<1> DEFINE q == at[d]
           rows == [i \in 1 .. K |-> f[Append(ivs, i - 1)]]
<1>3. ASSUME NEW i \in 1 .. K PROVE rows[i] = Seg(s, t, d + 1, q * K + (i - 1))
  <2> DEFINE jvs == Append(ivs, i - 1)
  <2>1. /\ jvs \in LoopVars(s) /\ Len(jvs) = d + 1
        /\ \A j \in 1 .. d : jvs[j] = ivs[j]
        /\ jvs[d + 1] = i - 1
    BY <1>1, PrefixNext
  <2>2. rows[i] = f[jvs]
    BY Zenon
  <2> HIDE DEF jvs, rows
  <2>3. PICK h : Horner(h, s, jvs, d + 1) /\ h[d + 1] = at[d] * s[d + 1] + jvs[d + 1]
    <3>1. Agree(jvs, ivs, d)
      BY <2>1 DEF Agree
    <3> QED BY ONLY <1>1, <3>1, Horner(at, s, ivs, d), HornerNext
  <2>4. f[jvs] = Seg(s, t, d + 1, h[d + 1])
    BY <2>1, <2>3, Zenon DEF SegAt
  <2>5. h[d + 1] = q * K + (i - 1)
    BY <2>1, <2>3
  <2> QED BY <2>2, <2>4, <2>5
<1>4. rows = [i \in 1 .. K |-> rows[i]]
  BY Zenon
<1>5. f[ivs] = BodyText(NestBodies(L)[d + 1], LoopText(f, s, ivs), t, ivs)
  BY Zenon DEF Runs
<1>6. LoopText(f, s, ivs) = Joint(rows, K)
  <2>1. LoopText(f, s, ivs) = FlattenSeq(rows)
    BY DEF LoopText
  <2> HIDE DEF rows
  <2> QED BY <1>4, <2>1 DEF Joint
<1> HIDE DEF rows, q
<1>7. /\ Joint(rows, K) \in Seq(S)
      /\ d = 0 => Seg(s, t, d, q) = Joint(rows, K)
      /\ d # 0 => Seg(s, t, d, q) = Joint(rows, K) \o <<NL>>
  <2>1. q \in Nat
    BY <1>2 DEF q
  <2>2. \A i \in 1 .. s[d + 1] : rows[i] = Seg(s, t, d + 1, q * s[d + 1] + (i - 1))
    BY <1>3
  <2>3. SegRows(rows, s, t, d, q)
    BY <2>2 DEF SegRows
  <2>4. \A j \in 1 .. Len(s) : s[j] > 0
    OBVIOUS
  <2> QED BY ONLY s \in Seq(Nat), d \in 0 .. Len(s) - 1, <2>1, <2>3, <2>4, SegStep
<1> DEFINE x == Joint(rows, K)
<1>8. NL \in S
  BY DEF Texts
<1>9. /\ d = 0 => f[ivs] = x
      /\ d # 0 => f[ivs] = x \o <<NL>>
  <2>1. x \in Seq(S)
    BY <1>7
  <2>2. f[ivs] = BodyText(NestBodies(L)[d + 1], x, t, ivs)
    BY <1>5, <1>6
  <2> DEFINE r == f[ivs]
  <2>3. Spoken(r, L, d, x, t, ivs)
    BY <2>2 DEF Spoken
  <2> HIDE DEF x, S, L, r
  <2>4. d = L => t[ivs] \in S
    BY <1>1
  <2>5. BodyIn(S, L, d, t, ivs)
    BY <1>8, <2>4 DEF BodyIn
  <2>6. BodyEnds(r, L, d, x, t, ivs)
    BY ONLY <1>1, <2>1, <2>3, <2>5, BodyIs
  <2>7. (d = 0 => r = x) /\ (d # 0 => r = x \o <<NL>>)
    BY <1>1, <2>6 DEF BodyEnds, L
  <2> QED BY <2>7 DEF r
<1>10. f[ivs] \in Seq(S)
  <2>1. <<NL>> \in Seq(S)
    BY <1>8
  <2> HIDE DEF S, x
  <2>2. x \in Seq(S)
    BY <1>7 DEF x
  <2>3. x \o <<NL>> \in Seq(S)
    BY <2>1, <2>2, ConcatProperties
  <2> QED BY <1>9, <2>2, <2>3
<1> QED BY <1>7, <1>9, <1>10 DEF q

(* The loops print the tensor row by row.                                  *)
LEMMA RunIs ==
    ASSUME NEW s \in Seq(Nat), \A d \in 1 .. Len(s) : s[d] > 0, NEW t, NEW f,
           Runs(f, s, t, NestBodies(Len(s)))
    PROVE  f[<< >>] = Rows(s, t) /\ Rows(s, t) \in Seq(Texts(s, t))
<1> DEFINE L == Len(s)
           Good(k) == k <= L => SegAt(f, s, t, L - k)
           P == {k \in Nat : Good(k)}
<1>1. L \in Nat
  OBVIOUS
<1>2. SegAt(f, s, t, L)
  BY SegLeaf
<1> HIDE DEF L
<1>3. 0 \in P
  <2>1. L - 0 = L
    BY <1>1
  <2> QED BY <1>2, <2>1
<1>4. ASSUME NEW k \in Nat, k \in P PROVE k + 1 \in P
  <2>1. ASSUME k + 1 <= L PROVE SegAt(f, s, t, L - (k + 1))
    <3> DEFINE d == L - (k + 1)
    <3>1. d \in 0 .. L - 1 /\ L - k = d + 1 /\ k <= L
      BY <1>1, <2>1
    <3> HIDE DEF d
    <3>2. SegAt(f, s, t, d + 1)
      BY <1>4, <3>1
    <3>3. SegAt(f, s, t, d)
      BY <3>1, <3>2, SegOut DEF L
    <3> QED BY <3>3 DEF d
  <2>2. k + 1 \in Nat
    OBVIOUS
  <2> QED BY <2>1, <2>2
<1>5. SegAt(f, s, t, 0)
  <2>1. Nat \subseteq P
    <3> HIDE DEF P
    <3> QED BY <1>3, <1>4, NatSetInduction
  <2>2. L <= L /\ L - L = 0
    BY <1>1
  <2>3. Good(L)
    BY <1>1, <2>1
  <2> QED BY <2>2, <2>3
<1>6. f[<< >>] = Seg(s, t, 0, 0) /\ f[<< >>] \in Seq(Texts(s, t))
  <2>1. PICK at : Horner(at, s, << >>, 0)
    BY HornerExists
  <2>2. at[0] = 0
    <3>1. 0 \in 0 .. 0
      OBVIOUS
    <3> QED BY <2>1, <3>1, Zenon DEF Horner
  <2>3. << >> \in LoopVars(s) /\ Len(<< >>) = 0
    BY PrefixFacts
  <2>4. f[<< >>] = Seg(s, t, 0, at[0]) /\ f[<< >>] \in Seq(Texts(s, t))
    BY <1>5, <2>1, <2>3, Zenon DEF SegAt
  <2> QED BY <2>2, <2>4
<1>7. Seg(s, t, 0, 0) = Rows(s, t)
  <2> DEFINE T == Stride(s, 0)
             e == Ending(s, 0)
             ls == Lines(s, t, e)
             w == Shifted(ls, 0 * T, T)
             r == [n \in 1 .. T |-> Line(s, t, L - 1, n)]
  <2>1. T \in Nat
    BY <1>1, StrideFacts DEF L
  <2>2. Seg(s, t, 0, 0) = Joint(w, T)
    BY DEF Seg
  <2>3. Rows(s, t) = FlattenSeq(r)
    BY DEF Rows, Size, Line, L
  <2>4. ASSUME NEW n \in 1 .. T PROVE w[n] = r[n]
    <3>1. n \in Nat /\ n >= 1 /\ 0 * T = 0 /\ 0 + n = n
      BY <2>1
    <3>2. w[n] = ls[0 * T + n]
      BY Zenon DEF Shifted
    <3>3. ls[n] = Line(s, t, e, n)
      BY <3>1 DEF Lines
    <3> HIDE DEF ls, T, w
    <3>4. w[n] = Line(s, t, e, n)
      BY <3>1, <3>2, <3>3
    <3>5. Line(s, t, e, n) = Line(s, t, L - 1, n)
      <4>1. CASE L > 0
        BY <4>1 DEF Ending, L
      <4>2. CASE L = 0
        <5>1. e = 0 /\ L - 1 = -1
          BY <4>2 DEF Ending, L
        <5>2. Line(s, t, 0, n) = Line(s, t, -1, n)
          BY ZenonT(60), <3>1, LineIn
        <5> QED BY <5>1, <5>2
      <4> QED BY <1>1, <4>1, <4>2
    <3>6. r[n] = Line(s, t, L - 1, n)
      BY Zenon
    <3> QED BY <3>4, <3>5, <3>6
  <2> HIDE DEF w, T
  <2>5. r = [n \in 1 .. T |-> r[n]]
    BY Zenon
  <2> HIDE DEF r
  <2>6. Joint(w, T) = Joint(r, T)
    BY ONLY <2>1, <2>4, JointSame
  <2>7. Joint(r, T) = FlattenSeq(r)
    BY <2>5 DEF Joint
  <2> QED BY <2>2, <2>3, <2>6, <2>7
<1> QED BY <1>6, <1>7

-----------------------------------------------------------------------------
(* What the source program means.                                          *)

(* Element idx of what v computes, when f gives the values before it.      *)
Term(f, v, idx) ==
    IF Kind(v) = "constant" THEN <<"const", v, Linear(ShapeOf(v), idx)>>
    ELSE IF Kind(v) = "transpose" THEN f[Operand(v, 1)][Reverse(idx)]
    ELSE IF Kind(v) \in {"add", "mul"}
    THEN <<Kind(v), f[Operand(v, 1)][idx], f[Operand(v, 2)][idx]>>
    ELSE Undef

Tensor(f, v) == [idx \in Indices(ShapeOf(v)) |-> Term(f, v, idx)]

Solves(f, n) == f = [v \in 1 .. n |-> Tensor(f, v)]

(* A tensor depends on its operands only.                                  *)
LEMMA TensorSame ==
    ASSUME prog \in Programs, NEW v \in 1 .. N, NEW f, NEW g,
           \A a \in Args(prog, v) : f[a] = g[a]
    PROVE  Tensor(f, v) = Tensor(g, v)
<1>1. /\ Kind(v) = "transpose" => Operand(v, 1) \in Args(prog, v)
      /\ Kind(v) \in {"add", "mul"} =>
             Operand(v, 1) \in Args(prog, v) /\ Operand(v, 2) \in Args(prog, v)
  BY ProgramFacts
<1>2. /\ Kind(v) = "transpose" => f[Operand(v, 1)] = g[Operand(v, 1)]
      /\ Kind(v) \in {"add", "mul"} =>
             f[Operand(v, 1)] = g[Operand(v, 1)] /\ f[Operand(v, 2)] = g[Operand(v, 2)]
  BY <1>1
<1>3. \A idx : Term(f, v, idx) = Term(g, v, idx)
  BY <1>2 DEF Term
<1> QED BY <1>3, Zenon DEF Tensor

(* The operations have meanings, each from those of its operands.          *)
LEMMA MeaningExists ==
    ASSUME prog \in Programs
    PROVE  \E f : Solves(f, N)
<1> DEFINE Good(n) == n <= N => \E f : Solves(f, n)
           P == {n \in Nat : Good(n)}
<1>0. N \in Nat /\ \A v \in 1 .. N : Args(prog, v) \subseteq 1 .. v - 1
  BY ProgramFacts
<1>1. 0 \in P
  <2>1. ASSUME NEW f PROVE [v \in 1 .. 0 |-> Tensor(f, v)] = << >>
    <3>1. 1 .. 0 = {}
      OBVIOUS
    <3> QED BY <3>1
  <2>2. Solves(<< >>, 0)
    BY <2>1 DEF Solves
  <2> QED BY <2>2
<1>2. ASSUME NEW n \in Nat, n \in P PROVE n + 1 \in P
  <2>1. ASSUME n + 1 <= N PROVE \E f : Solves(f, n + 1)
    <3>1. n <= N /\ n + 1 \in 1 .. N /\ 1 .. n \subseteq 1 .. N
      BY <1>0, <2>1
    <3>2. PICK f : Solves(f, n)
      BY <1>2, <3>1
    <3> DEFINE h == [v \in 1 .. n + 1 |-> Tensor(f, v)]
    <3>3. \A v \in 1 .. n : h[v] = f[v]
      <4>1. \A v \in 1 .. n : v \in 1 .. n + 1
        OBVIOUS
      <4>2. \A v \in 1 .. n : f[v] = Tensor(f, v)
        BY <3>2, Zenon DEF Solves
      <4> QED BY <4>1, <4>2, Zenon
    <3>4. \A v \in 1 .. n + 1 : h[v] = Tensor(f, v)
      BY Zenon
    <3> HIDE DEF h
    <3>5. ASSUME NEW v \in 1 .. n + 1 PROVE Tensor(f, v) = Tensor(h, v)
      <4>1. v \in 1 .. N /\ 1 .. v - 1 \subseteq 1 .. n
        BY <1>0, <2>1
      <4>2. \A a \in Args(prog, v) : f[a] = h[a]
        BY <1>0, <3>3, <4>1
      <4> QED BY <4>1, <4>2, TensorSame
    <3>6. h = [v \in 1 .. n + 1 |-> Tensor(f, v)]
      BY DEF h
    <3>7. h = [v \in 1 .. n + 1 |-> Tensor(h, v)]
      BY <3>5, <3>6, Zenon
    <3> QED BY <3>7 DEF Solves
  <2> QED BY <2>1
<1>3. Good(N)
  <2>1. Nat \subseteq P
    <3> HIDE DEF P
    <3> QED BY <1>1, <1>2, NatSetInduction
  <2> QED BY <1>0, <2>1
<1> QED BY <1>0, <1>3

(* Meaning is one of these.                                                *)
LEMMA MeaningIs ==
    ASSUME prog \in Programs
    PROVE  Solves(Meaning(prog), N)
<1>1. Defs(prog) = 1 .. N
  BY ProgramFacts
<1> DEFINE E(value) ==
        value = [v \in Defs(prog) |->
            [idx \in Indices(prog.types[v].shape) |->
                    IF prog.ops[v].kind = "constant"
                    THEN <<"const", v, Linear(prog.types[v].shape, idx)>>
                    ELSE IF prog.ops[v].kind = "transpose"
                    THEN value[prog.ops[v].args[1]][Reverse(idx)]
                    ELSE IF prog.ops[v].kind \in {"add", "mul"}
                    THEN <<prog.ops[v].kind, value[prog.ops[v].args[1]][idx],
                           value[prog.ops[v].args[2]][idx]>>
                    ELSE Undef]]
<1>2. \A f : E(f) <=> Solves(f, N)
  BY <1>1 DEF Solves, Tensor, Term, ShapeOf, Kind, Operand
<1>3. Meaning(prog) = CHOOSE f : E(f)
  BY DEF Meaning
<1> HIDE DEF E
<1>4. \E f : E(f)
  BY <1>2, MeaningExists
<1>5. E(Meaning(prog))
  BY <1>3, <1>4, Zenon
<1> QED BY <1>2, <1>5

(* Element by element.                                                     *)
LEMMA MeaningFacts ==
    ASSUME prog \in Programs, NEW v \in 1 .. N, NEW idx \in Indices(ShapeOf(v))
    PROVE  Meaning(prog)[v][idx] = Term(Meaning(prog), v, idx)
<1> DEFINE f == Meaning(prog)
<1>1. Solves(f, N)
  BY MeaningIs
<1> HIDE DEF f
<1>2. f[v] = Tensor(f, v)
  BY <1>1, Zenon DEF Solves
<1>3. Tensor(f, v)[idx] = Term(f, v, idx)
  BY Zenon DEF Tensor
<1> QED BY <1>2, <1>3 DEF f

-----------------------------------------------------------------------------
(* No dimension is empty.                                                  *)

(* A shape all of whose dimensions have an element.                        *)
Positive(s) == \A d \in 1 .. Len(s) : s[d] > 0

(* A transpose that verifies reverses the shape.                           *)
LEMMA TransposeShapes ==
    ASSUME LoweringInv, status = "llvm", NEW v \in remap, Kind(v) = "transpose"
    PROVE  /\ Operand(v, 1) \in remap /\ Operand(v, 1) \in 1 .. v - 1
           /\ Len(ShapeOf(Operand(v, 1))) = Len(ShapeOf(v))
           /\ \A i \in 1 .. Len(ShapeOf(v)) :
                  ShapeOf(Operand(v, 1))[i] = ShapeOf(v)[Len(ShapeOf(v)) + 1 - i]
<1> DEFINE a == Operand(v, 1)
<1>1. /\ prog \in Programs /\ RemapInv(remap, cur) /\ BlockInv(block, remap, cur)
      /\ Verified(block) /\ FinalInv(block, remap, cur)
  BY DEF LoweringInv
<1>2. v \in 1 .. N /\ v \in Defs(prog) /\ v < cur /\ N \in Nat
  BY <1>1, ProgramFacts DEF RemapInv, FinalInv
<1>3. a \in Args(prog, v) /\ Args(prog, v) \subseteq remap /\ Args(prog, v) \subseteq 1 .. v - 1
  BY <1>1, <1>2, ProgramFacts DEF RemapInv
<1>4. a \in remap /\ a \in 1 .. v - 1 /\ a \in 1 .. N
  BY <1>2, <1>3
<1>5. PICK n \in 1 .. Len(block) : block[n] = NestOf(v)
  BY <1>1 DEF BlockInv, Complete, Filled, Occurs
<1>6. Len(ShapeOf(a)) = Len(ShapeOf(v))
  <2> DEFINE e == NestOf(v)
  <2>1. e.loads = <<Load(a, "reverse")>> /\ e.i = "nest" /\ e.v = v
    BY OpFields DEF NestOf
  <2> HIDE DEF e
  <2>2. 1 \in DOMAIN e.loads /\ e.loads[1].v = a
    BY <2>1 DEF Load
  <2>3. \A k \in DOMAIN e.loads : LoadVerifies(e, e.loads[k])
    BY <1>1, <1>5, <2>1 DEF Verified, e
  <2> QED BY <2>1, <2>2, <2>3 DEF LoadVerifies
<1>7. /\ OpVerifies(prog.ops[v], prog.types[v], prog.types, prog.result)
      /\ prog.types[v] = NoResult \/ IsRanked(prog.types[v])
      /\ prog.types[a] # NoResult
      /\ prog.types[a] = NoResult \/ IsRanked(prog.types[a])
      /\ ShapeOf(a) \in Seq(Nat)
  <2>1. /\ OpVerifies(prog.ops[v], prog.types[v], prog.types, prog.result)
        /\ prog.types[v] = NoResult \/ IsRanked(prog.types[v])
        /\ \A x \in Args(prog, v) : prog.types[x] # NoResult
    BY SMTT(30), <1>1, <1>2, TypeFacts
  <2>2. (prog.types[a] = NoResult \/ IsRanked(prog.types[a])) /\ ShapeOf(a) \in Seq(Nat)
    BY SMTT(30), <1>1, <1>4, TypeFacts
  <2> QED BY <1>3, <2>1, <2>2
<1>8. IsTensor(prog.types[v]) /\ TransposeVerifies(prog.types[a], prog.types[v])
  BY <1>7 DEF OpVerifies, Kind, Operand
<1>9. IsRanked(prog.types[v]) /\ IsRanked(prog.types[a])
  BY <1>7, <1>8 DEF IsTensor, IsRanked, NoResult
<1>10. ASSUME NEW i \in 1 .. Len(ShapeOf(v))
       PROVE  ShapeOf(a)[i] = ShapeOf(v)[Len(ShapeOf(v)) + 1 - i]
  <2>1. i \in DOMAIN ShapeOf(a) /\ i <= Len(ShapeOf(v))
    BY <1>6, <1>7
  <2> QED BY <2>1, <1>8, <1>9 DEF TransposeVerifies, ShapeOf
<1> QED BY <1>4, <1>6, <1>10

(* Whatever gets a buffer has elements.                                    *)
LEMMA ShapesPositive ==
    ASSUME LoweringInv, status = "llvm", NEW v \in remap
    PROVE  ShapeOf(v) \in Seq(Nat) /\ Positive(ShapeOf(v))
<1> DEFINE P == {n \in Nat : \A w \in remap : w <= n => Positive(ShapeOf(w))}
<1>1. /\ prog \in Programs /\ RemapInv(remap, cur) /\ N \in Nat /\ Defs(prog) = 1 .. N
      /\ cur = N + 1
      /\ \A w \in remap : w \in 1 .. N /\ Kind(w) \in BufferKinds
  BY ProgramFacts DEF LoweringInv, FinalInv, RemapInv
<1>2. ASSUME NEW w \in remap PROVE ShapeOf(w) \in Seq(Nat)
  BY <1>1, TypeFacts
<1>3. 0 \in P
  BY <1>1
<1>4. ASSUME NEW n \in Nat, n \in P PROVE n + 1 \in P
  <2>1. \A w \in remap : w <= n => Positive(ShapeOf(w))
    BY <1>4
  <2>2. ASSUME NEW w \in remap, w <= n + 1 PROVE Positive(ShapeOf(w))
    <3>1. w \in 1 .. N /\ Args(prog, w) \subseteq remap /\ Args(prog, w) \subseteq 1 .. w - 1
      BY <1>1, ProgramFacts DEF RemapInv
    <3>2. \A a \in Args(prog, w) : Positive(ShapeOf(a))
      BY <2>1, <2>2, <3>1
    <3>3. CASE Kind(w) = "constant"
      <4>1. DOMAIN ShapeOf(w) = 1 .. Len(ShapeOf(w))
        BY <1>2
      <4>2. \A d \in DOMAIN ShapeOf(w) : ShapeOf(w)[d] > 0
        BY <1>1, <3>1, <3>3, LiteralsAreNotEmpty DEF Kind, ShapeOf
      <4> QED BY <4>1, <4>2 DEF Positive
    <3>4. CASE Kind(w) = "transpose"
      <4> DEFINE a == Operand(w, 1)
                 s == ShapeOf(w)
                 t == ShapeOf(a)
      <4>1. a \in Args(prog, w)
        BY <1>1, <3>1, <3>4, ProgramFacts
      <4>2. Len(t) = Len(s) /\ \A i \in 1 .. Len(s) : t[i] = s[Len(s) + 1 - i]
        BY <3>4, TransposeShapes
      <4>3. Positive(t) /\ Len(s) \in Nat
        BY <1>2, <3>2, <4>1
      <4> HIDE DEF s, t
      <4>4. ASSUME NEW d \in 1 .. Len(s) PROVE s[d] > 0
        <5> DEFINE i == Len(s) + 1 - d
        <5>1. i \in 1 .. Len(s) /\ Len(s) + 1 - i = d
          BY <4>3
        <5> HIDE DEF i
        <5>2. t[i] = s[d] /\ t[i] > 0
          BY <4>2, <4>3, <5>1 DEF Positive
        <5> QED BY <5>2
      <4> QED BY <4>4 DEF Positive, s
    <3>5. CASE Kind(w) \in {"add", "mul"}
      <4>1. Operand(w, 1) \in Args(prog, w)
        BY <1>1, <3>1, <3>5, ProgramFacts
      <4>2. ShapeOf(w) = ShapeOf(Operand(w, 1))
        BY <1>1, <3>1, <3>5, TypeFacts DEF ShapeOf
      <4> QED BY <3>2, <4>1, <4>2
    <3> QED BY <1>1, <3>3, <3>4, <3>5 DEF BufferKinds
  <2> QED BY <2>2
<1>5. Nat \subseteq P
  <2> HIDE DEF P
  <2> QED BY <1>3, <1>4, NatSetInduction
<1>6. v \in P /\ v <= v
  BY <1>1, <1>5
<1> QED BY <1>2, <1>6

-----------------------------------------------------------------------------
(* What the cells hold.                                                    *)

(* In memory m before the k-th operation, a cell that was written holds    *)
(* what the source says.                                                   *)
Values(k, m) ==
    \A a \in Allocated(k) : \A idx \in Indices(ShapeOf(a)) :
        Wrote(k, a, idx) => m[a][idx] = Meaning(prog)[a][idx]

ValueInv == status = "llvm" /\ Matched(prog) => Values(pc, memory)

(* What is read is what the source says.                                   *)
LEMMA ReadValues ==
    ASSUME LoweringInv, status = "llvm", RunInv(pc, memory, frame, freed),
           Values(pc, memory), NEW a, ReadsFrom(block[pc], a)
    PROVE  \A idx \in Indices(ShapeOf(a)) : memory[a][idx] = Meaning(prog)[a][idx]
<1>1. a \in Allocated(pc) /\ \A idx \in Indices(ShapeOf(a)) : Wrote(pc, a, idx)
  BY ReadCells
<1> QED BY <1>1 DEF Values

(* The number a constant stores is the position of its cell.               *)
LEMMA StoreValue ==
    ASSUME LoweringInv, status = "llvm", NEW k \in 1 .. Len(block), block[k].i = "store",
           block[k].at \in Indices(ShapeOf(block[k].v))
    PROVE  <<"const", block[k].v, block[k].val>> = Meaning(prog)[block[k].v][block[k].at]
<1> DEFINE e == block[k]
           v == e.v
           s == ShapeOf(v)
<1>1. prog \in Programs /\ v \in remap /\ v \in 1 .. N /\ Kind(v) \in BufferKinds /\ Fills(e, v)
  BY MainFacts
<1>2. Kind(v) = "constant"
  BY <1>1, FillFacts
<1>3. PICK n \in DOMAIN StoreOrder(s) : e = StoreOf(v, n)
  BY <1>1, <1>2 DEF Fills
<1>4. e.at = StoreOrder(s)[n] /\ e.val = n - 1
  BY <1>3 DEF StoreOf, Store
<1>5. s \in Seq(Nat) /\ \A d \in 1 .. Len(s) : s[d] > 0
  BY <1>1, ShapesPositive DEF Positive
<1> HIDE DEF e, v, s
<1>6. Linear(s, e.at) = n - 1
  BY <1>4, <1>5, StoreOrderIs
<1>7. Meaning(prog)[v][e.at] = Term(Meaning(prog), v, e.at)
  BY <1>1, MeaningFacts DEF s, v, e
<1>8. Term(Meaning(prog), v, e.at) = <<"const", v, Linear(s, e.at)>>
  BY <1>2 DEF Term, s
<1> QED BY <1>4, <1>6, <1>7, <1>8 DEF e, v

(* A nest computes the operation it was built for.                         *)
LEMMA NestValue ==
    ASSUME LoweringInv, status = "llvm", Matched(prog), RunInv(pc, memory, frame, freed),
           Values(pc, memory), block[pc].i = "nest",
           NEW ivs \in Indices(ShapeOf(block[pc].v))
    PROVE  BodyValue(block[pc], ivs) = Meaning(prog)[block[pc].v][ivs]
<1> DEFINE e == block[pc]
           v == e.v
           f == Meaning(prog)
<1>1. pc \in 1 .. Len(block)
  BY DEF RunInv
<1>2. ASSUME NEW j \in DOMAIN e.loads
      PROVE  Cell(e.loads[j], ivs) = f[e.loads[j].v][Ordered(e.loads[j].order, ivs)]
  <2> DEFINE l == e.loads[j]
             idx == Ordered(l.order, ivs)
  <2>1. ReadsFrom(e, l.v) /\ idx \in Indices(ShapeOf(l.v))
    BY <1>1, NestReads
  <2>2. InBounds(<<l.v, idx>>)
    BY <2>1 DEF InBounds
  <2>3. Cell(l, ivs) = memory[l.v][idx]
    BY <2>2 DEF Cell
  <2> HIDE DEF e, l, idx, f
  <2>4. memory[l.v][idx] = f[l.v][idx]
    BY <2>1, ReadValues DEF e, f
  <2> QED BY <2>3, <2>4 DEF l, idx
<1>3. e = NestOf(v) /\ Kind(v) \in {"transpose", "add", "mul"} /\ v \in 1 .. N /\ prog \in Programs
  <2>1. Fills(e, v) /\ Kind(v) \in BufferKinds /\ v \in 1 .. N /\ prog \in Programs
    BY <1>1, MainFacts
  <2> QED BY <2>1, OpFields DEF Fills, StoreOf, BufferKinds
<1>4. f[v][ivs] = Term(f, v, ivs)
  BY <1>3, MeaningFacts
<1> HIDE DEF e, v, f
<1>5. CASE Kind(v) = "transpose"
  <2>1. e.body = "copy" /\ e.loads = <<Load(Operand(v, 1), "reverse")>>
    BY <1>3, <1>5, OpFields DEF NestOf
  <2>2. 1 \in DOMAIN e.loads /\ e.loads[1].v = Operand(v, 1) /\ e.loads[1].order = "reverse"
    BY <2>1 DEF Load
  <2>3. Cell(e.loads[1], ivs) = f[Operand(v, 1)][Reverse(ivs)]
    BY <1>2, <2>2 DEF Ordered
  <2>4. Term(f, v, ivs) = f[Operand(v, 1)][Reverse(ivs)]
    BY <1>5 DEF Term
  <2>5. BodyValue(e, ivs) = Cell(e.loads[1], ivs)
    BY <2>1 DEF BodyValue
  <2> QED BY <1>4, <2>3, <2>4, <2>5 DEF e, v, f
<1>6. CASE Kind(v) \in {"add", "mul"}
  <2>1. /\ e.body = Kind(v)
        /\ e.loads = <<Load(Operand(v, 1), "same"), Load(Operand(v, 2), "same")>>
    BY <1>3, <1>6, OpFields DEF NestOf
  <2>2. /\ 1 \in DOMAIN e.loads /\ e.loads[1].v = Operand(v, 1) /\ e.loads[1].order = "same"
        /\ 2 \in DOMAIN e.loads /\ e.loads[2].v = Operand(v, 2) /\ e.loads[2].order = "same"
    BY <2>1 DEF Load
  <2>3. /\ Cell(e.loads[1], ivs) = f[Operand(v, 1)][ivs]
        /\ Cell(e.loads[2], ivs) = f[Operand(v, 2)][ivs]
    BY <1>2, <2>2 DEF Ordered
  <2>4. Term(f, v, ivs) = <<Kind(v), f[Operand(v, 1)][ivs], f[Operand(v, 2)][ivs]>>
    BY <1>6 DEF Term
  <2>5. BodyValue(e, ivs) = <<e.body, Cell(e.loads[1], ivs), Cell(e.loads[2], ivs)>>
    BY <1>6, <2>1 DEF BodyValue
  <2> QED BY <1>4, <2>1, <2>3, <2>4, <2>5 DEF e, v, f
<1> QED BY <1>3, <1>5, <1>6

(* After an alloca: its buffer has not been written yet.                   *)
LEMMA AllocaValues ==
    ASSUME LoweringInv, MachineInv, ExecAlloca, Values(pc, memory)
    PROVE  Values(pc + 1, memory')
<1> DEFINE v == block[pc].v
<1>1. /\ status = "llvm" /\ block[pc].i = "alloca" /\ pc' = pc + 1
      /\ memory' = [a \in DOMAIN memory \cup {v} |->
                       IF a = v THEN [idx \in Indices(ShapeOf(v)) |-> Undef]
                       ELSE memory[a]]
  BY DEF ExecAlloca, Current, Advance
<1>2. /\ RunInv(pc, memory, frame, freed) /\ pc + 1 \in 1 .. Len(block)
      /\ pc \in 1 .. Len(block) /\ Len(block) \in Nat
      /\ \A e : Ran(pc + 1, e) <=> Ran(pc, e) \/ block[pc] = e
      /\ \A a, idx : Wrote(pc + 1, a, idx) <=>
             \/ Wrote(pc, a, idx)
             \/ WritesTo(block[pc], a) /\ (block[pc].i = "store" => block[pc].at = idx)
  BY <1>1, OneMore
<1>3. block[pc] = Alloca(v) /\ v \in remap
  BY <1>1, <1>2, MainFacts, LoweredFacts
<1> HIDE DEF v
<1>4. Allocated(pc + 1) = Allocated(pc) \cup {v}
  <2>1. \A a : Alloca(a) = Alloca(v) => a = v
    BY OpFields
  <2> QED BY <2>1, <1>2, <1>3 DEF Allocated
<1>5. \A a \in DOMAIN memory : a # v => memory'[a] = memory[a]
  BY <1>1
<1>6. \A idx : ~ Wrote(pc + 1, v, idx)
  <2> SUFFICES ASSUME NEW n \in 1 .. (pc + 1) - 1, WritesTo(block[n], v) PROVE FALSE
    BY DEF Wrote
  <2>1. n \in 1 .. Len(block) /\ n <= pc
    BY <1>2
  <2>2. v \in Touches(block[n])
    BY TouchesFacts
  <2>3. pc < n
    BY <2>1, <2>2, <1>2, <1>3, EnclosedNow
  <2> QED BY <2>1, <2>3, <1>2
<1>7. \A a, idx : a # v => (Wrote(pc + 1, a, idx) <=> Wrote(pc, a, idx))
  BY <1>1, <1>2 DEF WritesTo
<1> QED BY <1>2, <1>4, <1>5, <1>6, <1>7 DEF Values, RunInv

(* After a store or a nest.                                                *)
LEMMA WriteValues ==
    ASSUME LoweringInv, MachineInv, ExecStore \/ ExecNest, Values(pc, memory), Matched(prog)
    PROVE  Values(pc + 1, memory')
<1> DEFINE e == block[pc]
           v == e.v
           x == <<"const", e.v, e.val>>
           f == Meaning(prog)
<1>1. /\ status = "llvm" /\ pc' = pc + 1
      /\ \/ /\ e.i = "store"
            /\ memory' = [memory EXCEPT ![v] = [@ EXCEPT ![e.at] = x]]
         \/ /\ e.i = "nest"
            /\ memory' = [memory EXCEPT ![v] = [ivs \in DOMAIN @ |-> BodyValue(e, ivs)]]
  BY DEF ExecStore, ExecNest, Current, Advance
<1>2. /\ RunInv(pc, memory, frame, freed) /\ pc + 1 \in 1 .. Len(block)
      /\ pc \in 1 .. Len(block) /\ Len(block) \in Nat
      /\ \A o : Ran(pc + 1, o) <=> Ran(pc, o) \/ e = o
      /\ \A a, idx : Wrote(pc + 1, a, idx) <=>
             \/ Wrote(pc, a, idx)
             \/ WritesTo(e, a) /\ (e.i = "store" => e.at = idx)
  BY <1>1, OneMore
<1>3. e.i = "store" /\ e.at \in Indices(ShapeOf(v)) => x = f[v][e.at]
  BY <1>1, <1>2, StoreValue
<1>4. e.i = "nest" => \A ivs \in Indices(ShapeOf(v)) : BodyValue(e, ivs) = f[v][ivs]
  BY <1>1, <1>2, NestValue
<1> HIDE DEF e, v, x, f
<1>5. Allocated(pc + 1) = Allocated(pc)
  <2>1. \A a : e # Alloca(a)
    BY <1>1, OpFields
  <2> QED BY <2>1, <1>2 DEF Allocated
<1>6. \A a \in DOMAIN memory : a # v => memory'[a] = memory[a]
  BY <1>1
<1>7. \A a, idx : a # v => (Wrote(pc + 1, a, idx) <=> Wrote(pc, a, idx))
  BY <1>1, <1>2 DEF WritesTo, v
<1>8. ASSUME NEW a \in Allocated(pc), NEW idx \in Indices(ShapeOf(a)), Wrote(pc + 1, a, idx)
      PROVE  memory'[a][idx] = f[a][idx]
  <2>1. /\ a \in DOMAIN memory /\ DOMAIN memory[a] = Indices(ShapeOf(a))
        /\ Wrote(pc, a, idx) => memory[a][idx] = f[a][idx]
    BY <1>2 DEF RunInv, Values, f
  <2>2. CASE a # v
    BY <1>6, <1>7, <1>8, <2>1, <2>2
  <2>3. CASE a = v /\ e.i = "nest"
    <3>1. memory'[v] = [ivs \in DOMAIN memory[v] |-> BodyValue(e, ivs)]
      BY <1>1, <2>1, <2>3
    <3> QED BY <1>4, <2>1, <2>3, <3>1
  <2>4. CASE a = v /\ e.i = "store"
    <3>1. memory'[v] = [memory[v] EXCEPT ![e.at] = x]
      BY <1>1, <2>1, <2>4
    <3>2. memory'[v][idx] = IF idx = e.at THEN x ELSE memory[v][idx]
      BY <2>1, <2>4, <3>1
    <3>3. Wrote(pc, v, idx) \/ e.at = idx
      BY <1>2, <1>8, <2>4
    <3> QED BY <1>3, <2>1, <2>4, <3>2, <3>3
  <2> QED BY <1>1, <2>2, <2>3, <2>4
<1> QED BY <1>5, <1>8 DEF Values, f

(* Printing and freeing change no cell.                                    *)
LEMMA OtherValues ==
    ASSUME LoweringInv, MachineInv, ExecPrint \/ ExecDealloc, Values(pc, memory)
    PROVE  Values(pc + 1, memory')
<1> DEFINE e == block[pc]
<1>1. /\ status = "llvm" /\ e.i \in {"printloops", "dealloc"} /\ memory' = memory
  BY DEF ExecPrint, ExecDealloc, Current
<1>2. /\ \A o : Ran(pc + 1, o) <=> Ran(pc, o) \/ e = o
      /\ \A a, idx : Wrote(pc + 1, a, idx) <=>
             \/ Wrote(pc, a, idx)
             \/ WritesTo(e, a) /\ (e.i = "store" => e.at = idx)
  BY <1>1, OneMore
<1> HIDE DEF e
<1>3. Allocated(pc + 1) = Allocated(pc)
  <2>1. \A a : e # Alloca(a)
    BY <1>1, OpFields
  <2> QED BY <2>1, <1>2 DEF Allocated
<1>4. \A a, idx : Wrote(pc + 1, a, idx) <=> Wrote(pc, a, idx)
  BY <1>1, <1>2 DEF WritesTo
<1> QED BY <1>1, <1>3, <1>4 DEF Values

(* The block stays what it is.                                             *)
LEMMA SameValues ==
    ASSUME prog' = prog, block' = block, remap' = remap, Values(pc', memory')
    PROVE  Values(pc, memory)'
<1>1. Allocated(pc)' = Allocated(pc')
  BY DEF Allocated, Ran
<1>2. ASSUME NEW a \in Allocated(pc'), NEW idx \in Indices(ShapeOf(a)')
      PROVE  (Wrote(pc, a, idx) => memory[a][idx] = Meaning(prog)[a][idx])'
  <2>1. Wrote(pc, a, idx)' <=> Wrote(pc', a, idx)
    BY DEF Wrote, WritesTo
  <2>2. ShapeOf(a)' = ShapeOf(a) /\ Meaning(prog)' = Meaning(prog)
    BY DEF ShapeOf, Meaning
  <2> QED BY <2>1, <2>2 DEF Values
<1>3. (\A a \in Allocated(pc) : \A idx \in Indices(ShapeOf(a)) :
          Wrote(pc, a, idx) => memory[a][idx] = Meaning(prog)[a][idx])'
  BY <1>1, <1>2, Zenon
<1> QED BY <1>3 DEF Values

(* The steps keep ValueInv.                                                *)
LEMMA ValuesKeep ==
    ASSUME LoweringInv, MachineInv, ValueInv, [Next]_vars
    PROVE  ValueInv'
<1>1. prog' = prog /\ (Matched(prog)' <=> Matched(prog))
  <2>1. prog' = prog
    BY DEF Next, AffineNext, LowerFunc, LowerConstant, LowerTranspose, LowerBinary,
           LowerPrint, LowerReturn, RollBack, Commit, LLVMNext, LowerPrintLoops, CommitLLVM,
           Exec, ExecAlloca, ExecStore, ExecNest, ExecPrint, ExecDealloc, ExecReturn,
           Advance, llvmVars, vars
  <2> QED BY <2>1 DEF Matched
<1>2. SUFFICES ASSUME status' = "llvm", Matched(prog) PROVE Values(pc, memory)'
  BY <1>1 DEF ValueInv
<1>3. CASE status # "llvm"
  <2>1. LLVMNext /\ UNCHANGED machine
    BY <1>2, <1>3 DEF Next, AffineNext, LowerFunc, LowerConstant, LowerTranspose, LowerBinary,
           LowerPrint, LowerReturn, RollBack, Legalizing, Commit, Exec, ExecAlloca, ExecStore,
           ExecNest, ExecPrint, ExecDealloc, ExecReturn, Current, vars
  <2>2. UNCHANGED <<prog, block, remap>> /\ status = "affine"
    BY <1>2, <2>1 DEF LLVMNext, LowerPrintLoops, CommitLLVM
  <2>3. pc' = 1
    BY <2>1, <2>2 DEF MachineInv, machine
  <2>4. Allocated(1) = {}
    BY DEF Allocated, Ran
  <2>5. Values(pc', memory')
    BY <2>3, <2>4 DEF Values
  <2> QED BY <2>2, <2>5, SameValues
<1>4. CASE status = "llvm"
  <2>1. Values(pc, memory)
    BY <1>2, <1>4 DEF ValueInv
  <2>2. CASE UNCHANGED vars
    BY <2>1, <2>2, SameValues DEF vars
  <2>3. CASE Exec
    <3>1. ~ ExecReturn
      BY <1>2 DEF ExecReturn
    <3>2. Values(pc + 1, memory')
      BY <1>2, <2>1, <2>3, <3>1, AllocaValues, WriteValues, OtherValues DEF Exec
    <3>3. UNCHANGED <<prog, block, remap>> /\ pc' = pc + 1
      BY <2>3, <3>1 DEF Exec, ExecAlloca, ExecStore, ExecNest, ExecPrint, ExecDealloc, Advance,
                        llvmVars
    <3> QED BY <3>2, <3>3, SameValues
  <2>4. ~ AffineNext /\ ~ LLVMNext
    BY <1>4 DEF AffineNext, LowerFunc, LowerConstant, LowerTranspose, LowerBinary,
           LowerPrint, LowerReturn, RollBack, Legalizing, Commit, LLVMNext, LowerPrintLoops,
           CommitLLVM
  <2> QED BY <2>2, <2>3, <2>4 DEF Next
<1> QED BY <1>3, <1>4

-----------------------------------------------------------------------------
(* The order of the prints.                                                *)

(* The prints of the source, and the elements of a block that print.       *)
PrintOps == {v \in 1 .. N : Kind(v) = "print"}

IsPrint(e) == e.i \in {"print", "printloops"}

(* Each print of the source is at one place in the block, in the order of  *)
(* the source, and nothing else in the block prints.                       *)
Echoes(b, c, pos) ==
    /\ pos \in [PrintOps -> 1 .. Len(b)]
    /\ \A v, w \in PrintOps : v < w => pos[v] < pos[w]
    /\ \A v \in PrintOps : IF v < c THEN Prints(b[pos[v]], v) ELSE b[pos[v]] = ToyOp(v)
    /\ \A n \in 1 .. Len(b) : IsPrint(b[n]) => \E v \in PrintOps : v < c /\ n = pos[v]

OrderInv == status # "failed" => \E pos : Echoes(block, cur, pos)

(* It is about the block and the position only.                            *)
LEMMA SameOrder ==
    ASSUME prog' = prog, NEW pos, Echoes(block', cur', pos)
    PROVE  OrderInv'
<1>1. PrintOps' = PrintOps /\ \A e, v : Prints(e, v)' <=> Prints(e, v)
  BY SMTT(40) DEF PrintOps, N, Kind, Prints, PrintLoops, ShapeOf, Operand
<1>2. Echoes(block, cur, pos)'
  BY <1>1 DEF Echoes, PrintOps, N, Kind, Prints, PrintLoops, ShapeOf, Operand
<1> QED BY <1>2 DEF OrderInv

(* The new operations of a value that gets a buffer, where they are put.   *)
LEMMA BufferBlock ==
    ASSUME LoweringInv, NEW v \in Defs(prog),
           LowerConstant(v) \/ LowerTranspose(v) \/ LowerBinary(v)
    PROVE  \E seq, p, at, al, de, g :
               /\ Placed(block, block', p, Alloca(v), Dealloc(v), seq, at, al, de, g)
               /\ \A j \in 1 .. Len(seq) : seq[j].i \in {"store", "nest"}
<1>1. /\ prog \in Programs /\ status = "convert" /\ cur = v
      /\ Kind(v) \in BufferKinds /\ v \in 1 .. N
      /\ BlockInv(block, remap, v) /\ ConvertInv(block, remap, v)
  BY ProgramFacts DEF LoweringInv, LowerConstant, LowerTranspose, LowerBinary, Legalizing,
                      BufferKinds
<1>2. PICK seq : /\ block' = Before(WithBuffer(block, v), v, seq)
                 /\ seq \in Seq(ToSet(seq)) /\ \A j \in 1 .. Len(seq) : Fills(seq[j], v)
  <2>1. CASE LowerConstant(v)
    <3>1. Kind(v) = "constant" /\ block' = Before(WithBuffer(block, v), v, Stores(v))
      BY <2>1 DEF LowerConstant
    <3> QED BY <1>1, <3>1, StoresFill
  <2>2. CASE LowerTranspose(v) \/ LowerBinary(v)
    <3>1. Kind(v) # "constant" /\ block' = Before(WithBuffer(block, v), v, <<NestOf(v)>>)
      BY <2>2 DEF LowerTranspose, LowerBinary, NestOf
    <3> QED BY <1>1, <3>1, NestFills
  <2> QED BY <2>1, <2>2
<1>3. v \in Defs(prog) /\ v # N
  BY <1>1, ProgramFacts DEF BufferKinds
<1>4. PICK p \in 1 .. Len(block) :
          block[p] = ToyOp(v) /\ \A n \in 1 .. Len(block) : block[n] = ToyOp(v) => n = p
  <2>1. N \in Nat
    BY <1>1, ProgramFacts
  <2>2. v >= v
    BY <1>1, <2>1
  <2> QED BY <1>1, <1>3, <2>2 DEF ConvertInv, TodoInv, Once
<1>5. p \in 1 .. Len(block) - 1
  <2>1. ToyOp(v) # ToyOp(N)
    BY <1>3, OpFields
  <2>2. p # Len(block)
    BY <1>1, <1>4, <2>1 DEF ConvertInv
  <2>3. Len(block) \in Nat
    BY <1>1 DEF BlockInv
  <2> QED BY <2>2, <2>3
<1> DEFINE S == ToSet(block) \cup ToSet(seq) \cup {Alloca(v), Dealloc(v)}
<1>6. block \in Seq(S) /\ seq \in Seq(S) /\ Alloca(v) \in S /\ Dealloc(v) \in S
  <2>1. block \in Seq(ToSet(block))
    BY <1>1 DEF BlockInv
  <2> QED BY <1>2, <2>1, SeqMonotonic
<1> HIDE DEF S
<1> DEFINE r == Before(WithBuffer(block, v), v, seq)
<1>7. \E at, al, de, g : Placed(block, r, p, Alloca(v), Dealloc(v), seq, at, al, de, g)
  BY <1>4, <1>5, <1>6, BufferPlaced
<1>8. \A j \in 1 .. Len(seq) : seq[j].i \in {"store", "nest"}
  BY <1>1, <1>2, FillFacts
<1> QED BY <1>2, <1>7, <1>8

(* A value that gets a buffer moves the prints together.                   *)
LEMMA BufferOrder ==
    ASSUME LoweringInv, NEW v \in Defs(prog),
           LowerConstant(v) \/ LowerTranspose(v) \/ LowerBinary(v), OrderInv
    PROVE  OrderInv'
<1>1. /\ prog \in Programs /\ status = "convert" /\ cur = v /\ v \in 1 .. N /\ N \in Nat
      /\ Kind(v) \in BufferKinds /\ prog' = prog /\ cur' = v + 1
  BY ProgramFacts DEF LoweringInv, LowerConstant, LowerTranspose, LowerBinary, Legalizing,
                      BufferKinds
<1>2. PICK pos : Echoes(block, v, pos)
  BY <1>1 DEF OrderInv
<1>3. PICK seq, p, at, al, de, g :
          /\ Placed(block, block', p, Alloca(v), Dealloc(v), seq, at, al, de, g)
          /\ \A j \in 1 .. Len(seq) : seq[j].i \in {"store", "nest"}
  BY BufferBlock
<1> DEFINE new == [w \in PrintOps |-> at[pos[w]]]
           b == block
           r == block'
<1>4. /\ pos \in [PrintOps -> 1 .. Len(b)]
      /\ \A x, w \in PrintOps : x < w => pos[x] < pos[w]
      /\ \A w \in PrintOps : IF w < v THEN Prints(b[pos[w]], w) ELSE b[pos[w]] = ToyOp(w)
      /\ \A n \in 1 .. Len(b) : IsPrint(b[n]) => \E w \in PrintOps : w < v /\ n = pos[w]
  BY <1>2 DEF Echoes
<1>5. /\ at \in [1 .. Len(b) -> 1 .. Len(r)]
      /\ \A n \in 1 .. Len(b) : r[at[n]] = b[n]
      /\ \A m, n \in 1 .. Len(b) : m < n <=> at[m] < at[n]
      /\ r[al] = Alloca(v) /\ r[de] = Dealloc(v)
      /\ \A j \in 1 .. Len(seq) : r[g[j]] = seq[j]
      /\ \A q \in 1 .. Len(r) :
           \/ q = al
           \/ q = de
           \/ \E n \in 1 .. Len(b) : q = at[n]
           \/ \E j \in 1 .. Len(seq) : q = g[j]
  BY <1>3 DEF Placed
<1> HIDE DEF b, r
<1>6. \A w \in PrintOps : pos[w] \in 1 .. Len(b) /\ new[w] = at[pos[w]]
  BY <1>4
<1>7. new \in [PrintOps -> 1 .. Len(r)]
  BY <1>5, <1>6
<1> HIDE DEF new
<1>8. \A x, w \in PrintOps : x < w => new[x] < new[w]
  BY <1>4, <1>5, <1>6
<1>9. \A w \in PrintOps : (w < v + 1 <=> w < v)
  BY <1>1 DEF PrintOps, BufferKinds
<1>10. \A w \in PrintOps : IF w < v + 1 THEN Prints(r[new[w]], w) ELSE r[new[w]] = ToyOp(w)
  <2>1. \A w \in PrintOps : r[new[w]] = b[pos[w]]
    BY <1>5, <1>6
  <2> QED BY <1>4, <1>9, <2>1
<1>11. ASSUME NEW q \in 1 .. Len(r), IsPrint(r[q])
       PROVE  \E w \in PrintOps : w < v + 1 /\ q = new[w]
  <2>1. q # al /\ q # de
    BY <1>5, <1>11, OpFields DEF IsPrint
  <2>2. \A j \in 1 .. Len(seq) : q # g[j]
    BY <1>3, <1>5, <1>11 DEF IsPrint
  <2>3. PICK n \in 1 .. Len(b) : q = at[n]
    BY <1>5, <2>1, <2>2
  <2>4. PICK w \in PrintOps : w < v /\ n = pos[w]
    BY <1>4, <1>5, <1>11, <2>3
  <2> QED BY <1>6, <1>9, <2>3, <2>4
<1>12. Echoes(block', cur', new)
  BY <1>1, <1>7, <1>8, <1>10, <1>11 DEF Echoes, r
<1> QED BY <1>1, <1>12, SameOrder

(* A print is lowered where it stands.                                     *)
LEMMA PrintOrder ==
    ASSUME LoweringInv, NEW v \in Defs(prog), LowerPrint(v), OrderInv
    PROVE  OrderInv'
<1>1. /\ prog \in Programs /\ status = "convert" /\ cur = v /\ v \in 1 .. N /\ N \in Nat
      /\ Kind(v) = "print" /\ prog' = prog /\ cur' = v + 1
      /\ ConvertInv(block, remap, v) /\ BlockInv(block, remap, v)
      /\ block' = [n \in DOMAIN block |->
                      IF block[n] = ToyOp(v) THEN PrintBuf(Operand(v, 1)) ELSE block[n]]
  BY ProgramFacts DEF LoweringInv, LowerPrint, Legalizing
<1>2. PICK pos : Echoes(block, v, pos)
  BY <1>1 DEF OrderInv
<1>3. /\ pos \in [PrintOps -> 1 .. Len(block)]
      /\ \A x, w \in PrintOps : x < w => pos[x] < pos[w]
      /\ \A w \in PrintOps :
             IF w < v THEN Prints(block[pos[w]], w) ELSE block[pos[w]] = ToyOp(w)
      /\ \A n \in 1 .. Len(block) :
             IsPrint(block[n]) => \E w \in PrintOps : w < v /\ n = pos[w]
  BY <1>2 DEF Echoes
<1>4. Len(block) \in Nat /\ DOMAIN block = 1 .. Len(block)
  BY <1>1 DEF BlockInv
<1>5. DOMAIN block' = 1 .. Len(block) /\ Len(block') = Len(block)
  <2>1. DOMAIN block' = 1 .. Len(block)
    BY <1>1, <1>4
  <2> QED BY <1>4, <2>1
<1>6. \A n \in 1 .. Len(block) :
          block'[n] = IF block[n] = ToyOp(v) THEN PrintBuf(Operand(v, 1)) ELSE block[n]
  BY <1>1, <1>4
<1>7. v \in PrintOps /\ block[pos[v]] = ToyOp(v)
      /\ \A n \in 1 .. Len(block) : block[n] = ToyOp(v) => n = pos[v]
  <2>1. v \in PrintOps /\ pos[v] \in 1 .. Len(block) /\ block[pos[v]] = ToyOp(v)
    BY <1>1, <1>3 DEF PrintOps
  <2>2. v >= v
    BY <1>1
  <2>3. Once(block, ToyOp(v))
    BY <1>1, <2>2 DEF ConvertInv, TodoInv
  <2> QED BY <2>1, <2>3 DEF Once
<1>8. \A w \in PrintOps : w \in Nat /\ pos[w] \in 1 .. Len(block)
  BY <1>1, <1>3, SMTT(40) DEF PrintOps
<1>9. ASSUME NEW w \in PrintOps
      PROVE  IF w < v + 1 THEN Prints(block'[pos[w]], w) ELSE block'[pos[w]] = ToyOp(w)
  <2>1. CASE w = v
    <3>1. block'[pos[w]] = PrintBuf(Operand(v, 1))
      BY <1>6, <1>7, <1>8, <2>1
    <3>2. v < v + 1
      BY <1>1
    <3> QED BY <2>1, <3>1, <3>2 DEF Prints
  <2>2. CASE w # v
    <3>1. ToyOp(w) # ToyOp(v) /\ \A e : Prints(e, w) => e # ToyOp(v)
      BY <2>2, OpFields DEF Prints
    <3>2. block[pos[w]] # ToyOp(v)
      BY <1>3, <3>1
    <3>3. block'[pos[w]] = block[pos[w]]
      BY <1>6, <1>8, <3>2
    <3>4. w < v + 1 <=> w < v
      BY <1>1, <1>8, <2>2
    <3> QED BY <1>3, <3>3, <3>4
  <2> QED BY <2>1, <2>2
<1>10. ASSUME NEW n \in 1 .. Len(block), IsPrint(block'[n])
       PROVE  \E w \in PrintOps : w < v + 1 /\ n = pos[w]
  <2>1. CASE block[n] = ToyOp(v)
    <3>1. v < v + 1
      BY <1>1
    <3> QED BY <1>7, <2>1, <3>1
  <2>2. CASE block[n] # ToyOp(v)
    <3>1. PICK w \in PrintOps : w < v /\ n = pos[w]
      BY <1>3, <1>6, <1>10, <2>2
    <3>2. w < v + 1
      BY <1>1, <1>8, <3>1
    <3> QED BY <3>1, <3>2
  <2> QED BY <2>1, <2>2
<1>11. Echoes(block', cur', pos)
  BY <1>1, <1>3, <1>5, <1>9, <1>10 DEF Echoes
<1> QED BY <1>1, <1>11, SameOrder

(* The return goes behind them.                                            *)
LEMMA ReturnOrder ==
    ASSUME LoweringInv, NEW v \in Defs(prog), LowerReturn(v), OrderInv
    PROVE  OrderInv'
<1> DEFINE L == Len(block)
<1>1. /\ prog \in Programs /\ status = "convert" /\ cur = v /\ v = N /\ N \in Nat /\ N >= 1
      /\ Kind(N) = "return" /\ prog' = prog /\ cur' = N + 1
      /\ ConvertInv(block, remap, N) /\ BlockInv(block, remap, N)
      /\ block' = Before(block, N, <<FuncReturn>>)
  BY ProgramFacts DEF LoweringInv, LowerReturn, Legalizing
<1>2. PICK pos : Echoes(block, N, pos)
  BY <1>1 DEF OrderInv
<1>3. /\ pos \in [PrintOps -> 1 .. L]
      /\ \A x, w \in PrintOps : x < w => pos[x] < pos[w]
      /\ \A w \in PrintOps :
             IF w < N THEN Prints(block[pos[w]], w) ELSE block[pos[w]] = ToyOp(w)
      /\ \A n \in 1 .. L :
             IsPrint(block[n]) => \E w \in PrintOps : w < N /\ n = pos[w]
  BY <1>2 DEF Echoes
<1>4. L \in Nat /\ L >= 1 /\ \A n \in 1 .. L : block[n] = ToyOp(N) <=> n = L
  BY <1>1 DEF BlockInv, ConvertInv
<1>5. /\ Len(block') = L + 1 /\ block'[L] = FuncReturn
      /\ block'[L + 1] = block[L] /\ \A n \in 1 .. L - 1 : block'[n] = block[n]
  <2> DEFINE S == ToSet(block) \cup {FuncReturn}
             r == Before(block, N, <<FuncReturn>>)
  <2>1. block \in Seq(S) /\ FuncReturn \in S
    BY <1>1, SeqMonotonic DEF BlockInv
  <2> HIDE DEF S
  <2>2. L \in 1 .. Len(block) /\ block[L] = ToyOp(N)
        /\ \A n \in 1 .. Len(block) : block[n] = ToyOp(N) => n = L
    BY <1>4
  <2> HIDE DEF L
  <2>3. /\ Len(r) = Len(block) + 1 /\ r[L] = FuncReturn /\ r[L + 1] = block[L]
        /\ \A n \in 1 .. L - 1 : r[n] = block[n]
    BY ONLY SMTT(40), <2>1, <2>2, BeforeOne
  <2> HIDE DEF r
  <2> QED BY <2>3, <1>1 DEF r, L
<1> HIDE DEF L
<1>6. ASSUME NEW w \in PrintOps
      PROVE  w < N /\ w < N + 1 /\ pos[w] \in 1 .. L /\ pos[w] \in 1 .. L - 1
  <2>1. w \in 1 .. N /\ w # N
    BY <1>1 DEF PrintOps
  <2>2. w < N /\ w < N + 1
    BY <1>1, <2>1
  <2>3. pos[w] \in 1 .. L /\ Prints(block[pos[w]], w)
    BY <1>3, <2>2
  <2>4. block[pos[w]] # ToyOp(N)
    BY <2>3, OpFields DEF Prints
  <2>5. pos[w] # L
    BY <1>4, <2>3, <2>4
  <2> QED BY <1>4, <2>2, <2>3, <2>5
<1>7. \A w \in PrintOps : Prints(block'[pos[w]], w)
  BY <1>3, <1>5, <1>6
<1>8. ASSUME NEW n \in 1 .. L + 1, IsPrint(block'[n])
      PROVE  \E w \in PrintOps : w < N + 1 /\ n = pos[w]
  <2>1. n # L /\ n # L + 1
    BY <1>4, <1>5, <1>8, OpFields DEF IsPrint
  <2>2. n \in 1 .. L - 1 /\ n \in 1 .. L
    BY <1>4, <2>1
  <2> QED BY <1>3, <1>5, <1>6, <1>8, <2>2
<1>9. pos \in [PrintOps -> 1 .. L + 1]
  <2>1. \A n \in 1 .. L : n \in 1 .. L + 1
    BY <1>4
  <2> QED BY <1>3, <2>1
<1>10. Echoes(block', cur', pos)
  BY <1>1, <1>3, <1>5, <1>6, <1>7, <1>8, <1>9 DEF Echoes
<1> QED BY <1>1, <1>10, SameOrder

(* Erasing the operations of the source keeps the order of the others.     *)
LEMMA CommitOrder ==
    ASSUME LoweringInv, Commit, OrderInv
    PROVE  OrderInv'
<1>1. /\ prog \in Programs /\ status = "convert" /\ N \in Nat
      /\ prog' = prog /\ cur' = cur /\ RemapInv(remap, cur)
      /\ BlockInv(block, remap, cur) /\ block' = Erased(block) /\ cur \notin 1 .. N
  BY ProgramFacts DEF LoweringInv, Commit
<1>2. cur = N + 1
  BY <1>1 DEF RemapInv
<1>3. PICK pos : Echoes(block, cur, pos)
  BY <1>1 DEF OrderInv
<1>4. PICK from : Kept(block, block', from)
  <2>1. block \in Seq(ToSet(block))
    BY <1>1 DEF BlockInv
  <2> QED BY <1>1, <2>1, ErasedKeeps
<1> DEFINE b == block
           r == block'
           new == [w \in PrintOps |-> CHOOSE n \in 1 .. Len(r) : pos[w] = from[n]]
<1>5. /\ from \in [1 .. Len(r) -> 1 .. Len(b)] /\ Len(r) \in Nat /\ Len(b) \in Nat
      /\ \A n \in 1 .. Len(r) : r[n] = b[from[n]]
      /\ \A m, n \in 1 .. Len(r) : m < n <=> from[m] < from[n]
      /\ \A m \in 1 .. Len(b) : b[m].i # "toy" => \E n \in 1 .. Len(r) : m = from[n]
  BY <1>4 DEF Kept
<1>6. /\ pos \in [PrintOps -> 1 .. Len(b)]
      /\ \A x, w \in PrintOps : x < w => pos[x] < pos[w]
      /\ \A w \in PrintOps : IF w < cur THEN Prints(b[pos[w]], w) ELSE b[pos[w]] = ToyOp(w)
      /\ \A n \in 1 .. Len(b) : IsPrint(b[n]) => \E w \in PrintOps : w < cur /\ n = pos[w]
  BY <1>3 DEF Echoes
<1> HIDE DEF b, r
<1>7. \A w \in PrintOps : w < cur /\ pos[w] \in 1 .. Len(b) /\ Prints(b[pos[w]], w)
  BY <1>1, <1>2, <1>6 DEF PrintOps
<1>8. ASSUME NEW w \in PrintOps PROVE new[w] \in 1 .. Len(r) /\ pos[w] = from[new[w]]
  <2>1. b[pos[w]].i # "toy"
    BY <1>7, OpFields DEF Prints
  <2>2. \E n \in 1 .. Len(r) : pos[w] = from[n]
    BY <1>5, <1>7, <2>1
  <2>3. new[w] = CHOOSE n \in 1 .. Len(r) : pos[w] = from[n]
    OBVIOUS
  <2> HIDE DEF new
  <2> QED BY <2>2, <2>3
<1>9. new \in [PrintOps -> 1 .. Len(r)]
  <2>1. new = [w \in PrintOps |-> new[w]]
    OBVIOUS
  <2> HIDE DEF new
  <2> QED BY <1>8, <2>1
<1> HIDE DEF new
<1>10. \A x, w \in PrintOps : x < w => new[x] < new[w]
  BY <1>5, <1>6, <1>8
<1>11. \A w \in PrintOps : Prints(r[new[w]], w)
  BY <1>5, <1>7, <1>8
<1>12. ASSUME NEW n \in 1 .. Len(r), IsPrint(r[n])
       PROVE  \E w \in PrintOps : w < cur /\ n = new[w]
  <2>1. from[n] \in 1 .. Len(b) /\ IsPrint(b[from[n]])
    BY <1>5, <1>12
  <2>2. PICK w \in PrintOps : w < cur /\ from[n] = pos[w]
    BY <1>6, <2>1
  <2>3. from[n] = from[new[w]] /\ new[w] \in 1 .. Len(r)
    BY <1>8, <2>2
  <2>4. ~ (n < new[w]) /\ ~ (new[w] < n)
    <3>1. from[n] \in Nat /\ ~ (from[n] < from[n])
      BY <2>1
    <3> QED BY <1>5, <2>3, <3>1
  <2>5. n = new[w]
    BY <1>5, <2>3, <2>4
  <2> QED BY <2>2, <2>5
<1>13. Echoes(block', cur', new)
  BY <1>1, <1>7, <1>9, <1>10, <1>11, <1>12 DEF Echoes, r
<1> QED BY <1>1, <1>13, SameOrder

(* The loops stand where the print stood.                                  *)
LEMMA LoopsOrder ==
    ASSUME LoweringInv, NEW p \in DOMAIN block, LowerPrintLoops(p), OrderInv
    PROVE  OrderInv'
<1>1. /\ prog \in Programs /\ status = "affine" /\ prog' = prog /\ cur' = cur
      /\ BlockInv(block, remap, cur) /\ block[p].i = "print"
      /\ block' = [block EXCEPT ![p] = PrintLoops(block[p].v)]
  BY DEF LoweringInv, LowerPrintLoops
<1>2. PICK pos : Echoes(block, cur, pos)
  BY <1>1 DEF OrderInv
<1>3. /\ pos \in [PrintOps -> 1 .. Len(block)]
      /\ \A x, w \in PrintOps : x < w => pos[x] < pos[w]
      /\ \A w \in PrintOps :
             IF w < cur THEN Prints(block[pos[w]], w) ELSE block[pos[w]] = ToyOp(w)
      /\ \A n \in 1 .. Len(block) :
             IsPrint(block[n]) => \E w \in PrintOps : w < cur /\ n = pos[w]
  BY <1>2 DEF Echoes
<1>4. Len(block) \in Nat /\ DOMAIN block = 1 .. Len(block) /\ p \in 1 .. Len(block)
  BY <1>1 DEF BlockInv
<1>5. /\ Len(block') = Len(block) /\ block'[p] = PrintLoops(block[p].v)
      /\ \A n \in 1 .. Len(block) : n # p => block'[n] = block[n]
  <2>1. DOMAIN block' = 1 .. Len(block)
    BY <1>1, <1>4
  <2>2. Len(block') = Len(block)
    BY <1>4, <2>1
  <2> QED BY <1>1, <1>4, <2>2
<1>6. ASSUME NEW w \in PrintOps
      PROVE  IF w < cur THEN Prints(block'[pos[w]], w) ELSE block'[pos[w]] = ToyOp(w)
  <2>1. CASE pos[w] # p
    BY <1>3, <1>5, <2>1
  <2>2. CASE pos[w] = p
    <3>1. block[pos[w]] # ToyOp(w)
      BY <1>1, <2>2, OpFields
    <3>2. w < cur /\ Prints(block[p], w)
      BY <1>3, <2>2, <3>1
    <3>3. block[p].v = Operand(w, 1)
      BY <3>2, OpFields DEF Prints
    <3> QED BY <1>5, <2>2, <3>2, <3>3 DEF Prints
  <2> QED BY <2>1, <2>2
<1>7. \A n \in 1 .. Len(block) : IsPrint(block'[n]) => IsPrint(block[n])
  BY <1>1, <1>5 DEF IsPrint
<1>8. Echoes(block', cur', pos)
  BY <1>1, <1>3, <1>5, <1>6, <1>7 DEF Echoes
<1> QED BY <1>1, <1>8, SameOrder

(* The steps keep the order.                                               *)
LEMMA OrderKeeps ==
    ASSUME LoweringInv, OrderInv, [Next]_vars
    PROVE  OrderInv'
<1>1. ASSUME UNCHANGED <<prog, block, cur>>, status # "failed" PROVE OrderInv'
  <2>1. PICK pos : Echoes(block, cur, pos)
    BY <1>1 DEF OrderInv
  <2>2. Echoes(block', cur', pos)
    BY <1>1, <2>1
  <2> QED BY <1>1, <2>2, SameOrder
<1>2. CASE AffineNext
  <2>1. CASE LowerFunc
    BY <1>1, <2>1 DEF LowerFunc
  <2>2. ASSUME NEW v \in Defs(prog), RollBack(v) PROVE OrderInv'
    BY <2>2 DEF RollBack, OrderInv
  <2> QED BY <1>2, <2>1, <2>2, BufferOrder, PrintOrder, ReturnOrder, CommitOrder DEF AffineNext
<1>3. CASE LLVMNext
  <2>1. CASE CommitLLVM
    BY <1>1, <2>1 DEF CommitLLVM
  <2> QED BY <1>3, <2>1, LoopsOrder DEF LLVMNext
<1>4. CASE Exec
  <2>1. UNCHANGED <<prog, block, cur>> /\ status # "failed"
    BY <1>4 DEF Exec, ExecAlloca, ExecStore, ExecNest, ExecPrint, ExecDealloc, ExecReturn,
                Current, Advance, llvmVars
  <2> QED BY <1>1, <2>1
<1>5. CASE UNCHANGED vars
  <2>1. UNCHANGED <<prog, block, cur, status>>
    BY <1>5 DEF vars
  <2>2. CASE status = "failed"
    BY <2>1, <2>2 DEF OrderInv
  <2> QED BY <1>1, <2>1, <2>2
<1> QED BY <1>2, <1>3, <1>4, <1>5 DEF Next

(* It holds when the pass starts.                                          *)
LEMMA OrderStarts == Init => OrderInv
<1> SUFFICES ASSUME Init PROVE OrderInv
  OBVIOUS
<1>1. prog \in Programs /\ block = [v \in 1 .. N |-> ToyOp(v)] /\ cur = 1 /\ N \in Nat
  BY ProgramFacts DEF Init
<1>2. Len(block) = N /\ \A v \in 1 .. N : block[v] = ToyOp(v)
  BY <1>1
<1> DEFINE pos == [v \in PrintOps |-> v]
<1>3. \A v \in PrintOps : v \in 1 .. N /\ pos[v] = v /\ ~ (v < 1)
  BY <1>1 DEF PrintOps
<1>4. pos \in [PrintOps -> 1 .. N]
  BY <1>3
<1> HIDE DEF pos
<1>5. \A n \in 1 .. Len(block) : ~ IsPrint(block[n])
  BY <1>2, OpFields DEF IsPrint
<1>6. Echoes(block, cur, pos)
  BY <1>1, <1>2, <1>3, <1>4, <1>5 DEF Echoes
<1> QED BY <1>6 DEF OrderInv

-----------------------------------------------------------------------------
(* The output.                                                             *)

(* Nothing is said between u and m.                                        *)
Quiet(ss, u, m) == \A i \in 1 .. m : i > u => ss[i] = << >>

(* Then the first m say what the first u say.                              *)
LEMMA JointQuiet ==
    ASSUME NEW S, NEW ss, NEW u \in Nat, NEW m \in Nat, u <= m, Parts(ss, m, S),
           Quiet(ss, u, m)
    PROVE  Joint(ss, m) = Joint(ss, u)
<1> DEFINE Good(k) == u <= k /\ k <= m => Joint(ss, k) = Joint(ss, u)
           P == {k \in Nat : Good(k)}
<1>1. 0 \in P
  <2>1. u <= 0 => u = 0
    OBVIOUS
  <2> QED BY <2>1
<1>2. ASSUME NEW k \in Nat, k \in P PROVE k + 1 \in P
  <2>1. ASSUME u <= k + 1, k + 1 <= m PROVE Joint(ss, k + 1) = Joint(ss, u)
    <3>1. CASE u = k + 1
      BY <3>1
    <3>2. CASE u # k + 1
      <4>1. u <= k /\ k <= m /\ k + 1 \in 1 .. m /\ k + 1 > u
        BY <2>1, <3>2
      <4>2. Joint(ss, k) = Joint(ss, u)
        BY <1>2, <4>1
      <4>3. ss[k + 1] = << >>
        BY <4>1 DEF Quiet
      <4>4. Parts(ss, k + 1, S)
        <5>1. \A i \in 1 .. k + 1 : i \in 1 .. m
          BY <4>1
        <5> QED BY <5>1 DEF Parts
      <4>5. Joint(ss, k) \in Seq(S) /\ Joint(ss, k + 1) = Joint(ss, k) \o ss[k + 1]
        BY <4>4, JointStep
      <4>6. Joint(ss, k) \o << >> = Joint(ss, k)
        BY <4>5, ConcatEmptySeq
      <4> QED BY <4>2, <4>3, <4>5, <4>6
    <3> QED BY <3>1, <3>2
  <2>2. k + 1 \in Nat
    OBVIOUS
  <2> QED BY <2>1, <2>2
<1>3. Nat \subseteq P
  <2> HIDE DEF P
  <2> QED BY <1>1, <1>2, NatSetInduction
<1>4. Good(m)
  BY <1>3
<1>5. u <= m /\ m <= m
  OBVIOUS
<1> QED BY <1>4, <1>5

(* Equal elements, equal rows.                                             *)
LEMMA RowsSame ==
    ASSUME NEW s \in Seq(Nat), Positive(s), NEW x, NEW y,
           \A idx \in Indices(s) : x[idx] = y[idx]
    PROVE  Rows(s, x) = Rows(s, y)
<1> DEFINE Row(t, n) == <<t[IndexAt(s, n - 1)]>> \o Breaks(s, n, Len(s) - 1)
<1>1. Size(s) \in Nat
  <2>1. 0 \in 0 .. Len(s)
    OBVIOUS
  <2> QED BY <2>1, StrideFacts DEF Size
<1>2. ASSUME NEW n \in 1 .. Size(s) PROVE x[IndexAt(s, n - 1)] = y[IndexAt(s, n - 1)]
  <2>1. n - 1 \in Nat
    BY <1>1
  <2>2. IndexAt(s, n - 1) \in Indices(s)
    BY <2>1, IndexAtIn DEF Positive
  <2> QED BY <2>2
<1>3. \A n \in 1 .. Size(s) : Row(x, n) = Row(y, n)
  BY <1>2
<1>4. Rows(s, x) = FlattenSeq([n \in 1 .. Size(s) |-> Row(x, n)])
      /\ Rows(s, y) = FlattenSeq([n \in 1 .. Size(s) |-> Row(y, n)])
  BY DEF Rows
<1> HIDE DEF Row
<1>5. [n \in 1 .. Size(s) |-> Row(x, n)] = [n \in 1 .. Size(s) |-> Row(y, n)]
  BY <1>3, Zenon
<1> QED BY <1>4, <1>5

(* The loops of a print print the tensor the source means.                 *)
LEMMA PrintText ==
    ASSUME LoweringInv, status = "llvm", RunInv(pc, memory, frame, freed),
           Values(pc, memory), NEW a, block[pc] = PrintLoops(a)
    PROVE  Printed(block[pc]) = Rows(ShapeOf(a), Meaning(prog)[a])
<1> DEFINE s == ShapeOf(a)
           t == memory[a]
           u == Meaning(prog)[a]
           e == block[pc]
<1>1. e.v = a /\ e.bodies = NestBodies(Len(s)) /\ e.i = "printloops"
  BY DEF PrintLoops
<1>2. ReadsFrom(e, a) /\ a \in remap
  <2>1. ReadsFrom(e, a)
    BY <1>1 DEF ReadsFrom
  <2> QED BY <2>1, ReadCells DEF Allocated
<1>3. s \in Seq(Nat) /\ Positive(s)
  BY <1>2, ShapesPositive
<1>4. \A idx \in Indices(s) : t[idx] = u[idx]
  BY <1>2, ReadValues
<1>5. Printed(e) = (CHOOSE f : Runs(f, s, t, NestBodies(Len(s))))[<< >>]
  BY <1>1, PrintedIs
<1> HIDE DEF s, t, u, e
<1>6. \E f : Runs(f, s, t, NestBodies(Len(s)))
  BY <1>3, RunsExist
<1> DEFINE f == CHOOSE f : Runs(f, s, t, NestBodies(Len(s)))
<1>7. Runs(f, s, t, NestBodies(Len(s)))
  BY <1>6, Zenon
<1> HIDE DEF f
<1>8. f[<< >>] = Rows(s, t)
  BY <1>3, <1>7, RunIs DEF Positive
<1>9. Rows(s, t) = Rows(s, u)
  BY <1>3, <1>4, RowsSame
<1>10. Printed(e) = Rows(s, u)
  BY <1>5, <1>8, <1>9 DEF f
<1> QED BY <1>10 DEF e, s, u

(* What the operations of the source print.                                *)
Said(v) ==
    IF Kind(v) = "print" THEN Rows(ShapeOf(Operand(v, 1)), Meaning(prog)[Operand(v, 1)])
    ELSE << >>

Sayings == [v \in 1 .. N |-> Said(v)]

(* Expected, as the first N of them.                                       *)
LEMMA ExpectedIs ==
    ASSUME prog \in Programs
    PROVE  Expected(prog) = Joint(Sayings, N)
<1>1. Defs(prog) = 1 .. N
  BY ProgramFacts
<1>2. Expected(prog) = FlattenSeq([v \in 1 .. N |-> Said(v)])
  BY <1>1 DEF Expected, Said, Kind, Operand, ShapeOf
<1>3. [v \in 1 .. N |-> Said(v)] = [v \in 1 .. N |-> Sayings[v]]
  BY Zenon DEF Sayings
<1> QED BY <1>2, <1>3 DEF Joint

(* They are sequences of elements and line ends.                           *)
LEMMA SayingsIn ==
    ASSUME LoweringInv, status = "llvm"
    PROVE  \E S : Parts(Sayings, N, S)
<1> DEFINE a(v) == Operand(v, 1)
           T(v) == Texts(ShapeOf(a(v)), Meaning(prog)[a(v)])
           S == UNION {T(v) : v \in PrintOps}
<1>1. /\ prog \in Programs /\ RemapInv(remap, cur) /\ N \in Nat /\ Defs(prog) = 1 .. N
      /\ cur = N + 1
  BY ProgramFacts DEF LoweringInv, FinalInv
<1>2. ASSUME NEW v \in 1 .. N PROVE Sayings[v] \in Seq(S)
  <2>1. Sayings[v] = Said(v)
    BY DEF Sayings
  <2>2. CASE Kind(v) = "print"
    <3>1. a(v) \in remap
      BY <1>1, <2>2, ProgramFacts DEF RemapInv
    <3>2. ShapeOf(a(v)) \in Seq(Nat) /\ Positive(ShapeOf(a(v)))
      BY <3>1, ShapesPositive
    <3> DEFINE s == ShapeOf(a(v))
               t == Meaning(prog)[a(v)]
    <3>3. Said(v) = Rows(s, t)
      BY <2>2 DEF Said
    <3>4. v \in PrintOps
      BY <2>2 DEF PrintOps
    <3>5. Texts(s, t) \subseteq S
      BY <3>4
    <3> HIDE DEF s, t, S
    <3>6. s \in Seq(Nat) /\ \A d \in 1 .. Len(s) : s[d] > 0
      BY <3>2 DEF Positive, s
    <3>7. PICK f : Runs(f, s, t, NestBodies(Len(s)))
      BY <3>6, RunsExist
    <3>8. Rows(s, t) \in Seq(Texts(s, t))
      BY <3>6, <3>7, RunIs
    <3>9. Rows(s, t) \in Seq(S)
      BY <3>5, <3>8, SeqMonotonic
    <3> QED BY <2>1, <3>3, <3>9
  <2>3. CASE Kind(v) # "print"
    <3>1. Said(v) = << >>
      BY <2>3 DEF Said
    <3> QED BY <2>1, <3>1
  <2> QED BY <2>2, <2>3
<1> HIDE DEF S
<1>3. Parts(Sayings, N, S)
  BY <1>2 DEF Parts
<1> QED BY <1>3

(* After k - 1 operations, the output is that of the prints among them,    *)
(* the first u operations of the source.                                   *)
SaidBy(u, pos, k, o) ==
    /\ u \in 0 .. N
    /\ Echoes(block, cur, pos)
    /\ o = Joint(Sayings, u)
    /\ \A v \in PrintOps : v <= u <=> pos[v] < k

OutInv ==
    /\ status \notin {"llvm", "done"} => out = << >>
    /\ status = "llvm" /\ Matched(prog) => \E u, pos : SaidBy(u, pos, pc, out)
    /\ status = "done" => OutputCorrect

(* The block stays what it is.                                             *)
LEMMA SameSaid ==
    ASSUME prog' = prog, block' = block, cur' = cur, NEW u, NEW pos,
           SaidBy(u, pos, pc', out')
    PROVE  SaidBy(u, pos, pc, out)'
<1>1. Sayings' = Sayings /\ N' = N /\ PrintOps' = PrintOps
  BY DEF Sayings, Said, N, Kind, Operand, ShapeOf, PrintOps
<1>2. \A e, v : Prints(e, v)' <=> Prints(e, v)
  BY SMTT(40) DEF Prints, PrintLoops, ShapeOf, Operand
<1>3. Echoes(block, cur, pos)'
  BY <1>1, <1>2 DEF SaidBy, Echoes, Prints, PrintLoops, ShapeOf, Operand
<1> QED BY <1>1, <1>3 DEF SaidBy

(* Where the prints are in a main that can run.                            *)
LEMMA SaidFacts ==
    ASSUME LoweringInv, status = "llvm", NEW u, NEW pos, NEW k, NEW o, SaidBy(u, pos, k, o)
    PROVE  /\ N \in Nat /\ u \in 0 .. N /\ prog \in Programs
           /\ \A v \in PrintOps :
                  /\ v \in 1 .. N /\ pos[v] \in 1 .. Len(block)
                  /\ Prints(block[pos[v]], v) /\ IsPrint(block[pos[v]])
           /\ \A v, w \in PrintOps : v < w => pos[v] < pos[w]
           /\ \A n \in 1 .. Len(block) : IsPrint(block[n]) => \E v \in PrintOps : n = pos[v]
<1>1. /\ prog \in Programs /\ N \in Nat /\ cur = N + 1
  BY ProgramFacts DEF LoweringInv, FinalInv
<1>2. Echoes(block, cur, pos) /\ u \in 0 .. N
  BY DEF SaidBy
<1>3. ASSUME NEW v \in PrintOps
      PROVE  /\ v \in 1 .. N /\ pos[v] \in 1 .. Len(block)
             /\ Prints(block[pos[v]], v) /\ IsPrint(block[pos[v]])
  <2>1. v \in 1 .. N /\ v < cur
    BY <1>1 DEF PrintOps
  <2>2. pos[v] \in 1 .. Len(block) /\ Prints(block[pos[v]], v)
    BY <1>2, <2>1 DEF Echoes
  <2> QED BY <2>1, <2>2, OpFields DEF Prints, IsPrint
<1> QED BY <1>1, <1>2, <1>3 DEF Echoes

(* An operation that prints nothing.                                       *)
LEMMA SilentStep ==
    ASSUME LoweringInv, MachineInv, OutInv, Matched(prog),
           ExecAlloca \/ ExecStore \/ ExecNest \/ ExecDealloc
    PROVE  OutInv'
<1>1. /\ status = "llvm" /\ pc' = pc + 1 /\ UNCHANGED llvmVars /\ out' = out
      /\ block[pc].i \in {"alloca", "store", "nest", "dealloc"}
  BY DEF ExecAlloca, ExecStore, ExecNest, ExecDealloc, Current, Advance
<1>2. PICK u, pos : SaidBy(u, pos, pc, out)
  BY <1>1 DEF OutInv
<1>3. pc \in 1 .. Len(block) /\ Len(block) \in Nat
  BY <1>1, OneMore
<1>4. \A v \in PrintOps : pos[v] \in 1 .. Len(block) /\ IsPrint(block[pos[v]])
  BY <1>1, <1>2, SaidFacts
<1>5. \A v \in PrintOps : pos[v] < pc + 1 <=> pos[v] < pc
  <2>1. \A v \in PrintOps : pos[v] # pc
    BY <1>1, <1>4 DEF IsPrint
  <2> QED BY <1>3, <1>4, <2>1
<1>6. SaidBy(u, pos, pc', out')
  BY <1>1, <1>2, <1>5 DEF SaidBy
<1>7. SaidBy(u, pos, pc, out)'
  BY <1>1, <1>6, SameSaid DEF llvmVars
<1> QED BY <1>1, <1>7 DEF OutInv, llvmVars

(* A print.                                                                *)
LEMMA PrintStep ==
    ASSUME LoweringInv, MachineInv, ValueInv, OutInv, Matched(prog), ExecPrint
    PROVE  OutInv'
<1>1. /\ status = "llvm" /\ pc' = pc + 1 /\ UNCHANGED llvmVars
      /\ out' = out \o Printed(block[pc]) /\ block[pc].i = "printloops"
  BY DEF ExecPrint, Current, Advance
<1>2. PICK u, pos : SaidBy(u, pos, pc, out)
  BY <1>1 DEF OutInv
<1>3. RunInv(pc, memory, frame, freed) /\ pc \in 1 .. Len(block) /\ Len(block) \in Nat
  BY <1>1, OneMore
<1>4. /\ N \in Nat /\ u \in 0 .. N /\ prog \in Programs
      /\ \A v \in PrintOps :
             /\ v \in 1 .. N /\ pos[v] \in 1 .. Len(block)
             /\ Prints(block[pos[v]], v) /\ IsPrint(block[pos[v]])
      /\ \A v, w \in PrintOps : v < w => pos[v] < pos[w]
      /\ \A n \in 1 .. Len(block) : IsPrint(block[n]) => \E v \in PrintOps : n = pos[v]
  BY <1>1, <1>2, SaidFacts
<1>5. PICK w \in PrintOps : pc = pos[w]
  BY <1>1, <1>3, <1>4 DEF IsPrint
<1> DEFINE a == Operand(w, 1)
<1>6. block[pc] = PrintLoops(a)
  <2>1. Prints(block[pc], w)
    BY <1>4, <1>5
  <2> QED BY <1>1, <2>1, OpFields DEF Prints
<1>7. Printed(block[pc]) = Said(w)
  <2>1. Values(pc, memory)
    BY <1>1 DEF ValueInv
  <2>2. Printed(block[pc]) = Rows(ShapeOf(a), Meaning(prog)[a])
    BY <1>1, <1>3, <1>6, <2>1, PrintText
  <2> QED BY <2>2 DEF Said, PrintOps
<1>8. \A v \in PrintOps : v <= u <=> pos[v] < pc
  BY <1>2 DEF SaidBy
<1> DEFINE m == w - 1
<1>9. w \in 1 .. N /\ u < w /\ m \in Nat /\ m + 1 = w /\ u <= m
  <2>1. w \in 1 .. N /\ ~ (w <= u)
    BY <1>3, <1>4, <1>5, <1>8
  <2> QED BY <1>4, <2>1
<1>10. Quiet(Sayings, u, m)
  <2> SUFFICES ASSUME NEW i \in 1 .. m, i > u PROVE Sayings[i] = << >>
    BY DEF Quiet
  <2>1. i \in 1 .. N /\ i < w /\ ~ (i <= u)
    BY <1>4, <1>9
  <2>2. Kind(i) # "print"
    <3> SUFFICES ASSUME i \in PrintOps PROVE FALSE
      BY <2>1 DEF PrintOps
    <3>1. pos[i] < pc
      BY <1>4, <1>5, <2>1
    <3> QED BY <1>8, <2>1, <3>1
  <2> QED BY <2>1, <2>2 DEF Sayings, Said
<1>11. Joint(Sayings, w) = Joint(Sayings, u) \o Said(w)
  <2>1. PICK S : Parts(Sayings, N, S)
    BY <1>1, SayingsIn
  <2>2. Parts(Sayings, m, S) /\ Parts(Sayings, m + 1, S)
    <3>1. \A i \in 1 .. m + 1 : i \in 1 .. N
      BY <1>4, <1>9
    <3>2. \A i \in 1 .. m : i \in 1 .. N
      BY <1>4, <1>9
    <3> QED BY <2>1, <3>1, <3>2 DEF Parts
  <2>3. Sayings[w] = Said(w)
    BY <1>9 DEF Sayings
  <2>4. u \in Nat
    BY <1>4
  <2> HIDE DEF m
  <2>5. Joint(Sayings, m) = Joint(Sayings, u)
    BY <1>9, <1>10, <2>2, <2>4, JointQuiet
  <2>6. Joint(Sayings, m + 1) = Joint(Sayings, m) \o Sayings[m + 1]
    BY <1>9, <2>2, JointStep
  <2> QED BY <1>9, <2>3, <2>5, <2>6
<1>12. \A v \in PrintOps : v <= w <=> pos[v] < pc + 1
  <2> TAKE v \in PrintOps
  <2>1. v \in Nat /\ w \in Nat /\ pos[v] \in Nat /\ pc \in Nat /\ pc = pos[w]
    BY <1>3, <1>4, <1>5
  <2>2. (v < w => pos[v] < pos[w]) /\ (w < v => pos[w] < pos[v]) /\ (v = w => pos[v] = pos[w])
    BY <1>4
  <2> QED BY <2>1, <2>2
<1>13. SaidBy(w, pos, pc', out')
  <2>1. out = Joint(Sayings, u) /\ Echoes(block, cur, pos)
    BY <1>2 DEF SaidBy
  <2>2. w \in 0 .. N
    BY <1>4, <1>9
  <2> QED BY <1>1, <1>7, <1>11, <1>12, <2>1, <2>2 DEF SaidBy
<1>14. SaidBy(w, pos, pc, out)'
  BY <1>1, <1>13, SameSaid DEF llvmVars
<1> QED BY <1>1, <1>14 DEF OutInv, llvmVars

(* When main returns, everything has been said.                            *)
LEMMA ReturnStep ==
    ASSUME LoweringInv, MachineInv, OutInv, ExecReturn
    PROVE  OutInv'
<1>1. /\ status = "llvm" /\ block[pc].i = "return" /\ status' = "done"
      /\ prog' = prog /\ out' = out
  BY DEF ExecReturn, Current
<1>2. SUFFICES ASSUME Matched(prog) PROVE out = Expected(prog)
  <2>1. Matched(prog)' <=> Matched(prog)
    BY <1>1 DEF Matched
  <2>2. Expected(prog)' = Expected(prog)
    BY <1>1 DEF Expected
  <2> QED BY <1>1, <1>2, <2>1, <2>2 DEF OutInv, OutputCorrect
<1>3. PICK u, pos : SaidBy(u, pos, pc, out)
  BY <1>1, <1>2 DEF OutInv
<1>4. pc = Len(block) /\ Len(block) \in Nat
  <2>1. pc \in 1 .. Len(block)
    BY <1>1 DEF MachineInv, RunInv
  <2> QED BY <1>1, <2>1, MainFacts
<1>5. /\ N \in Nat /\ u \in 0 .. N /\ prog \in Programs
      /\ \A v \in PrintOps : pos[v] \in 1 .. Len(block) /\ IsPrint(block[pos[v]])
  BY <1>1, <1>3, SaidFacts
<1>6. \A v \in PrintOps : v <= u
  <2>1. \A v \in PrintOps : pos[v] < pc
    <3>1. \A v \in PrintOps : pos[v] # pc
      BY <1>1, <1>5 DEF IsPrint
    <3> QED BY <1>4, <1>5, <3>1
  <2> QED BY <1>3, <2>1 DEF SaidBy
<1>7. Quiet(Sayings, u, N)
  <2> SUFFICES ASSUME NEW i \in 1 .. N, i > u PROVE Sayings[i] = << >>
    BY DEF Quiet
  <2>1. i \notin PrintOps
    BY <1>5, <1>6
  <2>2. Kind(i) # "print"
    BY <2>1 DEF PrintOps
  <2> QED BY <2>2 DEF Sayings, Said
<1>8. Joint(Sayings, N) = Joint(Sayings, u)
  <2>1. PICK S : Parts(Sayings, N, S)
    BY <1>1, SayingsIn
  <2>2. u \in Nat /\ u <= N
    BY <1>5
  <2> QED BY <1>5, <1>7, <2>1, <2>2, JointQuiet
<1> QED BY <1>3, <1>5, <1>8, ExpectedIs DEF SaidBy

(* The steps keep OutInv.                                                  *)
LEMMA OutKeeps ==
    ASSUME LoweringInv, MachineInv, ValueInv, OrderInv, OutInv, [Next]_vars
    PROVE  OutInv'
<1>1. CASE AffineNext /\ UNCHANGED <<symbols, pc, memory, frame, freed, out>>
  <2>1. status \in {"func", "convert"} /\ status' \notin {"llvm", "done"}
    BY <1>1 DEF AffineNext, LowerFunc, LowerConstant, LowerTranspose, LowerBinary,
                LowerPrint, LowerReturn, RollBack, Legalizing, Commit
  <2> QED BY <1>1, <2>1 DEF OutInv
<1>2. CASE LLVMNext /\ UNCHANGED machine
  <2>1. status = "affine" /\ UNCHANGED <<pc, out>> /\ out = << >> /\ pc = 1
    BY <1>2 DEF LLVMNext, LowerPrintLoops, CommitLLVM, machine, OutInv, MachineInv
  <2>2. CASE \E n \in DOMAIN block : LowerPrintLoops(n)
    BY <2>1, <2>2 DEF LowerPrintLoops, OutInv
  <2>3. CASE CommitLLVM
    <3>1. /\ UNCHANGED <<prog, block, cur>> /\ status' = "llvm"
          /\ prog \in Programs /\ N \in Nat /\ cur = N + 1
      BY <2>1, <2>3, ProgramFacts DEF CommitLLVM, LoweringInv, FinalInv
    <3>2. PICK pos : Echoes(block, cur, pos)
      BY <2>1 DEF OrderInv
    <3>3. Joint(Sayings, 0) = << >>
      <4>1. FlattenSeq(<< >>) = << >>
        BY DEF FlattenSeq
      <4>2. [i \in 1 .. 0 |-> Sayings[i]] = << >>
        <5>1. 1 .. 0 = {}
          OBVIOUS
        <5> QED BY <5>1
      <4> QED BY <4>1, <4>2 DEF Joint
    <3>4. \A v \in PrintOps : v <= 0 <=> pos[v] < 1
      <4>1. \A v \in PrintOps : v \in 1 .. N /\ pos[v] \in 1 .. Len(block)
        BY <3>2 DEF Echoes, PrintOps
      <4>2. Len(block) \in Nat
        BY <2>1 DEF LoweringInv, BlockInv
      <4> QED BY <3>1, <4>1, <4>2
    <3>5. SaidBy(0, pos, pc', out')
      <4>1. 0 \in 0 .. N
        BY <3>1
      <4> QED BY <2>1, <3>2, <3>3, <3>4, <4>1 DEF SaidBy
    <3>6. SaidBy(0, pos, pc, out)'
      BY <3>1, <3>5, SameSaid
    <3> QED BY <3>1, <3>6 DEF OutInv
  <2> QED BY <1>2, <2>2, <2>3 DEF LLVMNext
<1>3. CASE Exec
  <2>1. CASE ExecReturn
    BY <2>1, ReturnStep
  <2>2. CASE ~ ExecReturn
    <3>1. status = "llvm" /\ UNCHANGED llvmVars
      BY <1>3, <2>2 DEF Exec, ExecAlloca, ExecStore, ExecNest, ExecPrint, ExecDealloc, Advance,
                        Current
    <3>2. CASE Matched(prog)
      BY <1>3, <2>2, <3>2, SilentStep, PrintStep DEF Exec
    <3>3. CASE ~ Matched(prog)
      <4>1. ~ Matched(prog)' /\ status' = "llvm"
        BY <3>1, <3>3 DEF Matched, llvmVars
      <4> QED BY <4>1 DEF OutInv
    <3> QED BY <3>2, <3>3
  <2> QED BY <2>1, <2>2
<1>4. CASE UNCHANGED vars
  <2>1. UNCHANGED <<prog, block, cur, status, pc, out>>
    BY <1>4 DEF vars
  <2>2. Matched(prog)' <=> Matched(prog)
    BY <2>1 DEF Matched
  <2>3. CASE status = "llvm"
    <3>1. ASSUME Matched(prog) PROVE (\E u, pos : SaidBy(u, pos, pc, out))'
      <4>1. PICK u, pos : SaidBy(u, pos, pc, out)
        BY <2>3, <3>1 DEF OutInv
      <4>2. SaidBy(u, pos, pc, out)'
        BY <2>1, <4>1, SameSaid
      <4> QED BY <4>2
    <3> QED BY <2>1, <2>2, <2>3, <3>1 DEF OutInv
  <2>4. CASE status # "llvm"
    <3>1. Expected(prog)' = Expected(prog)
      BY <2>1 DEF Expected
    <3> QED BY <2>1, <2>2, <2>4, <3>1 DEF OutInv, OutputCorrect
  <2> QED BY <2>3, <2>4
<1> QED BY <1>1, <1>2, <1>3, <1>4 DEF Next

(* The cells, the order and the output together.                           *)
LEMMA OutputHolds == Spec => [](OutInv)
<1> DEFINE Inv == ValueInv /\ OrderInv /\ OutInv
<1>1. MainInit => Inv
  BY OrderStarts DEF MainInit, Init, ValueInv, OutInv
<1>2. CompiledInv /\ Inv /\ [Next]_vars => Inv'
  BY ValuesKeep, OrderKeeps, OutKeeps DEF CompiledInv
<1>3. Spec => []CompiledInv
  BY Invariance
<1>4. Spec => []Inv
  <2> HIDE DEF Inv
  <2> QED BY <1>1, <1>2, <1>3, PTL DEF Spec
<1>5. Inv => OutInv
  OBVIOUS
<1> QED BY <1>4, <1>5, PTL

(* Whatever patterns ran, main prints every tensor the source prints, in   *)
(* the order of the source, row by row, with the elements it means.        *)
THEOREM PrintsWhatItMeans == Spec => []OutputCorrect
<1>1. OutInv => OutputCorrect
  BY DEF OutInv, OutputCorrect
<1> QED BY <1>1, OutputHolds, PTL
=============================================================================
