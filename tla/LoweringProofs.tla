--------------------------- MODULE LoweringProofs ---------------------------
(***************************************************************************)
(* The block both lowerings leave, for all programs: each buffer has its   *)
(* alloca in front of every use and its dealloc behind the last, nothing   *)
(* is read before it was written, the terminator is last, and the pass     *)
(* fails only on what it has no pattern for.                               *)
(***************************************************************************)
EXTENDS LLVMLowering, SequenceLemmas

-----------------------------------------------------------------------------
(* The invariant.                                                          *)

N == Len(prog.ops)

Initial == [v \in Defs(prog) |-> ToyOp(v)]

(* The operations whose result gets a buffer.                              *)
BufferKinds == {"constant", "add", "mul", "transpose"}

(* What fills the buffer of v: the stores of a constant, or one nest.      *)
StoreOf(v, n) == Store(v, StoreOrder(ShapeOf(v))[n], n - 1)

NestOf(v) ==
    IF Kind(v) = "transpose" THEN Nest(v, "copy", <<Load(Operand(v, 1), "reverse")>>)
    ELSE Nest(v, Kind(v), <<Load(Operand(v, 1), "same"), Load(Operand(v, 2), "same")>>)

Fills(e, v) ==
    IF Kind(v) = "constant"
    THEN \E n \in DOMAIN StoreOrder(ShapeOf(v)) : e = StoreOf(v, n)
    ELSE e = NestOf(v)

Prints(e, v) == e \in {PrintBuf(Operand(v, 1)), PrintLoops(Operand(v, 1))}

WritesTo(e, a) == e.i \in {"store", "nest"} /\ e.v = a

ReadsFrom(e, a) ==
    \/ e.i = "nest" /\ \E n \in DOMAIN e.loads : e.loads[n].v = a
    \/ e.i \in {"print", "printloops"} /\ e.v = a

(* The parts of a block, in the order they have in it.                     *)
Rank(e) ==
    IF e.i = "alloca" THEN 1
    ELSE IF e.i = "dealloc" THEN 3
    ELSE IF e.i = "return" THEN 4
    ELSE IF e = ToyOp(N) THEN 5 ELSE 2

Sorted(b) == \A m, n \in 1 .. Len(b) : m < n => Rank(b[m]) <= Rank(b[n])

Occurs(b, e) == \E n \in 1 .. Len(b) : b[n] = e

Once(b, e) ==
    \E n \in 1 .. Len(b) : b[n] = e /\ \A m \in 1 .. Len(b) : b[m] = e => m = n

(* In what follows R is the set of buffers, remap, and c the operation to  *)
(* legalize next, cur.                                                     *)

(* An operation put there by a pattern that ran.                           *)
Lowered(e, R, c) ==
    \/ \E v \in R : e = Alloca(v) \/ e = Dealloc(v) \/ Fills(e, v)
    \/ \E v \in Defs(prog) : v < c /\ Kind(v) = "print" /\ Prints(e, v)
    \/ e = FuncReturn

WritesFirst(b, R) ==
    \A m, n \in 1 .. Len(b) : \A a \in R : ReadsFrom(b[m], a) /\ WritesTo(b[n], a) => n < m

(* All of what fills the buffer of v.                                      *)
Filled(b, v) ==
    IF Kind(v) = "constant"
    THEN \A k \in DOMAIN StoreOrder(ShapeOf(v)) : Occurs(b, StoreOf(v, k))
    ELSE Occurs(b, NestOf(v))

(* Everything the operations before c became is there.                     *)
Complete(b, R, c) ==
    /\ \A a \in R : Once(b, Alloca(a)) /\ Once(b, Dealloc(a)) /\ Filled(b, a)
    /\ \A v \in Defs(prog) : v < c /\ Kind(v) = "print" =>
           \E n \in 1 .. Len(b) : Prints(b[n], v)

BlockInv(b, R, c) ==
    /\ b \in Seq(ToSet(b)) /\ b # << >>
    /\ Sorted(b)
    /\ WritesFirst(b, R)
    /\ Complete(b, R, c)

(* The buffers, and the operands of what has been lowered.                 *)
RemapInv(R, c) ==
    /\ c \in 1 .. N + 1
    /\ R = {v \in 1 .. c - 1 : Kind(v) \in BufferKinds}
    /\ \A v \in Defs(prog) : v < c =>
           /\ Args(prog, v) \subseteq R
           /\ Kind(v) \in BufferKinds \cup {"print", "return"}
           /\ Kind(v) = "return" => prog.ops[v].args = << >>

(* An operation of the source the pass has still to look at.               *)
Todo(e, c) == e.i = "toy" /\ e.v >= c

(* While the conversion runs: what is to do is in the order of the source, *)
(* behind all that was lowered but the deallocs.                           *)
TodoInv(b, c) ==
    /\ \A v \in Defs(prog) : v >= c => Once(b, ToyOp(v))
    /\ \A m, n \in 1 .. Len(b) :
           Todo(b[m], c) /\ Todo(b[n], c) => (m < n <=> b[m].v < b[n].v)
    /\ \A m, n \in 1 .. Len(b) :
           ~ Todo(b[m], c) /\ Todo(b[n], c) /\ b[n] # ToyOp(N) /\ b[m].i # "dealloc" => m < n

ConvertInv(b, R, c) ==
    /\ \A n \in 1 .. Len(b) : Lowered(b[n], R, c) \/ \E v \in Defs(prog) : b[n] = ToyOp(v)
    /\ TodoInv(b, c)
    /\ c \in 2 .. N => b[1].i = "alloca"
    /\ \A n \in 1 .. Len(b) : b[n] = ToyOp(N) <=> n = Len(b)
    /\ IF c <= N THEN ~ Occurs(b, FuncReturn) ELSE Once(b, FuncReturn)

(* When it is done.                                                        *)
FinalInv(b, R, c) ==
    /\ c = N + 1
    /\ \A n \in 1 .. Len(b) : Lowered(b[n], R, c)
    /\ \A n \in 1 .. Len(b) : b[n] = FuncReturn <=> n = Len(b)

Verified(b) ==
    \A n \in 1 .. Len(b) : b[n].i = "nest" =>
        \A k \in DOMAIN b[n].loads : LoadVerifies(b[n], b[n].loads[k])

LoweringInv ==
    /\ prog \in Programs
    /\ status \in {"func", "convert", "failed", "affine", "invalid", "llvm", "done"}
    /\ status = "func" => block = Initial /\ remap = {} /\ cur = 1
    /\ status = "failed" =>
           /\ block = Initial /\ remap = {} /\ cur \in 1 .. N + 1
           /\ ~ (prog.others = {} /\ Lowerable(prog))
    /\ status \notin {"func", "failed"} =>
           /\ prog.others = {} /\ prog.result = << >>
           /\ RemapInv(remap, cur)
           /\ BlockInv(block, remap, cur)
    /\ status = "convert" => ConvertInv(block, remap, cur)
    /\ status \in {"affine", "invalid", "llvm", "done"} => FinalInv(block, remap, cur)
    /\ status \in {"affine", "llvm", "done"} => Verified(block)

-----------------------------------------------------------------------------
(* Inserting operations into a block.                                      *)

(* The fields of the operations of a block that their order depends on.    *)
LEMMA OpFields ==
    /\ \A v : ToyOp(v).i = "toy" /\ ToyOp(v).v = v
    /\ \A v : Alloca(v).i = "alloca" /\ Alloca(v).v = v
    /\ \A v : Dealloc(v).i = "dealloc" /\ Dealloc(v).v = v
    /\ \A v : PrintBuf(v).i = "print" /\ PrintBuf(v).v = v
    /\ \A v : PrintLoops(v).i = "printloops" /\ PrintLoops(v).v = v
    /\ FuncReturn.i = "return"
    /\ \A v, idx, val : Store(v, idx, val).i = "store" /\ Store(v, idx, val).v = v
    /\ \A v, body, loads : /\ Nest(v, body, loads).i = "nest" /\ Nest(v, body, loads).v = v
                           /\ Nest(v, body, loads).loads = loads
                           /\ Nest(v, body, loads).body = body
BY DEF ToyOp, Alloca, Dealloc, PrintBuf, PrintLoops, FuncReturn, Store, Nest

(* r is b with first in front, last in front of its last operation, and    *)
(* seq in front of its p-th, which the other operations do not notice: the *)
(* n-th has moved to at[n].                                                *)
Placed(b, r, p, first, last, seq, at, al, de, g) ==
    /\ r \in Seq(ToSet(r)) /\ Len(b) \in Nat /\ Len(r) \in Nat
    /\ at \in [1 .. Len(b) -> 1 .. Len(r)] /\ g \in [1 .. Len(seq) -> 1 .. Len(r)]
    /\ al \in 1 .. Len(r) /\ de \in 1 .. Len(r)
    /\ r[al] = first /\ r[de] = last
    /\ \A n \in 1 .. Len(b) : r[at[n]] = b[n]
    /\ \A j \in 1 .. Len(seq) : r[g[j]] = seq[j]
    /\ \A q \in 1 .. Len(r) :
           \/ q = al
           \/ q = de
           \/ \E n \in 1 .. Len(b) : q = at[n]
           \/ \E j \in 1 .. Len(seq) : q = g[j]
    /\ \A m, n \in 1 .. Len(b) : m < n <=> at[m] < at[n]
    /\ al < de /\ \A j \in 1 .. Len(seq) : al < g[j] /\ g[j] < de
    /\ \A n \in 1 .. Len(b) : IF n = 1 /\ p # 1 THEN at[n] < al ELSE al < at[n]
    /\ \A n \in 1 .. Len(b) : IF n = Len(b) THEN de < at[n] ELSE at[n] < de
    /\ \A n \in 1 .. Len(b), j \in 1 .. Len(seq) :
           IF n < p THEN at[n] < g[j] ELSE g[j] < at[n]
    /\ at[Len(b)] = Len(r)
    /\ p # 1 => at[1] = 1
    /\ p = 1 => al = 1

(* insertAllocAndDealloc, operation by operation.                          *)
LEMMA WithBufferAt ==
    ASSUME NEW S, NEW b \in Seq(S), NEW v, Alloca(v) \in S, Dealloc(v) \in S,
           Len(b) > 1, NEW h, h = IF b[1] = ToyOp(v) THEN 0 ELSE 1
    PROVE  /\ WithBuffer(b, v) \in Seq(S) /\ Len(WithBuffer(b, v)) = Len(b) + 2
           /\ \A n \in 1 .. h : WithBuffer(b, v)[n] = b[n]
           /\ WithBuffer(b, v)[h + 1] = Alloca(v)
           /\ \A n \in h + 1 .. Len(b) - 1 : WithBuffer(b, v)[n + 1] = b[n]
           /\ WithBuffer(b, v)[Len(b) + 1] = Dealloc(v)
           /\ WithBuffer(b, v)[Len(b) + 2] = b[Len(b)]
<1> DEFINE A == Alloca(v)
           D == Dealloc(v)
           rest == IF Head(b) = ToyOp(v) THEN <<A>> \o b ELSE <<Head(b), A>> \o Tail(b)
           L == Len(b)
<1>1. L \in Nat /\ \A n \in 1 .. L : b[n] \in S
  BY ElementOfSeq
<1>2. Head(b) = b[1] /\ A \in S /\ D \in S
  BY <1>1
<1>3. /\ rest \in Seq(S) /\ Len(rest) = L + 1
      /\ \A n \in 1 .. L + 1 : rest[n] = IF n <= h THEN b[n] ELSE IF n = h + 1 THEN A ELSE b[n - 1]
  <2> HIDE DEF A, D
  <2>1. CASE b[1] = ToyOp(v)
    <3>1. rest = <<A>> \o b /\ h = 0
      BY <2>1, <1>2
    <3> QED BY <3>1, <1>1, <1>2, ConcatProperties
  <2>2. CASE b[1] # ToyOp(v)
    <3>1. rest = <<b[1], A>> \o Tail(b) /\ h = 1
      BY <2>2, <1>2
    <3>2. /\ Tail(b) \in Seq(S) /\ Len(Tail(b)) = L - 1
          /\ \A n \in 1 .. L - 1 : Tail(b)[n] = b[n + 1]
      BY <1>1
    <3>3. b[1] \in S /\ <<b[1], A>> \in Seq(S) /\ Len(<<b[1], A>>) = 2
      BY <1>1, <1>2
    <3>4. /\ rest \in Seq(S) /\ Len(rest) = L + 1
          /\ \A n \in 1 .. L + 1 : rest[n] = IF n <= 2 THEN <<b[1], A>>[n] ELSE Tail(b)[n - 2]
      <4> DEFINE x == <<b[1], A>>
                 y == Tail(b)
      <4>1. x \in Seq(S) /\ y \in Seq(S) /\ Len(x) = 2 /\ Len(y) = L - 1
        BY <3>2, <3>3
      <4> HIDE DEF x, y, rest
      <4>2. rest = x \o y
        BY <3>1 DEF x, y
      <4>3. /\ x \o y \in Seq(S) /\ Len(x \o y) = Len(x) + Len(y)
            /\ \A i \in 1 .. Len(x) + Len(y) :
                   (x \o y)[i] = IF i <= Len(x) THEN x[i] ELSE y[i - Len(x)]
        BY <4>1, ConcatProperties
      <4>4. 2 + (L - 1) = L + 1
        BY <1>1
      <4> HIDE DEF L
      <4>5. /\ rest \in Seq(S) /\ Len(rest) = L + 1
            /\ \A n \in 1 .. L + 1 : rest[n] = IF n <= 2 THEN x[n] ELSE y[n - 2]
        BY <4>1, <4>2, <4>3, <4>4
      <4> QED BY <4>5 DEF x, y
    <3> HIDE DEF rest
    <3>5. ASSUME NEW n \in 1 .. L + 1
          PROVE  rest[n] = IF n <= h THEN b[n] ELSE IF n = h + 1 THEN A ELSE b[n - 1]
      <4>1. CASE n <= 2
        BY <4>1, <3>1, <3>4
      <4>2. CASE n > 2
        <5>1. n - 2 \in 1 .. L - 1 /\ (n - 2) + 1 = n - 1
          BY <1>1, <4>2
        <5>2. rest[n] = b[n - 1]
          BY <3>2, <3>4, <4>2, <5>1
        <5> QED BY <3>1, <4>2, <5>2
      <4> QED BY <4>1, <4>2
    <3> QED BY <3>4, <3>5
  <2> QED BY <2>1, <2>2
<1> HIDE DEF rest
<1> DEFINE z == <<D, Last(rest)>>
           front == Front(rest)
<1>4. /\ front \in Seq(S) /\ Len(front) = L
      /\ \A n \in 1 .. L : front[n] = rest[n]
  <2>1. front = SubSeq(rest, 1, L)
    BY <1>3, <1>1 DEF Front
  <2>2. \A n \in 1 .. L : rest[n] \in S
    BY <1>1, <1>3, ElementOfSeq
  <2> QED BY <2>1, <2>2, <1>1, SubSeqProperties
<1>5. z \in Seq(S) /\ Len(z) = 2 /\ z[1] = D /\ z[2] = b[L]
  <2>1. Last(rest) = rest[L + 1]
    BY <1>3 DEF Last
  <2>2. rest[L + 1] = b[L]
    <3>1. L + 1 \in 1 .. L + 1 /\ ~ (L + 1 <= h) /\ L + 1 # h + 1 /\ (L + 1) - 1 = L
      BY <1>1
    <3> QED BY <3>1, <1>3
  <2>3. b[L] \in S
    BY <1>1
  <2> QED BY <2>1, <2>2, <2>3, <1>2
<1> HIDE DEF z, front, A, D
<1> DEFINE buf == front \o z
<1>6. /\ buf \in Seq(S) /\ Len(buf) = L + 2
      /\ \A i \in 1 .. L + 2 : buf[i] = IF i <= L THEN front[i] ELSE z[i - L]
  <2>1. /\ buf \in Seq(S) /\ Len(buf) = Len(front) + Len(z)
        /\ \A i \in 1 .. Len(front) + Len(z) :
               buf[i] = IF i <= Len(front) THEN front[i] ELSE z[i - Len(front)]
    <3>1. front \in Seq(S) /\ z \in Seq(S)
      BY <1>4, <1>5
    <3> QED BY <3>1, ConcatProperties
  <2> HIDE DEF L, buf
  <2> QED BY <1>4, <1>5, <2>1
<1> HIDE DEF buf
<1>7. ASSUME NEW n \in 1 .. L PROVE buf[n] = rest[n]
  BY <1>1, <1>4, <1>6
<1>8. buf[L + 1] = D /\ buf[L + 2] = b[L]
  BY SMTT(40), <1>1, <1>5, <1>6
<1>9. h \in {0, 1} /\ Len(b) = L /\ L > 1
  OBVIOUS
<1> HIDE DEF L
<1>10. \A n \in 1 .. h : buf[n] = b[n]
  BY <1>1, <1>3, <1>7, <1>9
<1>11. buf[h + 1] = A
  <2>1. h + 1 \in 1 .. L /\ h + 1 \in 1 .. L + 1 /\ ~ (h + 1 <= h)
    BY <1>1, <1>9
  <2> QED BY <1>3, <1>7, <2>1
<1>12. \A n \in h + 1 .. L - 1 : buf[n + 1] = b[n]
  <2> TAKE n \in h + 1 .. L - 1
  <2>1. /\ n + 1 \in 1 .. L /\ n + 1 \in 1 .. L + 1
        /\ ~ (n + 1 <= h) /\ n + 1 # h + 1 /\ (n + 1) - 1 = n
    BY <1>1, <1>9
  <2> QED BY <1>3, <1>7, <2>1
<1>13. buf = WithBuffer(b, v)
  BY DEF WithBuffer, buf, front, z, rest, A, D
<1> QED BY <1>6, <1>8, <1>9, <1>10, <1>11, <1>12, <1>13 DEF A, D

(* Before, when the block has the operation once.                          *)
LEMMA BeforeAt ==
    ASSUME NEW S, NEW b \in Seq(S), NEW v, NEW seq \in Seq(S),
           NEW p \in 1 .. Len(b), b[p] = ToyOp(v),
           \A n \in 1 .. Len(b) : b[n] = ToyOp(v) => n = p
    PROVE  /\ Before(b, v, seq) \in Seq(S)
           /\ Len(Before(b, v, seq)) = Len(b) + Len(seq)
           /\ \A n \in 1 .. p - 1 : Before(b, v, seq)[n] = b[n]
           /\ \A j \in 1 .. Len(seq) : Before(b, v, seq)[(p - 1) + j] = seq[j]
           /\ \A n \in p .. Len(b) : Before(b, v, seq)[n + Len(seq)] = b[n]
<1>1. Len(b) \in Nat /\ p \in Nat /\ p >= 1 /\ p - 1 \in 0 .. Len(b) /\ (p - 1) + 1 = p
  OBVIOUS
<1>2. SelectInSeq(b, LAMBDA e : e = ToyOp(v)) = p
  <2> DEFINE I == {i \in 1 .. Len(b) : b[i] = ToyOp(v)}
  <2>1. I = {p}
    OBVIOUS
  <2>2. SelectInSeq(b, LAMBDA e : e = ToyOp(v)) = IF I # {} THEN Min(I) ELSE 0
    BY DEF SelectInSeq
  <2>3. Min({p}) = p
    <3>1. (CHOOSE x \in {p} : \A y \in {p} : x <= y) = p
      BY <1>1
    <3> QED BY <3>1 DEF Min
  <2> QED BY <2>1, <2>2, <2>3
<1>3. Before(b, v, seq) = Insert(b, seq, p - 1)
  BY <1>1, <1>2 DEF Before, Insert
<1> DEFINE k == p - 1
           r == Insert(b, seq, k)
<1>4. k \in 0 .. Len(b) /\ k + 1 = p
  BY <1>1
<1>6. Before(b, v, seq) = r
  BY <1>3
<1> HIDE DEF k
<1>5. r \in Seq(S) /\ Len(r) = Len(b) + Len(seq)
  BY <1>4, InsertSeq
<1>7. \A n \in 1 .. k : r[n] = b[n]
  BY <1>4, InsertSeq
<1>8. \A j \in 1 .. Len(seq) : r[k + j] = seq[j]
  BY <1>4, InsertSeq
<1>9. \A n \in k + 1 .. Len(b) : r[n + Len(seq)] = b[n]
  BY <1>4, InsertSeq
<1> HIDE DEF r
<1> QED BY <1>4, <1>5, <1>6, <1>7, <1>8, <1>9 DEF k

(* The new operations of a value that gets a buffer.                       *)
LEMMA BufferPlaced ==
    ASSUME NEW S, NEW b \in Seq(S), NEW v, Alloca(v) \in S, Dealloc(v) \in S,
           NEW seq \in Seq(S),
           NEW p \in 1 .. Len(b) - 1, b[p] = ToyOp(v),
           \A n \in 1 .. Len(b) : b[n] = ToyOp(v) => n = p
    PROVE  \E at, al, de, g :
               Placed(b, Before(WithBuffer(b, v), v, seq), p, Alloca(v), Dealloc(v), seq,
                      at, al, de, g)
<1> DEFINE L == Len(b)
           K == Len(seq)
           h == IF b[1] = ToyOp(v) THEN 0 ELSE 1
           buf == WithBuffer(b, v)
           r == Before(buf, v, seq)
           at == [n \in 1 .. L |-> IF n <= h THEN n ELSE IF n < p THEN n + 1
                                   ELSE IF n < L THEN n + 1 + K ELSE n + 2 + K]
           al == h + 1
           de == L + 1 + K
           g == [j \in 1 .. K |-> p + j]
<1>1. L \in Nat /\ K \in Nat /\ p \in Nat /\ p >= 1 /\ p < L /\ L > 1
  OBVIOUS
<1>2. h \in {0, 1} /\ (p = 1 => h = 0) /\ (p # 1 => h = 1) /\ h + 1 <= p
  <2>1. 1 \in 1 .. Len(b)
    BY <1>1
  <2> QED BY <2>1, <1>1
<1>3. /\ buf \in Seq(S) /\ Len(buf) = L + 2
      /\ \A n \in 1 .. h : buf[n] = b[n]
      /\ buf[h + 1] = Alloca(v)
      /\ \A n \in h + 1 .. L - 1 : buf[n + 1] = b[n]
      /\ buf[L + 1] = Dealloc(v)
      /\ buf[L + 2] = b[L]
  <2>1. Len(b) > 1 /\ h = IF b[1] = ToyOp(v) THEN 0 ELSE 1
    BY <1>1
  <2> HIDE DEF h
  <2>2. /\ buf \in Seq(S) /\ Len(buf) = Len(b) + 2
        /\ \A n \in 1 .. h : buf[n] = b[n]
        /\ buf[h + 1] = Alloca(v)
        /\ \A n \in h + 1 .. Len(b) - 1 : buf[n + 1] = b[n]
        /\ buf[Len(b) + 1] = Dealloc(v)
        /\ buf[Len(b) + 2] = b[Len(b)]
    BY ONLY b \in Seq(S), Alloca(v) \in S, Dealloc(v) \in S, <2>1, WithBufferAt
  <2> QED BY <2>2
<1> HIDE DEF buf, h
<1>4. buf[p + 1] = ToyOp(v)
  <2>1. p \in h + 1 .. L - 1
    BY <1>1, <1>2
  <2> QED BY <1>3, <2>1
<1>5. ASSUME NEW n \in 1 .. Len(buf), buf[n] = ToyOp(v) PROVE n = p + 1
  <2>1. \/ n \in 1 .. h \/ n = h + 1 \/ n - 1 \in h + 1 .. L - 1
        \/ n = L + 1 \/ n = L + 2
    BY <1>1, <1>2, <1>3
  <2>2. CASE n \in 1 .. h
    <3>1. b[n] = ToyOp(v) /\ n \in 1 .. L
      BY <1>1, <1>2, <1>3, <1>5, <2>2
    <3> QED BY <3>1, <2>2, <1>2
  <2>3. CASE n - 1 \in h + 1 .. L - 1
    <3>1. b[n - 1] = ToyOp(v) /\ n - 1 \in 1 .. L /\ (n - 1) + 1 = n
      <4>1. (n - 1) + 1 = n
        OBVIOUS
      <4> QED BY <4>1, <1>1, <1>2, <1>3, <1>5, <2>3
    <3> QED BY <3>1
  <2>4. CASE n = L + 2
    <3>1. b[L] = ToyOp(v) /\ L \in 1 .. Len(b)
      BY <1>1, <1>3, <1>5, <2>4
    <3> QED BY <3>1, <1>1
  <2>5. CASE n = h + 1 \/ n = L + 1
    BY SMTT(40), <1>3, <1>5, <2>5, OpFields
  <2> QED BY <2>1, <2>2, <2>3, <2>4, <2>5
<1>6. /\ r \in Seq(S) /\ Len(r) = L + 2 + K
      /\ \A n \in 1 .. p : r[n] = buf[n]
      /\ \A j \in 1 .. K : r[p + j] = seq[j]
      /\ \A n \in p + 1 .. L + 2 : r[n + K] = buf[n]
  <2>1. p + 1 \in 1 .. Len(buf) /\ (p + 1) - 1 = p
    BY <1>1, <1>3
  <2> HIDE DEF L, K, r
  <2> DEFINE q == p + 1
  <2>2. q \in 1 .. Len(buf) /\ buf[q] = ToyOp(v) /\ buf \in Seq(S)
    BY <2>1, <1>3, <1>4
  <2>3. \A n \in 1 .. Len(buf) : buf[n] = ToyOp(v) => n = q
    BY <1>5
  <2>4. q - 1 = p /\ q = p + 1
    BY <1>1
  <2> HIDE DEF q
  <2>5. /\ r \in Seq(S) /\ Len(r) = Len(buf) + Len(seq)
        /\ \A n \in 1 .. q - 1 : r[n] = buf[n]
        /\ \A j \in 1 .. Len(seq) : r[(q - 1) + j] = seq[j]
        /\ \A n \in q .. Len(buf) : r[n + Len(seq)] = buf[n]
    <3>1. buf[q] = ToyOp(v) /\ q \in 1 .. Len(buf)
      BY <2>2
    <3>2. seq \in Seq(S) /\ buf \in Seq(S)
      BY <2>2
    <3> QED BY <2>3, <3>1, <3>2, BeforeAt DEF r
  <2> QED BY <1>3, <2>4, <2>5 DEF K
<1> HIDE DEF r
<1>7. r \in Seq(ToSet(r)) /\ Len(r) \in Nat
  BY <1>6, SeqOfElements
<1>8. at \in [1 .. L -> 1 .. Len(r)] /\ g \in [1 .. K -> 1 .. Len(r)]
  <2> HIDE DEF L, K
  <2> QED BY <1>1, <1>2, <1>6
<1>9. al \in 1 .. Len(r) /\ de \in 1 .. Len(r) /\ r[al] = Alloca(v) /\ r[de] = Dealloc(v)
  <2>1. al \in 1 .. Len(r) /\ de \in 1 .. Len(r) /\ h + 1 \in 1 .. p
    BY <1>1, <1>2, <1>6
  <2>2. L + 1 \in p + 1 .. L + 2
    BY <1>1
  <2> QED BY <1>3, <1>6, <2>1, <2>2
<1> HIDE DEF L, K
<1>10. ASSUME NEW n \in 1 .. L PROVE r[at[n]] = b[n]
  <2>1. CASE n <= h
    <3>1. n \in 1 .. h /\ n \in 1 .. p /\ at[n] = n
      BY <1>1, <1>2, <2>1
    <3> QED BY <1>3, <1>6, <3>1
  <2>2. CASE n > h /\ n < p
    <3>1. n \in h + 1 .. L - 1 /\ n + 1 \in 1 .. p /\ at[n] = n + 1
      BY <1>1, <1>2, <2>2
    <3> QED BY <1>3, <1>6, <3>1
  <2>3. CASE n >= p /\ n < L
    <3>1. n \in h + 1 .. L - 1 /\ n + 1 \in p + 1 .. L + 2 /\ at[n] = (n + 1) + K
      BY <1>1, <1>2, <2>3
    <3> QED BY <1>3, <1>6, <3>1
  <2>4. CASE n = L
    <3>1. n + 2 \in p + 1 .. L + 2 /\ at[n] = (n + 2) + K
      BY <1>1, <1>2, <2>4
    <3> QED BY <1>3, <1>6, <3>1, <2>4
  <2> QED BY <1>1, <1>2, <2>1, <2>2, <2>3, <2>4
<1>11. \A j \in 1 .. K : r[g[j]] = seq[j]
  BY <1>6
<1>12. ASSUME NEW q \in 1 .. Len(r), q # al, q # de
       PROVE  (\E n \in 1 .. L : q = at[n]) \/ (\E j \in 1 .. K : q = g[j])
  <2>1. CASE q \in p + 1 .. p + K
    <3>1. q - p \in 1 .. K /\ q = p + (q - p)
      BY <1>1, <2>1
    <3> QED BY <3>1
  <2>2. CASE q \notin p + 1 .. p + K
    <3> DEFINE n == IF q <= h THEN q ELSE IF q <= p THEN q - 1
                    ELSE IF q < L + 1 + K THEN q - 1 - K ELSE q - 2 - K
    <3>1. n \in 1 .. L /\ q = at[n]
      BY <1>1, <1>2, <1>6, <1>12, <2>2
    <3> QED BY <3>1
  <2> QED BY <2>1, <2>2
<1>13. \A m, n \in 1 .. L : m < n <=> at[m] < at[n]
  BY <1>1, <1>2
<1>14. al < de /\ \A j \in 1 .. K : al < g[j] /\ g[j] < de
  BY <1>1, <1>2
<1>15. \A n \in 1 .. L : IF n = 1 /\ p # 1 THEN at[n] < al ELSE al < at[n]
  BY <1>1, <1>2
<1>16. \A n \in 1 .. L : IF n = L THEN de < at[n] ELSE at[n] < de
  BY <1>1, <1>2
<1>17. \A n \in 1 .. L, j \in 1 .. K : IF n < p THEN at[n] < g[j] ELSE g[j] < at[n]
  BY <1>1, <1>2
<1>18. at[L] = Len(r) /\ (p # 1 => at[1] = 1) /\ (p = 1 => al = 1)
  BY <1>1, <1>2, <1>6
<1> HIDE DEF at, al, de, g
<1>19. Placed(b, r, p, Alloca(v), Dealloc(v), seq, at, al, de, g)
  <2>1. \A q \in 1 .. Len(r) :
           \/ q = al
           \/ q = de
           \/ \E n \in 1 .. L : q = at[n]
           \/ \E j \in 1 .. K : q = g[j]
    BY <1>12
  <2>2. \A n \in 1 .. L : r[at[n]] = b[n]
    BY <1>10
  <2>3. L \in Nat /\ L = Len(b) /\ K = Len(seq)
    BY <1>1 DEF L, K
  <2> QED
    BY <1>7, <1>8, <1>9, <1>11, <1>13, <1>14, <1>15, <1>16, <1>17, <1>18,
       <2>1, <2>2, <2>3 DEF Placed, L, K
<1> QED BY <1>19 DEF r, buf

-----------------------------------------------------------------------------
(* What the invariant says of single operations.                           *)

(* A program has operands before their uses and one return, at its end.    *)
LEMMA ProgramFacts ==
    ASSUME prog \in Programs
    PROVE  /\ N \in Nat /\ N >= 1 /\ Defs(prog) = 1 .. N
           /\ \A v \in 1 .. N : Args(prog, v) \subseteq 1 .. v - 1
           /\ \A v \in 1 .. N : Kind(v) = "return" <=> v = N
           /\ \A v \in 1 .. N : Kind(v) \in {"print", "transpose"} =>
                  Operand(v, 1) \in Args(prog, v)
           /\ \A v \in 1 .. N : Kind(v) \in {"add", "mul"} =>
                  Operand(v, 1) \in Args(prog, v) /\ Operand(v, 2) \in Args(prog, v)
           /\ \A v \in 1 .. N : Kind(v) = "constant" => Args(prog, v) = {}
<1>1. WellFormed(prog) /\ prog.ops # << >>
  BY ProgramsAreInferred
<1>2. prog.ops \in Seq(Op)
  BY <1>1 DEF WellFormed
<1>3. N \in Nat /\ N >= 1 /\ Defs(prog) = 1 .. N
  BY <1>1, <1>2 DEF N, Defs
<1>4. \A v \in 1 .. N : Kind(v) = "return" <=> v = N
  BY <1>3, ProgramsAreInferred DEF N, Kind
<1>5. ASSUME NEW v \in 1 .. N
      PROVE  /\ ArityOK(prog.ops[v]) /\ Args(prog, v) \subseteq 1 .. v - 1
             /\ prog.ops[v] \in Op
  BY <1>1, <1>2, <1>3 DEF WellFormed, N
<1>6. ASSUME NEW v \in 1 .. N
      PROVE  /\ Kind(v) \in {"print", "transpose"} => Operand(v, 1) \in Args(prog, v)
             /\ Kind(v) \in {"add", "mul"} =>
                    Operand(v, 1) \in Args(prog, v) /\ Operand(v, 2) \in Args(prog, v)
             /\ Kind(v) = "constant" => Args(prog, v) = {}
  <2> DEFINE a == prog.ops[v].args
  <2>1. a \in Seq(Nat)
    BY <1>5 DEF Op
  <2>2. /\ Kind(v) \in {"print", "transpose"} => Len(a) = 1
        /\ Kind(v) \in {"add", "mul"} => Len(a) = 2
        /\ Kind(v) = "constant" => Len(a) = 0
    BY <1>5 DEF ArityOK, Kind
  <2>3. Args(prog, v) = {a[n] : n \in 1 .. Len(a)}
    BY <2>1, SMTT(40) DEF Args, ToSet
  <2>4. Operand(v, 1) = a[1] /\ Operand(v, 2) = a[2]
    BY DEF Operand
  <2> HIDE DEF a
  <2> QED BY <2>1, <2>2, <2>3, <2>4
<1> QED BY <1>3, <1>4, <1>5, <1>6

(* What fills a buffer writes that buffer, and reads the operands.         *)
LEMMA FillFacts ==
    ASSUME prog \in Programs, NEW v \in 1 .. N, Kind(v) \in BufferKinds, NEW e, Fills(e, v)
    PROVE  /\ e.i \in {"store", "nest"} /\ e.v = v
           /\ \A a : ReadsFrom(e, a) => a \in Args(prog, v)
           /\ e.i = "store" <=> Kind(v) = "constant"
<1>1. CASE Kind(v) = "constant"
  BY <1>1, OpFields DEF Fills, StoreOf, ReadsFrom
<1>2. CASE Kind(v) = "transpose"
  BY <1>2, OpFields, ProgramFacts DEF Fills, NestOf, ReadsFrom, Load
<1>3. CASE Kind(v) \in {"add", "mul"}
  BY <1>3, OpFields, ProgramFacts, SMTT(40) DEF Fills, NestOf, ReadsFrom, Load
<1> QED BY <1>1, <1>2, <1>3 DEF BufferKinds

(* An operation that was lowered names buffers only.                       *)
LEMMA LoweredFacts ==
    ASSUME prog \in Programs, NEW R, NEW c, RemapInv(R, c), NEW e, Lowered(e, R, c)
    PROVE  /\ e.i \in {"alloca", "dealloc", "store", "nest", "print", "printloops", "return"}
           /\ e.i # "return" => e.v \in R
           /\ \A a : ReadsFrom(e, a) => a \in R
           /\ e.i = "alloca" => e = Alloca(e.v)
           /\ e.i = "dealloc" => e = Dealloc(e.v)
           /\ e.i = "return" => e = FuncReturn
           /\ e.i \in {"store", "nest"} => Fills(e, e.v)
<1>1. \A v \in R : v \in 1 .. N /\ v \in Defs(prog) /\ v < c /\ Kind(v) \in BufferKinds
  BY ProgramFacts DEF RemapInv
<1>2. CASE \E v \in R : e = Alloca(v) \/ e = Dealloc(v)
  BY <1>2, OpFields DEF ReadsFrom
<1>3. CASE \E v \in R : Fills(e, v)
  <2>1. PICK v \in R : Fills(e, v)
    BY <1>3
  <2>2. Args(prog, v) \subseteq R
    BY <1>1 DEF RemapInv
  <2> QED BY <1>1, <2>1, <2>2, FillFacts
<1>4. CASE \E v \in Defs(prog) : v < c /\ Kind(v) = "print" /\ Prints(e, v)
  <2>1. PICK v \in Defs(prog) : v < c /\ Kind(v) = "print" /\ Prints(e, v)
    BY <1>4
  <2>2. Operand(v, 1) \in R
    BY <2>1, ProgramFacts DEF RemapInv
  <2> QED BY <2>1, <2>2, OpFields DEF Prints, ReadsFrom
<1>5. CASE e = FuncReturn
  BY <1>5, OpFields DEF ReadsFrom
<1> QED BY <1>2, <1>3, <1>4, <1>5 DEF Lowered

(* While the conversion runs an operation is lowered, or one of the source.*)
LEMMA ElementFacts ==
    ASSUME prog \in Programs, NEW b, NEW R, NEW c, RemapInv(R, c), ConvertInv(b, R, c),
           NEW n \in 1 .. Len(b)
    PROVE  /\ b[n].i \in {"alloca", "dealloc", "store", "nest", "print", "printloops",
                          "return", "toy"}
           /\ b[n].i = "toy" => b[n] = ToyOp(b[n].v) /\ b[n].v \in Defs(prog)
           /\ b[n].i # "toy" => Lowered(b[n], R, c)
           /\ \A a : ReadsFrom(b[n], a) => a \in R
<1>1. CASE Lowered(b[n], R, c)
  BY <1>1, LoweredFacts
<1>2. CASE \E v \in Defs(prog) : b[n] = ToyOp(v)
  BY <1>2, OpFields DEF ReadsFrom
<1> QED BY <1>1, <1>2 DEF ConvertInv

-----------------------------------------------------------------------------
(* The operations that get a buffer.                                       *)

(* The invariant holds of the block with the operations of v in it.        *)
LEMMA BufferedInv ==
    ASSUME prog \in Programs, NEW b, NEW R, NEW v \in 1 .. N,
           RemapInv(R, v), BlockInv(b, R, v), ConvertInv(b, R, v),
           Kind(v) \in BufferKinds, Args(prog, v) \subseteq R,
           NEW seq, \A j \in 1 .. Len(seq) : Fills(seq[j], v), Filled(seq, v),
           NEW r, NEW p \in 1 .. Len(b) - 1, b[p] = ToyOp(v),
           \A n \in 1 .. Len(b) : b[n] = ToyOp(v) => n = p,
           NEW at, NEW al, NEW de, NEW g,
           Placed(b, r, p, Alloca(v), Dealloc(v), seq, at, al, de, g)
    PROVE  /\ RemapInv(R \cup {v}, v + 1)
           /\ BlockInv(r, R \cup {v}, v + 1)
           /\ ConvertInv(r, R \cup {v}, v + 1)
<1> DEFINE Q == R \cup {v}
           L == Len(b)
           K == Len(seq)
           M == Len(r)
<1>1. /\ N \in Nat /\ N >= 1 /\ Defs(prog) = 1 .. N /\ v \in Nat /\ v >= 1
      /\ R \subseteq 1 .. v - 1 /\ v \notin R /\ v < N
      /\ v + 1 \in 2 .. N
  <2>1. v # N
    BY ProgramFacts DEF BufferKinds
  <2> QED BY <2>1, ProgramFacts DEF RemapInv
<1>2. RemapInv(Q, v + 1)
  <2>1. Q = {w \in 1 .. (v + 1) - 1 : Kind(w) \in BufferKinds}
    BY <1>1 DEF RemapInv
  <2>2. ASSUME NEW w \in Defs(prog), w < v + 1
        PROVE  /\ Args(prog, w) \subseteq Q
               /\ Kind(w) \in BufferKinds \cup {"print", "return"}
               /\ Kind(w) = "return" => prog.ops[w].args = << >>
    <3>1. w < v \/ w = v
      BY <1>1, <2>2
    <3> QED BY <3>1 DEF RemapInv, BufferKinds
  <2>3. v + 1 \in 1 .. N + 1
    BY <1>1
  <2> HIDE DEF Q
  <2> QED BY <2>1, <2>2, <2>3 DEF RemapInv
<1>3. /\ L \in Nat /\ M \in Nat /\ p \in 1 .. L /\ p # L
      /\ \A n \in 1 .. L : at[n] \in 1 .. M
      /\ \A j \in 1 .. K : g[j] \in 1 .. M
      /\ al \in 1 .. M /\ de \in 1 .. M
  <2>1. /\ L \in Nat /\ M \in Nat /\ al \in 1 .. M /\ de \in 1 .. M
        /\ at \in [1 .. L -> 1 .. M] /\ g \in [1 .. K -> 1 .. M]
    BY Zenon DEF Placed
  <2> HIDE DEF L, M, K
  <2>2. p \in 1 .. L - 1
    BY DEF L
  <2> QED BY SMTT(40), <2>1, <2>2
<1>4. ASSUME NEW q \in 1 .. M
      PROVE  \/ \E n \in 1 .. L : q = at[n] /\ r[q] = b[n]
             \/ q = al /\ r[q] = Alloca(v)
             \/ q = de /\ r[q] = Dealloc(v)
             \/ \E j \in 1 .. K : q = g[j] /\ Fills(r[q], v)
  <2>1. \/ q = al
        \/ q = de
        \/ \E n \in 1 .. L : q = at[n]
        \/ \E j \in 1 .. K : q = g[j]
    BY Zenon DEF Placed
  <2>2. /\ \A n \in 1 .. L : r[at[n]] = b[n]
        /\ \A j \in 1 .. K : r[g[j]] = seq[j]
        /\ r[al] = Alloca(v) /\ r[de] = Dealloc(v)
    BY Zenon DEF Placed
  <2> QED BY <2>1, <2>2
<1>5. /\ \A m, n \in 1 .. L : m < n <=> at[m] < at[n]
      /\ \A n \in 1 .. L : r[at[n]] = b[n]
      /\ al < de /\ \A j \in 1 .. K : al < g[j] /\ g[j] < de
      /\ \A n \in 1 .. L : IF n = 1 /\ p # 1 THEN at[n] < al ELSE al < at[n]
      /\ \A n \in 1 .. L : IF n = L THEN de < at[n] ELSE at[n] < de
      /\ \A n \in 1 .. L, j \in 1 .. K : IF n < p THEN at[n] < g[j] ELSE g[j] < at[n]
      /\ at[L] = M
      /\ p # 1 => at[1] = 1
      /\ p = 1 => al = 1
  BY Zenon DEF Placed
<1>6. ASSUME NEW n \in 1 .. L
      PROVE  /\ b[n].i \in {"alloca", "dealloc", "store", "nest", "print", "printloops",
                            "return", "toy"}
             /\ b[n].i = "toy" => b[n] = ToyOp(b[n].v) /\ b[n].v \in Defs(prog)
             /\ b[n].i # "toy" => Lowered(b[n], R, v)
             /\ \A a : ReadsFrom(b[n], a) => a \in R
             /\ b[n].i # "return"
             /\ b[n] = ToyOp(N) <=> n = L
             /\ b[n].i \in {"alloca", "dealloc", "store", "nest"} => b[n].v # v
  <2>1. b[n] # FuncReturn
    BY <1>1 DEF ConvertInv, Occurs
  <2>2. b[n].i = "return" => Lowered(b[n], R, v)
    BY ElementFacts
  <2>3. b[n].i # "return"
    BY <2>1, <2>2, LoweredFacts
  <2>4. b[n] = ToyOp(N) <=> n = L
    BY DEF ConvertInv
  <2>5. b[n].i \in {"alloca", "dealloc", "store", "nest"} => b[n].v # v
    <3> SUFFICES ASSUME b[n].i \in {"alloca", "dealloc", "store", "nest"} PROVE b[n].v \in R
      BY <1>1
    <3>1. Lowered(b[n], R, v)
      BY ElementFacts
    <3> QED BY <3>1, LoweredFacts
  <2> QED BY <2>3, <2>4, <2>5, ElementFacts
<1>7. ASSUME NEW e, Fills(e, v)
      PROVE  /\ e.i \in {"store", "nest"} /\ e.v = v
             /\ \A a : ReadsFrom(e, a) => a \in R
  BY <1>7, FillFacts
<1>8. p # 1 => b[1].i = "alloca"
  <2> SUFFICES ASSUME p # 1 PROVE b[1].i = "alloca"
    OBVIOUS
  <2>1. 1 \in 1 .. L
    BY <1>3
  <2>2. v # 1
    <3> SUFFICES ASSUME v = 1 PROVE FALSE
      OBVIOUS
    <3>1. R = {} /\ \A w \in Defs(prog) : ~ (w < v)
      BY <1>1
    <3>2. ~ Lowered(b[1], R, v)
      BY <3>1, <2>1, <1>6, OpFields DEF Lowered
    <3>3. b[1] = ToyOp(b[1].v) /\ b[1].v \in 1 .. N /\ b[1].v # v /\ b[1].i = "toy"
      BY <3>2, <1>1, <1>6, <2>1
    <3>4. Todo(b[1], v) /\ Todo(b[p], v) /\ b[p].v = v
      BY <3>3, <1>1, <1>3, OpFields DEF Todo
    <3>5. 1 < p <=> b[1].v < v
      BY <3>4, <2>1, <1>3 DEF ConvertInv, TodoInv
    <3> QED BY <3>3, <3>5, <1>1, <1>3
  <2>3. v \in 2 .. N
    BY <2>2, <1>1
  <2> QED BY <2>3 DEF ConvertInv
<1>9. Sorted(r)
  <2>1. Rank(Alloca(v)) = 1 /\ Rank(Dealloc(v)) = 3 /\ Rank(ToyOp(v)) = 2
    BY <1>1, OpFields DEF Rank
  <2>2. ASSUME NEW e, Fills(e, v) PROVE Rank(e) = 2
    BY <2>2, <1>7, OpFields DEF Rank
  <2>3. ASSUME NEW n \in 1 .. L
        PROVE  /\ Rank(b[n]) \in 1 .. 5
               /\ IF n = L THEN Rank(b[n]) = 5 ELSE Rank(b[n]) <= 3
               /\ n <= p => Rank(b[n]) <= 2
               /\ ~ (n < p) => Rank(b[n]) >= 2
               /\ n = 1 /\ p # 1 => Rank(b[n]) = 1
    <3>1. Rank(b[n]) \in 1 .. 5 /\ IF n = L THEN Rank(b[n]) = 5 ELSE Rank(b[n]) <= 3
      BY <1>6, OpFields DEF Rank
    <3>2. Rank(b[p]) = 2
      BY <2>1
    <3>3. (n < p => Rank(b[n]) <= 2) /\ (p < n => 2 <= Rank(b[n]))
      BY <3>2, <1>3 DEF BlockInv, Sorted
    <3>4. n = 1 /\ p # 1 => Rank(b[n]) = 1
      BY <1>8 DEF Rank
    <3> QED BY <3>1, <3>2, <3>3, <3>4, <1>3
  <2> SUFFICES ASSUME NEW x \in 1 .. M, NEW y \in 1 .. M, x < y
               PROVE  Rank(r[x]) <= Rank(r[y])
    BY DEF Sorted
  <2>4. CASE \E n \in 1 .. L : x = at[n] /\ r[x] = b[n]
    <3> PICK m \in 1 .. L : x = at[m] /\ r[x] = b[m]
      BY <2>4
    <3>1. CASE \E n \in 1 .. L : y = at[n] /\ r[y] = b[n]
      <4> PICK n \in 1 .. L : y = at[n] /\ r[y] = b[n]
        BY <3>1
      <4>1. m < n
        BY <1>5
      <4> QED BY <4>1 DEF BlockInv, Sorted
    <3>2. CASE y = al /\ r[y] = Alloca(v)
      <4>1. m = 1 /\ p # 1
        BY <3>2, <1>3, <1>5
      <4> QED BY <3>2, <4>1, <2>1, <2>3
    <3>3. CASE y = de /\ r[y] = Dealloc(v)
      <4>1. m # L
        BY <3>3, <1>3, <1>5
      <4> QED BY <3>3, <4>1, <2>1, <2>3
    <3>4. CASE \E j \in 1 .. K : y = g[j] /\ Fills(r[y], v)
      <4> PICK j \in 1 .. K : y = g[j] /\ Fills(r[y], v)
        BY <3>4
      <4>1. m < p
        BY SMTT(40), <1>3, <1>5
      <4> QED BY <4>1, <2>2, <2>3, <1>3
    <3> QED BY <3>1, <3>2, <3>3, <3>4, <1>4
  <2>5. CASE x = al /\ r[x] = Alloca(v)
    <3>1. Rank(r[y]) >= 1
      BY DEF Rank
    <3> QED BY <2>5, <2>1, <3>1
  <2>6. CASE x = de /\ r[x] = Dealloc(v)
    <3>1. CASE \E n \in 1 .. L : y = at[n] /\ r[y] = b[n]
      <4> PICK n \in 1 .. L : y = at[n] /\ r[y] = b[n]
        BY <3>1
      <4>1. n = L
        BY <2>6, <1>3, <1>5
      <4> QED BY <4>1, <2>1, <2>3, <2>6
    <3>2. ~ (y = al) /\ ~ (y = de) /\ \A j \in 1 .. K : ~ (y = g[j])
      BY <2>6, <1>3, <1>5
    <3> QED BY <3>1, <3>2, <1>4
  <2>7. CASE \E j \in 1 .. K : x = g[j] /\ Fills(r[x], v)
    <3> PICK j \in 1 .. K : x = g[j] /\ Fills(r[x], v)
      BY <2>7
    <3>1. CASE \E n \in 1 .. L : y = at[n] /\ r[y] = b[n]
      <4> PICK n \in 1 .. L : y = at[n] /\ r[y] = b[n]
        BY <3>1
      <4>1. ~ (n < p)
        <5> SUFFICES ASSUME n < p PROVE FALSE
          OBVIOUS
        <5>1. at[n] < g[j]
          BY <1>5
        <5> QED BY <5>1, <1>3
      <4> QED BY <4>1, <2>2, <2>3
    <3>2. y # al
      BY <1>3, <1>5
    <3>3. Rank(r[x]) = 2
      BY <2>2
    <3>4. CASE \E k \in 1 .. K : y = g[k] /\ Fills(r[y], v)
      BY <3>3, <3>4, <2>2
    <3>5. CASE y = de /\ r[y] = Dealloc(v)
      BY <3>3, <3>5, <2>1
    <3> QED BY <3>1, <3>2, <3>4, <3>5, <1>4
  <2> QED BY <2>4, <2>5, <2>6, <2>7, <1>4
<1>10. WritesFirst(r, Q)
  <2>1. ~ WritesTo(Alloca(v), v) /\ \A a : ~ WritesTo(Alloca(v), a) /\ ~ WritesTo(Dealloc(v), a)
    BY OpFields DEF WritesTo
  <2>2. \A a : ~ ReadsFrom(Alloca(v), a) /\ ~ ReadsFrom(Dealloc(v), a)
    BY OpFields DEF ReadsFrom
  <2> SUFFICES ASSUME NEW x \in 1 .. M, NEW y \in 1 .. M, NEW a \in Q,
                      ReadsFrom(r[x], a), WritesTo(r[y], a)
               PROVE  y < x
    BY DEF WritesFirst
  <2>3. a \in R
    <3>1. CASE \E n \in 1 .. L : x = at[n] /\ r[x] = b[n]
      BY <3>1, <1>6
    <3>2. CASE \E j \in 1 .. K : x = g[j] /\ Fills(r[x], v)
      BY <3>2, <1>7
    <3> QED BY <3>1, <3>2, <2>2, <1>4
  <2> PICK n \in 1 .. L : y = at[n] /\ r[y] = b[n]
    <3>1. a # v
      BY <2>3, <1>1
    <3>2. \A j \in 1 .. K : ~ (y = g[j] /\ Fills(r[y], v))
      BY <3>1, <1>7 DEF WritesTo
    <3> QED BY <3>2, <2>1, <1>4
  <2>4. CASE \E m \in 1 .. L : x = at[m] /\ r[x] = b[m]
    <3> PICK m \in 1 .. L : x = at[m] /\ r[x] = b[m]
      BY <2>4
    <3>1. n < m
      BY <2>3 DEF BlockInv, WritesFirst
    <3> QED BY <3>1, <1>5
  <2>5. CASE \E j \in 1 .. K : x = g[j] /\ Fills(r[x], v)
    <3> PICK j \in 1 .. K : x = g[j] /\ Fills(r[x], v)
      BY <2>5
    <3>1. b[n].i \in {"store", "nest"}
      BY DEF WritesTo
    <3>2. ~ Todo(b[n], v) /\ b[n].i # "dealloc"
      BY <3>1 DEF Todo
    <3>3. Todo(b[p], v) /\ b[p] # ToyOp(N)
      BY <1>1, <1>3, <1>6, OpFields, SMTT(40) DEF Todo
    <3>4. n < p
      BY <3>2, <3>3, <1>3 DEF ConvertInv, TodoInv
    <3> QED BY <3>4, <1>5
  <2> QED BY <2>2, <2>4, <2>5, <1>4
<1>11. ASSUME NEW e, Occurs(b, e) PROVE Occurs(r, e)
  BY <1>11, <1>3, <1>5, SMTT(40) DEF Occurs
<1>12. ASSUME NEW e, Once(b, e), ~ Fills(e, v), e # Alloca(v), e # Dealloc(v)
       PROVE  Once(r, e)
  <2> PICK n \in 1 .. L : b[n] = e /\ \A m \in 1 .. L : b[m] = e => m = n
    BY <1>12 DEF Once
  <2>1. at[n] \in 1 .. M /\ r[at[n]] = e
    BY <1>3, <1>5
  <2>2. ASSUME NEW q \in 1 .. M, r[q] = e PROVE q = at[n]
    BY <2>2, <1>4, <1>12
  <2> QED BY <2>1, <2>2 DEF Once
<1>13. Once(r, Alloca(v)) /\ Once(r, Dealloc(v))
  <2>1. \A n \in 1 .. L : b[n] # Alloca(v) /\ b[n] # Dealloc(v)
    BY <1>6, OpFields
  <2>2. ~ Fills(Alloca(v), v) /\ ~ Fills(Dealloc(v), v) /\ Alloca(v) # Dealloc(v)
    BY <1>7, OpFields
  <2>3. r[al] = Alloca(v) /\ r[de] = Dealloc(v)
    BY Zenon DEF Placed
  <2>4. ASSUME NEW q \in 1 .. M
        PROVE  (r[q] = Alloca(v) => q = al) /\ (r[q] = Dealloc(v) => q = de)
    BY SMTT(40), <2>1, <2>2, <1>4
  <2> QED BY <2>3, <2>4, <1>3 DEF Once
<1>14. Filled(r, v)
  <2>1. ASSUME NEW e, Occurs(seq, e) PROVE Occurs(r, e)
    <3> PICK j \in 1 .. K : seq[j] = e
      BY <2>1 DEF Occurs
    <3>1. \A k \in 1 .. K : r[g[k]] = seq[k]
      BY Zenon DEF Placed
    <3> QED BY <3>1, <1>3 DEF Occurs
  <2> QED BY <2>1 DEF Filled
<1>15. ASSUME NEW a \in R
       PROVE  Once(r, Alloca(a)) /\ Once(r, Dealloc(a)) /\ Filled(r, a)
  <2>1. Once(b, Alloca(a)) /\ Once(b, Dealloc(a)) /\ Filled(b, a)
    BY DEF BlockInv, Complete
  <2>2. /\ ~ Fills(Alloca(a), v) /\ ~ Fills(Dealloc(a), v)
        /\ Alloca(a) # Alloca(v) /\ Alloca(a) # Dealloc(v)
        /\ Dealloc(a) # Alloca(v) /\ Dealloc(a) # Dealloc(v)
    BY SMTT(40), <1>1, <1>7, OpFields
  <2>3. Once(r, Alloca(a)) /\ Once(r, Dealloc(a))
    BY <2>1, <2>2, <1>12
  <2>4. Filled(r, a)
    BY <2>1, <1>11 DEF Filled
  <2> QED BY <2>3, <2>4
<1>16. ASSUME NEW w \in Defs(prog), w < v + 1, Kind(w) = "print"
       PROVE  \E n \in 1 .. M : Prints(r[n], w)
  <2>1. w < v
    <3>1. w # v
      BY <1>16 DEF BufferKinds
    <3> QED BY <3>1, <1>1, <1>16
  <2> PICK n \in 1 .. L : Prints(b[n], w)
    BY <2>1, <1>16 DEF BlockInv, Complete
  <2> QED BY <1>3, <1>5
<1>17. BlockInv(r, Q, v + 1)
  <2>1. r \in Seq(ToSet(r))
    BY Zenon DEF Placed
  <2>2. r # << >>
    BY <1>3
  <2>3. Complete(r, Q, v + 1)
    BY <1>13, <1>14, <1>15, <1>16 DEF Complete
  <2> QED BY <2>1, <2>2, <2>3, <1>9, <1>10 DEF BlockInv
<1>18. ASSUME NEW q \in 1 .. M
       PROVE  Lowered(r[q], Q, v + 1) \/ \E w \in Defs(prog) : r[q] = ToyOp(w)
  <2>1. CASE \E n \in 1 .. L : q = at[n] /\ r[q] = b[n]
    <3> PICK n \in 1 .. L : r[q] = b[n]
      BY <2>1
    <3>1. Lowered(b[n], R, v) => Lowered(b[n], Q, v + 1)
      <4>1. \A w \in Defs(prog) : w < v => w < v + 1
        BY <1>1
      <4> QED BY <4>1 DEF Lowered
    <3> QED BY <3>1, <1>6
  <2>2. CASE r[q] = Alloca(v) \/ r[q] = Dealloc(v) \/ Fills(r[q], v)
    BY <2>2 DEF Lowered
  <2> QED BY <2>1, <2>2, <1>4
<1>19. TodoInv(r, v + 1)
  <2>1. ASSUME NEW w \in Defs(prog), w >= v + 1 PROVE Once(r, ToyOp(w))
    <3>1. Once(b, ToyOp(w))
      <4>1. w >= v
        BY <2>1, <1>1
      <4> QED BY <4>1 DEF ConvertInv, TodoInv
    <3>2. ~ Fills(ToyOp(w), v) /\ ToyOp(w) # Alloca(v) /\ ToyOp(w) # Dealloc(v)
      BY <1>7, OpFields
    <3> QED BY <3>1, <3>2, <1>12
  <2>2. ASSUME NEW q \in 1 .. M, Todo(r[q], v + 1)
        PROVE  \E n \in 1 .. L : /\ q = at[n] /\ r[q] = b[n]
                                 /\ Todo(b[n], v) /\ b[n].v \in 1 .. N /\ v < b[n].v
    <3>1. ~ (r[q] = Alloca(v)) /\ ~ (r[q] = Dealloc(v)) /\ ~ Fills(r[q], v)
      BY <2>2, <1>7, OpFields DEF Todo
    <3> PICK n \in 1 .. L : q = at[n] /\ r[q] = b[n]
      BY <3>1, <1>4
    <3>2. b[n].i = "toy" /\ b[n].v >= v + 1 /\ b[n].v \in 1 .. N
      BY <2>2, <1>1, <1>6 DEF Todo
    <3>3. Todo(b[n], v) /\ v < b[n].v
      BY <3>2, <1>1, SMTT(40) DEF Todo
    <3> QED BY <3>2, <3>3
  <2>3. ASSUME NEW x \in 1 .. M, NEW y \in 1 .. M, Todo(r[x], v + 1), Todo(r[y], v + 1)
        PROVE  x < y <=> r[x].v < r[y].v
    <3> PICK m \in 1 .. L : x = at[m] /\ r[x] = b[m] /\ Todo(b[m], v)
      BY <2>2, <2>3
    <3> PICK n \in 1 .. L : y = at[n] /\ r[y] = b[n] /\ Todo(b[n], v)
      BY <2>2, <2>3
    <3>1. m < n <=> b[m].v < b[n].v
      BY DEF ConvertInv, TodoInv
    <3> QED BY <3>1, <1>5
  <2>4. ASSUME NEW x \in 1 .. M, NEW y \in 1 .. M, ~ Todo(r[x], v + 1), Todo(r[y], v + 1),
               r[y] # ToyOp(N), r[x].i # "dealloc"
        PROVE  x < y
    <3> PICK n \in 1 .. L : /\ y = at[n] /\ r[y] = b[n]
                            /\ Todo(b[n], v) /\ b[n].v \in 1 .. N /\ v < b[n].v
      BY <2>2, <2>4
    <3>1. p < n
      <4>1. Todo(b[p], v) /\ b[p].v = v
        BY <1>1, OpFields DEF Todo
      <4>2. p < n <=> b[p].v < b[n].v
        BY <4>1, <1>3 DEF ConvertInv, TodoInv
      <4> QED BY <4>1, <4>2
    <3>2. CASE \E m \in 1 .. L : x = at[m] /\ r[x] = b[m]
      <4> PICK m \in 1 .. L : x = at[m] /\ r[x] = b[m]
        BY <3>2
      <4>1. CASE Todo(b[m], v)
        <5>1. b[m].i = "toy" /\ b[m] = ToyOp(b[m].v) /\ b[m].v \in 1 .. N
          BY <4>1, <1>1, <1>6 DEF Todo
        <5>2. b[m].v = v
          BY <4>1, <5>1, <2>4, <1>1, SMTT(40) DEF Todo
        <5>3. m = p
          BY <5>1, <5>2
        <5> QED BY <5>3, <3>1, <1>5
      <4>2. CASE ~ Todo(b[m], v)
        <5>1. m < n
          BY <4>2, <2>4 DEF ConvertInv, TodoInv
        <5> QED BY <5>1, <1>5
      <4> QED BY <4>1, <4>2
    <3>3. CASE x = al
      <4>1. n # 1
        BY <3>1, <1>3
      <4> QED BY <3>3, <4>1, <1>5
    <3>4. CASE \E j \in 1 .. K : x = g[j]
      <4> PICK j \in 1 .. K : x = g[j]
        BY <3>4
      <4>1. ~ (n < p)
        BY <3>1, <1>3
      <4> QED BY <4>1, <1>5
    <3>5. ~ (r[x] = Dealloc(v))
      BY <2>4, OpFields
    <3> QED BY <3>2, <3>3, <3>4, <3>5, <1>4
  <2> QED BY <2>1, <2>3, <2>4 DEF TodoInv
<1>20. r[1].i = "alloca"
  <2>1. CASE p = 1
    <3>1. r[al] = Alloca(v)
      BY Zenon DEF Placed
    <3> QED BY <2>1, <3>1, <1>5, OpFields
  <2>2. CASE p # 1
    <3>1. 1 \in 1 .. L
      BY <1>3
    <3> QED BY <2>2, <3>1, <1>5, <1>8
  <2> QED BY <2>1, <2>2
<1>21. ASSUME NEW q \in 1 .. M PROVE r[q] = ToyOp(N) <=> q = M
  <2>1. L \in 1 .. L /\ b[L] = ToyOp(N) /\ r[at[L]] = b[L]
    BY <1>3, <1>5, <1>6
  <2>2. ASSUME r[q] = ToyOp(N) PROVE q = M
    <3>1. ~ (r[q] = Alloca(v)) /\ ~ (r[q] = Dealloc(v)) /\ ~ Fills(r[q], v)
      BY <2>2, <1>7, OpFields
    <3> PICK n \in 1 .. L : q = at[n] /\ r[q] = b[n]
      BY <3>1, <1>4
    <3>2. n = L
      BY <2>2, <1>6
    <3> QED BY <3>2, <1>5
  <2> QED BY <2>1, <2>2, <1>5
<1>22. ~ Occurs(r, FuncReturn)
  <2> SUFFICES ASSUME NEW q \in 1 .. M, r[q] = FuncReturn PROVE FALSE
    BY DEF Occurs
  <2>1. ~ (r[q] = Alloca(v)) /\ ~ (r[q] = Dealloc(v)) /\ ~ Fills(r[q], v)
    BY <1>7, OpFields
  <2> PICK n \in 1 .. L : q = at[n] /\ r[q] = b[n]
    BY <2>1, <1>4
  <2> QED BY <1>6, OpFields
<1>23. ConvertInv(r, Q, v + 1)
  <2>1. v + 1 <= N
    BY <1>1
  <2> QED BY <2>1, <1>18, <1>19, <1>20, <1>21, <1>22 DEF ConvertInv
<1> QED BY <1>2, <1>17, <1>23

-----------------------------------------------------------------------------
(* The print and the return.                                               *)

(* A print is replaced where it stands.                                    *)
LEMMA PrintedInv ==
    ASSUME prog \in Programs, NEW b, NEW R, NEW v \in 1 .. N,
           RemapInv(R, v), BlockInv(b, R, v), ConvertInv(b, R, v),
           Kind(v) = "print", Operand(v, 1) \in R
    PROVE  LET r == [n \in DOMAIN b |->
                        IF b[n] = ToyOp(v) THEN PrintBuf(Operand(v, 1)) ELSE b[n]]
           IN  RemapInv(R, v + 1) /\ BlockInv(r, R, v + 1) /\ ConvertInv(r, R, v + 1)
<1> DEFINE a == Operand(v, 1)
           L == Len(b)
           r == [n \in DOMAIN b |-> IF b[n] = ToyOp(v) THEN PrintBuf(a) ELSE b[n]]
<1>1. /\ N \in Nat /\ N >= 1 /\ Defs(prog) = 1 .. N /\ v \in Nat /\ v < N
      /\ R \subseteq 1 .. v - 1 /\ v + 1 \in 2 .. N /\ v \in 2 .. N
  <2>1. v # N
    BY ProgramFacts
  <2>2. R \subseteq 1 .. v - 1
    BY DEF RemapInv
  <2>3. N \in Nat /\ N >= 1 /\ Defs(prog) = 1 .. N
    BY ProgramFacts
  <2>4. a \in 1 .. v - 1
    BY <2>2
  <2> QED BY <2>1, <2>2, <2>3, <2>4
<1>2. L \in Nat /\ L >= 1 /\ DOMAIN b = 1 .. L
  BY DEF BlockInv
<1> PICK p \in 1 .. L : b[p] = ToyOp(v) /\ \A n \in 1 .. L : b[n] = ToyOp(v) => n = p
  BY <1>1 DEF ConvertInv, TodoInv, Once
<1>3. /\ r[p] = PrintBuf(a) /\ \A n \in 1 .. L : n # p => r[n] = b[n]
      /\ Len(r) = L /\ r \in Seq(ToSet(r)) /\ r # << >>
  <2>1. r[p] = PrintBuf(a) /\ \A n \in 1 .. L : n # p => r[n] = b[n]
    BY <1>2
  <2>2. Len(r) = L
    <3>1. DOMAIN r = 1 .. L
      BY <1>2
    <3> HIDE DEF r, L
    <3> QED BY <1>2, <3>1
  <2>3. r \in Seq(ToSet(r))
    <3>1. r = [n \in 1 .. L |-> r[n]] /\ \A n \in 1 .. L : r[n] \in ToSet(r)
      BY <1>2 DEF ToSet
    <3> HIDE DEF r, L
    <3>2. r \in [1 .. L -> ToSet(r)]
      BY <3>1
    <3> QED BY <3>2, <1>2, SeqDef
  <2> QED BY <2>1, <2>2, <2>3, <1>2
<1> HIDE DEF r
<1>4. p # L /\ p \in 1 .. L
  <2>1. b[p] = ToyOp(N) <=> p = L
    BY DEF ConvertInv
  <2>2. ToyOp(v) # ToyOp(N)
    BY <1>1, OpFields
  <2> QED BY <2>1, <2>2
<1>5. /\ PrintBuf(a).i = "print" /\ PrintBuf(a).v = a
      /\ b[p].i = "toy" /\ b[p].v = v /\ b[p] # ToyOp(N)
  <2>1. PrintBuf(a).i = "print" /\ PrintBuf(a).v = a
    BY OpFields
  <2>2. b[p].i = "toy" /\ b[p].v = v
    BY OpFields
  <2> QED BY <2>1, <2>2, <1>1, OpFields
<1>6. RemapInv(R, v + 1)
  <2>1. R = {w \in 1 .. (v + 1) - 1 : Kind(w) \in BufferKinds}
    BY <1>1 DEF RemapInv, BufferKinds
  <2>2. ASSUME NEW w \in Defs(prog), w < v + 1
        PROVE  /\ Args(prog, w) \subseteq R
               /\ Kind(w) \in BufferKinds \cup {"print", "return"}
               /\ Kind(w) = "return" => prog.ops[w].args = << >>
    <3>1. w < v \/ w = v
      BY <1>1, <2>2
    <3>2. Args(prog, v) \subseteq R
      <4>1. prog.ops[v] \in Op /\ Len(prog.ops[v].args) = 1
        BY <1>1, ProgramsAreInferred DEF WellFormed, ArityOK, Kind, N
      <4>2. prog.ops[v].args \in Seq(Nat)
        BY <4>1 DEF Op
      <4>3. Args(prog, v) = {a}
        <5> DEFINE args == prog.ops[v].args
        <5>1. args \in Seq(Nat) /\ Len(args) = 1 /\ Args(prog, v) = {args[n] : n \in DOMAIN args}
          BY <4>1, <4>2 DEF Args, ToSet
        <5>2. a = args[1]
          BY DEF Operand
        <5> HIDE DEF args
        <5> QED BY <5>1, <5>2
      <4> QED BY <4>3
    <3> QED BY <3>1, <3>2 DEF RemapInv
  <2>3. v + 1 \in 1 .. N + 1
    BY <1>1
  <2> QED BY <2>1, <2>2, <2>3 DEF RemapInv
<1>7. Sorted(r)
  <2>1. Rank(r[p]) = 2 /\ Rank(b[p]) = 2
    BY <1>3, <1>5, OpFields DEF Rank
  <2>2. \A n \in 1 .. L : Rank(r[n]) = Rank(b[n])
    BY <1>3, <2>1
  <2> QED BY <2>2, <1>3 DEF BlockInv, Sorted
<1>8. \A n \in 1 .. L : r[n] = b[n] \/ (n = p /\ r[n] = PrintBuf(a))
  BY <1>3
<1>9. WritesFirst(r, R)
  <2> SUFFICES ASSUME NEW x \in 1 .. L, NEW y \in 1 .. L, NEW c \in R,
                      ReadsFrom(r[x], c), WritesTo(r[y], c)
               PROVE  y < x
    BY <1>3 DEF WritesFirst
  <2>1. r[y] = b[y]
    BY <1>5, <1>8 DEF WritesTo
  <2>2. CASE r[x] = b[x]
    BY <2>1, <2>2 DEF BlockInv, WritesFirst
  <2>3. CASE x = p
    <3>1. ~ Todo(b[y], v) /\ b[y].i # "dealloc"
      BY <2>1 DEF WritesTo, Todo
    <3>2. Todo(b[p], v)
      BY <1>1, <1>5 DEF Todo
    <3> QED BY <2>3, <3>1, <3>2, <1>5 DEF ConvertInv, TodoInv
  <2> QED BY <2>2, <2>3, <1>8
<1>10. ASSUME NEW e, Occurs(b, e), e # ToyOp(v) PROVE Occurs(r, e)
  BY <1>10, <1>3 DEF Occurs
<1>11. ASSUME NEW e, Once(b, e), e # ToyOp(v), e # PrintBuf(a) PROVE Once(r, e)
  <2> PICK n \in 1 .. L : b[n] = e /\ \A m \in 1 .. L : b[m] = e => m = n
    BY <1>11 DEF Once
  <2>1. r[n] = e
    BY <1>11, <1>3
  <2>2. ASSUME NEW m \in 1 .. L, r[m] = e PROVE m = n
    BY <2>2, <1>8, <1>11
  <2> QED BY <2>1, <2>2, <1>3 DEF Once
<1>12. BlockInv(r, R, v + 1)
  <2>1. ASSUME NEW c \in R PROVE Once(r, Alloca(c)) /\ Once(r, Dealloc(c)) /\ Filled(r, c)
    <3>1. Once(b, Alloca(c)) /\ Once(b, Dealloc(c)) /\ Filled(b, c)
      BY DEF BlockInv, Complete
    <3>2. Once(r, Alloca(c)) /\ Once(r, Dealloc(c))
      BY <3>1, <1>11, OpFields
    <3>3. Filled(r, c)
      <4>1. \A k : StoreOf(c, k) # ToyOp(v)
        BY OpFields DEF StoreOf
      <4>2. NestOf(c) # ToyOp(v)
        BY OpFields DEF NestOf
      <4> QED BY <3>1, <4>1, <4>2, <1>10 DEF Filled
    <3> QED BY <3>2, <3>3
  <2>2. ASSUME NEW w \in Defs(prog), w < v + 1, Kind(w) = "print"
        PROVE  \E n \in 1 .. Len(r) : Prints(r[n], w)
    <3>1. CASE w = v
      BY <3>1, <1>3 DEF Prints
    <3>2. CASE w # v
      <4>1. w < v
        BY <3>2, <2>2, <1>1
      <4> PICK n \in 1 .. L : Prints(b[n], w)
        BY <4>1, <2>2 DEF BlockInv, Complete
      <4>2. n # p
        BY OpFields DEF Prints
      <4> QED BY <4>2, <1>3
    <3> QED BY <3>1, <3>2
  <2> QED BY <2>1, <2>2, <1>3, <1>7, <1>9 DEF BlockInv, Complete
<1>13. ASSUME NEW n \in 1 .. L
       PROVE  Lowered(r[n], R, v + 1) \/ \E w \in Defs(prog) : r[n] = ToyOp(w)
  <2>1. CASE r[n] = b[n]
    <3>1. Lowered(b[n], R, v) => Lowered(b[n], R, v + 1)
      <4>1. \A w \in Defs(prog) : w < v => w < v + 1
        BY <1>1
      <4> QED BY <4>1 DEF Lowered
    <3> QED BY <2>1, <3>1 DEF ConvertInv
  <2>2. CASE r[n] = PrintBuf(a)
    <3>1. v \in Defs(prog) /\ v < v + 1 /\ Prints(r[n], v)
      BY <2>2, <1>1 DEF Prints
    <3> QED BY <3>1 DEF Lowered
  <2> QED BY <2>1, <2>2, <1>8
<1>14. TodoInv(r, v + 1)
  <2>1. ASSUME NEW w \in Defs(prog), w >= v + 1 PROVE Once(r, ToyOp(w))
    <3>1. w >= v /\ w # v
      BY <2>1, <1>1
    <3>2. Once(b, ToyOp(w))
      BY <3>1 DEF ConvertInv, TodoInv
    <3> QED BY <3>1, <3>2, <1>11, OpFields
  <2>2. ASSUME NEW n \in 1 .. L, Todo(r[n], v + 1)
        PROVE  r[n] = b[n] /\ Todo(b[n], v) /\ v < b[n].v
    <3>1. r[n] = b[n] /\ b[n].i = "toy" /\ b[n].v >= v + 1
      BY <2>2, <1>5, <1>8 DEF Todo
    <3>2. b[n].v \in 1 .. N
      BY <3>1, <1>1, ElementFacts
    <3> QED BY <3>1, <3>2, <1>1 DEF Todo
  <2>3. ASSUME NEW x \in 1 .. L, NEW y \in 1 .. L, Todo(r[x], v + 1), Todo(r[y], v + 1)
        PROVE  x < y <=> r[x].v < r[y].v
    BY <2>2, <2>3 DEF ConvertInv, TodoInv
  <2>4. ASSUME NEW x \in 1 .. L, NEW y \in 1 .. L, ~ Todo(r[x], v + 1), Todo(r[y], v + 1),
               r[y] # ToyOp(N), r[x].i # "dealloc"
        PROVE  x < y
    <3>1. r[y] = b[y] /\ Todo(b[y], v) /\ v < b[y].v
      BY <2>2, <2>4
    <3>2. CASE x = p
      <4>1. Todo(b[p], v)
        BY <1>1, <1>5 DEF Todo
      <4> QED BY <3>1, <3>2, <4>1, <1>5 DEF ConvertInv, TodoInv
    <3>3. CASE x # p
      <4>1. r[x] = b[x]
        BY <3>3, <1>3
      <4>2. ~ Todo(b[x], v)
        <5> SUFFICES ASSUME Todo(b[x], v) PROVE FALSE
          OBVIOUS
        <5>1. b[x].i = "toy" /\ b[x].v \in 1 .. N /\ b[x] = ToyOp(b[x].v)
          BY <1>1, ElementFacts DEF Todo
        <5>2. b[x].v = v
          BY <2>4, <4>1, <5>1, <1>1 DEF Todo
        <5> QED BY <5>1, <5>2, <3>3
      <4> QED BY <2>4, <3>1, <4>1, <4>2 DEF ConvertInv, TodoInv
    <3> QED BY <3>2, <3>3
  <2> QED BY <2>1, <2>3, <2>4, <1>3 DEF TodoInv
<1>15. r[1].i = "alloca"
  <2>1. v \in 2 .. N
    BY <1>1
  <2>2. b[1].i = "alloca"
    BY <2>1 DEF ConvertInv
  <2>3. 1 \in 1 .. L
    BY <1>2
  <2> QED BY <2>2, <2>3, <1>3, <1>5
<1>16. ASSUME NEW n \in 1 .. L PROVE (r[n] = ToyOp(N) <=> n = L) /\ r[n] # FuncReturn
  <2>1. (b[n] = ToyOp(N) <=> n = L) /\ b[n] # FuncReturn
    BY <1>1, SMTT(40) DEF ConvertInv, Occurs
  <2>2. PrintBuf(a) # ToyOp(N) /\ PrintBuf(a) # FuncReturn
    BY OpFields
  <2> QED BY <2>1, <2>2, <1>3, <1>4
<1>17. ConvertInv(r, R, v + 1)
  <2>1. v + 1 <= N /\ ~ Occurs(r, FuncReturn)
    BY <1>1, <1>3, <1>16 DEF Occurs
  <2>2. /\ \A n \in 1 .. Len(r) : Lowered(r[n], R, v + 1) \/ \E w \in Defs(prog) : r[n] = ToyOp(w)
        /\ \A n \in 1 .. Len(r) : r[n] = ToyOp(N) <=> n = Len(r)
    <3> HIDE DEF L
    <3> QED BY <1>3, <1>13, <1>16
  <2> QED BY <2>1, <2>2, <1>14, <1>15 DEF ConvertInv
<1> QED BY <1>6, <1>12, <1>17 DEF r

(* Before, for a single operation.                                         *)
LEMMA BeforeOne ==
    ASSUME NEW S, NEW b \in Seq(S), NEW v, NEW e \in S,
           NEW p \in 1 .. Len(b), b[p] = ToyOp(v),
           \A n \in 1 .. Len(b) : b[n] = ToyOp(v) => n = p
    PROVE  /\ Before(b, v, <<e>>) \in Seq(S)
           /\ Len(Before(b, v, <<e>>)) = Len(b) + 1
           /\ \A n \in 1 .. p - 1 : Before(b, v, <<e>>)[n] = b[n]
           /\ Before(b, v, <<e>>)[p] = e
           /\ Before(b, v, <<e>>)[p + 1] = b[p]
<1> DEFINE seq == <<e>>
<1>1. seq \in Seq(S)
  OBVIOUS
<1>9. Len(seq) = 1 /\ seq[1] = e
  OBVIOUS
<1> HIDE DEF seq
<1>2. Before(b, v, seq) \in Seq(S) /\ Len(Before(b, v, seq)) = Len(b) + Len(seq)
  BY <1>1, BeforeAt
<1>3. \A n \in 1 .. p - 1 : Before(b, v, seq)[n] = b[n]
  BY <1>1, BeforeAt
<1>4. \A j \in 1 .. Len(seq) : Before(b, v, seq)[(p - 1) + j] = seq[j]
  BY <1>1, BeforeAt
<1>5. \A n \in p .. Len(b) : Before(b, v, seq)[n + Len(seq)] = b[n]
  BY <1>1, BeforeAt
<1>6. 1 \in 1 .. Len(seq) /\ (p - 1) + 1 = p /\ p \in p .. Len(b)
  BY <1>9
<1>7. Before(b, v, seq)[p] = e
  BY <1>4, <1>6, <1>9
<1>8. Before(b, v, seq)[p + 1] = b[p]
  BY <1>5, <1>6, <1>9
<1> QED BY <1>9, <1>2, <1>3, <1>7, <1>8 DEF seq

(* The return goes in front of the toy.return, which is last.              *)
LEMMA ReturnedInv ==
    ASSUME prog \in Programs, NEW b, NEW R,
           RemapInv(R, N), BlockInv(b, R, N), ConvertInv(b, R, N), Args(prog, N) = {}
    PROVE  /\ RemapInv(R, N + 1)
           /\ BlockInv(Before(b, N, <<FuncReturn>>), R, N + 1)
           /\ ConvertInv(Before(b, N, <<FuncReturn>>), R, N + 1)
<1> DEFINE L == Len(b)
           r == Before(b, N, <<FuncReturn>>)
<1>1. N \in Nat /\ N >= 1 /\ Defs(prog) = 1 .. N /\ Kind(N) = "return"
  BY ProgramFacts, OpFields
<1>2. L \in Nat /\ L >= 1 /\ b \in Seq(ToSet(b))
  BY DEF BlockInv
<1>3. \A n \in 1 .. L : b[n] = ToyOp(N) <=> n = L
  BY DEF ConvertInv
<1>4. ASSUME NEW n \in 1 .. L
      PROVE  b[n] # FuncReturn /\ b[n].i # "return" /\ (b[n].i # "toy" => Lowered(b[n], R, N))
  <2>1. b[n] # FuncReturn
    BY <1>1 DEF ConvertInv, Occurs
  <2> QED BY <2>1, ElementFacts, LoweredFacts
<1>5. /\ r \in Seq(ToSet(r)) /\ Len(r) = L + 1
      /\ \A n \in 1 .. L - 1 : r[n] = b[n]
      /\ r[L] = FuncReturn /\ r[L + 1] = ToyOp(N)
  <2> DEFINE S == ToSet(b) \cup {FuncReturn}
  <2>1. b \in Seq(S)
    BY <1>2, SeqMonotonic
  <2>2. FuncReturn \in S
    OBVIOUS
  <2> HIDE DEF S
  <2>3. L \in 1 .. Len(b) /\ b[L] = ToyOp(N)
    BY <1>2, <1>3
  <2>4. \A n \in 1 .. Len(b) : b[n] = ToyOp(N) => n = L
    BY <1>3
  <2>5. L = Len(b)
    OBVIOUS
  <2> HIDE DEF L
  <2>6. r \in Seq(S) /\ Len(r) = Len(b) + 1
    BY <2>1, <2>2, <2>3, <2>4, BeforeOne
  <2>7. \A n \in 1 .. L - 1 : r[n] = b[n]
    BY <2>1, <2>2, <2>3, <2>4, BeforeOne
  <2>8. r[L] = FuncReturn /\ r[L + 1] = b[L]
    BY <2>1, <2>2, <2>3, <2>4, BeforeOne
  <2> HIDE DEF r
  <2> QED BY <2>3, <2>5, <2>6, <2>7, <2>8, SeqOfElements
<1> HIDE DEF r, L
<1>6. ASSUME NEW q \in 1 .. L + 1
      PROVE  \/ q \in 1 .. L - 1 /\ q \in 1 .. L /\ r[q] = b[q]
             \/ q = L /\ r[q] = FuncReturn
             \/ q = L + 1 /\ r[q] = ToyOp(N)
  <2>1. q \in 1 .. L - 1 \/ q = L \/ q = L + 1
    BY <1>2
  <2> QED BY <2>1, <1>2, <1>5
<1>7. RemapInv(R, N + 1)
  <2>1. R = {w \in 1 .. (N + 1) - 1 : Kind(w) \in BufferKinds}
    BY <1>1 DEF RemapInv, BufferKinds
  <2>2. prog.ops[N].args = << >>
    <3>1. prog.ops[N] \in Op
      BY <1>1, ProgramsAreInferred DEF WellFormed, N
    <3> DEFINE args == prog.ops[N].args
    <3>2. args \in Seq(Nat) /\ {args[n] : n \in DOMAIN args} = {}
      BY <3>1 DEF Op, Args, ToSet
    <3> HIDE DEF args
    <3>3. Len(args) = 0
      <4>1. Len(args) \in Nat /\ DOMAIN args = 1 .. Len(args)
        BY <3>2
      <4>2. \A n : n \notin DOMAIN args
        BY <3>2
      <4> QED BY <4>1, <4>2
    <3>4. args = << >>
      BY <3>2, <3>3
    <3> QED BY <3>3 DEF args
  <2>3. ASSUME NEW w \in Defs(prog), w < N + 1
        PROVE  /\ Args(prog, w) \subseteq R
               /\ Kind(w) \in BufferKinds \cup {"print", "return"}
               /\ Kind(w) = "return" => prog.ops[w].args = << >>
    <3>1. w < N \/ w = N
      BY <1>1
    <3> QED BY <3>1, <2>2, <1>1 DEF RemapInv
  <2>4. N + 1 \in 1 .. N + 1
    BY <1>1
  <2> QED BY <2>1, <2>3, <2>4 DEF RemapInv
<1>8. Sorted(r)
  <2>1. Rank(FuncReturn) = 4 /\ Rank(ToyOp(N)) = 5
    BY OpFields DEF Rank
  <2>2. ASSUME NEW n \in 1 .. L - 1 PROVE Rank(b[n]) <= 3
    <3>1. b[n].i # "return" /\ b[n] # ToyOp(N)
      BY <1>2, <1>3, <1>4 DEF L
    <3> QED BY <3>1 DEF Rank
  <2> SUFFICES ASSUME NEW x \in 1 .. L + 1, NEW y \in 1 .. L + 1, x < y
               PROVE  Rank(r[x]) <= Rank(r[y])
    BY <1>5 DEF Sorted
  <2>3. CASE y \in 1 .. L - 1
    <3>1. x \in 1 .. L - 1 /\ x \in 1 .. L /\ y \in 1 .. L
      BY <2>3, <1>2
    <3>2. Rank(b[x]) <= Rank(b[y])
      BY <3>1 DEF BlockInv, Sorted, L
    <3> QED BY <2>3, <3>1, <3>2, <1>5
  <2>4. CASE y = L
    <3>1. x \in 1 .. L - 1
      BY <2>4, <1>2
    <3>2. r[x] = b[x] /\ r[y] = FuncReturn /\ Rank(b[x]) <= 3
      BY <2>2, <2>4, <3>1, <1>5
    <3>3. Rank(b[x]) \in 1 .. 5
      BY DEF Rank
    <3> QED BY <2>1, <3>2, <3>3
  <2>5. CASE y = L + 1
    <3>1. Rank(r[x]) \in 1 .. 5
      BY DEF Rank
    <3> QED BY <2>1, <2>5, <3>1, <1>5
  <2> QED BY <2>3, <2>4, <2>5, <1>6
<1>9. WritesFirst(r, R)
  <2> SUFFICES ASSUME NEW x \in 1 .. L + 1, NEW y \in 1 .. L + 1, NEW c \in R,
                      ReadsFrom(r[x], c), WritesTo(r[y], c)
               PROVE  y < x
    BY <1>5 DEF WritesFirst
  <2>1. ~ ReadsFrom(FuncReturn, c) /\ ~ ReadsFrom(ToyOp(N), c)
    BY OpFields DEF ReadsFrom
  <2>2. ~ WritesTo(FuncReturn, c) /\ ~ WritesTo(ToyOp(N), c)
    BY OpFields DEF WritesTo
  <2>3. x \in 1 .. L /\ y \in 1 .. L /\ r[x] = b[x] /\ r[y] = b[y]
    BY <2>1, <2>2, <1>6
  <2> QED BY <2>3 DEF BlockInv, WritesFirst, L
<1>10. ASSUME NEW e, Occurs(b, e) PROVE Occurs(r, e)
  <2> PICK n \in 1 .. L : b[n] = e
    BY <1>10 DEF Occurs, L
  <2>1. CASE n = L
    <3>1. e = r[L + 1] /\ L + 1 \in 1 .. L + 1
      BY <2>1, <1>2, <1>3, <1>5 DEF L
    <3> QED BY <3>1, <1>5 DEF Occurs
  <2>2. CASE n # L
    <3>1. n \in 1 .. L - 1 /\ n \in 1 .. L + 1
      BY <2>2, <1>2
    <3> QED BY <3>1, <1>5 DEF Occurs
  <2> QED BY <2>1, <2>2
<1>11. ASSUME NEW e, Once(b, e), e # FuncReturn, e # ToyOp(N) PROVE Once(r, e)
  <2> PICK n \in 1 .. L : b[n] = e /\ \A m \in 1 .. L : b[m] = e => m = n
    BY <1>11 DEF Once, L
  <2>1. n \in 1 .. L - 1 /\ n \in 1 .. L + 1
    <3>1. n # L
      BY <1>11, <1>3
    <3> QED BY <3>1, <1>2
  <2>2. r[n] = e
    BY <2>1, <1>5
  <2>3. ASSUME NEW m \in 1 .. L + 1, r[m] = e PROVE m = n
    BY <2>3, <1>6, <1>11
  <2> QED BY <2>1, <2>2, <2>3, <1>5 DEF Once
<1>12. BlockInv(r, R, N + 1)
  <2>1. ASSUME NEW c \in R PROVE Once(r, Alloca(c)) /\ Once(r, Dealloc(c)) /\ Filled(r, c)
    <3>1. Once(b, Alloca(c)) /\ Once(b, Dealloc(c)) /\ Filled(b, c)
      BY DEF BlockInv, Complete
    <3>2. Once(r, Alloca(c)) /\ Once(r, Dealloc(c))
      BY <3>1, <1>11, OpFields
    <3>3. Filled(r, c)
      BY <3>1, <1>10 DEF Filled
    <3> QED BY <3>2, <3>3
  <2>2. ASSUME NEW w \in Defs(prog), w < N + 1, Kind(w) = "print"
        PROVE  \E n \in 1 .. Len(r) : Prints(r[n], w)
    <3>1. w < N
      <4>1. w # N
        BY <2>2, <1>1
      <4> QED BY <4>1, <1>1
    <3> PICK n \in 1 .. Len(b) : Prints(b[n], w)
      BY <2>2, <3>1 DEF BlockInv, Complete
    <3>2. Occurs(r, b[n])
      BY <1>10 DEF Occurs
    <3> QED BY <3>2 DEF Occurs
  <2>3. r # << >>
    BY <1>2, <1>5
  <2> QED BY <2>1, <2>2, <2>3, <1>5, <1>8, <1>9 DEF BlockInv, Complete
<1>13. ASSUME NEW q \in 1 .. L + 1
       PROVE  /\ Lowered(r[q], R, N + 1) \/ \E w \in Defs(prog) : r[q] = ToyOp(w)
              /\ ~ Todo(r[q], N + 1)
              /\ r[q] = ToyOp(N) <=> q = L + 1
              /\ r[q] = FuncReturn <=> q = L
  <2>1. CASE q \in 1 .. L - 1 /\ q \in 1 .. L /\ r[q] = b[q]
    <3>1. Lowered(b[q], R, N) => Lowered(b[q], R, N + 1)
      <4>1. \A w \in Defs(prog) : w < N => w < N + 1
        BY <1>1
      <4> QED BY <4>1 DEF Lowered
    <3>2. Lowered(b[q], R, N) \/ \E w \in Defs(prog) : b[q] = ToyOp(w)
      BY <2>1 DEF ConvertInv, L
    <3>3. b[q] # ToyOp(N) /\ b[q] # FuncReturn /\ q # L + 1 /\ q # L
      <4>1. q # L + 1 /\ q # L
        BY <2>1, <1>2
      <4> QED BY <4>1, <2>1, <1>3, <1>4
    <3>4. ~ Todo(b[q], N + 1)
      <4>1. b[q].i = "toy" => b[q].v \in 1 .. N
        BY <2>1, <1>1, ElementFacts DEF L
      <4> QED BY <4>1, <1>1 DEF Todo
    <3> QED BY <2>1, <3>1, <3>2, <3>3, <3>4
  <2>2. CASE q = L /\ r[q] = FuncReturn
    <3>1. ~ Todo(FuncReturn, N + 1) /\ FuncReturn # ToyOp(N) /\ q # L + 1
      BY <2>2, <1>2, OpFields DEF Todo
    <3> QED BY <2>2, <3>1 DEF Lowered
  <2>3. CASE q = L + 1 /\ r[q] = ToyOp(N)
    <3>1. ~ Todo(ToyOp(N), N + 1) /\ FuncReturn # ToyOp(N) /\ q # L
      <4>1. ~ (N >= N + 1) /\ q # L
        BY <2>3, <1>1, <1>2
      <4> QED BY <4>1, OpFields DEF Todo
    <3>2. N \in Defs(prog)
      BY <1>1
    <3> QED BY <2>3, <3>1, <3>2
  <2> QED BY <2>1, <2>2, <2>3, <1>6
<1>14. TodoInv(r, N + 1)
  <2>1. \A w \in Defs(prog) : ~ (w >= N + 1)
    BY <1>1
  <2> QED BY <2>1, <1>5, <1>13 DEF TodoInv
<1>15. ConvertInv(r, R, N + 1)
  <2>1. ~ (N + 1 <= N) /\ N + 1 \notin 2 .. N
    BY <1>1
  <2>2. Once(r, FuncReturn)
    <3>1. L \in 1 .. L + 1
      BY <1>2
    <3> QED BY <3>1, <1>5, <1>13 DEF Once
  <2>3. /\ \A n \in 1 .. Len(r) : Lowered(r[n], R, N + 1) \/ \E w \in Defs(prog) : r[n] = ToyOp(w)
        /\ \A n \in 1 .. Len(r) : r[n] = ToyOp(N) <=> n = Len(r)
    BY <1>5, <1>13
  <2> QED BY <2>1, <2>2, <2>3, <1>14 DEF ConvertInv
<1> QED BY <1>7, <1>12, <1>15 DEF r

-----------------------------------------------------------------------------
(* The end of the conversion.                                              *)

(* r holds the operations of b that are no toy operations, in their order: *)
(* the n-th was at from[n].                                                *)
Kept(b, r, from) ==
    /\ r \in Seq(ToSet(r)) /\ Len(b) \in Nat /\ Len(r) \in Nat
    /\ from \in [1 .. Len(r) -> 1 .. Len(b)]
    /\ \A n \in 1 .. Len(r) : r[n] = b[from[n]] /\ b[from[n]].i # "toy"
    /\ \A m, n \in 1 .. Len(r) : m < n <=> from[m] < from[n]
    /\ \A m \in 1 .. Len(b) : b[m].i # "toy" => \E n \in 1 .. Len(r) : m = from[n]

(* Erased keeps them.                                                      *)
LEMMA ErasedKeeps ==
    ASSUME NEW S, NEW b \in Seq(S)
    PROVE  \E from : Kept(b, Erased(b), from)
<1> DEFINE L == Len(b)
           ss == [n \in DOMAIN b |-> IF b[n].i = "toy" THEN << >> ELSE <<b[n]>>]
           r == Erased(b)
<1>1. L \in Nat /\ DOMAIN b = 1 .. L /\ \A n \in 1 .. L : b[n] \in S
  OBVIOUS
<1>2. ss \in Seq(Seq(S)) /\ DOMAIN ss = 1 .. L
  <2>1. \A n \in 1 .. L : ss[n] \in Seq(S)
    BY <1>1
  <2>2. ss = [n \in 1 .. L |-> ss[n]]
    BY <1>1
  <2> HIDE DEF ss, L
  <2>3. ss \in [1 .. L -> Seq(S)]
    BY <2>1, <2>2
  <2> QED BY <1>1, <2>2, <2>3, SeqDef
<1>3. ASSUME NEW i \in 1 .. L
      PROVE  IF b[i].i = "toy" THEN ss[i] = << >> ELSE ss[i] = <<b[i]>>
  BY <1>1
<1>4. r = FlattenSeq(ss)
  BY DEF Erased
<1> HIDE DEF ss, r, L
<1>5. r \in Seq(S) /\ \E start : Starts(start, r, ss)
  BY <1>2, <1>4, FlattenProperties
<1> PICK start : Starts(start, r, ss)
  BY <1>5
<1> DEFINE At(i, n) == i \in 1 .. L /\ b[i].i # "toy" /\ n = start[i] + 1
<1>16. ASSUME NEW i \in 1 .. L PROVE Len(ss[i]) = IF b[i].i = "toy" THEN 0 ELSE 1
  <2>1. CASE b[i].i = "toy"
    <3>1. ss[i] = << >>
      BY <1>3, <2>1
    <3> QED BY <2>1, <3>1
  <2>2. CASE b[i].i # "toy"
    <3>1. ss[i] = <<b[i]>>
      BY <1>3, <2>2
    <3> QED BY <2>2, <3>1
  <2> QED BY <2>1, <2>2
<1>6. ASSUME NEW i \in 1 .. L, b[i].i # "toy"
      PROVE  /\ start[i] \in Nat /\ start[i] + 1 \in 1 .. Len(r)
             /\ r[start[i] + 1] = b[i]
  <2>1. ss[i] = <<b[i]>>
    BY <1>3, <1>6
  <2>2. Len(ss[i]) = 1 /\ ss[i][1] = b[i] /\ 1 \in 1 .. 1
    BY <2>1
  <2>3. start[i] \in Nat /\ start[i] + Len(ss[i]) <= Len(r)
    BY <1>2 DEF Starts
  <2>4. \A m \in 1 .. Len(ss[i]) : r[start[i] + m] = ss[i][m]
    BY <1>2 DEF Starts
  <2>5. Len(r) \in Nat
    BY <1>5
  <2> QED BY <2>2, <2>3, <2>4, <2>5
<1>7. ASSUME NEW n \in 1 .. Len(r) PROVE \E i \in 1 .. L : At(i, n)
  <2> PICK i \in 1 .. L : \E m \in 1 .. Len(ss[i]) : n = start[i] + m
    BY <1>2, ZenonT(60) DEF Starts
  <2>1. b[i].i # "toy"
    <3> SUFFICES ASSUME b[i].i = "toy" PROVE FALSE
      OBVIOUS
    <3>1. Len(ss[i]) = 0
      BY <1>3
    <3> QED BY <3>1
  <2>2. Len(ss[i]) = 1
    BY <2>1, <1>16
  <2>3. n = start[i] + 1
    BY <2>2
  <2> QED BY <2>1, <2>3
<1>8. ASSUME NEW i \in 1 .. L, NEW j \in 1 .. L, i < j, b[i].i # "toy", b[j].i # "toy"
      PROVE  start[i] + 1 < start[j] + 1
  <2>1. start[i] + Len(ss[i]) <= start[j]
    BY <1>2, <1>8 DEF Starts
  <2>2. Len(ss[i]) = 1
    BY <1>16, <1>8
  <2>3. start[i] \in Nat /\ start[j] \in Nat
    BY <1>6, <1>8
  <2> QED BY <2>1, <2>2, <2>3
<1> DEFINE from == [n \in 1 .. Len(r) |-> CHOOSE i \in 1 .. L : At(i, n)]
<1>9. ASSUME NEW n \in 1 .. Len(r) PROVE from[n] \in 1 .. L /\ At(from[n], n)
  <2>1. from[n] = CHOOSE i \in 1 .. L : At(i, n)
    OBVIOUS
  <2> HIDE DEF from, At
  <2> QED BY <1>7, <2>1
<1>10. from \in [1 .. Len(r) -> 1 .. L]
  BY <1>9
<1> HIDE DEF from
<1>11. \A m, n \in 1 .. Len(r) : m < n <=> from[m] < from[n]
  <2> SUFFICES ASSUME NEW m \in 1 .. Len(r), NEW n \in 1 .. Len(r)
               PROVE  m < n <=> from[m] < from[n]
    OBVIOUS
  <2> DEFINE i == from[m]
             j == from[n]
  <2>1. /\ i \in 1 .. L /\ b[i].i # "toy" /\ m = start[i] + 1
        /\ j \in 1 .. L /\ b[j].i # "toy" /\ n = start[j] + 1
    BY <1>9
  <2>2. i \in Int /\ j \in Int
    BY <2>1, <1>1
  <2> HIDE DEF i, j
  <2>3. i < j => m < n
    BY <1>8, <2>1
  <2>4. j < i => n < m
    BY <1>8, <2>1
  <2>5. i = j => m = n
    BY <2>1
  <2> QED BY <2>2, <2>3, <2>4, <2>5 DEF i, j
<1>12. \A n \in 1 .. Len(r) : r[n] = b[from[n]] /\ b[from[n]].i # "toy"
  BY <1>6, <1>9
<1>13. ASSUME NEW m \in 1 .. L, b[m].i # "toy" PROVE \E n \in 1 .. Len(r) : m = from[n]
  <2> DEFINE n == start[m] + 1
  <2>1. n \in 1 .. Len(r)
    BY <1>6, <1>13
  <2>2. from[n] \in 1 .. L /\ b[from[n]].i # "toy" /\ n = start[from[n]] + 1
    BY <1>9, <2>1
  <2>3. start[m] \in Nat /\ start[from[n]] \in Nat /\ m \in Int /\ from[n] \in Int
    BY <1>1, <1>6, <1>13, <2>2
  <2>4. start[m] + 1 = start[from[n]] + 1
    BY <2>2
  <2>5. ~ (m < from[n]) /\ ~ (from[n] < m)
    BY <1>8, <1>13, <2>2, <2>3, <2>4
  <2> QED BY <2>1, <2>3, <2>5
<1>14. r \in Seq(ToSet(r)) /\ Len(r) \in Nat
  BY <1>5, SeqOfElements
<1>15. Kept(b, r, from)
  BY <1>1, <1>10, <1>11, <1>12, <1>13, <1>14 DEF Kept, L
<1> QED BY <1>15 DEF r

(* The block the conversion leaves when it succeeds.                       *)
LEMMA CommittedInv ==
    ASSUME prog \in Programs, NEW b, NEW R,
           RemapInv(R, N + 1), BlockInv(b, R, N + 1), ConvertInv(b, R, N + 1)
    PROVE  BlockInv(Erased(b), R, N + 1) /\ FinalInv(Erased(b), R, N + 1)
<1> DEFINE r == Erased(b)
           L == Len(b)
           M == Len(r)
<1>1. N \in Nat /\ N >= 1 /\ Defs(prog) = 1 .. N
  BY ProgramFacts
<1> PICK from : Kept(b, r, from)
  <2>1. b \in Seq(ToSet(b))
    BY DEF BlockInv
  <2> QED BY <2>1, ErasedKeeps
<1> HIDE DEF r
<1>2. /\ r \in Seq(ToSet(r)) /\ M \in Nat
      /\ \A n \in 1 .. M : from[n] \in 1 .. L
      /\ \A n \in 1 .. M : r[n] = b[from[n]] /\ b[from[n]].i # "toy"
      /\ \A m, n \in 1 .. M : m < n <=> from[m] < from[n]
      /\ \A m \in 1 .. L : b[m].i # "toy" => \E n \in 1 .. M : m = from[n]
  BY DEF Kept
<1>3. \A m, n \in 1 .. M : from[m] = from[n] => m = n
  <2>1. \A n \in 1 .. M : from[n] \in Int /\ n \in Int
    BY <1>2
  <2> QED BY <2>1, <1>2
<1> HIDE DEF M, L
<1>4. ASSUME NEW n \in 1 .. M
      PROVE  Lowered(r[n], R, N + 1) /\ Rank(r[n]) \in 1 .. 4
             /\ (Rank(r[n]) = 4 <=> r[n] = FuncReturn)
  <2>1. Lowered(r[n], R, N + 1)
    BY <1>2, ElementFacts DEF L
  <2>2. r[n].i = "return" <=> r[n] = FuncReturn
    BY <2>1, LoweredFacts, OpFields
  <2>3. r[n] # ToyOp(N)
    BY <1>2, OpFields
  <2> QED BY <2>1, <2>2, <2>3 DEF Rank
<1>5. ASSUME NEW e, Occurs(b, e), e.i # "toy" PROVE Occurs(r, e)
  BY <1>2, <1>5 DEF Occurs, L, M
<1>6. ASSUME NEW e, Once(b, e), e.i # "toy" PROVE Once(r, e)
  <2> PICK m \in 1 .. L : b[m] = e /\ \A k \in 1 .. L : b[k] = e => k = m
    BY <1>6 DEF Once, L
  <2> PICK n \in 1 .. M : m = from[n]
    BY <1>2, <1>6
  <2>1. ASSUME NEW k \in 1 .. M, r[k] = e PROVE k = n
    BY <2>1, <1>2, <1>3
  <2> QED BY <2>1, <1>2 DEF Once, M
<1>7. Sorted(r)
  <2> SUFFICES ASSUME NEW x \in 1 .. M, NEW y \in 1 .. M, x < y
               PROVE  Rank(r[x]) <= Rank(r[y])
    BY DEF Sorted, M
  <2>1. from[x] \in 1 .. L /\ from[y] \in 1 .. L /\ from[x] < from[y]
    BY <1>2
  <2> QED BY <2>1, <1>2 DEF BlockInv, Sorted, L
<1>8. WritesFirst(r, R)
  <2> SUFFICES ASSUME NEW x \in 1 .. M, NEW y \in 1 .. M, NEW a \in R,
                      ReadsFrom(r[x], a), WritesTo(r[y], a)
               PROVE  y < x
    BY DEF WritesFirst, M
  <2>1. from[x] \in 1 .. L /\ from[y] \in 1 .. L
    BY <1>2
  <2>2. from[y] < from[x]
    BY <2>1, <1>2 DEF BlockInv, WritesFirst, L
  <2> QED BY <2>2, <1>2
<1>9. Complete(r, R, N + 1)
  <2>1. ASSUME NEW a \in R PROVE Once(r, Alloca(a)) /\ Once(r, Dealloc(a)) /\ Filled(r, a)
    <3>1. Once(b, Alloca(a)) /\ Once(b, Dealloc(a)) /\ Filled(b, a)
      BY DEF BlockInv, Complete
    <3>2. Once(r, Alloca(a)) /\ Once(r, Dealloc(a))
      BY <3>1, <1>6, OpFields
    <3>3. Filled(r, a)
      <4>1. \A k : StoreOf(a, k).i = "store"
        BY OpFields DEF StoreOf
      <4>2. NestOf(a).i = "nest"
        BY OpFields DEF NestOf
      <4> QED BY <3>1, <4>1, <4>2, <1>5 DEF Filled
    <3> QED BY <3>2, <3>3
  <2>2. ASSUME NEW w \in Defs(prog), w < N + 1, Kind(w) = "print"
        PROVE  \E n \in 1 .. Len(r) : Prints(r[n], w)
    <3> PICK m \in 1 .. L : Prints(b[m], w)
      BY <2>2 DEF BlockInv, Complete, L
    <3>1. b[m].i # "toy"
      BY OpFields DEF Prints
    <3> PICK n \in 1 .. M : m = from[n]
      BY <3>1, <1>2
    <3> QED BY <1>2 DEF M
  <2> QED BY <2>1, <2>2 DEF Complete
<1>10. Once(r, FuncReturn)
  <2>1. ~ (N + 1 <= N)
    BY <1>1
  <2> QED BY <2>1, <1>6, OpFields DEF ConvertInv
<1> PICK last \in 1 .. M : r[last] = FuncReturn /\ \A m \in 1 .. M : r[m] = FuncReturn => m = last
  BY <1>10 DEF Once, M
<1>11. last = M
  <2> SUFFICES ASSUME last < M PROVE FALSE
    BY <1>2
  <2>1. M \in 1 .. M
    BY <1>2
  <2>2. Rank(r[last]) <= Rank(r[M])
    BY <2>1, <1>7 DEF Sorted, M
  <2>3. Rank(r[M]) = 4
    BY <2>1, <2>2, <1>4
  <2>4. r[M] = FuncReturn
    BY <2>1, <2>3, <1>4
  <2> QED BY <2>1, <2>4
<1>12. r # << >>
  BY <1>2, <1>11 DEF M
<1>13. FinalInv(r, R, N + 1)
  <2>1. \A n \in 1 .. M : r[n] = FuncReturn <=> n = M
    BY <1>11
  <2> QED BY <2>1, <1>4 DEF FinalInv, M
<1> QED BY <1>2, <1>7, <1>8, <1>9, <1>12, <1>13 DEF BlockInv, r

(* The conversion starts with the operations of the source alone.          *)
LEMMA InitialInv ==
    ASSUME prog \in Programs
    PROVE  RemapInv({}, 1) /\ BlockInv(Initial, {}, 1) /\ ConvertInv(Initial, {}, 1)
<1> DEFINE b == Initial
<1>1. N \in Nat /\ N >= 1 /\ Defs(prog) = 1 .. N
  BY ProgramFacts
<1>2. b = [v \in 1 .. N |-> ToyOp(v)]
  BY <1>1 DEF Initial
<1>3. /\ \A n \in 1 .. N : b[n] = ToyOp(n) /\ b[n].i = "toy" /\ b[n].v = n
      /\ Len(b) = N /\ b \in Seq(ToSet(b)) /\ b # << >>
  <2>1. \A n \in 1 .. N : b[n] = ToyOp(n)
    BY <1>2
  <2>2. DOMAIN b = 1 .. N
    BY <1>2
  <2> HIDE DEF b
  <2>3. Len(b) = N
    BY <1>1, <2>2
  <2>4. b \in [1 .. N -> ToSet(b)]
    BY <1>2, <2>2 DEF ToSet
  <2>5. b \in Seq(ToSet(b))
    BY <2>4, <1>1, SeqDef
  <2> QED BY <1>1, <2>1, <2>3, <2>5, OpFields
<1> HIDE DEF b
<1>4. RemapInv({}, 1)
  BY <1>1 DEF RemapInv
<1>5. ASSUME NEW n \in 1 .. N PROVE Rank(b[n]) = IF n = N THEN 5 ELSE 2
  <2>1. b[n] = ToyOp(N) <=> n = N
    BY <1>3, OpFields
  <2> QED BY <2>1, <1>3 DEF Rank
<1>6. Sorted(b)
  BY <1>1, <1>3, <1>5 DEF Sorted
<1>7. BlockInv(b, {}, 1)
  <2>1. \A v \in Defs(prog) : ~ (v < 1)
    BY <1>1
  <2> QED BY <2>1, <1>3, <1>6 DEF BlockInv, WritesFirst, Complete
<1>8. TodoInv(b, 1)
  <2>1. ASSUME NEW v \in Defs(prog), v >= 1 PROVE Once(b, ToyOp(v))
    BY <1>1, <1>3 DEF Once
  <2> QED BY <2>1, <1>1, <1>3 DEF TodoInv, Todo
<1>9. ConvertInv(b, {}, 1)
  <2>1. 1 <= N /\ 1 \notin 2 .. N
    BY <1>1
  <2>2. ~ Occurs(b, FuncReturn)
    BY <1>3, OpFields DEF Occurs
  <2>3. \A n \in 1 .. Len(b) : b[n] = ToyOp(N) <=> n = Len(b)
    BY <1>3, OpFields
  <2> QED BY <2>1, <2>2, <2>3, <1>1, <1>3, <1>8 DEF ConvertInv
<1> QED BY <1>4, <1>7, <1>9 DEF b

-----------------------------------------------------------------------------
(* The order of the stores of a constant.                                  *)

(* One step of the recursion of storeElements on the shape s: what comes   *)
(* before dimension d, from what comes before dimension d + 1.             *)
SuffixStep(s, d, next) ==
    IF d > Len(s) THEN << << >> >>
    ELSE FlattenSeq([i \in 1 .. s[d] |-> [n \in DOMAIN next |-> <<i - 1>> \o next[n]]])

(* The indices of the dimensions from d on.                                *)
Tails(s, d) ==
    {t \in Seq(Nat) : /\ Len(t) = Len(s) + 1 - d
                      /\ \A k \in 1 .. Len(t) : t[k] < s[d - 1 + k]}

(* A sequence of all of them.                                              *)
Enumerates(q, s, d) ==
    /\ q \in Seq(Tails(s, d))
    /\ \A t \in Tails(s, d) : \E n \in 1 .. Len(q) : q[n] = t

(* The recursion of StoreOrder has a solution.                             *)
LEMMA SuffixesExist ==
    ASSUME NEW s, Len(s) \in Nat
    PROVE  \E f : f = [d \in 1 .. Len(s) + 1 |-> SuffixStep(s, d, f[d + 1])]
<1> DEFINE L == Len(s)
           From(f, m) == f = [d \in m .. L + 1 |-> SuffixStep(s, d, f[d + 1])]
           P == {k \in Nat : k <= L => \E f : From(f, L + 1 - k)}
<1> HIDE DEF L
<1>1. L \in Nat
  BY DEF L
<1>2. 0 \in P
  <2> DEFINE f == [d \in L + 1 .. L + 1 |-> SuffixStep(s, d, 0)]
  <2>1. ASSUME NEW d \in L + 1 .. L + 1 PROVE f[d] = SuffixStep(s, d, f[d + 1])
    <3>1. d > Len(s)
      BY <1>1 DEF L
    <3> QED BY <3>1 DEF SuffixStep
  <2>2. f = [d \in L + 1 .. L + 1 |-> f[d]]
    OBVIOUS
  <2> HIDE DEF f
  <2>3. From(f, L + 1)
    BY <2>1, <2>2
  <2>4. L + 1 - 0 = L + 1
    BY <1>1
  <2> QED BY <2>3, <2>4
<1>3. ASSUME NEW k \in Nat, k \in P PROVE k + 1 \in P
  <2> SUFFICES ASSUME k + 1 <= L PROVE \E f : From(f, L + 1 - (k + 1))
    OBVIOUS
  <2> DEFINE m == L + 1 - (k + 1)
  <2>1. m \in 1 .. L /\ L + 1 - k = m + 1
    BY <1>1
  <2> HIDE DEF m
  <2> PICK f : From(f, m + 1)
    BY <1>1, <1>3, <2>1
  <2> DEFINE h == [d \in m .. L + 1 |-> IF d = m THEN SuffixStep(s, m, f[m + 1]) ELSE f[d]]
  <2>2. ASSUME NEW d \in m .. L + 1 PROVE h[d] = SuffixStep(s, d, h[d + 1])
    <3>1. CASE d = m
      <4>1. h[d + 1] = f[m + 1]
        BY <1>1, <2>1, <3>1
      <4> QED BY <3>1, <4>1
    <3>2. CASE d # m
      <4>1. d \in m + 1 .. L + 1
        BY <1>1, <2>1, <3>2
      <4>2. f[d] = SuffixStep(s, d, f[d + 1])
        BY <4>1
      <4>3. CASE d = L + 1
        <5>1. d > Len(s)
          BY <4>3, <1>1 DEF L
        <5>2. \A x, y : SuffixStep(s, d, x) = SuffixStep(s, d, y)
          BY <5>1 DEF SuffixStep
        <5> QED BY <3>2, <4>2, <5>2
      <4>4. CASE d # L + 1
        <5>1. d + 1 \in m .. L + 1 /\ d + 1 # m
          BY <1>1, <2>1, <3>2, <4>4
        <5>2. h[d + 1] = f[d + 1]
          BY <5>1
        <5> QED BY <3>2, <4>2, <5>2
      <4> QED BY <4>3, <4>4
    <3> QED BY <3>1, <3>2
  <2>3. h = [d \in m .. L + 1 |-> h[d]]
    OBVIOUS
  <2> HIDE DEF h
  <2>4. From(h, m)
    BY <2>2, <2>3
  <2> QED BY <2>4 DEF m
<1> HIDE DEF P
<1>4. L \in P
  BY <1>1, <1>2, <1>3, NatSetInduction
<1>5. L + 1 - L = 1
  BY <1>1
<1> QED BY <1>1, <1>4, <1>5 DEF P, L

(* An index of dimension d in front of those of the dimensions behind it.  *)
LEMMA TailsCons ==
    ASSUME NEW s \in Seq(Nat), NEW d \in 1 .. Len(s), NEW u \in Tails(s, d + 1),
           NEW x \in 0 .. s[d] - 1
    PROVE  <<x>> \o u \in Tails(s, d)
<1> DEFINE t == <<x>> \o u
<1>1. /\ u \in Seq(Nat) /\ Len(u) = Len(s) + 1 - (d + 1)
      /\ \A k \in 1 .. Len(u) : u[k] < s[(d + 1) - 1 + k]
  BY DEF Tails
<1>2. s[d] \in Nat /\ x \in Nat /\ x < s[d] /\ Len(s) \in Nat /\ Len(u) \in Nat
  BY <1>1
<1>3. <<x>> \in Seq(Nat) /\ Len(<<x>>) = 1 /\ <<x>>[1] = x
  BY <1>2
<1>4. t \in Seq(Nat) /\ Len(t) = 1 + Len(u)
      /\ \A k \in 1 .. 1 + Len(u) : t[k] = IF k <= 1 THEN x ELSE u[k - 1]
  <2> DEFINE y == <<x>>
  <2>1. y \in Seq(Nat)
    BY <1>3
  <2> HIDE DEF y
  <2>2. /\ y \o u \in Seq(Nat) /\ Len(y \o u) = Len(y) + Len(u)
        /\ \A k \in 1 .. Len(y) + Len(u) :
               (y \o u)[k] = IF k <= Len(y) THEN y[k] ELSE u[k - Len(y)]
    BY <1>1, <2>1, ConcatProperties
  <2>3. Len(y) = 1 /\ y[1] = x
    BY <1>3 DEF y
  <2>4. t = y \o u
    BY DEF y
  <2> HIDE DEF t
  <2>5. \A k \in 1 .. 1 + Len(u) : k <= 1 => k = 1
    OBVIOUS
  <2> QED BY <2>2, <2>3, <2>4, <2>5
<1> HIDE DEF t
<1>5. ASSUME NEW k \in 1 .. Len(t) PROVE t[k] < s[d - 1 + k]
  <2>1. CASE k = 1
    <3>1. d - 1 + k = d /\ t[k] = x
      BY <2>1, <1>2, <1>4
    <3> QED BY <3>1, <1>2
  <2>2. CASE k # 1
    <3>1. k - 1 \in 1 .. Len(u) /\ t[k] = u[k - 1] /\ (d + 1) - 1 + (k - 1) = d - 1 + k
      BY <2>2, <1>2, <1>4
    <3> QED BY <3>1, <1>1
  <2> QED BY <2>1, <2>2
<1>6. Len(t) = Len(s) + 1 - d
  BY <1>1, <1>2, <1>4
<1> QED BY <1>4, <1>5, <1>6 DEF Tails, t

(* The indices from d on are one of dimension d and those behind it.       *)
LEMMA TailsSplit ==
    ASSUME NEW s \in Seq(Nat), NEW d \in 1 .. Len(s), NEW t \in Tails(s, d)
    PROVE  /\ t[1] \in 0 .. s[d] - 1
           /\ Tail(t) \in Tails(s, d + 1)
           /\ <<t[1]>> \o Tail(t) = t
<1>1. /\ t \in Seq(Nat) /\ Len(t) = Len(s) + 1 - d
      /\ \A k \in 1 .. Len(t) : t[k] < s[d - 1 + k]
  BY DEF Tails
<1>2. Len(s) \in Nat /\ Len(t) \in Nat /\ Len(t) >= 1 /\ t # << >> /\ s[d] \in Nat
  BY <1>1
<1>3. t[1] \in 0 .. s[d] - 1
  <2>1. 1 \in 1 .. Len(t) /\ d - 1 + 1 = d
    BY <1>2
  <2>2. t[1] \in Nat /\ t[1] < s[d]
    <3>1. t[1] < s[d - 1 + 1]
      BY <1>1, <2>1
    <3> QED BY <1>1, <2>1, <3>1
  <2> QED BY <2>2, <1>2
<1> DEFINE u == Tail(t)
<1>4. /\ u \in Seq(Nat) /\ Len(u) = Len(t) - 1
      /\ \A k \in 1 .. Len(t) - 1 : u[k] = t[k + 1]
  BY <1>1, <1>2
<1>5. <<t[1]>> \o Tail(t) = t
  BY <1>1, <1>2
<1> HIDE DEF u
<1>6. ASSUME NEW k \in 1 .. Len(u) PROVE u[k] < s[(d + 1) - 1 + k]
  <2>1. k + 1 \in 1 .. Len(t) /\ u[k] = t[k + 1] /\ d - 1 + (k + 1) = (d + 1) - 1 + k
    BY <1>2, <1>4
  <2>2. t[k + 1] < s[d - 1 + (k + 1)]
    BY <1>1, <2>1
  <2> QED BY <2>1, <2>2
<1>7. Len(u) = Len(s) + 1 - (d + 1)
  BY <1>1, <1>2, <1>4
<1> QED BY <1>3, <1>4, <1>5, <1>6, <1>7 DEF Tails, u

(* Each step of the recursion meets all indices, if the one before did.    *)
LEMMA EnumerateStep ==
    ASSUME NEW s \in Seq(Nat), NEW d \in 1 .. Len(s), NEW q, Enumerates(q, s, d + 1)
    PROVE  Enumerates(SuffixStep(s, d, q), s, d)
<1> DEFINE D == 1 .. s[d]
           row(i) == [n \in DOMAIN q |-> <<i - 1>> \o q[n]]
           ss == [i \in D |-> row(i)]
           T == Tails(s, d)
           U == Tails(s, d + 1)
<1>1. s[d] \in Nat /\ Len(s) \in Nat /\ ~ (d > Len(s))
  OBVIOUS
<1>2. SuffixStep(s, d, q) = FlattenSeq(ss)
  BY <1>1 DEF SuffixStep
<1> HIDE DEF T, U
<1>3. q \in Seq(U) /\ Len(q) \in Nat /\ DOMAIN q = 1 .. Len(q) /\ \A n \in 1 .. Len(q) : q[n] \in U
  <2>1. q \in Seq(U)
    BY DEF Enumerates, U
  <2> QED BY <2>1
<1>4. ASSUME NEW i \in D
      PROVE  /\ row(i) \in Seq(T) /\ Len(row(i)) = Len(q)
             /\ \A n \in 1 .. Len(q) : row(i)[n] = <<i - 1>> \o q[n]
  <2>1. i - 1 \in 0 .. s[d] - 1
    BY <1>1
  <2>2. ASSUME NEW n \in 1 .. Len(q) PROVE <<i - 1>> \o q[n] \in T
    BY <1>3, <2>1, TailsCons DEF T, U
  <2>3. row(i) \in [1 .. Len(q) -> T]
    BY <1>3, <2>2
  <2>4. DOMAIN row(i) = 1 .. Len(q) /\ \A n \in 1 .. Len(q) : row(i)[n] = <<i - 1>> \o q[n]
    BY <1>3
  <2> HIDE DEF row
  <2>5. row(i) \in Seq(T)
    BY SMTT(40), <2>3, <1>3, SeqDef
  <2>6. Len(row(i)) = Len(q)
    BY <1>3, <2>4
  <2> QED BY <2>4, <2>5, <2>6
<1>5. \A i \in D : ss[i] = row(i)
  OBVIOUS
<1>6. DOMAIN ss = D
  OBVIOUS
<1> HIDE DEF row, ss
<1>7. ss \in Seq(Seq(T))
  <2>1. ss = [i \in D |-> ss[i]] /\ \A i \in D : ss[i] \in Seq(T)
    BY <1>4, <1>5 DEF ss
  <2> DEFINE c == s[d]
  <2>2. ss \in [1 .. c -> Seq(T)] /\ c \in Nat
    BY <2>1, <1>1
  <2> HIDE DEF c
  <2> QED BY <2>2, SeqDef
<1>8. FlattenSeq(ss) \in Seq(T) /\ \E start : Starts(start, FlattenSeq(ss), ss)
  BY <1>7, FlattenProperties
<1> DEFINE flat == FlattenSeq(ss)
<1> HIDE DEF flat
<1> PICK start : Starts(start, flat, ss)
  BY <1>8 DEF flat
<1>9. ASSUME NEW t \in T PROVE \E n \in 1 .. Len(flat) : flat[n] = t
  <2> DEFINE i == t[1] + 1
  <2>1. t[1] \in 0 .. s[d] - 1 /\ Tail(t) \in U /\ <<t[1]>> \o Tail(t) = t
    BY TailsSplit DEF T, U
  <2>2. i \in D /\ i - 1 = t[1]
    BY SMTT(40), <2>1, <1>1
  <2> HIDE DEF i
  <2> PICK n \in 1 .. Len(q) : q[n] = Tail(t)
    BY <2>1 DEF Enumerates, U
  <2>3. row(i)[n] = t
    BY <1>4, <2>1, <2>2
  <2>4. ss[i] = row(i) /\ Len(ss[i]) = Len(q) /\ n \in 1 .. Len(ss[i])
    <3>1. ss[i] = row(i)
      BY <1>5, <2>2
    <3>2. Len(row(i)) = Len(q)
      BY <1>4, <2>2
    <3> QED BY <3>1, <3>2
  <2>5. start[i] \in Nat /\ start[i] + Len(ss[i]) <= Len(flat)
    BY <1>6, <2>2 DEF Starts
  <2>6. flat[start[i] + n] = ss[i][n]
    BY <1>6, <2>2, <2>4 DEF Starts
  <2>7. start[i] + n \in 1 .. Len(flat)
    <3> DEFINE c == Len(flat)
               l == Len(q)
               x == start[i]
    <3>1. c \in Nat /\ l \in Nat /\ x \in Nat /\ n \in 1 .. l /\ x + l <= c
      BY <1>3, <1>8, <2>4, <2>5 DEF flat
    <3> HIDE DEF c, l, x
    <3>2. x + n \in 1 .. c
      BY <3>1
    <3> QED BY <3>2 DEF c, x
  <2> QED BY <2>3, <2>4, <2>6, <2>7
<1> QED BY <1>2, <1>8, <1>9 DEF Enumerates, flat, T

(* An index has a component for each dimension, smaller than its extent.   *)
LEMMA IndicesAre ==
    ASSUME NEW s \in Seq(Nat), NEW t
    PROVE  t \in Indices(s) <=>
               t \in Seq(Nat) /\ Len(t) = Len(s) /\ \A k \in 1 .. Len(s) : t[k] < s[k]
<1> DEFINE L == Len(s)
<1>1. L \in Nat /\ DOMAIN s = 1 .. L /\ \A d \in 1 .. L : s[d] \in Nat
  OBVIOUS
<1> HIDE DEF L
<1>2. ASSUME t \in Seq(Nat), Len(t) = L, \A k \in 1 .. L : t[k] < s[k]
      PROVE  t \in Indices(s)
  <2>1. DOMAIN t = 1 .. L /\ \A k \in 1 .. L : t[k] \in Nat
    BY <1>2
  <2>2. \A k \in 1 .. L : t[k] \in 0 .. s[k] - 1
    BY <1>1, <1>2, <2>1
  <2>3. t = [k \in 1 .. L |-> t[k]]
    BY <1>2, <2>1
  <2> QED BY <1>1, <1>2, <2>2, <2>3 DEF Indices
<1>3. ASSUME t \in Indices(s)
      PROVE  t \in Seq(Nat) /\ Len(t) = L /\ \A k \in 1 .. L : t[k] < s[k]
  <2>1. /\ t \in [1 .. L -> UNION {0 .. s[d] - 1 : d \in 1 .. L}]
        /\ \A d \in 1 .. L : t[d] < s[d]
    BY <1>1, <1>3 DEF Indices
  <2>2. ASSUME NEW k \in 1 .. L PROVE t[k] \in Nat
    <3>1. t[k] \in UNION {0 .. s[d] - 1 : d \in 1 .. L}
      BY <2>1
    <3> PICK d \in 1 .. L : t[k] \in 0 .. s[d] - 1
      BY <3>1
    <3> QED BY <1>1
  <2>3. t \in [1 .. L -> Nat]
    BY <2>1, <2>2
  <2>4. t \in Seq(Nat)
    BY <1>1, <2>3, SeqDef
  <2>5. DOMAIN t = 1 .. L
    BY <2>3
  <2> QED BY <1>1, <2>1, <2>4, <2>5
<1> QED BY <1>2, <1>3 DEF L

(* The stores of a constant are at each of its indices.                    *)
LEMMA StoreOrderIndices ==
    ASSUME NEW s \in Seq(Nat)
    PROVE  /\ StoreOrder(s) \in Seq(Indices(s))
           /\ \A idx \in Indices(s) : \E n \in DOMAIN StoreOrder(s) : StoreOrder(s)[n] = idx
<1> DEFINE L == Len(s)
           f == CHOOSE f : f = [d \in 1 .. L + 1 |->
                    IF d > Len(s) THEN << << >> >>
                    ELSE FlattenSeq([i \in 1 .. s[d] |->
                             [n \in DOMAIN f[d + 1] |-> <<i - 1>> \o f[d + 1][n]]])]
<1>1. L \in Nat /\ DOMAIN s = 1 .. L /\ \A d \in 1 .. L : s[d] \in Nat
  OBVIOUS
<1>2. StoreOrder(s) = f[1]
  BY DEF StoreOrder
<1>3. f = [d \in 1 .. L + 1 |->
              IF d > Len(s) THEN << << >> >>
              ELSE FlattenSeq([i \in 1 .. s[d] |->
                       [n \in DOMAIN f[d + 1] |-> <<i - 1>> \o f[d + 1][n]]])]
  BY <1>1, SuffixesExist, ZenonT(60) DEF SuffixStep
<1> HIDE DEF f
<1>4. ASSUME NEW d \in 1 .. L + 1 PROVE f[d] = SuffixStep(s, d, f[d + 1])
  BY <1>3 DEF SuffixStep
<1> HIDE DEF L
<1>5. Enumerates(f[L + 1], s, L + 1)
  <2>1. f[L + 1] = << << >> >>
    <3>1. L + 1 > Len(s) /\ L + 1 \in 1 .. L + 1
      BY <1>1 DEF L
    <3> QED BY <1>4, <3>1 DEF SuffixStep
  <2>2. Tails(s, L + 1) = {<< >>}
    <3>1. ASSUME NEW t \in Tails(s, L + 1) PROVE t = << >>
      <4>1. t \in Seq(Nat) /\ Len(t) = L + 1 - (L + 1)
        BY DEF Tails, L
      <4> QED BY <4>1, <1>1
    <3>2. << >> \in Tails(s, L + 1)
      <4>1. << >> \in Seq(Nat) /\ Len(<< >>) = 0 /\ L + 1 - (L + 1) = 0
        BY <1>1
      <4>2. \A k \in 1 .. Len(<< >>) : << >>[k] < s[L + 1 - 1 + k]
        BY <4>1
      <4> QED BY <4>1, <4>2 DEF Tails, L
    <3> QED BY <3>1, <3>2
  <2>3. << << >> >> \in Seq({<< >>})
    OBVIOUS
  <2>4. Len(<< << >> >>) = 1 /\ << << >> >>[1] = << >>
    OBVIOUS
  <2> QED BY <2>1, <2>2, <2>3, <2>4 DEF Enumerates
<1> DEFINE P == {k \in Nat : k <= L => Enumerates(f[L + 1 - k], s, L + 1 - k)}
<1>6. 0 \in P
  <2>1. L + 1 - 0 = L + 1
    BY <1>1
  <2> QED BY <1>5, <2>1
<1>7. ASSUME NEW k \in Nat, k \in P PROVE k + 1 \in P
  <2> SUFFICES ASSUME k + 1 <= L PROVE Enumerates(f[L + 1 - (k + 1)], s, L + 1 - (k + 1))
    OBVIOUS
  <2> DEFINE d == L + 1 - (k + 1)
  <2>1. d \in 1 .. L /\ d \in 1 .. L + 1 /\ d + 1 = L + 1 - k /\ k <= L
    BY <1>1
  <2>2. Enumerates(f[L + 1 - k], s, L + 1 - k)
    BY <1>7, <2>1
  <2> HIDE DEF d
  <2>3. Enumerates(f[d + 1], s, d + 1)
    BY <2>1, <2>2
  <2>4. f[d] = SuffixStep(s, d, f[d + 1])
    BY <1>4, <2>1
  <2>5. d \in 1 .. Len(s)
    BY <2>1 DEF L
  <2>6. Enumerates(f[d], s, d)
    BY <2>3, <2>4, <2>5, EnumerateStep
  <2> QED BY <2>6 DEF d
<1> HIDE DEF P
<1>8. Enumerates(f[1], s, 1)
  <2>1. L \in P
    BY <1>1, <1>6, <1>7, NatSetInduction
  <2>2. L + 1 - L = 1
    BY <1>1
  <2> QED BY <1>1, <2>1, <2>2 DEF P
<1>9. Tails(s, 1) = Indices(s)
  <2>1. L + 1 - 1 = L /\ \A k : k \in 1 .. L => 1 - 1 + k = k
    BY <1>1
  <2>2. ASSUME NEW t PROVE t \in Tails(s, 1) <=> t \in Indices(s)
    BY <1>1, <2>1, IndicesAre DEF Tails, L
  <2> QED BY <2>2
<1>10. /\ StoreOrder(s) \in Seq(Indices(s))
       /\ \A t \in Indices(s) : \E n \in 1 .. Len(StoreOrder(s)) : StoreOrder(s)[n] = t
  BY <1>2, <1>8, <1>9 DEF Enumerates
<1>11. DOMAIN StoreOrder(s) = 1 .. Len(StoreOrder(s))
  BY <1>10
<1> QED BY SMTT(40), <1>10, <1>11

-----------------------------------------------------------------------------
(* The steps.                                                              *)

(* A step that leaves the program keeps the invariant if it holds of the   *)
(* block, the buffers, the position and the status after it.               *)
LEMMA SameProgram ==
    ASSUME prog' = prog,
           status' \in {"func", "convert", "failed", "affine", "invalid", "llvm", "done"},
           prog \in Programs,
           status' = "func" => block' = Initial /\ remap' = {} /\ cur' = 1,
           status' = "failed" =>
               /\ block' = Initial /\ remap' = {} /\ cur' \in 1 .. N + 1
               /\ ~ (prog.others = {} /\ Lowerable(prog)),
           status' \notin {"func", "failed"} =>
               /\ prog.others = {} /\ prog.result = << >>
               /\ RemapInv(remap', cur') /\ BlockInv(block', remap', cur'),
           status' = "convert" => ConvertInv(block', remap', cur'),
           status' \in {"affine", "invalid", "llvm", "done"} =>
               FinalInv(block', remap', cur'),
           status' \in {"affine", "llvm", "done"} => Verified(block')
    PROVE  LoweringInv'
<1>1. Initial' = Initial /\ N' = N
  BY DEF Initial, N
<1>2. ASSUME RemapInv(remap', cur') PROVE RemapInv(remap, cur)'
  BY <1>2, SMTT(40) DEF RemapInv, N, Kind
<1>3. ASSUME BlockInv(block', remap', cur') PROVE BlockInv(block, remap, cur)'
  BY <1>3, SMTT(40) DEF BlockInv, Sorted, Rank, N, WritesFirst, Complete, Filled, StoreOf, NestOf,
              Prints, PrintLoops, Kind, Operand, ShapeOf
<1>4. ASSUME ConvertInv(block', remap', cur') PROVE ConvertInv(block, remap, cur)'
  BY <1>4, SMTT(40) DEF ConvertInv, TodoInv, Lowered, Fills, N, StoreOf, NestOf, Prints, PrintLoops,
              Kind, Operand, ShapeOf
<1>5. ASSUME FinalInv(block', remap', cur') PROVE FinalInv(block, remap, cur)'
  BY <1>5, ZenonT(60) DEF FinalInv, Lowered, Fills, N, StoreOf, NestOf, Prints, PrintLoops,
              Kind, Operand, ShapeOf
<1>6. ASSUME Verified(block') PROVE Verified(block)'
  BY <1>6 DEF Verified, LoadVerifies, ShapeOf
<1> QED BY <1>1, <1>2, <1>3, <1>4, <1>5, <1>6 DEF LoweringInv

-----------------------------------------------------------------------------
(* Row-major positions: what Stride, Linear and IndexAt compute.           *)

(* Division by T gets back what was multiplied by T.                       *)
LEMMA Quotient ==
    ASSUME NEW q \in Int, NEW T \in Nat, T > 0, NEW r \in 0 .. T - 1
    PROVE  (q * T + r) \div T = q /\ (q * T + r) % T = r
OBVIOUS

(* What the recursion of Stride defines.                                   *)
Strides(f, s) == f = [n \in 0 .. Len(s) |-> IF n = Len(s) THEN 1 ELSE s[n + 1] * f[n + 1]]

(* It has a solution.                                                      *)
LEMMA StridesExist ==
    ASSUME NEW s \in Seq(Nat)
    PROVE  \E f : Strides(f, s)
<1> DEFINE L == Len(s)
           From(f, m) == f = [n \in m .. L |-> IF n = L THEN 1 ELSE s[n + 1] * f[n + 1]]
           P == {k \in Nat : k <= L => \E f : From(f, L - k)}
<1>1. L \in Nat
  OBVIOUS
<1> HIDE DEF L
<1>2. 0 \in P
  <2> DEFINE f == [n \in L .. L |-> 1]
  <2>1. ASSUME NEW n \in L .. L PROVE f[n] = IF n = L THEN 1 ELSE s[n + 1] * f[n + 1]
    BY <1>1
  <2>2. f = [n \in L .. L |-> f[n]]
    OBVIOUS
  <2> HIDE DEF f
  <2>3. f = [n \in L .. L |-> IF n = L THEN 1 ELSE s[n + 1] * f[n + 1]]
    BY <2>1, <2>2, Zenon
  <2>4. L - 0 = L
    BY <1>1
  <2> QED BY <2>3, <2>4
<1>3. ASSUME NEW k \in Nat, k \in P PROVE k + 1 \in P
  <2> SUFFICES ASSUME k + 1 <= L PROVE \E f : From(f, L - (k + 1))
    OBVIOUS
  <2> DEFINE m == L - (k + 1)
  <2>1. m \in 0 .. L - 1 /\ L - k = m + 1 /\ k <= L
    BY <1>1
  <2> HIDE DEF m
  <2> PICK f : From(f, m + 1)
    BY <1>3, <2>1
  <2> DEFINE h == [n \in m .. L |-> IF n = m THEN s[m + 1] * f[m + 1] ELSE f[n]]
  <2>2. ASSUME NEW n \in m .. L PROVE h[n] = IF n = L THEN 1 ELSE s[n + 1] * h[n + 1]
    <3>1. CASE n = m
      <4>1. h[n + 1] = f[m + 1] /\ n # L
        BY <1>1, <2>1, <3>1
      <4> QED BY <3>1, <4>1
    <3>2. CASE n # m
      <4>1. n \in m + 1 .. L
        BY <1>1, <2>1, <3>2
      <4>2. f[n] = IF n = L THEN 1 ELSE s[n + 1] * f[n + 1]
        BY <4>1
      <4>3. n # L => n + 1 \in m .. L /\ n + 1 # m
        BY <1>1, <2>1, <3>2
      <4>4. n # L => h[n + 1] = f[n + 1]
        BY <4>3
      <4>5. h[n] = f[n]
        BY <3>2
      <4> HIDE DEF h
      <4> QED BY <4>2, <4>4, <4>5
    <3> QED BY <3>1, <3>2
  <2>3. h = [n \in m .. L |-> h[n]]
    OBVIOUS
  <2> HIDE DEF h
  <2>4. h = [n \in m .. L |-> IF n = L THEN 1 ELSE s[n + 1] * h[n + 1]]
    BY <2>2, <2>3, Zenon
  <2> QED BY <2>4 DEF m
<1> HIDE DEF P
<1>4. Nat \subseteq P
  BY <1>2, <1>3, NatSetInduction
<1>5. L \in P /\ L <= L /\ L - L = 0
  BY <1>1, <1>4
<1> QED BY <1>5 DEF P, L, Strides

(* The strides of a shape, from the innermost dimension outwards.          *)
LEMMA StrideFacts ==
    ASSUME NEW s \in Seq(Nat)
    PROVE  /\ Stride(s, Len(s)) = 1
           /\ \A d \in 0 .. Len(s) - 1 : Stride(s, d) = s[d + 1] * Stride(s, d + 1)
           /\ \A d \in 0 .. Len(s) : Stride(s, d) \in Nat
           /\ (\A d \in 1 .. Len(s) : s[d] > 0) =>
                  \A d \in 0 .. Len(s) : Stride(s, d) > 0
<1> DEFINE L == Len(s)
           f == CHOOSE f : f = [n \in 0 .. L |-> IF n = L THEN 1 ELSE s[n + 1] * f[n + 1]]
<1>1. L \in Nat /\ \A d \in 1 .. L : s[d] \in Nat
  OBVIOUS
<1>2. \A d : Stride(s, d) = f[d]
  BY DEF Stride
<1>3. f = [n \in 0 .. L |-> IF n = L THEN 1 ELSE s[n + 1] * f[n + 1]]
  BY StridesExist, Zenon DEF Strides
<1> HIDE DEF f
<1>4. \A n \in 0 .. L : f[n] = IF n = L THEN 1 ELSE s[n + 1] * f[n + 1]
  BY <1>3, Zenon
<1> HIDE DEF L
<1>5. L \in 0 .. L /\ \A n \in 0 .. L - 1 : n \in 0 .. L /\ n # L
  BY <1>1
<1>6. f[L] = 1 /\ \A n \in 0 .. L - 1 : f[n] = s[n + 1] * f[n + 1]
  BY <1>4, <1>5
<1> DEFINE P == {k \in Nat : k <= L =>
                    f[L - k] \in Nat /\ ((\A d \in 1 .. L : s[d] > 0) => f[L - k] > 0)}
<1>7. 0 \in P
  BY <1>1, <1>6
<1>8. ASSUME NEW k \in Nat, k \in P PROVE k + 1 \in P
  <2> SUFFICES ASSUME k + 1 <= L
               PROVE  /\ f[L - (k + 1)] \in Nat
                      /\ (\A d \in 1 .. L : s[d] > 0) => f[L - (k + 1)] > 0
    OBVIOUS
  <2> DEFINE m == L - (k + 1)
  <2>1. m \in 0 .. L - 1 /\ L - k = m + 1 /\ k <= L /\ m + 1 \in 1 .. L
    BY <1>1
  <2> HIDE DEF m
  <2>2. f[m + 1] \in Nat /\ ((\A d \in 1 .. L : s[d] > 0) => f[m + 1] > 0)
    BY <1>8, <2>1
  <2> DEFINE x == s[m + 1]
             y == f[m + 1]
  <2>3. x \in Nat /\ f[m] = x * y
    BY <1>1, <1>6, <2>1
  <2>4. (\A d \in 1 .. L : s[d] > 0) => x > 0
    BY <2>1
  <2> HIDE DEF x
  <2>5. y \in Nat /\ ((\A d \in 1 .. L : s[d] > 0) => y > 0)
    BY <2>2
  <2> HIDE DEF y
  <2>6. x * y \in Nat /\ (x > 0 /\ y > 0 => x * y > 0)
    BY <2>3, <2>5
  <2> QED BY <2>3, <2>4, <2>5, <2>6 DEF m
<1> HIDE DEF P
<1>9. ASSUME NEW d \in 0 .. L
      PROVE  f[d] \in Nat /\ ((\A e \in 1 .. L : s[e] > 0) => f[d] > 0)
  <2>1. L - d \in Nat /\ L - d <= L /\ L - (L - d) = d
    BY <1>1
  <2>2. L - d \in P
    BY <1>7, <1>8, <2>1, NatSetInduction
  <2> QED BY <2>1, <2>2 DEF P
<1> QED BY <1>2, <1>6, <1>9 DEF L

(* The positions of the prefixes of idx, as Linear computes them.          *)
Horner(at, s, idx, n) ==
    at = [d \in 0 .. n |-> IF d = 0 THEN 0 ELSE at[d - 1] * s[d] + idx[d]]

(* They exist.                                                             *)
LEMMA HornerExists ==
    ASSUME NEW s, NEW idx, NEW n \in Nat
    PROVE  \E at : Horner(at, s, idx, n)
<1> DEFINE P == {k \in Nat : \E at : Horner(at, s, idx, k)}
<1>1. 0 \in P
  <2> DEFINE f == [d \in 0 .. 0 |-> 0]
  <2>1. ASSUME NEW d \in 0 .. 0 PROVE f[d] = IF d = 0 THEN 0 ELSE f[d - 1] * s[d] + idx[d]
    OBVIOUS
  <2>2. f = [d \in 0 .. 0 |-> f[d]]
    OBVIOUS
  <2> HIDE DEF f
  <2>3. Horner(f, s, idx, 0)
    BY <2>1, <2>2, Zenon DEF Horner
  <2> QED BY <2>3
<1>2. ASSUME NEW k \in Nat, k \in P PROVE k + 1 \in P
  <2> PICK f : Horner(f, s, idx, k)
    BY <1>2
  <2> DEFINE h == [d \in 0 .. k + 1 |-> IF d = k + 1 THEN f[k] * s[k + 1] + idx[k + 1] ELSE f[d]]
  <2>1. ASSUME NEW d \in 0 .. k + 1
        PROVE  h[d] = IF d = 0 THEN 0 ELSE h[d - 1] * s[d] + idx[d]
    <3>1. CASE d = k + 1
      <4>1. d # 0 /\ d - 1 = k /\ h[d - 1] = f[k] /\ h[d] = f[k] * s[k + 1] + idx[k + 1]
        BY <3>1
      <4> HIDE DEF h
      <4> QED BY <3>1, <4>1
    <3>2. CASE d # k + 1
      <4>1. d \in 0 .. k /\ h[d] = f[d] /\ (d # 0 => h[d - 1] = f[d - 1])
        BY <3>2
      <4>2. f[d] = IF d = 0 THEN 0 ELSE f[d - 1] * s[d] + idx[d]
        BY <4>1, Zenon DEF Horner
      <4> HIDE DEF h
      <4> QED BY <4>1, <4>2
    <3> QED BY <3>1, <3>2
  <2>2. h = [d \in 0 .. k + 1 |-> h[d]]
    OBVIOUS
  <2> HIDE DEF h
  <2>3. Horner(h, s, idx, k + 1)
    BY <2>1, <2>2, Zenon DEF Horner
  <2> QED BY <2>3
<1> HIDE DEF P
<1>3. n \in P
  BY <1>1, <1>2, NatSetInduction
<1> QED BY <1>3 DEF P

(* Linear is the last of them.                                             *)
LEMMA LinearIs ==
    ASSUME NEW s \in Seq(Nat), NEW idx
    PROVE  \E at : Horner(at, s, idx, Len(s)) /\ Linear(s, idx) = at[Len(s)]
<1> DEFINE f == CHOOSE f : f = [d \in 0 .. Len(s) |->
                                   IF d = 0 THEN 0 ELSE f[d - 1] * s[d] + idx[d]]
<1>1. Len(s) \in Nat
  OBVIOUS
<1>2. Linear(s, idx) = f[Len(s)]
  BY DEF Linear
<1>3. f = [d \in 0 .. Len(s) |-> IF d = 0 THEN 0 ELSE f[d - 1] * s[d] + idx[d]]
  <2>1. \E g : Horner(g, s, idx, Len(s))
    BY <1>1, HornerExists
  <2>2. \E g : g = [d \in 0 .. Len(s) |-> IF d = 0 THEN 0 ELSE g[d - 1] * s[d] + idx[d]]
    BY <2>1 DEF Horner
  <2> QED BY <2>2, Zenon
<1> HIDE DEF f
<1> QED BY <1>2, <1>3, Zenon DEF Horner

(* What they are.                                                          *)
LEMMA HornerFacts ==
    ASSUME NEW s \in Seq(Nat), NEW n \in 0 .. Len(s), NEW idx, NEW at, Horner(at, s, idx, n),
           \A d \in 1 .. n : idx[d] \in Nat
    PROVE  /\ at[0] = 0
           /\ \A d \in 1 .. n : at[d] = at[d - 1] * s[d] + idx[d]
           /\ \A d \in 0 .. n : at[d] \in Nat
<1>1. \A d \in 0 .. n : at[d] = IF d = 0 THEN 0 ELSE at[d - 1] * s[d] + idx[d]
  BY Zenon DEF Horner
<1>2. n \in Nat /\ n <= Len(s) /\ Len(s) \in Nat
  OBVIOUS
<1>3. 0 \in 0 .. n /\ \A d \in 1 .. n : d \in 0 .. n /\ d # 0
  BY <1>2
<1>4. at[0] = 0 /\ \A d \in 1 .. n : at[d] = at[d - 1] * s[d] + idx[d]
  BY <1>1, <1>3
<1> DEFINE P == {k \in Nat : k <= n => at[k] \in Nat}
<1>5. 0 \in P
  BY <1>4
<1>6. ASSUME NEW k \in Nat, k \in P PROVE k + 1 \in P
  <2> SUFFICES ASSUME k + 1 <= n PROVE at[k + 1] \in Nat
    OBVIOUS
  <2>1. k + 1 \in 1 .. n /\ (k + 1) - 1 = k /\ k <= n /\ k + 1 \in 1 .. Len(s)
    BY <1>2
  <2>2. at[k] \in Nat /\ s[k + 1] \in Nat /\ idx[k + 1] \in Nat
    BY <1>6, <2>1
  <2>3. at[k + 1] = at[k] * s[k + 1] + idx[k + 1]
    BY <1>4, <2>1
  <2> DEFINE x == at[k]
             y == s[k + 1]
             z == idx[k + 1]
  <2>4. x \in Nat /\ y \in Nat /\ z \in Nat
    BY <2>2
  <2> HIDE DEF x, y, z
  <2>5. x * y + z \in Nat
    BY <2>4
  <2> QED BY <2>3, <2>5 DEF x, y, z
<1> HIDE DEF P
<1>7. \A d \in 0 .. n : at[d] \in Nat
  <2>1. \A d \in 0 .. n : d \in Nat /\ d <= n
    BY <1>2
  <2>2. Nat \subseteq P
    BY <1>5, <1>6, NatSetInduction
  <2> QED BY <2>1, <2>2 DEF P
<1> QED BY <1>4, <1>7

(* They are the quotients of the last one by the strides, from which       *)
(* IndexAt gets the index back.                                            *)
LEMMA HornerQuotients ==
    ASSUME NEW s \in Seq(Nat), NEW idx \in Indices(s), NEW at, Horner(at, s, idx, Len(s))
    PROVE  IndexAt(s, at[Len(s)]) = idx
<1> DEFINE L == Len(s)
           k == at[L]
           S(d) == Stride(s, d)
<1>1. L \in Nat /\ DOMAIN s = 1 .. L /\ \A d \in 1 .. L : s[d] \in Nat
  OBVIOUS
<1>2. idx \in Seq(Nat) /\ Len(idx) = L /\ \A d \in 1 .. L : idx[d] < s[d]
  BY IndicesAre
<1>3. \A d \in 1 .. L : idx[d] \in Nat /\ s[d] > 0
  BY <1>1, <1>2
<1>4. /\ at[0] = 0
      /\ \A d \in 1 .. L : at[d] = at[d - 1] * s[d] + idx[d]
      /\ \A d \in 0 .. L : at[d] \in Nat
  <2>1. L \in 0 .. Len(s)
    BY <1>1
  <2> QED BY <1>3, <2>1, HornerFacts
<1>5. /\ S(L) = 1 /\ \A d \in 0 .. L - 1 : S(d) = s[d + 1] * S(d + 1)
      /\ \A d \in 0 .. L : S(d) \in Nat /\ S(d) > 0
  BY <1>3, StrideFacts
<1> HIDE DEF L, S
<1>6. k \in Nat
  BY <1>1, <1>4
<1> DEFINE In(d) == at[d] * S(d) <= k /\ k < at[d] * S(d) + S(d)
           P == {n \in Nat : n <= L => In(L - n)}
<1>7. 0 \in P
  <2>1. at[L] * 1 = at[L] /\ L - 0 = L
    BY <1>1, <1>6
  <2> QED BY <2>1, <1>5, <1>6
<1> HIDE DEF k
<1>8. ASSUME NEW n \in Nat, n \in P PROVE n + 1 \in P
  <2> SUFFICES ASSUME n + 1 <= L PROVE In(L - (n + 1))
    OBVIOUS
  <2> DEFINE m == L - (n + 1)
  <2>1. /\ m \in 0 .. L - 1 /\ L - n = m + 1 /\ n <= L /\ m + 1 \in 1 .. L
        /\ m \in 0 .. L /\ m + 1 \in 0 .. L /\ (m + 1) - 1 = m
    BY <1>1
  <2> HIDE DEF m
  <2>2. In(m + 1)
    BY <1>8, <2>1
  <2> DEFINE x == at[m]
             y == s[m + 1]
             z == idx[m + 1]
             t == S(m + 1)
  <2>3. x \in Nat /\ y \in Nat /\ z \in Nat /\ z < y /\ t \in Nat
    BY <1>1, <1>2, <1>3, <1>4, <1>5, <2>1
  <2>4. at[m + 1] = x * y + z /\ S(m) = y * t
    BY <1>4, <1>5, <2>1
  <2>5. (x * y + z) * t <= k /\ k < (x * y + z) * t + t
    BY <2>2, <2>4
  <2> HIDE DEF x, y, z, t, In
  <2>6. x * (y * t) <= k /\ k < x * (y * t) + y * t
    <3>1. (x * y + z) * t = x * (y * t) + z * t /\ z * t \in Nat
      BY <2>3
    <3>2. z * t + t <= y * t
      <4> DEFINE e == y - (z + 1)
      <4>1. e \in Nat /\ y = (z + 1) + e
        BY <2>3
      <4> HIDE DEF e
      <4>2. y * t = (z * t + t) + e * t /\ e * t \in Nat
        BY <2>3, <4>1
      <4>3. y * t \in Nat /\ z * t \in Nat
        BY <2>3
      <4> QED BY <2>3, <4>2, <4>3
    <3> DEFINE a == x * (y * t)
               b == z * t
               c == y * t
    <3>3. a \in Nat /\ b \in Nat /\ c \in Nat
      BY <2>3
    <3> HIDE DEF a, b, c
    <3>4. a + b <= k /\ k < (a + b) + t /\ b + t <= c
      BY <2>5, <3>1, <3>2 DEF a, b, c
    <3>5. a <= k /\ k < a + c
      BY <1>6, <2>3, <3>3, <3>4
    <3> QED BY <3>5 DEF a, c
  <2>7. x * S(m) <= k /\ k < x * S(m) + S(m)
    BY <2>4, <2>6
  <2> QED BY <2>7 DEF In, x, m
<1> HIDE DEF P
<1>9. ASSUME NEW d \in 0 .. L PROVE In(d)
  <2>1. L - d \in Nat /\ L - d <= L /\ L - (L - d) = d
    BY <1>1
  <2>2. L - d \in P
    BY <1>7, <1>8, <2>1, NatSetInduction
  <2> QED BY <2>1, <2>2 DEF P
<1>10. ASSUME NEW d \in 0 .. L PROVE k \div S(d) = at[d]
  <2> DEFINE q == at[d]
             t == S(d)
  <2>1. q \in Nat /\ t \in Nat /\ t > 0 /\ q * t <= k /\ k < q * t + t
    BY <1>4, <1>5, <1>9
  <2> HIDE DEF q, t
  <2> DEFINE r == k - q * t
  <2>2. r \in 0 .. t - 1 /\ k = q * t + r
    <3>1. q * t \in Nat
      BY <2>1
    <3> QED BY <1>6, <2>1, <3>1
  <2> HIDE DEF r
  <2>3. (q * t + r) \div t = q
    BY <2>1, <2>2, Quotient
  <2> QED BY <2>2, <2>3 DEF q, t
<1>11. ASSUME NEW d \in 1 .. L PROVE (k \div S(d)) % s[d] = idx[d]
  <2> DEFINE q == at[d - 1]
             t == s[d]
             r == idx[d]
  <2>1. d \in 0 .. L /\ d - 1 \in 0 .. L
    BY <1>1
  <2>2. q \in Nat /\ t \in Nat /\ t > 0 /\ at[d] = q * t + r /\ r \in Nat /\ r < t
    BY <1>1, <1>2, <1>3, <1>4, <2>1, Zenon
  <2> HIDE DEF q, t, r
  <2>3. (q * t + r) % t = r
    BY SMTT(40), <2>2, Quotient
  <2> QED BY <1>10, <2>1, <2>2, <2>3 DEF t, r
<1>12. IndexAt(s, k) = idx
  <2>1. IndexAt(s, k) = [d \in 1 .. L |-> (k \div S(d)) % s[d]]
    BY <1>1 DEF IndexAt, S
  <2>2. idx = [d \in 1 .. L |-> idx[d]]
    <3>1. DOMAIN idx = 1 .. L /\ idx = [d \in DOMAIN idx |-> idx[d]]
      BY <1>1, <1>2
    <3> QED BY <3>1
  <2> QED BY <1>11, <2>1, <2>2, Zenon
<1> QED BY <1>12 DEF k, L

(* A position is that of the index there.                                  *)
LEMMA IndexAtFacts ==
    ASSUME NEW s \in Seq(Nat), \A d \in 1 .. Len(s) : s[d] > 0, NEW k \in 0 .. Size(s) - 1
    PROVE  IndexAt(s, k) \in Indices(s) /\ Linear(s, IndexAt(s, k)) = k
<1> DEFINE L == Len(s)
           S(d) == Stride(s, d)
           idx == IndexAt(s, k)
<1>1. L \in Nat /\ DOMAIN s = 1 .. L /\ \A d \in 1 .. L : s[d] \in Nat /\ s[d] > 0
  OBVIOUS
<1>2. /\ S(L) = 1 /\ \A d \in 0 .. L - 1 : S(d) = s[d + 1] * S(d + 1)
      /\ \A d \in 0 .. L : S(d) \in Nat /\ S(d) > 0
  BY <1>1, StrideFacts
<1>3. k \in Nat /\ k < S(0)
  <2>1. S(0) \in Nat /\ k \in 0 .. S(0) - 1
    BY <1>1, <1>2 DEF Size
  <2> HIDE DEF S
  <2> QED BY <2>1
<1>4. idx = [d \in 1 .. L |-> (k \div S(d)) % s[d]]
  BY <1>1 DEF IndexAt
<1> HIDE DEF L, S, idx
<1>5. ASSUME NEW d \in 1 .. L
      PROVE  /\ idx[d] \in Nat /\ idx[d] < s[d]
             /\ k \div S(d) = (k \div S(d - 1)) * s[d] + idx[d]
  <2> DEFINE t == S(d)
             y == s[d]
  <2>1. d \in 0 .. L /\ d - 1 \in 0 .. L - 1 /\ (d - 1) + 1 = d
    BY <1>1
  <2>2. t \in Nat /\ t > 0 /\ y \in Nat /\ y > 0 /\ S(d - 1) = y * t
    BY <1>1, <1>2, <2>1
  <2>3. idx[d] = (k \div t) % y
    BY <1>4
  <2> HIDE DEF t, y
  <2> DEFINE q == k \div t
             r == k % t
             p == q \div y
             u == q % y
  <2>4. q \in Nat /\ r \in 0 .. t - 1 /\ k = q * t + r
    BY <1>3, <2>2
  <2> HIDE DEF q, r
  <2>5. p \in Nat /\ u \in 0 .. y - 1 /\ q = p * y + u
    BY <2>2, <2>4
  <2> HIDE DEF p, u
  <2>6. k \div (y * t) = p
    <3>1. k = p * (y * t) + (u * t + r)
      BY <2>2, <2>4, <2>5
    <3>2. y * t \in Nat /\ y * t > 0 /\ u * t + r \in 0 .. y * t - 1
      <4> DEFINE e == y - (u + 1)
      <4>1. e \in Nat /\ y = (u + 1) + e
        BY <2>2, <2>5
      <4> HIDE DEF e
      <4>2. y * t = (u * t + t) + e * t /\ e * t \in Nat /\ u * t \in Nat
        BY <2>2, <2>5, <4>1
      <4> DEFINE a == u * t
                 b == e * t
                 c == y * t
      <4> HIDE DEF a, b, c
      <4>3. a \in Nat /\ b \in Nat /\ c = (a + t) + b
        BY <4>2 DEF a, b, c
      <4>4. c \in Nat /\ c > 0 /\ a + r \in 0 .. c - 1
        BY <2>2, <2>4, <4>3
      <4> QED BY <4>4 DEF a, c
    <3> DEFINE w == y * t
               v == u * t + r
    <3> HIDE DEF w, v
    <3>3. k = p * w + v /\ w \in Nat /\ w > 0 /\ v \in 0 .. w - 1
      BY <3>1, <3>2 DEF w, v
    <3>4. (p * w + v) \div w = p
      <4>1. p \in Int /\ w \in Nat /\ w > 0 /\ v \in 0 .. w - 1
        BY <2>5, <3>3
      <4> HIDE DEF p
      <4> QED BY ONLY <4>1, Quotient
    <3> QED BY <3>3, <3>4 DEF w
  <2>7. idx[d] = u
    BY <2>3 DEF u, q
  <2>8. u \in Nat /\ u < y
    BY <2>2, <2>5
  <2>9. k \div t = p * y + u
    BY <2>5 DEF q
  <2> HIDE DEF p, u, q
  <2>10. k \div S(d - 1) = p
    BY <2>2, <2>6
  <2> QED BY <2>7, <2>8, <2>9, <2>10, Zenon DEF t, y
<1>6. idx \in Indices(s)
  <2>1. DOMAIN idx = 1 .. L /\ idx \in [1 .. L -> Nat]
    BY <1>4, <1>5
  <2>2. idx \in Seq(Nat) /\ Len(idx) = L
    BY <1>1, <2>1, SeqDef
  <2> QED BY <1>5, <2>2, IndicesAre DEF L
<1>7. Linear(s, idx) = k
  <2> PICK at : Horner(at, s, idx, L) /\ Linear(s, idx) = at[L]
    BY LinearIs DEF L
  <2>1. at[0] = 0 /\ \A d \in 1 .. L : at[d] = at[d - 1] * s[d] + idx[d]
    <3>1. L \in 0 .. Len(s)
      BY <1>1 DEF L
    <3> QED BY <1>5, <3>1, HornerFacts
  <2> DEFINE P == {n \in Nat : n <= L => at[n] = k \div S(n)}
  <2>2. 0 \in P
    <3> DEFINE t == S(0)
    <3>1. t \in Nat /\ t > 0 /\ k < t
      BY <1>1, <1>2, <1>3
    <3> HIDE DEF t
    <3>2. k \div t = 0
      BY SMTT(40), <1>3, <3>1
    <3> QED BY <2>1, <3>2 DEF t
  <2>3. ASSUME NEW n \in Nat, n \in P PROVE n + 1 \in P
    <3> SUFFICES ASSUME n + 1 <= L PROVE at[n + 1] = k \div S(n + 1)
      OBVIOUS
    <3>1. n + 1 \in 1 .. L /\ (n + 1) - 1 = n /\ n <= L
      BY <1>1
    <3>2. at[n] = k \div S(n)
      BY <2>3, <3>1
    <3>3. at[n + 1] = at[n] * s[n + 1] + idx[n + 1]
      BY <2>1, <3>1
    <3>4. k \div S(n + 1) = (k \div S(n)) * s[n + 1] + idx[n + 1]
      BY <1>5, <3>1
    <3> QED BY <3>2, <3>3, <3>4
  <2> HIDE DEF P
  <2>4. Nat \subseteq P
    BY <2>2, <2>3, NatSetInduction
  <2>5. k \div 1 = k
    BY <1>3
  <2>6. at[L] = k \div S(L)
    BY <1>1, <2>4 DEF P
  <2> QED BY <1>2, <2>5, <2>6
<1> QED BY <1>6, <1>7 DEF idx

-----------------------------------------------------------------------------
(* The order in which the stores of a constant are emitted.                *)

(* What is where in a concatenation.                                       *)
LEMMA ConcatAt ==
    ASSUME NEW S, NEW s \in Seq(S), NEW t \in Seq(S)
    PROVE  /\ s \o t \in Seq(S) /\ Len(s \o t) = Len(s) + Len(t)
           /\ \A m \in 1 .. Len(s) : (s \o t)[m] = s[m]
           /\ \A m \in 1 .. Len(t) : (s \o t)[Len(s) + m] = t[m]
<1> DEFINE r == s \o t
<1>1. /\ r \in Seq(S)
      /\ Len(s) \in Nat /\ Len(t) \in Nat
      /\ Len(r) = Len(s) + Len(t)
      /\ \A m \in 1 .. Len(s) : r[m] = s[m]
      /\ \A m \in 1 .. Len(t) : r[Len(s) + m] = t[m]
      /\ \A p \in 1 .. Len(r) :
             p \in 1 .. Len(s) \/ \E m \in 1 .. Len(t) : p = Len(s) + m
  BY ConcatParts
<1> HIDE DEF r
<1> QED BY <1>1 DEF r

(* K rows of T elements, one after the other, are r.                       *)
RowsOf(r, rows, T, K) ==
    /\ Len(r) = K * T
    /\ \A i \in 1 .. K : \A n \in 1 .. T : r[(i - 1) * T + n] = rows[i][n]

(* So they are when they are joined.                                       *)
LEMMA JointRows ==
    ASSUME NEW S, NEW rows, NEW T \in Nat, NEW K \in Nat,
           \A i \in 1 .. K : rows[i] \in Seq(S) /\ Len(rows[i]) = T
    PROVE  Joint(rows, K) \in Seq(S) /\ RowsOf(Joint(rows, K), rows, T, K)
<1> DEFINE Good(k) == /\ Joint(rows, k) \in Seq(S) /\ Len(Joint(rows, k)) = k * T
                      /\ \A i \in 1 .. k : \A n \in 1 .. T :
                             Joint(rows, k)[(i - 1) * T + n] = rows[i][n]
           P == {k \in Nat : k <= K => Good(k)}
<1>1. 0 \in P
  <2>1. Joint(rows, 0) = << >>
    <3>1. [i \in 1 .. 0 |-> rows[i]] = << >> /\ FlattenSeq(<< >>) = << >>
      BY DEF FlattenSeq
    <3> QED BY <3>1 DEF Joint
  <2>2. << >> \in Seq(S) /\ 1 .. 0 = {} /\ Len(<< >>) = 0 /\ 0 * T = 0
    OBVIOUS
  <2> QED BY <2>1, <2>2
<1>2. ASSUME NEW k \in Nat, k \in P PROVE k + 1 \in P
  <2> SUFFICES ASSUME k + 1 <= K PROVE Good(k + 1)
    OBVIOUS
  <2>1. k <= K /\ k + 1 \in 1 .. K /\ (k + 1) - 1 = k /\ \A i \in 1 .. k + 1 : i \in 1 .. K
    OBVIOUS
  <2>2. Good(k)
    BY <1>2, <2>1
  <2> DEFINE x == Joint(rows, k)
             y == rows[k + 1]
             z == Joint(rows, k + 1)
  <2>3. z = x \o y
    BY <2>1, JointStep DEF Parts
  <2>4. x \in Seq(S) /\ y \in Seq(S) /\ Len(x) = k * T /\ Len(y) = T
    BY <2>1, <2>2
  <2> HIDE DEF x, y, z
  <2>5. /\ z \in Seq(S) /\ Len(z) = k * T + T
        /\ \A m \in 1 .. k * T : z[m] = x[m]
        /\ \A m \in 1 .. T : z[k * T + m] = y[m]
    <3>1. /\ x \o y \in Seq(S) /\ Len(x \o y) = Len(x) + Len(y)
          /\ \A m \in 1 .. Len(x) : (x \o y)[m] = x[m]
          /\ \A m \in 1 .. Len(y) : (x \o y)[Len(x) + m] = y[m]
      <4>1. x \in Seq(S) /\ y \in Seq(S)
        BY <2>4
      <4> QED BY ONLY <4>1, ConcatAt
    <3> QED BY <3>1, <2>3, <2>4, Zenon
  <2>6. (k + 1) * T = k * T + T
    OBVIOUS
  <2>7. ASSUME NEW i \in 1 .. k + 1, NEW n \in 1 .. T
        PROVE  z[(i - 1) * T + n] = rows[i][n]
    <3>1. CASE i = k + 1
      <4>1. (i - 1) * T + n = k * T + n
        BY <2>1, <3>1
      <4> QED BY <2>5, <3>1, <4>1 DEF y
    <3>2. CASE i # k + 1
      <4>1. i \in 1 .. k
        BY <3>2
      <4>2. (i - 1) * T + n \in 1 .. k * T
        <5> DEFINE e == k - i
                   j == i - 1
        <5>1. e \in Nat /\ j \in Nat /\ k = (j + e) + 1
          BY <4>1
        <5> HIDE DEF e, j
        <5>2. k * T = (j * T + e * T) + T /\ j * T \in Nat /\ e * T \in Nat
          BY <5>1
        <5> DEFINE a == j * T
                   b == e * T
                   c == k * T
        <5> HIDE DEF a, b, c
        <5>3. a + n \in 1 .. c
          <6>1. c = (a + b) + T /\ a \in Nat /\ b \in Nat /\ T \in Nat /\ n \in 1 .. T
            BY <5>2 DEF a, b, c
          <6> QED BY ONLY <6>1
        <5> QED BY <5>3 DEF a, c, j
      <4>3. x[(i - 1) * T + n] = rows[i][n]
        BY <2>2, <4>1 DEF x
      <4> QED BY <2>5, <4>2, <4>3
    <3> QED BY <3>1, <3>2
  <2> QED BY <2>5, <2>6, <2>7 DEF z
<1> HIDE DEF P
<1>3. Nat \subseteq P
  BY <1>1, <1>2, NatSetInduction
<1>4. K \in P
  BY <1>3
<1> QED BY <1>4 DEF P, RowsOf

(* From position q of the dimensions before d, the indices t of d and      *)
(* those behind it lead to position k.                                     *)
Reaches(s, d, q, t, k) ==
    \E at : /\ at[d - 1] = q
            /\ \A j \in d .. Len(s) : at[j] = at[j - 1] * s[j] + t[(j + 1) - d]
            /\ at[Len(s)] = k

(* One more index in front.                                                *)
LEMMA ReachesCons ==
    ASSUME NEW s \in Seq(Nat), NEW d \in 1 .. Len(s), NEW q, NEW u \in Seq(Nat), NEW x \in Nat,
           NEW k, Reaches(s, d + 1, q * s[d] + x, u, k), Len(u) = Len(s) - d
    PROVE  Reaches(s, d, q, <<x>> \o u, k)
<1> DEFINE L == Len(s)
           t == <<x>> \o u
<1>1. L \in Nat /\ d \in Nat /\ d >= 1 /\ d <= L /\ (d + 1) - 1 = d /\ L \in d .. L
  OBVIOUS
<1>2. t[1] = x /\ \A m \in 1 .. L - d : t[m + 1] = u[m]
  <2> DEFINE y == <<x>>
  <2>1. y \in Seq(Nat) /\ Len(y) = 1 /\ y[1] = x
    OBVIOUS
  <2> HIDE DEF y
  <2>2. /\ y \o u \in Seq(Nat) /\ Len(y \o u) = Len(y) + Len(u)
        /\ \A m \in 1 .. Len(y) : (y \o u)[m] = y[m]
        /\ \A m \in 1 .. Len(u) : (y \o u)[Len(y) + m] = u[m]
    <3>1. y \in Seq(Nat) /\ u \in Seq(Nat)
      BY <2>1
    <3> QED BY ONLY <3>1, ConcatAt
  <2>3. 1 \in 1 .. 1 /\ \A m \in 1 .. L - d : 1 + m = m + 1
    OBVIOUS
  <2> QED BY <2>1, <2>2, <2>3 DEF y
<1> HIDE DEF L, t
<1>3. PICK at : /\ at[d] = q * s[d] + x
                /\ \A j \in d + 1 .. L : at[j] = at[j - 1] * s[j] + u[(j + 1) - (d + 1)]
                /\ at[L] = k
  BY <1>1 DEF Reaches, L
<1> DEFINE h == [j \in d - 1 .. L |-> IF j = d - 1 THEN q ELSE at[j]]
<1>4. h[d - 1] = q /\ h[L] = k
  BY <1>1, <1>3
<1>5. ASSUME NEW j \in d .. L PROVE h[j] = h[j - 1] * s[j] + t[(j + 1) - d]
  <2>1. h[j] = at[j]
    BY <1>1
  <2>2. CASE j = d
    <3>1. h[j - 1] = q /\ (j + 1) - d = 1
      BY <1>1, <2>2
    <3> HIDE DEF h
    <3> QED BY <1>2, <1>3, <2>1, <2>2, <3>1
  <2>3. CASE j # d
    <3>1. /\ h[j - 1] = at[j - 1] /\ j \in d + 1 .. L
          /\ (j + 1) - (d + 1) \in 1 .. L - d /\ (j + 1) - d = ((j + 1) - (d + 1)) + 1
      BY <1>1, <2>3
    <3> HIDE DEF h
    <3>2. t[(j + 1) - d] = u[(j + 1) - (d + 1)]
      BY <1>2, <3>1
    <3> QED BY <1>3, <2>1, <3>1, <3>2
  <2> QED BY <2>2, <2>3
<1> HIDE DEF h
<1> QED BY <1>4, <1>5 DEF Reaches, L, t

(* The stores of a constant are in row-major order.                        *)
LEMMA StoreOrderIs ==
    ASSUME NEW s \in Seq(Nat), \A d \in 1 .. Len(s) : s[d] > 0
    PROVE  /\ Len(StoreOrder(s)) = Size(s) /\ DOMAIN StoreOrder(s) = 1 .. Size(s)
           /\ \A n \in 1 .. Size(s) : StoreOrder(s)[n] = IndexAt(s, n - 1)
           /\ \A n \in 1 .. Size(s) : Linear(s, StoreOrder(s)[n]) = n - 1
<1> DEFINE L == Len(s)
           S(d) == Stride(s, d)
           f == CHOOSE f : f = [d \in 1 .. L + 1 |->
                    IF d > Len(s) THEN << << >> >>
                    ELSE FlattenSeq([i \in 1 .. s[d] |->
                             [n \in DOMAIN f[d + 1] |-> <<i - 1>> \o f[d + 1][n]]])]
<1>1. L \in Nat /\ DOMAIN s = 1 .. L /\ \A d \in 1 .. L : s[d] \in Nat
  OBVIOUS
<1>2. StoreOrder(s) = f[1]
  BY DEF StoreOrder
<1>3. f = [d \in 1 .. L + 1 |->
              IF d > Len(s) THEN << << >> >>
              ELSE FlattenSeq([i \in 1 .. s[d] |->
                       [n \in DOMAIN f[d + 1] |-> <<i - 1>> \o f[d + 1][n]]])]
  BY <1>1, SuffixesExist, ZenonT(60) DEF SuffixStep
<1> HIDE DEF f
<1>4. ASSUME NEW d \in 1 .. L + 1 PROVE f[d] = SuffixStep(s, d, f[d + 1])
  BY <1>3 DEF SuffixStep
<1>5. /\ S(L) = 1 /\ \A d \in 0 .. L - 1 : S(d) = s[d + 1] * S(d + 1)
      /\ \A d \in 0 .. L : S(d) \in Nat
  BY StrideFacts
<1> DEFINE Good(d) ==
               /\ f[d] \in Seq(Seq(Nat)) /\ Len(f[d]) = S(d - 1)
               /\ \A n \in 1 .. S(d - 1) : Len(f[d][n]) = L + 1 - d
               /\ \A q \in Nat : \A n \in 1 .. S(d - 1) :
                      Reaches(s, d, q, f[d][n], q * S(d - 1) + (n - 1))
<1> HIDE DEF L, S
<1>6. Good(L + 1)
  <2>1. f[L + 1] = << << >> >>
    <3>1. L + 1 > Len(s) /\ L + 1 \in 1 .. L + 1
      BY <1>1 DEF L
    <3> QED BY <1>4, <3>1 DEF SuffixStep
  <2>2. (L + 1) - 1 = L /\ L + 1 - (L + 1) = 0 /\ L + 1 .. L = {}
    BY <1>1
  <2>3. /\ << << >> >> \in Seq(Seq(Nat)) /\ Len(<< << >> >>) = 1
        /\ << << >> >>[1] = << >> /\ Len(<< >>) = 0
    OBVIOUS
  <2>4. ASSUME NEW q \in Nat PROVE Reaches(s, L + 1, q, << >>, q)
    <3> DEFINE h == [j \in {L} |-> q]
    <3>1. h[L] = q
      OBVIOUS
    <3> HIDE DEF h
    <3> QED BY <3>1, <2>2 DEF Reaches, L
  <2>5. \A q \in Nat : q * 1 + (1 - 1) = q
    OBVIOUS
  <2>6. \A n \in 1 .. 1 : n = 1
    OBVIOUS
  <2> QED BY <1>5, <2>1, <2>2, <2>3, <2>4, <2>5, <2>6
<1>7. ASSUME NEW d \in 1 .. L, Good(d + 1) PROVE Good(d)
  <2> DEFINE T == S(d)
             K == s[d]
             g == f[d + 1]
             row(i) == [n \in DOMAIN g |-> <<i - 1>> \o g[n]]
             rows == [i \in 1 .. K |-> row(i)]
  <2>1. /\ d \in 1 .. L + 1 /\ ~ (d > Len(s)) /\ (d + 1) - 1 = d /\ d - 1 \in 0 .. L - 1
        /\ (d - 1) + 1 = d /\ d \in 0 .. L /\ d \in 1 .. Len(s)
        /\ L + 1 - (d + 1) = L - d /\ L + 1 - d = (L - d) + 1 /\ L - d \in Nat
    <3>1. /\ d \in 1 .. L + 1 /\ ~ (d > L) /\ (d + 1) - 1 = d /\ d - 1 \in 0 .. L - 1
          /\ (d - 1) + 1 = d /\ d \in 0 .. L
          /\ L + 1 - (d + 1) = L - d /\ L + 1 - d = (L - d) + 1 /\ L - d \in Nat
      BY <1>1
    <3> QED BY <3>1, Zenon DEF L
  <2>2. T \in Nat /\ K \in Nat /\ S(d - 1) = K * T
    BY <1>1, <1>5, <2>1
  <2>3. /\ g \in Seq(Seq(Nat)) /\ Len(g) = T /\ DOMAIN g = 1 .. T
        /\ \A n \in 1 .. T : g[n] \in Seq(Nat) /\ Len(g[n]) = L - d
        /\ \A q \in Nat : \A n \in 1 .. T : Reaches(s, d + 1, q, g[n], q * T + (n - 1))
    <3>1. g \in Seq(Seq(Nat)) /\ Len(g) = T /\ DOMAIN g = 1 .. T
      BY <1>7, <2>1
    <3>2. \A n \in 1 .. T : g[n] \in Seq(Nat)
      BY <3>1
    <3> QED BY <1>7, <2>1, <3>1, <3>2
  <2>4. f[d] = Joint(rows, K)
    <3>1. f[d] = SuffixStep(s, d, g)
      BY <1>4, <2>1
    <3>2. [i \in 1 .. K |-> rows[i]] = rows
      OBVIOUS
    <3>3. SuffixStep(s, d, g) = FlattenSeq(rows)
      BY <2>1 DEF SuffixStep
    <3> QED BY <3>1, <3>2, <3>3 DEF Joint
  <2>5. \A i \in 1 .. K : rows[i] = row(i)
    OBVIOUS
  <2> HIDE DEF T, K, g, rows
  <2>6. ASSUME NEW i \in 1 .. K, NEW n \in 1 .. T
        PROVE  /\ rows[i][n] = <<i - 1>> \o g[n]
               /\ rows[i][n] \in Seq(Nat) /\ Len(rows[i][n]) = (L - d) + 1
    <3>1. rows[i][n] = <<i - 1>> \o g[n]
      BY <2>3, <2>5
    <3>2. i - 1 \in Nat
      OBVIOUS
    <3> DEFINE y == <<i - 1>>
               u == g[n]
    <3>3. y \in Seq(Nat) /\ Len(y) = 1 /\ u \in Seq(Nat) /\ Len(u) = L - d
      BY <2>3, <3>2
    <3> HIDE DEF y, u
    <3>4. y \o u \in Seq(Nat) /\ Len(y \o u) = Len(y) + Len(u)
      BY <3>3, ConcatAt
    <3>5. 1 + (L - d) = (L - d) + 1
      BY <2>1
    <3> QED BY <3>1, <3>3, <3>4, <3>5 DEF y, u
  <2>7. \A i \in 1 .. K : rows[i] \in Seq(Seq(Nat)) /\ Len(rows[i]) = T
    <3> TAKE i \in 1 .. K
    <3>1. rows[i] = row(i)
      BY <2>5
    <3>2. rows[i] = [n \in 1 .. T |-> rows[i][n]]
      BY <2>3, <3>1
    <3> DEFINE r == rows[i]
    <3>3. \A n \in 1 .. T : r[n] \in Seq(Nat)
      BY <2>6
    <3>4. r = [n \in 1 .. T |-> r[n]]
      BY <3>2
    <3> HIDE DEF r, row
    <3>5. r \in [1 .. T -> Seq(Nat)] /\ DOMAIN r = 1 .. T
      BY <3>3, <3>4
    <3>6. r \in Seq(Seq(Nat)) /\ Len(r) = T
      BY <2>2, <3>5, SeqDef
    <3> QED BY <3>6 DEF r
  <2> HIDE DEF row
  <2>8. /\ f[d] \in Seq(Seq(Nat)) /\ Len(f[d]) = K * T
        /\ \A i \in 1 .. K : \A n \in 1 .. T : f[d][(i - 1) * T + n] = rows[i][n]
    <3> DEFINE J == Joint(rows, K)
               Q == Seq(Nat)
    <3>1. \A i \in 1 .. K : rows[i] \in Seq(Q) /\ Len(rows[i]) = T
      BY <2>7
    <3> HIDE DEF Q
    <3>2. J \in Seq(Q) /\ RowsOf(J, rows, T, K)
      <4>1. T \in Nat /\ K \in Nat
        BY <2>2
      <4> QED BY ONLY <3>1, <4>1, JointRows
    <3> HIDE DEF J
    <3> QED BY <2>4, <3>2 DEF J, Q, RowsOf
  <2>9. ASSUME NEW m \in 1 .. K * T
        PROVE  \E i \in 1 .. K : \E n \in 1 .. T : m = (i - 1) * T + n
    <3>1. T > 0
      <4>1. K * 0 = 0
        BY <2>2
      <4>2. T # 0
        BY <4>1, <2>9
      <4> QED BY <2>2, <4>2
    <3> DEFINE q == (m - 1) \div T
               r == (m - 1) % T
    <3>2. q \in Nat /\ r \in 0 .. T - 1 /\ m - 1 = q * T + r
      BY <2>2, <3>1
    <3> HIDE DEF q, r
    <3>3. q < K
      <4> SUFFICES ASSUME q >= K PROVE FALSE
        BY <2>2, <3>2
      <4> DEFINE e == q - K
      <4>1. e \in Nat /\ q = K + e
        BY <2>2, <3>2
      <4> HIDE DEF e
      <4>2. q * T = K * T + e * T /\ e * T \in Nat /\ K * T \in Nat
        BY <2>2, <4>1
      <4> DEFINE a == K * T
                 b == e * T
                 c == q * T
      <4> HIDE DEF a, b, c
      <4>3. c = a + b /\ a \in Nat /\ b \in Nat /\ m \in 1 .. a /\ m - 1 = c + r
        BY <2>9, <3>2, <4>2 DEF a, b, c
      <4> QED BY <3>2, <4>3
    <3>4. q + 1 \in 1 .. K /\ r + 1 \in 1 .. T /\ (q + 1) - 1 = q
      BY <2>2, <3>1, <3>2, <3>3
    <3>5. m = q * T + (r + 1)
      <4> DEFINE c == q * T
      <4>1. c \in Nat
        BY <2>2, <3>2
      <4>2. m - 1 = c + r
        BY <3>2
      <4> HIDE DEF c
      <4>3. m = c + (r + 1)
        BY <3>2, <4>1, <4>2
      <4> QED BY <4>3 DEF c
    <3> QED BY <3>4, <3>5
  <2>10. ASSUME NEW q \in Nat, NEW i \in 1 .. K, NEW n \in 1 .. T
         PROVE  Reaches(s, d, q, rows[i][n], q * (K * T) + (((i - 1) * T + n) - 1))
    <3> DEFINE x == i - 1
               p == q * K + x
    <3>1. x \in Nat /\ p \in Nat
      BY SMTT(40), <2>2
    <3>2. Reaches(s, d + 1, p, g[n], p * T + (n - 1))
      BY <2>3, <3>1
    <3>3. p * T + (n - 1) = q * (K * T) + ((x * T + n) - 1)
      <4> HIDE DEF x
      <4>1. (q * K + x) * T = q * (K * T) + x * T
        BY <2>2, <3>1
      <4> DEFINE a == q * (K * T)
                 b == x * T
      <4>2. a \in Nat /\ b \in Nat
        BY <2>2, <3>1
      <4> HIDE DEF a, b
      <4>3. (a + b) + (n - 1) = a + ((b + n) - 1)
        BY <4>2
      <4> QED BY <4>1, <4>3 DEF a, b
    <3>4. g[n] \in Seq(Nat) /\ Len(g[n]) = Len(s) - d
      BY <2>3 DEF L
    <3> HIDE DEF p, x
    <3>5. Reaches(s, d + 1, q * s[d] + x, g[n], p * T + (n - 1))
      BY <3>2 DEF p, K
    <3>6. Reaches(s, d, q, <<x>> \o g[n], p * T + (n - 1))
      BY <2>1, <3>1, <3>4, <3>5, ReachesCons
    <3> QED BY <2>6, <3>3, <3>6 DEF x
  <2>11. ASSUME NEW m \in 1 .. K * T
         PROVE  /\ Len(f[d][m]) = L + 1 - d
                /\ \A q \in Nat : Reaches(s, d, q, f[d][m], q * (K * T) + (m - 1))
    <3>1. PICK i \in 1 .. K, n \in 1 .. T : m = (i - 1) * T + n
      BY <2>9
    <3>2. f[d][m] = rows[i][n]
      BY <2>8, <3>1
    <3> QED BY <2>1, <2>6, <2>10, <3>1, <3>2
  <2> QED BY <2>2, <2>8, <2>11
<1> DEFINE P == {k \in Nat : k <= L => Good(L + 1 - k)}
<1>8. 0 \in P
  <2>1. L + 1 - 0 = L + 1
    BY <1>1
  <2> QED BY <1>6, <2>1
<1> HIDE DEF Good
<1>9. ASSUME NEW k \in Nat, k \in P PROVE k + 1 \in P
  <2> SUFFICES ASSUME k + 1 <= L PROVE Good(L + 1 - (k + 1))
    OBVIOUS
  <2> DEFINE d == L + 1 - (k + 1)
  <2>1. d \in 1 .. L /\ d + 1 = L + 1 - k /\ k <= L
    BY <1>1
  <2>2. Good(L + 1 - k)
    BY <1>9, <2>1
  <2> HIDE DEF d
  <2>3. Good(d)
    BY <2>1, <2>2, <1>7
  <2> QED BY <2>3 DEF d
<1> HIDE DEF P
<1>10. Good(1)
  <2>1. Nat \subseteq P
    BY <1>8, <1>9, NatSetInduction
  <2>2. L + 1 - L = 1 /\ L <= L
    BY <1>1
  <2> QED BY <1>1, <2>1, <2>2 DEF P
<1> DEFINE o == StoreOrder(s)
<1>11. S(0) = Size(s) /\ 1 - 1 = 0 /\ S(0) \in Nat
  BY <1>1, <1>5 DEF S, Size
<1>12. o \in Seq(Seq(Nat)) /\ Len(o) = Size(s) /\ DOMAIN o = 1 .. Size(s)
  BY <1>2, <1>10, <1>11 DEF Good
<1>13. ASSUME NEW n \in 1 .. Size(s)
       PROVE  o[n] = IndexAt(s, n - 1)
  <2> DEFINE t == o[n]
  <2>1. Reaches(s, 1, 0, t, 0 * S(0) + (n - 1))
    BY <1>2, <1>10, <1>11 DEF Good
  <2>2. 0 * S(0) + (n - 1) = n - 1
    BY <1>11
  <2> PICK h : /\ h[1 - 1] = 0
               /\ \A j \in 1 .. L : h[j] = h[j - 1] * s[j] + t[(j + 1) - 1]
               /\ h[L] = n - 1
    BY <2>1, <2>2 DEF Reaches, L
  <2> DEFINE at == [d \in 0 .. L |-> h[d]]
  <2>3. ASSUME NEW d \in 0 .. L PROVE at[d] = IF d = 0 THEN 0 ELSE at[d - 1] * s[d] + t[d]
    <3>1. at[d] = h[d] /\ (d # 0 => at[d - 1] = h[d - 1] /\ d \in 1 .. L /\ (d + 1) - 1 = d)
      BY <1>1
    <3> HIDE DEF at, t
    <3> QED BY <3>1, <1>11
  <2>4. at = [d \in 0 .. L |-> at[d]] /\ at[L] = n - 1
    BY <1>1
  <2> HIDE DEF at, t
  <2>5. Horner(at, s, t, L)
    BY <2>3, <2>4, Zenon DEF Horner
  <2>6. t \in Indices(s)
    <3>1. StoreOrder(s) \in Seq(Indices(s))
      BY StoreOrderIndices
    <3> HIDE DEF o
    <3> QED BY <1>12, <3>1 DEF t, o
  <2>7. IndexAt(s, at[L]) = t
    BY <2>5, <2>6, HornerQuotients DEF L
  <2> QED BY <2>4, <2>7 DEF t
<1>14. ASSUME NEW n \in 1 .. Size(s) PROVE Linear(s, o[n]) = n - 1
  <2>1. n - 1 \in 0 .. Size(s) - 1
    BY <1>11
  <2> HIDE DEF o
  <2> QED BY <1>13, <2>1, IndexAtFacts
<1> QED BY <1>12, <1>13, <1>14 DEF o
=============================================================================
