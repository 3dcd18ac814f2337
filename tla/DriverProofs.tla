---------------------------- MODULE DriverProofs ----------------------------
(***************************************************************************)
(* Proofs about the compiler up to its lowerings: in whatever order the    *)
(* patterns, the folds and the inliner rewrite the functions MLIRGen has   *)
(* built, an operand stays a value defined before its use, and the driver  *)
(* keeps track of the function a pass is at.                               *)
(*                                                                         *)
(* A value is a position, so each rewrite renames operands.  That the      *)
(* renaming is right needs more of a function than the property says:      *)
(* FunctionOK of MLIRGenProofs.  That no operation loses an operand, and   *)
(* no access reads past its constant, needs the types as well: Sealed, of  *)
(* a function whose operations are sound and that ends in its only return. *)
(***************************************************************************)
EXTENDS Driver, MLIRGenProofs

-----------------------------------------------------------------------------
(* Erasing operations.                                                     *)

(* What an operand a is called when v is erased and w stands for it.       *)
Now(v, w, a) == IF a = v THEN w ELSE IF a > v THEN a - 1 ELSE a

(* An operation with its operands renamed so.                              *)
Renamed(op, v, w) == [op EXCEPT !.args = [i \in DOMAIN @ |-> Now(v, w, @[i])]]

(* It has as many operands as before.                                      *)
LEMMA RenamedOperation ==
    ASSUME NEW op, IsOperation(op), NEW v, NEW w
    PROVE  /\ IsOperation(Renamed(op, v, w)) /\ Renamed(op, v, w).kind = op.kind
           /\ Renamed(op, v, w).attr = op.attr /\ Len(Renamed(op, v, w).args) = Len(op.args)
           /\ \A i \in 1 .. Len(op.args) : Renamed(op, v, w).args[i] = Now(v, w, op.args[i])
<1> DEFINE args == [i \in DOMAIN op.args |-> Now(v, w, op.args[i])]
           r == [kind |-> op.kind, args |-> args, attr |-> op.attr]
<1>1. op = [kind |-> op.kind, args |-> op.args, attr |-> op.attr] /\ IsSequence(op.args)
  BY DEF IsOperation
<1>2. Len(op.args) \in Nat /\ DOMAIN op.args = 1 .. Len(op.args)
  BY <1>1, SequenceFacts
<1>3. /\ args = [i \in 1 .. Len(op.args) |-> args[i]]
      /\ \A i \in 1 .. Len(op.args) : args[i] = Now(v, w, op.args[i])
  BY <1>2
<1> HIDE DEF args
<1>4. IsSequence(args) /\ Len(args) = Len(op.args)
  BY <1>2, <1>3, FunctionFacts
<1>5. Renamed(op, v, w) = [op EXCEPT !.args = args]
  BY Zenon DEF Renamed, args
<1>6. Renamed(op, v, w) = r
  BY <1>1, <1>5
<1>7. /\ r.kind = op.kind /\ r.args = args /\ r.attr = op.attr
      /\ r = [kind |-> r.kind, args |-> r.args, attr |-> r.attr]
  OBVIOUS
<1> HIDE DEF r
<1>8. op.args # << >> => args # << >>
  BY <1>1, <1>4, SequenceFacts
<1>9. op.args = << >> => args = << >>
  BY <1>1, <1>4, SequenceFacts
<1>10. IsOperation(r)
  BY <1>4, <1>7, <1>8, <1>9 DEF IsOperation
<1> QED BY <1>3, <1>4, <1>6, <1>7, <1>10

(* Replaced, with the operations it leaves.                                *)
Renumbered(f, v, w) ==
    [n \in DOMAIN RemoveAt(f.ops, v) |-> Renamed(RemoveAt(f.ops, v)[n], v, w)]

(* The fields of a function whose operation v is erased.                   *)
LEMMA ReplacedFields ==
    ASSUME NEW f, IsFunction(f), NEW v, NEW w
    PROVE  Replaced(f, v, w) =
           [name |-> f.name, private |-> f.private, ops |-> Renumbered(f, v, w),
            types |-> RemoveAt(f.types, v), result |-> f.result]
<1> DEFINE ops == RemoveAt(f.ops, v)
           new == [n \in DOMAIN ops |->
                     [ops[n] EXCEPT !.args = [i \in DOMAIN @ |->
                         IF @[i] = v THEN w ELSE IF @[i] > v THEN @[i] - 1 ELSE @[i]]]]
<1>1. Replaced(f, v, w) = [f EXCEPT !.ops = new, !.types = RemoveAt(@, v)]
  BY Zenon DEF Replaced
<1>2. new = Renumbered(f, v, w)
  BY Zenon DEF Renumbered, Renamed, Now
<1> HIDE DEF new
<1>3. [f EXCEPT !.ops = new].types = f.types
  BY DEF IsFunction
<1>4. Replaced(f, v, w) = [f EXCEPT !.ops = new, !.types = RemoveAt(f.types, v)]
  BY <1>1, <1>3, Zenon
<1>5. f = [name |-> f.name, private |-> f.private, ops |-> f.ops, types |-> f.types,
           result |-> f.result]
  BY DEF IsFunction
<1> QED BY <1>2, <1>4, <1>5, FunctionChanged

(* The value that is called n when v is erased.                            *)
Old(v, n) == IF n < v THEN n ELSE n + 1

(* Operation n of g is the one that f has there, renamed.                  *)
Remains(g, f, v, w, n) ==
    /\ Old(v, n) \in 1 .. Len(f.ops) /\ Old(v, n) # v
    /\ g.types[n] = f.types[Old(v, n)]
    /\ IsOperation(g.ops[n]) /\ g.ops[n].kind = f.ops[Old(v, n)].kind
    /\ g.ops[n].attr = f.ops[Old(v, n)].attr
    /\ Len(g.ops[n].args) = Len(f.ops[Old(v, n)].args)
    /\ \A i \in 1 .. Len(g.ops[n].args) :
           g.ops[n].args[i] = Now(v, w, f.ops[Old(v, n)].args[i])

(* All operations but the one erased remain.                               *)
LEMMA ReplacedRemains ==
    ASSUME NEW f, FunctionOK(f), NEW v \in 1 .. Len(f.ops), NEW w,
           NEW g, g = Replaced(f, v, w)
    PROVE  /\ IsFunction(g) /\ g.name = f.name /\ g.result = f.result
           /\ Len(g.ops) = Len(f.ops) - 1
           /\ \A n \in 1 .. Len(f.ops) - 1 : Remains(g, f, v, w, n)
<1> DEFINE L == Len(f.ops)
<1>1. /\ IsFunction(f) /\ L \in Nat /\ Len(f.types) = L
      /\ IsSequence(f.ops) /\ IsSequence(f.types)
  BY SequenceFacts DEF FunctionOK, IsFunction
<1>2. /\ g = [name |-> f.name, private |-> f.private, ops |-> Renumbered(f, v, w),
              types |-> RemoveAt(f.types, v), result |-> f.result]
  BY <1>1, ReplacedFields
<1>3. /\ IsSequence(RemoveAt(f.ops, v)) /\ Len(RemoveAt(f.ops, v)) = L - 1
      /\ \A n \in 1 .. v - 1 : RemoveAt(f.ops, v)[n] = f.ops[n]
      /\ \A n \in v .. L - 1 : RemoveAt(f.ops, v)[n] = f.ops[n + 1]
  BY <1>1, RemoveFacts, Zenon
<1>4. /\ IsSequence(g.types) /\ Len(g.types) = L - 1
      /\ \A n \in 1 .. v - 1 : g.types[n] = f.types[n]
      /\ \A n \in v .. L - 1 : g.types[n] = f.types[n + 1]
  <2>1. v \in 1 .. Len(f.types) /\ g.types = RemoveAt(f.types, v)
    BY <1>1, <1>2
  <2>2. /\ IsSequence(RemoveAt(f.types, v)) /\ Len(RemoveAt(f.types, v)) = L - 1
        /\ \A n \in 1 .. v - 1 : RemoveAt(f.types, v)[n] = f.types[n]
        /\ \A n \in v .. L - 1 : RemoveAt(f.types, v)[n] = f.types[n + 1]
    BY ZenonT(60), <1>1, <2>1, RemoveFacts
  <2> QED BY <2>1, <2>2
<1>5. /\ IsSequence(g.ops) /\ Len(g.ops) = L - 1
      /\ \A n \in 1 .. L - 1 : g.ops[n] = Renamed(RemoveAt(f.ops, v)[n], v, w)
  <2>1. DOMAIN RemoveAt(f.ops, v) = 1 .. L - 1 /\ L - 1 \in Nat
    BY <1>1, <1>3, SequenceFacts
  <2>2. g.ops = Renumbered(f, v, w)
    BY <1>2
  <2>3. /\ g.ops = [n \in 1 .. L - 1 |-> g.ops[n]]
        /\ \A n \in 1 .. L - 1 : g.ops[n] = Renamed(RemoveAt(f.ops, v)[n], v, w)
    BY <2>1, <2>2, Zenon DEF Renumbered
  <2> QED BY <2>1, <2>3, FunctionFacts
<1> HIDE DEF L
<1>6. \A n \in 1 .. L - 1 :
          /\ Old(v, n) \in 1 .. L /\ Old(v, n) # v
          /\ g.types[n] = f.types[Old(v, n)] /\ g.ops[n] = Renamed(f.ops[Old(v, n)], v, w)
  <2> TAKE n \in 1 .. L - 1
  <2>1. CASE n < v
    <3>1. n \in 1 .. v - 1 /\ n \in 1 .. L /\ Old(v, n) = n /\ n # v
      BY <1>1, <2>1 DEF L, Old
    <3> QED BY <1>3, <1>4, <1>5, <3>1
  <2>2. CASE ~ (n < v)
    <3>1. n \in v .. L - 1 /\ n + 1 \in 1 .. L /\ Old(v, n) = n + 1
      BY <1>1, <2>2 DEF L, Old
    <3> QED BY <1>3, <1>4, <1>5, <3>1
  <2> QED BY <2>1, <2>2
<1>7. IsFunction(g) /\ g.name = f.name /\ g.result = f.result
  BY <1>2, <1>4, <1>5 DEF IsFunction
<1>8. ASSUME NEW n \in 1 .. L - 1 PROVE Remains(g, f, v, w, n)
  <2> DEFINE o == Old(v, n)
  <2>1. o \in 1 .. L /\ o # v /\ g.types[n] = f.types[o] /\ g.ops[n] = Renamed(f.ops[o], v, w)
    BY <1>6
  <2> HIDE DEF o
  <2>2. IsOperation(f.ops[o])
    BY <2>1 DEF FunctionOK, L
  <2>3. /\ IsOperation(g.ops[n]) /\ g.ops[n].kind = f.ops[o].kind
        /\ g.ops[n].attr = f.ops[o].attr /\ Len(g.ops[n].args) = Len(f.ops[o].args)
        /\ \A i \in 1 .. Len(f.ops[o].args) :
               g.ops[n].args[i] = Now(v, w, f.ops[o].args[i])
    BY <2>1, <2>2, RenamedOperation
  <2> QED BY <2>1, <2>3 DEF Remains, o, L
<1> QED BY <1>5, <1>7, <1>8 DEF L

(* g is f rewritten: the function it was, with operations as they must be. *)
Rewritten(f, g) == FunctionOK(g) /\ g.name = f.name

(* w may stand for value v of f, if it is used at all.                     *)
StandsFor(f, w, v) ==
    \A u \in 1 .. Len(f.ops) : \A i \in 1 .. Len(f.ops[u].args) :
        f.ops[u].args[i] = v => Usable(f, v, w)

(* Operation n of g uses b, which is the value a of f, or w for v.         *)
UsesFor(g, f, v, w, n, a, b) ==
    /\ Usable(g, n, b)
    /\ g.types[b] = f.types[IF a = v THEN w ELSE a]

(* Under its new name an operand that is not v is the value it was, and w  *)
(* stands for v.                                                           *)
LEMMA RemainsUsable ==
    ASSUME NEW f, FunctionOK(f), NEW v \in 1 .. Len(f.ops), NEW w, StandsFor(f, w, v),
           NEW g, g = Replaced(f, v, w), NEW n \in 1 .. Len(f.ops) - 1,
           NEW i \in 1 .. Len(g.ops[n].args), NEW a, a = f.ops[Old(v, n)].args[i],
           NEW b, b = g.ops[n].args[i]
    PROVE  UsesFor(g, f, v, w, n, a, b)
<1> DEFINE L == Len(f.ops)
           o == Old(v, n)
<1>1. L \in Nat /\ v \in 1 .. L
  BY SequenceFacts DEF FunctionOK, IsFunction
<1>2. \A m \in 1 .. L - 1 : Remains(g, f, v, w, m)
  BY SMTT(40), ReplacedRemains
<1>3. o \in 1 .. L /\ o # v /\ (o < v => n = o) /\ (o > v => n = o - 1)
  <2>1. o \in 1 .. L /\ o # v
    BY <1>2 DEF Remains
  <2>2. n \in Nat /\ v \in Nat
    BY <1>1
  <2>3. (Old(v, n) < v => n = Old(v, n)) /\ (Old(v, n) > v => n = Old(v, n) - 1)
    BY ONLY <2>2 DEF Old
  <2> QED BY <2>1, <2>3
<1>4. i \in 1 .. Len(f.ops[o].args) /\ b = Now(v, w, a)
  BY <1>2 DEF Remains
<1>5. ASSUME NEW m \in 1 .. L - 1
      PROVE  (m < v => g.types[m] = f.types[m]) /\ (m >= v => g.types[m] = f.types[m + 1])
  <2>1. g.types[m] = f.types[Old(v, m)]
    BY <1>2 DEF Remains
  <2>2. (m < v => Old(v, m) = m) /\ (m >= v => Old(v, m) = m + 1)
    BY <1>1 DEF Old
  <2> QED BY <2>1, <2>2
<1>6. a = f.ops[o].args[i]
  OBVIOUS
<1> HIDE DEF o, L
<1>7. Usable(f, o, a)
  BY <1>3, <1>4, <1>6 DEF FunctionOK, L
<1>8. a = v => Usable(f, v, w)
  BY <1>3, <1>4, <1>6 DEF StandsFor, L
<1>9. a \in 1 .. o - 1 /\ f.types[a] # NoResult
  BY <1>7 DEF Usable
<1>10. n \in 1 .. L - 1 /\ b = Now(v, w, a)
  BY <1>4 DEF L
<1>11. CASE a = v
  <2>1. w \in 1 .. v - 1 /\ f.types[w] # NoResult /\ b = w
    BY <1>4, <1>8, <1>11 DEF Usable, Now
  <2>2. w \in 1 .. n - 1 /\ w \in 1 .. L - 1 /\ w < v
    BY <1>1, <1>3, <1>9, <1>10, <1>11, <2>1
  <2>3. g.types[w] = f.types[w]
    BY <1>5, <2>2
  <2> QED BY <1>11, <2>1, <2>2, <2>3 DEF Usable, UsesFor
<1>12. CASE a > v
  <2>1. b = a - 1 /\ a - 1 \in 1 .. n - 1 /\ a - 1 \in 1 .. L - 1 /\ a - 1 >= v /\ a # v
    <3>1. a \in 1 .. o - 1
      BY <1>9
    <3> QED BY ONLY <1>1, <1>3, <1>10, <1>12, <3>1 DEF Now
  <2>2. (a - 1) + 1 = a
    BY <1>9
  <2>3. g.types[a - 1] = f.types[a]
    BY <1>5, <2>1, <2>2
  <2> QED BY <1>9, <2>1, <2>3 DEF Usable, UsesFor
<1>13. CASE a < v
  <2>1. b = a /\ a \in 1 .. n - 1 /\ a \in 1 .. L - 1 /\ a # v
    <3>1. a \in 1 .. o - 1
      BY <1>9
    <3> QED BY ONLY <1>1, <1>3, <1>10, <1>13, <3>1 DEF Now
  <2>2. g.types[a] = f.types[a]
    BY <1>5, <1>13, <2>1
  <2> QED BY <1>9, <2>1, <2>2 DEF Usable, UsesFor
<1> QED BY <1>1, <1>9, <1>11, <1>12, <1>13

(* An operation that is no parameter and does not end the function can be  *)
(* replaced by a value that is defined before it.                          *)
LEMMA ReplacedOK ==
    ASSUME NEW f, FunctionOK(f), NEW v \in 1 .. Len(f.ops),
           f.ops[v].kind \notin {"arg", "return"}, NEW w, StandsFor(f, w, v)
    PROVE  Rewritten(f, Replaced(f, v, w))
<1> DEFINE g == Replaced(f, v, w)
           L == Len(f.ops)
<1>1. L \in Nat
  BY SequenceFacts DEF FunctionOK, IsFunction
<1>2. g = Replaced(f, v, w)
  OBVIOUS
<1> HIDE DEF g
<1>3. /\ IsFunction(g) /\ g.name = f.name /\ g.result = f.result /\ Len(g.ops) = L - 1
      /\ \A n \in 1 .. L - 1 : Remains(g, f, v, w, n)
  BY <1>2, ReplacedRemains
<1>4. ASSUME NEW n \in 1 .. L - 1, NEW i \in 1 .. Len(g.ops[n].args)
      PROVE  Usable(g, n, g.ops[n].args[i])
  <2> DEFINE a == f.ops[Old(v, n)].args[i]
             b == g.ops[n].args[i]
  <2>1. a = f.ops[Old(v, n)].args[i] /\ b = g.ops[n].args[i]
    OBVIOUS
  <2> HIDE DEF a, b
  <2>2. UsesFor(g, f, v, w, n, a, b)
    BY <1>2, <2>1, RemainsUsable
  <2> QED BY <2>1, <2>2 DEF UsesFor
<1> HIDE DEF L
<1>5. \E k \in 0 .. Len(g.ops) : ParametersFirst(g, k)
  <2>1. PICK k \in 0 .. L : ParametersFirst(f, k)
    BY DEF FunctionOK, L
  <2>2. k < v
    BY <2>1 DEF ParametersFirst
  <2>3. ASSUME NEW n \in 1 .. L - 1
        PROVE  (g.ops[n].kind = "arg" <=> n <= k) /\ (n <= k => g.types[n] # NoResult)
    <3> DEFINE o == Old(v, n)
    <3>1. o \in 1 .. L /\ g.ops[n].kind = f.ops[o].kind /\ g.types[n] = f.types[o]
      BY <1>3 DEF Remains, L
    <3>2. o <= k <=> n <= k
      BY <1>1, <2>1, <2>2 DEF Old
    <3> HIDE DEF o
    <3>3. (f.ops[o].kind = "arg" <=> o <= k) /\ (o <= k => f.types[o] # NoResult)
      BY <2>1, <3>1 DEF ParametersFirst, L
    <3> QED BY <3>1, <3>2, <3>3
  <2>4. k \in 0 .. L - 1
    BY <1>1, <2>1, <2>2 DEF L
  <2> QED BY <1>3, <2>3, <2>4 DEF ParametersFirst
<1>6. g.result # << >> =>
          /\ Len(g.ops) # 0
          /\ g.ops[Len(g.ops)].kind = "return" /\ g.ops[Len(g.ops)].args # << >>
  <2> SUFFICES ASSUME f.result # << >>
               PROVE  /\ Len(g.ops) # 0
                      /\ g.ops[Len(g.ops)].kind = "return" /\ g.ops[Len(g.ops)].args # << >>
    BY <1>3
  <2>1. f.ops[L].kind = "return" /\ f.ops[L].args # << >> /\ L # v
    BY DEF FunctionOK, L
  <2>2. L - 1 \in 1 .. L - 1 /\ Old(v, L - 1) = L /\ L \in 1 .. L
    BY <1>1, <2>1 DEF Old, L
  <2>3. g.ops[L - 1].kind = "return" /\ Len(g.ops[L - 1].args) = Len(f.ops[L].args)
        /\ IsOperation(g.ops[L - 1]) /\ IsOperation(f.ops[L])
    BY <1>3, <2>1, <2>2 DEF Remains, FunctionOK, L
  <2>4. g.ops[L - 1].args # << >>
    BY <2>1, <2>3, SequenceFacts DEF IsOperation
  <2> QED BY <1>3, <2>2, <2>3, <2>4
<1>7. ASSUME NEW n \in 1 .. L - 1 PROVE IsOperation(g.ops[n])
  BY <1>3 DEF Remains
<1>8. FunctionOK(g)
  BY <1>3, <1>4, <1>5, <1>6, <1>7 DEF FunctionOK
<1> QED BY <1>3, <1>8 DEF g, Rewritten

-----------------------------------------------------------------------------
(* Changing one operation.                                                 *)

WithOp(f, v, op) == [f EXCEPT !.ops[v] = op]

(* The fields of a function with another operation v.                      *)
LEMMA WithOpFields ==
    ASSUME NEW f, IsFunction(f), NEW v \in 1 .. Len(f.ops), NEW op
    PROVE  /\ IsFunction(WithOp(f, v, op)) /\ WithOp(f, v, op).name = f.name
           /\ WithOp(f, v, op).types = f.types /\ WithOp(f, v, op).result = f.result
           /\ Len(WithOp(f, v, op).ops) = Len(f.ops) /\ WithOp(f, v, op).ops[v] = op
           /\ \A n \in 1 .. Len(f.ops) : n # v => WithOp(f, v, op).ops[n] = f.ops[n]
<1> DEFINE g == WithOp(f, v, op)
           L == Len(f.ops)
           new == [f.ops EXCEPT ![v] = op]
<1>1. /\ f = [name |-> f.name, private |-> f.private, ops |-> f.ops, types |-> f.types,
              result |-> f.result]
      /\ IsSequence(f.ops) /\ IsSequence(f.types) /\ Len(f.types) = L
      /\ L \in Nat /\ DOMAIN f.ops = 1 .. L
  BY SequenceFacts DEF IsFunction
<1>2. /\ DOMAIN new = 1 .. L /\ new[v] = op
      /\ \A n \in 1 .. L : n # v => new[n] = f.ops[n]
  BY <1>1, Zenon
<1>3. new = [n \in 1 .. L |-> new[n]]
  BY <1>2, Zenon
<1>4. g = [f EXCEPT !.ops = new]
  BY Zenon DEF WithOp
<1> HIDE DEF new
<1>5. g = [name |-> f.name, private |-> f.private, ops |-> new, types |-> f.types,
           result |-> f.result]
  BY <1>1, <1>4
<1>6. IsSequence(new) /\ Len(new) = L
  BY <1>1, <1>3, FunctionFacts
<1> HIDE DEF g, L
<1>7. IsFunction(g)
  BY <1>1, <1>5, <1>6 DEF IsFunction
<1> QED BY <1>2, <1>5, <1>6, <1>7 DEF g, L

(* An operation that is no parameter and does not end the function may     *)
(* become another such operation, on values it may use.                    *)
LEMMA WithOpOK ==
    ASSUME NEW f, FunctionOK(f), NEW v \in 1 .. Len(f.ops),
           f.ops[v].kind \notin {"arg", "return"}, NEW op, IsOperation(op),
           op.kind \notin {"arg", "return"},
           \A i \in 1 .. Len(op.args) : Usable(f, v, op.args[i])
    PROVE  Rewritten(f, WithOp(f, v, op))
<1> DEFINE g == WithOp(f, v, op)
           L == Len(f.ops)
<1>1. IsFunction(f) /\ L \in Nat
  BY SequenceFacts DEF FunctionOK, IsFunction
<1>2. /\ IsFunction(g) /\ g.name = f.name
      /\ g.types = f.types /\ g.result = f.result
      /\ Len(g.ops) = L /\ g.ops[v] = op
      /\ \A n \in 1 .. L : n # v => g.ops[n] = f.ops[n]
  BY <1>1, WithOpFields
<1> HIDE DEF g
<1>3. \A n, a : Usable(g, n, a) <=> Usable(f, n, a)
  BY <1>2 DEF Usable
<1>4. ASSUME NEW n \in 1 .. L
      PROVE  /\ IsOperation(g.ops[n])
             /\ \A i \in 1 .. Len(g.ops[n].args) : Usable(g, n, g.ops[n].args[i])
  BY <1>2, <1>3 DEF FunctionOK, L
<1>5. \E n \in 0 .. L : ParametersFirst(g, n)
  <2>1. PICK n \in 0 .. L : ParametersFirst(f, n)
    BY DEF FunctionOK, L
  <2>2. \A m \in 1 .. L : g.ops[m].kind = "arg" <=> f.ops[m].kind = "arg"
    BY <1>2
  <2>3. ParametersFirst(g, n)
    BY <1>2, <2>1, <2>2 DEF ParametersFirst, L
  <2> QED BY <2>3
<1>6. f.result # << >> => L # 0 /\ f.ops[L].kind = "return" /\ f.ops[L].args # << >>
  BY DEF FunctionOK, L
<1>7. f.result # << >> => L \in 1 .. L /\ L # v
  BY <1>1, <1>6 DEF L
<1>8. FunctionOK(g)
  BY <1>2, <1>4, <1>5, <1>6, <1>7 DEF FunctionOK
<1> QED BY <1>2, <1>8 DEF g, Rewritten

(* An operation without operands.                                          *)
LEMMA ConstantOperation ==
    ASSUME NEW kind, kind \notin Operating, NEW attr
    PROVE  /\ IsOperation(NewOp(kind, << >>, attr)) /\ NewOp(kind, << >>, attr).kind = kind
           /\ NewOp(kind, << >>, attr).args = << >>
BY EmptyIsSequence DEF IsOperation, NewOp

-----------------------------------------------------------------------------
(* The patterns.                                                           *)

(* What a function has, for the proofs about the patterns.                 *)
LEMMA FunctionHas ==
    ASSUME NEW f, FunctionOK(f), NEW v \in DOMAIN f.ops
    PROVE  /\ v \in 1 .. Len(f.ops) /\ Len(f.ops) \in Nat
           /\ IsOperation(f.ops[v])
           /\ \A i \in 1 .. Len(f.ops[v].args) : Usable(f, v, f.ops[v].args[i])
           /\ f.ops[v].kind \in Operating => Usable(f, v, Input(f, v))
<1>1. v \in 1 .. Len(f.ops) /\ Len(f.ops) \in Nat
  BY SequenceFacts DEF FunctionOK, IsFunction
<1>2. /\ IsOperation(f.ops[v])
      /\ \A i \in 1 .. Len(f.ops[v].args) : Usable(f, v, f.ops[v].args[i])
  BY <1>1 DEF FunctionOK
<1>3. f.ops[v].kind \in Operating => Len(f.ops[v].args) \in Nat /\ Len(f.ops[v].args) # 0
  BY <1>2, SequenceFacts DEF IsOperation
<1>4. f.ops[v].kind \in Operating => Usable(f, v, Input(f, v))
  BY <1>2, <1>3 DEF Input
<1> QED BY <1>1, <1>2, <1>4

(* What an operand that has operands itself may use, its user may use.     *)
LEMMA UsableDeeper ==
    ASSUME NEW f, FunctionOK(f), NEW v \in DOMAIN f.ops, NEW a, Usable(f, v, a)
    PROVE  a \in DOMAIN f.ops /\ \A b : Usable(f, a, b) => Usable(f, v, b)
<1>1. /\ v \in 1 .. Len(f.ops) /\ DOMAIN f.ops = 1 .. Len(f.ops) /\ Len(f.ops) \in Nat
  BY SequenceFacts DEF FunctionOK, IsFunction
<1> QED BY <1>1 DEF Usable

(* A value that operation v may use may stand for it.                      *)
LEMMA UsableStands ==
    ASSUME NEW f, NEW v, NEW w, Usable(f, v, w)
    PROVE  StandsFor(f, w, v)
BY DEF StandsFor

(* An operation on an operation, both with operands.                       *)
LEMMA PairHas ==
    ASSUME NEW f, FunctionOK(f), NEW kind \in Operating, NEW inner, NEW v \in Pairs(f, kind, inner)
    PROVE  /\ v \in DOMAIN f.ops /\ f.ops[v].kind = kind
           /\ Usable(f, v, Input(f, v)) /\ Input(f, v) \in DOMAIN f.ops
           /\ f.ops[Input(f, v)].kind = inner
<1>1. v \in DOMAIN f.ops /\ f.ops[v].kind = kind /\ f.ops[Input(f, v)].kind = inner
  BY DEF Pairs, OfKind
<1>2. Usable(f, v, Input(f, v))
  BY <1>1, FunctionHas
<1> QED BY <1>1, <1>2, UsableDeeper

(* transpose(transpose(x)) -> x                                            *)
LEMMA TransposesOK ==
    ASSUME NEW f, FunctionOK(f), NEW g \in SimplifyRedundantTranspose(f)
    PROVE  Rewritten(f, g)
<1> DEFINE k == "transpose"
<1>1. k \in Operating /\ k \notin {"arg", "return"}
  BY DEF Operating
<1>2. PICK v \in Pairs(f, k, k) : g = Replaced(f, v, Input(f, Input(f, v)))
  BY DEF SimplifyRedundantTranspose
<1> HIDE DEF k
<1> DEFINE a == Input(f, v)
<1>3. /\ v \in DOMAIN f.ops /\ f.ops[v].kind = k /\ Usable(f, v, a) /\ a \in DOMAIN f.ops
      /\ f.ops[a].kind = k
  BY <1>1, <1>2, PairHas
<1> HIDE DEF a
<1>4. Usable(f, a, Input(f, a))
  BY <1>1, <1>3, FunctionHas
<1>5. Usable(f, v, Input(f, a))
  BY <1>3, <1>4, UsableDeeper
<1>6. StandsFor(f, Input(f, a), v)
  BY <1>5, UsableStands
<1>7. v \in 1 .. Len(f.ops)
  BY <1>3, FunctionHas
<1> QED BY <1>1, <1>2, <1>3, <1>6, <1>7, ReplacedOK DEF a

(* reshape(reshape(x)) -> reshape(x)                                       *)
LEMMA ReshapesOK ==
    ASSUME NEW f, FunctionOK(f), NEW g \in ReshapeReshape(f)
    PROVE  Rewritten(f, g)
<1> DEFINE k == "reshape"
<1>1. k \in Operating /\ k \notin {"arg", "return"}
  BY DEF Operating
<1>2. PICK v \in Pairs(f, k, k) : g = [f EXCEPT !.ops[v].args = f.ops[Input(f, v)].args]
  BY DEF ReshapeReshape
<1> HIDE DEF k
<1> DEFINE a == Input(f, v)
           args == f.ops[a].args
           op == [f.ops[v] EXCEPT !.args = args]
<1>3. /\ v \in DOMAIN f.ops /\ f.ops[v].kind = k /\ Usable(f, v, a) /\ a \in DOMAIN f.ops
      /\ f.ops[a].kind = k
  BY <1>1, <1>2, PairHas
<1>4. g = WithOp(f, v, op)
  BY <1>2, Zenon DEF WithOp
<1> HIDE DEF a
<1>5. v \in 1 .. Len(f.ops) /\ IsOperation(f.ops[v])
  BY <1>3, FunctionHas
<1>6. IsOperation(f.ops[a]) /\ \A i \in 1 .. Len(args) : Usable(f, a, args[i])
  BY <1>3, FunctionHas
<1>7. IsSequence(args) /\ args # << >>
  BY <1>1, <1>3, <1>6 DEF IsOperation
<1>8. \A i \in 1 .. Len(args) : Usable(f, v, args[i])
  BY <1>3, <1>6, UsableDeeper
<1> HIDE DEF args
<1>9. op = [kind |-> f.ops[v].kind, args |-> args, attr |-> f.ops[v].attr]
  BY <1>5 DEF IsOperation
<1> HIDE DEF op
<1>10. IsOperation(op) /\ op.kind = k /\ op.args = args
  BY <1>1, <1>3, <1>7, <1>9 DEF IsOperation
<1> QED BY <1>1, <1>3, <1>4, <1>5, <1>8, <1>10, WithOpOK

(* An operation that gives its operand.                                    *)
LEMMA InputOK ==
    ASSUME NEW f, FunctionOK(f), NEW v \in DOMAIN f.ops, f.ops[v].kind \in {"reshape", "cast"}
    PROVE  Rewritten(f, Replaced(f, v, Input(f, v)))
<1>1. f.ops[v].kind \in Operating /\ f.ops[v].kind \notin {"arg", "return"}
  BY DEF Operating
<1>2. v \in 1 .. Len(f.ops) /\ Usable(f, v, Input(f, v))
  BY <1>1, FunctionHas
<1> QED BY <1>1, <1>2, UsableStands, ReplacedOK

(* A fold makes an operation a constant.                                   *)
LEMMA FoldsToConstant ==
    ASSUME NEW f, NEW g \in FoldConstantReshape(f) \cup FoldAccess(f)
    PROVE  \E v, kind, attr :
               /\ v \in DOMAIN f.ops /\ f.ops[v].kind \in {"reshape", "struct_access"}
               /\ kind \in {"constant", "struct_constant"}
               /\ g = WithOp(f, v, NewOp(kind, << >>, attr))
<1>1. CASE g \in FoldConstantReshape(f)
  <2>1. PICK v \in Pairs(f, "reshape", "constant") :
            g = [f EXCEPT !.ops[v] =
                    NewOp("constant", << >>, [ConstantInput(f, v) EXCEPT !.dims = f.types[v].shape])]
    BY <1>1 DEF FoldConstantReshape
  <2>2. v \in DOMAIN f.ops /\ f.ops[v].kind = "reshape"
    BY DEF Pairs, OfKind
  <2> QED BY <2>1, <2>2, Zenon DEF WithOp
<1>2. CASE g \in FoldAccess(f)
  <2>1. PICK v \in Pairs(f, "struct_access", "struct_constant") :
            g = [f EXCEPT !.ops[v] = Materialized(Element(f, v), f.types[v])]
    BY <1>2 DEF FoldAccess
  <2>2. v \in DOMAIN f.ops /\ f.ops[v].kind = "struct_access"
    BY DEF Pairs, OfKind
  <2>3. g = WithOp(f, v, Materialized(Element(f, v), f.types[v]))
    BY <2>1, Zenon DEF WithOp
  <2>4. CASE IsStruct(f.types[v])
    <3>1. g = WithOp(f, v, NewOp("struct_constant", << >>, Element(f, v)))
      BY <2>3, <2>4 DEF Materialized
    <3> QED BY <2>2, <3>1
  <2>5. CASE ~ IsStruct(f.types[v])
    <3>1. g = WithOp(f, v, NewOp("constant", << >>, Element(f, v)))
      BY <2>3, <2>5 DEF Materialized
    <3> QED BY <2>2, <3>1
  <2> QED BY <2>4, <2>5
<1> QED BY <1>1, <1>2

(* An operation on a constant that becomes a constant.                     *)
LEMMA FoldsOK ==
    ASSUME NEW f, FunctionOK(f), NEW g \in FoldConstantReshape(f) \cup FoldAccess(f)
    PROVE  Rewritten(f, g)
<1>1. PICK v, kind, attr :
          /\ v \in DOMAIN f.ops /\ f.ops[v].kind \in {"reshape", "struct_access"}
          /\ kind \in {"constant", "struct_constant"}
          /\ g = WithOp(f, v, NewOp(kind, << >>, attr))
  BY FoldsToConstant
<1> DEFINE op == NewOp(kind, << >>, attr)
<1>2. IsOperation(op) /\ op.kind = kind /\ op.args = << >>
  BY <1>1, ConstantOperation DEF Operating
<1>3. v \in 1 .. Len(f.ops)
  BY <1>1, FunctionHas
<1> HIDE DEF op
<1>4. \A i \in 1 .. Len(op.args) : Usable(f, v, op.args[i])
  BY <1>2, EmptyIsSequence
<1> QED BY <1>1, <1>2, <1>3, <1>4, WithOpOK DEF op

(* Anything may stand for a value that nothing uses.                       *)
LEMMA DeadStands ==
    ASSUME NEW f, FunctionOK(f), NEW v \in DOMAIN f.ops, Users(f, v) = {}
    PROVE  StandsFor(f, v, v)
<1>1. ASSUME NEW u \in 1 .. Len(f.ops), NEW i \in 1 .. Len(f.ops[u].args), f.ops[u].args[i] = v
      PROVE  FALSE
  <2>1. u \in DOMAIN f.ops
    BY SequenceFacts DEF FunctionOK, IsFunction
  <2>2. IsSequence(f.ops[u].args)
    BY DEF FunctionOK, IsOperation
  <2>3. v \in ToSet(f.ops[u].args)
    BY <1>1, <2>2, SequenceFacts
  <2> QED BY <2>1, <2>3 DEF Users
<1> QED BY <1>1 DEF StandsFor

(* An operation that nothing uses.                                         *)
LEMMA EraseDeadOK ==
    ASSUME NEW f, FunctionOK(f), NEW g \in EraseDead(f)
    PROVE  Rewritten(f, g)
<1>1. PICK v \in DOMAIN f.ops : Pure(f.ops[v]) /\ Users(f, v) = {} /\ g = Replaced(f, v, v)
  BY DEF EraseDead
<1>2. v \in 1 .. Len(f.ops) /\ f.ops[v].kind \notin {"arg", "return"}
  BY <1>1, FunctionHas DEF Pure
<1> QED BY <1>1, <1>2, DeadStands, ReplacedOK

(* An operation may stand for an equal one behind it.                      *)
LEMMA TwinStands ==
    ASSUME NEW f, FunctionOK(f), NEW v, v \in DOMAIN f.ops /\ Pure(f.ops[v]),
           NEW w \in Twins(f, v)
    PROVE  /\ w \in 1 .. Len(f.ops) /\ f.ops[w] = f.ops[v] /\ f.types[w] = f.types[v]
           /\ Pure(f.ops[v]) /\ StandsFor(f, v, w)
<1>1. /\ w \in v + 1 .. Len(f.ops) /\ f.ops[w] = f.ops[v] /\ f.types[w] = f.types[v]
      /\ v \in 1 .. Len(f.ops) /\ Len(f.ops) \in Nat
  BY FunctionHas DEF Twins
<1>2. w \in 1 .. Len(f.ops) /\ v \in 1 .. w - 1
  BY <1>1
<1>3. ASSUME NEW u \in 1 .. Len(f.ops), NEW i \in 1 .. Len(f.ops[u].args), f.ops[u].args[i] = w
      PROVE  Usable(f, w, v)
  <2>1. Usable(f, u, w)
    BY <1>3 DEF FunctionOK
  <2> QED BY <1>1, <1>2, <2>1 DEF Usable
<1>4. StandsFor(f, v, w)
  BY <1>3 DEF StandsFor
<1> QED BY <1>1, <1>2, <1>4

(* An operation that another one before it is equal to.                    *)
LEMMA MergeOK ==
    ASSUME NEW f, FunctionOK(f), NEW values, NEW g \in Merge(f, values),
           \A v \in values : v \in DOMAIN f.ops /\ Pure(f.ops[v])
    PROVE  Rewritten(f, g)
<1>0. PICK v \in values : \E w \in Twins(f, v) : g = Replaced(f, w, v)
  BY DEF Merge
<1>1. PICK w \in Twins(f, v) : g = Replaced(f, w, v)
  BY <1>0
<1>2. /\ w \in 1 .. Len(f.ops) /\ f.ops[w] = f.ops[v] /\ Pure(f.ops[v])
      /\ StandsFor(f, v, w)
  BY <1>1, TwinStands
<1>3. f.ops[w].kind \notin {"arg", "return"}
  BY <1>2 DEF Pure
<1> QED BY <1>1, <1>2, <1>3, ReplacedOK

(* Every rewrite the canonicalizer or CSE may apply.                       *)
LEMMA RewriteOK ==
    ASSUME NEW f, FunctionOK(f), NEW g \in Canonicalized(f) \cup Eliminated(f)
    PROVE  Rewritten(f, g)
<1>1. \/ g \in SimplifyRedundantTranspose(f) \/ g \in ReshapeReshape(f)
      \/ g \in FoldConstantReshape(f) \cup FoldAccess(f) \/ g \in EraseDead(f)
      \/ g \in RedundantReshape(f) \/ g \in FoldCast(f)
      \/ g \in MergeConstants(f) \/ g \in Merge(f, {v \in DOMAIN f.ops : Pure(f.ops[v])})
  BY DEF Canonicalized, Eliminated
<1>2. CASE g \in RedundantReshape(f)
  <2>1. PICK v \in OfKind(f, {"reshape"}) : g = Replaced(f, v, Input(f, v))
    BY <1>2 DEF RedundantReshape
  <2> QED BY <2>1, InputOK DEF OfKind
<1>3. CASE g \in FoldCast(f)
  <2>1. PICK v \in DOMAIN f.ops : f.ops[v].kind = "cast" /\ g = Replaced(f, v, Input(f, v))
    BY <1>3 DEF FoldCast, OfKind
  <2> QED BY <2>1, InputOK
<1>4. CASE g \in MergeConstants(f)
  <2>1. \A v \in OfKind(f, {"constant", "struct_constant"}) :
            v \in DOMAIN f.ops /\ Pure(f.ops[v])
    BY DEF OfKind, Pure
  <2>2. g \in Merge(f, OfKind(f, {"constant", "struct_constant"}))
    BY <1>4 DEF MergeConstants
  <2> QED BY <2>1, <2>2, MergeOK
<1>5. CASE g \in Merge(f, {v \in DOMAIN f.ops : Pure(f.ops[v])})
  <2> DEFINE values == {v \in DOMAIN f.ops : Pure(f.ops[v])}
  <2>1. \A v \in values : v \in DOMAIN f.ops /\ Pure(f.ops[v])
    OBVIOUS
  <2> HIDE DEF values
  <2>2. g \in Merge(f, values)
    BY <1>5 DEF values
  <2> QED BY <2>1, <2>2, MergeOK
<1> QED BY <1>1, <1>2, <1>3, <1>4, <1>5, TransposesOK, ReshapesOK, FoldsOK, EraseDeadOK

-----------------------------------------------------------------------------
(* The members of a set in order.                                          *)

(* upto[k] are the members of S that are at most k.                        *)
Collects(upto, S, N) ==
    upto = [k \in 0 .. N |->
               IF k = 0 THEN << >>
               ELSE IF k \in S THEN Append(upto[k - 1], k) ELSE upto[k - 1]]

(* The recursion of Ascending has a solution.                              *)
LEMMA CollectionExists ==
    ASSUME NEW S, NEW N \in Nat
    PROVE  \E upto : Collects(upto, S, N)
<1> DEFINE P == {n \in Nat : \E upto : Collects(upto, S, n)}
<1>1. 0 \in P
  <2> DEFINE none == [k \in 0 .. 0 |-> << >>]
  <2>1. none = [k \in 0 .. 0 |->
                   IF k = 0 THEN << >>
                   ELSE IF k \in S THEN Append(none[k - 1], k) ELSE none[k - 1]]
    OBVIOUS
  <2> HIDE DEF none
  <2>2. Collects(none, S, 0)
    BY <2>1 DEF Collects
  <2> QED BY <2>2
<1>2. ASSUME NEW n \in Nat, n \in P PROVE n + 1 \in P
  <2>1. PICK upto : Collects(upto, S, n)
    BY <1>2
  <2> DEFINE new == [k \in 0 .. n + 1 |->
                        IF k <= n THEN upto[k]
                        ELSE IF k \in S THEN Append(upto[k - 1], k) ELSE upto[k - 1]]
  <2>2. ASSUME NEW k \in 0 .. n + 1
        PROVE  new[k] = IF k = 0 THEN << >>
                        ELSE IF k \in S THEN Append(new[k - 1], k) ELSE new[k - 1]
    <3>1. k # 0 => k - 1 \in 0 .. n + 1 /\ k - 1 <= n /\ new[k - 1] = upto[k - 1]
      OBVIOUS
    <3>2. CASE k <= n
      <4>1. k \in 0 .. n
        BY <3>2
      <4>2. upto[k] = IF k = 0 THEN << >>
                      ELSE IF k \in S THEN Append(upto[k - 1], k) ELSE upto[k - 1]
        BY <2>1, <4>1 DEF Collects
      <4>3. new[k] = upto[k]
        BY <3>2
      <4> HIDE DEF new
      <4> QED BY <3>1, <4>2, <4>3
    <3>3. CASE ~ (k <= n)
      <4>1. k # 0
        BY <3>3
      <4>2. new[k] = IF k \in S THEN Append(upto[k - 1], k) ELSE upto[k - 1]
        BY <3>3
      <4> HIDE DEF new
      <4> QED BY <3>1, <4>1, <4>2
    <3> QED BY <3>2, <3>3
  <2>3. Collects(new, S, n + 1)
    <3>1. new = [k \in 0 .. n + 1 |-> new[k]]
      OBVIOUS
    <3> HIDE DEF new
    <3> QED BY <2>2, <3>1 DEF Collects
  <2> QED BY <2>3
<1> HIDE DEF P
<1>3. N \in P
  BY <1>1, <1>2, NatSetInduction
<1> QED BY <1>3 DEF P

(* a has the members of S from 1 to n, in ascending order.                 *)
Ascends(a, S, n) ==
    /\ IsSequence(a)
    /\ \A i \in 1 .. Len(a) : a[i] \in S /\ a[i] \in 1 .. n
    /\ \A k \in 1 .. n : k \in S => \E i \in 1 .. Len(a) : a[i] = k
    /\ \A i, j \in 1 .. Len(a) : i < j => a[i] < a[j]

(* So do the members of S as Ascending lists them.                         *)
LEMMA AscendingAscends ==
    ASSUME NEW S, NEW n \in Nat
    PROVE  Ascends(Ascending(S, n), S, n)
<1> DEFINE upto == CHOOSE f : f = [k \in 0 .. n |->
                                      IF k = 0 THEN << >>
                                      ELSE IF k \in S THEN Append(f[k - 1], k) ELSE f[k - 1]]
<1>1. upto = [k \in 0 .. n |->
                 IF k = 0 THEN << >>
                 ELSE IF k \in S THEN Append(upto[k - 1], k) ELSE upto[k - 1]]
  <2>1. \E f : f = [k \in 0 .. n |->
                      IF k = 0 THEN << >>
                      ELSE IF k \in S THEN Append(f[k - 1], k) ELSE f[k - 1]]
    <3>1. \E f : Collects(f, S, n)
      BY CollectionExists
    <3> QED BY <3>1, Zenon DEF Collects
  <2> QED BY <2>1, Zenon
<1>2. Ascending(S, n) = upto[n]
  BY Zenon DEF Ascending
<1> HIDE DEF upto
<1> DEFINE P == {k \in Nat : k <= n => Ascends(upto[k], S, k)}
<1>3. 0 \in P
  <2>1. upto[0] = << >>
    BY <1>1
  <2>2. Ascends(<< >>, S, 0)
    BY EmptyIsSequence DEF Ascends
  <2> QED BY <2>1, <2>2
<1>4. ASSUME NEW k \in Nat, k \in P PROVE k + 1 \in P
  <2> SUFFICES ASSUME k + 1 <= n PROVE Ascends(upto[k + 1], S, k + 1)
    OBVIOUS
  <2> DEFINE a == upto[k]
  <2>1. Ascends(a, S, k)
    BY <1>4
  <2>2. upto[k + 1] = IF k + 1 \in S THEN Append(a, k + 1) ELSE a
    <3>1. k + 1 \in 0 .. n /\ k + 1 # 0 /\ (k + 1) - 1 = k
      OBVIOUS
    <3> QED BY <1>1, <3>1
  <2> HIDE DEF a
  <2>3. CASE k + 1 \notin S
    <3>1. \A m \in 1 .. k + 1 : m \in S => m \in 1 .. k
      BY <2>3
    <3> QED BY <2>1, <2>2, <2>3, <3>1 DEF Ascends
  <2>4. CASE k + 1 \in S
    <3> DEFINE b == Append(a, k + 1)
    <3>1. /\ IsSequence(b) /\ Len(b) = Len(a) + 1 /\ b[Len(a) + 1] = k + 1
          /\ \A i \in 1 .. Len(a) : b[i] = a[i]
          /\ Len(a) \in Nat
      BY <2>1, AppendFacts, SequenceFacts DEF Ascends
    <3> HIDE DEF b
    <3>2. \A i \in 1 .. Len(a) : a[i] \in S /\ a[i] \in 1 .. k
      BY <2>1 DEF Ascends
    <3>3. \A i, j \in 1 .. Len(a) : i < j => a[i] < a[j]
      BY <2>1 DEF Ascends
    <3>4. ASSUME NEW i \in 1 .. Len(b) PROVE b[i] \in S /\ b[i] \in 1 .. k + 1
      <4>1. CASE i \in 1 .. Len(a)
        BY <3>1, <3>2, <4>1
      <4>2. CASE i = Len(a) + 1
        BY <2>4, <3>1, <4>2
      <4> QED BY <3>1, <4>1, <4>2
    <3>5. ASSUME NEW i \in 1 .. Len(b), NEW j \in 1 .. Len(b), i < j PROVE b[i] < b[j]
      <4>1. i \in 1 .. Len(a)
        BY <3>1, <3>5
      <4>2. CASE j \in 1 .. Len(a)
        BY <3>1, <3>3, <3>5, <4>1, <4>2
      <4>3. CASE j = Len(a) + 1
        <5>1. b[i] \in 1 .. k /\ b[j] = k + 1
          BY <3>1, <3>2, <4>1, <4>3
        <5> QED BY <5>1
      <4> QED BY <3>1, <4>2, <4>3
    <3>6. ASSUME NEW m \in 1 .. k + 1, m \in S PROVE \E i \in 1 .. Len(b) : b[i] = m
      <4>1. CASE m \in 1 .. k
        <5>1. PICK i \in 1 .. Len(a) : a[i] = m
          BY <2>1, <3>6, <4>1 DEF Ascends
        <5>2. i \in 1 .. Len(b) /\ b[i] = m
          BY <3>1, <5>1
        <5> QED BY <5>2
      <4>2. CASE m = k + 1
        BY <3>1, <4>2
      <4> QED BY <4>1, <4>2
    <3>7. Ascends(b, S, k + 1)
      BY <3>1, <3>4, <3>5, <3>6 DEF Ascends
    <3> QED BY <2>2, <2>4, <3>7 DEF b
  <2> QED BY <2>3, <2>4
<1> HIDE DEF P
<1>5. n \in P
  BY <1>3, <1>4, NatSetInduction
<1> QED BY <1>2, <1>5 DEF P

-----------------------------------------------------------------------------
(* Inferred types.                                                         *)

(* The type of value v, when those of the values before it are in ty.      *)
Rule(f, ty, v) ==
    IF \/ ~ IsDynamic(f.types[v])
       \/ ~ HasInterface(f.ops[v])
       \/ \E a \in Args(View(f), v) : ~ IsRanked(ty[a])
    THEN f.types[v]
    ELSE InferredType(View(f).ops[v], ty)

(* An operation as the passes see it.                                      *)
LEMMA ViewHas ==
    ASSUME NEW f, FunctionOK(f), NEW v \in DOMAIN f.ops
    PROVE  /\ View(f).ops[v].kind = f.ops[v].kind /\ View(f).ops[v].args = f.ops[v].args
           /\ \A a : a \in Args(View(f), v) <=> \E i \in 1 .. Len(f.ops[v].args) : a = f.ops[v].args[i]
           /\ \A a \in Args(View(f), v) : a \in 1 .. v - 1
<1>1. View(f).ops[v].kind = f.ops[v].kind /\ View(f).ops[v].args = f.ops[v].args
  BY DEF View
<1>2. /\ IsSequence(f.ops[v].args)
      /\ \A i \in 1 .. Len(f.ops[v].args) : Usable(f, v, f.ops[v].args[i])
  BY FunctionHas DEF IsOperation
<1>3. DOMAIN f.ops[v].args = 1 .. Len(f.ops[v].args)
  BY <1>2, SequenceFacts
<1>4. \A a : a \in Args(View(f), v) <=> \E i \in 1 .. Len(f.ops[v].args) : a = f.ops[v].args[i]
  BY <1>1, <1>3 DEF Args, ToSet
<1> QED BY <1>1, <1>2, <1>4 DEF Usable

(* The rule looks at the values before v only.                             *)
LEMMA RuleLocal ==
    ASSUME NEW f, FunctionOK(f), NEW v \in DOMAIN f.ops, NEW g, NEW h,
           \A a \in 1 .. v - 1 : g[a] = h[a]
    PROVE  Rule(f, g, v) = Rule(f, h, v)
<1>1. /\ View(f).ops[v].kind = f.ops[v].kind /\ View(f).ops[v].args = f.ops[v].args
      /\ \A a \in Args(View(f), v) : a \in 1 .. v - 1
  BY ViewHas
<1>2. (\E a \in Args(View(f), v) : ~ IsRanked(g[a])) <=>
      (\E a \in Args(View(f), v) : ~ IsRanked(h[a]))
  BY <1>1
<1>3. CASE HasInterface(f.ops[v])
  <2>1. \/ f.ops[v].kind = "constant"
        \/ f.ops[v].kind \in Operating
    BY <1>3 DEF HasInterface, InterfaceKinds, Operating
  <2>2. f.ops[v].kind \in Operating => Usable(f, v, f.ops[v].args[1])
    BY FunctionHas DEF Input
  <2>3. f.ops[v].kind \in Operating => g[f.ops[v].args[1]] = h[f.ops[v].args[1]]
    BY <2>2 DEF Usable
  <2>4. InferredType(View(f).ops[v], g) = InferredType(View(f).ops[v], h)
    BY <1>1, <2>1, <2>3 DEF InferredType
  <2> QED BY <1>2, <2>4 DEF Rule
<1>4. CASE ~ HasInterface(f.ops[v])
  BY <1>4 DEF Rule
<1> QED BY <1>3, <1>4

(* ty has the types of the first N values.                                 *)
Solves(ty, f, N) == ty = [v \in 1 .. N |-> Rule(f, ty, v)]

(* The recursion of Inferred has a solution.                               *)
LEMMA SolutionExists ==
    ASSUME NEW f, FunctionOK(f)
    PROVE  \E ty : Solves(ty, f, Len(f.ops))
<1> DEFINE L == Len(f.ops)
           P == {n \in Nat : n <= L => \E ty : Solves(ty, f, n)}
<1>0. L \in Nat /\ DOMAIN f.ops = 1 .. L
  BY SequenceFacts DEF FunctionOK, IsFunction
<1>1. 0 \in P
  <2> DEFINE none == [v \in 1 .. 0 |-> 0]
  <2>1. none = [v \in 1 .. 0 |-> Rule(f, none, v)]
    OBVIOUS
  <2> HIDE DEF none
  <2>2. Solves(none, f, 0)
    BY <2>1 DEF Solves
  <2> QED BY <2>2
<1> HIDE DEF L
<1>2. ASSUME NEW n \in Nat, n \in P PROVE n + 1 \in P
  <2> SUFFICES ASSUME n + 1 <= L PROVE \E ty : Solves(ty, f, n + 1)
    OBVIOUS
  <2>1. PICK ty : Solves(ty, f, n)
    BY <1>0, <1>2
  <2> DEFINE new == [v \in 1 .. n + 1 |-> IF v <= n THEN ty[v] ELSE Rule(f, ty, v)]
  <2>2. ASSUME NEW v \in 1 .. n + 1
        PROVE  new[v] = Rule(f, new, v)
    <3>1. \A a \in 1 .. v - 1 : new[a] = ty[a]
      OBVIOUS
    <3>2. new[v] = Rule(f, ty, v)
      <4>1. CASE v <= n
        <5>1. v \in 1 .. n /\ new[v] = ty[v]
          BY <4>1
        <5> QED BY <2>1, <5>1 DEF Solves
      <4>2. CASE ~ (v <= n)
        BY <4>2
      <4> QED BY <4>1, <4>2
    <3>3. v \in DOMAIN f.ops
      BY <1>0
    <3> HIDE DEF new
    <3>4. Rule(f, new, v) = Rule(f, ty, v)
      BY <3>1, <3>3, RuleLocal
    <3> QED BY <3>2, <3>4
  <2>3. new = [v \in 1 .. n + 1 |-> new[v]]
    OBVIOUS
  <2> HIDE DEF new
  <2>4. Solves(new, f, n + 1)
    BY <2>2, <2>3 DEF Solves
  <2> QED BY <2>4
<1> HIDE DEF P
<1>3. L \in P
  BY <1>0, <1>1, <1>2, NatSetInduction
<1> QED BY <1>0, <1>3 DEF P, L

(* The types Inferred gives.                                               *)
LEMMA InferredTypes ==
    ASSUME NEW f, FunctionOK(f)
    PROVE  \E ty : /\ Solves(ty, f, Len(f.ops))
                   /\ Inferred(f) = [f EXCEPT !.types = [v \in 1 .. Len(f.ops) |-> ty[v]]]
<1> DEFINE D == DOMAIN f.ops
           p == View(f)
           ty == CHOOSE h : h = [v \in D |->
                     IF \/ ~ IsDynamic(f.types[v])
                        \/ ~ HasInterface(f.ops[v])
                        \/ \E a \in Args(p, v) : ~ IsRanked(h[a])
                     THEN f.types[v]
                     ELSE InferredType(p.ops[v], h)]
<1>1. Inferred(f) = [f EXCEPT !.types = [v \in D |-> ty[v]]]
  BY Zenon DEF Inferred
<1>2. D = 1 .. Len(f.ops)
  BY SequenceFacts DEF FunctionOK, IsFunction
<1>3. \E h : h = [v \in D |-> Rule(f, h, v)]
  <2>1. PICK h : h = [v \in 1 .. Len(f.ops) |-> Rule(f, h, v)]
    BY SolutionExists DEF Solves
  <2> HIDE DEF D
  <2>2. h = [v \in D |-> Rule(f, h, v)]
    BY <1>2, <2>1, Zenon
  <2> QED BY <2>2
<1>4. ty = [v \in D |-> Rule(f, ty, v)]
  <2>1. \E h : h = [v \in D |->
                     IF \/ ~ IsDynamic(f.types[v])
                        \/ ~ HasInterface(f.ops[v])
                        \/ \E a \in Args(p, v) : ~ IsRanked(h[a])
                     THEN f.types[v]
                     ELSE InferredType(p.ops[v], h)]
    BY <1>3, Zenon DEF Rule
  <2>2. ty = [v \in D |->
                     IF \/ ~ IsDynamic(f.types[v])
                        \/ ~ HasInterface(f.ops[v])
                        \/ \E a \in Args(p, v) : ~ IsRanked(ty[a])
                     THEN f.types[v]
                     ELSE InferredType(p.ops[v], ty)]
    BY <2>1, Zenon
  <2> QED BY <2>2, Zenon DEF Rule
<1> HIDE DEF ty, D
<1>5. Solves(ty, f, Len(f.ops))
  BY <1>2, <1>4, Zenon DEF Solves
<1>6. Inferred(f) = [f EXCEPT !.types = [v \in 1 .. Len(f.ops) |-> ty[v]]]
  BY <1>1, <1>2, Zenon
<1> QED BY <1>5, <1>6

(* A type that is another one is that of a ranked tensor.                  *)
LEMMA RuleRanks ==
    ASSUME NEW f, FunctionOK(f), NEW v \in DOMAIN f.ops, NEW ty
    PROVE  \/ Rule(f, ty, v) = f.types[v]
           \/ HasInterface(f.ops[v]) /\ IsRanked(Rule(f, ty, v))
<1> SUFFICES ASSUME Rule(f, ty, v) # f.types[v]
             PROVE  HasInterface(f.ops[v]) /\ IsRanked(Rule(f, ty, v))
  OBVIOUS
<1>1. /\ HasInterface(f.ops[v]) /\ \A a \in Args(View(f), v) : IsRanked(ty[a])
      /\ Rule(f, ty, v) = InferredType(View(f).ops[v], ty)
  BY DEF Rule
<1>2. /\ View(f).ops[v].kind = f.ops[v].kind /\ View(f).ops[v].args = f.ops[v].args
      /\ \A a : a \in Args(View(f), v) <=> \E i \in 1 .. Len(f.ops[v].args) : a = f.ops[v].args[i]
  BY ViewHas
<1> DEFINE t == InferredType(View(f).ops[v], ty)
<1>3. IsRanked(t)
  <2>1. CASE f.ops[v].kind \in {"constant", "transpose"}
    BY <1>2, <2>1 DEF InferredType, Ranked, IsRanked
  <2>2. CASE f.ops[v].kind \notin {"constant", "transpose"}
    <3>1. f.ops[v].kind \in Operating
      BY <1>1, <2>2 DEF HasInterface, InterfaceKinds, Operating
    <3>2. f.ops[v].args # << >> /\ IsSequence(f.ops[v].args)
      BY <3>1, FunctionHas DEF IsOperation
    <3>3. 1 \in 1 .. Len(f.ops[v].args)
      BY <3>2, SequenceFacts
    <3>4. IsRanked(ty[f.ops[v].args[1]])
      BY <1>1, <1>2, <3>3
    <3>5. t = ty[f.ops[v].args[1]]
      BY <1>2, <2>2 DEF InferredType
    <3> QED BY <3>4, <3>5
  <2> QED BY <2>1, <2>2
<1> QED BY <1>1, <1>3

(* A value keeps having a type.                                            *)
LEMMA RuleKeepsValues ==
    ASSUME NEW f, FunctionOK(f), NEW v \in DOMAIN f.ops, NEW ty, f.types[v] # NoResult
    PROVE  Rule(f, ty, v) # NoResult
<1>1. Rule(f, ty, v) = f.types[v] \/ IsRanked(Rule(f, ty, v))
  BY RuleRanks
<1>2. ~ IsRanked(NoResult)
  BY DEF IsRanked, NoResult
<1> QED BY <1>1, <1>2

(* A function with other types, that leaves values values.                 *)
LEMMA RetypedOK ==
    ASSUME NEW f, FunctionOK(f), NEW types, types = [v \in 1 .. Len(f.ops) |-> types[v]],
           \A v \in 1 .. Len(f.ops) : f.types[v] # NoResult => types[v] # NoResult,
           NEW g, g = [f EXCEPT !.types = types]
    PROVE  Rewritten(f, g)
<1> DEFINE L == Len(f.ops)
<1>1. IsFunction(f) /\ L \in Nat
  BY SequenceFacts DEF FunctionOK, IsFunction
<1>2. g = [name |-> f.name, private |-> f.private, ops |-> f.ops, types |-> types,
           result |-> f.result]
  BY <1>1 DEF IsFunction
<1>3. IsSequence(types) /\ Len(types) = L
  BY <1>1, FunctionFacts
<1>4. IsFunction(g) /\ g.ops = f.ops /\ g.types = types /\ g.result = f.result /\ g.name = f.name
  BY <1>1, <1>2, <1>3 DEF IsFunction
<1> HIDE DEF L
<1>5. ASSUME NEW v \in 1 .. L, NEW a, Usable(f, v, a) PROVE Usable(g, v, a)
  <2>1. a \in 1 .. v - 1 /\ f.types[a] # NoResult
    BY <1>5 DEF Usable
  <2>2. a \in 1 .. Len(f.ops)
    BY <1>1, <2>1 DEF L
  <2>3. types[a] # NoResult
    BY <2>1, <2>2
  <2> QED BY <1>4, <2>1, <2>3 DEF Usable
<1>6. \E n \in 0 .. L : ParametersFirst(g, n)
  <2>1. PICK n \in 0 .. L : ParametersFirst(f, n)
    BY DEF FunctionOK, L
  <2>2. ParametersFirst(g, n)
    BY <1>4, <2>1 DEF ParametersFirst
  <2> QED BY <2>2
<1>7. ASSUME NEW v \in 1 .. L
      PROVE  /\ IsOperation(g.ops[v])
             /\ \A i \in 1 .. Len(g.ops[v].args) : Usable(g, v, g.ops[v].args[i])
  BY <1>4, <1>5 DEF FunctionOK, L
<1>8. f.result # << >> => L # 0 /\ f.ops[L].kind = "return" /\ f.ops[L].args # << >>
  BY DEF FunctionOK, L
<1>9. Len(g.ops) = L
  BY <1>4 DEF L
<1>10. g.result # << >> =>
           /\ Len(g.ops) # 0
           /\ g.ops[Len(g.ops)].kind = "return" /\ g.ops[Len(g.ops)].args # << >>
  BY <1>4, <1>8, <1>9
<1>11. FunctionOK(g)
  BY <1>4, <1>6, <1>7, <1>9, <1>10 DEF FunctionOK
<1> QED BY <1>4, <1>11 DEF Rewritten

(* Shape inference changes types only.                                     *)
LEMMA InferredOK ==
    ASSUME NEW f, FunctionOK(f)
    PROVE  Rewritten(f, Inferred(f))
<1>1. PICK ty : /\ Solves(ty, f, Len(f.ops))
                /\ Inferred(f) = [f EXCEPT !.types = [v \in 1 .. Len(f.ops) |-> ty[v]]]
  BY InferredTypes
<1> DEFINE types == [v \in 1 .. Len(f.ops) |-> ty[v]]
<1>2. types = [v \in 1 .. Len(f.ops) |-> types[v]]
  OBVIOUS
<1>3. ASSUME NEW v \in 1 .. Len(f.ops), f.types[v] # NoResult PROVE types[v] # NoResult
  <2>1. v \in DOMAIN f.ops
    BY SequenceFacts DEF FunctionOK, IsFunction
  <2>2. types[v] = ty[v]
    OBVIOUS
  <2>3. ty[v] = Rule(f, ty, v)
    BY <1>1 DEF Solves
  <2> QED BY <1>3, <2>1, <2>2, <2>3, RuleKeepsValues
<1>4. Inferred(f) = [f EXCEPT !.types = types]
  BY <1>1
<1> HIDE DEF types
<1> QED BY <1>2, <1>3, <1>4, RetypedOK

-----------------------------------------------------------------------------
(* Inlining.                                                               *)

(* v is a call in f of g, with as many operands as g has parameters, and g *)
(* returns a value.                                                        *)
CallOf(f, v, g) ==
    /\ FunctionOK(f) /\ FunctionOK(g)
    /\ v \in 1 .. Len(f.ops) /\ f.ops[v].kind = "generic_call"
    /\ Cardinality(OfKind(g, {"arg"})) = Len(f.ops[v].args)
    /\ g.result # << >>

(* The values and operations of Inlined, part by part.                     *)
Arity(f, v) == Len(f.ops[v].args)

Body(f, v, g) == SubSeq(g.ops, Arity(f, v) + 1, Len(g.ops) - 1)

Inner(f, v, g, b) ==
    IF b > Arity(f, v) THEN v - 1 + Len(Converted(f, v, g)) + b - Arity(f, v)
    ELSE IF b \in ToSet(Converted(f, v, g))
         THEN v - 1 + PlaceOf(Converted(f, v, g), b) ELSE f.ops[v].args[b]

Outer(f, v, g, a) ==
    IF a < v THEN a ELSE IF a = v THEN Inner(f, v, g, ReturnedValue(g))
    ELSE a + (Len(Converted(f, v, g)) + Len(Body(f, v, g)) - 1)

Casts(f, v, g) ==
    [c \in DOMAIN Converted(f, v, g) |->
        NewOp("cast", <<f.ops[v].args[Converted(f, v, g)[c]]>>, Null)]

Copied(f, v, g) ==
    [m \in DOMAIN Body(f, v, g) |->
        [Body(f, v, g)[m] EXCEPT !.args = [i \in DOMAIN @ |-> Inner(f, v, g, @[i])]]]

Moved(f, v, g) ==
    [m \in DOMAIN SubSeq(f.ops, v + 1, Len(f.ops)) |->
        [SubSeq(f.ops, v + 1, Len(f.ops))[m] EXCEPT
            !.args = [i \in DOMAIN @ |-> Outer(f, v, g, @[i])]]]

InlinedOps(f, v, g) ==
    SubSeq(f.ops, 1, v - 1) \o Casts(f, v, g) \o Copied(f, v, g) \o Moved(f, v, g)

CastTypes(f, v, g) == [c \in DOMAIN Converted(f, v, g) |-> g.types[Converted(f, v, g)[c]]]

InlinedTypes(f, v, g) ==
    SubSeq(f.types, 1, v - 1) \o CastTypes(f, v, g)
    \o SubSeq(g.types, Arity(f, v) + 1, Len(g.types) - 1)
    \o SubSeq(f.types, v + 1, Len(f.types))

(* The fields of a function with a call inlined.                           *)
LEMMA InlinedFields ==
    ASSUME NEW f, IsFunction(f), NEW v, NEW g
    PROVE  Inlined(f, v, g) =
           [name |-> f.name, private |-> f.private, ops |-> InlinedOps(f, v, g),
            types |-> InlinedTypes(f, v, g), result |-> f.result]
<1> DEFINE ops == InlinedOps(f, v, g)
           types == InlinedTypes(f, v, g)
           T(ts) == SubSeq(ts, 1, v - 1) \o CastTypes(f, v, g)
                    \o SubSeq(g.types, Arity(f, v) + 1, Len(g.types) - 1)
                    \o SubSeq(ts, v + 1, Len(ts))
<1>1. Inlined(f, v, g) = [f EXCEPT !.ops = ops, !.types = T(@)]
  BY Zenon DEF Inlined, InlinedOps, Casts, Copied, Moved, CastTypes, Inner, Outer, Body,
               Arity, PlaceOf
<1> HIDE DEF ops
<1>2. [f EXCEPT !.ops = ops].types = f.types
  BY DEF IsFunction
<1> HIDE DEF T
<1>3. Inlined(f, v, g) = [f EXCEPT !.ops = ops, !.types = T(f.types)]
  BY <1>1, <1>2, Zenon
<1>4. T(f.types) = types
  BY Zenon DEF T, InlinedTypes
<1>5. f = [name |-> f.name, private |-> f.private, ops |-> f.ops, types |-> f.types,
           result |-> f.result]
  BY DEF IsFunction
<1> HIDE DEF types
<1>6. Inlined(f, v, g) = [f EXCEPT !.ops = ops, !.types = types]
  BY <1>3, <1>4, Zenon
<1>7. Inlined(f, v, g) = [name |-> f.name, private |-> f.private, ops |-> ops,
                          types |-> types, result |-> f.result]
  BY <1>5, <1>6, FunctionChanged
<1> QED BY <1>7 DEF ops, types

(* The operands of the call stand for the parameters, which come first.    *)
LEMMA CallHas ==
    ASSUME NEW f, NEW v, NEW g, CallOf(f, v, g), NEW n, n = Arity(f, v)
    PROVE  /\ n \in Nat /\ Len(f.ops) \in Nat /\ Len(g.ops) \in Nat /\ n < Len(g.ops)
           /\ ParametersFirst(g, n)
           /\ IsSequence(f.ops) /\ IsSequence(f.types) /\ Len(f.types) = Len(f.ops)
           /\ IsSequence(g.ops) /\ IsSequence(g.types) /\ Len(g.types) = Len(g.ops)
           /\ \A i \in 1 .. n : Usable(f, v, f.ops[v].args[i])
           /\ DOMAIN f.ops[v].args = 1 .. n
           /\ Usable(g, Len(g.ops), ReturnedValue(g))
<1>1. /\ IsFunction(f) /\ IsFunction(g) /\ v \in 1 .. Len(f.ops)
      /\ FunctionOK(f) /\ FunctionOK(g)
  BY DEF CallOf, FunctionOK
<1>2. /\ IsSequence(f.ops) /\ IsSequence(f.types) /\ Len(f.types) = Len(f.ops)
      /\ IsSequence(g.ops) /\ IsSequence(g.types) /\ Len(g.types) = Len(g.ops)
      /\ Len(f.ops) \in Nat /\ Len(g.ops) \in Nat
      /\ DOMAIN f.ops = 1 .. Len(f.ops) /\ DOMAIN g.ops = 1 .. Len(g.ops)
  BY <1>1, SequenceFacts DEF IsFunction
<1>3. /\ IsSequence(f.ops[v].args)
      /\ \A i \in 1 .. Len(f.ops[v].args) : Usable(f, v, f.ops[v].args[i])
  BY <1>1 DEF FunctionOK, IsOperation
<1>4. Len(f.ops[v].args) \in Nat /\ DOMAIN f.ops[v].args = 1 .. Len(f.ops[v].args)
  BY <1>3, SequenceFacts
<1>5. PICK k \in 0 .. Len(g.ops) : ParametersFirst(g, k)
  BY <1>1 DEF FunctionOK
<1>6. OfKind(g, {"arg"}) = 1 .. k
  <2>1. \A w \in 1 .. Len(g.ops) : g.ops[w].kind = "arg" <=> w <= k
    BY <1>5 DEF ParametersFirst
  <2> QED BY <1>2, <1>5, <2>1 DEF OfKind
<1>7. Cardinality(1 .. k) = k
  BY <1>5, FS_Interval
<1>8. k = n
  BY <1>6, <1>7 DEF CallOf, Arity
<1>9. /\ Len(g.ops) # 0 /\ g.ops[Len(g.ops)].kind = "return"
      /\ g.ops[Len(g.ops)].args # << >>
  BY <1>1 DEF FunctionOK, CallOf
<1>10. n < Len(g.ops)
  <2>1. Len(g.ops) \in 1 .. Len(g.ops)
    BY <1>2, <1>9
  <2>2. ~ (Len(g.ops) <= k)
    BY <1>5, <1>9, <2>1 DEF ParametersFirst
  <2> QED BY <1>2, <1>5, <1>8, <2>2
<1>11. Usable(g, Len(g.ops), ReturnedValue(g))
  <2> DEFINE m == Len(g.ops)
  <2>1. m \in 1 .. m
    BY <1>2, <1>9
  <2>2. /\ IsSequence(g.ops[m].args)
        /\ \A i \in 1 .. Len(g.ops[m].args) : Usable(g, m, g.ops[m].args[i])
    BY <1>1, <2>1 DEF FunctionOK, IsOperation
  <2>3. 1 \in 1 .. Len(g.ops[m].args)
    BY <1>9, <2>2, SequenceFacts
  <2> QED BY <2>2, <2>3 DEF ReturnedValue
<1> QED BY <1>2, <1>3, <1>4, <1>5, <1>8, <1>10, <1>11 DEF Arity

(* What is where after inlining: what was before the call, C casts, the B  *)
(* operations of the body, and what was behind the call.                   *)
Layout(h, f, v, g, n, C, B) ==
    /\ Len(h.ops) = v - 1 + C + B + (Len(f.ops) - v)
    /\ \A m \in 1 .. v - 1 : h.ops[m] = f.ops[m] /\ h.types[m] = f.types[m]
    /\ \A c \in 1 .. C :
           /\ h.ops[v - 1 + c] = Casts(f, v, g)[c]
           /\ h.types[v - 1 + c] = g.types[Converted(f, v, g)[c]]
    /\ \A m \in 1 .. B :
           /\ h.ops[v - 1 + C + m] = Copied(f, v, g)[m]
           /\ h.types[v - 1 + C + m] = g.types[n + m]
    /\ \A m \in 1 .. Len(f.ops) - v :
           /\ h.ops[v - 1 + C + B + m] = Moved(f, v, g)[m]
           /\ h.types[v - 1 + C + B + m] = f.types[v + m]

(* The parameters whose operand gets a cast.                               *)
LEMMA ConvertedFacts ==
    ASSUME NEW f, NEW v, NEW g, CallOf(f, v, g), NEW n, n = Arity(f, v)
    PROVE  /\ IsSequence(Converted(f, v, g)) /\ Len(Converted(f, v, g)) \in Nat
           /\ DOMAIN Converted(f, v, g) = 1 .. Len(Converted(f, v, g))
           /\ \A c \in 1 .. Len(Converted(f, v, g)) : Converted(f, v, g)[c] \in 1 .. n
<1> DEFINE args == f.ops[v].args
           S == {i \in DOMAIN args : f.types[args[i]] # g.types[i]}
           a == Ascending(S, n)
<1>1. n \in Nat
  BY CallHas
<1>2. Converted(f, v, g) = a
  BY Zenon DEF Converted, Arity
<1> HIDE DEF S
<1>3. Ascends(a, S, n)
  BY <1>1, AscendingAscends
<1> HIDE DEF a
<1>4. IsSequence(a) /\ \A c \in 1 .. Len(a) : a[c] \in 1 .. n
  BY <1>3 DEF Ascends
<1>5. Len(a) \in Nat /\ DOMAIN a = 1 .. Len(a)
  BY <1>4, SequenceFacts
<1> QED BY <1>2, <1>4, <1>5

(* An operand that gets no cast has the type of the parameter.             *)
LEMMA UnconvertedFits ==
    ASSUME NEW f, NEW v, NEW g, CallOf(f, v, g), NEW n, n = Arity(f, v), NEW b \in 1 .. n,
           b \notin ToSet(Converted(f, v, g)), NEW a, a = f.ops[v].args[b]
    PROVE  f.types[a] = g.types[b]
<1> DEFINE args == f.ops[v].args
           S == {i \in DOMAIN args : f.types[args[i]] # g.types[i]}
           c == Ascending(S, n)
<1>1. n \in Nat /\ IsSequence(args)
  BY CallHas DEF CallOf, FunctionOK, IsOperation
<1>2. Converted(f, v, g) = c
  BY Zenon DEF Converted, Arity
<1>3. b \in DOMAIN args
  BY <1>1, SequenceFacts DEF Arity
<1>4. b \notin S => f.types[a] = g.types[b]
  BY <1>3
<1> HIDE DEF S
<1>5. Ascends(c, S, n)
  BY <1>1, AscendingAscends
<1> HIDE DEF c
<1>6. DOMAIN c = 1 .. Len(c) /\ (b \in S => \E i \in 1 .. Len(c) : c[i] = b)
  BY <1>5, SequenceFacts DEF Ascends
<1>7. b \notin S
  BY <1>2, <1>6 DEF ToSet
<1> QED BY <1>4, <1>7

(* The three parts of a sequence with element v cut out.                   *)
LEMMA CutFacts ==
    ASSUME NEW s, IsSequence(s), NEW v \in 1 .. Len(s)
    PROVE  /\ IsSequence(SubSeq(s, 1, v - 1)) /\ Len(SubSeq(s, 1, v - 1)) = v - 1
           /\ \A m \in 1 .. v - 1 : SubSeq(s, 1, v - 1)[m] = s[m]
           /\ IsSequence(SubSeq(s, v + 1, Len(s))) /\ Len(SubSeq(s, v + 1, Len(s))) = Len(s) - v
           /\ \A m \in 1 .. Len(s) - v : SubSeq(s, v + 1, Len(s))[m] = s[v + m]
<1>1. Len(s) \in Nat
  BY SequenceFacts
<1>2. /\ IsSequence(SubSeq(s, 1, v - 1)) /\ Len(SubSeq(s, 1, v - 1)) = v - 1
      /\ \A m \in 1 .. v - 1 : SubSeq(s, 1, v - 1)[m] = s[m]
  <2> DEFINE l == 1
             h == v - 1
  <2>1. l \in 1 .. Len(s) + 1 /\ h \in l - 1 .. Len(s) /\ h - l + 1 = v - 1
    BY <1>1
  <2>2. \A m \in 1 .. v - 1 : l + m - 1 = m
    BY DEF l
  <2> HIDE DEF l, h
  <2>3. /\ IsSequence(SubSeq(s, l, h)) /\ Len(SubSeq(s, l, h)) = h - l + 1
        /\ \A m \in 1 .. h - l + 1 : SubSeq(s, l, h)[m] = s[l + m - 1]
    BY <2>1, SubSeqFacts
  <2>4. SubSeq(s, 1, v - 1) = SubSeq(s, l, h)
    BY DEF l, h
  <2> QED BY <2>1, <2>2, <2>3, <2>4
<1>3. /\ IsSequence(SubSeq(s, v + 1, Len(s))) /\ Len(SubSeq(s, v + 1, Len(s))) = Len(s) - v
      /\ \A m \in 1 .. Len(s) - v : SubSeq(s, v + 1, Len(s))[m] = s[v + m]
  <2> DEFINE l == v + 1
             h == Len(s)
  <2>1. l \in 1 .. Len(s) + 1 /\ h \in l - 1 .. Len(s) /\ h - l + 1 = Len(s) - v
    BY <1>1
  <2>2. \A m \in 1 .. Len(s) - v : l + m - 1 = v + m
    BY <1>1
  <2> HIDE DEF l, h
  <2>3. /\ IsSequence(SubSeq(s, l, h)) /\ Len(SubSeq(s, l, h)) = h - l + 1
        /\ \A m \in 1 .. h - l + 1 : SubSeq(s, l, h)[m] = s[l + m - 1]
    BY <2>1, SubSeqFacts
  <2>4. SubSeq(s, v + 1, Len(s)) = SubSeq(s, l, h)
    BY DEF l, h
  <2> QED BY <2>1, <2>2, <2>3, <2>4
<1> QED BY <1>2, <1>3

(* The middle of a sequence, without its last element.                     *)
LEMMA MiddleFacts ==
    ASSUME NEW s, IsSequence(s), NEW n \in Nat, n < Len(s)
    PROVE  /\ IsSequence(SubSeq(s, n + 1, Len(s) - 1))
           /\ Len(SubSeq(s, n + 1, Len(s) - 1)) = Len(s) - 1 - n
           /\ \A m \in 1 .. Len(s) - 1 - n : SubSeq(s, n + 1, Len(s) - 1)[m] = s[n + m]
<1>1. Len(s) \in Nat
  BY SequenceFacts
<1> DEFINE l == n + 1
           h == Len(s) - 1
<1>2. l \in 1 .. Len(s) + 1 /\ h \in l - 1 .. Len(s) /\ h - l + 1 = Len(s) - 1 - n
  BY <1>1
<1>3. \A m \in 1 .. Len(s) - 1 - n : l + m - 1 = n + m
  BY <1>1
<1> HIDE DEF l, h
<1>4. /\ IsSequence(SubSeq(s, l, h)) /\ Len(SubSeq(s, l, h)) = h - l + 1
      /\ \A m \in 1 .. h - l + 1 : SubSeq(s, l, h)[m] = s[l + m - 1]
  BY <1>2, SubSeqFacts
<1>5. SubSeq(s, n + 1, Len(s) - 1) = SubSeq(s, l, h)
  BY DEF l, h
<1> QED BY <1>2, <1>3, <1>4, <1>5

(* The parts of Inlined are sequences of these lengths.                    *)
LEMMA InlinedParts ==
    ASSUME NEW f, NEW v, NEW g, CallOf(f, v, g), NEW n, n = Arity(f, v),
           NEW C, C = Len(Converted(f, v, g)), NEW B, B = Len(g.ops) - 1 - n
    PROVE  /\ C \in Nat /\ B \in Nat
           /\ IsSequence(Casts(f, v, g)) /\ Len(Casts(f, v, g)) = C
           /\ IsSequence(CastTypes(f, v, g)) /\ Len(CastTypes(f, v, g)) = C
           /\ \A c \in 1 .. C : CastTypes(f, v, g)[c] = g.types[Converted(f, v, g)[c]]
           /\ IsSequence(Body(f, v, g)) /\ Len(Body(f, v, g)) = B
           /\ \A m \in 1 .. B : Body(f, v, g)[m] = g.ops[n + m]
           /\ IsSequence(Copied(f, v, g)) /\ Len(Copied(f, v, g)) = B
           /\ IsSequence(Moved(f, v, g)) /\ Len(Moved(f, v, g)) = Len(f.ops) - v
<1>1. /\ n \in Nat /\ Len(f.ops) \in Nat /\ Len(g.ops) \in Nat /\ n < Len(g.ops)
      /\ IsSequence(f.ops) /\ IsSequence(g.ops)
  BY CallHas
<1>2. C \in Nat /\ DOMAIN Converted(f, v, g) = 1 .. C
  BY ConvertedFacts
<1>3. IsSequence(Casts(f, v, g)) /\ Len(Casts(f, v, g)) = C
  <2> DEFINE r == Casts(f, v, g)
  <2>1. r = [c \in 1 .. C |-> r[c]]
    BY <1>2, Zenon DEF Casts
  <2> HIDE DEF r
  <2>2. IsSequence(r) /\ Len(r) = C
    BY <1>2, <2>1, FunctionFacts
  <2> QED BY <2>2 DEF r
<1>4. /\ IsSequence(CastTypes(f, v, g)) /\ Len(CastTypes(f, v, g)) = C
      /\ \A c \in 1 .. C : CastTypes(f, v, g)[c] = g.types[Converted(f, v, g)[c]]
  <2> DEFINE r == CastTypes(f, v, g)
  <2>1. /\ r = [c \in 1 .. C |-> r[c]]
        /\ \A c \in 1 .. C : r[c] = g.types[Converted(f, v, g)[c]]
    BY <1>2, Zenon DEF CastTypes
  <2> HIDE DEF r
  <2>2. IsSequence(r) /\ Len(r) = C
    BY <1>2, <2>1, FunctionFacts
  <2> QED BY <2>1, <2>2 DEF r
<1>5. /\ IsSequence(Body(f, v, g)) /\ Len(Body(f, v, g)) = B /\ B \in Nat
      /\ \A m \in 1 .. B : Body(f, v, g)[m] = g.ops[n + m]
  <2>1. B \in Nat
    BY <1>1
  <2>2. Body(f, v, g) = SubSeq(g.ops, n + 1, Len(g.ops) - 1)
    BY DEF Body
  <2> DEFINE r == SubSeq(g.ops, n + 1, Len(g.ops) - 1)
  <2>3. /\ IsSequence(r) /\ Len(r) = Len(g.ops) - 1 - n
        /\ \A m \in 1 .. Len(g.ops) - 1 - n : r[m] = g.ops[n + m]
    BY <1>1, MiddleFacts
  <2> HIDE DEF r
  <2> QED BY <2>1, <2>2, <2>3 DEF r
<1>6. IsSequence(Copied(f, v, g)) /\ Len(Copied(f, v, g)) = B
  <2> DEFINE r == Copied(f, v, g)
  <2>0. DOMAIN Body(f, v, g) = 1 .. B
    BY <1>5, SequenceFacts
  <2>1. r = [c \in 1 .. B |-> r[c]]
    BY <2>0, Zenon DEF Copied
  <2> HIDE DEF r
  <2>2. IsSequence(r) /\ Len(r) = B
    BY <1>5, <2>1, FunctionFacts
  <2> QED BY <2>2 DEF r
<1>7. IsSequence(Moved(f, v, g)) /\ Len(Moved(f, v, g)) = Len(f.ops) - v
  <2> DEFINE r == Moved(f, v, g)
             s == SubSeq(f.ops, v + 1, Len(f.ops))
             D == Len(f.ops) - v
  <2>0. v \in 1 .. Len(f.ops) /\ D \in Nat
    BY <1>1 DEF CallOf
  <2>1. IsSequence(s) /\ Len(s) = D
    BY <1>1, <2>0, CutFacts
  <2>2. DOMAIN s = 1 .. D
    BY <2>1, SequenceFacts
  <2>3. r = [c \in 1 .. D |-> r[c]]
    BY <2>2, Zenon DEF Moved
  <2> HIDE DEF r, D
  <2>4. IsSequence(r) /\ Len(r) = D
    BY <2>0, <2>3, FunctionFacts
  <2> QED BY <2>4 DEF r, D
<1> QED BY <1>2, <1>3, <1>4, <1>5, <1>6, <1>7

(* The function with the call inlined.                                     *)
LEMMA InlinedLayout ==
    ASSUME NEW f, NEW v, NEW g, CallOf(f, v, g), NEW n, n = Arity(f, v),
           NEW C, C = Len(Converted(f, v, g)), NEW B, B = Len(g.ops) - 1 - n,
           NEW h, h = Inlined(f, v, g)
    PROVE  /\ IsFunction(h) /\ h.name = f.name /\ h.result = f.result
           /\ Layout(h, f, v, g, n, C, B)
<1> DEFINE a == SubSeq(f.ops, 1, v - 1)
           b == Casts(f, v, g)
           c == Copied(f, v, g)
           d == Moved(f, v, g)
           r == a \o b \o c \o d
           ta == SubSeq(f.types, 1, v - 1)
           tb == CastTypes(f, v, g)
           tc == SubSeq(g.types, n + 1, Len(g.types) - 1)
           td == SubSeq(f.types, v + 1, Len(f.types))
           tr == ta \o tb \o tc \o td
           L == Len(f.ops)
           j == v - 1
           k == j + C
           l == k + B
<1>1. /\ n \in Nat /\ L \in Nat /\ Len(g.ops) \in Nat /\ n < Len(g.ops)
      /\ IsSequence(f.ops) /\ IsSequence(f.types) /\ Len(f.types) = L
      /\ IsSequence(g.types) /\ Len(g.types) = Len(g.ops)
  BY CallHas
<1>2. v \in 1 .. L /\ IsFunction(f)
  BY DEF CallOf, FunctionOK
<1>3. /\ C \in Nat /\ B \in Nat
      /\ IsSequence(b) /\ Len(b) = C
      /\ IsSequence(tb) /\ Len(tb) = C
      /\ \A m \in 1 .. C : tb[m] = g.types[Converted(f, v, g)[m]]
      /\ IsSequence(c) /\ Len(c) = B
      /\ IsSequence(d) /\ Len(d) = L - v
  BY SMTT(40), InlinedParts
<1>4. h = [name |-> f.name, private |-> f.private, ops |-> r, types |-> tr,
           result |-> f.result]
  <2>1. h = [name |-> f.name, private |-> f.private, ops |-> InlinedOps(f, v, g),
             types |-> InlinedTypes(f, v, g), result |-> f.result]
    BY <1>2, InlinedFields
  <2>2. InlinedOps(f, v, g) = r
    BY DEF InlinedOps
  <2>3. InlinedTypes(f, v, g) = tr
    BY DEF InlinedTypes
  <2> QED BY <2>1, <2>2, <2>3
<1>5. IsSequence(a) /\ Len(a) = j /\ \A m \in 1 .. v - 1 : a[m] = f.ops[m]
  BY <1>1, <1>2, CutFacts
<1>6. IsSequence(ta) /\ Len(ta) = j /\ \A m \in 1 .. v - 1 : ta[m] = f.types[m]
  BY SMTT(40), <1>1, <1>2, CutFacts
<1>7. /\ IsSequence(td) /\ Len(td) = L - v /\ \A m \in 1 .. L - v : td[m] = f.types[v + m]
  BY SMTT(40), <1>1, <1>2, CutFacts
<1>8. /\ IsSequence(tc) /\ Len(tc) = B /\ \A m \in 1 .. B : tc[m] = g.types[n + m]
  <2>1. /\ IsSequence(tc) /\ Len(tc) = Len(g.types) - 1 - n
        /\ \A m \in 1 .. Len(g.types) - 1 - n : tc[m] = g.types[n + m]
    BY <1>1, MiddleFacts
  <2> HIDE DEF tc
  <2> QED BY <1>1, <2>1
<1> HIDE DEF a, b, c, d, ta, tb, tc, td
<1>9. j = Len(a) /\ k = j + Len(b) /\ l = k + Len(c)
  BY <1>3, <1>5
<1>10. j = Len(ta) /\ k = j + Len(tb) /\ l = k + Len(tc)
  BY <1>3, <1>6, <1>8
<1>0. /\ IsSequence(a) /\ IsSequence(b) /\ IsSequence(c) /\ IsSequence(d)
      /\ IsSequence(ta) /\ IsSequence(tb) /\ IsSequence(tc) /\ IsSequence(td)
      /\ r = a \o b \o c \o d /\ tr = ta \o tb \o tc \o td
  BY <1>3, <1>5, <1>6, <1>7, <1>8
<1> HIDE DEF j, k, l, r, tr
<1>11. InParts(r, a, b, c, d, j, k, l)
  BY ONLY <1>0, <1>9, FourParts
<1>12. InParts(tr, ta, tb, tc, td, j, k, l)
  BY ONLY <1>0, <1>10, FourParts
<1>13. h.ops = r /\ h.types = tr /\ h.name = f.name /\ h.result = f.result
  BY <1>4
<1>14. Len(r) = Len(tr)
  BY <1>3, <1>7, <1>11, <1>12 DEF InParts
<1>15. IsFunction(h)
  BY <1>4, <1>11, <1>12, <1>13, <1>14 DEF IsFunction, InParts
<1>16. j = v - 1 /\ k = v - 1 + C /\ l = v - 1 + C + B
  BY <1>2, <1>3 DEF j, k, l
<1>17. Len(h.ops) = v - 1 + C + B + (L - v)
  BY <1>3, <1>11, <1>13, <1>16 DEF InParts
<1>18. ASSUME NEW m \in 1 .. v - 1 PROVE h.ops[m] = f.ops[m] /\ h.types[m] = f.types[m]
  BY <1>5, <1>6, <1>11, <1>12, <1>13, <1>16, ZenonT(60) DEF InParts
<1>19. ASSUME NEW m \in 1 .. C
       PROVE  h.ops[v - 1 + m] = b[m] /\ h.types[v - 1 + m] = g.types[Converted(f, v, g)[m]]
  BY <1>3, <1>11, <1>12, <1>13, <1>16 DEF InParts
<1>20. ASSUME NEW m \in 1 .. B
       PROVE  h.ops[v - 1 + C + m] = c[m] /\ h.types[v - 1 + C + m] = g.types[n + m]
  BY <1>3, <1>8, <1>11, <1>12, <1>13, <1>16, ZenonT(60) DEF InParts
<1>21. ASSUME NEW m \in 1 .. L - v
       PROVE  h.ops[v - 1 + C + B + m] = d[m] /\ h.types[v - 1 + C + B + m] = f.types[v + m]
  BY <1>3, <1>7, <1>11, <1>12, <1>13, <1>16 DEF InParts
<1>22. Layout(h, f, v, g, n, C, B)
  BY <1>17, <1>18, <1>19, <1>20, <1>21 DEF Layout, L, b, c, d
<1> QED BY <1>13, <1>15, <1>22

WithArgs(op, args) == [op EXCEPT !.args = args]

(* An operation on as many other values.                                   *)
LEMMA WithArgsFacts ==
    ASSUME NEW op, IsOperation(op), NEW args, args = [i \in 1 .. Len(op.args) |-> args[i]]
    PROVE  /\ IsOperation(WithArgs(op, args)) /\ WithArgs(op, args).kind = op.kind
           /\ WithArgs(op, args).attr = op.attr
           /\ WithArgs(op, args).args = args /\ Len(args) = Len(op.args)
<1> DEFINE r == [kind |-> op.kind, args |-> args, attr |-> op.attr]
<1>1. op = [kind |-> op.kind, args |-> op.args, attr |-> op.attr] /\ IsSequence(op.args)
  BY DEF IsOperation
<1>2. Len(op.args) \in Nat
  BY <1>1, SequenceFacts
<1>3. IsSequence(args) /\ Len(args) = Len(op.args)
  BY <1>2, FunctionFacts
<1>4. WithArgs(op, args) = r
  BY <1>1, SMTT(40) DEF WithArgs
<1>5. /\ r.kind = op.kind /\ r.args = args /\ r.attr = op.attr
      /\ r = [kind |-> r.kind, args |-> r.args, attr |-> r.attr]
  OBVIOUS
<1> HIDE DEF r
<1>6. op.args # << >> => args # << >>
  BY <1>1, <1>3, SequenceFacts
<1>7. op.args = << >> => args = << >>
  BY <1>1, <1>3, SequenceFacts
<1>8. IsOperation(r)
  BY <1>3, <1>5, <1>6, <1>7, SMTT(40) DEF IsOperation
<1> QED BY <1>3, <1>4, <1>5, <1>8

(* op is operation x of g, on the values that stand for its operands.      *)
CopyOf(f, v, g, x, op) ==
    /\ x \in 1 .. Len(g.ops)
    /\ IsOperation(op)
    /\ op.kind = g.ops[x].kind /\ op.attr = g.ops[x].attr
    /\ Len(op.args) = Len(g.ops[x].args)
    /\ \A i \in 1 .. Len(g.ops[x].args) : op.args[i] = Inner(f, v, g, g.ops[x].args[i])

(* The operations of the body.                                             *)
LEMMA CopiedFacts ==
    ASSUME NEW f, NEW v, NEW g, CallOf(f, v, g), NEW n, n = Arity(f, v),
           NEW m \in 1 .. Len(g.ops) - 1 - n
    PROVE  CopyOf(f, v, g, n + m, Copied(f, v, g)[m])
<1>1. n \in Nat /\ Len(g.ops) \in Nat /\ n < Len(g.ops)
  BY CallHas
<1>2. n + m \in 1 .. Len(g.ops)
  BY <1>1
<1> DEFINE op == g.ops[n + m]
           args == [i \in DOMAIN op.args |-> Inner(f, v, g, op.args[i])]
<1>3. IsOperation(op) /\ IsSequence(op.args)
  BY <1>2 DEF CallOf, FunctionOK, IsOperation
<1>4. DOMAIN op.args = 1 .. Len(op.args)
  BY <1>3, SequenceFacts
<1>5. m \in DOMAIN Body(f, v, g) /\ Body(f, v, g)[m] = op
  <2> DEFINE B == Len(g.ops) - 1 - n
             C == Len(Converted(f, v, g))
  <2>1. /\ IsSequence(Body(f, v, g)) /\ Len(Body(f, v, g)) = B
        /\ \A i \in 1 .. B : Body(f, v, g)[i] = g.ops[n + i]
    <3> HIDE DEF B, C
    <3>1. B = Len(g.ops) - 1 - n /\ C = Len(Converted(f, v, g))
      BY DEF B, C
    <3> QED BY <3>1, InlinedParts
  <2> QED BY <2>1, SequenceFacts
<1>6. Copied(f, v, g)[m] = WithArgs(op, args)
  BY <1>5, Zenon DEF Copied, WithArgs
<1>7. /\ args = [i \in 1 .. Len(op.args) |-> args[i]]
      /\ \A i \in 1 .. Len(op.args) : args[i] = Inner(f, v, g, op.args[i])
  BY <1>4, Zenon
<1> HIDE DEF args
<1>8. /\ IsOperation(WithArgs(op, args)) /\ WithArgs(op, args).kind = op.kind
      /\ WithArgs(op, args).attr = op.attr
      /\ WithArgs(op, args).args = args /\ Len(args) = Len(op.args)
  BY SMTT(40), <1>3, <1>7, WithArgsFacts
<1> QED BY <1>2, <1>6, <1>7, <1>8 DEF CopyOf

(* The operations behind the call.                                         *)
LEMMA MovedFacts ==
    ASSUME NEW f, NEW v, NEW g, CallOf(f, v, g), NEW m \in 1 .. Len(f.ops) - v
    PROVE  /\ v + m \in 1 .. Len(f.ops)
           /\ IsOperation(Moved(f, v, g)[m])
           /\ Moved(f, v, g)[m].kind = f.ops[v + m].kind
           /\ Moved(f, v, g)[m].attr = f.ops[v + m].attr
           /\ Len(Moved(f, v, g)[m].args) = Len(f.ops[v + m].args)
           /\ \A i \in 1 .. Len(f.ops[v + m].args) :
                  Moved(f, v, g)[m].args[i] = Outer(f, v, g, f.ops[v + m].args[i])
<1>1. v \in 1 .. Len(f.ops) /\ Len(f.ops) \in Nat /\ IsSequence(f.ops)
  BY CallHas DEF CallOf
<1>2. v + m \in 1 .. Len(f.ops)
  BY <1>1
<1> DEFINE op == f.ops[v + m]
           args == [i \in DOMAIN op.args |-> Outer(f, v, g, op.args[i])]
           s == SubSeq(f.ops, v + 1, Len(f.ops))
<1>3. IsOperation(op) /\ IsSequence(op.args)
  BY <1>2 DEF CallOf, FunctionOK, IsOperation
<1>4. DOMAIN op.args = 1 .. Len(op.args)
  BY <1>3, SequenceFacts
<1>5. m \in DOMAIN s /\ s[m] = op
  <2>1. /\ IsSequence(s) /\ Len(s) = Len(f.ops) - v
        /\ \A i \in 1 .. Len(f.ops) - v : s[i] = f.ops[v + i]
    BY <1>1, CutFacts
  <2> HIDE DEF s
  <2> QED BY <2>1, SequenceFacts
<1>6. Moved(f, v, g)[m] = WithArgs(op, args)
  BY <1>5, Zenon DEF Moved, WithArgs
<1>7. /\ args = [i \in 1 .. Len(op.args) |-> args[i]]
      /\ \A i \in 1 .. Len(op.args) : args[i] = Outer(f, v, g, op.args[i])
  BY <1>4, Zenon
<1> HIDE DEF args
<1>8. /\ IsOperation(WithArgs(op, args)) /\ WithArgs(op, args).kind = op.kind
      /\ WithArgs(op, args).attr = op.attr
      /\ WithArgs(op, args).args = args /\ Len(args) = Len(op.args)
  BY <1>3, <1>7, WithArgsFacts
<1> QED BY <1>2, <1>6, <1>7, <1>8

(* What the callee may use at operation x, it may use where x is copied to *)
(* under its new name; the type is the same.                               *)
LEMMA InnerUsable ==
    ASSUME NEW f, NEW v, NEW g, CallOf(f, v, g), NEW n, n = Arity(f, v),
           NEW C, C = Len(Converted(f, v, g)), NEW B, B = Len(g.ops) - 1 - n,
           NEW h, Layout(h, f, v, g, n, C, B),
           NEW x \in n + 1 .. Len(g.ops), NEW b, Usable(g, x, b)
    PROVE  /\ Usable(h, v - 1 + C + (x - n), Inner(f, v, g, b))
           /\ h.types[Inner(f, v, g, b)] = g.types[b]
<1>1. /\ n \in Nat /\ Len(f.ops) \in Nat /\ Len(g.ops) \in Nat /\ n < Len(g.ops)
      /\ ParametersFirst(g, n)
      /\ \A i \in 1 .. n : Usable(f, v, f.ops[v].args[i])
  BY CallHas
<1>2. v \in 1 .. Len(f.ops)
  BY DEF CallOf
<1>3. /\ IsSequence(Converted(f, v, g)) /\ C \in Nat
      /\ \A c \in 1 .. C : Converted(f, v, g)[c] \in 1 .. n
  BY ConvertedFacts
<1>4. b \in 1 .. x - 1 /\ g.types[b] # NoResult
  BY DEF Usable
<1>5. CASE b > n
  <2> DEFINE m == b - n
  <2>1. m \in 1 .. B /\ n + m = b /\ m < x - n
    BY SMTT(40), <1>1, <1>4, <1>5
  <2>2. Inner(f, v, g, b) = v - 1 + C + m
    BY <1>1, <1>2, <1>3, <1>4, <1>5 DEF Inner
  <2> HIDE DEF m
  <2>3. h.types[v - 1 + C + m] = g.types[b]
    <3>1. h.types[v - 1 + C + m] = g.types[n + m]
      BY <2>1 DEF Layout
    <3> QED BY <2>1, <3>1
  <2>4. v - 1 + C + m \in 1 .. (v - 1 + C + (x - n)) - 1
    <3> DEFINE d == x - n
    <3>1. v \in Nat \ {0} /\ C \in Nat
      BY <1>1, <1>2, <1>3
    <3>2. m \in Nat \ {0} /\ m < d
      BY <1>1, <1>3, <2>1
    <3>3. d \in Int
      BY <1>1
    <3> HIDE DEF d
    <3>4. v - 1 + C + m \in 1 .. (v - 1 + C + d) - 1
      BY ONLY <3>1, <3>2, <3>3, SMTT(40)
    <3> QED BY <3>4 DEF d
  <2> QED BY <1>4, <2>2, <2>3, <2>4, Zenon DEF Usable
<1>6. CASE ~ (b > n) /\ b \in ToSet(Converted(f, v, g))
  <2> DEFINE c == PlaceOf(Converted(f, v, g), b)
  <2>1. c \in 1 .. C /\ Converted(f, v, g)[c] = b
    BY <1>3, <1>6, PlaceFacts
  <2>2. Inner(f, v, g, b) = v - 1 + c
    BY <1>6 DEF Inner
  <2> HIDE DEF c
  <2>3. h.types[v - 1 + c] = g.types[b]
    BY <2>1 DEF Layout
  <2>4. v - 1 + c \in 1 .. (v - 1 + C + (x - n)) - 1
    BY SMTT(40), <1>1, <1>2, <1>3, <2>1
  <2> QED BY <1>4, <2>2, <2>3, <2>4, Zenon DEF Usable
<1>7. CASE ~ (b > n) /\ b \notin ToSet(Converted(f, v, g))
  <2> DEFINE a == f.ops[v].args[b]
  <2>1. Inner(f, v, g, b) = a
    BY <1>1, <1>7 DEF Inner
  <2>2. Usable(f, v, a)
    BY <1>1, <1>4, <1>7
  <2> HIDE DEF a
  <2>3. a \in 1 .. v - 1 /\ f.types[a] # NoResult
    BY <2>2 DEF Usable
  <2>4. h.types[a] = f.types[a]
    BY <2>3 DEF Layout
  <2>5. a \in 1 .. (v - 1 + C + (x - n)) - 1
    BY <1>1, <1>2, <1>3, <2>3
  <2>6. f.types[a] = g.types[b]
    <3>1. b \in 1 .. n
      BY <1>1, <1>4, <1>7
    <3> QED BY <1>7, <3>1, UnconvertedFits DEF a
  <2> QED BY <2>1, <2>3, <2>4, <2>5, <2>6, Zenon DEF Usable
<1> QED BY <1>5, <1>6, <1>7

(* An operation behind the call may use what it used under its new name,   *)
(* of the same type, and for the call the value returned.                  *)
LEMMA OuterUsable ==
    ASSUME NEW f, NEW v, NEW g, CallOf(f, v, g), NEW n, n = Arity(f, v),
           NEW C, C = Len(Converted(f, v, g)), NEW B, B = Len(g.ops) - 1 - n,
           NEW h, Layout(h, f, v, g, n, C, B),
           NEW m \in 1 .. Len(f.ops) - v, NEW a, Usable(f, v + m, a)
    PROVE  /\ Usable(h, v - 1 + C + B + m, Outer(f, v, g, a))
           /\ a # v => h.types[Outer(f, v, g, a)] = f.types[a]
<1>1. /\ n \in Nat /\ Len(f.ops) \in Nat /\ Len(g.ops) \in Nat /\ n < Len(g.ops)
      /\ Usable(g, Len(g.ops), ReturnedValue(g))
  BY CallHas
<1>2. v \in 1 .. Len(f.ops)
  BY DEF CallOf
<1>3. C \in Nat /\ B \in Nat /\ Len(Body(f, v, g)) = B
  BY InlinedParts
<1>4. a \in 1 .. (v + m) - 1 /\ f.types[a] # NoResult
  BY DEF Usable
<1> DEFINE q == v - 1 + C + B + m
<1>5. CASE a < v
  <2>1. a \in 1 .. v - 1 /\ a \in 1 .. q - 1 /\ Outer(f, v, g, a) = a
    BY <1>2, <1>3, <1>4, <1>5 DEF Outer
  <2>2. h.types[a] = f.types[a]
    BY <2>1 DEF Layout
  <2> HIDE DEF q
  <2>3. Usable(h, q, Outer(f, v, g, a))
    BY <1>4, <2>1, <2>2 DEF Usable
  <2> QED BY <2>1, <2>2, <2>3 DEF q
<1>6. CASE a = v
  <2> DEFINE x == Len(g.ops)
             b == ReturnedValue(g)
             z == Inner(f, v, g, b)
  <2>1. x \in n + 1 .. Len(g.ops) /\ Usable(g, x, b)
    BY <1>1
  <2>2. v - 1 + C + (x - n) \in 1 .. q
    <3>1. v \in Nat \ {0} /\ m \in Nat \ {0} /\ C \in Nat /\ B \in Nat /\ x - n = B + 1
      BY SMTT(40), <1>1, <1>2, <1>3
    <3> DEFINE d == x - n
    <3> HIDE DEF x, d
    <3>2. d = B + 1
      BY <3>1 DEF d
    <3>3. v - 1 + C + d \in 1 .. v - 1 + C + B + m
      BY ONLY <3>1, <3>2
    <3> QED BY <3>3 DEF d
  <2>3. Outer(f, v, g, a) = z
    BY <1>2, <1>6 DEF Outer
  <2> HIDE DEF x, b, z
  <2>4. Usable(h, v - 1 + C + (x - n), Inner(f, v, g, b))
    BY <2>1, InnerUsable
  <2>5. z \in 1 .. (v - 1 + C + (x - n)) - 1 /\ h.types[z] # NoResult
    BY <2>4 DEF Usable, z
  <2> DEFINE y == v - 1 + C + (x - n)
  <2>6. z \in 1 .. y - 1 /\ y \in 1 .. q
    BY <2>2, <2>5
  <2>7. q \in Int
    BY <1>2, <1>3
  <2> HIDE DEF y, q
  <2>8. z \in 1 .. q - 1
    BY <2>6, <2>7
  <2>9. Usable(h, q, z)
    BY <2>5, <2>8 DEF Usable
  <2> QED BY <1>6, <2>3, <2>9 DEF q
<1>7. CASE a > v
  <2> DEFINE k == a - v
             y == v - 1 + C + B + k
  <2>1. k \in 1 .. Len(f.ops) - v /\ v + k = a /\ k < m
    <3>1. Len(f.ops) \in Nat /\ v \in Nat \ {0} /\ m \in 1 .. Len(f.ops) - v
      BY <1>1, <1>2
    <3>2. a \in 1 .. (v + m) - 1
      BY <1>4
    <3> QED BY ONLY <1>7, <3>1, <3>2, SMTT(40)
  <2>2. Outer(f, v, g, a) = y
    <3>1. Outer(f, v, g, a) = a + (C + B - 1)
      <4>1. ~ (a < v) /\ a # v
        BY <1>2, <1>4, <1>7
      <4> QED BY <1>3, <4>1, Zenon DEF Outer
    <3>2. v \in Nat /\ C \in Nat /\ B \in Nat /\ k \in Nat /\ a = v + k
      BY <1>2, <1>3, <2>1
    <3> HIDE DEF k
    <3>3. a + (C + B - 1) = v - 1 + C + B + k
      BY ONLY <3>2
    <3> QED BY <3>1, <3>3
  <2>3. y \in 1 .. q - 1
    <3>1. v \in Nat \ {0} /\ C \in Nat /\ B \in Nat
      BY <1>2, <1>3
    <3>2. k \in Nat \ {0} /\ m \in Nat /\ k < m
      BY <2>1
    <3> HIDE DEF k
    <3>3. v - 1 + C + B + k \in 1 .. (v - 1 + C + B + m) - 1
      BY ONLY <3>1, <3>2, SMTT(40)
    <3> QED BY <3>3
  <2>4. h.types[y] = f.types[v + k]
    BY <2>1 DEF Layout
  <2> HIDE DEF k
  <2>5. f.types[v + k] = f.types[a]
    BY <2>1
  <2> HIDE DEF y, q
  <2>6. Usable(h, q, Outer(f, v, g, a))
    BY <1>4, <2>2, <2>3, <2>4, <2>5 DEF Usable
  <2> QED BY <2>2, <2>4, <2>5, <2>6 DEF q
<1> QED BY <1>2, <1>4, <1>5, <1>6, <1>7

(* A position is in one of four parts.                                     *)
LEMMA PartsCover ==
    ASSUME NEW v \in Nat \ {0}, NEW C \in Nat, NEW B \in Nat, NEW D \in Nat,
           NEW p \in 1 .. (v - 1 + C + B + D)
    PROVE  \/ p \in 1 .. v - 1
           \/ \E c \in 1 .. C : p = v - 1 + c
           \/ \E m \in 1 .. B : p = v - 1 + C + m
           \/ \E m \in 1 .. D : p = v - 1 + C + B + m
<1> DEFINE j == v - 1
           k == v - 1 + C
           l == v - 1 + C + B
<1>1. CASE p > j /\ p <= k
  <2>1. p - j \in 1 .. C /\ p = v - 1 + (p - j)
    BY <1>1
  <2> QED BY <2>1
<1>2. CASE p > k /\ p <= l
  <2>1. p - k \in 1 .. B /\ p = v - 1 + C + (p - k)
    BY <1>2
  <2> QED BY <2>1
<1>3. CASE p > l
  <2>1. p - l \in 1 .. D /\ p = v - 1 + C + B + (p - l)
    BY <1>3
  <2> QED BY <2>1
<1>4. p \in 1 .. v - 1 \/ (p > j /\ p <= k) \/ (p > k /\ p <= l) \/ p > l
  OBVIOUS
<1> QED BY <1>1, <1>2, <1>3, <1>4

(* The positions after inlining.                                           *)
LEMMA LayoutCovers ==
    ASSUME NEW f, NEW v, NEW g, CallOf(f, v, g), NEW n, n = Arity(f, v),
           NEW C, C = Len(Converted(f, v, g)), NEW B, B = Len(g.ops) - 1 - n,
           NEW h, Layout(h, f, v, g, n, C, B), NEW p \in 1 .. Len(h.ops)
    PROVE  \/ p \in 1 .. v - 1
           \/ \E c \in 1 .. C : p = v - 1 + c
           \/ \E m \in 1 .. B : p = v - 1 + C + m
           \/ \E m \in 1 .. Len(f.ops) - v : p = v - 1 + C + B + m
<1>1. v \in 1 .. Len(f.ops) /\ Len(f.ops) \in Nat
  BY CallHas DEF CallOf
<1>2. C \in Nat /\ B \in Nat
  BY InlinedParts
<1> DEFINE D == Len(f.ops) - v
<1>3. p \in 1 .. (v - 1 + C + B + D)
  BY DEF Layout
<1>4. v \in Nat \ {0} /\ D \in Nat
  BY <1>1
<1> HIDE DEF D
<1>5. \/ p \in 1 .. v - 1
      \/ \E c \in 1 .. C : p = v - 1 + c
      \/ \E m \in 1 .. B : p = v - 1 + C + m
      \/ \E m \in 1 .. D : p = v - 1 + C + B + m
  BY ONLY <1>2, <1>3, <1>4, PartsCover
<1> QED BY <1>5 DEF D

(* Operation p is one, on values that it may use.                          *)
Placed(h, p) ==
    /\ IsOperation(h.ops[p])
    /\ \A i \in 1 .. Len(h.ops[p].args) : Usable(h, p, h.ops[p].args[i])

(* A cast of an operand of the call.                                       *)
LEMMA CastPlaced ==
    ASSUME NEW f, NEW v, NEW g, CallOf(f, v, g), NEW n, n = Arity(f, v),
           NEW C, C = Len(Converted(f, v, g)), NEW B, B = Len(g.ops) - 1 - n,
           NEW h, Layout(h, f, v, g, n, C, B), NEW c \in 1 .. C, NEW p, p = v - 1 + c
    PROVE  Placed(h, p) /\ h.ops[p].kind = "cast"
<1> DEFINE x == f.ops[v].args[Converted(f, v, g)[c]]
           op == NewOp("cast", <<x>>, Null)
<1>1. /\ DOMAIN Converted(f, v, g) = 1 .. C
      /\ Converted(f, v, g)[c] \in 1 .. n
  BY ConvertedFacts
<1>2. Usable(f, v, x)
  BY <1>1, CallHas
<1>3. h.ops[p] = Casts(f, v, g)[c]
  BY DEF Layout
<1>4. Casts(f, v, g)[c] = op
  BY <1>1, Zenon DEF Casts
<1>5. v \in Nat /\ c \in Nat \ {0} /\ p = v - 1 + c
  <2>1. C \in Nat
    BY ConvertedFacts
  <2> QED BY <2>1 DEF CallOf
<1> HIDE DEF x
<1>6. x \in 1 .. v - 1 /\ f.types[x] # NoResult
  BY <1>2 DEF Usable
<1>7. h.types[x] = f.types[x]
  BY <1>6 DEF Layout
<1>8. x \in 1 .. p - 1
  BY ONLY <1>5, <1>6
<1>9. Usable(h, p, x)
  BY <1>6, <1>7, <1>8, Zenon DEF Usable
<1>10. /\ op = [kind |-> op.kind, args |-> op.args, attr |-> op.attr]
       /\ op.kind = "cast" /\ op.args = <<x>>
  BY DEF NewOp
<1> HIDE DEF op
<1>11. <<x>> \in Seq({x}) /\ Len(<<x>>) = 1 /\ <<x>>[1] = x /\ <<x>> # << >>
  OBVIOUS
<1>12. IsSequence(<<x>>)
  BY <1>11, SeqIsSequence
<1>13. IsOperation(op)
  BY <1>10, <1>11, <1>12 DEF IsOperation
<1>14. \A i \in 1 .. Len(<<x>>) : <<x>>[i] = x
  BY <1>11
<1> QED BY <1>3, <1>4, <1>9, <1>10, <1>13, <1>14 DEF Placed

(* An operation of the body.                                               *)
LEMMA CopiedPlaced ==
    ASSUME NEW f, NEW v, NEW g, CallOf(f, v, g), NEW n, n = Arity(f, v),
           NEW C, C = Len(Converted(f, v, g)), NEW B, B = Len(g.ops) - 1 - n,
           NEW h, Layout(h, f, v, g, n, C, B), NEW m \in 1 .. B, NEW p, p = v - 1 + C + m
    PROVE  Placed(h, p) /\ h.ops[p].kind # "arg"
<1> DEFINE x == n + m
           op == Copied(f, v, g)[m]
<1>0. CallOf(f, v, g) /\ n = Arity(f, v) /\ m \in 1 .. Len(g.ops) - 1 - n
  OBVIOUS
<1>1. CopyOf(f, v, g, x, op)
  BY ONLY <1>0, CopiedFacts
<1>2. n \in Nat /\ Len(g.ops) \in Nat /\ ParametersFirst(g, n)
  BY CallHas
<1>3. x \in n + 1 .. Len(g.ops) /\ x - n = m
  BY <1>1, <1>2, SMTT(40) DEF CopyOf
<1>4. h.ops[p] = op
  BY DEF Layout
<1> HIDE DEF op, x
<1>5. /\ x \in 1 .. Len(g.ops)
      /\ IsOperation(op)
      /\ op.kind = g.ops[x].kind
      /\ Len(op.args) = Len(g.ops[x].args)
      /\ \A i \in 1 .. Len(g.ops[x].args) : op.args[i] = Inner(f, v, g, g.ops[x].args[i])
  BY <1>1, Zenon DEF CopyOf
<1>6. ~ (x <= n)
  BY <1>2, <1>3
<1>7. op.kind # "arg"
  BY <1>2, <1>5, <1>6, Zenon DEF ParametersFirst
<1>8. ASSUME NEW i \in 1 .. Len(op.args) PROVE Usable(h, p, op.args[i])
  <2> DEFINE b == g.ops[x].args[i]
  <2>1. Usable(g, x, b)
    BY <1>5, <1>8, Zenon DEF CallOf, FunctionOK
  <2>2. op.args[i] = Inner(f, v, g, b)
    BY <1>5, <1>8
  <2> HIDE DEF b
  <2>3. Usable(h, v - 1 + C + (x - n), Inner(f, v, g, b))
    BY <1>3, <2>1, InnerUsable
  <2> QED BY <1>3, <2>2, <2>3
<1> QED BY <1>4, <1>5, <1>7, <1>8 DEF Placed

(* An operation behind the call.                                           *)
LEMMA MovedPlaced ==
    ASSUME NEW f, NEW v, NEW g, CallOf(f, v, g), NEW n, n = Arity(f, v),
           NEW C, C = Len(Converted(f, v, g)), NEW B, B = Len(g.ops) - 1 - n,
           NEW h, Layout(h, f, v, g, n, C, B),
           NEW m \in 1 .. Len(f.ops) - v, NEW p, p = v - 1 + C + B + m
    PROVE  Placed(h, p) /\ h.ops[p].kind = f.ops[v + m].kind
<1> DEFINE x == v + m
           op == Moved(f, v, g)[m]
<1>1. /\ x \in 1 .. Len(f.ops)
      /\ IsOperation(op)
      /\ op.kind = f.ops[x].kind
      /\ Len(op.args) = Len(f.ops[x].args)
      /\ \A i \in 1 .. Len(f.ops[x].args) : op.args[i] = Outer(f, v, g, f.ops[x].args[i])
  BY MovedFacts
<1>2. h.ops[p] = op
  BY DEF Layout
<1> HIDE DEF op
<1>3. ASSUME NEW i \in 1 .. Len(op.args) PROVE Usable(h, p, op.args[i])
  <2> DEFINE a == f.ops[x].args[i]
  <2>1. Usable(f, v + m, a)
    <3> HIDE DEF x
    <3>1. Usable(f, x, a)
      BY <1>1, <1>3, Zenon DEF CallOf, FunctionOK
    <3> QED BY <3>1 DEF x
  <2>2. op.args[i] = Outer(f, v, g, a)
    BY <1>1, <1>3
  <2> HIDE DEF a
  <2>3. Usable(h, v - 1 + C + B + m, Outer(f, v, g, a))
    BY <2>1, OuterUsable
  <2> QED BY <2>2, <2>3
<1> QED BY <1>1, <1>2, <1>3 DEF Placed

(* An operation before the call.                                           *)
LEMMA BeforePlaced ==
    ASSUME NEW f, NEW v, NEW g, CallOf(f, v, g), NEW n, NEW C, NEW B,
           NEW h, Layout(h, f, v, g, n, C, B), NEW p \in 1 .. v - 1
    PROVE  Placed(h, p) /\ h.ops[p] = f.ops[p] /\ h.types[p] = f.types[p]
<1>1. v \in 1 .. Len(f.ops) /\ Len(f.ops) \in Nat
  BY CallHas DEF CallOf
<1>2. p \in 1 .. Len(f.ops)
  BY <1>1
<1>3. h.ops[p] = f.ops[p] /\ h.types[p] = f.types[p]
  BY DEF Layout
<1>4. ASSUME NEW i \in 1 .. Len(f.ops[p].args) PROVE Usable(h, p, f.ops[p].args[i])
  <2> DEFINE a == f.ops[p].args[i]
  <2>1. Usable(f, p, a)
    BY <1>2, <1>4, Zenon DEF CallOf, FunctionOK
  <2> HIDE DEF a
  <2>2. a \in 1 .. p - 1 /\ f.types[a] # NoResult
    BY <2>1 DEF Usable
  <2>3. a \in 1 .. v - 1
    BY <1>1, <2>2
  <2>4. h.types[a] = f.types[a]
    BY <2>3 DEF Layout
  <2>5. Usable(h, p, a)
    BY <2>2, <2>4, Zenon DEF Usable
  <2> QED BY <2>5 DEF a
<1>5. IsOperation(f.ops[p])
  BY <1>2 DEF CallOf, FunctionOK
<1> QED BY <1>3, <1>4, <1>5 DEF Placed

(* A call of a function that returns a value, with as many operands as it  *)
(* has parameters, is inlined into a function that is as it must be.       *)
LEMMA InlinedOK ==
    ASSUME NEW f, NEW v, NEW g, CallOf(f, v, g)
    PROVE  Rewritten(f, Inlined(f, v, g))
<1> DEFINE n == Arity(f, v)
           C == Len(Converted(f, v, g))
           B == Len(g.ops) - 1 - n
           h == Inlined(f, v, g)
           L == Len(f.ops)
<1>1. n = Arity(f, v) /\ C = Len(Converted(f, v, g)) /\ B = Len(g.ops) - 1 - n
      /\ h = Inlined(f, v, g)
  OBVIOUS
<1>2. v \in 1 .. L /\ L \in Nat /\ FunctionOK(f) /\ IsFunction(f)
  BY CallHas DEF CallOf, FunctionOK
<1>3. f.ops[v].kind = "generic_call"
  BY DEF CallOf
<1> HIDE DEF n, C, B, h
<1>4. C \in Nat /\ B \in Nat
  BY <1>1, InlinedParts
<1>5. IsFunction(h) /\ h.name = f.name /\ h.result = f.result /\ Layout(h, f, v, g, n, C, B)
  BY <1>1, InlinedLayout
<1>6. PICK k \in 0 .. L : ParametersFirst(f, k)
  BY <1>2 DEF FunctionOK
<1>7. k < v
  BY <1>2, <1>3, <1>6 DEF ParametersFirst
<1> DEFINE Kind(p) == h.ops[p].kind
           Arranged(p) == Placed(h, p) /\ (h.ops[p].kind = "arg" <=> p <= k)
                          /\ (p <= k => h.types[p] # NoResult)
<1>8. ASSUME NEW p \in 1 .. v - 1 PROVE Arranged(p)
  <2>1. Placed(h, p) /\ h.ops[p] = f.ops[p] /\ h.types[p] = f.types[p]
    BY <1>5, <1>8, BeforePlaced
  <2>2. p \in 1 .. Len(f.ops)
    BY <1>2
  <2> QED BY <1>6, <2>1, <2>2 DEF ParametersFirst
<1>9. ASSUME NEW c \in 1 .. C, NEW p, p = v - 1 + c PROVE Arranged(p)
  <2>1. Placed(h, p) /\ h.ops[p].kind = "cast"
    BY <1>1, <1>5, <1>9, CastPlaced
  <2>2. ~ (p <= k)
    BY <1>2, <1>4, <1>6, <1>7, <1>9
  <2> QED BY <2>1, <2>2
<1>10. ASSUME NEW m \in 1 .. B, NEW p, p = v - 1 + C + m PROVE Arranged(p)
  <2>1. Placed(h, p) /\ h.ops[p].kind # "arg"
    BY <1>1, <1>5, <1>10, CopiedPlaced
  <2>2. ~ (p <= k)
    BY <1>2, <1>4, <1>6, <1>7, <1>10
  <2> QED BY <2>1, <2>2
<1>11. ASSUME NEW m \in 1 .. Len(f.ops) - v, NEW p, p = v - 1 + C + B + m PROVE Arranged(p)
  <2>1. Placed(h, p) /\ h.ops[p].kind = f.ops[v + m].kind
    BY <1>1, <1>5, <1>11, MovedPlaced
  <2> DEFINE x == v + m
  <2>2. x \in 1 .. Len(f.ops) /\ ~ (x <= k)
    BY <1>2, <1>6, <1>7, <1>11
  <2>3. ~ (p <= k)
    BY <1>2, <1>4, <1>6, <1>7, <1>11
  <2> HIDE DEF x
  <2>4. f.ops[x].kind # "arg"
    BY <1>6, <2>2, Zenon DEF ParametersFirst
  <2> QED BY <2>1, <2>3, <2>4 DEF x
<1>12. ASSUME NEW p \in 1 .. Len(h.ops) PROVE Arranged(p)
  <2>1. \/ p \in 1 .. v - 1
        \/ \E c \in 1 .. C : p = v - 1 + c
        \/ \E m \in 1 .. B : p = v - 1 + C + m
        \/ \E m \in 1 .. Len(f.ops) - v : p = v - 1 + C + B + m
    BY <1>1, <1>5, <1>12, LayoutCovers
  <2> HIDE DEF Arranged
  <2> QED BY <1>8, <1>9, <1>10, <1>11, <2>1, Zenon
<1>13. Len(h.ops) = v - 1 + C + B + (L - v)
  BY <1>5 DEF Layout
<1>14. k \in 0 .. Len(h.ops) /\ ParametersFirst(h, k)
  <2>1. k \in 0 .. Len(h.ops)
    <3> HIDE DEF L
    <3> QED BY <1>2, <1>4, <1>6, <1>7, <1>13
  <2> QED BY <1>12, <2>1 DEF ParametersFirst
<1>15. ASSUME f.result # << >>
       PROVE  Len(h.ops) # 0 /\ h.ops[Len(h.ops)].kind = "return" /\ h.ops[Len(h.ops)].args # << >>
  <2>1. L # 0 /\ f.ops[L].kind = "return" /\ f.ops[L].args # << >>
    BY <1>2, <1>15 DEF FunctionOK
  <2> DEFINE m == L - v
             p == Len(h.ops)
  <2>2. m \in 1 .. Len(f.ops) - v /\ v + m = L
    BY <1>2, <1>3, <2>1
  <2>3. p = v - 1 + C + B + m
    BY <1>13
  <2> HIDE DEF m
  <2>4. Placed(h, p) /\ h.ops[p].kind = f.ops[v + m].kind
    <3> HIDE DEF p
    <3> QED BY <1>1, <1>5, <2>2, <2>3, MovedPlaced
  <2>5. h.ops[p] = Moved(f, v, g)[m]
    BY <1>5, <2>2, <2>3 DEF Layout
  <2>6. Len(Moved(f, v, g)[m].args) = Len(f.ops[v + m].args)
    BY <2>2, MovedFacts
  <2>7. IsSequence(f.ops[L].args) /\ IsSequence(h.ops[p].args)
    <3>1. L \in 1 .. Len(f.ops)
      BY <1>2
    <3> HIDE DEF L, p
    <3>2. IsOperation(f.ops[L]) /\ IsOperation(h.ops[p])
      BY <1>2, <2>4, <3>1, Zenon DEF Placed, FunctionOK
    <3> QED BY <3>2, Zenon DEF IsOperation
  <2>8. h.ops[p].args # << >>
    BY <2>1, <2>2, <2>5, <2>6, <2>7, SequenceFacts
  <2>9. p # 0
    <3> HIDE DEF p, L
    <3> QED BY <1>2, <1>4, <2>2, <2>3 DEF L
  <2> QED BY <2>1, <2>2, <2>4, <2>8, <2>9
<1>16. FunctionOK(h)
  <2>1. ASSUME NEW p \in 1 .. Len(h.ops)
        PROVE  /\ IsOperation(h.ops[p])
               /\ \A i \in 1 .. Len(h.ops[p].args) : Usable(h, p, h.ops[p].args[i])
    BY <1>12, <2>1 DEF Placed
  <2> QED BY <1>5, <1>14, <1>15, <2>1 DEF FunctionOK
<1> QED BY <1>5, <1>16 DEF Rewritten, h

-----------------------------------------------------------------------------
(* The driver.                                                             *)

NamesUnique(fs) ==
    \A m, n \in 1 .. Len(fs) : fs[m].name = fs[n].name => m = n

(* One function is another one, of the same name.                          *)
LEMMA FunctionReplaced ==
    ASSUME NEW fs, FunctionsOK(fs), NEW k \in 1 .. Len(fs), NEW g, Rewritten(fs[k], g),
           NEW gs, gs = [fs EXCEPT ![k] = g]
    PROVE  FunctionsOK(gs) /\ Len(gs) = Len(fs) /\ (NamesUnique(fs) => NamesUnique(gs))
<1> DEFINE L == Len(fs)
<1>1. L \in Nat /\ DOMAIN fs = 1 .. L
  BY SequenceFacts DEF FunctionsOK
<1>2. /\ gs = [n \in 1 .. L |-> gs[n]]
      /\ gs[k] = g /\ \A n \in 1 .. L : n # k => gs[n] = fs[n]
  <2>1. k \in DOMAIN fs
    BY <1>1
  <2>2. DOMAIN gs = 1 .. L /\ gs[k] = g /\ \A n \in DOMAIN fs : n # k => gs[n] = fs[n]
    BY <1>1, <2>1, Zenon
  <2> DEFINE es == [fs EXCEPT ![k] = g]
  <2>3. DOMAIN es = 1 .. L
    BY <1>1, Zenon
  <2>4. es = [n \in 1 .. L |-> es[n]]
    BY <2>3, Zenon
  <2>5. gs = es
    OBVIOUS
  <2> HIDE DEF es
  <2> QED BY <1>1, <2>2, <2>4, <2>5
<1>3. IsSequence(gs) /\ Len(gs) = L
  BY <1>1, <1>2, FunctionFacts
<1>4. \A n \in 1 .. L : FunctionOK(gs[n]) /\ gs[n].name = fs[n].name
  BY <1>2 DEF FunctionsOK, Rewritten
<1> QED BY <1>3, <1>4 DEF FunctionsOK, NamesUnique

(* Functions of a module that are left, in their order.                    *)
LEMMA FunctionsLeft ==
    ASSUME NEW fs, FunctionsOK(fs), NEW S,
           NEW a, Ascends(a, S, Len(fs)), NEW gs, gs = [i \in DOMAIN a |-> fs[a[i]]]
    PROVE  FunctionsOK(gs) /\ (NamesUnique(fs) => NamesUnique(gs))
<1> DEFINE L == Len(a)
<1>1. /\ L \in Nat /\ DOMAIN a = 1 .. L
      /\ \A i \in 1 .. L : a[i] \in 1 .. Len(fs)
      /\ \A i, j \in 1 .. L : i < j => a[i] < a[j]
  BY SequenceFacts DEF Ascends
<1> HIDE DEF L
<1>2. gs = [i \in 1 .. L |-> gs[i]] /\ \A i \in 1 .. L : gs[i] = fs[a[i]]
  BY <1>1
<1>3. IsSequence(gs) /\ Len(gs) = L
  BY <1>1, <1>2, FunctionFacts
<1>4. \A i \in 1 .. L : FunctionOK(gs[i])
  BY <1>1, <1>2 DEF FunctionsOK
<1>5. ASSUME NamesUnique(fs), NEW m \in 1 .. L, NEW n \in 1 .. L, gs[m].name = gs[n].name
      PROVE  m = n
  <2>1. a[m] = a[n] /\ a[m] \in 1 .. Len(fs)
    BY <1>1, <1>2, <1>5 DEF NamesUnique
  <2>2. ~ (m < n) /\ ~ (n < m)
    BY <1>1, <2>1
  <2> QED BY <1>1, <2>2
<1> QED BY <1>3, <1>4, <1>5 DEF FunctionsOK, NamesUnique

(* Only the verification of the module hands it over.                      *)
LEMMA HandsOver ==
    ASSUME Next, status' = "module"
    PROVE  ModuleVerifies'
<1>1. ASSUME NEW reported, FailFunction(reported) PROVE FALSE
  BY <1>1 DEF FailFunction
<1>2. Crash => FALSE
  BY DEF Crash
<1>3. UnknownType => FALSE
  BY DEF UnknownType
<1>4. FailExpr => status = "module"
  BY <1>1 DEF FailExpr
<1>5. ASSUME NEW kind, NEW n, NEW attr, NEW type, NEW struct, Emit(kind, n, attr, type, struct)
      PROVE  status = "module"
  BY <1>5 DEF Emit
<1>6. ASSUME NEW items, Push(items) PROVE status = "module"
  BY <1>6 DEF Push
<1>7. ASSUME NEW attr, NEW type, PushAttr(attr, type) PROVE status = "module"
  BY <1>7 DEF PushAttr
<1>8. CASE VerifyModule
  <2>1. ModuleVerifies /\ funcs' = funcs
    BY <1>8 DEF VerifyModule
  <2> QED BY <2>1 DEF ModuleVerifies, SymbolsUnique
<1>9. CASE GenNull \/ GenStruct \/ BeginFunction \/ FinishFunction
  <2>1. status = "run"
    BY <1>9 DEF GenNull, GenStruct, BeginFunction, FinishFunction, NextRecord, Doing
  <2>2. status = "module"
    BY <1>2, <1>3, <1>9 DEF GenNull, GenStruct, BeginFunction, FinishFunction
  <2> QED BY <2>1, <2>2
<1>10. CASE GenVarDecl \/ Redeclare \/ Declare \/ GenReturn \/ GenPrint \/ GenExpression
            \/ FinishStatement \/ EndBlock
  <2>1. status = "run"
    BY <1>10 DEF GenVarDecl, Redeclare, Declare, GenReturn, GenPrint, GenExpression,
                 FinishStatement, EndBlock, NextStatement, Doing
  <2>2. status = "module"
    BY <1>1, <1>6, <1>10
       DEF GenVarDecl, Redeclare, Declare, GenReturn, GenPrint, GenExpression,
           FinishStatement, EndBlock
  <2> QED BY <2>1, <2>2
<1>11. CASE VisitNull \/ VisitVariable \/ VisitConstant \/ VisitBinary \/ VisitCall
            \/ VisitOther \/ VisitStructLiteral \/ VisitElement
  <2>1. status = "run"
    BY <1>11 DEF VisitNull, VisitVariable, VisitConstant, VisitBinary, VisitCall, VisitOther,
                 VisitStructLiteral, VisitElement, Visiting, Doing
  <2>2. status = "module"
    BY <1>2, <1>4, <1>5, <1>6, <1>7, <1>11
       DEF VisitNull, VisitVariable, VisitConstant, VisitBinary, VisitCall, VisitOther,
           VisitStructLiteral, VisitElement
  <2> QED BY <2>1, <2>2
<1>12. CASE BuildBinary \/ BuildAccess \/ BuildCall \/ BuildArray \/ BuildStructConstant
  <2>1. status = "run"
    BY <1>12 DEF BuildBinary, BuildAccess, BuildCall, BuildArray, BuildStructConstant, Doing
  <2>2. status = "module"
    BY <1>2, <1>4, <1>5, <1>12
       DEF BuildBinary, BuildAccess, BuildCall, BuildArray, BuildStructConstant
  <2> QED BY <2>1, <2>2
<1> QED BY <1>8, <1>9, <1>10, <1>11, <1>12 DEF Next, Expression

(* What the generator has left, but for the functions.                     *)
Generated ==
    /\ rec \in 0 .. Len(prog) /\ diag \in BOOLEAN
    /\ status \in {"run", "module", "null", "crash"}
    /\ status = "run" /\ todo = << >> => symbolTable = << >> /\ vals = << >>
    /\ NullReported

(* The functions, which have different names once the module is verified.  *)
FunctionsInv ==
    /\ FunctionsOK(funcs)
    /\ status = "module" => NamesUnique(funcs)

(* The generator is at work or has not begun.                              *)
GeneratorInv(Nodes) ==
    phase \in {"start", "mlirGen"} =>
        GenInv(Nodes) /\ ReportInv /\ at = 0 /\ done = {} /\ ~ inlining

(* Where a pass is, and that only the inliner inlines.                     *)
PassInv ==
    /\ phase \in {"start", "mlirGen", "passes", "exit", "crash"}
    /\ phase = "passes" => status = "module"
    /\ at \in 0 .. Len(funcs) /\ done \subseteq DOMAIN funcs /\ at \notin done
    /\ inlining => at # 0 /\ passes # << >> /\ Head(passes) = "inliner"

(* What main has to say.                                                   *)
OutcomeInv ==
    /\ level \in {"toy", "affine", "llvm"}
    /\ dump \in {"none", "ast", "toy", "affine", "llvm"}
    /\ code \in {-1, 0, 1}

DriverInv(Nodes) ==
    Generated /\ FunctionsInv /\ GeneratorInv(Nodes) /\ PassInv /\ OutcomeInv

(* The two ways to say that symbols are unique.                            *)
LEMMA SymbolsAreNames ==
    ASSUME FunctionsOK(funcs)
    PROVE  SymbolsUnique <=> NamesUnique(funcs)
<1>1. DOMAIN funcs = 1 .. Len(funcs)
  BY SequenceFacts DEF FunctionsOK
<1> QED BY <1>1 DEF SymbolsUnique, NamesUnique

(* The generator's invariants say this much.                               *)
LEMMA GeneratedIs ==
    ASSUME NEW Nodes, GenInv(Nodes), ReportInv, diag \in BOOLEAN
    PROVE  Generated /\ FunctionsOK(funcs)
<1>1. PICK T : GenOK(T, Nodes)
  BY DEF GenInv
<1> QED BY <1>1 DEF GenOK, GenState, Generated, ReportInv

(* It holds initially.                                                     *)
LEMMA DriverInitially ==
    ASSUME NEW Nodes, Grammatical(Nodes), Modules \subseteq Seq(Nodes), DriverInit
    PROVE  DriverInv(Nodes)
<1>1. Init /\ phase = "start" /\ at = 0 /\ done = {} /\ inlining = FALSE
  BY DEF DriverInit
<1>2. GenInv(Nodes) /\ ReportInv
  BY <1>1, GenInvInitially DEF Init, ReportInv, NullReported
<1>3. diag \in BOOLEAN /\ status = "run"
  BY <1>1 DEF Init
<1>4. Generated /\ FunctionsOK(funcs)
  BY <1>2, <1>3, GeneratedIs
<1>5. Len(funcs) \in Nat
  BY <1>4, SequenceFacts DEF FunctionsOK
<1>6. PassInv /\ OutcomeInv
  BY <1>5 DEF DriverInit, PassInv, OutcomeInv
<1> QED BY <1>1, <1>2, <1>3, <1>4, <1>6 DEF DriverInv, FunctionsInv, GeneratorInv

(* A step that leaves what the generator has made.                         *)
LEMMA GenVarsKept ==
    ASSUME NEW Nodes, Grammatical(Nodes), DriverInv(Nodes), UNCHANGED genVars
    PROVE  /\ Generated' /\ FunctionsInv' /\ Len(funcs') = Len(funcs)
           /\ GenInv(Nodes) /\ ReportInv => GenInv(Nodes)' /\ ReportInv'
<1>1. UNCHANGED vars
  BY DEF genVars
<1>2. Record' = Record
  BY <1>1 DEF vars, Record
<1>3. NullReported => NullReported'
  BY <1>1, <1>2 DEF vars, NullReported
<1>4. Generated'
  BY <1>1, <1>3 DEF DriverInv, Generated, vars
<1>5. FunctionsInv' /\ Len(funcs') = Len(funcs)
  BY <1>1 DEF DriverInv, FunctionsInv, vars
<1>6. GenInv(Nodes) /\ ReportInv => GenInv(Nodes)' /\ ReportInv'
  BY <1>1, GenInvKept, ReportInvKept
<1> QED BY <1>4, <1>5, <1>6

(* The functions have the positions they had.                              *)
LEMMA Positions ==
    ASSUME FunctionsOK(funcs), FunctionsOK(funcs)', Len(funcs') = Len(funcs)
    PROVE  /\ Len(funcs) \in Nat
           /\ DOMAIN funcs = 1 .. Len(funcs) /\ DOMAIN funcs' = 1 .. Len(funcs)
<1> DEFINE fs == funcs
           gs == funcs'
<1>1. FunctionsOK(fs) /\ FunctionsOK(gs)
  OBVIOUS
<1> HIDE DEF fs, gs
<1>2. /\ Len(fs) \in Nat /\ DOMAIN fs = 1 .. Len(fs) /\ DOMAIN gs = 1 .. Len(gs)
  BY <1>1, SequenceFacts DEF FunctionsOK
<1> QED BY <1>2 DEF fs, gs

(* main() before, behind and instead of the passes.                        *)
LEMMA MainKeeps ==
    ASSUME NEW Nodes, Grammatical(Nodes), DriverInv(Nodes),
           \/ Usage \/ FileNotOpened \/ ParserFailed \/ DumpAST \/ CallMLIRGen
           \/ NullModule \/ BuildPipeline
    PROVE  DriverInv(Nodes)'
<1>1. UNCHANGED genVars /\ phase \in {"start", "mlirGen"}
  BY DEF Usage, FileNotOpened, ParserFailed, DumpAST, CallMLIRGen, NullModule, BuildPipeline,
         Stop
<1>2. GenInv(Nodes) /\ ReportInv /\ at = 0 /\ done = {} /\ ~ inlining
  BY <1>1 DEF DriverInv, GeneratorInv
<1>3. /\ Generated' /\ FunctionsInv' /\ Len(funcs') = Len(funcs)
      /\ GenInv(Nodes)' /\ ReportInv'
  BY <1>1, <1>2, GenVarsKept
<1>4. UNCHANGED <<at, done, inlining, status>>
  BY <1>1 DEF Usage, FileNotOpened, ParserFailed, DumpAST, CallMLIRGen, NullModule,
         BuildPipeline, Stop, Exit, passVars, genVars, vars
<1>5. GeneratorInv(Nodes)'
  BY <1>2, <1>3, <1>4 DEF GeneratorInv
<1>6. phase' \in {"mlirGen", "passes", "exit", "crash"} /\ (phase' = "passes" => status = "module")
  BY DEF Usage, FileNotOpened, ParserFailed, DumpAST, CallMLIRGen, NullModule,
         BuildPipeline, Stop, Exit
<1>7. PassInv'
  <2>1. Len(funcs) \in Nat
    BY Positions, <1>3 DEF DriverInv, FunctionsInv
  <2> QED BY <1>2, <1>3, <1>4, <1>6, <2>1 DEF PassInv
<1>8. OutcomeInv'
  BY DEF DriverInv, OutcomeInv, Usage, FileNotOpened, ParserFailed, DumpAST, CallMLIRGen,
         NullModule, BuildPipeline, Stop, Exit, passVars
<1> QED BY <1>3, <1>5, <1>7, <1>8 DEF DriverInv

(* A step of the generator.                                                *)
LEMMA GenerateKeeps ==
    ASSUME NEW Nodes, Grammatical(Nodes), DriverInv(Nodes), Generate
    PROVE  DriverInv(Nodes)'
<1>1. phase = "mlirGen" /\ Next /\ UNCHANGED driverVars
  BY DEF Generate
<1>2. GenInv(Nodes) /\ ReportInv /\ at = 0 /\ done = {} /\ ~ inlining /\ diag \in BOOLEAN
  BY <1>1 DEF DriverInv, GeneratorInv, Generated
<1>3. GenInv(Nodes)' /\ ReportInv' /\ diag' \in BOOLEAN
  BY <1>1, <1>2, GenInvKept, ReportInvKept, DiagKept
<1>4. (Generated /\ FunctionsOK(funcs))'
  <2>1. PICK T : GenOK(T, Nodes)'
    BY <1>3 DEF GenInv
  <2> QED BY <1>3, <2>1 DEF GenOK, GenState, Generated, ReportInv
<1>5. FunctionsInv'
  <2>1. status' = "module" => SymbolsUnique'
    BY <1>1, HandsOver DEF ModuleVerifies
  <2>2. (FunctionsOK(funcs) => (SymbolsUnique <=> NamesUnique(funcs)))'
    BY SymbolsAreNames, PTL
  <2> QED BY <1>4, <2>1, <2>2 DEF FunctionsInv
<1>6. GeneratorInv(Nodes)'
  BY <1>1, <1>2, <1>3 DEF GeneratorInv, driverVars
<1>7. PassInv'
  <2> DEFINE fs == funcs'
  <2>1. FunctionsOK(fs)
    BY <1>4
  <2> HIDE DEF fs
  <2>2. Len(fs) \in Nat
    BY <2>1, SequenceFacts DEF FunctionsOK
  <2> QED BY <1>1, <1>2, <2>2 DEF PassInv, driverVars, fs
<1>8. OutcomeInv'
  BY <1>1 DEF DriverInv, OutcomeInv, driverVars
<1> QED BY <1>4, <1>5, <1>6, <1>7, <1>8 DEF DriverInv

(* A pass that gives the function it is at other operations or types.      *)
LEMMA SetFunctionKeeps ==
    ASSUME NEW Nodes, DriverInv(Nodes), phase = "passes", at # 0,
           NEW g, Rewritten(funcs[at], g), SetFunction(g)
    PROVE  /\ Generated' /\ FunctionsInv' /\ Len(funcs') = Len(funcs)
           /\ status' = status
<1>1. at \in 1 .. Len(funcs) /\ FunctionsOK(funcs)
  <2>1. FunctionsOK(funcs)
    BY DEF DriverInv, FunctionsInv
  <2>2. Len(funcs) \in Nat
    BY <2>1, SequenceFacts DEF FunctionsOK
  <2> QED BY <2>1, <2>2 DEF DriverInv, PassInv
<1>2. funcs' = [funcs EXCEPT ![at] = g]
  BY DEF SetFunction
<1>3. /\ FunctionsOK(funcs') /\ Len(funcs') = Len(funcs)
      /\ NamesUnique(funcs) => NamesUnique(funcs')
  BY <1>1, <1>2, FunctionReplaced
<1>4. UNCHANGED <<prog, rec, symbolTable, todo, vals, diag, status>>
  BY DEF SetFunction
<1>5. FunctionsInv'
  BY <1>3, <1>4 DEF DriverInv, FunctionsInv
<1>6. Record' = Record
  BY <1>4 DEF Record
<1>7. NullReported'
  BY <1>4, <1>6 DEF DriverInv, Generated, NullReported
<1>8. Generated'
  BY <1>4, <1>7 DEF DriverInv, Generated
<1> QED BY <1>3, <1>4, <1>5, <1>8

(* A pass comes to a function.                                             *)
LEMMA EnterKeeps ==
    ASSUME NEW Nodes, Grammatical(Nodes), DriverInv(Nodes),
           NEW n \in DOMAIN funcs, Enter(n)
    PROVE  DriverInv(Nodes)'
<1>1. /\ UNCHANGED genVars /\ phase = "passes" /\ at = 0 /\ n \notin done /\ at' = n
      /\ UNCHANGED <<phase, passes, done, inlining, level, dump, code>>
  BY DEF Enter, Pass
<1>2. Generated' /\ FunctionsInv' /\ Len(funcs') = Len(funcs)
  BY <1>1, GenVarsKept
<1>3. /\ Len(funcs) \in Nat
      /\ DOMAIN funcs = 1 .. Len(funcs) /\ DOMAIN funcs' = 1 .. Len(funcs)
  BY <1>2, Positions DEF DriverInv, FunctionsInv
<1>4. PassInv'
  <2>1. status' = status
    BY <1>1 DEF genVars, vars
  <2> QED BY <1>1, <1>2, <1>3, <2>1 DEF DriverInv, PassInv
<1>5. GeneratorInv(Nodes)' /\ OutcomeInv'
  BY <1>1 DEF DriverInv, GeneratorInv, OutcomeInv
<1> QED BY <1>2, <1>4, <1>5 DEF DriverInv

(* A pattern or a fold.                                                    *)
LEMMA RewriteKeeps ==
    ASSUME NEW Nodes, DriverInv(Nodes), Rewrite
    PROVE  DriverInv(Nodes)'
<1>1. phase = "passes" /\ at # 0 /\ UNCHANGED driverVars
  BY DEF Rewrite, Rewriting, Pass
<1>2. PICK g : g \in Rewrites(funcs[at]) /\ SetFunction(g)
  BY DEF Rewrite
<1>3. FunctionOK(funcs[at])
  <2>1. FunctionsOK(funcs)
    BY DEF DriverInv, FunctionsInv
  <2>2. Len(funcs) \in Nat
    BY <2>1, SequenceFacts DEF FunctionsOK
  <2>3. at \in 1 .. Len(funcs)
    BY <1>1, <2>2 DEF DriverInv, PassInv
  <2> QED BY <2>1, <2>3 DEF FunctionsOK
<1>4. g \in Canonicalized(funcs[at]) \cup Eliminated(funcs[at])
  BY <1>2 DEF Rewrites
<1>5. Rewritten(funcs[at], g)
  BY <1>3, <1>4, RewriteOK
<1>6. Generated' /\ FunctionsInv' /\ Len(funcs') = Len(funcs) /\ status' = status
  BY <1>1, <1>2, <1>5, SetFunctionKeeps
<1>7. DOMAIN funcs' = DOMAIN funcs
  BY <1>6, Positions DEF DriverInv, FunctionsInv
<1>8. PassInv'
  BY <1>1, <1>6, <1>7 DEF DriverInv, PassInv, driverVars
<1>9. GeneratorInv(Nodes)' /\ OutcomeInv'
  BY <1>1 DEF DriverInv, GeneratorInv, OutcomeInv, driverVars
<1> QED BY <1>6, <1>8, <1>9 DEF DriverInv

(* The function a pass is at.                                              *)
LEMMA AtFunction ==
    ASSUME NEW Nodes, DriverInv(Nodes), at # 0
    PROVE  /\ at \in 1 .. Len(funcs) /\ Len(funcs) \in Nat /\ DOMAIN funcs = 1 .. Len(funcs)
           /\ FunctionsOK(funcs) /\ FunctionOK(funcs[at])
<1>1. FunctionsOK(funcs)
  BY DEF DriverInv, FunctionsInv
<1>2. Len(funcs) \in Nat /\ DOMAIN funcs = 1 .. Len(funcs)
  BY <1>1, SequenceFacts DEF FunctionsOK
<1>3. at \in 1 .. Len(funcs)
  BY <1>2 DEF DriverInv, PassInv
<1> QED BY <1>1, <1>2, <1>3 DEF FunctionsOK

(* The call that the inliner takes is one of the function it finds, which  *)
(* names being unique is the function that was asked whether to inline it. *)
LEMMA CallTaken ==
    ASSUME NEW Nodes, DriverInv(Nodes), at # 0, status = "module",
           NEW v \in Inlinable(funcs[at]),
           NEW k, k = CHOOSE n \in DOMAIN funcs :
                          funcs[n].name = funcs[at].ops[v].attr.name
    PROVE  CallOf(funcs[at], v, funcs[k]) /\ k \in DOMAIN funcs
<1>1. /\ DOMAIN funcs = 1 .. Len(funcs) /\ FunctionsOK(funcs) /\ FunctionOK(funcs[at])
  BY AtFunction
<1>2. v \in DOMAIN funcs[at].ops /\ funcs[at].ops[v].kind = "generic_call"
  BY DEF Inlinable, OfKind
<1>3. v \in 1 .. Len(funcs[at].ops)
  BY <1>1, <1>2, FunctionHas
<1>4. PICK n \in DOMAIN funcs :
          /\ funcs[n].name = funcs[at].ops[v].attr.name
          /\ Cardinality(OfKind(funcs[n], {"arg"})) = Len(funcs[at].ops[v].args)
          /\ funcs[n].result # << >>
  BY Zenon DEF Inlinable
<1>5. k \in DOMAIN funcs /\ funcs[k].name = funcs[at].ops[v].attr.name
  BY <1>4, Zenon
<1>6. k = n
  <2>1. NamesUnique(funcs)
    BY SMTT(40) DEF DriverInv, FunctionsInv
  <2> QED BY <1>1, <1>4, <1>5, <2>1, Zenon DEF NamesUnique
<1>7. FunctionOK(funcs[k])
  BY <1>1, <1>5, ZenonT(60) DEF FunctionsOK
<1> QED BY <1>1, <1>2, <1>3, <1>4, <1>5, <1>6, <1>7, Zenon DEF CallOf

(* What the inliner does to the function it is at.                         *)
LEMMA CallInlined ==
    ASSUME NEW Nodes, DriverInv(Nodes), InlineCall
    PROVE  \E v, k : /\ k \in 1 .. Len(funcs) /\ CallOf(funcs[at], v, funcs[k])
                     /\ SetFunction(Inlined(funcs[at], v, funcs[k]))
<1> DEFINE v == Min(Inlinable(funcs[at]))
           k == CHOOSE n \in DOMAIN funcs : funcs[n].name = funcs[at].ops[v].attr.name
<1>1. /\ phase = "passes" /\ at # 0 /\ Inlinable(funcs[at]) # {}
      /\ SetFunction(Inlined(funcs[at], v, funcs[k]))
  BY DEF InlineCall, Pass
<1>2. status = "module"
  BY <1>1 DEF DriverInv, PassInv
<1>3. v \in Inlinable(funcs[at])
  <2> DEFINE S == Inlinable(funcs[at])
  <2>1. S \subseteq Nat
    <3>1. FunctionOK(funcs[at])
      BY <1>1, AtFunction
    <3>2. \A u \in DOMAIN funcs[at].ops : u \in 1 .. Len(funcs[at].ops) /\ Len(funcs[at].ops) \in Nat
      BY <3>1, FunctionHas
    <3>3. S \subseteq DOMAIN funcs[at].ops
      BY Zenon DEF Inlinable, OfKind
    <3> QED BY <3>2, <3>3
  <2>2. S # {}
    BY <1>1
  <2> HIDE DEF S
  <2>3. Min(S) \in S
    BY <2>1, <2>2, MinOfNaturals
  <2> QED BY <2>3 DEF S
<1>4. k = CHOOSE n \in DOMAIN funcs : funcs[n].name = funcs[at].ops[v].attr.name
  OBVIOUS
<1> HIDE DEF k, v
<1>5. CallOf(funcs[at], v, funcs[k]) /\ k \in DOMAIN funcs
  BY <1>1, <1>2, <1>3, <1>4, CallTaken
<1>6. k \in 1 .. Len(funcs)
  BY SMTT(40), <1>1, <1>5, AtFunction
<1> QED BY <1>1, <1>5, <1>6

(* The inliner inlines a call.                                             *)
LEMMA InlineCallKeeps ==
    ASSUME NEW Nodes, DriverInv(Nodes), InlineCall
    PROVE  DriverInv(Nodes)'
<1>1. /\ phase = "passes" /\ passes # << >> /\ Head(passes) = "inliner" /\ at # 0
      /\ Inlinable(funcs[at]) # {}
      /\ UNCHANGED <<phase, passes, at, done, level, dump, code>>
  BY DEF InlineCall, Pass
<1>2. PICK v, k : CallOf(funcs[at], v, funcs[k]) /\ SetFunction(Inlined(funcs[at], v, funcs[k]))
  BY CallInlined
<1> DEFINE g == Inlined(funcs[at], v, funcs[k])
<1>3. SetFunction(g)
  BY <1>2
<1>4. Rewritten(funcs[at], g)
  BY <1>2, InlinedOK
<1> HIDE DEF g
<1>5. Generated' /\ FunctionsInv' /\ Len(funcs') = Len(funcs) /\ status' = status
  BY <1>1, <1>3, <1>4, SetFunctionKeeps
<1>6. DOMAIN funcs' = DOMAIN funcs
  BY <1>5, Positions DEF DriverInv, FunctionsInv
<1>7. PassInv'
  BY <1>1, <1>5, <1>6 DEF DriverInv, PassInv
<1>8. GeneratorInv(Nodes)' /\ OutcomeInv'
  BY <1>1 DEF DriverInv, GeneratorInv, OutcomeInv
<1> QED BY <1>5, <1>7, <1>8 DEF DriverInv

(* A pass is done with its function, which may have got other types.       *)
LEMMA LeaveKeeps ==
    ASSUME NEW Nodes, DriverInv(Nodes), phase = "passes", at # 0, ~ inlining, Leave,
           Generated', FunctionsInv', Len(funcs') = Len(funcs), status' = status
    PROVE  DriverInv(Nodes)'
<1>1. /\ done' = done \cup {at} /\ at' = 0
      /\ UNCHANGED <<phase, passes, inlining, level, dump, code>>
  BY DEF Leave
<1>2. /\ at \in 1 .. Len(funcs) /\ Len(funcs) \in Nat /\ DOMAIN funcs = 1 .. Len(funcs)
  BY AtFunction
<1>3. DOMAIN funcs' = DOMAIN funcs
  BY Positions DEF DriverInv, FunctionsInv
<1>4. done \subseteq DOMAIN funcs
  BY DEF DriverInv, PassInv
<1>5. at' \in 0 .. Len(funcs') /\ done' \subseteq DOMAIN funcs' /\ at' \notin done'
  BY <1>1, <1>2, <1>3, <1>4
<1>6. PassInv'
  BY <1>1, <1>5 DEF DriverInv, PassInv
<1>7. GeneratorInv(Nodes)' /\ OutcomeInv'
  BY <1>1 DEF DriverInv, GeneratorInv, OutcomeInv
<1> QED BY <1>6, <1>7 DEF DriverInv

(* The compiler stops in a pass.                                           *)
LEMMA StopsKeep ==
    ASSUME NEW Nodes, Grammatical(Nodes), DriverInv(Nodes), phase = "passes",
           \/ UNCHANGED genVars /\ \E what \in {"none", "toy", "affine", "llvm"} : Exit(what, 0)
           \/ Stop
    PROVE  DriverInv(Nodes)'
<1>1. UNCHANGED genVars /\ UNCHANGED passVars /\ phase' \in {"exit", "crash"}
  BY DEF Stop, Exit
<1>2. Generated' /\ FunctionsInv' /\ Len(funcs') = Len(funcs)
  BY <1>1, GenVarsKept
<1>3. UNCHANGED <<passes, at, done, inlining, level, funcs>>
  BY <1>1 DEF passVars, genVars, vars
<1>4. PassInv'
  BY <1>1, <1>3 DEF DriverInv, PassInv
<1>5. GeneratorInv(Nodes)'
  BY <1>1 DEF GeneratorInv
<1>6. OutcomeInv'
  BY <1>3 DEF DriverInv, OutcomeInv, Stop, Exit
<1> QED BY <1>2, <1>4, <1>5, <1>6 DEF DriverInv

(* No rewrite matches any more.                                            *)
LEMMA EndRewritingKeeps ==
    ASSUME NEW Nodes, Grammatical(Nodes), DriverInv(Nodes), EndRewriting
    PROVE  DriverInv(Nodes)'
<1>1. phase = "passes" /\ at # 0 /\ ~ inlining
  BY DEF EndRewriting, Rewriting, Pass
<1>2. CASE PassFails
  BY <1>1, <1>2, StopsKeep DEF PassFails
<1>3. CASE Leave /\ UNCHANGED genVars
  <2>1. Generated' /\ FunctionsInv' /\ Len(funcs') = Len(funcs)
    BY <1>3, GenVarsKept
  <2>2. status' = status
    BY <1>3 DEF genVars, vars
  <2> QED BY <1>1, <1>3, <2>1, <2>2, LeaveKeeps
<1> QED BY <1>2, <1>3 DEF EndRewriting

(* The types of a function are inferred.                                   *)
LEMMA InferShapesKeeps ==
    ASSUME NEW Nodes, Grammatical(Nodes), DriverInv(Nodes), InferShapesOf
    PROVE  DriverInv(Nodes)'
<1> DEFINE g == Inferred(funcs[at])
<1>1. phase = "passes" /\ passes # << >> /\ Head(passes) = "shape inference" /\ at # 0
  BY DEF InferShapesOf, Pass
<1>2. ~ inlining
  BY <1>1 DEF DriverInv, PassInv
<1>3. CASE PassFails
  BY <1>1, <1>3, StopsKeep DEF PassFails
<1>4. CASE SetFunction(g) /\ Leave
  <2>1. Rewritten(funcs[at], g)
    BY <1>1, AtFunction, InferredOK
  <2> HIDE DEF g
  <2>2. Generated' /\ FunctionsInv' /\ Len(funcs') = Len(funcs) /\ status' = status
    BY <1>1, <1>4, <2>1, SetFunctionKeeps
  <2> QED BY <1>1, <1>2, <1>4, <2>2, LeaveKeeps
<1> QED BY <1>3, <1>4, Zenon DEF InferShapesOf

(* The next pass begins on the functions that are left.                    *)
LEMMA NextPassKeeps ==
    ASSUME NEW Nodes, DriverInv(Nodes), phase = "passes", ~ inlining, NextPass,
           level' \in {"toy", "affine", "llvm"},
           Generated', FunctionsInv', at = 0 \/ Len(funcs') = Len(funcs), status' = status
    PROVE  DriverInv(Nodes)'
<1>1. done' = {} /\ UNCHANGED <<phase, at, inlining, dump, code>>
  BY DEF NextPass
<1> DEFINE fs == funcs'
<1>2. FunctionsOK(fs)
  BY DEF FunctionsInv
<1> HIDE DEF fs
<1>3. Len(fs) \in Nat
  BY <1>2, SequenceFacts DEF FunctionsOK
<1>4. at' \in 0 .. Len(funcs')
  BY <1>1, <1>3 DEF DriverInv, PassInv, fs
<1>5. PassInv'
  BY <1>1, <1>4 DEF DriverInv, PassInv
<1>6. GeneratorInv(Nodes)' /\ OutcomeInv'
  BY <1>1 DEF DriverInv, GeneratorInv, OutcomeInv
<1> QED BY <1>5, <1>6 DEF DriverInv

(* A pass has done all functions; the inliner leaves out the private       *)
(* functions that nothing leads to.                                        *)
LEMMA EndPassKeeps ==
    ASSUME NEW Nodes, Grammatical(Nodes), DriverInv(Nodes), EndPass
    PROVE  DriverInv(Nodes)'
<1>1. phase = "passes" /\ done = DOMAIN funcs /\ NextPass /\ level' = level
  BY DEF EndPass, Pass
<1>2. level' \in {"toy", "affine", "llvm"}
  BY <1>1 DEF DriverInv, OutcomeInv
<1>3. at = 0
  <2>1. at \notin DOMAIN funcs
    BY <1>1 DEF DriverInv, PassInv
  <2> QED BY <2>1, AtFunction
<1>4. ~ inlining
  BY <1>3 DEF DriverInv, PassInv
<1>5. CASE UNCHANGED genVars
  <2>1. Generated' /\ FunctionsInv'
    BY <1>5, GenVarsKept
  <2>2. status' = status
    BY <1>5 DEF genVars, vars
  <2> QED BY <1>1, <1>2, <1>3, <1>4, <2>1, <2>2, NextPassKeeps
<1>6. CASE Pass({"inliner"})
  <2> DEFINE S == {n \in DOMAIN funcs : Live(n)}
             left == Ascending(S, Len(funcs))
  <2>1. /\ funcs' = [i \in DOMAIN left |-> funcs[left[i]]]
        /\ UNCHANGED <<prog, rec, symbolTable, todo, vals, diag, status>>
    BY <1>6 DEF EndPass
  <2>2. FunctionsOK(funcs) /\ Len(funcs) \in Nat
    BY SequenceFacts DEF DriverInv, FunctionsInv, FunctionsOK
  <2>3. FunctionsOK(funcs') /\ (NamesUnique(funcs) => NamesUnique(funcs'))
    <3> DEFINE T == S
               a == left
    <3>1. Ascends(Ascending(T, Len(funcs)), T, Len(funcs))
      <4> HIDE DEF T
      <4> QED BY <2>2, AscendingAscends
    <3>2. Ascends(a, T, Len(funcs))
      BY <3>1
    <3>3. funcs' = [i \in DOMAIN a |-> funcs[a[i]]]
      BY <2>1
    <3> HIDE DEF T, a
    <3> QED BY <2>2, <3>2, <3>3, FunctionsLeft
  <2>4. FunctionsInv'
    BY <2>1, <2>3 DEF DriverInv, FunctionsInv
  <2>5. Record' = Record
    BY <2>1 DEF Record
  <2>6. NullReported'
    BY <2>1, <2>5 DEF DriverInv, Generated, NullReported
  <2>7. Generated'
    BY <2>1, <2>6 DEF DriverInv, Generated
  <2> QED BY <1>1, <1>2, <1>3, <1>4, <2>1, <2>4, <2>7, NextPassKeeps
<1> QED BY <1>5, <1>6 DEF EndPass

(* The conversions of the module.                                          *)
LEMMA LoweringsKeep ==
    ASSUME NEW Nodes, Grammatical(Nodes), DriverInv(Nodes), LowerToAffine \/ LowerToLLVM
    PROVE  DriverInv(Nodes)'
<1>1. /\ phase = "passes" /\ passes # << >> /\ Head(passes) # "inliner"
      /\ UNCHANGED genVars
  BY DEF LowerToAffine, LowerToLLVM, Pass, PassFails
<1>2. ~ inlining
  BY <1>1 DEF DriverInv, PassInv
<1>3. CASE PassFails
  BY <1>1, <1>3, StopsKeep DEF PassFails
<1>4. CASE NextPass /\ level' \in {"toy", "affine", "llvm"}
  <2>1. Generated' /\ FunctionsInv' /\ Len(funcs') = Len(funcs)
    BY <1>1, GenVarsKept
  <2>2. status' = status
    BY <1>1 DEF genVars, vars
  <2> QED BY <1>1, <1>2, <1>4, <2>1, <2>2, NextPassKeeps
<1> QED BY <1>3, <1>4 DEF LowerToAffine, LowerToLLVM

(* A pass.                                                                 *)
LEMMA PassesKeep ==
    ASSUME NEW Nodes, Grammatical(Nodes), DriverInv(Nodes), RunPasses
    PROVE  DriverInv(Nodes)'
<1>1. CASE ReshapeAsserts
  <2>1. phase = "passes" /\ Stop
    BY <1>1 DEF ReshapeAsserts, Rewriting, Pass
  <2> QED BY <2>1, StopsKeep
<1>2. CASE DumpModule
  <2>1. phase = "passes" /\ UNCHANGED genVars /\ Exit(level, 0)
    BY <1>2 DEF DumpModule
  <2>2. level \in {"none", "toy", "affine", "llvm"}
    BY DEF DriverInv, OutcomeInv
  <2> QED BY <2>1, <2>2, StopsKeep
<1> QED BY <1>1, <1>2, EnterKeeps, RewriteKeeps, InlineCallKeeps, EndRewritingKeeps,
           InferShapesKeeps, EndPassKeeps, LoweringsKeep DEF RunPasses

(* Every step of the compiler keeps the invariant.                         *)
LEMMA DriverInvKept ==
    ASSUME NEW Nodes, Grammatical(Nodes), DriverInv(Nodes), [DriverNext]_allVars
    PROVE  DriverInv(Nodes)'
<1>1. CASE UNCHANGED allVars
  <2>1. UNCHANGED genVars /\ UNCHANGED driverVars
    BY <1>1 DEF allVars, genVars
  <2>2. /\ Generated' /\ FunctionsInv' /\ Len(funcs') = Len(funcs) /\ funcs' = funcs
        /\ status' = status
        /\ GenInv(Nodes) /\ ReportInv => GenInv(Nodes)' /\ ReportInv'
    BY <2>1, GenVarsKept DEF genVars, vars
  <2>3. PassInv'
    BY <2>1, <2>2 DEF DriverInv, PassInv, driverVars
  <2>4. GeneratorInv(Nodes)' /\ OutcomeInv'
    BY <2>1, <2>2 DEF DriverInv, GeneratorInv, OutcomeInv, driverVars
  <2> QED BY <2>2, <2>3, <2>4 DEF DriverInv
<1>2. CASE DriverNext
  BY <1>2, MainKeeps, GenerateKeeps, PassesKeep DEF DriverNext
<1> QED BY <1>1, <1>2

(* The invariant of the compiler.                                          *)
LEMMA DriverInvAlways ==
    ASSUME NEW Nodes, Grammatical(Nodes), Modules \subseteq Seq(Nodes)
    PROVE  DriverSpec => []DriverInv(Nodes)
<1>1. DriverInit => DriverInv(Nodes)
  BY DriverInitially
<1>2. DriverInv(Nodes) /\ [DriverNext]_allVars => DriverInv(Nodes)'
  BY DriverInvKept
<1> QED BY <1>1, <1>2, PTL DEF DriverSpec

(* Through generation, every pattern and fold, inlining and shape          *)
(* inference, in any function and in whatever order they come, an operand  *)
(* is a value of the same function that is defined before its use: no      *)
(* rewrite erases a value that is used or renames an operand wrongly.      *)
THEOREM OperandsStayDefined ==
    ASSUME NEW Nodes, Grammatical(Nodes), Modules \subseteq Seq(Nodes)
    PROVE  DriverSpec => []OperandsDefined
<1>1. DriverInv(Nodes) => OperandsDefined
  <2> SUFFICES ASSUME FunctionsOK(funcs) PROVE OperandsDefined
    BY DEF DriverInv, FunctionsInv
  <2> QED BY DefinedOperands
<1> QED BY <1>1, DriverInvAlways, PTL

(* The driver is at a function of the module or between two, whatever the  *)
(* passes make of the functions and however many the inliner leaves.       *)
THEOREM DriverTypeCorrect ==
    ASSUME NEW Nodes, Grammatical(Nodes), Modules \subseteq Seq(Nodes)
    PROVE  DriverSpec => []DriverTypeOK
<1>1. DriverInv(Nodes) => DriverTypeOK
  <2> SUFFICES ASSUME DriverInv(Nodes) PROVE DriverTypeOK
    OBVIOUS
  <2>1. FunctionsOK(funcs) /\ DOMAIN funcs = 1 .. Len(funcs)
    BY SequenceFacts DEF DriverInv, FunctionsInv, FunctionsOK
  <2>2. ASSUME NEW n \in DOMAIN funcs PROVE DOMAIN funcs[n].ops = DOMAIN funcs[n].types
    <3>1. IsFunction(funcs[n])
      BY <2>1 DEF FunctionsOK, FunctionOK
    <3> QED BY <3>1, SequenceFacts DEF IsFunction
  <2>3. TypeOK
    BY <2>2 DEF DriverInv, Generated, TypeOK
  <2> QED BY <2>3 DEF DriverInv, PassInv, OutcomeInv, DriverTypeOK
<1> QED BY <1>1, DriverInvAlways, PTL

(* Whatever the compiler is asked for, a module it rejects in MLIRGen is   *)
(* rejected with a message or for a name that is declared twice.           *)
THEOREM RejectionsStayReported ==
    ASSUME NEW Nodes, Grammatical(Nodes), Modules \subseteq Seq(Nodes)
    PROVE  DriverSpec => []NullReported
<1>1. DriverInv(Nodes) => NullReported
  BY DEF DriverInv, Generated
<1> QED BY <1>1, DriverInvAlways, PTL

-----------------------------------------------------------------------------
(* Rewrites shrink a function.                                             *)

(* Erasing an operation.                                                   *)
LEMMA ReplacedShrinks ==
    ASSUME NEW f, FunctionOK(f), NEW v \in DOMAIN f.ops, NEW w
    PROVE  Shrinks(Replaced(f, v, w), f)
<1> DEFINE g == Replaced(f, v, w)
           L == Len(f.ops)
           left == RemoveAt(f.ops, v)
<1>1. IsFunction(f) /\ IsSequence(f.ops) /\ L \in Nat /\ v \in 1 .. L
  BY SequenceFacts DEF FunctionOK, IsFunction
<1>2. g.ops = Renumbered(f, v, w)
  BY <1>1, ReplacedFields
<1>3. IsSequence(left) /\ Len(left) = L - 1
  BY <1>1, RemoveFacts, Zenon
<1> HIDE DEF g, left
<1>4. DOMAIN left = 1 .. L - 1 /\ L - 1 \in Nat
  BY <1>1, <1>3, SequenceFacts
<1>5. Renumbered(f, v, w) = [n \in 1 .. L - 1 |-> Renumbered(f, v, w)[n]]
  BY <1>4, Zenon DEF Renumbered, left
<1>6. Len(g.ops) = L - 1
  BY <1>2, <1>4, <1>5, FunctionFacts
<1>7. Len(g.ops) < L
  BY <1>1, <1>6
<1> QED BY <1>7 DEF Shrinks, g, L

(* An operation that is none becomes a constant, or a reshape of a value   *)
(* one of a value further up.                                              *)
LEMMA WithOpShrinks ==
    ASSUME NEW f, FunctionOK(f), NEW v \in DOMAIN f.ops, NEW op,
           LET constants == {"constant", "struct_constant"} IN
           \/ f.ops[v].kind \notin constants /\ op.kind \in constants
           \/ f.ops[v].kind = "reshape" /\ op.kind = "reshape" /\ op.args[1] < f.ops[v].args[1]
    PROVE  Shrinks(WithOp(f, v, op), f)
<1> DEFINE g == WithOp(f, v, op)
<1>1. IsFunction(f) /\ v \in 1 .. Len(f.ops) /\ DOMAIN f.ops = 1 .. Len(f.ops)
  BY SequenceFacts DEF FunctionOK, IsFunction
<1>2. /\ Len(g.ops) = Len(f.ops) /\ g.ops[v] = op
      /\ \A u \in DOMAIN f.ops \ {v} : g.ops[u] = f.ops[u]
  BY <1>1, WithOpFields
<1> HIDE DEF g
<1>3. Shrinks(g, f)
  BY <1>2 DEF Shrinks
<1> QED BY <1>3 DEF g

(* The reshape of a reshape becomes one of the value that one is of.       *)
LEMMA ReshapeShrinks ==
    ASSUME NEW f, FunctionOK(f), NEW g \in ReshapeReshape(f)
    PROVE  Shrinks(g, f)
<1> DEFINE k == "reshape"
<1>1. k \in Operating
  BY DEF Operating
<1>2. PICK v \in Pairs(f, k, k) : g = [f EXCEPT !.ops[v].args = f.ops[Input(f, v)].args]
  BY DEF ReshapeReshape
<1> HIDE DEF k
<1> DEFINE a == Input(f, v)
           args == f.ops[a].args
           op == [f.ops[v] EXCEPT !.args = args]
<1>3. /\ v \in DOMAIN f.ops /\ f.ops[v].kind = k /\ Usable(f, v, a) /\ a \in DOMAIN f.ops
      /\ f.ops[a].kind = k
  BY <1>1, <1>2, PairHas
<1>4. g = WithOp(f, v, op)
  BY <1>2, Zenon DEF WithOp
<1>5. f.ops[v].args[1] = a
  BY DEF Input
<1> HIDE DEF a
<1>6. IsOperation(f.ops[v])
  BY <1>3, FunctionHas
<1>7. Usable(f, a, args[1])
  BY <1>1, <1>3, FunctionHas DEF Input
<1>8. a \in 1 .. Len(f.ops) /\ Len(f.ops) \in Nat
  BY <1>3, FunctionHas
<1>9. args[1] < a
  BY <1>7, <1>8 DEF Usable
<1> HIDE DEF args
<1>10. op.kind = f.ops[v].kind /\ op.args = args
  BY <1>6 DEF IsOperation
<1> HIDE DEF op
<1>11. f.ops[v].kind = "reshape" /\ op.kind = "reshape" /\ op.args[1] < f.ops[v].args[1]
  BY <1>3, <1>5, <1>9, <1>10 DEF k
<1> QED BY <1>3, <1>4, <1>11, WithOpShrinks

(* Folds give constants.                                                   *)
LEMMA FoldsShrink ==
    ASSUME NEW f, FunctionOK(f), NEW g \in FoldConstantReshape(f) \cup FoldAccess(f)
    PROVE  Shrinks(g, f)
<1>1. PICK v, kind, attr :
          /\ v \in DOMAIN f.ops /\ f.ops[v].kind \in {"reshape", "struct_access"}
          /\ kind \in {"constant", "struct_constant"}
          /\ g = WithOp(f, v, NewOp(kind, << >>, attr))
  BY FoldsToConstant
<1>2. NewOp(kind, << >>, attr).kind = kind
  BY <1>1, ConstantOperation DEF Operating
<1> QED BY <1>1, <1>2, WithOpShrinks

(* Every rewrite the canonicalizer or CSE may apply.                       *)
LEMMA RewriteShrinks ==
    ASSUME NEW f, FunctionOK(f), NEW g \in Canonicalized(f) \cup Eliminated(f)
    PROVE  Shrinks(g, f)
<1>1. \/ g \in SimplifyRedundantTranspose(f) \/ g \in ReshapeReshape(f)
      \/ g \in FoldConstantReshape(f) \cup FoldAccess(f) \/ g \in EraseDead(f)
      \/ g \in RedundantReshape(f) \/ g \in FoldCast(f)
      \/ g \in MergeConstants(f) \/ g \in Merge(f, {v \in DOMAIN f.ops : Pure(f.ops[v])})
  BY DEF Canonicalized, Eliminated
<1>2. CASE \/ g \in ReshapeReshape(f) \/ g \in FoldConstantReshape(f) \cup FoldAccess(f)
  BY <1>2, ReshapeShrinks, FoldsShrink
<1>3. CASE g \in SimplifyRedundantTranspose(f)
  BY <1>3, ReplacedShrinks DEF SimplifyRedundantTranspose, Pairs, OfKind
<1>4. CASE g \in EraseDead(f) \/ g \in RedundantReshape(f) \/ g \in FoldCast(f)
  BY <1>4, ReplacedShrinks DEF EraseDead, RedundantReshape, FoldCast, OfKind
<1>5. ASSUME NEW values, g \in Merge(f, values), values \subseteq DOMAIN f.ops
      PROVE  Shrinks(g, f)
  <2>1. PICK v \in values : \E w \in Twins(f, v) : g = Replaced(f, w, v)
    BY <1>5 DEF Merge
  <2>2. PICK w \in Twins(f, v) : g = Replaced(f, w, v)
    BY <2>1
  <2>3. v \in 1 .. Len(f.ops) /\ Len(f.ops) \in Nat /\ DOMAIN f.ops = 1 .. Len(f.ops)
    BY <1>5, SequenceFacts DEF FunctionOK, IsFunction
  <2>4. w \in v + 1 .. Len(f.ops)
    BY DEF Twins
  <2>5. w \in DOMAIN f.ops
    BY <2>3, <2>4
  <2> QED BY <2>2, <2>5, ReplacedShrinks
<1>6. CASE g \in MergeConstants(f)
  <2>1. OfKind(f, {"constant", "struct_constant"}) \subseteq DOMAIN f.ops
    BY DEF OfKind
  <2> QED BY <1>5, <1>6, <2>1 DEF MergeConstants
<1>7. CASE g \in Merge(f, {v \in DOMAIN f.ops : Pure(f.ops[v])})
  <2> DEFINE values == {v \in DOMAIN f.ops : Pure(f.ops[v])}
  <2>1. values \subseteq DOMAIN f.ops
    OBVIOUS
  <2> HIDE DEF values
  <2>2. g \in Merge(f, values)
    BY <1>7 DEF values
  <2> QED BY <1>5, <2>1, <2>2
<1> QED BY <1>1, <1>2, <1>3, <1>4, <1>6, <1>7

(* Every rewrite that may be applied, in whatever order they come, in      *)
(* functions of any size, leads to a function that is smaller in an order  *)
(* without infinite descents: no pattern or fold undoes another.           *)
THEOREM RewritesAlwaysShrink ==
    ASSUME NEW Nodes, Grammatical(Nodes), Modules \subseteq Seq(Nodes)
    PROVE  DriverSpec => []RewritesShrink
<1>1. DriverInv(Nodes) => RewritesShrink
  <2> SUFFICES ASSUME DriverInv(Nodes), Rewriting, NEW g \in Rewrites(funcs[at])
               PROVE  Shrinks(g, funcs[at])
    BY DEF RewritesShrink
  <2>1. at # 0
    BY DEF Rewriting
  <2>2. FunctionOK(funcs[at])
    BY <2>1, AtFunction
  <2>3. g \in Canonicalized(funcs[at]) \cup Eliminated(funcs[at])
    BY DEF Rewrites
  <2> QED BY <2>2, <2>3, RewriteShrinks
<1> QED BY <1>1, DriverInvAlways, PTL

-----------------------------------------------------------------------------
(* Sound functions stay sound.                                             *)

(* What the passes rely on in each function.                               *)
Sealed(f) == FunctionSound(f) /\ Ended(f)

(* An operation that differs in its operands only is as sound.             *)
LEMMA SoundLike ==
    ASSUME NEW op, NEW t, NEW s, SoundOp(op, t, s),
           NEW new, new.kind = op.kind, new.attr = op.attr, Len(new.args) = Len(op.args),
           NEW r, op.kind = "struct_access" => r = s
    PROVE  SoundOp(new, t, r)
<1>1. ArityOK(new)
  BY DEF SoundOp, ArityOK
<1>2. op.kind = "struct_access" => ElementOf(new, r, t)
  BY DEF SoundOp, ElementOf
<1> QED BY <1>1, <1>2 DEF SoundOp

(* Erasing v leaves the accesses what they are, when no struct becomes     *)
(* another one.                                                            *)
LEMMA ReplacedSound ==
    ASSUME NEW f, FunctionOK(f), FunctionSound(f), NEW v \in 1 .. Len(f.ops),
           NEW w, StandsFor(f, w, v), IsStruct(f.types[v]) => f.types[w] = f.types[v],
           NEW g, g = Replaced(f, v, w)
    PROVE  FunctionSound(g)
<1>1. /\ Len(g.ops) = Len(f.ops) - 1
      /\ \A n \in 1 .. Len(f.ops) - 1 : Remains(g, f, v, w, n)
  BY ReplacedRemains
<1>2. ASSUME NEW n \in 1 .. Len(f.ops) - 1
      PROVE  SoundOp(g.ops[n], g.types[n], g.types[g.ops[n].args[1]])
  <2> DEFINE o == Old(v, n)
             a == f.ops[o].args[1]
             b == g.ops[n].args[1]
             new == g.ops[n]
             op == f.ops[o]
             r == g.types[b]
             s == f.types[a]
             t == f.types[o]
  <2>1. /\ o \in 1 .. Len(f.ops) /\ g.types[n] = t
        /\ new.kind = op.kind /\ new.attr = op.attr /\ Len(new.args) = Len(op.args)
    BY <1>1 DEF Remains
  <2>2. SoundOp(op, t, s)
    BY <2>1 DEF FunctionSound
  <2>3. op.kind = "struct_access" => r = s
    <3> SUFFICES ASSUME op.kind = "struct_access" PROVE r = s
      OBVIOUS
    <3>1. 1 \in 1 .. Len(op.args)
      <4> HIDE DEF o
      <4> QED BY SMTT(40), <2>1, AccessHasOperand
    <3> DEFINE i == 1
    <3>2. /\ i \in 1 .. Len(g.ops[n].args) /\ a = f.ops[Old(v, n)].args[i]
          /\ b = g.ops[n].args[i]
      BY <2>1, <3>1
    <3>3. IsStruct(s)
      BY <2>2, Zenon DEF SoundOp, ElementOf
    <3> HIDE DEF i, a, b, o
    <3>4. UsesFor(g, f, v, w, n, a, b)
      BY <3>2, RemainsUsable
    <3>5. g.types[b] = f.types[IF a = v THEN w ELSE a]
      BY <3>4 DEF UsesFor
    <3>6. CASE a = v
      BY <3>3, <3>5, <3>6
    <3>7. CASE a # v
      BY <3>5, <3>7
    <3> QED BY <3>6, <3>7
  <2> HIDE DEF new, op, r, s, t
  <2>4. SoundOp(new, t, r)
    BY <2>1, <2>2, <2>3, SoundLike
  <2> QED BY <2>1, <2>4 DEF new, r
<1> QED BY <1>1, <1>2 DEF FunctionSound

(* What is erased is not the return.                                       *)
LEMMA ReplacedEnds ==
    ASSUME NEW f, FunctionOK(f), Ended(f), NEW v \in 1 .. Len(f.ops), f.ops[v].kind # "return",
           NEW w, NEW g, g = Replaced(f, v, w)
    PROVE  Ended(g)
<1> DEFINE L == Len(f.ops)
<1>1. /\ Len(g.ops) = L - 1
      /\ \A n \in 1 .. L - 1 : Remains(g, f, v, w, n)
  BY ReplacedRemains
<1>2. L \in Nat /\ v \in 1 .. L /\ v # L
  BY SequenceFacts DEF FunctionOK, IsFunction, Ended
<1>3. ASSUME NEW n \in 1 .. L - 1 PROVE g.ops[n].kind = "return" <=> n = L - 1
  <2>1. Old(v, n) \in 1 .. L /\ g.ops[n].kind = f.ops[Old(v, n)].kind
    BY <1>1 DEF Remains
  <2>2. g.ops[n].kind = "return" <=> Old(v, n) = L
    BY <2>1 DEF Ended
  <2> HIDE DEF L
  <2>3. Old(v, n) = L <=> n = L - 1
    BY ONLY <1>2, n \in 1 .. L - 1 DEF Old
  <2> QED BY <2>2, <2>3
<1> HIDE DEF L
<1>4. L - 1 >= 1
  BY <1>2
<1> QED BY <1>1, <1>3, <1>4 DEF Ended

(* Both.                                                                   *)
LEMMA ReplacedSealed ==
    ASSUME NEW f, FunctionOK(f), Sealed(f), NEW v \in 1 .. Len(f.ops),
           f.ops[v].kind # "return", NEW w, StandsFor(f, w, v),
           IsStruct(f.types[v]) => f.types[w] = f.types[v], NEW g, g = Replaced(f, v, w)
    PROVE  Sealed(g)
<1>1. FunctionSound(g)
  BY ReplacedSound DEF Sealed
<1>2. Ended(g)
  BY ReplacedEnds DEF Sealed
<1> QED BY <1>1, <1>2 DEF Sealed

(* Another operation of the same type, that no more ends the function.     *)
LEMMA WithOpSealed ==
    ASSUME NEW f, FunctionOK(f), Sealed(f), NEW v \in 1 .. Len(f.ops),
           f.ops[v].kind # "return", NEW op, op.kind # "return",
           SoundOp(op, f.types[v], f.types[op.args[1]]), NEW g, g = WithOp(f, v, op)
    PROVE  Sealed(g)
<1>1. IsFunction(f)
  BY DEF FunctionOK
<1>2. /\ g.types = f.types /\ Len(g.ops) = Len(f.ops) /\ g.ops[v] = op
      /\ \A n \in 1 .. Len(f.ops) : n # v => g.ops[n] = f.ops[n]
  BY <1>1, WithOpFields
<1>3. ASSUME NEW n \in 1 .. Len(f.ops)
      PROVE  SoundOp(g.ops[n], g.types[n], g.types[g.ops[n].args[1]])
  <2>1. CASE n = v
    BY <1>2, <2>1
  <2>2. CASE n # v
    BY <1>2, <2>2 DEF Sealed, FunctionSound
  <2> QED BY <2>1, <2>2
<1>4. \A n \in 1 .. Len(f.ops) : g.ops[n].kind = "return" <=> f.ops[n].kind = "return"
  BY <1>2
<1>5. Ended(g)
  BY <1>2, <1>4 DEF Sealed, Ended
<1> QED BY <1>2, <1>3, <1>5 DEF Sealed, FunctionSound

-----------------------------------------------------------------------------
(* The rewrites.                                                           *)

(* What a sound function says of its operation v.                          *)
LEMMA SoundHas ==
    ASSUME NEW f, FunctionOK(f), FunctionSound(f), NEW v \in DOMAIN f.ops
    PROVE  /\ SoundOp(f.ops[v], f.types[v], f.types[Input(f, v)])
           /\ v \in 1 .. Len(f.ops)
           /\ f.ops[v].kind \notin StructKinds => ~ IsStruct(f.types[v])
<1>1. v \in 1 .. Len(f.ops)
  BY FunctionHas
<1>2. SoundOp(f.ops[v], f.types[v], f.types[Input(f, v)])
  BY <1>1 DEF FunctionSound, Input
<1>3. f.ops[v].kind \notin StructKinds => ~ IsStruct(f.types[v])
  BY <1>2 DEF SoundOp
<1> QED BY <1>1, <1>2, <1>3

(* transpose(transpose(x)) -> x                                            *)
LEMMA TransposesSealed ==
    ASSUME NEW f, FunctionOK(f), Sealed(f), NEW g \in SimplifyRedundantTranspose(f)
    PROVE  Sealed(g)
<1> DEFINE k == "transpose"
<1>1. k \in Operating /\ k # "return" /\ k \notin StructKinds
  BY DEF Operating, StructKinds
<1>2. PICK v \in Pairs(f, k, k) : g = Replaced(f, v, Input(f, Input(f, v)))
  BY DEF SimplifyRedundantTranspose
<1> HIDE DEF k
<1> DEFINE a == Input(f, v)
           w == Input(f, a)
<1>3. /\ v \in DOMAIN f.ops /\ f.ops[v].kind = k /\ Usable(f, v, a) /\ a \in DOMAIN f.ops
      /\ f.ops[a].kind = k
  BY <1>1, <1>2, PairHas
<1>4. g = Replaced(f, v, w)
  BY <1>2
<1> HIDE DEF a
<1>5. Usable(f, a, w)
  BY <1>1, <1>3, FunctionHas
<1> HIDE DEF w
<1>6. Usable(f, v, w)
  BY <1>3, <1>5, UsableDeeper
<1>7. StandsFor(f, w, v)
  BY <1>6, UsableStands
<1>8. v \in 1 .. Len(f.ops) /\ ~ IsStruct(f.types[v]) /\ f.ops[v].kind # "return"
  BY <1>1, <1>3, SoundHas DEF Sealed
<1> QED BY <1>4, <1>7, <1>8, ReplacedSealed

(* reshape(reshape(x)) -> reshape(x)                                       *)
LEMMA ReshapesSealed ==
    ASSUME NEW f, FunctionOK(f), Sealed(f), NEW g \in ReshapeReshape(f)
    PROVE  Sealed(g)
<1> DEFINE k == "reshape"
<1>1. k \in Operating /\ k # "return" /\ k # "struct_access"
  BY DEF Operating
<1>2. PICK v \in Pairs(f, k, k) : g = [f EXCEPT !.ops[v].args = f.ops[Input(f, v)].args]
  BY DEF ReshapeReshape
<1> DEFINE a == Input(f, v)
           args == f.ops[a].args
           op == [f.ops[v] EXCEPT !.args = args]
<1> HIDE DEF k
<1>3. /\ v \in DOMAIN f.ops /\ f.ops[v].kind = k /\ a \in DOMAIN f.ops /\ f.ops[a].kind = k
  BY <1>1, <1>2, PairHas
<1>4. g = WithOp(f, v, op)
  BY <1>2, Zenon DEF WithOp
<1> HIDE DEF a
<1>5. /\ v \in 1 .. Len(f.ops) /\ IsOperation(f.ops[v])
      /\ SoundOp(f.ops[v], f.types[v], f.types[Input(f, v)])
      /\ SoundOp(f.ops[a], f.types[a], f.types[Input(f, a)])
  BY <1>3, FunctionHas, SoundHas DEF Sealed
<1>6. Len(f.ops[v].args) = 1 /\ Len(args) = 1
  BY <1>3, <1>5 DEF SoundOp, ArityOK, k
<1> HIDE DEF args
<1>7. op.kind = k /\ op.attr = f.ops[v].attr /\ op.args = args
  BY <1>3, <1>5 DEF IsOperation
<1> DEFINE t == f.types[v]
           s == f.types[Input(f, v)]
           r == f.types[op.args[1]]
           old == f.ops[v]
<1>8. /\ SoundOp(old, t, s) /\ op.kind = old.kind /\ op.attr = old.attr
      /\ Len(op.args) = Len(old.args) /\ old.kind # "struct_access"
  BY <1>1, <1>3, <1>5, <1>6, <1>7
<1> HIDE DEF op, t, s, r, old
<1>9. SoundOp(op, t, r)
  BY <1>8, SoundLike
<1>10. op.kind # "return" /\ f.ops[v].kind # "return"
  BY <1>1, <1>3, <1>7
<1> QED BY <1>4, <1>5, <1>9, <1>10, WithOpSealed DEF t, r

(* An operation that gives its operand, which is of its type.              *)
LEMMA InputSealed ==
    ASSUME NEW f, FunctionOK(f), Sealed(f), NEW v \in DOMAIN f.ops,
           f.ops[v].kind \in {"reshape", "cast"}, f.types[v] = f.types[Input(f, v)],
           NEW g, g = Replaced(f, v, Input(f, v))
    PROVE  Sealed(g)
<1> DEFINE w == Input(f, v)
<1>1. f.ops[v].kind \in Operating /\ f.ops[v].kind # "return"
  BY DEF Operating
<1>2. v \in 1 .. Len(f.ops) /\ Usable(f, v, w)
  BY <1>1, FunctionHas
<1>3. g = Replaced(f, v, w) /\ f.types[w] = f.types[v]
  OBVIOUS
<1> HIDE DEF w
<1>4. StandsFor(f, w, v)
  BY <1>2, UsableStands
<1> QED BY <1>1, <1>2, <1>3, <1>4, ReplacedSealed

(* reshape(constant) -> constant                                           *)
LEMMA ConstantSealed ==
    ASSUME NEW f, FunctionOK(f), Sealed(f), NEW g \in FoldConstantReshape(f)
    PROVE  Sealed(g)
<1> DEFINE k == "reshape"
<1>1. PICK v \in Pairs(f, k, "constant") :
          g = [f EXCEPT !.ops[v] =
                  NewOp("constant", << >>, [ConstantInput(f, v) EXCEPT !.dims = f.types[v].shape])]
  BY DEF FoldConstantReshape
<1> DEFINE attr == [ConstantInput(f, v) EXCEPT !.dims = f.types[v].shape]
           op == NewOp("constant", << >>, attr)
<1>2. g = WithOp(f, v, op)
  BY <1>1, Zenon DEF WithOp
<1>3. v \in DOMAIN f.ops /\ f.ops[v].kind = k
  BY DEF Pairs, OfKind
<1>4. k \notin StructKinds /\ k # "return"
  BY DEF StructKinds
<1> HIDE DEF k, attr
<1>5. ~ IsStruct(f.types[v]) /\ v \in 1 .. Len(f.ops)
  BY <1>3, <1>4, SoundHas DEF Sealed
<1>6. op.kind = "constant" /\ Len(op.args) = 0
  BY DEF NewOp
<1> HIDE DEF op
<1>7. ASSUME NEW r PROVE SoundOp(op, f.types[v], r)
  BY <1>5, <1>6 DEF SoundOp, ArityOK, Kinds, InterfaceKinds
<1> DEFINE r == f.types[op.args[1]]
<1>8. SoundOp(op, f.types[v], r)
  BY <1>7
<1> QED BY <1>2, <1>3, <1>4, <1>5, <1>6, <1>8, WithOpSealed

(* The element of a struct constant that an access takes.                  *)
LEMMA ElementFits ==
    ASSUME NEW f, FunctionOK(f), FunctionSound(f), NEW v \in Pairs(f, "struct_access", "struct_constant")
    PROVE  /\ v \in DOMAIN f.ops /\ f.ops[v].kind = "struct_access"
           /\ AccessIndex(f, v) \in DOMAIN ConstantInput(f, v).c
           /\ Matches(Element(f, v), f.types[v])
<1> DEFINE k == "struct_access"
           c == "struct_constant"
           a == Input(f, v)
           i == AccessIndex(f, v)
           s == f.types[a]
           attr == f.ops[a].attr
<1>1. k \in Operating
  BY DEF Operating
<1> HIDE DEF k, c
<1>2. /\ v \in DOMAIN f.ops /\ f.ops[v].kind = k /\ a \in DOMAIN f.ops /\ f.ops[a].kind = c
  BY <1>1, PairHas DEF k, c
<1>3. SoundOp(f.ops[v], f.types[v], s)
  BY <1>2, SoundHas
<1> HIDE DEF a
<1>4. SoundOp(f.ops[a], s, f.types[Input(f, a)])
  BY SMTT(40), <1>2, SoundHas
<1>5. IsStruct(s) /\ i \in DOMAIN s.elements /\ f.types[v] = s.elements[i]
  BY <1>2, <1>3 DEF SoundOp, ElementOf, k, AccessIndex
<1>6. Matches(attr, s)
  BY <1>2, <1>4 DEF SoundOp, c
<1>7. ConstantInput(f, v) = attr /\ Element(f, v) = attr.c[i]
  BY DEF ConstantInput, Element, a
<1> HIDE DEF i, s, attr
<1>8. DOMAIN attr.c = DOMAIN s.elements /\ \A j \in DOMAIN attr.c : Matches(attr.c[j], s.elements[j])
  BY <1>5, <1>6, MatchesUnfold
<1> QED BY <1>2, <1>5, <1>7, <1>8 DEF k, i

(* The fold of an access.                                                  *)
LEMMA AccessSealed ==
    ASSUME NEW f, FunctionOK(f), Sealed(f), NEW g \in FoldAccess(f)
    PROVE  Sealed(g)
<1>1. PICK v \in Pairs(f, "struct_access", "struct_constant") :
          g = [f EXCEPT !.ops[v] = Materialized(Element(f, v), f.types[v])]
  BY DEF FoldAccess
<1> DEFINE e == Element(f, v)
           t == f.types[v]
           op == Materialized(e, t)
           r == f.types[op.args[1]]
<1>2. g = WithOp(f, v, op)
  BY <1>1, Zenon DEF WithOp
<1>3. v \in DOMAIN f.ops /\ f.ops[v].kind = "struct_access" /\ Matches(e, t)
  BY ElementFits DEF Sealed
<1>4. v \in 1 .. Len(f.ops)
  BY <1>3, FunctionHas
<1> HIDE DEF e, t
<1>5. /\ op.kind = (IF IsStruct(t) THEN "struct_constant" ELSE "constant")
      /\ Len(op.args) = 0 /\ op.attr = e
  BY DEF Materialized, NewOp
<1> HIDE DEF op, r
<1>6. SoundOp(op, t, r)
  <2>1. CASE IsStruct(t)
    BY <1>3, <1>5, <2>1 DEF SoundOp, ArityOK, Kinds, OtherKinds, StructKinds
  <2>2. CASE ~ IsStruct(t)
    BY <1>5, <2>2 DEF SoundOp, ArityOK, Kinds, InterfaceKinds
  <2> QED BY <2>1, <2>2
<1>7. op.kind # "return" /\ f.ops[v].kind # "return"
  BY <1>3, <1>5
<1> QED BY <1>2, <1>4, <1>6, <1>7, WithOpSealed DEF t, r

(* An operation that nothing uses.                                         *)
LEMMA DeadSealed ==
    ASSUME NEW f, FunctionOK(f), Sealed(f), NEW g \in EraseDead(f)
    PROVE  Sealed(g)
<1>1. PICK v \in DOMAIN f.ops : Pure(f.ops[v]) /\ Users(f, v) = {} /\ g = Replaced(f, v, v)
  BY DEF EraseDead
<1>2. v \in 1 .. Len(f.ops) /\ f.ops[v].kind # "return"
  BY <1>1, FunctionHas DEF Pure
<1>3. StandsFor(f, v, v)
  BY <1>1, DeadStands
<1> QED BY <1>1, <1>2, <1>3, ReplacedSealed

(* An operation that another one before it is equal to.                    *)
LEMMA MergeSealed ==
    ASSUME NEW f, FunctionOK(f), Sealed(f), NEW values, NEW g \in Merge(f, values),
           \A v \in values : v \in DOMAIN f.ops /\ Pure(f.ops[v])
    PROVE  Sealed(g)
<1>0. PICK v \in values : \E w \in Twins(f, v) : g = Replaced(f, w, v)
  BY DEF Merge
<1>1. PICK w \in Twins(f, v) : g = Replaced(f, w, v)
  BY <1>0
<1>2. /\ w \in 1 .. Len(f.ops) /\ f.ops[w] = f.ops[v] /\ f.types[w] = f.types[v]
      /\ StandsFor(f, v, w) /\ Pure(f.ops[v])
  BY <1>1, TwinStands
<1>3. f.ops[w].kind # "return"
  BY <1>2 DEF Pure
<1> QED BY <1>1, <1>2, <1>3, ReplacedSealed

(* Every rewrite.                                                          *)
LEMMA RewriteSealed ==
    ASSUME NEW f, FunctionOK(f), Sealed(f), NEW g \in Canonicalized(f) \cup Eliminated(f)
    PROVE  Sealed(g)
<1>1. \/ g \in SimplifyRedundantTranspose(f) \/ g \in ReshapeReshape(f)
      \/ g \in FoldConstantReshape(f) \/ g \in FoldAccess(f) \/ g \in EraseDead(f)
      \/ g \in RedundantReshape(f) \/ g \in FoldCast(f)
      \/ g \in MergeConstants(f) \/ g \in Merge(f, {v \in DOMAIN f.ops : Pure(f.ops[v])})
  BY DEF Canonicalized, Eliminated
<1>2. CASE g \in RedundantReshape(f)
  <2>1. PICK v \in DOMAIN f.ops :
            /\ f.ops[v].kind = "reshape" /\ f.types[v] = f.types[Input(f, v)]
            /\ g = Replaced(f, v, Input(f, v))
    BY <1>2 DEF RedundantReshape, OfKind
  <2> QED BY <2>1, InputSealed
<1>3. CASE g \in FoldCast(f)
  <2>1. PICK v \in DOMAIN f.ops :
            /\ f.ops[v].kind = "cast" /\ f.types[v] = f.types[Input(f, v)]
            /\ g = Replaced(f, v, Input(f, v))
    BY <1>3 DEF FoldCast, OfKind
  <2> QED BY <2>1, InputSealed
<1>4. CASE g \in MergeConstants(f)
  <2>1. \A v \in OfKind(f, {"constant", "struct_constant"}) :
            v \in DOMAIN f.ops /\ Pure(f.ops[v])
    BY DEF OfKind, Pure
  <2>2. g \in Merge(f, OfKind(f, {"constant", "struct_constant"}))
    BY <1>4 DEF MergeConstants
  <2> QED BY <2>1, <2>2, MergeSealed
<1>5. CASE g \in Merge(f, {v \in DOMAIN f.ops : Pure(f.ops[v])})
  <2> DEFINE values == {v \in DOMAIN f.ops : Pure(f.ops[v])}
  <2>1. \A v \in values : v \in DOMAIN f.ops /\ Pure(f.ops[v])
    OBVIOUS
  <2> HIDE DEF values
  <2>2. g \in Merge(f, values)
    BY <1>5 DEF values
  <2> QED BY <2>1, <2>2, MergeSealed
<1> QED BY <1>1, <1>2, <1>3, <1>4, <1>5, TransposesSealed, ReshapesSealed, ConstantSealed,
           AccessSealed, DeadSealed

-----------------------------------------------------------------------------
(* Shape inference.                                                        *)

(* The function has the types that its operations and the rule give.       *)
LEMMA InferredFields ==
    ASSUME NEW f, FunctionOK(f), NEW g, g = Inferred(f)
    PROVE  /\ g.ops = f.ops /\ g.result = f.result
           /\ \A v \in 1 .. Len(f.ops) :
                  \/ g.types[v] = f.types[v]
                  \/ HasInterface(f.ops[v]) /\ IsRanked(g.types[v])
<1>1. PICK ty : /\ Solves(ty, f, Len(f.ops))
                /\ g = [f EXCEPT !.types = [v \in 1 .. Len(f.ops) |-> ty[v]]]
  BY InferredTypes
<1> DEFINE types == [v \in 1 .. Len(f.ops) |-> ty[v]]
<1>2. ASSUME NEW v \in 1 .. Len(f.ops)
      PROVE  \/ types[v] = f.types[v]
             \/ HasInterface(f.ops[v]) /\ IsRanked(types[v])
  <2>1. v \in DOMAIN f.ops
    BY SequenceFacts DEF FunctionOK, IsFunction
  <2>2. types[v] = Rule(f, ty, v)
    BY <1>1 DEF Solves
  <2> HIDE DEF types
  <2> QED BY <2>1, <2>2, RuleRanks
<1>3. g = [f EXCEPT !.types = types]
  BY <1>1
<1> HIDE DEF types
<1>4. f = [name |-> f.name, private |-> f.private, ops |-> f.ops, types |-> f.types,
           result |-> f.result]
  BY DEF FunctionOK, IsFunction
<1>5. g.ops = f.ops /\ g.result = f.result /\ g.types = types
  BY <1>3, <1>4
<1> QED BY <1>2, <1>5

(* What the verifier of an access says of its operand.                     *)
LEMMA AccessVerified ==
    ASSUME NEW f, FunctionOK(f), Verifies(View(f)), NEW v \in 1 .. Len(f.ops),
           f.ops[v].kind = "struct_access", NEW a, a = f.ops[v].args[1], a \in 1 .. Len(f.ops)
    PROVE  IsStruct(f.types[a])
<1> DEFINE p == View(f)
<1>1. DOMAIN f.ops = 1 .. Len(f.ops) /\ DOMAIN f.types = 1 .. Len(f.ops)
  BY SequenceFacts DEF FunctionOK, IsFunction
<1>2. /\ DOMAIN p.ops = DOMAIN f.ops
      /\ p.types[a] = IF IsStruct(f.types[a]) THEN Struct ELSE f.types[a]
  BY <1>1 DEF View
<1>3. p.ops[v].kind = f.ops[v].kind /\ p.ops[v].args = f.ops[v].args
  BY <1>1, ViewHas
<1> HIDE DEF p
<1>4. OpVerifies(p.ops[v], p.types[v], p.types, p.result)
  BY <1>1, <1>2 DEF Verifies, Defs, p
<1>5. p.types[a] = Struct
  BY <1>3, <1>4 DEF OpVerifies
<1>6. IsStruct(Struct)
  BY DEF IsStruct, Struct
<1> QED BY <1>2, <1>5, <1>6

(* No struct gets another type, when the verifier accepts the function.    *)
LEMMA InferredSealed ==
    ASSUME NEW f, FunctionOK(f), Sealed(f), NEW g, g = Inferred(f), FunctionOK(g),
           Verifies(View(g))
    PROVE  Sealed(g)
<1>1. /\ g.ops = f.ops /\ g.result = f.result
      /\ \A v \in 1 .. Len(f.ops) :
             \/ g.types[v] = f.types[v]
             \/ HasInterface(f.ops[v]) /\ IsRanked(g.types[v])
  BY InferredFields
<1>2. \A v \in 1 .. Len(f.ops) : IsStruct(g.types[v]) => g.types[v] = f.types[v]
  BY <1>1 DEF IsRanked, IsStruct
<1>3. ASSUME NEW v \in 1 .. Len(g.ops)
      PROVE  SoundOp(g.ops[v], g.types[v], g.types[g.ops[v].args[1]])
  <2> DEFINE a == f.ops[v].args[1]
             op == f.ops[v]
  <2>1. /\ SoundOp(op, f.types[v], f.types[a]) /\ v \in 1 .. Len(f.ops)
        /\ g.ops[v] = op /\ g.ops[v].args[1] = a
    BY <1>1 DEF Sealed, FunctionSound
  <2>2. CASE op.kind \notin {"struct_access", "struct_constant"}
    BY <1>2, <2>1, <2>2 DEF SoundOp
  <2>3. CASE op.kind = "struct_constant"
    <3>1. ~ HasInterface(op)
      BY <2>3 DEF HasInterface, InterfaceKinds
    <3>2. g.types[v] = f.types[v]
      BY <1>1, <2>1, <3>1
    <3> QED BY <2>1, <2>3, <3>2 DEF SoundOp
  <2>4. CASE op.kind = "struct_access"
    <3>1. ~ HasInterface(op)
      BY <2>4 DEF HasInterface, InterfaceKinds
    <3>2. g.types[v] = f.types[v]
      BY <1>1, <2>1, <3>1
    <3>3. a \in 1 .. v - 1
      BY <2>1, <2>4, AccessHasOperand DEF Usable
    <3>4. a \in 1 .. Len(f.ops)
      <4>1. Len(f.ops) \in Nat
        BY SequenceFacts DEF FunctionOK, IsFunction
      <4> HIDE DEF a
      <4> QED BY <2>1, <3>3, <4>1
    <3>5. /\ v \in 1 .. Len(g.ops) /\ g.ops[v].kind = "struct_access"
          /\ a = g.ops[v].args[1] /\ a \in 1 .. Len(g.ops)
      BY <1>1, <2>1, <2>4, <3>4
    <3>6. IsStruct(g.types[a])
      <4> HIDE DEF a, op
      <4> QED BY <3>5, AccessVerified
    <3>7. g.types[a] = f.types[a]
      BY <1>2, <3>4, <3>6
    <3> QED BY <2>1, <3>2, <3>7
  <2> QED BY <2>2, <2>3, <2>4
<1>4. Ended(g)
  BY <1>1 DEF Sealed, Ended
<1> QED BY <1>3, <1>4 DEF Sealed, FunctionSound

-----------------------------------------------------------------------------
(* Inlining.                                                               *)

SoundAt(h, p) == SoundOp(h.ops[p], h.types[p], h.types[h.ops[p].args[1]])

(* An operation before the call.                                           *)
LEMMA BeforeSound ==
    ASSUME NEW f, NEW v, NEW g, CallOf(f, v, g), FunctionSound(f), NEW n, NEW C, NEW B,
           NEW h, Layout(h, f, v, g, n, C, B), NEW p \in 1 .. v - 1
    PROVE  SoundAt(h, p)
<1> DEFINE op == f.ops[p]
           a == op.args[1]
           t == f.types[p]
           s == f.types[a]
           r == h.types[a]
<1>1. v \in 1 .. Len(f.ops) /\ Len(f.ops) \in Nat
  BY CallHas DEF CallOf
<1>2. p \in 1 .. Len(f.ops)
  BY <1>1
<1>3. h.ops[p] = op /\ h.types[p] = t
  BY DEF Layout
<1>4. SoundOp(op, t, s)
  BY <1>2 DEF FunctionSound
<1>5. op.kind = "struct_access" => r = s
  <2> SUFFICES ASSUME op.kind = "struct_access" PROVE r = s
    OBVIOUS
  <2>1. FunctionOK(f)
    BY DEF CallOf
  <2>2. Usable(f, p, a)
    BY <1>2, <2>1, AccessHasOperand
  <2> HIDE DEF a
  <2>3. a \in 1 .. v - 1
    <3>1. a \in 1 .. p - 1
      BY <2>2 DEF Usable
    <3> QED BY <1>1, <3>1
  <2> QED BY <2>3 DEF Layout
<1>6. SoundAt(h, p) <=> SoundOp(op, t, r)
  BY <1>3 DEF SoundAt
<1> HIDE DEF op, t, s, r
<1>7. SoundOp(op, t, r)
  BY <1>4, <1>5, SoundSame
<1> QED BY <1>6, <1>7

(* A cast of an operand of the call.                                       *)
LEMMA CastSound ==
    ASSUME NEW f, NEW v, NEW g, CallOf(f, v, g), NEW n, n = Arity(f, v),
           NEW C, C = Len(Converted(f, v, g)), NEW B,
           NEW h, Layout(h, f, v, g, n, C, B), NEW c \in 1 .. C, NEW p, p = v - 1 + c
    PROVE  SoundAt(h, p) /\ h.ops[p].kind = "cast"
<1> DEFINE x == f.ops[v].args[Converted(f, v, g)[c]]
           op == NewOp("cast", <<x>>, Null)
<1>1. DOMAIN Converted(f, v, g) = 1 .. C
  BY ConvertedFacts
<1>2. h.ops[p] = Casts(f, v, g)[c]
  BY DEF Layout
<1>3. Casts(f, v, g)[c] = op
  BY <1>1, Zenon DEF Casts
<1>4. op.kind = "cast" /\ Len(op.args) = 1
  BY DEF NewOp
<1> HIDE DEF op
<1>5. ASSUME NEW t, NEW s PROVE SoundOp(op, t, s)
  BY <1>4 DEF SoundOp, ArityOK, Kinds, InterfaceKinds, StructKinds
<1> QED BY <1>2, <1>3, <1>4, <1>5 DEF SoundAt

(* An operation of the body.                                               *)
LEMMA CopiedSound ==
    ASSUME NEW f, NEW v, NEW g, CallOf(f, v, g), FunctionSound(g), NEW n, n = Arity(f, v),
           NEW C, C = Len(Converted(f, v, g)), NEW B, B = Len(g.ops) - 1 - n,
           NEW h, Layout(h, f, v, g, n, C, B), NEW m \in 1 .. B, NEW p, p = v - 1 + C + m
    PROVE  SoundAt(h, p) /\ h.ops[p].kind = g.ops[n + m].kind
<1> DEFINE x == n + m
           op == Copied(f, v, g)[m]
           old == g.ops[x]
           a == old.args[1]
           b == op.args[1]
           t == g.types[x]
           s == g.types[a]
           r == h.types[b]
<1>0. CallOf(f, v, g) /\ n = Arity(f, v) /\ m \in 1 .. Len(g.ops) - 1 - n
  OBVIOUS
<1>1. CopyOf(f, v, g, x, op)
  BY ONLY <1>0, CopiedFacts
<1>2. n \in Nat /\ Len(g.ops) \in Nat /\ FunctionOK(g)
  BY CallHas DEF CallOf
<1>3. x \in n + 1 .. Len(g.ops) /\ x \in 1 .. Len(g.ops) /\ x - n = m
  BY <1>1, <1>2, SMTT(40) DEF CopyOf
<1>4. h.ops[p] = op /\ h.types[p] = t
  BY DEF Layout
<1>5. SoundAt(h, p) <=> SoundOp(op, t, r)
  BY <1>4 DEF SoundAt
<1>6. SoundOp(old, t, s)
  BY <1>3 DEF FunctionSound
<1> HIDE DEF op, x
<1>7. /\ op.kind = old.kind /\ op.attr = old.attr /\ Len(op.args) = Len(old.args)
      /\ \A i \in 1 .. Len(old.args) : op.args[i] = Inner(f, v, g, old.args[i])
  BY <1>1, Zenon DEF CopyOf
<1>8. old.kind = "struct_access" => r = s
  <2> SUFFICES ASSUME old.kind = "struct_access" PROVE r = s
    OBVIOUS
  <2>1. 1 \in 1 .. Len(old.args) /\ Usable(g, x, a)
    BY <1>2, <1>3, AccessHasOperand
  <2>2. b = Inner(f, v, g, a)
    BY <1>7, <2>1
  <2> HIDE DEF old, a, b
  <2>3. h.types[Inner(f, v, g, a)] = g.types[a]
    BY <1>3, <2>1, InnerUsable
  <2> QED BY <2>2, <2>3
<1>9. h.ops[p].kind = old.kind
  BY <1>4, <1>7
<1> HIDE DEF old, r, s, t
<1>10. SoundOp(op, t, r)
  BY <1>6, <1>7, <1>8, SoundLike
<1> QED BY <1>5, <1>9, <1>10 DEF old, x

(* An operation behind the call.  What takes an element does not take it   *)
(* from the result of a call, which is no struct.                          *)
LEMMA MovedSound ==
    ASSUME NEW f, NEW v, NEW g, CallOf(f, v, g), FunctionSound(f), NEW n, n = Arity(f, v),
           NEW C, C = Len(Converted(f, v, g)), NEW B, B = Len(g.ops) - 1 - n,
           NEW h, Layout(h, f, v, g, n, C, B),
           NEW m \in 1 .. Len(f.ops) - v, NEW p, p = v - 1 + C + B + m
    PROVE  SoundAt(h, p) /\ h.ops[p].kind = f.ops[v + m].kind
<1> DEFINE x == v + m
           op == Moved(f, v, g)[m]
           old == f.ops[x]
           a == old.args[1]
           b == op.args[1]
           t == f.types[x]
           s == f.types[a]
           r == h.types[b]
<1>1. /\ x \in 1 .. Len(f.ops)
      /\ op.kind = old.kind /\ op.attr = old.attr /\ Len(op.args) = Len(old.args)
      /\ \A i \in 1 .. Len(old.args) : op.args[i] = Outer(f, v, g, old.args[i])
  BY MovedFacts
<1>2. FunctionOK(f) /\ v \in 1 .. Len(f.ops) /\ f.ops[v].kind = "generic_call"
  BY DEF CallOf
<1>3. h.ops[p] = op /\ h.types[p] = t
  BY DEF Layout
<1>4. SoundAt(h, p) <=> SoundOp(op, t, r)
  BY <1>3 DEF SoundAt
<1>5. SoundOp(old, t, s)
  BY <1>1 DEF FunctionSound
<1> HIDE DEF op
<1>6. ~ IsStruct(f.types[v])
  BY <1>2 DEF FunctionSound, SoundOp, StructKinds
<1>7. old.kind = "struct_access" => r = s
  <2> SUFFICES ASSUME old.kind = "struct_access" PROVE r = s
    OBVIOUS
  <2>1. 1 \in 1 .. Len(old.args) /\ Usable(f, x, a)
    <3> HIDE DEF x
    <3> QED BY <1>1, <1>2, AccessHasOperand
  <2>2. b = Outer(f, v, g, a)
    BY <1>1, <2>1
  <2>3. IsStruct(s)
    BY <1>5, Zenon DEF SoundOp, ElementOf
  <2>4. a # v
    BY <1>6, <2>3
  <2> HIDE DEF old, a, b
  <2>5. h.types[Outer(f, v, g, a)] = f.types[a]
    BY <2>1, <2>4, OuterUsable
  <2> QED BY <2>2, <2>5
<1>8. h.ops[p].kind = old.kind
  BY <1>1, <1>3
<1> HIDE DEF old, r, s, t
<1>9. SoundOp(op, t, r)
  BY <1>1, <1>5, <1>7, SoundLike
<1> QED BY <1>4, <1>8, <1>9 DEF old, x

(* All of them; what ended the caller still does.                          *)
LEMMA InlinedSealed ==
    ASSUME NEW f, NEW v, NEW g, CallOf(f, v, g), Sealed(f), Sealed(g),
           NEW h, h = Inlined(f, v, g)
    PROVE  Sealed(h)
<1> DEFINE n == Arity(f, v)
           C == Len(Converted(f, v, g))
           B == Len(g.ops) - 1 - n
           L == Len(f.ops)
           D == L - v
           Q == Len(g.ops)
<1>1. n = Arity(f, v) /\ C = Len(Converted(f, v, g)) /\ B = Len(g.ops) - 1 - n
  OBVIOUS
<1>2. v \in 1 .. L /\ L \in Nat /\ f.ops[v].kind = "generic_call"
  BY CallHas DEF CallOf
<1>3. n \in Nat /\ Q \in Nat /\ B = Q - 1 - n
  BY CallHas
<1> HIDE DEF n, C, B
<1>4. C \in Nat /\ B \in Nat
  BY <1>1, InlinedParts
<1>5. Layout(h, f, v, g, n, C, B)
  BY <1>1, InlinedLayout
<1>6. Len(h.ops) = v - 1 + C + B + D
  BY <1>5 DEF Layout
<1>7. FunctionSound(f) /\ FunctionSound(g) /\ v # L
  BY <1>2 DEF Sealed, Ended
<1>8. \A p \in 1 .. L : f.ops[p].kind = "return" <=> p = L
  BY DEF Sealed, Ended
<1>9. \A p \in 1 .. Q : g.ops[p].kind = "return" <=> p = Q
  BY DEF Sealed, Ended
<1> HIDE DEF L, Q
<1> DEFINE Z == v - 1 + C + B + D
           Fine(p) == SoundAt(h, p) /\ (h.ops[p].kind = "return" <=> p = Z)
<1>10. ASSUME NEW p \in 1 .. v - 1 PROVE Fine(p)
  <2>1. SoundAt(h, p)
    BY <1>5, <1>7, <1>10, BeforeSound
  <2>2. h.ops[p] = f.ops[p]
    BY <1>5 DEF Layout
  <2>3. p \in 1 .. L /\ p # L /\ p # Z
    BY <1>2, <1>4, <1>7, <1>10
  <2> HIDE DEF Z
  <2> QED BY <1>8, <2>1, <2>2, <2>3
<1>11. ASSUME NEW c \in 1 .. C, NEW p, p = v - 1 + c PROVE Fine(p)
  <2>1. SoundAt(h, p) /\ h.ops[p].kind = "cast"
    BY <1>1, <1>5, <1>11, CastSound
  <2>2. p # Z
    BY <1>2, <1>4, <1>7, <1>11
  <2> HIDE DEF Z
  <2> QED BY <2>1, <2>2
<1>12. ASSUME NEW m \in 1 .. B, NEW p, p = v - 1 + C + m PROVE Fine(p)
  <2>1. SoundAt(h, p) /\ h.ops[p].kind = g.ops[n + m].kind
    BY <1>1, <1>5, <1>7, <1>12, CopiedSound
  <2> DEFINE x == n + m
  <2>2. x \in 1 .. Q /\ x # Q
    BY <1>3, <1>12
  <2>3. p # Z
    BY <1>2, <1>4, <1>7, <1>12
  <2> HIDE DEF Z, x
  <2>4. g.ops[x].kind # "return"
    BY <1>9, <2>2
  <2> QED BY <2>1, <2>3, <2>4 DEF x
<1>13. ASSUME NEW m \in 1 .. D, NEW p, p = v - 1 + C + B + m PROVE Fine(p)
  <2>1. SoundAt(h, p) /\ h.ops[p].kind = f.ops[v + m].kind
    BY <1>1, <1>5, <1>7, <1>13, MovedSound DEF L
  <2> DEFINE x == v + m
  <2>2. x \in 1 .. L /\ (x = L <=> p = Z)
    BY <1>2, <1>4, <1>13
  <2> HIDE DEF Z, x
  <2>3. f.ops[x].kind = "return" <=> x = L
    BY <1>8, <2>2
  <2> QED BY <2>1, <2>2, <2>3 DEF x
<1>14. ASSUME NEW p \in 1 .. Len(h.ops) PROVE Fine(p)
  <2>1. \/ p \in 1 .. v - 1
        \/ \E c \in 1 .. C : p = v - 1 + c
        \/ \E m \in 1 .. B : p = v - 1 + C + m
        \/ \E m \in 1 .. D : p = v - 1 + C + B + m
    BY <1>1, <1>5, <1>14, LayoutCovers DEF L
  <2> HIDE DEF Fine, D
  <2> QED BY <1>10, <1>11, <1>12, <1>13, <2>1, Zenon
<1>15. Len(h.ops) = Z /\ Z >= 1
  BY <1>2, <1>4, <1>6, <1>7
<1> HIDE DEF Z
<1>16. FunctionSound(h)
  BY <1>14 DEF FunctionSound, SoundAt
<1>17. Ended(h)
  BY <1>14, <1>15 DEF Ended
<1> QED BY <1>16, <1>17 DEF Sealed

-----------------------------------------------------------------------------
(* The functions of the module.                                            *)

(* What the generator has built, and what it hands over.                   *)
GeneratedSound ==
    /\ LiteralInv /\ EndInv /\ MadeAll(funcs)
    /\ status = "module" => ModuleVerifies

AllSound(fs) == \A n \in 1 .. Len(fs) : FunctionSound(fs[n])

SoundInv ==
    /\ phase \in {"start", "mlirGen"} => GeneratedSound
    /\ AllSound(funcs)
    /\ phase = "passes" => AllEnded(funcs)

(* Nothing is built initially.                                             *)
LEMMA SoundInitially ==
    ASSUME DriverInit
    PROVE  SoundInv
<1>1. /\ funcs = << >> /\ todo = << >> /\ attrs = << >> /\ status = "run" /\ phase = "start"
  BY DEF DriverInit, Init
<1>2. Len(<< >>) = 0
  BY EmptyIsSequence
<1>3. \A n \in 1 .. 0 : FALSE
  OBVIOUS
<1>4. LiteralInv
  BY <1>1, <1>2, <1>3, \A i \in 1 .. 0 - 1 : FALSE DEF LiteralInv, AttrsMatch, Chain, StructNext
<1>5. EndInv
  BY <1>1, <1>2, <1>3 DEF EndInv, AllEnded
<1>6. MadeAll(funcs) /\ AllSound(funcs)
  BY <1>1, <1>2, <1>3 DEF MadeAll, AllSound
<1> QED BY <1>1, <1>4, <1>5, <1>6 DEF SoundInv, GeneratedSound

(* What is made is sound.                                                  *)
LEMMA MadeIsSound ==
    ASSUME MadeAll(funcs)
    PROVE  AllSound(funcs)
BY DEF MadeAll, Made, AllSound

(* A step of the generator.                                                *)
LEMMA GenerateSound ==
    ASSUME NEW Nodes, Grammatical(Nodes), GenInv(Nodes), GeneratedSound, [Next]_vars
    PROVE  GeneratedSound'
<1>1. PICK T : GenOK(T, Nodes)
  BY DEF GenInv
<1>2. LiteralInv' /\ EndInv'
  BY <1>1, LiteralInvKept, EndInvKept DEF GeneratedSound
<1>3. MadeAll(funcs')
  BY <1>1, MadeKept DEF GeneratedSound
<1>4. status' = "module" => ModuleVerifies'
  <2>1. CASE UNCHANGED vars
    BY <2>1 DEF vars, GeneratedSound, ModuleVerifies, SymbolsUnique
  <2> QED BY <2>1, HandsOver
<1> QED BY <1>2, <1>3, <1>4 DEF GeneratedSound

(* main() before and behind the generator, and its steps.                  *)
LEMMA MainSound ==
    ASSUME NEW Nodes, Grammatical(Nodes), DriverInv(Nodes), SoundInv,
           \/ Usage \/ FileNotOpened \/ ParserFailed \/ DumpAST \/ CallMLIRGen
           \/ Generate \/ NullModule \/ BuildPipeline
    PROVE  SoundInv'
<1>1. [Next]_vars /\ phase \in {"start", "mlirGen"}
  BY DEF Usage, FileNotOpened, ParserFailed, DumpAST, CallMLIRGen, Generate, NullModule,
         BuildPipeline, Stop, genVars
<1>2. GenInv(Nodes) /\ GeneratedSound
  BY <1>1 DEF DriverInv, GeneratorInv, SoundInv
<1>3. GeneratedSound'
  BY <1>1, <1>2, GenerateSound
<1>4. AllSound(funcs)'
  <2>1. (MadeAll(funcs) => AllSound(funcs))'
    BY MadeIsSound, PTL
  <2> QED BY <1>3, <2>1 DEF GeneratedSound
<1>5. ASSUME phase' = "passes" PROVE AllEnded(funcs')
  <2>1. BuildPipeline
    BY <1>1, <1>5 DEF Usage, FileNotOpened, ParserFailed, DumpAST, CallMLIRGen, Generate,
                      driverVars, NullModule, Stop, Exit
  <2>2. status = "module" /\ funcs' = funcs
    BY <2>1 DEF BuildPipeline, genVars, vars
  <2> QED BY <1>2, <2>2 DEF GeneratedSound, EndInv
<1> QED BY <1>3, <1>4, <1>5 DEF SoundInv

(* A pass, or the end of one, that leaves the functions.                   *)
LEMMA SameSound ==
    ASSUME SoundInv, phase = "passes", funcs' = funcs,
           phase' \in {"passes", "exit", "crash"}
    PROVE  SoundInv'
BY DEF SoundInv

(* The function a pass is at.                                              *)
LEMMA AtSealed ==
    ASSUME NEW Nodes, DriverInv(Nodes), SoundInv, phase = "passes", NEW k \in 1 .. Len(funcs)
    PROVE  Sealed(funcs[k]) /\ FunctionOK(funcs[k])
BY DEF SoundInv, AllSound, AllEnded, Sealed, DriverInv, FunctionsInv, FunctionsOK

(* A pass that gives the function it is at other operations or types.      *)
LEMMA SetFunctionSound ==
    ASSUME NEW Nodes, DriverInv(Nodes), SoundInv, phase = "passes", phase' = phase,
           at # 0, NEW g, Sealed(g), SetFunction(g)
    PROVE  SoundInv'
<1>1. /\ at \in 1 .. Len(funcs) /\ Len(funcs) \in Nat /\ DOMAIN funcs = 1 .. Len(funcs)
  BY AtFunction
<1> DEFINE fs == funcs'
           L == Len(funcs)
<1>2. fs = [funcs EXCEPT ![at] = g]
  BY DEF SetFunction
<1> HIDE DEF fs
<1>3. /\ fs = [n \in 1 .. L |-> fs[n]] /\ fs[at] = g
      /\ \A n \in 1 .. L : n # at => fs[n] = funcs[n]
  BY <1>1, <1>2
<1>4. Len(fs) = L
  BY <1>1, <1>3, FunctionFacts
<1>5. \A n \in 1 .. L : Sealed(funcs[n])
  BY AtSealed
<1>6. \A n \in 1 .. Len(fs) : Sealed(fs[n])
  BY <1>3, <1>4, <1>5
<1>7. AllSound(fs) /\ AllEnded(fs)
  BY <1>6 DEF AllSound, AllEnded, Sealed
<1> QED BY <1>7 DEF SoundInv, fs

(* A pattern or a fold.                                                    *)
LEMMA RewriteSound ==
    ASSUME NEW Nodes, DriverInv(Nodes), SoundInv, Rewrite
    PROVE  SoundInv'
<1>1. phase = "passes" /\ at # 0 /\ phase' = phase
  BY DEF Rewrite, Rewriting, Pass, driverVars
<1>2. PICK g : g \in Rewrites(funcs[at]) /\ SetFunction(g)
  BY DEF Rewrite
<1>3. FunctionOK(funcs[at]) /\ Sealed(funcs[at])
  BY <1>1, AtFunction, AtSealed
<1>4. g \in Canonicalized(funcs[at]) \cup Eliminated(funcs[at])
  BY <1>2 DEF Rewrites
<1>5. Sealed(g)
  BY <1>3, <1>4, RewriteSealed
<1> QED BY <1>1, <1>2, <1>5, SetFunctionSound

(* A call.                                                                 *)
LEMMA InlineCallSound ==
    ASSUME NEW Nodes, DriverInv(Nodes), SoundInv, InlineCall
    PROVE  SoundInv'
<1>1. phase = "passes" /\ at # 0 /\ phase' = phase
  BY DEF InlineCall, Pass
<1>2. PICK v, k : /\ k \in 1 .. Len(funcs) /\ CallOf(funcs[at], v, funcs[k])
                  /\ SetFunction(Inlined(funcs[at], v, funcs[k]))
  BY CallInlined
<1>3. Sealed(funcs[at]) /\ Sealed(funcs[k])
  BY <1>1, <1>2, AtFunction, AtSealed
<1> DEFINE h == Inlined(funcs[at], v, funcs[k])
<1>4. SetFunction(h) /\ h = Inlined(funcs[at], v, funcs[k])
  BY <1>2
<1> HIDE DEF h
<1>5. Sealed(h)
  BY <1>2, <1>3, <1>4, InlinedSealed
<1> QED BY SMTT(40), <1>1, <1>4, <1>5, SetFunctionSound

(* The types of a function are inferred.                                   *)
LEMMA InferShapesSound ==
    ASSUME NEW Nodes, DriverInv(Nodes), SoundInv, InferShapesOf
    PROVE  SoundInv'
<1> DEFINE g == Inferred(funcs[at])
<1>1. phase = "passes" /\ at # 0
  BY DEF InferShapesOf, Pass
<1>2. CASE PassFails
  BY <1>1, <1>2, SameSound DEF PassFails, Exit, genVars, vars
<1>3. CASE Verifies(View(g)) /\ SetFunction(g) /\ Leave
  <2>1. FunctionOK(funcs[at]) /\ Sealed(funcs[at])
    BY <1>1, AtFunction, AtSealed
  <2>2. FunctionOK(g)
    BY <2>1, InferredOK DEF Rewritten
  <2>3. g = Inferred(funcs[at]) /\ phase' = phase
    BY <1>3 DEF Leave
  <2> HIDE DEF g
  <2>4. Sealed(g)
    BY <1>3, <2>1, <2>2, <2>3, InferredSealed
  <2> QED BY <1>1, <1>3, <2>3, <2>4, SetFunctionSound
<1> QED BY <1>2, <1>3, Zenon DEF InferShapesOf

(* The inliner leaves out functions.                                       *)
LEMMA EndPassSound ==
    ASSUME NEW Nodes, DriverInv(Nodes), SoundInv, EndPass
    PROVE  SoundInv'
<1>1. phase = "passes" /\ phase' = phase
  BY DEF EndPass, Pass, NextPass
<1>2. CASE UNCHANGED genVars
  BY <1>1, <1>2, SameSound DEF genVars, vars
<1>3. CASE Pass({"inliner"})
  <2> DEFINE S == {n \in DOMAIN funcs : Live(n)}
             left == Ascending(S, Len(funcs))
             fs == funcs'
  <2>1. fs = [i \in DOMAIN left |-> funcs[left[i]]]
    BY <1>3 DEF EndPass
  <2>2. Len(funcs) \in Nat
    BY SequenceFacts DEF DriverInv, FunctionsInv, FunctionsOK
  <2> HIDE DEF S, fs
  <2>3. Ascends(left, S, Len(funcs))
    BY <2>2, AscendingAscends
  <2> HIDE DEF left
  <2>4. /\ Len(left) \in Nat /\ DOMAIN left = 1 .. Len(left)
        /\ \A i \in 1 .. Len(left) : left[i] \in 1 .. Len(funcs)
    BY <2>3, SequenceFacts DEF Ascends
  <2>5. fs = [i \in 1 .. Len(left) |-> fs[i]]
    BY <2>1, <2>4
  <2>6. Len(fs) = Len(left)
    BY <2>4, <2>5, FunctionFacts
  <2>7. \A n \in 1 .. Len(funcs) : Sealed(funcs[n])
    BY <1>1, AtSealed
  <2>8. \A i \in 1 .. Len(fs) : Sealed(fs[i])
    BY <2>1, <2>4, <2>6, <2>7
  <2>9. AllSound(fs) /\ AllEnded(fs)
    BY <2>8 DEF AllSound, AllEnded, Sealed
  <2> QED BY <1>1, <2>9 DEF SoundInv, fs
<1> QED BY <1>2, <1>3 DEF EndPass

(* Every pass.                                                             *)
LEMMA PassesSound ==
    ASSUME NEW Nodes, DriverInv(Nodes), SoundInv, RunPasses
    PROVE  SoundInv'
<1>1. CASE \/ \E n \in DOMAIN funcs : Enter(n)
           \/ ReshapeAsserts \/ EndRewriting \/ LowerToAffine \/ LowerToLLVM \/ DumpModule
  <2>1. /\ phase = "passes" /\ phase' \in {"passes", "exit", "crash"} /\ UNCHANGED genVars
    BY <1>1 DEF Enter, ReshapeAsserts, EndRewriting, Rewriting, LowerToAffine, LowerToLLVM,
                DumpModule, Pass, PassFails, Exit, Stop, Leave, NextPass
  <2> QED BY <2>1, SameSound DEF genVars, vars
<1> QED BY <1>1, RewriteSound, InlineCallSound, InferShapesSound, EndPassSound DEF RunPasses

(* The invariant of what the compiler is at.                               *)
LEMMA SoundInvKept ==
    ASSUME NEW Nodes, Grammatical(Nodes), DriverInv(Nodes), SoundInv, [DriverNext]_allVars
    PROVE  SoundInv'
<1>1. CASE UNCHANGED allVars
  <2>1. UNCHANGED vars /\ phase' = phase /\ funcs' = funcs
    BY <1>1 DEF allVars, vars, driverVars
  <2>2. phase \in {"start", "mlirGen"} => GeneratedSound'
    BY <2>1, GenerateSound DEF SoundInv, DriverInv, GeneratorInv
  <2> QED BY <2>1, <2>2 DEF SoundInv
<1>2. CASE DriverNext
  BY <1>2, MainSound, PassesSound DEF DriverNext
<1> QED BY <1>1, <1>2

(* It holds in every state.                                                *)
LEMMA SoundAlways ==
    ASSUME NEW Nodes, Grammatical(Nodes), Modules \subseteq Seq(Nodes)
    PROVE  DriverSpec => [](DriverInv(Nodes) /\ SoundInv)
<1>1. DriverInit => DriverInv(Nodes) /\ SoundInv
  BY DriverInitially, SoundInitially
<1>2. DriverInv(Nodes) /\ SoundInv /\ [DriverNext]_allVars => (DriverInv(Nodes) /\ SoundInv)'
  BY DriverInvKept, SoundInvKept
<1> QED BY <1>1, <1>2, PTL DEF DriverSpec

-----------------------------------------------------------------------------
(* What it gives.                                                          *)

(* src/src/toy/ToyCombine.cpp:41 and materializeConstant: whatever was     *)
(* generated from modules of any size, and in whatever order the calls     *)
(* were inlined and the operations rewritten, an element is taken from a   *)
(* struct constant that has it, and the attribute it is has elements of    *)
(* its own exactly when its type is a struct.                              *)
THEOREM AccessesAlwaysInRange ==
    ASSUME NEW Nodes, Grammatical(Nodes), Modules \subseteq Seq(Nodes)
    PROVE  DriverSpec => []AccessesInRange
<1>1. DriverInv(Nodes) /\ SoundInv => AccessesInRange
  <2> SUFFICES ASSUME DriverInv(Nodes), SoundInv, NEW n \in DOMAIN funcs,
                      NEW v \in Pairs(funcs[n], "struct_access", "struct_constant")
               PROVE  /\ AccessIndex(funcs[n], v) \in DOMAIN ConstantInput(funcs[n], v).c
                      /\ Element(funcs[n], v).k = "array" <=> IsStruct(funcs[n].types[v])
    BY DEF AccessesInRange
  <2> DEFINE f == funcs[n]
             k == "array"
  <2>1. FunctionOK(f) /\ FunctionSound(f)
    BY SequenceFacts DEF SoundInv, AllSound, DriverInv, FunctionsInv, FunctionsOK
  <2>2. v \in Pairs(f, "struct_access", "struct_constant")
    OBVIOUS
  <2> HIDE DEF f
  <2>3. /\ AccessIndex(f, v) \in DOMAIN ConstantInput(f, v).c
        /\ Matches(Element(f, v), f.types[v])
    BY <2>1, <2>2, ElementFits
  <2> DEFINE e == Element(f, v)
             t == f.types[v]
  <2>4. Matches(e, t)
    BY <2>3
  <2> HIDE DEF e, t
  <2>5. e.k = k <=> IsStruct(t)
    BY <2>4, MatchesUnfold
  <2> QED BY <2>3, <2>5 DEF e, t, f
<1> QED BY <1>1, SoundAlways, PTL

(* How the passes and the verifiers look at an operation.                  *)
Seen(new, op) ==
    /\ new.kind = op.kind /\ new.args = op.args
    /\ new = [kind |-> new.kind, args |-> new.args, value |-> new.value]
    /\ new.value = IF op.kind = "constant" THEN op.attr.dims ELSE << >>

(* How they look at a function.                                            *)
LEMMA ViewFacts ==
    ASSUME NEW f, FunctionOK(f), NEW p, p = View(f)
    PROVE  /\ Len(f.ops) \in Nat /\ p.result = f.result
           /\ IsSequence(p.ops) /\ Len(p.ops) = Len(f.ops) /\ Defs(p) = 1 .. Len(f.ops)
           /\ DOMAIN p.types = 1 .. Len(f.ops)
           /\ p.types = [v \in 1 .. Len(f.ops) |-> p.types[v]]
           /\ \A v \in 1 .. Len(f.ops) :
                  p.types[v] = IF IsStruct(f.types[v]) THEN Struct ELSE f.types[v]
           /\ \A v \in 1 .. Len(f.ops) : Seen(p.ops[v], f.ops[v])
<1> DEFINE L == Len(f.ops)
<1>1. L \in Nat /\ DOMAIN f.ops = 1 .. L /\ DOMAIN f.types = 1 .. L
  BY SequenceFacts DEF FunctionOK, IsFunction
<1>2. /\ p.result = f.result /\ DOMAIN p.ops = 1 .. L
      /\ p.types = [v \in 1 .. L |-> IF IsStruct(f.types[v]) THEN Struct ELSE f.types[v]]
      /\ \A v \in 1 .. L :
             p.ops[v] = [kind |-> f.ops[v].kind, args |-> f.ops[v].args,
                         value |-> IF f.ops[v].kind = "constant" THEN f.ops[v].attr.dims
                                   ELSE << >>]
  BY <1>1 DEF View
<1>3. p.ops = [v \in 1 .. L |-> p.ops[v]]
  BY <1>1 DEF View
<1>4. IsSequence(p.ops) /\ Len(p.ops) = L
  <2> DEFINE s == p.ops
  <2>1. s = [v \in 1 .. L |-> s[v]]
    BY <1>3
  <2> HIDE DEF s, L
  <2>2. IsSequence(s) /\ Len(s) = L
    BY <1>1, <2>1, FunctionFacts
  <2> QED BY <2>2 DEF s
<1>5. DOMAIN p.types = 1 .. L /\ p.types = [v \in 1 .. L |-> p.types[v]]
  BY <1>2
<1>6. ASSUME NEW v \in 1 .. L PROVE Seen(p.ops[v], f.ops[v])
  <2>1. p.ops[v] = [kind |-> f.ops[v].kind, args |-> f.ops[v].args,
                    value |-> IF f.ops[v].kind = "constant" THEN f.ops[v].attr.dims ELSE << >>]
    BY <1>2
  <2> DEFINE new == p.ops[v]
             kind == f.ops[v].kind
             args == f.ops[v].args
             value == IF f.ops[v].kind = "constant" THEN f.ops[v].attr.dims ELSE << >>
  <2>2. new = [kind |-> kind, args |-> args, value |-> value]
    BY <2>1
  <2> HIDE DEF new, kind, args, value
  <2>3. new.kind = kind /\ new.args = args /\ new.value = value
    BY <2>2
  <2> QED BY <2>2, <2>3 DEF Seen, new, kind, args, value
<1> QED BY <1>1, <1>2, <1>4, <1>5, <1>6 DEF Defs

(* A sound function that ends in its return has what the patterns and the  *)
(* inliner take from it.                                                   *)
LEMMA SealedComplete ==
    ASSUME NEW f, FunctionOK(f), FunctionSound(f), Ended(f), NEW p, p = View(f)
    PROVE  EndsInReturn(p) /\ \A v \in Defs(p) : ArityOK(p.ops[v])
<1> DEFINE L == Len(f.ops)
<1>0. /\ L \in Nat /\ Len(p.ops) = L /\ Defs(p) = 1 .. L
      /\ \A v \in 1 .. L : Seen(p.ops[v], f.ops[v])
  BY ViewFacts
<1>1. /\ L \in Nat /\ Len(p.ops) = L /\ Defs(p) = 1 .. L
      /\ \A v \in 1 .. L : p.ops[v].kind = f.ops[v].kind /\ p.ops[v].args = f.ops[v].args
  BY <1>0 DEF Seen
<1>2. L \in 1 .. L /\ \A v \in 1 .. L : f.ops[v].kind = "return" <=> v = L
  BY <1>1 DEF Ended
<1>3. \A v \in 1 .. L : ArityOK(f.ops[v])
  BY DEF FunctionSound, SoundOp
<1> HIDE DEF L
<1>4. EndsInReturn(p)
  BY <1>1, <1>2 DEF EndsInReturn
<1>5. \A v \in 1 .. L : ArityOK(p.ops[v])
  BY <1>1, <1>3 DEF ArityOK
<1> QED BY <1>1, <1>4, <1>5

(* A function as the generator makes it, which the verifiers accept, is    *)
(* what a pipeline may be given.                                           *)
LEMMA MadeWellFormed ==
    ASSUME NEW f, FunctionOK(f), Made(f), NEW p, p = View(f), Verifies(p)
    PROVE  WellFormed(p)
<1> DEFINE L == Len(f.ops)
<1>1. /\ L \in Nat /\ p.result = f.result /\ IsSequence(p.ops) /\ Len(p.ops) = L
      /\ Defs(p) = 1 .. L /\ p.types = [v \in 1 .. L |-> p.types[v]]
      /\ \A v \in 1 .. L :
             p.types[v] = IF IsStruct(f.types[v]) THEN Struct ELSE f.types[v]
      /\ \A v \in 1 .. L : Seen(p.ops[v], f.ops[v])
  BY ViewFacts
<1>2. p.result \in Seq(Type)
  BY <1>1 DEF Made, Plain
<1>3. ASSUME NEW v \in 1 .. L PROVE p.types[v] \in Type
  <2>1. IsStruct(f.types[v]) \/ f.types[v] \in Type
    BY DEF Made, Plain, PlainOp
  <2> QED BY <1>1, <2>1 DEF Type
<1>4. ASSUME NEW v \in 1 .. L
      PROVE  /\ IsSequence(f.ops[v].args)
             /\ \A i \in 1 .. Len(f.ops[v].args) : Usable(f, v, f.ops[v].args[i])
  BY DEF FunctionOK, IsOperation
<1>5. ASSUME NEW v \in 1 .. L PROVE p.ops[v] \in Op
  <2> DEFINE args == f.ops[v].args
  <2>1. f.ops[v].kind \in Kinds
    BY DEF Made, FunctionSound, SoundOp
  <2>2. ASSUME NEW i \in 1 .. Len(args) PROVE args[i] \in Nat
    BY <1>4 DEF Usable
  <2>3. IsSequence(args)
    BY <1>4
  <2> HIDE DEF args
  <2>4. args \in Seq(Nat)
    BY <2>2, <2>3, SequenceOver
  <2>5. f.ops[v].kind = "constant" => f.ops[v].attr.dims \in Seq(Nat)
    BY DEF Made, Plain, PlainOp
  <2>6. << >> \in Seq(Nat)
    OBVIOUS
  <2> DEFINE new == p.ops[v]
             op == f.ops[v]
  <2>7. Seen(new, op) /\ op.kind \in Kinds /\ op.args \in Seq(Nat)
    BY <1>1, <2>1, <2>4 DEF args
  <2>8. op.kind = "constant" => op.attr.dims \in Seq(Nat)
    BY <2>5
  <2> HIDE DEF new, op
  <2>9. new.value \in Seq(Nat)
    BY <2>6, <2>7, <2>8 DEF Seen
  <2>10. new \in Op
    BY <2>7, <2>9 DEF Seen, Op, Shape
  <2> QED BY <2>10 DEF new
<1>6. p.ops \in Seq(Op)
  BY <1>1, <1>5, SequenceOver
<1>7. p.types \in [Defs(p) -> Type]
  BY <1>1, <1>3
<1>8. ASSUME NEW v \in 1 .. L, NEW a \in Args(p, v)
      PROVE  a \in 1 .. v - 1 /\ p.types[a] # NoResult
  <2>1. v \in DOMAIN f.ops
    BY SequenceFacts DEF FunctionOK, IsFunction
  <2>2. PICK i \in 1 .. Len(f.ops[v].args) : a = f.ops[v].args[i]
    BY <2>1, ViewHas
  <2>3. Usable(f, v, a)
    BY <1>4, <2>2
  <2>4. a \in 1 .. v - 1 /\ f.types[a] # NoResult
    BY <2>3 DEF Usable
  <2>5. a \in 1 .. L
    BY <1>1, <2>4
  <2>6. Struct # NoResult
    BY DEF Struct, NoResult
  <2> QED BY <1>1, <2>4, <2>5, <2>6
<1>9. ASSUME NEW v \in 1 .. L PROVE ArityOK(p.ops[v])
  <2>1. ArityOK(f.ops[v])
    BY DEF Made, FunctionSound, SoundOp
  <2>2. p.ops[v].kind = f.ops[v].kind /\ p.ops[v].args = f.ops[v].args
    BY <1>1 DEF Seen
  <2> QED BY <2>1, <2>2 DEF ArityOK
<1>10. ASSUME NEW v \in 1 .. L PROVE OpVerifies(p.ops[v], p.types[v], p.types, p.result)
  BY <1>1 DEF Verifies
<1> HIDE DEF L
<1> QED BY <1>1, <1>2, <1>6, <1>7, <1>8, <1>9, <1>10 DEF WellFormed

(* src/src/MLIRGen.cpp and src/src/toy/Dialect.cpp: what mlirGen hands     *)
(* over is a module of well-formed functions, each of which ends in its    *)
(* only return; and in whatever order the passes then inline, rewrite and  *)
(* infer, no operation loses an operand and no function its return.        *)
THEOREM FunctionsAlwaysComplete ==
    ASSUME NEW Nodes, Grammatical(Nodes), Modules \subseteq Seq(Nodes)
    PROVE  DriverSpec => []FunctionsComplete
<1>1. DriverInv(Nodes) /\ SoundInv => FunctionsComplete
  <2> SUFFICES ASSUME DriverInv(Nodes), SoundInv PROVE FunctionsComplete
    OBVIOUS
  <2>1. /\ \A n \in DOMAIN funcs : n \in 1 .. Len(funcs)
        /\ \A n \in 1 .. Len(funcs) : FunctionOK(funcs[n])
    BY SequenceFacts DEF DriverInv, FunctionsInv, FunctionsOK
  <2>2. \A n \in 1 .. Len(funcs) : FunctionSound(funcs[n])
    BY DEF SoundInv, AllSound
  <2>3. ASSUME NEW n \in DOMAIN funcs, NEW p, p = View(funcs[n]), Ended(funcs[n])
        PROVE  EndsInReturn(p) /\ \A v \in Defs(p) : ArityOK(p.ops[v])
    BY <2>1, <2>2, <2>3, SealedComplete
  <2>4. ASSUME phase = "mlirGen", status = "module",
               NEW n \in DOMAIN funcs, NEW p, p = View(funcs[n])
        PROVE  WellFormed(p) /\ EndsInReturn(p)
    <3>1. Made(funcs[n]) /\ Ended(funcs[n]) /\ Verifies(p)
      BY <2>1, <2>4 DEF SoundInv, GeneratedSound, MadeAll, EndInv, AllEnded, ModuleVerifies
    <3>2. WellFormed(p)
      BY <2>1, <2>4, <3>1, MadeWellFormed
    <3> QED BY <2>3, <2>4, <3>1, <3>2
  <2>5. ASSUME phase = "passes", NEW n \in DOMAIN funcs PROVE Ended(funcs[n])
    BY <2>1, <2>5 DEF SoundInv, AllEnded
  <2>6. phase = "mlirGen" => HandedOver
    BY <2>4 DEF HandedOver
  <2> QED BY <2>3, <2>5, <2>6 DEF FunctionsComplete
<1> QED BY <1>1, SoundAlways, PTL
=============================================================================
