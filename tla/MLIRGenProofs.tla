---------------------------- MODULE MLIRGenProofs ----------------------------
(***************************************************************************)
(* Proofs about MLIRGen: in the functions it builds, from any modules the  *)
(* parser can make, an operand is always a value that is defined before    *)
(* its use, and a rejection always comes with a message, except that of a  *)
(* name declared twice.                                                    *)
(*                                                                         *)
(* The recursion of the source is a stack of work here, so the invariant   *)
(* has to say what the call stack of the program keeps by itself: that     *)
(* when an operation is to be built its operands have been generated.      *)
(* Heights says it, for the values and for the attributes of a literal.    *)
(*                                                                         *)
(* The second half is about types: each operation has the operands of its  *)
(* class and an attribute of its type (SoundOp), and a function ends in    *)
(* its only return (Ended).                                                *)
(***************************************************************************)
EXTENDS MLIRGen, SequenceLemmas, FiniteSetTheorems

-----------------------------------------------------------------------------
(* Functions.                                                              *)

IsFunction(f) ==
    /\ f = [name |-> f.name, private |-> f.private, ops |-> f.ops, types |-> f.types,
            result |-> f.result]
    /\ IsSequence(f.ops) /\ IsSequence(f.types) /\ Len(f.types) = Len(f.ops)

(* The kinds of the operations whose first operand is asked for.           *)
Operating == {"add", "mul", "transpose", "cast", "reshape", "struct_access", "print"}

IsOperation(op) ==
    /\ op = [kind |-> op.kind, args |-> op.args, attr |-> op.attr]
    /\ IsSequence(op.args)
    /\ op.kind \in Operating => op.args # << >>
    /\ op.kind = "arg" => op.args = << >>

(* v is a value that f has, and a is one that operation v may use.         *)
IsValue(f, v) == v \in 1 .. Len(f.ops) /\ f.types[v] # NoResult

Usable(f, v, a) == a \in 1 .. v - 1 /\ f.types[a] # NoResult

(* The parameters are the first n values, and values at all.               *)
ParametersFirst(f, n) ==
    \A v \in 1 .. Len(f.ops) :
        /\ f.ops[v].kind = "arg" <=> v <= n
        /\ v <= n => f.types[v] # NoResult

FunctionOK(f) ==
    /\ IsFunction(f)
    /\ \A v \in 1 .. Len(f.ops) :
           /\ IsOperation(f.ops[v])
           /\ \A i \in 1 .. Len(f.ops[v].args) : Usable(f, v, f.ops[v].args[i])
    /\ \E n \in 0 .. Len(f.ops) : ParametersFirst(f, n)
    /\ f.result # << >> =>
           /\ Len(f.ops) # 0
           /\ f.ops[Len(f.ops)].kind = "return" /\ f.ops[Len(f.ops)].args # << >>

(* The record of a function with other operations and types.               *)
LEMMA FunctionChanged ==
    ASSUME NEW f, NEW ops, NEW types,
           f = [name |-> f.name, private |-> f.private, ops |-> f.ops, types |-> f.types,
                result |-> f.result]
    PROVE  [f EXCEPT !.ops = ops, !.types = types] =
           [name |-> f.name, private |-> f.private, ops |-> ops, types |-> types,
            result |-> f.result]
<1> DEFINE h == [f EXCEPT !.ops = ops]
           g == [f EXCEPT !.ops = ops, !.types = types]
<1>1. h = [name |-> f.name, private |-> f.private, ops |-> ops, types |-> f.types,
           result |-> f.result]
  OBVIOUS
<1>2. g = [h EXCEPT !.types = types]
  BY Zenon
<1> HIDE DEF h
<1>3. [h EXCEPT !.types = types] =
      [name |-> f.name, private |-> f.private, ops |-> ops, types |-> types,
       result |-> f.result]
  BY <1>1
<1> QED BY <1>2, <1>3, Zenon

(* f with one more operation.                                              *)
Grown(f, op, type) == [f EXCEPT !.ops = Append(f.ops, op), !.types = Append(f.types, type)]

(* An operation at the end of a function uses values of the function, and  *)
(* is a value if it has a result.                                          *)
LEMMA GrownOK ==
    ASSUME NEW f, FunctionOK(f), f.result = << >>, NEW op, NEW type, IsOperation(op),
           op.kind # "arg",
           \A i \in 1 .. Len(op.args) : IsValue(f, op.args[i])
    PROVE  LET g == Grown(f, op, type)
           IN  /\ FunctionOK(g) /\ g.result = << >>
               /\ Len(g.ops) = Len(f.ops) + 1 /\ Len(g.types) = Len(f.types) + 1
               /\ \A v \in 1 .. Len(f.ops) : g.types[v] = f.types[v] /\ g.ops[v] = f.ops[v]
               /\ g.types[Len(f.ops) + 1] = type /\ g.ops[Len(f.ops) + 1] = op
               /\ \A v : IsValue(f, v) => IsValue(g, v)
<1> DEFINE g == Grown(f, op, type)
           L == Len(f.ops)
<1>1. /\ IsFunction(f) /\ L \in Nat /\ Len(f.types) = L
      /\ IsSequence(f.ops) /\ IsSequence(f.types)
  BY SequenceFacts DEF FunctionOK, IsFunction
<1>2. /\ g = [name |-> f.name, private |-> f.private, ops |-> Append(f.ops, op),
              types |-> Append(f.types, type), result |-> f.result]
  <2>1. f = [name |-> f.name, private |-> f.private, ops |-> f.ops, types |-> f.types,
             result |-> f.result]
    BY <1>1 DEF IsFunction
  <2> QED BY <2>1, FunctionChanged DEF Grown
<1>3. /\ g.ops = Append(f.ops, op) /\ g.types = Append(f.types, type) /\ g.result = << >>
      /\ IsFunction(g)
  BY <1>1, <1>2, AppendFacts DEF IsFunction
<1> HIDE DEF g
<1>4. /\ Len(g.ops) = L + 1 /\ Len(g.types) = L + 1
      /\ \A v \in 1 .. L : g.types[v] = f.types[v] /\ g.ops[v] = f.ops[v]
      /\ g.types[L + 1] = type /\ g.ops[L + 1] = op
  BY <1>1, <1>3, AppendFacts
<1> HIDE DEF L
<1>5. \A v : IsValue(f, v) => IsValue(g, v)
  BY <1>1, <1>4 DEF IsValue, L
<1>6. \A v \in 1 .. L + 1 :
          /\ IsOperation(g.ops[v])
          /\ \A i \in 1 .. Len(g.ops[v].args) : Usable(g, v, g.ops[v].args[i])
  <2> TAKE v \in 1 .. L + 1
  <2>1. CASE v \in 1 .. L
    <3>1. /\ IsOperation(f.ops[v])
          /\ \A i \in 1 .. Len(f.ops[v].args) : Usable(f, v, f.ops[v].args[i])
      BY <2>1 DEF FunctionOK, L
    <3>2. \A a : Usable(f, v, a) => Usable(g, v, a)
      BY <1>1, <1>4, <2>1 DEF Usable
    <3> QED BY <1>4, <2>1, <3>1, <3>2
  <2>2. CASE v = L + 1
    <3>1. \A a : IsValue(f, a) => Usable(g, v, a)
      BY <1>1, <1>4, <2>2 DEF Usable, IsValue, L
    <3> QED BY <1>4, <2>2, <3>1
  <2> QED BY <1>1, <2>1, <2>2
<1>7. \E n \in 0 .. Len(g.ops) : ParametersFirst(g, n)
  <2>1. PICK n \in 0 .. L : ParametersFirst(f, n)
    BY DEF FunctionOK, L
  <2>2. ASSUME NEW v \in 1 .. L + 1
        PROVE  /\ g.ops[v].kind = "arg" <=> v <= n
               /\ v <= n => g.types[v] # NoResult
    <3>1. CASE v \in 1 .. L
      BY <1>4, <2>1, <3>1 DEF ParametersFirst, L
    <3>2. CASE v = L + 1
      BY <1>1, <1>4, <2>1, <3>2
    <3> QED BY <1>1, <3>1, <3>2
  <2>3. ParametersFirst(g, n)
    BY <1>4, <2>2 DEF ParametersFirst
  <2> QED BY <1>1, <1>4, <2>3
<1>8. FunctionOK(g)
  BY <1>3, <1>4, <1>6, <1>7 DEF FunctionOK
<1> QED BY <1>3, <1>4, <1>5, <1>8 DEF g, L

(* The functions with another last one.                                    *)
FunctionsOK(fs) == IsSequence(fs) /\ \A n \in 1 .. Len(fs) : FunctionOK(fs[n])

WithLast(fs, g) == [fs EXCEPT ![Len(fs)] = g]

(* Another last function leaves the others as they are.                    *)
LEMMA LastChanged ==
    ASSUME NEW fs, FunctionsOK(fs), fs # << >>, NEW g, FunctionOK(g),
           NEW gs, gs = WithLast(fs, g)
    PROVE  FunctionsOK(gs) /\ Len(gs) = Len(fs) /\ gs # << >> /\ gs[Len(gs)] = g
<1> DEFINE L == Len(fs)
<1>1. L \in Nat /\ L # 0 /\ DOMAIN fs = 1 .. L
  BY SequenceFacts DEF FunctionsOK
<1>2. /\ gs = [n \in 1 .. L |-> gs[n]]
      /\ gs[L] = g /\ \A n \in 1 .. L : n # L => gs[n] = fs[n]
  <2>1. L \in DOMAIN fs
    BY <1>1
  <2>2. DOMAIN gs = 1 .. L /\ gs[L] = g /\ \A n \in DOMAIN fs : n # L => gs[n] = fs[n]
    BY <1>1, <2>1, Zenon DEF WithLast
  <2> DEFINE es == [fs EXCEPT ![L] = g]
  <2>4. DOMAIN es = 1 .. L
    BY <1>1, Zenon
  <2>5. es = [n \in 1 .. L |-> es[n]]
    BY <2>4, Zenon
  <2>3. gs = [n \in 1 .. L |-> gs[n]]
    BY <2>5, Zenon DEF WithLast
  <2> QED BY <1>1, <2>2, <2>3
<1> HIDE DEF L
<1>3. IsSequence(gs) /\ Len(gs) = L
  BY <1>1, <1>2, FunctionFacts
<1>4. gs # << >>
  BY <1>1, <1>3, EmptyIsSequence
<1>5. \A n \in 1 .. L : FunctionOK(gs[n])
  BY <1>2 DEF FunctionsOK, L
<1> QED BY <1>2, <1>3, <1>4, <1>5 DEF FunctionsOK, L

(* Built changes the last function.                                        *)
WithBuilt(fs, op, type) ==
    [fs EXCEPT ![Len(fs)].ops = Append(@, op), ![Len(fs)].types = Append(@, type)]

(* That is the same as growing it and putting it back.                     *)
LEMMA BuiltIsGrown ==
    ASSUME NEW fs, fs # << >>, IsSequence(fs), NEW op, NEW type,
           IsFunction(fs[Len(fs)])
    PROVE  WithBuilt(fs, op, type) = WithLast(fs, Grown(fs[Len(fs)], op, type))
<1> DEFINE L == Len(fs)
           f == fs[L]
           gs == [fs EXCEPT ![L].ops = Append(@, op), ![L].types = Append(@, type)]
           hs == [fs EXCEPT ![L] = Grown(f, op, type)]
<1>1. L \in DOMAIN fs
  BY SequenceFacts
<1>2. /\ f.ops = fs[L].ops /\ [f EXCEPT !.ops = Append(@, op)].types = f.types
  BY DEF IsFunction
<1> HIDE DEF L
<1>3. /\ DOMAIN gs = DOMAIN fs /\ DOMAIN hs = DOMAIN fs
      /\ \A n \in DOMAIN fs : n # L => gs[n] = fs[n] /\ hs[n] = fs[n]
      /\ hs[L] = Grown(f, op, type)
  BY <1>1, Zenon
<1>4. gs[L] = [f EXCEPT !.ops = Append(f.ops, op),
                        !.types = Append([f EXCEPT !.ops = Append(@, op)].types, type)]
  BY <1>1, Zenon
<1>5. gs[L] = hs[L]
  BY <1>2, <1>3, <1>4, Zenon DEF Grown
<1>6. gs = [n \in DOMAIN fs |-> gs[n]] /\ hs = [n \in DOMAIN fs |-> hs[n]]
  BY <1>3, Zenon
<1> HIDE DEF gs, hs
<1>7. gs = hs
  BY <1>3, <1>5, <1>6
<1> QED BY <1>7, Zenon DEF gs, hs, f, L, WithBuilt, WithLast

-----------------------------------------------------------------------------
(* The stack of work.  An item adds so many values, or attributes, to      *)
(* those that are there, and needs so many of them when its turn comes.    *)

LiteralKinds == {"tensor", "num", "struct_literal"}

Gain(w, item) ==
    IF w = "vals"
    THEN IF item.do \in {"expr", "struct"} THEN 1
         ELSE IF item.do # "build" THEN 0
         ELSE IF item.node.k = "call" THEN 1 - Len(item.node.c)
         ELSE IF item.node.name = "." THEN 0 ELSE -1
    ELSE IF item.do = "array" THEN 1 - Cardinality(Kept(item.node.c))
         ELSE IF item.node.k \in LiteralKinds THEN 1 ELSE 0

Need(w, item) ==
    IF w = "vals"
    THEN IF item.do \in {"print", "declare"} THEN 1
         ELSE IF item.do = "return" THEN Len(item.node.c)
         ELSE IF item.do # "build" THEN 0
         ELSE IF item.node.k = "call" THEN Len(item.node.c)
         ELSE IF item.node.name = "." THEN 1 ELSE 2
    ELSE IF item.do = "array" THEN Cardinality(Kept(item.node.c))
         ELSE IF item.do = "struct" THEN 1 ELSE 0

(* h[p] of them are there when item p of t is next, and enough, if there   *)
(* are n now.                                                              *)
Steps(h, w, t, m) ==
    /\ \A p \in 1 .. m - 1 : h[p + 1] = h[p] + Gain(w, t[p])
    /\ \A p \in 1 .. m : h[p] >= Need(w, t[p])

Heights(w, t, m, n) ==
    \E h \in [1 .. m -> Nat] : (m >= 1 => h[1] = n) /\ Steps(h, w, t, m)

(* The first item is done.                                                 *)
LEMMA PopHeights ==
    ASSUME NEW w, NEW t, IsSequence(t), t # << >>, NEW m \in 1 .. Len(t), NEW n,
           Heights(w, t, m, n), NEW k, m > 1 => k = n + Gain(w, t[1])
    PROVE  Heights(w, Tail(t), m - 1, k) /\ n >= Need(w, t[1]) /\ n \in Nat
           /\ (m > 1 => k \in Nat)
<1>1. PICK h \in [1 .. m -> Nat] : h[1] = n /\ Steps(h, w, t, m)
  BY DEF Heights
<1> DEFINE u == Tail(t)
           g == [p \in 1 .. m - 1 |-> h[p + 1]]
<1>2. /\ Len(t) \in Nat /\ \A p \in 1 .. m - 1 : u[p] = t[p + 1]
  BY TailFacts, SequenceFacts
<1>3. n \in Nat /\ n >= Need(w, t[1]) /\ (m > 1 => h[2] = k /\ k \in Nat)
  BY <1>1, <1>2 DEF Steps
<1>4. g \in [1 .. m - 1 -> Nat] /\ (m - 1 >= 1 => g[1] = k)
  BY <1>2, <1>3
<1>5. Steps(g, w, u, m - 1)
  <2>1. ASSUME NEW p \in 1 .. (m - 1) - 1 PROVE g[p + 1] = g[p] + Gain(w, u[p])
    <3>1. p + 1 \in 1 .. m - 1 /\ p \in 1 .. m - 1
      BY <1>2
    <3>2. h[(p + 1) + 1] = h[p + 1] + Gain(w, t[p + 1])
      BY <1>1, <3>1 DEF Steps
    <3> QED BY <1>2, <3>1, <3>2
  <2>2. ASSUME NEW p \in 1 .. m - 1 PROVE g[p] >= Need(w, u[p])
    <3>1. p + 1 \in 1 .. m
      BY <1>2
    <3>2. h[p + 1] >= Need(w, t[p + 1])
      BY <1>1, <3>1 DEF Steps
    <3> QED BY <1>2, <3>2
  <2> HIDE DEF g, u
  <2> QED BY <2>1, <2>2 DEF Steps
<1> HIDE DEF g, u
<1> QED BY <1>3, <1>4, <1>5 DEF Heights, u

(* Other items, that together add what it adds, are put in its place.      *)
LEMMA PushHeights ==
    ASSUME NEW w, NEW t, IsSequence(t), t # << >>, NEW m \in 1 .. Len(t), NEW n,
           Heights(w, t, m, n), NEW items, IsSequence(items),
           NEW g \in [1 .. Len(items) + 1 -> Nat], g[1] = n,
           m > 1 => g[Len(items) + 1] = n + Gain(w, t[1]),
           \A p \in 1 .. Len(items) : /\ g[p + 1] = g[p] + Gain(w, items[p])
                                      /\ g[p] >= Need(w, items[p])
    PROVE  Heights(w, items \o Tail(t), Len(items) + m - 1, n)
<1>1. PICK h \in [1 .. m -> Nat] : h[1] = n /\ Steps(h, w, t, m)
  BY DEF Heights
<1> DEFINE k == Len(items)
           u == items \o Tail(t)
           f == [p \in 1 .. k + m - 1 |-> IF p <= k THEN g[p] ELSE h[p - k + 1]]
<1>2. /\ Len(t) \in Nat /\ k \in Nat /\ IsSequence(Tail(t)) /\ Len(Tail(t)) = Len(t) - 1
      /\ \A p \in 1 .. m - 1 : Tail(t)[p] = t[p + 1]
  BY TailFacts, SequenceFacts
<1>3. /\ \A p \in 1 .. k : u[p] = items[p]
      /\ \A p \in 1 .. m - 1 : u[k + p] = t[p + 1]
  BY <1>2, ConcatFacts
<1> HIDE DEF k, u
<1>4. /\ f \in [1 .. k + m - 1 -> Nat]
      /\ \A p \in 1 .. k + m - 1 : p <= k => f[p] = g[p]
      /\ \A p \in 1 .. k + m - 1 : ~ (p <= k) => f[p] = h[p - k + 1]
      /\ k + m - 1 >= 1 => f[1] = n
  <2>1. \A p \in 1 .. k + m - 1 : (p <= k => g[p] \in Nat)
                                  /\ (~ (p <= k) => h[p - k + 1] \in Nat)
    <3> TAKE p \in 1 .. k + m - 1
    <3>1. (p <= k => p \in 1 .. k + 1) /\ (~ (p <= k) => p - k + 1 \in 1 .. m)
      BY <1>2
    <3>2. g \in [1 .. k + 1 -> Nat]
      BY DEF k
    <3> QED BY <3>1, <3>2
  <2>2. f \in [1 .. k + m - 1 -> Nat]
    BY <1>2, <2>1
  <2>3. k + m - 1 >= 1 => f[1] = n
    <3>1. CASE k >= 1
      BY <1>2, <3>1
    <3>2. CASE k = 0 /\ m > 1
      <4>1. 1 - k + 1 = 2 /\ h[2] = h[1] + Gain(w, t[1]) /\ g[1] = n + Gain(w, t[1])
        BY <1>1, <3>2 DEF Steps, k
      <4> QED BY <1>1, <1>2, <3>2, <4>1
    <3> QED BY <1>2, <3>1, <3>2
  <2> QED BY <2>2, <2>3
<1>5. m > 1 => g[k + 1] = h[2]
  BY <1>1 DEF Steps, k
<1> HIDE DEF f
<1>6. Steps(f, w, u, k + m - 1)
  <2>1. ASSUME NEW p \in 1 .. (k + m - 1) - 1 PROVE f[p + 1] = f[p] + Gain(w, u[p])
    <3>1. p \in 1 .. k + m - 1 /\ p + 1 \in 1 .. k + m - 1
      BY <1>2
    <3>2. CASE p <= k /\ p + 1 <= k
      <4>1. p \in 1 .. k
        BY <1>2, <3>2
      <4> QED BY <1>2, <1>3, <1>4, <3>1, <3>2, <4>1 DEF k
    <3>3. CASE p = k
      <4>1. p \in 1 .. k /\ m > 1 /\ (p + 1) - k + 1 = 2 /\ ~ (p + 1 <= k)
        BY <1>2, <3>3
      <4>2. g[p + 1] = g[p] + Gain(w, items[p])
        BY <4>1 DEF k
      <4> QED BY SMTT(40), <1>3, <1>4, <1>5, <3>1, <3>3, <4>1, <4>2
    <3>4. CASE ~ (p <= k)
      <4> DEFINE q == p - k + 1
      <4>1. /\ q \in 1 .. m - 1 /\ q > 1 /\ (p + 1) - k + 1 = q + 1 /\ ~ (p + 1 <= k)
            /\ p - k \in 1 .. m - 1 /\ k + (p - k) = p
        BY <1>2, <3>4
      <4>2. h[q + 1] = h[q] + Gain(w, t[q])
        BY <1>1, <4>1 DEF Steps
      <4>3. u[p] = t[q]
        BY <1>3, <4>1
      <4> QED BY <1>4, <3>1, <3>4, <4>1, <4>2, <4>3
    <3> QED BY <1>2, <3>2, <3>3, <3>4
  <2>2. ASSUME NEW p \in 1 .. k + m - 1 PROVE f[p] >= Need(w, u[p])
    <3>1. CASE p <= k
      <4>1. p \in 1 .. k
        BY <1>2, <3>1
      <4> QED BY <1>3, <1>4, <3>1, <4>1 DEF k
    <3>2. CASE ~ (p <= k)
      <4> DEFINE q == p - k + 1
      <4>1. q \in 1 .. m /\ p - k \in 1 .. m - 1 /\ k + (p - k) = p /\ q = (p - k) + 1
        BY <1>2, <3>2
      <4>2. u[p] = t[q] /\ h[q] >= Need(w, t[q])
        BY <1>1, <1>3, <4>1 DEF Steps
      <4> QED BY <1>4, <3>2, <4>2
    <3> QED BY <3>1, <3>2
  <2> QED BY <2>1, <2>2 DEF Steps
<1> QED BY <1>4, <1>6 DEF Heights, k, u

-----------------------------------------------------------------------------
(* A function under construction.                                          *)

(* A set of types in which a struct type has its elements.                 *)
ClosedTypes(T, Nodes) ==
    /\ NoResult \notin T /\ Unranked \in T /\ Ranked(<< >>) \in T
    /\ \A t \in T : IsStruct(t) \/ t \in Type
    /\ \A x \in Nodes : TensorType(x.dims) \in T
    /\ \A t \in T : IsStruct(t) => \A i \in DOMAIN t.elements : t.elements[i] \in T

LiteralDos == {"attr", "array", "struct"}
WorkDos == {"expr", "build"} \cup LiteralDos
StatementDos == {"declare", "return", "print", "drop"}

(* A declaration among the statements has an initializer.                  *)
StatementsOK(nodes, Nodes) ==
    nodes \in Seq(Nodes) /\ \A n \in 1 .. Len(nodes) : nodes[n].k = "decl" => Len(nodes[n].c) = 2

ItemOK(item, Nodes) ==
    /\ item.do # "block" => item.node \in Nodes
    /\ item.do = "build" => item.node.k \in {"binary", "call"}
    /\ item.do = "declare" => item.node.k = "decl"
    /\ item.do = "block" => StatementsOK(item.node.c, Nodes)

(* The work for an expression, its statement, the rest of the block, and   *)
(* the end of the function; each but the last may be missing.              *)
TodoOK(t, Nodes) ==
    /\ IsSequence(t) /\ t # << >>
    /\ \A p \in 1 .. Len(t) : ItemOK(t[p], Nodes)
    /\ t[Len(t)].do = "finish"
    /\ Len(t) >= 2 => t[Len(t) - 1].do = "block"
    /\ Len(t) >= 3 => t[Len(t) - 2].do \in StatementDos
    /\ \A p \in 1 .. Len(t) - 3 : t[p].do \in WorkDos

(* The first m items are what is left of a struct literal, and there are n *)
(* attributes.                                                             *)
LiteralPart(t, m, n) ==
    /\ m \in Nat
    /\ \A p \in 1 .. Len(t) : t[p].do \in LiteralDos <=> p <= m
    /\ m # 0 => m <= Len(t) /\ t[m].do = "struct" /\ \A p \in 1 .. m - 1 : t[p].do # "struct"
    /\ Heights("attrs", t, m, n)

ValuesOK(f, vs) == IsSequence(vs) /\ \A i \in 1 .. Len(vs) : IsValue(f, vs[i].value)

TypesIn(T, f) == \A v \in 1 .. Len(f.types) : f.types[v] \in T \cup {NoResult}

ScopesOK(f, st) ==
    /\ IsSequence(st)
    /\ \A s \in 1 .. Len(st) : \A name \in DOMAIN st[s] : IsValue(f, st[s][name].value)

AttrsOK(T, as) == IsSequence(as) /\ \A i \in 1 .. Len(as) : as[i].type \in T

Working(T, Nodes, f, t, vs, as, st) ==
    /\ FunctionOK(f) /\ f.result = << >> /\ TypesIn(T, f)
    /\ TodoOK(t, Nodes)
    /\ ValuesOK(f, vs) /\ (Len(t) <= 2 => vs = << >>)
    /\ Heights("vals", t, Len(t) - 2, Len(vs))
    /\ AttrsOK(T, as) /\ \E m : LiteralPart(t, m, Len(as))
    /\ ScopesOK(f, st) /\ Len(st) = IF Len(t) = 1 THEN 1 ELSE 2

(* What the end of the stack of work is.                                   *)
LEMMA TodoFacts ==
    ASSUME NEW Nodes, NEW t, TodoOK(t, Nodes)
    PROVE  /\ Len(t) \in Nat /\ Len(t) >= 1 /\ DOMAIN t = 1 .. Len(t)
           /\ t[1].do \in WorkDos => Len(t) >= 4
           /\ t[1].do \in StatementDos => Len(t) = 3
           /\ t[1].do = "block" => Len(t) = 2
           /\ t[1].do = "finish" => Len(t) = 1
<1>1. Len(t) \in Nat /\ Len(t) >= 1 /\ DOMAIN t = 1 .. Len(t)
  BY SequenceFacts DEF TodoOK
<1>2. CASE Len(t) = 1
  BY <1>1, <1>2 DEF TodoOK, WorkDos, LiteralDos, StatementDos
<1>3. CASE Len(t) = 2
  BY <1>1, <1>3 DEF TodoOK, WorkDos, LiteralDos, StatementDos
<1>4. CASE Len(t) = 3
  BY <1>1, <1>4 DEF TodoOK, WorkDos, LiteralDos, StatementDos
<1>5. CASE Len(t) >= 4
  <2>1. 1 \in 1 .. Len(t) - 3
    BY <1>1, <1>5
  <2>2. t[1].do \in WorkDos
    BY <2>1 DEF TodoOK
  <2> QED BY <1>1, <1>5, <2>2 DEF WorkDos, LiteralDos, StatementDos
<1> QED BY <1>1, <1>2, <1>3, <1>4, <1>5

(* The stack without its first item.                                       *)
LEMMA TodoTail ==
    ASSUME NEW Nodes, NEW t, TodoOK(t, Nodes), Len(t) >= 2
    PROVE  TodoOK(Tail(t), Nodes) /\ Len(Tail(t)) = Len(t) - 1
<1> DEFINE u == Tail(t)
           L == Len(t)
<1>1. L \in Nat /\ t # << >> /\ IsSequence(t)
  BY TodoFacts DEF TodoOK
<1>2. IsSequence(u) /\ Len(u) = L - 1 /\ \A i \in 1 .. L - 1 : u[i] = t[i + 1]
  BY <1>1, TailFacts
<1> HIDE DEF u
<1>3. u # << >>
  <2>1. Len(u) # 0
    BY <1>1, <1>2
  <2> QED BY <2>1, EmptyIsSequence
<1>4. ASSUME NEW p \in 1 .. L - 1 PROVE ItemOK(u[p], Nodes)
  <2>1. p + 1 \in 1 .. L
    BY <1>1
  <2> QED BY <1>2, <2>1 DEF TodoOK
<1>5. u[L - 1].do = "finish"
  <2>1. L - 1 \in 1 .. L - 1 /\ (L - 1) + 1 = L
    BY <1>1
  <2> QED BY <1>2, <2>1 DEF TodoOK
<1>6. L - 1 >= 2 => u[(L - 1) - 1].do = "block"
  <2>1. L - 1 >= 2 => (L - 1) - 1 \in 1 .. L - 1 /\ ((L - 1) - 1) + 1 = L - 1
    BY <1>1
  <2> QED BY <1>1, <1>2, <2>1 DEF TodoOK
<1>7. L - 1 >= 3 => u[(L - 1) - 2].do \in StatementDos
  <2>1. L - 1 >= 3 => (L - 1) - 2 \in 1 .. L - 1 /\ ((L - 1) - 2) + 1 = L - 2
    BY <1>1
  <2> QED BY <1>1, <1>2, <2>1, SMTT(40) DEF TodoOK
<1>8. ASSUME NEW p \in 1 .. (L - 1) - 3 PROVE u[p].do \in WorkDos
  <2>1. p \in 1 .. L - 1 /\ p + 1 \in 1 .. L - 3
    BY <1>1
  <2> QED BY <1>2, <2>1 DEF TodoOK
<1> QED BY <1>2, <1>3, <1>4, <1>5, <1>6, <1>7, <1>8 DEF TodoOK, u, L

(* More work in front of the rest.                                         *)
LEMMA TodoMore ==
    ASSUME NEW Nodes, NEW t, TodoOK(t, Nodes), t[1].do \in WorkDos,
           NEW items, IsSequence(items),
           \A p \in 1 .. Len(items) : ItemOK(items[p], Nodes) /\ items[p].do \in WorkDos
    PROVE  /\ TodoOK(items \o Tail(t), Nodes)
           /\ Len(items \o Tail(t)) = Len(items) + Len(t) - 1
<1> DEFINE r == Tail(t)
           u == items \o r
           L == Len(t)
           k == Len(items)
<1>1. L \in Nat /\ L >= 4 /\ k \in Nat
  BY TodoFacts, SequenceFacts
<1>2. TodoOK(r, Nodes) /\ Len(r) = L - 1 /\ IsSequence(r)
  <2>1. TodoOK(r, Nodes) /\ Len(r) = L - 1
    BY <1>1, TodoTail
  <2> QED BY <2>1 DEF TodoOK
<1> HIDE DEF r
<1>3. /\ IsSequence(u) /\ Len(u) = k + (L - 1)
      /\ \A m \in 1 .. k : u[m] = items[m]
      /\ \A m \in 1 .. L - 1 : u[k + m] = r[m]
      /\ \A p \in 1 .. k + (L - 1) : p \in 1 .. k \/ \E m \in 1 .. L - 1 : p = k + m
  <2>1. /\ IsSequence(u) /\ Len(u) = k + Len(r)
        /\ \A m \in 1 .. k : u[m] = items[m]
        /\ \A m \in 1 .. Len(r) : u[k + m] = r[m]
        /\ \A p \in 1 .. Len(u) : p \in 1 .. k \/ \E m \in 1 .. Len(r) : p = k + m
    BY <1>2, ConcatFacts
  <2> HIDE DEF u, k, L
  <2> QED BY <1>2, <2>1
<1>4. u # << >>
  <2>1. Len(u) # 0
    BY <1>1, <1>3
  <2> HIDE DEF u
  <2> QED BY <2>1, EmptyIsSequence
<1> HIDE DEF u
<1>11. /\ \A p \in 1 .. L - 1 : ItemOK(r[p], Nodes)
       /\ r[L - 1].do = "finish" /\ r[L - 2].do = "block" /\ r[L - 3].do \in StatementDos
       /\ \A p \in 1 .. L - 4 : r[p].do \in WorkDos
  <2>1. (L - 1) - 1 = L - 2 /\ (L - 1) - 2 = L - 3 /\ (L - 1) - 3 = L - 4
        /\ L - 1 >= 2 /\ L - 1 >= 3
    BY <1>1
  <2> QED BY <1>2, <2>1 DEF TodoOK
<1>5. ASSUME NEW p \in 1 .. k + (L - 1) PROVE ItemOK(u[p], Nodes)
  <2>1. CASE p \in 1 .. k
    BY <1>3, <1>11, <2>1
  <2>2. ASSUME NEW m \in 1 .. L - 1, p = k + m PROVE ItemOK(u[p], Nodes)
    BY <1>3, <1>11, <2>2
  <2> QED BY <1>3, <2>1, <2>2
<1>6. u[k + (L - 1)].do = "finish"
  <2>1. L - 1 \in 1 .. L - 1
    BY <1>1
  <2> QED BY <1>3, <1>11, <2>1
<1>7. u[(k + (L - 1)) - 1].do = "block"
  <2>1. L - 2 \in 1 .. L - 1 /\ (k + (L - 1)) - 1 = k + (L - 2)
    BY <1>1
  <2> QED BY <1>3, <1>11, <2>1
<1>8. u[(k + (L - 1)) - 2].do \in StatementDos
  <2>1. L - 3 \in 1 .. L - 1 /\ (k + (L - 1)) - 2 = k + (L - 3)
    BY <1>1
  <2> QED BY <1>3, <1>11, <2>1
<1>9. ASSUME NEW p \in 1 .. (k + (L - 1)) - 3 PROVE u[p].do \in WorkDos
  <2>1. CASE p \in 1 .. k
    BY <1>3, <1>11, <2>1
  <2>2. ASSUME NEW m \in 1 .. L - 1, p = k + m PROVE u[p].do \in WorkDos
    <3>1. m \in 1 .. L - 4
      BY <1>1, <2>2
    <3> QED BY <1>3, <1>11, <2>2, <3>1
  <2>3. p \in 1 .. k + (L - 1)
    BY <1>1
  <2> QED BY <1>3, <2>1, <2>2, <2>3
<1>10. TodoOK(u, Nodes)
  BY <1>3, <1>4, <1>5, <1>6, <1>7, <1>8, <1>9 DEF TodoOK
<1> QED BY <1>1, <1>3, <1>10 DEF u, r, L, k

(* More work is pushed before the rest.                                    *)
LEMMA WorkPush ==
    ASSUME NEW T, NEW Nodes, NEW f, NEW t, NEW vs, NEW as, NEW st,
           Working(T, Nodes, f, t, vs, as, st), t[1].do \in WorkDos,
           NEW items, IsSequence(items),
           \A p \in 1 .. Len(items) : ItemOK(items[p], Nodes) /\ items[p].do \in WorkDos,
           NEW g \in [1 .. Len(items) + 1 -> Nat], g[1] = Len(vs),
           g[Len(items) + 1] = Len(vs) + Gain("vals", t[1]),
           \A p \in 1 .. Len(items) : /\ g[p + 1] = g[p] + Gain("vals", items[p])
                                      /\ g[p] >= Need("vals", items[p]),
           NEW m, LiteralPart(items \o Tail(t), m, Len(as))
    PROVE  Working(T, Nodes, f, items \o Tail(t), vs, as, st)
<1> DEFINE u == items \o Tail(t)
<1>1. /\ TodoOK(t, Nodes) /\ IsSequence(t) /\ t # << >>
      /\ Heights("vals", t, Len(t) - 2, Len(vs))
  BY DEF Working, TodoOK
<1>2. Len(t) \in Nat /\ Len(t) >= 4 /\ Len(items) \in Nat
  BY <1>1, TodoFacts, SequenceFacts
<1>3. TodoOK(u, Nodes) /\ Len(u) = Len(items) + Len(t) - 1
  BY <1>1, TodoMore
<1>4. Heights("vals", u, Len(items) + (Len(t) - 2) - 1, Len(vs))
  <2>1. Len(t) - 2 \in 1 .. Len(t)
    BY <1>2
  <2> QED BY <1>1, <2>1, PushHeights
<1> HIDE DEF u
<1>5. Len(items) + (Len(t) - 2) - 1 = Len(u) - 2 /\ ~ (Len(u) <= 2) /\ Len(u) # 1 /\ Len(t) # 1
  <2> DEFINE a == Len(items)
             b == Len(t)
             c == Len(u)
  <2>1. a \in Nat /\ b \in Nat /\ b >= 4 /\ c = a + b - 1
    BY <1>2, <1>3
  <2> HIDE DEF a, b, c
  <2>2. a + (b - 2) - 1 = c - 2 /\ ~ (c <= 2) /\ c # 1 /\ b # 1
    BY <2>1
  <2> QED BY <2>2 DEF a, b, c
<1> QED BY <1>3, <1>4, <1>5 DEF Working, u

(* The first item of the work is done.                                     *)
LEMMA WorkPop ==
    ASSUME NEW T, NEW Nodes, NEW f, NEW t, NEW vs, NEW as, NEW st,
           Working(T, Nodes, f, t, vs, as, st), t[1].do \in WorkDos,
           NEW U, NEW g, FunctionOK(g), g.result = << >>, TypesIn(U, g),
           \A v : IsValue(f, v) => IsValue(g, v),
           NEW ws, ValuesOK(g, ws), Len(ws) = Len(vs) + Gain("vals", t[1]),
           NEW bs, AttrsOK(U, bs), NEW m, LiteralPart(Tail(t), m, Len(bs))
    PROVE  Working(U, Nodes, g, Tail(t), ws, bs, st)
<1> DEFINE u == Tail(t)
<1>1. /\ TodoOK(t, Nodes) /\ IsSequence(t) /\ t # << >>
      /\ Heights("vals", t, Len(t) - 2, Len(vs))
  BY DEF Working, TodoOK
<1>2. Len(t) \in Nat /\ Len(t) >= 4
  BY <1>1, TodoFacts
<1>3. TodoOK(u, Nodes) /\ Len(u) = Len(t) - 1
  BY <1>1, <1>2, TodoTail
<1>4. Heights("vals", u, (Len(t) - 2) - 1, Len(ws))
  <2>1. Len(t) - 2 \in 1 .. Len(t)
    BY <1>2
  <2> QED BY <1>1, <2>1, PopHeights
<1> HIDE DEF u
<1>5. (Len(t) - 2) - 1 = Len(u) - 2 /\ ~ (Len(u) <= 2) /\ Len(u) # 1 /\ Len(t) # 1
  BY <1>2, <1>3
<1>6. ScopesOK(g, st) /\ Len(st) = 2
  BY <1>5 DEF Working, ScopesOK
<1> QED BY <1>3, <1>4, <1>5, <1>6 DEF Working, u

(* As many values as are needed are there, when their turn comes.          *)
LEMMA EnoughValues ==
    ASSUME NEW T, NEW Nodes, NEW f, NEW t, NEW vs, NEW as, NEW st,
           Working(T, Nodes, f, t, vs, as, st), t[1].do \in WorkDos \cup StatementDos
    PROVE  Len(vs) >= Need("vals", t[1]) /\ Len(vs) \in Nat
<1>1. /\ TodoOK(t, Nodes) /\ IsSequence(t) /\ t # << >>
      /\ Heights("vals", t, Len(t) - 2, Len(vs))
  BY DEF Working, TodoOK
<1>2. Len(t) - 2 \in 1 .. Len(t)
  BY <1>1, TodoFacts
<1> DEFINE k == Len(vs) + Gain("vals", t[1])
<1>3. Len(t) - 2 > 1 => k = Len(vs) + Gain("vals", t[1])
  OBVIOUS
<1> HIDE DEF k
<1> QED BY <1>1, <1>2, <1>3, PopHeights

-----------------------------------------------------------------------------
(* Struct literals.                                                        *)

(* Outside of a literal nothing is left of one.                            *)
LEMMA NoLiteralLeft ==
    ASSUME NEW t, IsSequence(t), t # << >>, NEW m, NEW n, LiteralPart(t, m, n),
           t[1].do \notin LiteralDos
    PROVE  \A p \in 1 .. Len(t) : t[p].do \notin LiteralDos
<1>1. Len(t) \in Nat /\ Len(t) >= 1
  BY SequenceFacts
<1>2. m = 0
  BY <1>1 DEF LiteralPart
<1> QED BY <1>1, <1>2 DEF LiteralPart

(* Items of which none is for a literal.                                   *)
LEMMA NoLiteral ==
    ASSUME NEW t, IsSequence(t), NEW n,
           \A p \in 1 .. Len(t) : t[p].do \notin LiteralDos
    PROVE  LiteralPart(t, 0, n)
<1>1. Heights("attrs", t, 0, n)
  <2> DEFINE h == [p \in 1 .. 0 |-> 0]
  <2>1. h \in [1 .. 0 -> Nat]
    OBVIOUS
  <2> HIDE DEF h
  <2>2. Steps(h, "attrs", t, 0)
    BY DEF Steps
  <2>3. ~ (0 >= 1)
    OBVIOUS
  <2> QED BY <2>1, <2>2, <2>3, Zenon DEF Heights
<1>2. Len(t) \in Nat
  BY SequenceFacts
<1> QED BY <1>1, <1>2 DEF LiteralPart

(* Without its first item, and no literal before it, there is none.        *)
LEMMA NoLiteralTail ==
    ASSUME NEW t, IsSequence(t), t # << >>, NEW m, NEW n, LiteralPart(t, m, n),
           t[1].do \notin LiteralDos \/ t[1].do = "struct", NEW k
    PROVE  LiteralPart(Tail(t), 0, k)
<1>1. /\ IsSequence(Tail(t)) /\ Len(Tail(t)) = Len(t) - 1 /\ Len(t) \in Nat /\ Len(t) >= 1
      /\ \A i \in 1 .. Len(t) - 1 : Tail(t)[i] = t[i + 1]
  BY TailFacts, SequenceFacts
<1>2. \A p \in 2 .. Len(t) : t[p].do \notin LiteralDos
  <2>1. CASE t[1].do \notin LiteralDos
    BY <2>1, NoLiteralLeft
  <2>2. CASE t[1].do = "struct"
    <3>1. m = 1
      <4>1. m # 0
        BY <1>1, <2>2 DEF LiteralPart, LiteralDos
      <4>2. ~ (m > 1)
        <5>1. m > 1 => 1 \in 1 .. m - 1
          BY DEF LiteralPart
        <5> QED BY <2>2, <4>1, <5>1 DEF LiteralPart
      <4> QED BY <4>1, <4>2 DEF LiteralPart
    <3> QED BY <1>1, <3>1 DEF LiteralPart
  <2> QED BY <2>1, <2>2
<1>3. \A p \in 1 .. Len(Tail(t)) : Tail(t)[p].do \notin LiteralDos
  BY <1>1, <1>2
<1> QED BY <1>1, <1>3, NoLiteral

(* An element of a literal, and what was pushed in its place.              *)
LEMMA LiteralPush ==
    ASSUME NEW t, IsSequence(t), t # << >>, NEW m, NEW n, LiteralPart(t, m, n),
           t[1].do \in {"attr", "array"}, NEW items, IsSequence(items),
           \A p \in 1 .. Len(items) : items[p].do \in {"attr", "array"},
           NEW g \in [1 .. Len(items) + 1 -> Nat], g[1] = n,
           g[Len(items) + 1] = n + Gain("attrs", t[1]),
           \A p \in 1 .. Len(items) : /\ g[p + 1] = g[p] + Gain("attrs", items[p])
                                      /\ g[p] >= Need("attrs", items[p])
    PROVE  LiteralPart(items \o Tail(t), Len(items) + m - 1, n)
<1> DEFINE r == Tail(t)
           u == items \o r
           k == Len(items)
<1>1. /\ IsSequence(r) /\ Len(r) = Len(t) - 1 /\ Len(t) \in Nat /\ Len(t) >= 1
      /\ \A i \in 1 .. Len(t) - 1 : r[i] = t[i + 1]
  BY TailFacts, SequenceFacts
<1>2. m \in 2 .. Len(t)
  <2>1. m \in Nat /\ m # 0
    BY <1>1 DEF LiteralPart, LiteralDos
  <2>2. m # 1 /\ m <= Len(t)
    BY <2>1 DEF LiteralPart
  <2> QED BY <1>1, <2>1, <2>2
<1>3. Heights("attrs", u, k + m - 1, n)
  <2>1. Heights("attrs", t, m, n)
    BY DEF LiteralPart
  <2>2. m \in 1 .. Len(t)
    BY <1>1, <1>2
  <2>3. Heights("attrs", items \o Tail(t), Len(items) + m - 1, n)
    BY <2>1, <2>2, PushHeights
  <2> QED BY <2>3
<1> HIDE DEF r
<1>4. /\ IsSequence(u) /\ Len(u) = k + Len(r) /\ k \in Nat
      /\ \A i \in 1 .. k : u[i] = items[i]
      /\ \A i \in 1 .. Len(r) : u[k + i] = r[i]
      /\ \A p \in 1 .. Len(u) : p \in 1 .. k \/ \E i \in 1 .. Len(r) : p = k + i
  <2>1. k \in Nat
    BY SequenceFacts
  <2>2. IsSequence(items) /\ IsSequence(r)
    BY <1>1
  <2>3. /\ IsSequence(items \o r) /\ Len(items \o r) = Len(items) + Len(r)
        /\ \A i \in 1 .. Len(items) : (items \o r)[i] = items[i]
        /\ \A i \in 1 .. Len(r) : (items \o r)[Len(items) + i] = r[i]
        /\ \A p \in 1 .. Len(items \o r) :
               p \in 1 .. Len(items) \/ \E i \in 1 .. Len(r) : p = Len(items) + i
    BY ONLY <2>2, ConcatFacts
  <2> QED BY <2>1, <2>3
<1> HIDE DEF u
<1>9. \A i \in 1 .. k : items[i].do \in {"attr", "array"}
  OBVIOUS
<1> HIDE DEF k
<1>5. ASSUME NEW p \in 1 .. Len(u)
      PROVE  /\ u[p].do \in LiteralDos <=> p <= k + m - 1
             /\ p < k + m - 1 => u[p].do # "struct"
  <2>1. CASE p \in 1 .. k
    <3>1. u[p].do \in {"attr", "array"}
      BY <1>4, <1>9, <2>1
    <3>2. p <= k + m - 1
      BY <1>2, <1>4, <2>1
    <3> QED BY <3>1, <3>2 DEF LiteralDos
  <2>2. ASSUME NEW i \in 1 .. Len(r), p = k + i
        PROVE  /\ u[p].do \in LiteralDos <=> p <= k + m - 1
               /\ p < k + m - 1 => u[p].do # "struct"
    <3>1. u[p] = t[i + 1] /\ i + 1 \in 1 .. Len(t)
      BY <1>1, <1>4, <2>2
    <3>2. t[i + 1].do \in LiteralDos <=> i + 1 <= m
      BY <3>1 DEF LiteralPart
    <3>3. i + 1 < m => t[i + 1].do # "struct"
      BY <1>2, <3>1 DEF LiteralPart
    <3> QED BY <1>1, <1>2, <1>4, <2>2, <3>1, <3>2, <3>3
  <2> QED BY <1>4, <2>1, <2>2
<1>6. u[k + m - 1].do = "struct" /\ k + m - 1 \in 1 .. Len(u)
  <2>1. m - 1 \in 1 .. Len(r) /\ k + m - 1 = k + (m - 1) /\ (m - 1) + 1 = m
    BY <1>1, <1>2, <1>4
  <2>2. u[k + m - 1] = t[m]
    BY <1>1, <1>4, <2>1
  <2> QED BY <1>1, <1>2, <1>4, <2>1, <2>2 DEF LiteralPart
<1>7. \A p \in 1 .. (k + m - 1) - 1 : u[p].do # "struct"
  BY <1>2, <1>4, <1>5, <1>6
<1>8. LiteralPart(u, k + m - 1, n)
  BY <1>2, <1>3, <1>4, <1>5, <1>6, <1>7, SMTT(40) DEF LiteralPart
<1> QED BY <1>8 DEF u, k, r

(* An element of a literal is done.                                        *)
LEMMA LiteralPop ==
    ASSUME NEW t, IsSequence(t), t # << >>, NEW m, NEW n, LiteralPart(t, m, n),
           t[1].do \in {"attr", "array"}, NEW k, k = n + Gain("attrs", t[1])
    PROVE  LiteralPart(Tail(t), m - 1, k) /\ n >= Need("attrs", t[1]) /\ n \in Nat
<1> DEFINE r == Tail(t)
<1>1. /\ IsSequence(r) /\ Len(r) = Len(t) - 1 /\ Len(t) \in Nat /\ Len(t) >= 1
      /\ \A i \in 1 .. Len(t) - 1 : r[i] = t[i + 1]
  BY TailFacts, SequenceFacts
<1>2. m \in 2 .. Len(t)
  <2>1. m \in Nat /\ m # 0
    BY <1>1 DEF LiteralPart, LiteralDos
  <2>2. m # 1 /\ m <= Len(t)
    BY <2>1 DEF LiteralPart
  <2> QED BY <1>1, <2>1, <2>2
<1>3. Heights("attrs", r, m - 1, k) /\ n >= Need("attrs", t[1]) /\ n \in Nat
  BY <1>1, <1>2, PopHeights DEF LiteralPart
<1> HIDE DEF r
<1>4. ASSUME NEW p \in 1 .. Len(r)
      PROVE  /\ r[p].do \in LiteralDos <=> p <= m - 1
             /\ p < m - 1 => r[p].do # "struct"
  <2>1. r[p] = t[p + 1] /\ p + 1 \in 1 .. Len(t)
    BY <1>1
  <2>2. t[p + 1].do \in LiteralDos <=> p + 1 <= m
    BY <2>1 DEF LiteralPart
  <2>3. p + 1 < m => t[p + 1].do # "struct"
    BY <1>2, <2>1 DEF LiteralPart
  <2> QED BY <1>1, <1>2, <2>1, <2>2, <2>3
<1>5. r[m - 1].do = "struct" /\ m - 1 \in 1 .. Len(r)
  <2>1. m - 1 \in 1 .. Len(r) /\ (m - 1) + 1 = m
    BY <1>1, <1>2
  <2>2. r[m - 1] = t[m]
    BY <1>1, <2>1
  <2> QED BY <1>2, <2>1, <2>2 DEF LiteralPart
<1>6. \A p \in 1 .. (m - 1) - 1 : r[p].do # "struct"
  BY <1>1, <1>2, <1>4
<1>7. LiteralPart(r, m - 1, k)
  BY <1>1, <1>2, <1>3, <1>4, <1>5, <1>6 DEF LiteralPart
<1> QED BY <1>3, <1>7 DEF r

-----------------------------------------------------------------------------
(* The invariant, over a state of the generator.                           *)

GenState(T, Nodes, p, r, sm, fs, st, t, vs, as, s) ==
    /\ ClosedTypes(T, Nodes)
    /\ p \in Seq(Nodes) /\ r \in 0 .. Len(p)
    /\ FunctionsOK(fs)
    /\ \A x \in DOMAIN sm : sm[x].type \in T
    /\ AttrsOK(T, as)
    /\ s \in {"run", "module", "null", "crash"}
    /\ s = "run" /\ t = << >> => st = << >> /\ vs = << >>
    /\ s = "run" /\ t # << >> =>
           /\ r < Len(p) /\ fs # << >>
           /\ Working(T, Nodes, fs[Len(fs)], t, vs, as, st)

GenOK(T, Nodes) ==
    GenState(T, Nodes, prog, rec, structMap, funcs, symbolTable, todo, vals, attrs, status)

(* What a step at work on a function starts from.                          *)
LEMMA AtWork ==
    ASSUME NEW T, NEW Nodes, GenOK(T, Nodes), NEW what, Doing(what)
    PROVE  /\ Working(T, Nodes, Current, todo, vals, attrs, symbolTable)
           /\ TodoOK(todo, Nodes) /\ todo # << >> /\ IsSequence(todo)
           /\ ItemOK(todo[1], Nodes) /\ todo[1].do = what
           /\ FunctionsOK(funcs) /\ funcs # << >> /\ FunctionOK(Current)
           /\ ClosedTypes(T, Nodes)
<1>1. /\ Working(T, Nodes, Current, todo, vals, attrs, symbolTable)
      /\ FunctionsOK(funcs) /\ funcs # << >> /\ ClosedTypes(T, Nodes)
      /\ todo # << >> /\ todo[1].do = what
  BY DEF GenOK, GenState, Doing, Current
<1>2. TodoOK(todo, Nodes) /\ FunctionOK(Current)
  BY <1>1 DEF Working
<1>3. ItemOK(todo[1], Nodes)
  <2>1. 1 \in 1 .. Len(todo)
    BY <1>2, TodoFacts
  <2> QED BY <1>2, <2>1 DEF TodoOK
<1> QED BY <1>1, <1>2, <1>3 DEF TodoOK

(* A stop leaves the functions that were built.                            *)
LEMMA StopKeeps ==
    ASSUME NEW T, NEW Nodes, GenOK(T, Nodes), status' \in {"null", "crash"},
           FunctionsOK(funcs'), UNCHANGED <<prog, rec, structMap, attrs>>
    PROVE  GenOK(T, Nodes)'
BY DEF GenOK, GenState

(* A crash leaves everything as it is.                                     *)
LEMMA CrashKeeps ==
    ASSUME NEW T, NEW Nodes, GenOK(T, Nodes), Crash
    PROVE  GenOK(T, Nodes)'
<1>1. FunctionsOK(funcs')
  BY DEF Crash, GenOK, GenState
<1> QED BY <1>1, StopKeeps DEF Crash

(* The functions without the last.                                         *)
LEMMA LastErased ==
    ASSUME NEW fs, FunctionsOK(fs)
    PROVE  FunctionsOK(Without(1, fs))
<1>1. Len(fs) \in Nat /\ IsSequence(fs)
  BY SequenceFacts DEF FunctionsOK
<1>2. CASE Len(fs) = 0
  <2>1. Without(1, fs) = << >>
    <3>1. SubSeq(fs, 1, 0 - 1) = << >>
      OBVIOUS
    <3> QED BY <1>2, <3>1 DEF Without
  <2> QED BY <2>1, EmptyIsSequence DEF FunctionsOK
<1>3. CASE Len(fs) >= 1
  <2>1. 1 \in 1 .. Len(fs) + 1 /\ Len(fs) - 1 \in 1 - 1 .. Len(fs)
    BY <1>1, <1>3
  <2>2. /\ IsSequence(Without(1, fs)) /\ Len(Without(1, fs)) = (Len(fs) - 1) - 1 + 1
        /\ \A i \in 1 .. (Len(fs) - 1) - 1 + 1 : Without(1, fs)[i] = fs[1 + i - 1]
    BY <1>1, <2>1, SubSeqFacts DEF Without
  <2>3. ASSUME NEW i \in 1 .. Len(Without(1, fs)) PROVE FunctionOK(Without(1, fs)[i])
    <3>1. i \in 1 .. Len(fs) /\ 1 + i - 1 = i
      BY <1>1, <2>2
    <3> QED BY <2>2, <3>1 DEF FunctionsOK
  <2> QED BY <2>2, <2>3 DEF FunctionsOK
<1> QED BY <1>1, <1>2, <1>3

(* A function that fails is erased.                                        *)
LEMMA FailFunctionKeeps ==
    ASSUME NEW T, NEW Nodes, GenOK(T, Nodes), NEW reported, FailFunction(reported)
    PROVE  GenOK(T, Nodes)'
<1>1. FunctionsOK(funcs')
  BY LastErased DEF FailFunction, GenOK, GenState
<1> QED BY <1>1, StopKeeps DEF FailFunction

(* A print that fails leaves the end of the function to do.                *)
LEMMA FailExprKeeps ==
    ASSUME NEW T, NEW Nodes, GenOK(T, Nodes), NEW what, Doing(what),
           what \in {"expr", "build"}, FailExpr
    PROVE  GenOK(T, Nodes)'
<1>1. CASE FailFunction(TRUE)
  BY <1>1, FailFunctionKeeps
<1>2. CASE /\ todo' = <<Block(<< >>), todo[Len(todo)]>> /\ vals' = << >>
           /\ UNCHANGED <<prog, rec, structMap, funcs, symbolTable, attrs, status>>
  <2> DEFINE u == <<Block(<< >>), todo[Len(todo)]>>
  <2>1. /\ Working(T, Nodes, Current, todo, vals, attrs, symbolTable)
        /\ TodoOK(todo, Nodes) /\ todo[1].do \in WorkDos
    BY AtWork DEF WorkDos
  <2>2. Len(todo) >= 4 /\ Len(todo) \in Nat
    BY <2>1, TodoFacts
  <2>3. /\ IsSequence(u) /\ Len(u) = 2 /\ u[1] = Block(<< >>) /\ u[2] = todo[Len(todo)]
        /\ u # << >>
    BY TupleFacts
  <2> HIDE DEF u
  <2>4. ItemOK(u[1], Nodes) /\ u[1].do = "block"
    <3>1. u[1].do = "block" /\ u[1].node.c = << >>
      <4>1. Block(<< >>).do = "block" /\ Block(<< >>).node.c = << >>
        BY Zenon DEF Block, Do, Node, SizedNode
      <4> QED BY <2>3, <4>1, Zenon
    <3>2. StatementsOK(<< >>, Nodes)
      BY DEF StatementsOK
    <3> QED BY <3>1, <3>2 DEF ItemOK
  <2>5. ItemOK(u[2], Nodes) /\ u[2].do = "finish"
    <3>1. Len(todo) \in 1 .. Len(todo)
      BY <2>2
    <3> QED BY <2>1, <2>3, <3>1 DEF TodoOK
  <2>6. TodoOK(u, Nodes)
    BY <2>3, <2>4, <2>5 DEF TodoOK
  <2>7. LiteralPart(u, 0, Len(attrs))
    BY <2>3, <2>4, <2>5, NoLiteral DEF LiteralDos
  <2>8. Heights("vals", u, Len(u) - 2, 0)
    <3> DEFINE h == [p \in 1 .. 0 |-> 0]
    <3>1. h \in [1 .. 0 -> Nat] /\ Len(u) - 2 = 0 /\ ~ (0 >= 1)
      BY <2>3
    <3> HIDE DEF h
    <3>2. Steps(h, "vals", u, 0)
      BY DEF Steps
    <3> QED BY <3>1, <3>2, Zenon DEF Heights
  <2>9. Working(T, Nodes, Current, u, << >>, attrs, symbolTable)
    <3>1. Len(symbolTable) = 2 /\ Len(u) # 1
      BY <2>1, <2>2, <2>3 DEF Working
    <3>2. ValuesOK(Current, << >>) /\ Len(<< >>) = 0
      BY EmptyIsSequence DEF ValuesOK
    <3> QED BY <2>1, <2>6, <2>7, <2>8, <3>1, <3>2 DEF Working
  <2>10. Working(T, Nodes, funcs'[Len(funcs')], todo', vals', attrs', symbolTable')
    BY <1>2, <2>9 DEF Current, u
  <2> QED BY <1>2, <2>3, <2>10 DEF GenOK, GenState, Doing, u
<1> QED BY <1>1, <1>2 DEF FailExpr

-----------------------------------------------------------------------------
(* Building an operation.                                                  *)

(* The last function has one more operation, and its values are still      *)
(* there.                                                                  *)
LEMMA BuiltKeeps ==
    ASSUME NEW T, FunctionsOK(funcs), funcs # << >>, Current.result = << >>,
           TypesIn(T, Current), NEW op, IsOperation(op), op.kind # "arg",
           \A i \in 1 .. Len(op.args) : IsValue(Current, op.args[i]),
           NEW type \in T \cup {NoResult}, NEW gs, gs = Built(op, type)
    PROVE  /\ FunctionsOK(gs) /\ gs # << >> /\ Len(gs) = Len(funcs)
           /\ FunctionOK(gs[Len(gs)]) /\ gs[Len(gs)].result = << >> /\ TypesIn(T, gs[Len(gs)])
           /\ \A v : IsValue(Current, v) => IsValue(gs[Len(gs)], v)
           /\ type # NoResult => IsValue(gs[Len(gs)], NextValue)
<1> DEFINE g == Grown(Current, op, type)
<1>1. Len(funcs) \in 1 .. Len(funcs) /\ IsSequence(funcs)
  BY SequenceFacts DEF FunctionsOK
<1>2. FunctionOK(Current)
  BY <1>1 DEF FunctionsOK, Current
<1>3. IsFunction(Current) /\ Len(Current.ops) \in Nat /\ Len(Current.types) = Len(Current.ops)
  BY <1>2, SequenceFacts DEF FunctionOK, IsFunction
<1>4. gs = WithLast(funcs, g)
  <2>1. IsFunction(funcs[Len(funcs)])
    BY <1>3 DEF Current
  <2>2. Built(op, type) = WithBuilt(funcs, op, type)
    BY Zenon DEF Built, WithBuilt, Current
  <2>3. WithBuilt(funcs, op, type) = WithLast(funcs, Grown(funcs[Len(funcs)], op, type))
    BY <1>1, <2>1, BuiltIsGrown
  <2> QED BY <2>2, <2>3, Zenon DEF Current
<1>5. /\ FunctionOK(g) /\ g.result = << >>
      /\ Len(g.ops) = Len(Current.ops) + 1 /\ Len(g.types) = Len(Current.types) + 1
      /\ \A v \in 1 .. Len(Current.ops) : g.types[v] = Current.types[v]
      /\ g.types[Len(Current.ops) + 1] = type
      /\ \A v : IsValue(Current, v) => IsValue(g, v)
  BY <1>2, GrownOK
<1> HIDE DEF g
<1>6. FunctionsOK(gs) /\ Len(gs) = Len(funcs) /\ gs # << >> /\ gs[Len(gs)] = g
  BY <1>4, <1>5, LastChanged
<1>7. TypesIn(T, g)
  <2> SUFFICES ASSUME NEW v \in 1 .. Len(g.types) PROVE g.types[v] \in T \cup {NoResult}
    BY DEF TypesIn
  <2>1. CASE v \in 1 .. Len(Current.ops)
    BY <1>3, <1>5, <2>1 DEF TypesIn
  <2>2. CASE v = Len(Current.ops) + 1
    BY <1>5, <2>2
  <2> QED BY <1>3, <1>5, <2>1, <2>2
<1>8. type # NoResult => IsValue(g, NextValue)
  BY <1>3, <1>5 DEF IsValue, NextValue
<1> QED BY <1>5, <1>6, <1>7, <1>8

(* The operands are values.                                                *)
LEMMA OperandsOK ==
    ASSUME NEW f, ValuesOK(f, vals), NEW n \in Nat, n <= Len(vals)
    PROVE  /\ IsSequence(Operands(n)) /\ Len(Operands(n)) = n
           /\ \A i \in 1 .. n : IsValue(f, Operands(n)[i])
           /\ n # 0 => Operands(n) # << >>
           /\ ValuesOK(f, Without(n, vals)) /\ Len(Without(n, vals)) = Len(vals) - n
           /\ n # 0 => IsValue(f, Top.value)
<1>1. IsSequence(vals) /\ Len(vals) \in Nat
  BY SequenceFacts DEF ValuesOK
<1> DEFINE r == Operands(n)
<1>2. r = [i \in 1 .. n |-> r[i]] /\ \A i \in 1 .. n : r[i] = vals[Len(vals) - n + i].value
  BY Zenon DEF Operands
<1> HIDE DEF r
<1>3. IsSequence(r) /\ Len(r) = n
  BY <1>2, FunctionFacts
<1>4. \A i \in 1 .. n : IsValue(f, r[i])
  <2> TAKE i \in 1 .. n
  <2>1. Len(vals) - n + i \in 1 .. Len(vals)
    BY <1>1
  <2> QED BY <1>2, <2>1 DEF ValuesOK
<1>5. n # 0 => r # << >>
  BY <1>3, EmptyIsSequence
<1>6. ValuesOK(f, Without(n, vals)) /\ Len(Without(n, vals)) = Len(vals) - n
  <2> DEFINE w == Without(n, vals)
  <2>1. 1 \in 1 .. Len(vals) + 1 /\ Len(vals) - n \in 1 - 1 .. Len(vals)
    BY <1>1
  <2>2. /\ IsSequence(w) /\ Len(w) = (Len(vals) - n) - 1 + 1
        /\ \A i \in 1 .. (Len(vals) - n) - 1 + 1 : w[i] = vals[1 + i - 1]
    BY <1>1, <2>1, SubSeqFacts DEF Without
  <2> HIDE DEF w
  <2>3. ASSUME NEW i \in 1 .. Len(w) PROVE IsValue(f, w[i].value)
    <3>1. i \in 1 .. Len(vals) /\ 1 + i - 1 = i
      BY <1>1, <2>2
    <3> QED BY <2>2, <3>1 DEF ValuesOK
  <2>4. Len(w) = Len(vals) - n
    BY <1>1, <2>2
  <2> QED BY <2>2, <2>3, <2>4 DEF ValuesOK, w
<1>7. n # 0 => IsValue(f, Top.value)
  <2>1. n # 0 => Len(vals) \in 1 .. Len(vals)
    BY <1>1
  <2> QED BY <2>1 DEF Top, ValuesOK
<1> QED BY <1>3, <1>4, <1>5, <1>6, <1>7 DEF r

(* One more value.                                                         *)
LEMMA ValueMore ==
    ASSUME NEW f, NEW vs, ValuesOK(f, vs), NEW v, IsValue(f, v), NEW struct
    PROVE  /\ ValuesOK(f, Append(vs, Result(v, struct)))
           /\ Len(Append(vs, Result(v, struct))) = Len(vs) + 1 /\ Len(vs) \in Nat
<1> DEFINE r == Result(v, struct)
           ws == Append(vs, r)
<1>1. IsSequence(vs) /\ Len(vs) \in Nat /\ r.value = v
  BY SequenceFacts DEF ValuesOK, Result
<1> HIDE DEF r
<1>2. /\ IsSequence(ws) /\ Len(ws) = Len(vs) + 1
      /\ \A i \in 1 .. Len(vs) : ws[i] = vs[i]
      /\ ws[Len(vs) + 1] = r
  BY <1>1, AppendFacts
<1> HIDE DEF ws
<1>3. ASSUME NEW i \in 1 .. Len(ws) PROVE IsValue(f, ws[i].value)
  <2>1. CASE i \in 1 .. Len(vs)
    BY <1>2, <2>1 DEF ValuesOK
  <2>2. CASE i = Len(vs) + 1
    BY <1>1, <1>2, <2>2
  <2> QED BY <1>1, <1>2, <2>1, <2>2
<1> QED BY <1>1, <1>2, <1>3 DEF ValuesOK, ws, r

(* The work after a step, with another last function.                      *)
LEMMA WorkKeeps ==
    ASSUME NEW T, NEW Nodes, GenOK(T, Nodes), NEW what, Doing(what),
           FunctionsOK(funcs'), funcs' # << >>,
           Working(T, Nodes, funcs'[Len(funcs')], todo', vals', attrs', symbolTable'),
           UNCHANGED <<prog, rec, structMap, status>>
    PROVE  GenOK(T, Nodes)'
<1>1. todo' # << >> /\ AttrsOK(T, attrs')
  BY DEF Working, TodoOK
<1> QED BY <1>1 DEF GenOK, GenState, Doing

(* Emit has its operands, and leaves their value in their place.           *)
LEMMA EmitKeeps ==
    ASSUME NEW T, NEW Nodes, GenOK(T, Nodes), NEW what, Doing(what), what \in {"expr", "build"},
           NEW kind, kind # "arg", NEW n \in Nat, n <= Len(vals),
           Gain("vals", todo[1]) = 1 - n, kind \in Operating => n # 0,
           NEW attr, NEW type \in T, NEW struct, Emit(kind, n, attr, type, struct)
    PROVE  GenOK(T, Nodes)'
<1> DEFINE op == NewOp(kind, Operands(n), attr)
           g == funcs'[Len(funcs')]
           v == NextValue
<1>1. /\ Working(T, Nodes, Current, todo, vals, attrs, symbolTable)
      /\ FunctionsOK(funcs) /\ funcs # << >> /\ ClosedTypes(T, Nodes) /\ IsSequence(todo)
      /\ todo # << >> /\ todo[1].do \in WorkDos /\ todo[1].do \notin LiteralDos
  BY AtWork DEF WorkDos, LiteralDos
<1>2. ValuesOK(Current, vals) /\ Current.result = << >> /\ TypesIn(T, Current)
  BY <1>1 DEF Working
<1>3. /\ IsSequence(Operands(n)) /\ Len(Operands(n)) = n
      /\ \A i \in 1 .. n : IsValue(Current, Operands(n)[i])
      /\ n # 0 => Operands(n) # << >>
      /\ ValuesOK(Current, Without(n, vals)) /\ Len(Without(n, vals)) = Len(vals) - n
  BY <1>2, OperandsOK
<1>4. op.kind = kind /\ op.args = Operands(n) /\ IsOperation(op)
  BY <1>3 DEF NewOp, IsOperation
<1>5. type # NoResult
  BY <1>1 DEF ClosedTypes
<1>6. funcs' = Built(op, type)
  BY DEF Emit
<1> HIDE DEF op
<1>7. /\ FunctionsOK(funcs') /\ funcs' # << >>
      /\ FunctionOK(g) /\ g.result = << >> /\ TypesIn(T, g)
      /\ \A u : IsValue(Current, u) => IsValue(g, u)
      /\ IsValue(g, v)
  BY <1>1, <1>2, <1>3, <1>4, <1>5, <1>6, BuiltKeeps
<1> HIDE DEF g, v
<1>8. ValuesOK(g, Without(n, vals))
  BY <1>3, <1>7 DEF ValuesOK
<1>9. ValuesOK(g, vals') /\ Len(vals') = Len(vals) + Gain("vals", todo[1])
  <2>1. vals' = Append(Without(n, vals), Result(v, struct))
    BY DEF Emit, v
  <2>2. ValuesOK(g, vals') /\ Len(vals') = Len(Without(n, vals)) + 1
    BY <1>7, <1>8, <2>1, ValueMore
  <2>3. Len(vals) \in Nat
    BY <1>2, SequenceFacts DEF ValuesOK
  <2> QED BY <1>3, <2>2, <2>3
<1>10. LiteralPart(Tail(todo), 0, Len(attrs))
  BY <1>1, NoLiteralTail DEF Working
<1>11. AttrsOK(T, attrs)
  BY <1>1 DEF Working
<1>12. Working(T, Nodes, g, Tail(todo), vals', attrs, symbolTable)
  BY <1>1, <1>7, <1>9, <1>10, <1>11, WorkPop
<1>13. Working(T, Nodes, g, todo', vals', attrs', symbolTable')
  BY <1>12 DEF Emit
<1> QED BY <1>7, <1>13, WorkKeeps DEF Emit, g

(* The names of a function resolve to its values.                          *)
LEMMA LookupOK ==
    ASSUME NEW f, ScopesOK(f, symbolTable), NEW name, IsDeclared(name)
    PROVE  IsValue(f, Lookup(name).value)
<1>1. DOMAIN symbolTable = 1 .. Len(symbolTable)
  BY SequenceFacts DEF ScopesOK
<1> DEFINE s == CHOOSE s \in DOMAIN symbolTable : name \in DOMAIN symbolTable[s]
<1>2. s \in DOMAIN symbolTable /\ name \in DOMAIN symbolTable[s]
  BY DEF IsDeclared
<1>3. Lookup(name) = symbolTable[s][name]
  BY DEF Lookup
<1> HIDE DEF s
<1> QED BY <1>1, <1>2, <1>3 DEF ScopesOK

(* A name stands for a value of the function, or fails.                    *)
LEMMA VisitVariableKeeps ==
    ASSUME NEW T, NEW Nodes, GenOK(T, Nodes), VisitVariable
    PROVE  GenOK(T, Nodes)'
<1>1. Doing("expr") /\ E.k = "variable"
  BY DEF VisitVariable, Visiting
<1>2. CASE FailExpr
  BY <1>1, <1>2, FailExprKeeps
<1>3. CASE /\ IsDeclared(E.name)
           /\ vals' = Append(vals, Result(Lookup(E.name).value, Lookup(E.name).struct))
           /\ todo' = Tail(todo)
           /\ UNCHANGED <<prog, rec, structMap, funcs, symbolTable, attrs, diag, status>>
  <2>1. /\ Working(T, Nodes, Current, todo, vals, attrs, symbolTable)
        /\ FunctionsOK(funcs) /\ funcs # << >> /\ IsSequence(todo) /\ FunctionOK(Current)
        /\ todo # << >> /\ todo[1].do = "expr"
    BY <1>1, AtWork
  <2>2. /\ ValuesOK(Current, vals) /\ Current.result = << >> /\ TypesIn(T, Current)
        /\ ScopesOK(Current, symbolTable) /\ AttrsOK(T, attrs)
    BY <2>1 DEF Working
  <2>3. IsValue(Current, Lookup(E.name).value)
    BY <1>3, <2>2, LookupOK
  <2>4. ValuesOK(Current, vals') /\ Len(vals') = Len(vals) + 1
    BY <1>3, <2>2, <2>3, ValueMore
  <2>5. LiteralPart(Tail(todo), 0, Len(attrs))
    BY <2>1, NoLiteralTail DEF Working, LiteralDos
  <2>6. Gain("vals", todo[1]) = 1 /\ todo[1].do \in WorkDos
    BY <2>1 DEF Gain, WorkDos
  <2>7. Working(T, Nodes, Current, Tail(todo), vals', attrs, symbolTable)
    BY <2>1, <2>2, <2>4, <2>5, <2>6, WorkPop
  <2>8. /\ FunctionsOK(funcs') /\ funcs' # << >>
        /\ Working(T, Nodes, funcs'[Len(funcs')], todo', vals', attrs', symbolTable')
    BY <1>3, <2>1, <2>7 DEF Current
  <2> QED BY <1>1, <1>3, <2>8, WorkKeeps
<1> QED BY <1>2, <1>3 DEF VisitVariable

-----------------------------------------------------------------------------
(* Visiting a node.                                                        *)

Visits(what, nodes) == [n \in DOMAIN nodes |-> Do(what, nodes[n])]

VisitsFirst(items, what, nodes, rest) ==
    /\ IsSequence(items) /\ Len(items) = Len(nodes) + Len(rest)
    /\ Len(nodes) \in Nat /\ Len(rest) \in Nat
    /\ \A p \in 1 .. Len(nodes) : items[p] = Do(what, nodes[p])
    /\ \A p \in 1 .. Len(rest) : items[Len(nodes) + p] = rest[p]
    /\ \A p \in 1 .. Len(items) :
           p \in 1 .. Len(nodes) \/ \E m \in 1 .. Len(rest) : p = Len(nodes) + m

(* The children of a node, each to be visited, and what comes after them.  *)
LEMMA VisitsThen ==
    ASSUME NEW what, NEW nodes, IsSequence(nodes), NEW rest, IsSequence(rest)
    PROVE  VisitsFirst(Visits(what, nodes) \o rest, what, nodes, rest)
<1> DEFINE items == Visits(what, nodes) \o rest
<1> DEFINE r == [n \in DOMAIN nodes |-> Do(what, nodes[n])]
           k == Len(nodes)
<1>1. k \in Nat /\ DOMAIN nodes = 1 .. k /\ Len(rest) \in Nat
  BY SequenceFacts
<1>2. r = [n \in 1 .. k |-> r[n]] /\ \A n \in 1 .. k : r[n] = Do(what, nodes[n])
  BY <1>1, Zenon
<1>3. items = r \o rest
  BY DEF Visits
<1> HIDE DEF r, k, items
<1>4. IsSequence(r) /\ Len(r) = k
  BY <1>1, <1>2, FunctionFacts
<1>5. /\ IsSequence(r \o rest) /\ Len(r \o rest) = Len(r) + Len(rest)
      /\ \A m \in 1 .. Len(r) : (r \o rest)[m] = r[m]
      /\ \A m \in 1 .. Len(rest) : (r \o rest)[Len(r) + m] = rest[m]
      /\ \A p \in 1 .. Len(r \o rest) :
             p \in 1 .. Len(r) \/ \E m \in 1 .. Len(rest) : p = Len(r) + m
  <2>1. IsSequence(rest)
    OBVIOUS
  <2> QED BY ONLY <1>4, <2>1, ConcatFacts
<1>6. /\ IsSequence(items) /\ Len(items) = k + Len(rest)
      /\ \A p \in 1 .. k : items[p] = Do(what, nodes[p])
      /\ \A p \in 1 .. Len(rest) : items[k + p] = rest[p]
      /\ \A p \in 1 .. Len(items) : p \in 1 .. k \/ \E m \in 1 .. Len(rest) : p = k + m
  BY <1>2, <1>3, <1>4, <1>5
<1> QED BY <1>1, <1>6 DEF k, items, VisitsFirst

(* The item for an expression.                                             *)
LEMMA ExpressionItem ==
    ASSUME NEW Nodes, NEW node \in Nodes
    PROVE  LET item == Do("expr", node)
           IN  /\ item.do = "expr" /\ item.node = node /\ ItemOK(item, Nodes)
               /\ Gain("vals", item) = 1 /\ Need("vals", item) = 0
BY DEF Do, ItemOK, Gain, Need

(* The work of an expression is replaced by work that leaves one value.    *)
LEMMA PushKeeps ==
    ASSUME NEW T, NEW Nodes, GenOK(T, Nodes), Doing("expr"),
           NEW items, IsSequence(items),
           \A p \in 1 .. Len(items) : ItemOK(items[p], Nodes) /\ items[p].do \in {"expr", "build"},
           NEW g \in [1 .. Len(items) + 1 -> Nat], g[1] = Len(vals),
           g[Len(items) + 1] = Len(vals) + 1,
           \A p \in 1 .. Len(items) : /\ g[p + 1] = g[p] + Gain("vals", items[p])
                                      /\ g[p] >= Need("vals", items[p]),
           Push(items)
    PROVE  GenOK(T, Nodes)'
<1> DEFINE u == items \o Tail(todo)
<1>1. /\ Working(T, Nodes, Current, todo, vals, attrs, symbolTable)
      /\ FunctionsOK(funcs) /\ funcs # << >> /\ IsSequence(todo)
      /\ todo # << >> /\ todo[1].do = "expr"
  BY AtWork
<1>2. /\ Gain("vals", todo[1]) = 1 /\ todo[1].do \in WorkDos
      /\ \A p \in 1 .. Len(items) : items[p].do \in WorkDos /\ items[p].do \notin LiteralDos
  BY <1>1 DEF Gain, WorkDos, LiteralDos
<1>3. LiteralPart(u, 0, Len(attrs))
  <2>1. \A p \in 1 .. Len(todo) : todo[p].do \notin LiteralDos
    BY <1>1, NoLiteralLeft DEF Working, LiteralDos
  <2>2. /\ IsSequence(Tail(todo)) /\ Len(Tail(todo)) = Len(todo) - 1
        /\ \A i \in 1 .. Len(todo) - 1 : Tail(todo)[i] = todo[i + 1]
        /\ Len(todo) \in Nat
    BY <1>1, TailFacts, SequenceFacts
  <2> DEFINE r == Tail(todo)
  <2>3. IsSequence(r) /\ \A p \in 1 .. Len(r) : r[p].do \notin LiteralDos
    <3>1. \A p \in 1 .. Len(r) : p + 1 \in 1 .. Len(todo)
      BY <2>2
    <3> QED BY <2>1, <2>2, <3>1
  <2> HIDE DEF r
  <2>4. /\ IsSequence(items \o r)
        /\ \A m \in 1 .. Len(items) : (items \o r)[m] = items[m]
        /\ \A m \in 1 .. Len(r) : (items \o r)[Len(items) + m] = r[m]
        /\ \A p \in 1 .. Len(items \o r) :
               p \in 1 .. Len(items) \/ \E m \in 1 .. Len(r) : p = Len(items) + m
    <3>1. IsSequence(items)
      OBVIOUS
    <3> QED BY ONLY <2>3, <3>1, ConcatFacts
  <2>5. \A p \in 1 .. Len(items \o r) : (items \o r)[p].do \notin LiteralDos
    BY <1>2, <2>3, <2>4
  <2>6. LiteralPart(items \o r, 0, Len(attrs))
    BY <2>4, <2>5, NoLiteral
  <2> QED BY <2>6 DEF r
<1>4. Working(T, Nodes, Current, u, vals, attrs, symbolTable)
  BY <1>1, <1>2, <1>3, WorkPush
<1> HIDE DEF u
<1>5. /\ FunctionsOK(funcs') /\ funcs' # << >>
      /\ Working(T, Nodes, funcs'[Len(funcs')], todo', vals', attrs', symbolTable')
  BY <1>1, <1>4 DEF Push, Current, u
<1> QED BY <1>5, WorkKeeps DEF Push

(* A binary expression goes on with its sides, an access with its left.    *)
LEMMA VisitBinaryKeeps ==
    ASSUME NEW T, NEW Nodes, GenOK(T, Nodes), Grammatical(Nodes), VisitBinary
    PROVE  GenOK(T, Nodes)'
<1>1. Doing("expr") /\ E.k = "binary"
  BY DEF VisitBinary, Visiting
<1>2. /\ E \in Nodes /\ ValuesOK(Current, vals)
  BY <1>1, AtWork DEF ItemOK, E, Working
<1>3. E.c \in Seq(Nodes) /\ Len(E.c) = 2 /\ E.c[1] \in Nodes /\ E.c[2] \in Nodes
  <2>1. E.c \in Seq(Nodes) /\ Len(E.c) = 2
    BY <1>1, <1>2 DEF Grammatical, InGrammar
  <2> QED BY <2>1
<1> DEFINE e1 == Do("expr", E.c[1])
           e2 == Do("expr", E.c[2])
           b == Do("build", E)
           n == Len(vals)
<1>4. /\ n \in Nat
      /\ e1.do = "expr" /\ e2.do = "expr" /\ b.do = "build" /\ b.node = E
      /\ ItemOK(e1, Nodes) /\ ItemOK(e2, Nodes) /\ ItemOK(b, Nodes)
  BY <1>1, <1>2, <1>3, SequenceFacts DEF Do, ItemOK, ValuesOK
<1>5. /\ Gain("vals", e1) = 1 /\ Gain("vals", e2) = 1
      /\ Need("vals", e1) = 0 /\ Need("vals", e2) = 0
      /\ Gain("vals", b) = IF E.name = "." THEN 0 ELSE -1
      /\ Need("vals", b) = IF E.name = "." THEN 1 ELSE 2
  BY <1>1, <1>4 DEF Gain, Need
<1>6. Push(<<e1>> \o (IF E.name = "." THEN << >> ELSE <<e2>>) \o <<b>>)
  BY DEF VisitBinary
<1> HIDE DEF e1, e2, b, n
<1>7. CASE E.name = "."
  <2> DEFINE items == <<e1, b>>
             g == [p \in 1 .. 3 |-> IF p = 1 THEN n ELSE n + 1]
  <2>1. Push(items)
    <3>1. <<e1>> \o << >> \o <<b>> = <<e1, b>>
      BY TupleConcat
    <3> QED BY <1>6, <1>7, <3>1
  <2>2. /\ IsSequence(items) /\ Len(items) = 2 /\ items[1] = e1 /\ items[2] = b
    BY TupleFacts
  <2>3. /\ g \in [1 .. 3 -> Nat] /\ g[1] = n /\ g[2] = n + 1 /\ g[3] = n + 1
    BY <1>4
  <2> HIDE DEF items, g
  <2>4. /\ g \in [1 .. Len(items) + 1 -> Nat] /\ g[Len(items) + 1] = n + 1
        /\ \A p \in 1 .. Len(items) : p = 1 \/ p = 2
    BY <2>2, <2>3
  <2>5. \A p \in 1 .. Len(items) :
            /\ ItemOK(items[p], Nodes) /\ items[p].do \in {"expr", "build"}
            /\ g[p + 1] = g[p] + Gain("vals", items[p]) /\ g[p] >= Need("vals", items[p])
    <3>1. 1 + 1 = 2 /\ 2 + 1 = 3
      OBVIOUS
    <3> QED BY <1>4, <1>5, <1>7, <2>2, <2>3, <2>4, <3>1
  <2> QED BY <1>1, <2>1, <2>2, <2>3, <2>4, <2>5, PushKeeps DEF n
<1>8. CASE E.name # "."
  <2> DEFINE items == <<e1, e2, b>>
             g == [p \in 1 .. 4 |-> IF p = 1 THEN n ELSE IF p = 3 THEN n + 2 ELSE n + 1]
  <2>1. Push(items)
    <3>1. <<e1>> \o <<e2>> \o <<b>> = <<e1, e2, b>>
      BY TupleConcat
    <3> QED BY <1>6, <1>8, <3>1
  <2>2. /\ IsSequence(items) /\ Len(items) = 3 /\ items[1] = e1 /\ items[2] = e2 /\ items[3] = b
    BY TupleFacts
  <2>3. /\ g \in [1 .. 4 -> Nat] /\ g[1] = n /\ g[2] = n + 1 /\ g[3] = n + 2 /\ g[4] = n + 1
    BY <1>4
  <2> HIDE DEF items, g
  <2>4. /\ g \in [1 .. Len(items) + 1 -> Nat] /\ g[Len(items) + 1] = n + 1
        /\ \A p \in 1 .. Len(items) : p = 1 \/ p = 2 \/ p = 3
    BY <2>2, <2>3
  <2>5. \A p \in 1 .. Len(items) :
            /\ ItemOK(items[p], Nodes) /\ items[p].do \in {"expr", "build"}
            /\ g[p + 1] = g[p] + Gain("vals", items[p]) /\ g[p] >= Need("vals", items[p])
    <3>1. 1 + 1 = 2 /\ 2 + 1 = 3 /\ 3 + 1 = 4
      OBVIOUS
    <3> QED BY <1>4, <1>5, <1>8, <2>2, <2>3, <2>4, <3>1
  <2> QED BY <1>1, <2>1, <2>2, <2>3, <2>4, <2>5, PushKeeps DEF n
<1> QED BY <1>7, <1>8

(* A call goes on with its arguments.                                      *)
LEMMA VisitCallKeeps ==
    ASSUME NEW T, NEW Nodes, GenOK(T, Nodes), Grammatical(Nodes), VisitCall
    PROVE  GenOK(T, Nodes)'
<1>1. Doing("expr") /\ E.k = "call"
  BY DEF VisitCall, Visiting
<1>2. E \in Nodes /\ ValuesOK(Current, vals)
  BY <1>1, AtWork DEF ItemOK, E, Working
<1>3. /\ E.c \in Seq(Nodes) /\ IsSequence(E.c)
      /\ \A p \in 1 .. Len(E.c) : E.c[p] \in Nodes
  <2>1. E.c \in Seq(Nodes)
    BY <1>2 DEF Grammatical, InGrammar
  <2> QED BY <2>1, SeqIsSequence
<1> DEFINE b == Do("build", E)
           rest == <<b>>
           n == Len(vals)
           k == Len(E.c)
           items == Visits("expr", E.c) \o rest
<1>4. IsSequence(rest) /\ Len(rest) = 1 /\ rest[1] = b
  BY TupleFacts
<1>5. Push(items)
  BY Zenon DEF VisitCall, Visits
<1> HIDE DEF rest
<1>16. VisitsFirst(items, "expr", E.c, rest)
  BY <1>3, <1>4, VisitsThen
<1> HIDE DEF items
<1>6. IsSequence(items)
  BY <1>16 DEF VisitsFirst
<1>7. /\ Len(items) = k + 1 /\ k \in Nat
      /\ \A p \in 1 .. k : items[p] = Do("expr", E.c[p])
      /\ items[k + 1] = b
  BY <1>4, <1>16 DEF VisitsFirst
<1>8. n \in Nat
  BY <1>2, SequenceFacts DEF ValuesOK
<1>9. /\ b.do = "build" /\ b.node = E /\ ItemOK(b, Nodes)
      /\ Gain("vals", b) = 1 - k /\ Need("vals", b) = k
  BY <1>1, <1>2 DEF Do, ItemOK, Gain, Need
<1>10. ASSUME NEW p \in 1 .. k
       PROVE  /\ items[p].do = "expr" /\ ItemOK(items[p], Nodes)
              /\ Gain("vals", items[p]) = 1 /\ Need("vals", items[p]) = 0
  BY <1>3, <1>7, ExpressionItem
<1> DEFINE g == [p \in 1 .. (k + 1) + 1 |-> IF p <= k + 1 THEN n + (p - 1) ELSE n + 1]
<1> HIDE DEF k, n, b
<1>11. /\ g \in [1 .. (k + 1) + 1 -> Nat] /\ g[1] = n /\ g[(k + 1) + 1] = n + 1
       /\ \A p \in 1 .. k + 1 : g[p] = n + (p - 1)
  BY <1>7, <1>8
<1> HIDE DEF g
<1>12. ASSUME NEW p \in 1 .. k + 1
       PROVE  /\ ItemOK(items[p], Nodes) /\ items[p].do \in {"expr", "build"}
              /\ g[p + 1] = g[p] + Gain("vals", items[p]) /\ g[p] >= Need("vals", items[p])
  <2>1. CASE p \in 1 .. k
    <3>1. p + 1 \in 1 .. k + 1 /\ (p + 1) - 1 = p /\ p \in 1 .. k + 1
      BY <1>7, <2>1
    <3> QED BY <1>8, <1>10, <1>11, <2>1, <3>1
  <2>2. CASE p = k + 1
    <3>1. g[p] = n + k /\ g[p + 1] = n + 1
      BY <1>7, <1>11, <2>2
    <3> QED BY <1>7, <1>8, <1>9, <2>2, <3>1
  <2> QED BY <1>7, <2>1, <2>2
<1>13. g \in [1 .. Len(items) + 1 -> Nat] /\ g[Len(items) + 1] = n + 1
  BY <1>7, <1>11
<1>14. \A p \in 1 .. Len(items) :
          /\ ItemOK(items[p], Nodes) /\ items[p].do \in {"expr", "build"}
          /\ g[p + 1] = g[p] + Gain("vals", items[p]) /\ g[p] >= Need("vals", items[p])
  BY <1>7, <1>12
<1>15. g[1] = Len(vals) /\ g[Len(items) + 1] = Len(vals) + 1
  BY <1>11, <1>13 DEF n
<1> QED BY <1>1, <1>5, <1>6, <1>13, <1>14, <1>15, PushKeeps

(* A print inside an expression fails.                                     *)
LEMMA VisitOtherKeeps ==
    ASSUME NEW T, NEW Nodes, GenOK(T, Nodes), VisitOther
    PROVE  GenOK(T, Nodes)'
BY FailExprKeeps DEF VisitOther, Visiting

(* A number and a literal are built at once.                               *)
LEMMA VisitConstantKeeps ==
    ASSUME NEW T, NEW Nodes, GenOK(T, Nodes), VisitConstant
    PROVE  GenOK(T, Nodes)'
<1>1. Doing("expr")
  BY DEF VisitConstant, Visiting
<1>2. /\ Working(T, Nodes, Current, todo, vals, attrs, symbolTable)
      /\ todo[1].do = "expr" /\ E \in Nodes /\ ClosedTypes(T, Nodes)
  BY <1>1, AtWork DEF ItemOK, E
<1>3. 0 <= Len(vals) /\ Gain("vals", todo[1]) = 1 - 0
  BY <1>2, SequenceFacts DEF Working, ValuesOK, Gain
<1>4. Ranked(<< >>) \in T /\ TensorType(E.dims) \in T
  BY <1>2 DEF ClosedTypes
<1>5. CASE Emit("constant", 0, E, Ranked(<< >>), "")
  BY <1>1, <1>3, <1>4, <1>5, EmitKeeps DEF Operating
<1>6. CASE Emit("constant", 0, E, TensorType(E.dims), "")
  BY <1>1, <1>3, <1>4, <1>6, EmitKeeps DEF Operating
<1> QED BY <1>5, <1>6 DEF VisitConstant

(* The operands of an operation in an expression are there.                *)
LEMMA BuildBinaryKeeps ==
    ASSUME NEW T, NEW Nodes, GenOK(T, Nodes), BuildBinary
    PROVE  GenOK(T, Nodes)'
<1>1. Doing("build") /\ E.k = "binary" /\ E.name # "."
  BY DEF BuildBinary
<1>2. /\ Working(T, Nodes, Current, todo, vals, attrs, symbolTable)
      /\ todo[1].do = "build" /\ ClosedTypes(T, Nodes)
  BY <1>1, AtWork
<1>3. Gain("vals", todo[1]) = 1 - 2 /\ Need("vals", todo[1]) = 2
  BY <1>1, <1>2 DEF Gain, Need, E
<1>4. 2 <= Len(vals) /\ Unranked \in T
  <2>1. Len(vals) >= Need("vals", todo[1]) /\ Len(vals) \in Nat
    BY <1>2, EnoughValues DEF WorkDos
  <2> QED BY <1>2, <1>3, <2>1 DEF ClosedTypes
<1> DEFINE n == 2
<1>8. /\ n \in Nat /\ n # 0 /\ n <= Len(vals) /\ Gain("vals", todo[1]) = 1 - n
      /\ "build" \in {"expr", "build"} /\ "add" # "arg" /\ "mul" # "arg"
  BY <1>3, <1>4
<1>5. CASE Emit("add", n, Null, Unranked, "")
  <2> HIDE DEF n
  <2> QED BY <1>1, <1>4, <1>5, <1>8, EmitKeeps, Zenon
<1>6. CASE Emit("mul", n, Null, Unranked, "")
  <2> HIDE DEF n
  <2> QED BY <1>1, <1>4, <1>6, <1>8, EmitKeeps, Zenon
<1>7. CASE FailExpr
  BY <1>1, <1>7, FailExprKeeps
<1> QED BY <1>5, <1>6, <1>7 DEF BuildBinary

(* An access takes one value, and its type is that of an element.          *)
LEMMA BuildAccessKeeps ==
    ASSUME NEW T, NEW Nodes, GenOK(T, Nodes), BuildAccess
    PROVE  GenOK(T, Nodes)'
<1>1. Doing("build") /\ E.k = "binary" /\ E.name = "."
  BY DEF BuildAccess
<1>2. /\ Working(T, Nodes, Current, todo, vals, attrs, symbolTable)
      /\ todo[1].do = "build" /\ ClosedTypes(T, Nodes)
  BY <1>1, AtWork
<1>3. Gain("vals", todo[1]) = 1 - 1 /\ Need("vals", todo[1]) = 1
  BY <1>1, <1>2 DEF Gain, Need, E
<1>4. 1 <= Len(vals)
  <2>1. Len(vals) >= Need("vals", todo[1]) /\ Len(vals) \in Nat
    BY <1>2, EnoughValues DEF WorkDos
  <2> QED BY <1>3, <2>1
<1> DEFINE type == TypeIn(Top.value).elements[MemberIndex]
           attr == SizedNode("index", "", <<MemberIndex>>, << >>)
<1>5. CASE AccessAsserted /\ Emit("struct_access", 1, attr, type, MemberStruct)
  <2>1. TypeIn(Top.value) \in T
    <3>1. IsValue(Current, Top.value)
      BY <1>2, <1>4, OperandsOK DEF Working
    <3>2. Len(Current.types) = Len(Current.ops)
      BY <1>2 DEF Working, FunctionOK, IsFunction
    <3> QED BY <1>2, <3>1, <3>2 DEF Working, TypesIn, IsValue, TypeIn
  <2>2. type \in T
    BY <1>2, <1>5, <2>1 DEF ClosedTypes, AccessAsserted
  <2> DEFINE n == 1
  <2>3. /\ n \in Nat /\ n # 0 /\ n <= Len(vals) /\ Gain("vals", todo[1]) = 1 - n
        /\ "build" \in {"expr", "build"} /\ "struct_access" # "arg"
    BY <1>3, <1>4
  <2>4. Emit("struct_access", n, attr, type, MemberStruct)
    BY <1>5, Zenon
  <2> HIDE DEF type, attr, n
  <2> QED BY <1>1, <2>2, <2>3, <2>4, EmitKeeps, Zenon
<1>6. CASE FailExpr
  BY <1>1, <1>6, FailExprKeeps
<1>7. CASE Crash
  BY <1>7, CrashKeeps
<1> QED BY <1>5, <1>6, <1>7 DEF BuildAccess

(* A call takes as many values as it has arguments.                        *)
LEMMA BuildCallKeeps ==
    ASSUME NEW T, NEW Nodes, GenOK(T, Nodes), Grammatical(Nodes), BuildCall
    PROVE  GenOK(T, Nodes)'
<1>1. Doing("build") /\ E.k = "call"
  BY DEF BuildCall
<1>2. /\ Working(T, Nodes, Current, todo, vals, attrs, symbolTable)
      /\ todo[1].do = "build" /\ ClosedTypes(T, Nodes) /\ E \in Nodes
  BY <1>1, AtWork DEF ItemOK, E
<1>3. Gain("vals", todo[1]) = 1 - Len(E.c) /\ Need("vals", todo[1]) = Len(E.c)
  BY <1>1, <1>2 DEF Gain, Need, E
<1>4. Len(E.c) <= Len(vals) /\ Unranked \in T /\ Len(E.c) \in Nat
  <2>1. Len(vals) >= Need("vals", todo[1]) /\ Len(vals) \in Nat
    BY <1>2, EnoughValues DEF WorkDos
  <2>2. E.c \in Seq(Nodes)
    BY <1>2 DEF Grammatical, InGrammar
  <2>3. Len(E.c) \in Nat
    BY <2>2
  <2> QED BY <1>2, <1>3, <2>1, <2>3 DEF ClosedTypes
<1>5. CASE Len(E.c) = 1 /\ Emit("transpose", 1, Null, Unranked, "")
  <2> DEFINE n == 1
  <2>1. /\ n \in Nat /\ n # 0 /\ n <= Len(vals) /\ Gain("vals", todo[1]) = 1 - n
        /\ "build" \in {"expr", "build"} /\ "transpose" # "arg"
    <3>1. Len(E.c) = 1
      BY <1>5, Zenon
    <3> QED BY <1>3, <1>4, <3>1
  <2>2. Emit("transpose", n, Null, Unranked, "")
    BY <1>5, Zenon
  <2> HIDE DEF n
  <2> QED BY <1>1, <1>4, <2>1, <2>2, EmitKeeps, Zenon
<1>6. CASE Emit("generic_call", Len(E.c), Node("callee", E.name, << >>), Unranked, "")
  BY <1>1, <1>3, <1>4, <1>6, EmitKeeps DEF Operating
<1>7. CASE FailExpr
  BY <1>1, <1>7, FailExprKeeps
<1> QED BY <1>5, <1>6, <1>7 DEF BuildCall

-----------------------------------------------------------------------------
(* Struct literals are generated.                                          *)

(* The work after a step that made a new type.                             *)
LEMMA WorkKeepsIn ==
    ASSUME NEW T, NEW Nodes, GenOK(T, Nodes), NEW what, Doing(what),
           NEW U, T \subseteq U, ClosedTypes(U, Nodes),
           FunctionsOK(funcs'), funcs' # << >>,
           Working(U, Nodes, funcs'[Len(funcs')], todo', vals', attrs', symbolTable'),
           UNCHANGED <<prog, rec, structMap, status>>
    PROVE  GenOK(U, Nodes)'
<1>1. todo' # << >> /\ AttrsOK(U, attrs')
  BY DEF Working, TodoOK
<1>2. \A x \in DOMAIN structMap' : structMap'[x].type \in U
  BY DEF GenOK, GenState
<1> QED BY <1>1, <1>2 DEF GenOK, GenState, Doing

(* The set of types with a struct type of some of them.                    *)
LEMMA TypesGrow ==
    ASSUME NEW T, NEW Nodes, ClosedTypes(T, Nodes), NEW types,
           \A i \in DOMAIN types : types[i] \in T
    PROVE  ClosedTypes(T \cup {StructOf(types)}, Nodes)
<1>1. /\ StructOf(types) # NoResult /\ StructOf(types).elements = types
      /\ IsStruct(StructOf(types))
  BY DEF StructOf, NoResult, IsStruct
<1> QED BY <1>1 DEF ClosedTypes

(* A struct literal goes on with its attribute, none is there yet.         *)
LEMMA VisitStructLiteralKeeps ==
    ASSUME NEW T, NEW Nodes, GenOK(T, Nodes), VisitStructLiteral
    PROVE  GenOK(T, Nodes)'
<1>1. Doing("expr") /\ E.k = "struct_literal"
  BY DEF VisitStructLiteral, Visiting
<1>2. /\ Working(T, Nodes, Current, todo, vals, attrs, symbolTable)
      /\ FunctionsOK(funcs) /\ funcs # << >> /\ IsSequence(todo)
      /\ todo # << >> /\ todo[1].do = "expr" /\ E \in Nodes /\ ClosedTypes(T, Nodes)
  <2>1. ItemOK(todo[1], Nodes) /\ todo[1].do = "expr"
    BY <1>1, AtWork
  <2>2. E \in Nodes
    BY <2>1 DEF ItemOK, E
  <2> QED BY <1>1, <2>1, <2>2, AtWork
<1> DEFINE a == Do("attr", E)
           s == Do("struct", E)
           items == <<a, s>>
           r == Tail(todo)
           u == items \o r
           n == Len(vals)
           m == Len(attrs)
           g == [p \in 1 .. 3 |-> IF p = 3 THEN n + 1 ELSE n]
           h == [p \in 1 .. 2 |-> IF p = 2 THEN m + 1 ELSE m]
<1>3. n \in Nat /\ m \in Nat
  BY <1>2, SequenceFacts DEF Working, ValuesOK, AttrsOK
<1>4. /\ a.do = "attr" /\ s.do = "struct" /\ ItemOK(a, Nodes) /\ ItemOK(s, Nodes)
      /\ Gain("vals", a) = 0 /\ Gain("vals", s) = 1
      /\ Need("vals", a) = 0 /\ Need("vals", s) = 0
      /\ Gain("attrs", a) = 1 /\ Need("attrs", a) = 0 /\ Need("attrs", s) = 1
  BY <1>1, <1>2 DEF Do, ItemOK, Gain, Need, LiteralKinds
<1>5. IsSequence(items) /\ Len(items) = 2 /\ items[1] = a /\ items[2] = s
  BY TupleFacts
<1>6. Push(items)
  BY DEF VisitStructLiteral
<1>7. g \in [1 .. 3 -> Nat] /\ g[1] = n /\ g[2] = n /\ g[3] = n + 1
  BY <1>3
<1>8. h \in [1 .. 2 -> Nat] /\ h[1] = m /\ h[2] = m + 1
  BY <1>3
<1> HIDE DEF a, s, items, g, h, n, m
<1>9. /\ IsSequence(r) /\ Len(r) = Len(todo) - 1 /\ Len(todo) \in Nat
      /\ \A i \in 1 .. Len(todo) - 1 : r[i] = todo[i + 1]
  BY <1>2, TailFacts, SequenceFacts
<1>10. \A p \in 1 .. Len(r) : r[p].do \notin LiteralDos
  <2>1. \A p \in 1 .. Len(todo) : todo[p].do \notin LiteralDos
    BY <1>2, NoLiteralLeft DEF Working, LiteralDos
  <2>2. \A p \in 1 .. Len(r) : p + 1 \in 1 .. Len(todo)
    BY <1>9
  <2> QED BY <1>9, <2>1, <2>2
<1> HIDE DEF r
<1>11. /\ IsSequence(u) /\ Len(u) = Len(items) + Len(r)
       /\ \A i \in 1 .. Len(items) : u[i] = items[i]
       /\ \A i \in 1 .. Len(r) : u[Len(items) + i] = r[i]
       /\ \A p \in 1 .. Len(u) : p \in 1 .. Len(items) \/ \E i \in 1 .. Len(r) : p = Len(items) + i
  BY ONLY <1>5, <1>9, ConcatFacts
<1> HIDE DEF u
<1>12. LiteralPart(u, 2, m)
  <2>1. u[1] = a /\ u[2] = s /\ 2 <= Len(u)
    BY <1>5, <1>9, <1>11, SequenceFacts
  <2>2. Steps(h, "attrs", u, 2)
    <3>1. \A p \in 1 .. 2 - 1 : p = 1 /\ p + 1 = 2
      OBVIOUS
    <3>2. \A p \in 1 .. 2 : h[p] >= Need("attrs", u[p])
      BY <1>3, <1>4, <1>8, <2>1
    <3>3. \A p \in 1 .. 2 - 1 : h[p + 1] = h[p] + Gain("attrs", u[p])
      BY <1>3, <1>4, <1>8, <2>1, <3>1
    <3> QED BY <3>2, <3>3 DEF Steps
  <2>3. Heights("attrs", u, 2, m)
    BY <1>8, <2>2 DEF Heights
  <2>4. ASSUME NEW p \in 1 .. Len(u) PROVE u[p].do \in LiteralDos <=> p <= 2
    <3>1. CASE p \in 1 .. Len(items)
      BY <1>4, <1>5, <2>1, <3>1 DEF LiteralDos
    <3>2. ASSUME NEW i \in 1 .. Len(r), p = Len(items) + i
          PROVE  u[p].do \in LiteralDos <=> p <= 2
      <4>1. u[p] = r[i] /\ r[i].do \notin LiteralDos
        BY <1>10, <1>11, <3>2
      <4>2. ~ (p <= 2)
        BY <1>5, <1>9, <3>2
      <4> QED BY <4>1, <4>2
    <3> QED BY <1>11, <3>1, <3>2
  <2>5. \A p \in 1 .. 2 - 1 : p = 1
    OBVIOUS
  <2> QED BY <1>4, <2>1, <2>3, <2>4, <2>5 DEF LiteralPart
<1>13. Working(T, Nodes, Current, u, vals, attrs, symbolTable)
  <2>1. Gain("vals", todo[1]) = 1 /\ todo[1].do \in WorkDos
    BY <1>2 DEF Gain, WorkDos
  <2>2. \A p \in 1 .. Len(items) : p = 1 \/ p = 2
    BY <1>5
  <2>3. \A p \in 1 .. Len(items) :
            /\ ItemOK(items[p], Nodes) /\ items[p].do \in WorkDos
            /\ g[p + 1] = g[p] + Gain("vals", items[p]) /\ g[p] >= Need("vals", items[p])
    <3>1. 1 + 1 = 2 /\ 2 + 1 = 3 /\ n >= 0 /\ n + 0 = n
      BY <1>3
    <3> QED BY <1>3, <1>4, <1>5, <1>7, <2>2, <3>1 DEF WorkDos, LiteralDos
  <2>4. /\ g \in [1 .. Len(items) + 1 -> Nat] /\ g[1] = Len(vals)
        /\ g[Len(items) + 1] = Len(vals) + Gain("vals", todo[1])
    BY <1>5, <1>7, <2>1 DEF n
  <2>5. LiteralPart(items \o Tail(todo), 2, Len(attrs))
    BY <1>12 DEF u, r, m
  <2>6. Working(T, Nodes, Current, items \o Tail(todo), vals, attrs, symbolTable)
    BY <1>2, <1>5, <2>1, <2>3, <2>4, <2>5, WorkPush
  <2> QED BY <2>6 DEF u, r
<1>14. /\ FunctionsOK(funcs') /\ funcs' # << >>
       /\ Working(T, Nodes, funcs'[Len(funcs')], todo', vals', attrs', symbolTable')
  BY <1>2, <1>6, <1>13 DEF Push, Current, u, r
<1> QED BY <1>1, <1>6, <1>14, WorkKeeps DEF Push

(* An element of a literal is done, and leaves an attribute or not.        *)
LEMMA ElementDone ==
    ASSUME NEW T, NEW Nodes, GenOK(T, Nodes), NEW what, Doing(what), what \in {"attr", "array"},
           NEW U, T \subseteq U, ClosedTypes(U, Nodes), AttrsOK(U, attrs'),
           Len(attrs') = Len(attrs) + Gain("attrs", todo[1]), todo' = Tail(todo),
           UNCHANGED <<prog, rec, structMap, funcs, symbolTable, vals, status>>
    PROVE  GenOK(U, Nodes)'
<1>1. /\ Working(T, Nodes, Current, todo, vals, attrs, symbolTable)
      /\ FunctionsOK(funcs) /\ funcs # << >> /\ IsSequence(todo)
      /\ todo # << >> /\ todo[1].do \in {"attr", "array"}
  BY AtWork
<1>2. /\ FunctionOK(Current) /\ Current.result = << >> /\ TypesIn(U, Current)
      /\ ValuesOK(Current, vals) /\ Len(vals) \in Nat
  BY <1>1, SequenceFacts DEF Working, TypesIn, ValuesOK
<1>3. PICK m : LiteralPart(todo, m, Len(attrs))
  BY <1>1 DEF Working
<1>4. LiteralPart(Tail(todo), m - 1, Len(attrs'))
  BY <1>1, <1>3, LiteralPop
<1>5. Len(vals) = Len(vals) + Gain("vals", todo[1]) /\ todo[1].do \in WorkDos
  BY <1>1, <1>2 DEF Gain, WorkDos, LiteralDos
<1>6. Working(U, Nodes, Current, Tail(todo), vals, attrs', symbolTable)
  BY <1>1, <1>2, <1>4, <1>5, WorkPop
<1>7. /\ FunctionsOK(funcs') /\ funcs' # << >>
      /\ Working(U, Nodes, funcs'[Len(funcs')], todo', vals', attrs', symbolTable')
  BY <1>1, <1>6 DEF Current
<1> QED BY <1>7, WorkKeepsIn

(* The elements of a literal that have an attribute, before one of them.   *)
KeptBefore(nodes) ==
    [p \in 1 .. Len(nodes) + 1 |-> Cardinality({i \in 1 .. Len(nodes) : i \in Kept(nodes) /\ i < p})]

(* They are counted one by one, up to all that are kept.                   *)
LEMMA KeptCounts ==
    ASSUME NEW nodes, IsSequence(nodes), NEW kept, kept = KeptBefore(nodes)
    PROVE  /\ kept \in [1 .. Len(nodes) + 1 -> Nat]
           /\ kept[1] = 0 /\ kept[Len(nodes) + 1] = Cardinality(Kept(nodes))
           /\ \A p \in 1 .. Len(nodes) :
                  kept[p + 1] = kept[p] + (IF nodes[p].k \in LiteralKinds THEN 1 ELSE 0)
<1> DEFINE L == Len(nodes)
           K == Kept(nodes)
           B(p) == {i \in 1 .. L : i \in K /\ i < p}
<1>1. L \in Nat /\ DOMAIN nodes = 1 .. L
  BY SequenceFacts
<1>2. K \subseteq 1 .. L /\ \A i \in 1 .. L : i \in K <=> nodes[i].k \in LiteralKinds
  BY <1>1 DEF Kept, LiteralKinds
<1>9. kept = [p \in 1 .. L + 1 |-> Cardinality(B(p))]
  BY DEF KeptBefore
<1> HIDE DEF L, K
<1>3. IsFiniteSet(1 .. L)
  BY <1>1, FS_Interval
<1>4. \A p : IsFiniteSet(B(p)) /\ Cardinality(B(p)) \in Nat
  <2> TAKE p
  <2>1. B(p) \subseteq 1 .. L
    OBVIOUS
  <2> HIDE DEF B
  <2> QED BY <1>3, <2>1, FS_Subset, FS_CardinalityType
<1>5. B(1) = {} /\ B(L + 1) = K
  <2>1. \A i \in 1 .. L : ~ (i < 1) /\ i < L + 1
    BY <1>1
  <2> QED BY <1>2, <2>1
<1>6. ASSUME NEW p \in 1 .. L
      PROVE  Cardinality(B(p + 1)) =
             Cardinality(B(p)) + (IF nodes[p].k \in LiteralKinds THEN 1 ELSE 0)
  <2>3. \A i \in 1 .. L : i < p + 1 <=> i < p \/ i = p
    OBVIOUS
  <2>4. ~ (p < p)
    OBVIOUS
  <2>1. CASE nodes[p].k \in LiteralKinds
    <3>1. B(p + 1) = B(p) \cup {p} /\ p \notin B(p)
      BY <1>2, <2>1, <2>3, <2>4
    <3>2. Cardinality(B(p) \cup {p}) = Cardinality(B(p)) + 1
      <4>1. IsFiniteSet(B(p)) /\ p \notin B(p)
        BY <1>4, <3>1
      <4> HIDE DEF B
      <4> QED BY <4>1, FS_AddElement
    <3> QED BY <2>1, <3>1, <3>2
  <2>2. CASE nodes[p].k \notin LiteralKinds
    <3>1. B(p + 1) = B(p)
      BY <1>2, <2>2, <2>3
    <3>2. Cardinality(B(p)) \in Nat
      BY <1>4
    <3> HIDE DEF B
    <3> QED BY <2>2, <3>1, <3>2
  <2> QED BY <2>1, <2>2
<1>7. Cardinality(B(1)) = 0 /\ Cardinality(B(L + 1)) = Cardinality(K)
  BY <1>5, FS_EmptySet
<1>8. /\ kept \in [1 .. L + 1 -> Nat] /\ kept[1] = 0 /\ kept[L + 1] = Cardinality(K)
      /\ \A p \in 1 .. L :
             kept[p + 1] = kept[p] + (IF nodes[p].k \in LiteralKinds THEN 1 ELSE 0)
  <2> HIDE DEF B
  <2>1. \A p \in 1 .. L + 1 : kept[p] = Cardinality(B(p))
    BY <1>9
  <2>2. kept \in [1 .. L + 1 -> Nat]
    BY <1>4, <1>9
  <2>3. 1 \in 1 .. L + 1 /\ L + 1 \in 1 .. L + 1
        /\ \A p \in 1 .. L : p \in 1 .. L + 1 /\ p + 1 \in 1 .. L + 1
    BY <1>1
  <2> QED BY <1>6, <1>7, <2>1, <2>2, <2>3
<1> QED BY <1>8 DEF K, L

(* The elements of a literal in a literal.                                 *)
VisitElements ==
    E.k = "struct_literal" /\ Push(Visits("attr", E.c) \o <<Do("array", E)>>)

(* The elements kept give as many attributes as the literal takes.         *)
LEMMA NestedKeeps ==
    ASSUME NEW T, NEW Nodes, GenOK(T, Nodes), Grammatical(Nodes), Doing("attr"),
           VisitElements
    PROVE  GenOK(T, Nodes)'
<1> DEFINE b == Do("array", E)
           rest == <<b>>
           n == Len(vals)
           a == Len(attrs)
           cs == E.c
           L == Len(cs)
           items == Visits("attr", cs) \o rest
           kept == KeptBefore(cs)
<1>1. /\ Working(T, Nodes, Current, todo, vals, attrs, symbolTable)
      /\ FunctionsOK(funcs) /\ funcs # << >> /\ IsSequence(todo) /\ todo # << >>
      /\ ItemOK(todo[1], Nodes) /\ todo[1].do = "attr"
  BY AtWork
<1>2. E \in Nodes /\ todo[1].node = E
  BY <1>1 DEF ItemOK, E
<1>3. /\ IsSequence(cs) /\ \A p \in 1 .. L : cs[p] \in Nodes
  <2>1. cs \in Seq(Nodes)
    BY <1>2 DEF Grammatical, InGrammar
  <2> QED BY <2>1, SeqIsSequence
<1>4. IsSequence(rest) /\ Len(rest) = 1 /\ rest[1] = b
  BY TupleFacts
<1>5. Push(items)
  BY Zenon DEF VisitElements
<1>6. /\ b.do = "array" /\ b.node = E /\ ItemOK(b, Nodes)
      /\ Gain("vals", b) = 0 /\ Need("vals", b) = 0
      /\ Gain("attrs", b) = 1 - Cardinality(Kept(cs)) /\ Need("attrs", b) = Cardinality(Kept(cs))
  BY <1>2 DEF Do, ItemOK, Gain, Need
<1>7. n \in Nat /\ a \in Nat
  BY <1>1, SequenceFacts DEF Working, ValuesOK, AttrsOK
<1> HIDE DEF rest
<1>8. VisitsFirst(items, "attr", cs, rest)
  BY <1>3, <1>4, VisitsThen
<1>9. /\ kept \in [1 .. L + 1 -> Nat]
      /\ kept[1] = 0 /\ kept[L + 1] = Cardinality(Kept(cs))
      /\ \A p \in 1 .. L :
             kept[p + 1] = kept[p] + (IF cs[p].k \in LiteralKinds THEN 1 ELSE 0)
  BY <1>3, KeptCounts
<1>18. L \in Nat
  BY <1>3, SequenceFacts
<1> HIDE DEF kept
<1> HIDE DEF items, b, n, a
<1>10. /\ IsSequence(items) /\ Len(items) = L + 1
       /\ \A p \in 1 .. L : items[p] = Do("attr", cs[p])
       /\ items[L + 1] = b
  BY <1>4, <1>8, <1>18 DEF VisitsFirst
<1> HIDE DEF L
<1>11. ASSUME NEW p \in 1 .. L
       PROVE  /\ items[p].do = "attr" /\ ItemOK(items[p], Nodes)
              /\ Gain("vals", items[p]) = 0 /\ Need("vals", items[p]) = 0
              /\ Gain("attrs", items[p]) = IF cs[p].k \in LiteralKinds THEN 1 ELSE 0
              /\ Need("attrs", items[p]) = 0
  <2> DEFINE x == cs[p]
             i == items[p]
  <2>1. x \in Nodes /\ i = Do("attr", x)
    BY <1>3, <1>10
  <2> HIDE DEF x, i
  <2>2. i.do = "attr" /\ i.node = x
    BY <2>1 DEF Do
  <2>3. /\ i.do = "attr" /\ ItemOK(i, Nodes)
        /\ Gain("vals", i) = 0 /\ Need("vals", i) = 0
        /\ Gain("attrs", i) = IF x.k \in LiteralKinds THEN 1 ELSE 0
        /\ Need("attrs", i) = 0
    BY <2>1, <2>2 DEF ItemOK, Gain, Need
  <2> QED BY <2>3 DEF x, i
<1> HIDE DEF cs
<1> DEFINE g == [p \in 1 .. (L + 1) + 1 |-> n]
           h == [p \in 1 .. (L + 1) + 1 |-> IF p <= L + 1 THEN a + kept[p] ELSE a + 1]
<1>12. /\ g \in [1 .. (L + 1) + 1 -> Nat] /\ \A p \in 1 .. (L + 1) + 1 : g[p] = n
       /\ h \in [1 .. (L + 1) + 1 -> Nat] /\ h[1] = a /\ h[(L + 1) + 1] = a + 1
       /\ \A p \in 1 .. L + 1 : h[p] = a + kept[p]
  BY <1>7, <1>9, <1>18
<1> HIDE DEF g, h
<1>13. ASSUME NEW p \in 1 .. L + 1
       PROVE  /\ ItemOK(items[p], Nodes) /\ items[p].do \in {"attr", "array"}
              /\ g[p + 1] = g[p] + Gain("vals", items[p]) /\ g[p] >= Need("vals", items[p])
              /\ h[p + 1] = h[p] + Gain("attrs", items[p]) /\ h[p] >= Need("attrs", items[p])
  <2>1. p + 1 \in 1 .. (L + 1) + 1 /\ p \in 1 .. (L + 1) + 1
    BY <1>18
  <2>2. CASE p \in 1 .. L
    <3>1. p + 1 \in 1 .. L + 1
      BY <1>18, <2>2
    <3>2. /\ kept[p] \in Nat
          /\ kept[p + 1] = kept[p] + (IF cs[p].k \in LiteralKinds THEN 1 ELSE 0)
      BY <1>9, <2>1, <2>2
    <3>3. h[p] = a + kept[p] /\ h[p + 1] = a + kept[p + 1] /\ g[p] = n /\ g[p + 1] = n
      BY <1>12, <2>1, <2>2, <3>1
    <3>4. /\ items[p].do = "attr" /\ ItemOK(items[p], Nodes)
          /\ Gain("vals", items[p]) = 0 /\ Need("vals", items[p]) = 0
          /\ Gain("attrs", items[p]) = IF cs[p].k \in LiteralKinds THEN 1 ELSE 0
          /\ Need("attrs", items[p]) = 0
      BY <1>11, <2>2
    <3> DEFINE d == IF cs[p].k \in LiteralKinds THEN 1 ELSE 0
    <3>5. kept[p + 1] = kept[p] + d /\ Gain("attrs", items[p]) = d /\ d \in Nat
      BY <3>2, <3>4
    <3> HIDE DEF d
    <3>6. h[p + 1] = h[p] + Gain("attrs", items[p]) /\ h[p] >= Need("attrs", items[p])
      BY <1>7, <3>2, <3>3, <3>4, <3>5
    <3> QED BY <1>7, <3>3, <3>4, <3>6
  <2>3. CASE p = L + 1
    <3>1. /\ h[p] = a + Cardinality(Kept(cs)) /\ h[p + 1] = a + 1
          /\ Cardinality(Kept(cs)) \in Nat
      BY <1>9, <1>12, <1>18, <2>3
    <3> QED BY <1>6, <1>7, <1>10, <1>12, <2>1, <2>3, <3>1
  <2> QED BY <1>18, <2>2, <2>3
<1>14. PICK m : LiteralPart(todo, m, Len(attrs))
  BY <1>1 DEF Working
<1>15. LiteralPart(items \o Tail(todo), Len(items) + m - 1, Len(attrs))
  <2>1. Gain("attrs", todo[1]) = 1
    <3>1. E.k \in LiteralKinds
      BY DEF VisitElements, LiteralKinds
    <3> QED BY <1>1, <1>2, <3>1 DEF Gain
  <2>2. /\ h \in [1 .. Len(items) + 1 -> Nat] /\ h[1] = Len(attrs)
        /\ h[Len(items) + 1] = Len(attrs) + Gain("attrs", todo[1])
    BY <1>10, <1>12, <2>1 DEF a
  <2>3. \A p \in 1 .. Len(items) :
            /\ items[p].do \in {"attr", "array"}
            /\ h[p + 1] = h[p] + Gain("attrs", items[p]) /\ h[p] >= Need("attrs", items[p])
    BY <1>10, <1>13
  <2> QED BY <1>1, <1>10, <1>14, <2>2, <2>3, LiteralPush
<1>16. Working(T, Nodes, Current, items \o Tail(todo), vals, attrs, symbolTable)
  <2>1. Gain("vals", todo[1]) = 0 /\ todo[1].do \in WorkDos
    BY <1>1 DEF Gain, WorkDos, LiteralDos
  <2>2. /\ g \in [1 .. Len(items) + 1 -> Nat] /\ g[1] = Len(vals)
        /\ g[Len(items) + 1] = Len(vals) + Gain("vals", todo[1])
    BY <1>7, <1>10, <1>12, <1>18, <2>1 DEF n
  <2>3. \A p \in 1 .. Len(items) :
            /\ ItemOK(items[p], Nodes) /\ items[p].do \in WorkDos
            /\ g[p + 1] = g[p] + Gain("vals", items[p]) /\ g[p] >= Need("vals", items[p])
    BY <1>10, <1>13 DEF WorkDos, LiteralDos
  <2> QED BY <1>1, <1>10, <1>15, <2>1, <2>2, <2>3, WorkPush
<1>17. /\ FunctionsOK(funcs') /\ funcs' # << >>
       /\ Working(T, Nodes, funcs'[Len(funcs')], todo', vals', attrs', symbolTable')
  BY <1>1, <1>5, <1>16 DEF Push, Current
<1> QED BY <1>5, <1>17, WorkKeeps DEF Push

(* One more attribute.                                                     *)
LEMMA AttrMore ==
    ASSUME NEW T, NEW as, AttrsOK(T, as), NEW attr, NEW type \in T
    PROVE  /\ AttrsOK(T, Append(as, [attr |-> attr, type |-> type]))
           /\ Len(Append(as, [attr |-> attr, type |-> type])) = Len(as) + 1 /\ Len(as) \in Nat
<1> DEFINE r == [attr |-> attr, type |-> type]
           bs == Append(as, r)
<1>1. IsSequence(as) /\ Len(as) \in Nat /\ r.type = type
  BY SequenceFacts DEF AttrsOK
<1> HIDE DEF r
<1>2. /\ IsSequence(bs) /\ Len(bs) = Len(as) + 1
      /\ \A i \in 1 .. Len(as) : bs[i] = as[i]
      /\ bs[Len(as) + 1] = r
  BY <1>1, AppendFacts
<1> HIDE DEF bs
<1>3. ASSUME NEW i \in 1 .. Len(bs) PROVE bs[i].type \in T
  <2>1. CASE i \in 1 .. Len(as)
    BY <1>2, <2>1 DEF AttrsOK
  <2>2. CASE i = Len(as) + 1
    BY <1>1, <1>2, <2>2
  <2>3. i \in 1 .. Len(as) \/ i = Len(as) + 1
    <3> DEFINE x == Len(as)
               y == Len(bs)
    <3>1. x \in Nat /\ y = x + 1 /\ i \in 1 .. y
      BY <1>1, <1>2
    <3> HIDE DEF x, y
    <3>2. i \in 1 .. x \/ i = x + 1
      BY ONLY <3>1
    <3> QED BY <3>2 DEF x
  <2> QED BY <2>1, <2>2, <2>3
<1> QED BY <1>1, <1>2, <1>3 DEF AttrsOK, bs, r

(* An element is an attribute, is left out, or has elements itself.        *)
LEMMA VisitElementKeeps ==
    ASSUME NEW T, NEW Nodes, GenOK(T, Nodes), Grammatical(Nodes), VisitElement
    PROVE  GenOK(T, Nodes)'
<1>1. Doing("attr")
  BY DEF VisitElement
<1>2. /\ AttrsOK(T, attrs) /\ ClosedTypes(T, Nodes) /\ IsSequence(todo) /\ todo # << >>
      /\ todo[1].do = "attr"
  BY <1>1, AtWork DEF Working
<1>3. CASE E = Null /\ Crash
  BY <1>3, CrashKeeps
<1>4. CASE E.k \in {"tensor", "num"} /\ PushAttr(E, Unranked)
  <2>1. Gain("attrs", todo[1]) = 1
    BY <1>2, <1>4 DEF Gain, LiteralKinds, E
  <2>2. /\ todo' = Tail(todo) /\ attrs' = Append(attrs, [attr |-> E, type |-> Unranked])
        /\ UNCHANGED <<prog, rec, structMap, funcs, symbolTable, vals, status>>
    BY <1>4 DEF PushAttr
  <2>3. Unranked \in T
    BY <1>2 DEF ClosedTypes
  <2>4. AttrsOK(T, attrs') /\ Len(attrs') = Len(attrs) + Gain("attrs", todo[1])
    BY <1>2, <2>1, <2>2, <2>3, AttrMore
  <2> QED BY <1>1, <1>2, <2>2, <2>4, ElementDone
<1>5. CASE VisitElements
  BY <1>1, <1>5, NestedKeeps
<1>6. CASE E.k \notin {"null", "tensor", "num", "struct_literal"} /\ Push(<< >>)
  <2>1. Gain("attrs", todo[1]) = 0
    BY <1>2, <1>6 DEF Gain, LiteralKinds, E
  <2>2. << >> \o Tail(todo) = Tail(todo)
    <3>1. IsSequence(Tail(todo))
      BY <1>2, TailFacts
    <3> QED BY <3>1, ConcatEmptySeq DEF IsSequence
  <2>3. /\ todo' = Tail(todo)
        /\ UNCHANGED <<prog, rec, structMap, funcs, symbolTable, vals, attrs, status>>
    BY <1>6, <2>2 DEF Push
  <2>4. AttrsOK(T, attrs') /\ Len(attrs') = Len(attrs) + Gain("attrs", todo[1])
    BY <1>2, <2>1, <2>3, SequenceFacts DEF AttrsOK
  <2> QED BY <1>1, <1>2, <2>3, <2>4, ElementDone
<1> QED BY <1>3, <1>4, <1>5, <1>6, Zenon DEF VisitElement, VisitElements, Visits

(* The attributes of the elements that were kept are there.                *)
LEMMA ArrayReady ==
    ASSUME NEW T, NEW Nodes, GenOK(T, Nodes), Grammatical(Nodes), Doing("array"),
           NEW n, n = Cardinality(Kept(E.c))
    PROVE  /\ n \in Nat /\ Len(attrs) >= n /\ IsSequence(attrs) /\ Len(attrs) \in Nat
           /\ Gain("attrs", todo[1]) = 1 - n
<1>1. /\ Working(T, Nodes, Current, todo, vals, attrs, symbolTable)
      /\ AttrsOK(T, attrs) /\ IsSequence(todo) /\ todo # << >>
      /\ todo[1].do = "array" /\ ItemOK(todo[1], Nodes)
  BY AtWork DEF Working
<1>2. n \in Nat
  <2>1. E \in Nodes
    BY <1>1 DEF ItemOK, E
  <2>2. E.c \in Seq(Nodes)
    BY <2>1 DEF Grammatical, InGrammar
  <2> DEFINE kept == KeptBefore(E.c)
  <2>3. IsSequence(E.c) /\ kept = KeptBefore(E.c)
    BY <2>2, SeqIsSequence
  <2>4. /\ kept \in [1 .. Len(E.c) + 1 -> Nat] /\ kept[Len(E.c) + 1] = n
    BY <2>3, KeptCounts
  <2>5. Len(E.c) + 1 \in 1 .. Len(E.c) + 1
    BY <2>3, SequenceFacts
  <2> HIDE DEF kept
  <2> QED BY <2>4, <2>5
<1>3. Gain("attrs", todo[1]) = 1 - n /\ Need("attrs", todo[1]) = n
  BY <1>1 DEF Gain, Need, E
<1>4. Len(attrs) >= n
  <2>1. PICK m : LiteralPart(todo, m, Len(attrs))
    BY <1>1 DEF Working
  <2> DEFINE l == Len(attrs) + Gain("attrs", todo[1])
  <2>2. l = Len(attrs) + Gain("attrs", todo[1])
    OBVIOUS
  <2> HIDE DEF l
  <2>3. Len(attrs) >= Need("attrs", todo[1])
    BY <1>1, <2>1, <2>2, LiteralPop
  <2> QED BY <1>3, <2>3
<1>5. IsSequence(attrs) /\ Len(attrs) \in Nat
  BY <1>1, SequenceFacts DEF AttrsOK
<1> QED BY <1>2, <1>3, <1>4, <1>5

(* The type of a literal is that of its elements.                          *)
LEMMA BuildArrayKeeps ==
    ASSUME NEW T, NEW Nodes, GenOK(T, Nodes), Grammatical(Nodes), BuildArray
    PROVE  \E U : GenOK(U, Nodes)'
<1>1. Doing("array")
  BY DEF BuildArray
<1> DEFINE n == Cardinality(Kept(E.c))
           elements == SubSeq(attrs, Len(attrs) - n + 1, Len(attrs))
           types == [i \in 1 .. n |-> elements[i].type]
           attr == Node("array", "", [i \in 1 .. n |-> elements[i].attr])
           U == T \cup {StructOf(types)}
<1>2. CASE Crash
  BY <1>2, CrashKeeps
<1>3. CASE /\ n > 0
           /\ attrs' = Append(Without(n, attrs), [attr |-> attr, type |-> StructOf(types)])
           /\ todo' = Tail(todo)
           /\ UNCHANGED <<prog, rec, structMap, funcs, symbolTable, vals, diag, status>>
  <2>1. /\ Working(T, Nodes, Current, todo, vals, attrs, symbolTable)
        /\ AttrsOK(T, attrs) /\ ClosedTypes(T, Nodes) /\ IsSequence(todo) /\ todo # << >>
        /\ todo[1].do = "array" /\ ItemOK(todo[1], Nodes)
    BY <1>1, AtWork DEF Working
  <2> HIDE DEF n
  <2>2. /\ n \in Nat /\ Len(attrs) >= n /\ IsSequence(attrs) /\ Len(attrs) \in Nat
        /\ Gain("attrs", todo[1]) = 1 - n
    BY <1>1, ArrayReady DEF n
  <2>5. \A i \in 1 .. n : elements[i].type \in T
    <3>1. Len(attrs) - n + 1 \in 1 .. Len(attrs) + 1
          /\ Len(attrs) \in (Len(attrs) - n + 1) - 1 .. Len(attrs)
      BY <2>2
    <3>2. \A i \in 1 .. Len(attrs) - (Len(attrs) - n + 1) + 1 :
              elements[i] = attrs[(Len(attrs) - n + 1) + i - 1]
      BY <2>2, <3>1, SubSeqFacts
    <3> HIDE DEF elements
    <3> TAKE i \in 1 .. n
    <3>3. i \in 1 .. Len(attrs) - (Len(attrs) - n + 1) + 1
          /\ (Len(attrs) - n + 1) + i - 1 \in 1 .. Len(attrs)
      BY <2>2
    <3> QED BY <2>1, <3>2, <3>3 DEF AttrsOK
  <2>6. ClosedTypes(U, Nodes) /\ T \subseteq U /\ StructOf(types) \in U
    <3>1. \A i \in DOMAIN types : types[i] \in T
      BY <2>5
    <3> HIDE DEF types
    <3> QED BY <2>1, <3>1, TypesGrow
  <2> DEFINE w == Without(n, attrs)
             type == StructOf(types)
  <2>7. AttrsOK(U, w) /\ Len(w) = Len(attrs) - n
    <3>1. 1 \in 1 .. Len(attrs) + 1 /\ Len(attrs) - n \in 1 - 1 .. Len(attrs)
      BY <2>2
    <3>2. /\ IsSequence(w) /\ Len(w) = (Len(attrs) - n) - 1 + 1
          /\ \A i \in 1 .. (Len(attrs) - n) - 1 + 1 : w[i] = attrs[1 + i - 1]
      BY <2>2, <3>1, SubSeqFacts DEF Without
    <3> HIDE DEF w, U
    <3>3. ASSUME NEW i \in 1 .. Len(w) PROVE w[i].type \in U
      <4>1. i \in 1 .. Len(attrs) /\ 1 + i - 1 = i /\ i \in 1 .. (Len(attrs) - n) - 1 + 1
        BY <2>2, <3>2
      <4> QED BY <2>1, <2>6, <3>2, <4>1 DEF AttrsOK
    <3>4. Len(w) = Len(attrs) - n
      BY <2>2, <3>2
    <3> QED BY <3>2, <3>3, <3>4 DEF AttrsOK
  <2>10. attrs' = Append(w, [attr |-> attr, type |-> type])
    BY <1>3, Zenon
  <2>11. /\ todo' = Tail(todo)
         /\ UNCHANGED <<prog, rec, structMap, funcs, symbolTable, vals, status>>
    BY <1>3, Zenon
  <2> HIDE DEF w, U, type, attr
  <2>8. AttrsOK(U, attrs') /\ Len(attrs') = Len(w) + 1
    BY <2>6, <2>7, <2>10, AttrMore DEF type
  <2>12. Len(attrs') = Len(attrs) + Gain("attrs", todo[1])
    BY <2>2, <2>7, <2>8
  <2>13. PICK V : V = U
    OBVIOUS
  <2>14. T \subseteq V /\ ClosedTypes(V, Nodes) /\ AttrsOK(V, attrs')
    BY <2>6, <2>8, <2>13
  <2>15. GenOK(V, Nodes)'
    BY <1>1, <2>11, <2>12, <2>14, ElementDone
  <2> QED BY <2>15
<1> QED BY <1>2, <1>3, Zenon DEF BuildArray

(* The attribute of a literal is there when its operation is built.        *)
LEMMA StructReady ==
    ASSUME NEW T, NEW Nodes, GenOK(T, Nodes), Doing("struct")
    PROVE  Len(attrs) \in Nat /\ Len(attrs) >= 1
<1>1. /\ Working(T, Nodes, Current, todo, vals, attrs, symbolTable)
      /\ IsSequence(todo) /\ todo # << >> /\ todo[1].do = "struct"
  BY AtWork
<1>2. PICK m : LiteralPart(todo, m, Len(attrs))
  BY <1>1 DEF Working
<1>3. Len(todo) \in Nat /\ Len(todo) >= 1 /\ Len(attrs) \in Nat
  BY <1>1, SequenceFacts DEF Working, AttrsOK
<1>4. m = 1
  <2>1. m \in Nat /\ m # 0
    BY <1>1, <1>2, <1>3 DEF LiteralPart, LiteralDos
  <2>2. ~ (m > 1)
    <3>1. m > 1 => 1 \in 1 .. m - 1
      BY <2>1
    <3> QED BY <1>1, <1>2, <2>1, <3>1 DEF LiteralPart
  <2> QED BY <2>1, <2>2
<1>5. Heights("attrs", todo, 1, Len(attrs)) /\ 1 \in 1 .. Len(todo)
  BY <1>2, <1>3, <1>4 DEF LiteralPart
<1> DEFINE l == Len(attrs) + Gain("attrs", todo[1])
<1>6. 1 > 1 => l = Len(attrs) + Gain("attrs", todo[1])
  OBVIOUS
<1> HIDE DEF l
<1>7. Len(attrs) >= Need("attrs", todo[1])
  BY <1>1, <1>5, <1>6, PopHeights
<1>8. Need("attrs", todo[1]) = 1
  BY <1>1 DEF Need
<1> QED BY <1>3, <1>7, <1>8

(* A struct literal is built from its attribute.                           *)
LEMMA BuildStructConstantKeeps ==
    ASSUME NEW T, NEW Nodes, GenOK(T, Nodes), BuildStructConstant
    PROVE  GenOK(T, Nodes)'
<1> DEFINE last == attrs[Len(attrs)]
           op == NewOp("struct_constant", << >>, last.attr)
           type == last.type
           g == funcs'[Len(funcs')]
           v == NextValue
<1>1. Doing("struct")
  BY DEF BuildStructConstant
<1>2. /\ Working(T, Nodes, Current, todo, vals, attrs, symbolTable)
      /\ FunctionsOK(funcs) /\ funcs # << >> /\ ClosedTypes(T, Nodes) /\ IsSequence(todo)
      /\ todo # << >> /\ todo[1].do = "struct"
  BY <1>1, AtWork
<1>3. /\ ValuesOK(Current, vals) /\ Current.result = << >> /\ TypesIn(T, Current)
      /\ AttrsOK(T, attrs)
  BY <1>2 DEF Working
<1>4. type \in T /\ type # NoResult
  <2>1. Len(attrs) \in 1 .. Len(attrs)
    BY <1>1, StructReady
  <2> QED BY <1>2, <1>3, <2>1 DEF AttrsOK, ClosedTypes
<1>5. /\ IsOperation(op) /\ op.kind # "arg"
      /\ \A i \in 1 .. Len(op.args) : IsValue(Current, op.args[i])
  BY EmptyIsSequence DEF NewOp, IsOperation, Operating
<1>6. funcs' = Built(op, type)
  BY DEF BuildStructConstant
<1> HIDE DEF op, type
<1>7. /\ FunctionsOK(funcs') /\ funcs' # << >>
      /\ FunctionOK(g) /\ g.result = << >> /\ TypesIn(T, g)
      /\ \A u : IsValue(Current, u) => IsValue(g, u)
      /\ IsValue(g, v)
  BY <1>2, <1>3, <1>4, <1>5, <1>6, BuiltKeeps
<1> HIDE DEF g, v
<1>8. ValuesOK(g, vals)
  BY <1>3, <1>7 DEF ValuesOK
<1>9. ValuesOK(g, vals') /\ Len(vals') = Len(vals) + Gain("vals", todo[1])
  <2>1. vals' = Append(vals, Result(v, ""))
    BY DEF BuildStructConstant, v
  <2>2. ValuesOK(g, vals') /\ Len(vals') = Len(vals) + 1
    BY ZenonT(60), <1>7, <1>8, <2>1, ValueMore
  <2>3. Gain("vals", todo[1]) = 1
    BY <1>2 DEF Gain
  <2> QED BY <2>2, <2>3
<1>10. AttrsOK(T, << >>) /\ LiteralPart(Tail(todo), 0, Len(<< >>))
  <2>1. AttrsOK(T, << >>)
    BY EmptyIsSequence DEF AttrsOK
  <2>2. PICK m : LiteralPart(todo, m, Len(attrs))
    BY <1>2 DEF Working
  <2> QED BY <1>2, <2>1, <2>2, NoLiteralTail
<1>11. todo[1].do \in WorkDos
  BY <1>2 DEF WorkDos, LiteralDos
<1>12. Working(T, Nodes, g, Tail(todo), vals', << >>, symbolTable)
  BY <1>2, <1>7, <1>9, <1>10, <1>11, WorkPop
<1>13. /\ Working(T, Nodes, g, todo', vals', attrs', symbolTable')
       /\ UNCHANGED <<prog, rec, structMap, status>>
  BY <1>12 DEF BuildStructConstant
<1> QED BY <1>1, <1>7, <1>13, WorkKeeps DEF g

-----------------------------------------------------------------------------
(* Statements are generated.                                               *)

(* Nothing is left of an expression.                                       *)
LEMMA NoHeights ==
    ASSUME NEW t, NEW m, m = 0
    PROVE  Heights("vals", t, m, 0)
<1> DEFINE h == [p \in 1 .. m |-> 0]
<1>1. h \in [1 .. m -> Nat] /\ ~ (m >= 1)
  OBVIOUS
<1> HIDE DEF h
<1>2. Steps(h, "vals", t, m)
  BY DEF Steps
<1> QED BY <1>1, <1>2, Zenon DEF Heights

(* The statement at work, or the block, is done.                           *)
LEMMA StatementDone ==
    ASSUME NEW T, NEW Nodes, GenOK(T, Nodes), NEW what, Doing(what),
           what \in StatementDos \cup {"block"},
           FunctionsOK(funcs'), funcs' # << >>, NEW g, g = funcs'[Len(funcs')],
           FunctionOK(g), g.result = << >>, TypesIn(T, g), ScopesOK(g, symbolTable'),
           Len(symbolTable') = IF what = "block" THEN 1 ELSE 2,
           vals' = << >>, todo' = Tail(todo),
           UNCHANGED <<prog, rec, structMap, attrs, status>>
    PROVE  GenOK(T, Nodes)'
<1>1. /\ Working(T, Nodes, Current, todo, vals, attrs, symbolTable)
      /\ IsSequence(todo) /\ todo # << >> /\ todo[1].do = what /\ TodoOK(todo, Nodes)
  BY AtWork
<1>2. Len(todo) = (IF what = "block" THEN 2 ELSE 3)
  BY <1>1, TodoFacts
<1>3. TodoOK(Tail(todo), Nodes) /\ Len(Tail(todo)) = IF what = "block" THEN 1 ELSE 2
  <2>1. Len(todo) >= 2
    BY <1>2
  <2>2. TodoOK(Tail(todo), Nodes) /\ Len(Tail(todo)) = Len(todo) - 1
    BY <1>1, <2>1, TodoTail
  <2> QED BY <1>2, <2>2
<1>4. LiteralPart(Tail(todo), 0, Len(attrs))
  <2>1. todo[1].do \notin LiteralDos
    BY <1>1 DEF LiteralDos, StatementDos
  <2> QED BY <1>1, <2>1, NoLiteralTail DEF Working
<1>5. Heights("vals", Tail(todo), Len(Tail(todo)) - 2, 0)
  <2>1. CASE what # "block"
    <3>1. Len(Tail(todo)) - 2 = 0
      BY <1>3, <2>1
    <3> QED BY <3>1, NoHeights
  <2>2. CASE what = "block"
    <3> DEFINE m == Len(Tail(todo)) - 2
               h == [p \in 1 .. m |-> 0]
    <3>1. h \in [1 .. m -> Nat] /\ m = -1
      BY <1>3, <2>2
    <3> HIDE DEF h, m
    <3>2. Steps(h, "vals", Tail(todo), m) /\ ~ (m >= 1)
      BY <3>1 DEF Steps
    <3>3. Heights("vals", Tail(todo), m, 0)
      BY <3>1, <3>2, Zenon DEF Heights
    <3> QED BY <3>3 DEF m
  <2> QED BY <2>1, <2>2
<1>6. ValuesOK(g, << >>) /\ Len(<< >>) = 0 /\ AttrsOK(T, attrs)
  BY <1>1, EmptyIsSequence DEF ValuesOK, Working
<1>7. Len(symbolTable') = IF Len(Tail(todo)) = 1 THEN 1 ELSE 2
  BY <1>3
<1>8. Working(T, Nodes, g, Tail(todo), << >>, attrs, symbolTable')
  BY <1>3, <1>4, <1>5, <1>6, <1>7 DEF Working
<1>9. Working(T, Nodes, funcs'[Len(funcs')], todo', vals', attrs', symbolTable')
  BY <1>8
<1> QED BY <1>9, WorkKeeps

(* A statement is put before the rest of the block: its expressions, what  *)
(* is done with their values, and the rest.                                *)
LEMMA StatementKeeps ==
    ASSUME NEW T, NEW Nodes, GenOK(T, Nodes), Doing("block"),
           NEW items, IsSequence(items), Len(items) >= 2,
           \A p \in 1 .. Len(items) : ItemOK(items[p], Nodes),
           items[Len(items)].do = "block", items[Len(items) - 1].do \in StatementDos,
           Need("vals", items[Len(items) - 1]) \in 0 .. Len(items) - 2,
           \A p \in 1 .. Len(items) - 2 : items[p].do = "expr",
           Push(items)
    PROVE  GenOK(T, Nodes)'
<1> DEFINE L == Len(items)
           r == Tail(todo)
           u == items \o r
           h == [p \in 1 .. L - 1 |-> p - 1]
<1>1. /\ Working(T, Nodes, Current, todo, vals, attrs, symbolTable)
      /\ IsSequence(todo) /\ todo # << >> /\ todo[1].do = "block" /\ TodoOK(todo, Nodes)
      /\ FunctionsOK(funcs) /\ funcs # << >>
  BY AtWork
<1>2. Len(todo) = 2 /\ L \in Nat /\ L >= 2
  BY <1>1, TodoFacts, SequenceFacts
<1>3. TodoOK(r, Nodes) /\ Len(r) = 1
  <2>1. Len(todo) >= 2
    BY <1>2
  <2>2. TodoOK(r, Nodes) /\ Len(r) = Len(todo) - 1
    BY <1>1, <2>1, TodoTail
  <2> QED BY <1>2, <2>2
<1> HIDE DEF r
<1>4. IsSequence(r) /\ ItemOK(r[1], Nodes) /\ r[1].do = "finish"
  <2>1. 1 \in 1 .. Len(r)
    BY <1>3
  <2> QED BY <1>3, <2>1 DEF TodoOK
<1>5. /\ IsSequence(u) /\ Len(u) = Len(items) + Len(r)
      /\ \A i \in 1 .. Len(items) : u[i] = items[i]
      /\ \A i \in 1 .. Len(r) : u[Len(items) + i] = r[i]
      /\ \A p \in 1 .. Len(u) : p \in 1 .. Len(items) \/ \E i \in 1 .. Len(r) : p = Len(items) + i
  <2>1. IsSequence(items)
    OBVIOUS
  <2> QED BY ONLY <1>4, <2>1, ConcatFacts
<1> HIDE DEF u
<1>6. /\ IsSequence(u) /\ Len(u) = L + 1 /\ \A i \in 1 .. L : u[i] = items[i]
      /\ u[L + 1] = r[1]
  BY <1>2, <1>3, <1>5
<1>7. /\ \A p \in 1 .. L : ItemOK(items[p], Nodes)
      /\ items[L].do = "block" /\ items[L - 1].do \in StatementDos
      /\ Need("vals", items[L - 1]) \in 0 .. L - 2
      /\ \A p \in 1 .. L - 2 : items[p].do = "expr"
  OBVIOUS
<1> HIDE DEF L
<1>8. u # << >>
  BY <1>2, <1>6, EmptyIsSequence
<1>9. \A p \in 1 .. L + 1 : p \in 1 .. L \/ p = L + 1
  BY <1>2
<1>10. /\ (L + 1) - 1 = L /\ (L + 1) - 2 = L - 1 /\ (L + 1) - 3 = L - 2
       /\ L \in 1 .. L /\ L - 1 \in 1 .. L /\ \A p \in 1 .. L - 2 : p \in 1 .. L
  BY <1>2
<1>11. TodoOK(u, Nodes)
  <2>1. \A p \in 1 .. Len(u) : ItemOK(u[p], Nodes)
    BY <1>4, <1>6, <1>7, <1>9
  <2>2. u[Len(u)].do = "finish" /\ u[Len(u) - 1].do = "block"
        /\ u[Len(u) - 2].do \in StatementDos
    BY ZenonT(60), <1>4, <1>6, <1>7, <1>10
  <2>3. \A p \in 1 .. Len(u) - 3 : u[p].do \in WorkDos
    BY <1>6, <1>7, <1>10 DEF WorkDos
  <2> QED BY <1>6, <1>8, <2>1, <2>2, <2>3 DEF TodoOK
<1>12. Heights("vals", u, L - 1, 0)
  <2>1. /\ h \in [1 .. L - 1 -> Nat] /\ h[1] = 0 /\ \A p \in 1 .. L - 1 : h[p] = p - 1
    BY <1>2
  <2> HIDE DEF h
  <2>2. ASSUME NEW p \in 1 .. L - 2
        PROVE  Gain("vals", u[p]) = 1 /\ Need("vals", u[p]) = 0
    <3>1. u[p].do = "expr"
      BY <1>6, <1>7, <1>10
    <3> QED BY <3>1 DEF Gain, Need
  <2>3. \A p \in 1 .. (L - 1) - 1 :
            /\ p \in 1 .. L - 2 /\ p \in 1 .. L - 1 /\ p + 1 \in 1 .. L - 1
            /\ (p + 1) - 1 = (p - 1) + 1
    BY <1>2
  <2>4. ASSUME NEW p \in 1 .. (L - 1) - 1 PROVE h[p + 1] = h[p] + Gain("vals", u[p])
    <3>1. h[p] = p - 1 /\ h[p + 1] = (p - 1) + 1 /\ Gain("vals", u[p]) = 1
      BY <2>1, <2>2, <2>3
    <3> QED BY <3>1
  <2>5. ASSUME NEW p \in 1 .. L - 1 PROVE h[p] >= Need("vals", u[p])
    <3>1. CASE p \in 1 .. L - 2
      BY <2>1, <2>2, <3>1
    <3>2. CASE p = L - 1
      <4>1. h[p] = L - 2 /\ u[p] = items[L - 1]
        BY <1>2, <1>6, <1>10, <2>1, <3>2
      <4>2. Need("vals", items[L - 1]) \in 0 .. L - 2
        BY <1>7
      <4> QED BY <1>2, <4>1, <4>2
    <3> QED BY <1>2, <3>1, <3>2
  <2>6. Steps(h, "vals", u, L - 1)
    BY <2>4, <2>5 DEF Steps
  <2> QED BY <2>1, <2>6 DEF Heights
<1>13. LiteralPart(u, 0, Len(attrs))
  <2>1. \A p \in 1 .. L + 1 : p \in 1 .. L - 2 \/ p = L - 1 \/ p = L \/ p = L + 1
    BY <1>2
  <2>2. \A p \in 1 .. Len(u) : u[p].do \notin LiteralDos
    BY <1>4, <1>6, <1>7, <1>10, <2>1, ZenonT(60) DEF LiteralDos, StatementDos
  <2> QED BY <1>6, <2>2, NoLiteral
<1>14. Working(T, Nodes, Current, u, vals, attrs, symbolTable)
  <2>1. /\ vals = << >> /\ Len(symbolTable) = 2 /\ FunctionOK(Current)
        /\ Current.result = << >> /\ TypesIn(T, Current) /\ ValuesOK(Current, vals)
        /\ AttrsOK(T, attrs) /\ ScopesOK(Current, symbolTable)
    BY <1>1, <1>2 DEF Working
  <2>2. Len(vals) = 0
    BY <2>1, EmptyIsSequence
  <2>3. Len(u) - 2 = L - 1 /\ Len(u) # 1
    BY <1>2, <1>6
  <2> QED BY <1>11, <1>12, <1>13, <2>1, <2>2, <2>3 DEF Working
<1>15. /\ Working(T, Nodes, funcs'[Len(funcs')], todo', vals', attrs', symbolTable')
       /\ FunctionsOK(funcs') /\ funcs' # << >>
       /\ UNCHANGED <<prog, rec, structMap, status>>
  BY <1>1, <1>14 DEF Push, u, r, Current
<1> QED BY <1>15, WorkKeeps

(* The block at work has statements that the grammar allows.               *)
LEMMA BlockAtWork ==
    ASSUME NEW T, NEW Nodes, GenOK(T, Nodes), Grammatical(Nodes), NEW kind, NextStatement(kind)
    PROVE  /\ Doing("block") /\ First \in Nodes /\ First.c \in Seq(Nodes)
           /\ First.k = "decl" => Len(First.c) = 2
           /\ First.k = "print" => Len(First.c) = 1
           /\ ItemOK(Rest, Nodes) /\ Rest.do = "block"
<1>1. Doing("block") /\ E.c # << >>
  BY DEF NextStatement
<1>2. ItemOK(todo[1], Nodes) /\ todo[1].do = "block"
  BY <1>1, AtWork
<1>3. E.c \in Seq(Nodes) /\ \A n \in 1 .. Len(E.c) : E.c[n].k = "decl" => Len(E.c[n].c) = 2
  BY <1>2 DEF ItemOK, StatementsOK, E
<1> DEFINE s == E.c
<1>4. /\ s \in Seq(Nodes) /\ s # << >> /\ \A n \in 1 .. Len(s) : s[n].k = "decl" => Len(s[n].c) = 2
      /\ First = s[1] /\ Rest = Block(Tail(s))
  BY <1>1, <1>3 DEF First, Rest
<1> HIDE DEF s
<1>5. IsSequence(s) /\ Len(s) \in Nat /\ Len(s) >= 1
  <2>1. IsSequence(s)
    BY <1>4, SeqIsSequence
  <2> QED BY <1>4, <2>1, SequenceFacts
<1>6. First \in Nodes /\ (First.k = "decl" => Len(First.c) = 2)
  <2>1. 1 \in 1 .. Len(s)
    BY <1>5
  <2> QED BY <1>4, <2>1
<1>7. First.c \in Seq(Nodes) /\ (First.k = "print" => Len(First.c) = 1)
  BY <1>6 DEF Grammatical, InGrammar
<1>8. StatementsOK(Tail(s), Nodes)
  <2>1. /\ Tail(s) \in Seq(Nodes) /\ Len(Tail(s)) = Len(s) - 1
        /\ \A i \in 1 .. Len(s) - 1 : Tail(s)[i] = s[i + 1]
    BY <1>4, <1>5, TailFacts
  <2>2. \A n \in 1 .. Len(s) - 1 : n + 1 \in 1 .. Len(s)
    BY <1>5
  <2> QED BY <1>4, <2>1, <2>2 DEF StatementsOK
<1>9. Rest.do = "block" /\ Rest.node.c = Tail(s)
  BY <1>4, Zenon DEF Block, Do, Node, SizedNode
<1>10. ItemOK(Rest, Nodes)
  BY <1>8, <1>9 DEF ItemOK
<1> QED BY <1>1, <1>6, <1>7, <1>9, <1>10

(* A statement with one expression.                                        *)
LEMMA OneExpressionKeeps ==
    ASSUME NEW T, NEW Nodes, GenOK(T, Nodes), Doing("block"), NEW e \in Nodes, NEW d \in Nodes,
           NEW what \in {"declare", "print", "drop"}, what = "declare" => d.k = "decl",
           NEW rest, ItemOK(rest, Nodes), rest.do = "block",
           Push(<<Do("expr", e), Do(what, d), rest>>)
    PROVE  GenOK(T, Nodes)'
<1> DEFINE x == Do("expr", e)
           y == Do(what, d)
           items == <<x, y, rest>>
<1>1. /\ x.do = "expr" /\ ItemOK(x, Nodes)
  BY DEF Do, ItemOK
<1>2. y.do = what /\ y.node = d
  BY DEF Do
<1>3. Push(items)
  OBVIOUS
<1> HIDE DEF x, y
<1>4. ItemOK(y, Nodes) /\ y.do \in StatementDos /\ Need("vals", y) \in 0 .. 1
  BY <1>2 DEF ItemOK, StatementDos, Need
<1>5. IsSequence(items) /\ Len(items) = 3 /\ items[1] = x /\ items[2] = y /\ items[3] = rest
  BY TupleFacts
<1> HIDE DEF items
<1>6. /\ Len(items) >= 2 /\ Len(items) - 1 = 2 /\ Len(items) - 2 = 1
      /\ \A p \in 1 .. Len(items) : p = 1 \/ p = 2 \/ p = 3
      /\ \A p \in 1 .. Len(items) - 2 : p = 1
  BY <1>5
<1>7. /\ \A p \in 1 .. Len(items) : ItemOK(items[p], Nodes)
      /\ items[Len(items)].do = "block" /\ items[Len(items) - 1].do \in StatementDos
      /\ Need("vals", items[Len(items) - 1]) \in 0 .. Len(items) - 2
      /\ \A p \in 1 .. Len(items) - 2 : items[p].do = "expr"
  <2>1. \A p \in 1 .. Len(items) : ItemOK(items[p], Nodes)
    BY <1>1, <1>4, <1>5, <1>6
  <2>2. items[Len(items)].do = "block" /\ items[Len(items) - 1].do \in StatementDos
    BY <1>4, <1>5, <1>6
  <2>3. Need("vals", items[Len(items) - 1]) \in 0 .. Len(items) - 2
    BY <1>4, <1>5, <1>6
  <2>4. \A p \in 1 .. Len(items) - 2 : items[p].do = "expr"
    BY <1>1, <1>5, <1>6
  <2> QED BY <2>1, <2>2, <2>3, <2>4
<1> QED BY <1>3, <1>5, <1>6, <1>7, StatementKeeps

(* A declaration goes on with its initializer.                             *)
LEMMA GenVarDeclKeeps ==
    ASSUME NEW T, NEW Nodes, GenOK(T, Nodes), Grammatical(Nodes), GenVarDecl
    PROVE  GenOK(T, Nodes)'
<1>1. /\ Doing("block") /\ First \in Nodes /\ First.c \in Seq(Nodes) /\ First.k = "decl"
      /\ Len(First.c) = 2 /\ ItemOK(Rest, Nodes) /\ Rest.do = "block"
  <2>1. NextStatement("decl")
    BY DEF GenVarDecl
  <2>2. First.k = "decl"
    BY <2>1 DEF NextStatement, First
  <2> QED BY <2>1, <2>2, BlockAtWork
<1>2. CASE FailFunction(TRUE)
  BY <1>2, FailFunctionKeeps
<1>3. CASE Push(<<Do("expr", First.c[2]), Do("declare", First), Rest>>)
  <2>1. First.c[2] \in Nodes
    BY <1>1
  <2> QED BY <1>1, <1>3, <2>1, OneExpressionKeeps
<1> QED BY <1>2, <1>3 DEF GenVarDecl

(* A print goes on with its operand.                                       *)
LEMMA GenPrintKeeps ==
    ASSUME NEW T, NEW Nodes, GenOK(T, Nodes), Grammatical(Nodes), GenPrint
    PROVE  GenOK(T, Nodes)'
<1>1. /\ Doing("block") /\ First \in Nodes /\ First.c \in Seq(Nodes)
      /\ Len(First.c) = 1 /\ ItemOK(Rest, Nodes) /\ Rest.do = "block"
  <2>1. NextStatement("print")
    BY DEF GenPrint
  <2>2. First.k = "print"
    BY <2>1 DEF NextStatement, First
  <2> QED BY <2>1, <2>2, BlockAtWork
<1>2. First.c[1] \in Nodes
  BY <1>1
<1>3. Push(<<Do("expr", First.c[1]), Do("print", First), Rest>>)
  BY DEF GenPrint
<1> QED BY <1>1, <1>2, <1>3, OneExpressionKeeps

(* An expression statement goes on with the expression.                    *)
LEMMA GenExpressionKeeps ==
    ASSUME NEW T, NEW Nodes, GenOK(T, Nodes), Grammatical(Nodes), GenExpression
    PROVE  GenOK(T, Nodes)'
<1>1. Doing("block") /\ First \in Nodes /\ ItemOK(Rest, Nodes) /\ Rest.do = "block"
  BY BlockAtWork DEF GenExpression
<1>2. Push(<<Do("expr", First), Do("drop", First), Rest>>)
  BY DEF GenExpression
<1> QED BY <1>1, <1>2, OneExpressionKeeps

(* A return goes on with its value, if any.                                *)
LEMMA GenReturnKeeps ==
    ASSUME NEW T, NEW Nodes, GenOK(T, Nodes), Grammatical(Nodes), GenReturn
    PROVE  GenOK(T, Nodes)'
<1> DEFINE nodes == First.c
           x == Do("return", First)
           y == Block(<< >>)
           rest == <<x, y>>
           items == Visits("expr", nodes) \o rest
<1>1. Doing("block") /\ First \in Nodes /\ nodes \in Seq(Nodes)
  BY BlockAtWork DEF GenReturn
<1>2. Push(items)
  BY Zenon DEF GenReturn, Visits
<1>3. x.do = "return" /\ x.node = First /\ ItemOK(x, Nodes)
  BY <1>1 DEF Do, ItemOK
<1>4. y.do = "block" /\ ItemOK(y, Nodes)
  <2>1. y.do = "block" /\ y.node.c = << >>
    BY Zenon DEF Block, Do, Node, SizedNode
  <2>2. StatementsOK(<< >>, Nodes)
    BY DEF StatementsOK
  <2> QED BY <2>1, <2>2 DEF ItemOK
<1>5. IsSequence(rest) /\ Len(rest) = 2 /\ rest[1] = x /\ rest[2] = y
  BY TupleFacts
<1>6. IsSequence(nodes)
  BY <1>1, SeqIsSequence
<1>7. Need("vals", x) = Len(nodes)
  BY <1>3 DEF Need
<1> HIDE DEF nodes, x, y, rest
<1>8. VisitsFirst(items, "expr", nodes, rest)
  BY <1>5, <1>6, VisitsThen
<1> HIDE DEF items
<1>9. /\ IsSequence(items) /\ Len(items) = Len(nodes) + 2 /\ Len(nodes) \in Nat
      /\ \A p \in 1 .. Len(nodes) : items[p] = Do("expr", nodes[p])
      /\ items[Len(nodes) + 1] = x /\ items[Len(nodes) + 2] = y
  BY <1>5, <1>8 DEF VisitsFirst
<1>10. \A p \in 1 .. Len(nodes) : items[p].do = "expr" /\ ItemOK(items[p], Nodes)
  <2> TAKE p \in 1 .. Len(nodes)
  <2>1. nodes[p] \in Nodes
    BY <1>1
  <2>2. items[p] = Do("expr", nodes[p])
    BY <1>9
  <2> QED BY <2>1, <2>2 DEF Do, ItemOK
<1>11. /\ Len(items) >= 2 /\ Len(items) - 1 = Len(nodes) + 1 /\ Len(items) - 2 = Len(nodes)
       /\ \A p \in 1 .. Len(items) :
              p \in 1 .. Len(nodes) \/ p = Len(nodes) + 1 \/ p = Len(nodes) + 2
  BY <1>9
<1>12. /\ \A p \in 1 .. Len(items) : ItemOK(items[p], Nodes)
       /\ \A p \in 1 .. Len(items) - 2 : items[p].do = "expr"
  BY <1>3, <1>4, <1>9, <1>10, <1>11
<1>13. /\ items[Len(items)].do = "block" /\ items[Len(items) - 1].do \in StatementDos
       /\ Need("vals", items[Len(items) - 1]) \in 0 .. Len(items) - 2
  BY <1>3, <1>4, <1>7, <1>9, <1>11 DEF StatementDos
<1> QED BY <1>1, <1>2, <1>9, <1>11, <1>12, <1>13, StatementKeeps

(* A second declaration of a name fails.                                   *)
LEMMA RedeclareKeeps ==
    ASSUME NEW T, NEW Nodes, GenOK(T, Nodes), Redeclare
    PROVE  GenOK(T, Nodes)'
BY FailFunctionKeeps DEF Redeclare

(* The last scope with one more name for a value.                          *)
LEMMA DeclaredKeeps ==
    ASSUME NEW f, ScopesOK(f, symbolTable), Len(symbolTable) = 2, NEW decl,
           NEW v, IsValue(f, v), NEW st, st = Declared(decl, v)
    PROVE  ScopesOK(f, st) /\ Len(st) = 2
<1>1. IsSequence(symbolTable) /\ DOMAIN symbolTable = 1 .. 2
  BY SequenceFacts DEF ScopesOK
<1> DEFINE scope == [name \in {decl.name} \cup DOMAIN symbolTable[2] |->
                        IF name = decl.name THEN [struct |-> decl.c[1].name, value |-> v]
                        ELSE symbolTable[2][name]]
<1>2. st = [symbolTable EXCEPT ![2] = scope]
  BY Zenon DEF Declared
<1>3. ASSUME NEW name \in DOMAIN scope PROVE IsValue(f, scope[name].value)
  <2>1. CASE name = decl.name
    <3>1. scope[name].value = v
      BY <2>1
    <3> QED BY <3>1
  <2>2. CASE name # decl.name
    <3>1. name \in DOMAIN symbolTable[2] /\ scope[name] = symbolTable[2][name]
      BY <2>2
    <3>2. 2 \in 1 .. Len(symbolTable)
      OBVIOUS
    <3> HIDE DEF scope
    <3> QED BY <3>1, <3>2 DEF ScopesOK
  <2> QED BY <2>1, <2>2
<1> HIDE DEF scope
<1>4. /\ st = [s \in 1 .. 2 |-> st[s]] /\ st[1] = symbolTable[1] /\ st[2] = scope
  <2>1. 1 \in 1 .. 2 /\ 2 \in 1 .. 2 /\ 1 # 2
    OBVIOUS
  <2>2. DOMAIN st = 1 .. 2 /\ st[1] = symbolTable[1] /\ st[2] = scope
    BY <1>1, <1>2, <2>1, Zenon
  <2> DEFINE es == [symbolTable EXCEPT ![2] = scope]
  <2>3. DOMAIN es = 1 .. 2
    BY <1>1, Zenon
  <2>4. es = [s \in 1 .. 2 |-> es[s]]
    BY <2>3, Zenon
  <2> QED BY <1>2, <2>2, <2>4, Zenon
<1>5. IsSequence(st) /\ Len(st) = 2
  <2>1. 2 \in Nat
    OBVIOUS
  <2> QED BY <1>4, <2>1, FunctionFacts
<1>6. ASSUME NEW s \in 1 .. Len(st), NEW name \in DOMAIN st[s]
      PROVE  IsValue(f, st[s][name].value)
  <2>1. CASE s = 1
    <3>1. 1 \in 1 .. Len(symbolTable)
      OBVIOUS
    <3> QED BY <1>4, <2>1, <3>1 DEF ScopesOK
  <2>2. CASE s = 2
    BY <1>3, <1>4, <2>2
  <2> QED BY <1>5, <2>1, <2>2
<1> QED BY <1>5, <1>6 DEF ScopesOK

(* A declaration binds its name to a value of the function.                *)
LEMMA DeclareKeeps ==
    ASSUME NEW T, NEW Nodes, GenOK(T, Nodes), Grammatical(Nodes), Declare
    PROVE  GenOK(T, Nodes)'
<1>1. /\ Doing("declare") /\ vals' = << >> /\ todo' = Tail(todo)
      /\ UNCHANGED <<prog, rec, structMap, attrs, status>>
  BY DEF Declare
<1>2. /\ Working(T, Nodes, Current, todo, vals, attrs, symbolTable)
      /\ FunctionsOK(funcs) /\ funcs # << >> /\ ClosedTypes(T, Nodes) /\ IsSequence(todo)
      /\ todo # << >> /\ todo[1].do = "declare" /\ ItemOK(todo[1], Nodes)
      /\ TodoOK(todo, Nodes) /\ FunctionOK(Current)
  BY <1>1, AtWork
<1>3. /\ ValuesOK(Current, vals) /\ Current.result = << >> /\ TypesIn(T, Current)
      /\ ScopesOK(Current, symbolTable)
  BY <1>2 DEF Working
<1>4. Len(symbolTable) = 2
  <2>1. Len(todo) = 3
    BY <1>2, TodoFacts DEF StatementDos
  <2> QED BY <1>2, <2>1 DEF Working
<1>5. Len(vals) \in Nat /\ Len(vals) >= 1
  <2>1. Len(vals) >= Need("vals", todo[1]) /\ Len(vals) \in Nat
    BY <1>2, EnoughValues DEF StatementDos
  <2>2. Need("vals", todo[1]) = 1
    BY <1>2 DEF Need
  <2> QED BY <2>1, <2>2
<1> DEFINE n == 1
<1>6. n \in Nat /\ n <= Len(vals) /\ n # 0
  BY <1>5
<1> HIDE DEF n
<1>7. /\ IsSequence(Operands(n)) /\ Len(Operands(n)) = n
      /\ \A i \in 1 .. n : IsValue(Current, Operands(n)[i])
      /\ Operands(n) # << >> /\ IsValue(Current, Top.value)
  BY <1>3, <1>6, OperandsOK
<1>8. CASE symbolTable' = Declared(E, Top.value) /\ funcs' = funcs
  <2>1. ScopesOK(Current, symbolTable') /\ Len(symbolTable') = 2
    BY <1>3, <1>4, <1>7, <1>8, DeclaredKeeps
  <2>2. FunctionsOK(funcs') /\ funcs' # << >> /\ Current = funcs'[Len(funcs')]
    BY <1>2, <1>8 DEF Current
  <2>3. Len(symbolTable') = IF "declare" = "block" THEN 1 ELSE 2
    BY <2>1
  <2> QED BY <1>1, <1>2, <1>3, <2>1, <2>2, <2>3, StatementDone DEF StatementDos
<1>9. CASE /\ E.c[1].dims # << >> /\ symbolTable' = Declared(E, NextValue)
           /\ funcs' = Built(NewOp("reshape", Operands(1), Null), TypeOf(E.c[1]))
  <2> DEFINE op == NewOp("reshape", Operands(n), Null)
             type == TypeOf(E.c[1])
             g == funcs'[Len(funcs')]
  <2>1. funcs' = Built(op, type)
    BY <1>9 DEF n
  <2>2. type \in T /\ type # NoResult
    <3>1. E \in Nodes /\ E.k = "decl"
      BY <1>2 DEF ItemOK, E
    <3>2. E.c \in Seq(Nodes) /\ E.c # << >> /\ E.c[1].name = "tensor"
      BY <1>9, <3>1 DEF Grammatical, InGrammar
    <3> DEFINE s == E.c
    <3>3. s \in Seq(Nodes) /\ s # << >> /\ s[1].name = "tensor" /\ type = TypeOf(s[1])
      BY <3>2
    <3> HIDE DEF s, type
    <3>4. s[1] \in Nodes
      BY <3>3
    <3>5. type = TensorType(s[1].dims)
      BY <3>3 DEF TypeOf
    <3> QED BY <1>2, <3>4, <3>5 DEF ClosedTypes
  <2>3. op.kind = "reshape" /\ op.args = Operands(n) /\ IsOperation(op)
    BY <1>7 DEF NewOp, IsOperation
  <2> HIDE DEF op, type
  <2>4. \A i \in 1 .. Len(op.args) : IsValue(Current, op.args[i])
    BY <1>7, <2>3
  <2>5. /\ FunctionsOK(funcs') /\ funcs' # << >>
        /\ FunctionOK(g) /\ g.result = << >> /\ TypesIn(T, g)
        /\ \A u : IsValue(Current, u) => IsValue(g, u)
        /\ IsValue(g, NextValue)
    BY <1>2, <1>3, <2>1, <2>2, <2>3, <2>4, BuiltKeeps
  <2>6. g = funcs'[Len(funcs')]
    OBVIOUS
  <2> HIDE DEF g
  <2>7. ScopesOK(g, symbolTable)
    BY <1>3, <2>5 DEF ScopesOK
  <2>8. ScopesOK(g, symbolTable') /\ Len(symbolTable') = 2
    BY <1>4, <1>9, <2>5, <2>7, DeclaredKeeps
  <2>9. Len(symbolTable') = IF "declare" = "block" THEN 1 ELSE 2
    BY <2>8
  <2> QED BY <1>1, <2>5, <2>6, <2>8, <2>9, StatementDone DEF StatementDos
<1> QED BY <1>8, <1>9 DEF Declare

(* A return and a print have their operands.                               *)
LEMMA FinishStatementKeeps ==
    ASSUME NEW T, NEW Nodes, GenOK(T, Nodes), Grammatical(Nodes), FinishStatement
    PROVE  GenOK(T, Nodes)'
<1>1. PICK what \in {"return", "print", "drop"} : Doing(what)
  BY DEF FinishStatement
<1>2. /\ Working(T, Nodes, Current, todo, vals, attrs, symbolTable)
      /\ FunctionsOK(funcs) /\ funcs # << >> /\ ClosedTypes(T, Nodes) /\ IsSequence(todo)
      /\ todo # << >> /\ todo[1].do = what /\ ItemOK(todo[1], Nodes)
      /\ TodoOK(todo, Nodes) /\ FunctionOK(Current)
  BY <1>1, AtWork
<1>3. /\ ValuesOK(Current, vals) /\ Current.result = << >> /\ TypesIn(T, Current)
      /\ ScopesOK(Current, symbolTable)
  BY <1>2 DEF Working
<1>4. Len(symbolTable) = 2
  <2>1. Len(todo) = 3
    BY <1>2, TodoFacts DEF StatementDos
  <2> QED BY <1>2, <2>1 DEF Working
<1>5. /\ vals' = << >> /\ todo' = Tail(todo) /\ symbolTable' = symbolTable
      /\ UNCHANGED <<prog, rec, structMap, attrs, status>>
  BY DEF FinishStatement
<1>6. CASE funcs' = funcs
  <2>1. FunctionsOK(funcs') /\ funcs' # << >> /\ Current = funcs'[Len(funcs')]
    BY <1>2, <1>6 DEF Current
  <2>2. ScopesOK(Current, symbolTable') /\ Len(symbolTable') = IF what = "block" THEN 1 ELSE 2
    BY <1>1, <1>3, <1>4, <1>5
  <2> QED BY <1>1, <1>2, <1>3, <1>5, <2>1, <2>2, StatementDone DEF StatementDos
<1>7. ASSUME NEW n \in Nat, n <= Len(vals), NEW kind \in {"return", "print"},
             kind = "print" => n # 0,
             funcs' = Built(NewOp(kind, Operands(n), Null), NoResult)
      PROVE  GenOK(T, Nodes)'
  <2> DEFINE op == NewOp(kind, Operands(n), Null)
             type == NoResult
             g == funcs'[Len(funcs')]
  <2>1. funcs' = Built(op, type) /\ type \in T \cup {NoResult}
    BY <1>7
  <2>2. /\ IsSequence(Operands(n)) /\ Len(Operands(n)) = n
        /\ \A i \in 1 .. n : IsValue(Current, Operands(n)[i])
        /\ n # 0 => Operands(n) # << >>
    BY <1>3, <1>7, OperandsOK
  <2>3. op.kind = kind /\ op.args = Operands(n) /\ IsOperation(op) /\ op.kind # "arg"
    BY <1>7, <2>2 DEF NewOp, IsOperation, Operating
  <2> HIDE DEF op, type
  <2>4. \A i \in 1 .. Len(op.args) : IsValue(Current, op.args[i])
    BY <2>2, <2>3
  <2>5. /\ FunctionsOK(funcs') /\ funcs' # << >>
        /\ FunctionOK(g) /\ g.result = << >> /\ TypesIn(T, g)
        /\ \A u : IsValue(Current, u) => IsValue(g, u)
    BY <1>2, <1>3, <2>1, <2>3, <2>4, BuiltKeeps
  <2>6. g = funcs'[Len(funcs')]
    OBVIOUS
  <2> HIDE DEF g
  <2>7. ScopesOK(g, symbolTable')
    BY <1>3, <1>5, <2>5 DEF ScopesOK
  <2>8. Len(symbolTable') = IF what = "block" THEN 1 ELSE 2
    BY <1>1, <1>4, <1>5
  <2> QED BY <1>1, <1>5, <2>5, <2>6, <2>7, <2>8, StatementDone DEF StatementDos
<1>8. Len(vals) >= Need("vals", todo[1]) /\ Len(vals) \in Nat
  BY <1>1, <1>2, EnoughValues DEF StatementDos
<1>9. CASE /\ Doing("return")
           /\ funcs' = Built(NewOp("return", Operands(Len(E.c)), Null), NoResult)
  <2>1. Need("vals", todo[1]) = Len(E.c)
    BY <1>9 DEF Need, Doing, E
  <2>2. Len(E.c) \in Nat
    <3>1. E \in Nodes
      BY <1>1, <1>2 DEF ItemOK, E
    <3>2. E.c \in Seq(Nodes)
      BY <3>1 DEF Grammatical, InGrammar
    <3> QED BY <3>2, LenProperties
  <2> DEFINE n == Len(E.c)
  <2>3. n \in Nat /\ n <= Len(vals) /\ funcs' = Built(NewOp("return", Operands(n), Null), NoResult)
    BY <1>8, <1>9, <2>1, <2>2
  <2> HIDE DEF n
  <2> QED BY <1>7, <2>3
<1>10. CASE /\ Doing("print")
            /\ funcs' = Built(NewOp("print", Operands(1), Null), NoResult)
  <2>1. Need("vals", todo[1]) = 1
    BY <1>10 DEF Need, Doing
  <2> DEFINE n == 1
  <2>2. n \in Nat /\ n <= Len(vals) /\ n # 0
        /\ funcs' = Built(NewOp("print", Operands(n), Null), NoResult)
    BY <1>8, <1>10, <2>1
  <2> HIDE DEF n
  <2> QED BY <1>7, <2>2
<1> QED BY <1>6, <1>9, <1>10 DEF FinishStatement

-----------------------------------------------------------------------------
(* The end of a block and of a function.                                   *)

(* The innermost scope is closed.                                          *)
LEMMA ScopeClosed ==
    ASSUME NEW f, NEW st, ScopesOK(f, st), Len(st) >= 1
    PROVE  ScopesOK(f, Without(1, st)) /\ Len(Without(1, st)) = Len(st) - 1
<1> DEFINE w == Without(1, st)
           L == Len(st)
<1>1. IsSequence(st) /\ L \in Nat /\ L >= 1
  BY SequenceFacts DEF ScopesOK
<1>2. 1 \in 1 .. L + 1 /\ L - 1 \in 1 - 1 .. L
  BY <1>1
<1>3. /\ IsSequence(w) /\ Len(w) = (L - 1) - 1 + 1
      /\ \A i \in 1 .. (L - 1) - 1 + 1 : w[i] = st[1 + i - 1]
  BY <1>1, <1>2, SubSeqFacts DEF Without
<1> HIDE DEF w
<1>4. \A i \in 1 .. Len(w) : i \in 1 .. Len(st) /\ w[i] = st[i]
  <2> TAKE i \in 1 .. Len(w)
  <2>1. i \in 1 .. (L - 1) - 1 + 1 /\ i \in 1 .. Len(st) /\ 1 + i - 1 = i
    BY <1>1, <1>3
  <2> QED BY <1>3, <2>1
<1>5. Len(w) = L - 1
  BY <1>1, <1>3
<1>6. ScopesOK(f, w)
  BY <1>3, <1>4 DEF ScopesOK
<1> QED BY <1>5, <1>6 DEF w

(* The end of a block closes its scope.                                    *)
LEMMA EndBlockKeeps ==
    ASSUME NEW T, NEW Nodes, GenOK(T, Nodes), EndBlock
    PROVE  GenOK(T, Nodes)'
<1>1. /\ Doing("block") /\ todo' = Tail(todo) /\ symbolTable' = Without(1, symbolTable)
      /\ UNCHANGED <<prog, rec, structMap, funcs, vals, attrs, status>>
  BY DEF EndBlock
<1>2. /\ Working(T, Nodes, Current, todo, vals, attrs, symbolTable)
      /\ FunctionsOK(funcs) /\ funcs # << >>
      /\ todo[1].do = "block" /\ TodoOK(todo, Nodes) /\ FunctionOK(Current)
  BY <1>1, AtWork
<1>3. Len(todo) = 2
  BY <1>2, TodoFacts
<1>4. /\ vals = << >> /\ Current.result = << >> /\ TypesIn(T, Current)
      /\ ScopesOK(Current, symbolTable) /\ Len(symbolTable) = 2
  BY <1>2, <1>3 DEF Working
<1>5. ScopesOK(Current, symbolTable') /\ Len(symbolTable') = IF "block" = "block" THEN 1 ELSE 2
  <2>1. Len(symbolTable) >= 1
    BY <1>4
  <2>2. ScopesOK(Current, symbolTable') /\ Len(symbolTable') = Len(symbolTable) - 1
    BY <1>1, <1>4, <2>1, ScopeClosed
  <2> QED BY <1>4, <2>2
<1>6. vals' = << >> /\ FunctionsOK(funcs') /\ funcs' # << >> /\ Current = funcs'[Len(funcs')]
  BY <1>1, <1>2, <1>4 DEF Current
<1> QED BY <1>1, <1>2, <1>4, <1>5, <1>6, StatementDone

(* f with a result, as its last operation returns one.                     *)
Returning(f) == [f EXCEPT !.result = <<Unranked>>]

(* A function that ends in a return with a value has a result.             *)
LEMMA ReturningOK ==
    ASSUME NEW f, FunctionOK(f), f.ops # << >>, f.ops[Len(f.ops)].kind = "return",
           f.ops[Len(f.ops)].args # << >>
    PROVE  FunctionOK(Returning(f))
<1> DEFINE g == Returning(f)
<1>1. f = [name |-> f.name, private |-> f.private, ops |-> f.ops, types |-> f.types,
           result |-> f.result]
  BY DEF FunctionOK, IsFunction
<1>2. g = [name |-> f.name, private |-> f.private, ops |-> f.ops, types |-> f.types,
           result |-> <<Unranked>>]
  BY <1>1 DEF Returning
<1> DEFINE r == <<Unranked>>
<1>3. /\ g.ops = f.ops /\ g.types = f.types
      /\ g = [name |-> g.name, private |-> g.private, ops |-> g.ops, types |-> g.types,
              result |-> g.result]
  <2> HIDE DEF r, g
  <2>1. g = [name |-> f.name, private |-> f.private, ops |-> f.ops, types |-> f.types,
             result |-> r]
    BY <1>2 DEF r
  <2> QED BY <2>1
<1> HIDE DEF g
<1>4. IsFunction(g)
  BY <1>3 DEF FunctionOK, IsFunction
<1>5. Len(f.ops) # 0
  BY SequenceFacts DEF FunctionOK, IsFunction
<1>6. \A v \in 1 .. Len(g.ops) :
          /\ IsOperation(g.ops[v])
          /\ \A i \in 1 .. Len(g.ops[v].args) : Usable(g, v, g.ops[v].args[i])
  BY <1>3 DEF FunctionOK, Usable
<1>7. \E n \in 0 .. Len(g.ops) : ParametersFirst(g, n)
  BY <1>3 DEF FunctionOK, ParametersFirst
<1> QED BY <1>3, <1>4, <1>5, <1>6, <1>7 DEF FunctionOK, g

(* The function is finished, with a return at its end.                     *)
LEMMA FinishFunctionKeeps ==
    ASSUME NEW T, NEW Nodes, GenOK(T, Nodes), FinishFunction
    PROVE  GenOK(T, Nodes)'
<1>1. /\ Doing("finish") /\ todo' = << >> /\ symbolTable' = Without(1, symbolTable)
      /\ rec' = rec + 1
      /\ UNCHANGED <<prog, structMap, vals, attrs, status>>
  BY DEF FinishFunction, ClosedParameters
<1>2. /\ Working(T, Nodes, Current, todo, vals, attrs, symbolTable)
      /\ FunctionsOK(funcs) /\ funcs # << >> /\ ClosedTypes(T, Nodes)
      /\ todo[1].do = "finish" /\ TodoOK(todo, Nodes) /\ FunctionOK(Current)
  BY <1>1, AtWork
<1>3. Len(todo) = 1
  BY <1>2, TodoFacts
<1>4. /\ vals = << >> /\ ScopesOK(Current, symbolTable) /\ Len(symbolTable) = 1
      /\ Current.result = << >> /\ TypesIn(T, Current) /\ AttrsOK(T, attrs)
  BY <1>2, <1>3 DEF Working
<1>5. symbolTable' = << >>
  <2>1. Len(symbolTable) >= 1
    BY <1>4
  <2>2. ScopesOK(Current, symbolTable') /\ Len(symbolTable') = Len(symbolTable) - 1
    BY <1>1, <1>4, <2>1, ScopeClosed
  <2> QED BY <1>4, <2>2, SequenceFacts DEF ScopesOK
<1>6. FunctionsOK(funcs')
  <2>1. CASE funcs' = funcs
    BY <1>2, <2>1
  <2>2. CASE funcs' = Built(NewOp("return", << >>, Null), NoResult)
    <3> DEFINE op == NewOp("return", << >>, Null)
    <3>1. /\ IsOperation(op) /\ op.kind # "arg"
          /\ \A i \in 1 .. Len(op.args) : IsValue(Current, op.args[i])
      BY EmptyIsSequence DEF NewOp, IsOperation, Operating
    <3>2. NoResult \in T \cup {NoResult} /\ funcs' = Built(op, NoResult)
      BY <2>2
    <3> HIDE DEF op
    <3> QED BY <1>2, <1>4, <3>1, <3>2, BuiltKeeps
  <2>3. CASE /\ Current.ops # << >> /\ Current.ops[Len(Current.ops)].kind = "return"
             /\ Current.ops[Len(Current.ops)].args # << >>
             /\ funcs' = [funcs EXCEPT ![Len(funcs)].result = <<Unranked>>]
    <3>1. funcs' = WithLast(funcs, Returning(Current))
      BY <2>3, Zenon DEF WithLast, Returning, Current
    <3>2. FunctionOK(Returning(Current))
      BY <1>2, <2>3, ReturningOK
    <3> QED BY <1>2, <3>1, <3>2, LastChanged
  <2> QED BY <2>1, <2>2, <2>3 DEF FinishFunction
<1>7. /\ ClosedTypes(T, Nodes) /\ prog \in Seq(Nodes) /\ rec \in 0 .. Len(prog)
      /\ \A x \in DOMAIN structMap : structMap[x].type \in T
      /\ status = "run" /\ rec < Len(prog)
  BY <1>1, <1>2 DEF GenOK, GenState, Doing
<1>8. rec + 1 \in 0 .. Len(prog)
  BY <1>7, LenProperties
<1> QED BY <1>1, <1>4, <1>5, <1>6, <1>7, <1>8 DEF GenOK, GenState

-----------------------------------------------------------------------------
(* Records.                                                                *)

(* What a step at a record starts from.                                    *)
LEMMA AtRecord ==
    ASSUME NEW T, NEW Nodes, GenOK(T, Nodes), NEW kind, NextRecord(kind)
    PROVE  /\ ClosedTypes(T, Nodes) /\ prog \in Seq(Nodes)
           /\ rec \in Nat /\ rec + 1 \in 0 .. Len(prog) /\ rec < Len(prog)
           /\ FunctionsOK(funcs) /\ AttrsOK(T, attrs)
           /\ \A x \in DOMAIN structMap : structMap[x].type \in T
           /\ symbolTable = << >> /\ vals = << >> /\ todo = << >> /\ status = "run"
           /\ Record \in Nodes /\ Record.k = kind
<1>1. /\ ClosedTypes(T, Nodes) /\ prog \in Seq(Nodes)
      /\ rec \in 0 .. Len(prog) /\ rec < Len(prog)
      /\ FunctionsOK(funcs) /\ AttrsOK(T, attrs)
      /\ \A x \in DOMAIN structMap : structMap[x].type \in T
      /\ symbolTable = << >> /\ vals = << >> /\ todo = << >> /\ status = "run"
      /\ Record.k = kind
  BY DEF NextRecord, GenOK, GenState
<1>2. Len(prog) \in Nat
  BY <1>1, LenProperties
<1>3. rec + 1 \in 1 .. Len(prog) /\ rec \in Nat
  BY <1>1, <1>2
<1>4. Record \in Nodes
  BY <1>1, <1>3 DEF Record
<1>5. rec + 1 \in 0 .. Len(prog)
  BY <1>3
<1> QED BY <1>1, <1>3, <1>4, <1>5

(* A null record stops the compiler.                                       *)
LEMMA GenNullKeeps ==
    ASSUME NEW T, NEW Nodes, GenOK(T, Nodes), GenNull
    PROVE  GenOK(T, Nodes)'
BY CrashKeeps DEF GenNull

(* A type that is not known stops the compiler.                            *)
LEMMA UnknownTypeKeeps ==
    ASSUME NEW T, NEW Nodes, GenOK(T, Nodes), UnknownType
    PROVE  GenOK(T, Nodes)'
<1>1. FunctionsOK(funcs')
  BY DEF UnknownType, GenOK, GenState
<1> QED BY <1>1, StopKeeps DEF UnknownType

(* The declared types are types that are known.                            *)
LEMMA DeclaredTypesOK ==
    ASSUME NEW T, NEW Nodes, ClosedTypes(T, Nodes), Grammatical(Nodes),
           \A x \in DOMAIN structMap : structMap[x].type \in T,
           NEW decls, decls \in Seq(Nodes), \A n \in DOMAIN decls : decls[n].k = "decl",
           AllKnown(decls), NEW types, types = DeclaredTypes(decls)
    PROVE  /\ \A n \in 1 .. Len(decls) : types[n] \in T
           /\ IsSequence(types) /\ Len(types) = Len(decls) /\ Len(decls) \in Nat
<1>1. IsSequence(decls) /\ Len(decls) \in Nat /\ DOMAIN decls = 1 .. Len(decls)
  <2>1. IsSequence(decls)
    BY SeqIsSequence
  <2> QED BY <2>1, SequenceFacts
<1>2. /\ types = [n \in 1 .. Len(decls) |-> types[n]]
      /\ \A n \in 1 .. Len(decls) : types[n] = TypeOf(decls[n].c[1])
  <2> DEFINE r == [n \in DOMAIN decls |-> TypeOf(decls[n].c[1])]
  <2>1. r = [n \in DOMAIN decls |-> r[n]] /\ \A n \in DOMAIN decls : r[n] = TypeOf(decls[n].c[1])
    BY Zenon
  <2>2. types = r
    BY DEF DeclaredTypes
  <2> QED BY <1>1, <2>1, <2>2, Zenon
<1>3. ASSUME NEW n \in 1 .. Len(decls) PROVE TypeOf(decls[n].c[1]) \in T
  <2> DEFINE d == decls[n]
  <2>1. d \in Nodes /\ d.k = "decl" /\ Known(d.c[1])
    BY <1>1 DEF AllKnown
  <2> HIDE DEF d
  <2>2. d.c \in Seq(Nodes) /\ d.c # << >>
    BY <2>1 DEF Grammatical, InGrammar
  <2> DEFINE s == d.c
  <2>3. s \in Seq(Nodes) /\ s # << >>
    BY <2>2
  <2> HIDE DEF s
  <2>4. s[1] \in Nodes
    BY <2>3
  <2>5. CASE d.c[1].name = "tensor"
    <3>1. TensorType(d.c[1].dims) \in T
      BY <2>4 DEF ClosedTypes, s
    <3> QED BY <2>5, <3>1 DEF TypeOf, d
  <2>6. CASE d.c[1].name # "tensor"
    <3>1. d.c[1].name \in DOMAIN structMap
      BY <2>1, <2>6 DEF Known
    <3> QED BY <2>6, <3>1 DEF TypeOf, d
  <2> QED BY <2>5, <2>6
<1>4. IsSequence(types) /\ Len(types) = Len(decls)
  BY <1>1, <1>2, FunctionFacts
<1> QED BY <1>1, <1>2, <1>3, <1>4

(* A struct has the types of its members as elements.                      *)
LEMMA GenStructKeeps ==
    ASSUME NEW T, NEW Nodes, GenOK(T, Nodes), Grammatical(Nodes), GenStruct
    PROVE  \E U : GenOK(U, Nodes)'
<1>1. CASE UnknownType
  BY <1>1, UnknownTypeKeeps
<1> DEFINE types == DeclaredTypes(Record.c)
           U == T \cup {StructOf(types)}
<1>2. CASE /\ AllKnown(Record.c)
           /\ structMap' =
                  [name \in DOMAIN structMap \cup {Record.name} |->
                      IF name \in DOMAIN structMap THEN structMap[name]
                      ELSE [type |-> StructOf(types), members |-> Record.c]]
           /\ rec' = rec + 1
           /\ UNCHANGED <<prog, funcs, symbolTable, todo, vals, attrs, status>>
  <2>1. /\ ClosedTypes(T, Nodes) /\ prog \in Seq(Nodes)
        /\ rec + 1 \in 0 .. Len(prog)
        /\ FunctionsOK(funcs) /\ AttrsOK(T, attrs)
        /\ \A x \in DOMAIN structMap : structMap[x].type \in T
        /\ symbolTable = << >> /\ vals = << >> /\ todo = << >> /\ status = "run"
        /\ Record \in Nodes /\ Record.k = "struct"
    BY AtRecord DEF GenStruct
  <2>2. Record.c \in Seq(Nodes) /\ \A n \in DOMAIN Record.c : Record.c[n].k = "decl"
    BY <2>1 DEF Grammatical, InGrammar
  <2>3. /\ \A n \in 1 .. Len(Record.c) : types[n] \in T
        /\ IsSequence(types) /\ Len(types) = Len(Record.c)
    BY <1>2, <2>1, <2>2, DeclaredTypesOK
  <2>4. \A n \in DOMAIN types : types[n] \in T
    BY <2>3, SequenceFacts
  <2> HIDE DEF types
  <2>5. ClosedTypes(U, Nodes) /\ T \subseteq U /\ StructOf(types) \in U
    BY <2>1, <2>4, TypesGrow
  <2>6. \A x \in DOMAIN structMap' : structMap'[x].type \in U
    <3> DEFINE new == [type |-> StructOf(types), members |-> Record.c]
    <3>1. new.type = StructOf(types)
      OBVIOUS
    <3>2. structMap' = [name \in DOMAIN structMap \cup {Record.name} |->
                           IF name \in DOMAIN structMap THEN structMap[name] ELSE new]
      BY <1>2, Zenon
    <3> HIDE DEF new, U
    <3>3. ASSUME NEW x \in DOMAIN structMap'
          PROVE  \/ x \in DOMAIN structMap /\ structMap'[x] = structMap[x]
                 \/ structMap'[x] = new
      BY <3>2
    <3> QED BY <2>1, <2>5, <3>1, <3>3
  <2> HIDE DEF U
  <2>7. PICK V : V = U
    OBVIOUS
  <2>8. /\ ClosedTypes(V, Nodes) /\ AttrsOK(V, attrs)
        /\ \A x \in DOMAIN structMap' : structMap'[x].type \in V
    BY <2>1, <2>5, <2>6, <2>7 DEF AttrsOK
  <2>9. GenOK(V, Nodes)'
    BY <1>2, <2>1, <2>8 DEF GenOK, GenState
  <2> QED BY <2>9
<1> QED BY <1>1, <1>2, Zenon DEF GenStruct

(* A new function has its parameters as its first values.                  *)
LEMMA NewFunctionOK ==
    ASSUME NEW T, NEW Nodes, ClosedTypes(T, Nodes), Grammatical(Nodes),
           \A x \in DOMAIN structMap : structMap[x].type \in T,
           NEW name, NEW params, params \in Seq(Nodes),
           \A n \in DOMAIN params : params[n].k = "decl", AllKnown(params),
           NEW f, f = NewFunction(name, params)
    PROVE  /\ FunctionOK(f) /\ f.result = << >> /\ TypesIn(T, f)
           /\ Len(params) \in Nat /\ DOMAIN params = 1 .. Len(params)
           /\ \A n \in 1 .. Len(params) : IsValue(f, n)
<1> DEFINE types == DeclaredTypes(params)
           L == Len(params)
           op(n) == NewOp("arg", << >>, Node("param", params[n].name, << >>))
           ops == [n \in DOMAIN params |-> op(n)]
<1>1. /\ \A n \in 1 .. L : types[n] \in T
      /\ IsSequence(types) /\ Len(types) = L /\ L \in Nat
  BY DeclaredTypesOK
<1>2. DOMAIN params = 1 .. L
  BY SeqIsSequence, SequenceFacts
<1>3. f = [name |-> name, private |-> name # "main", ops |-> ops, types |-> types,
           result |-> << >>]
  BY Zenon DEF NewFunction
<1>4. \A n \in 1 .. L : /\ ops[n].kind = "arg" /\ ops[n].args = << >>
                        /\ IsOperation(ops[n])
  <2>1. \A n : op(n).kind = "arg" /\ op(n).args = << >> /\ IsOperation(op(n))
    BY EmptyIsSequence DEF NewOp, IsOperation, Operating
  <2> HIDE DEF op
  <2>2. \A n \in 1 .. L : ops[n] = op(n)
    BY <1>2, Zenon
  <2> QED BY <2>1, <2>2, Zenon
<1>5. ops = [n \in 1 .. L |-> ops[n]]
  <2> HIDE DEF op
  <2> QED BY <1>2, Zenon
<1> HIDE DEF types, ops, L
<1>6. IsSequence(ops) /\ Len(ops) = L
  BY <1>1, <1>5, FunctionFacts
<1>7. /\ f.ops = ops /\ f.types = types /\ f.result = << >> /\ IsFunction(f)
  <2>1. f.ops = ops /\ f.types = types /\ f.result = << >>
    BY <1>3
  <2>2. f = [name |-> f.name, private |-> f.private, ops |-> f.ops, types |-> f.types,
             result |-> f.result]
    BY <1>3
  <2> QED BY <1>1, <1>6, <2>1, <2>2 DEF IsFunction
<1> HIDE DEF op
<1>8. \A n \in 1 .. L : IsValue(f, n) /\ types[n] # NoResult
  BY <1>1, <1>6, <1>7 DEF IsValue, ClosedTypes
<1>9. \A v \in 1 .. Len(f.ops) :
          /\ IsOperation(f.ops[v])
          /\ \A i \in 1 .. Len(f.ops[v].args) : Usable(f, v, f.ops[v].args[i])
  <2> TAKE v \in 1 .. Len(f.ops)
  <2>1. f.ops[v].args = << >> /\ IsOperation(f.ops[v])
    BY <1>4, <1>6, <1>7
  <2>2. Len(f.ops[v].args) = 0
    BY <2>1, EmptyIsSequence
  <2> QED BY <2>1, <2>2
<1>10. \E n \in 0 .. Len(f.ops) : ParametersFirst(f, n)
  <2>1. \A v \in 1 .. Len(f.ops) :
            f.ops[v].kind = "arg" /\ v <= L /\ f.types[v] # NoResult
    BY <1>1, <1>4, <1>6, <1>7, <1>8
  <2>2. ParametersFirst(f, L)
    BY <2>1 DEF ParametersFirst
  <2>3. L \in 0 .. Len(f.ops)
    BY <1>1, <1>6, <1>7
  <2> QED BY <2>2, <2>3
<1>11. FunctionOK(f)
  BY <1>7, <1>9, <1>10 DEF FunctionOK
<1>12. TypesIn(T, f)
  BY <1>1, <1>7 DEF TypesIn
<1> QED BY <1>1, <1>2, <1>7, <1>8, <1>11, <1>12 DEF L

(* The parameters are in the first of the two scopes that are opened.      *)
LEMMA ParametersOK ==
    ASSUME NEW f, NEW params, DOMAIN params = 1 .. Len(params),
           \A n \in 1 .. Len(params) : IsValue(f, n),
           NEW st, st = << >> \o <<Parameters(params), << >>>>
    PROVE  ScopesOK(f, st) /\ Len(st) = 2
<1> DEFINE scope == Parameters(params)
           s == << >>
           t == <<scope, << >>>>
<1>1. IsSequence(s) /\ Len(s) = 0
  BY EmptyIsSequence
<1>2. IsSequence(t) /\ Len(t) = 2 /\ t[1] = scope /\ t[2] = << >>
  BY TupleFacts
<1>3. st = s \o t
  OBVIOUS
<1>4. ASSUME NEW name \in DOMAIN scope PROVE IsValue(f, scope[name].value)
  <2> DEFINE n == CHOOSE m \in DOMAIN params : params[m].name = name
  <2>1. DOMAIN scope = {params[m].name : m \in DOMAIN params}
    BY DEF Parameters
  <2>2. n \in DOMAIN params
    BY SMTT(40), <2>1
  <2>3. scope[name].value = n
    BY <2>1 DEF Parameters
  <2> HIDE DEF n, scope
  <2> QED BY <2>2, <2>3
<1> HIDE DEF s, t, scope
<1>5. /\ IsSequence(s \o t) /\ Len(s \o t) = Len(s) + Len(t)
      /\ \A m \in 1 .. Len(t) : (s \o t)[Len(s) + m] = t[m]
  <2>1. IsSequence(s) /\ IsSequence(t)
    BY <1>1, <1>2
  <2> QED BY ONLY <2>1, ConcatFacts
<1>6. IsSequence(st) /\ Len(st) = 2 /\ st[1] = scope /\ st[2] = << >>
  <2>1. 1 \in 1 .. Len(t) /\ 2 \in 1 .. Len(t) /\ Len(s) + 1 = 1 /\ Len(s) + 2 = 2
    BY <1>1, <1>2
  <2> QED BY <1>1, <1>2, <1>3, <1>5, <2>1
<1>7. DOMAIN << >> = {}
  OBVIOUS
<1>8. ASSUME NEW i \in 1 .. Len(st), NEW name \in DOMAIN st[i]
      PROVE  IsValue(f, st[i][name].value)
  <2>1. CASE i = 1
    BY <1>4, <1>6, <2>1
  <2>2. CASE i = 2
    BY <1>6, <1>7, <2>2
  <2> QED BY <1>6, <2>1, <2>2
<1> QED BY <1>6, <1>8 DEF ScopesOK

(* A function begins with its parameters, all its statements to do.        *)
LEMMA BeginFunctionKeeps ==
    ASSUME NEW T, NEW Nodes, GenOK(T, Nodes), Grammatical(Nodes), BeginFunction
    PROVE  GenOK(T, Nodes)'
<1> DEFINE params == Record.c[1].c
           f == NewFunction(Record.name, params)
<1>1. CASE UnknownType
  BY <1>1, UnknownTypeKeeps
<1>2. CASE /\ AllKnown(params) /\ funcs' = Append(funcs, f)
           /\ IF Distinct(params)
              THEN /\ symbolTable' = symbolTable \o <<Parameters(params), << >>>>
                   /\ todo' = <<Block(Tail(Record.c)), Do("finish", Record)>>
                   /\ status' = status
              ELSE status' = "null" /\ UNCHANGED <<symbolTable, todo>>
           /\ UNCHANGED <<prog, rec, structMap, vals, attrs, diag>>
  <2>1. /\ ClosedTypes(T, Nodes) /\ prog \in Seq(Nodes)
        /\ rec + 1 \in 0 .. Len(prog) /\ rec < Len(prog) /\ rec \in Nat
        /\ FunctionsOK(funcs) /\ AttrsOK(T, attrs)
        /\ \A x \in DOMAIN structMap : structMap[x].type \in T
        /\ symbolTable = << >> /\ vals = << >> /\ todo = << >> /\ status = "run"
        /\ Record \in Nodes /\ Record.k = "def"
    BY AtRecord DEF BeginFunction
  <2> DEFINE c == Record.c
  <2>2. /\ c \in Seq(Nodes) /\ c # << >>
        /\ \A n \in DOMAIN c[1].c : c[1].c[n].k = "decl"
        /\ \A n \in 2 .. Len(c) : c[n].k = "decl" => Len(c[n].c) = 2
    BY <2>1 DEF Grammatical, InGrammar
  <2>3. params = c[1].c
    OBVIOUS
  <2> HIDE DEF c, params
  <2>4. IsSequence(c) /\ Len(c) \in Nat /\ Len(c) >= 1
    <3>1. IsSequence(c)
      BY <2>2, SeqIsSequence
    <3> QED BY <2>2, <3>1, SequenceFacts
  <2>5. params \in Seq(Nodes) /\ \A n \in DOMAIN params : params[n].k = "decl"
    <3>1. c[1] \in Nodes
      <4>1. 1 \in 1 .. Len(c)
        BY <2>4
      <4> QED BY <2>2, <4>1
    <3> QED BY <2>2, <2>3, <3>1 DEF Grammatical, InGrammar
  <2>6. /\ FunctionOK(f) /\ f.result = << >> /\ TypesIn(T, f)
        /\ Len(params) \in Nat /\ DOMAIN params = 1 .. Len(params)
        /\ \A n \in 1 .. Len(params) : IsValue(f, n)
    BY <1>2, <2>1, <2>5, NewFunctionOK
  <2> HIDE DEF f
  <2>7. /\ FunctionsOK(funcs') /\ funcs' # << >> /\ funcs'[Len(funcs')] = f
    <3>1. IsSequence(funcs) /\ Len(funcs) \in Nat
      BY <2>1, SequenceFacts DEF FunctionsOK
    <3>2. /\ IsSequence(funcs') /\ Len(funcs') = Len(funcs) + 1
          /\ \A i \in 1 .. Len(funcs) : funcs'[i] = funcs[i]
          /\ funcs'[Len(funcs) + 1] = f
      BY <1>2, <3>1, AppendFacts
    <3>3. ASSUME NEW i \in 1 .. Len(funcs') PROVE FunctionOK(funcs'[i])
      <4>1. CASE i \in 1 .. Len(funcs)
        BY <2>1, <3>2, <4>1 DEF FunctionsOK
      <4>2. CASE i = Len(funcs) + 1
        BY <2>6, <3>2, <4>2
      <4> QED BY <3>1, <3>2, <4>1, <4>2
    <3>4. funcs' # << >>
      BY <3>1, <3>2, EmptyIsSequence
    <3> QED BY <3>2, <3>3, <3>4 DEF FunctionsOK
  <2>8. CASE ~ Distinct(params)
    <3>1. status' = "null"
      BY <1>2, <2>8
    <3> QED BY <1>2, <2>7, <3>1, StopKeeps
  <2>9. CASE Distinct(params)
    <3> DEFINE x == Block(Tail(c))
               y == Do("finish", Record)
               u == <<x, y>>
    <3>1. /\ symbolTable' = << >> \o <<Parameters(params), << >>>> /\ todo' = u
          /\ status' = "run"
      BY <1>2, <2>1, <2>9 DEF c
    <3>2. x.do = "block" /\ ItemOK(x, Nodes)
      <4>1. x.do = "block" /\ x.node.c = Tail(c)
        BY Zenon DEF Block, Do, Node, SizedNode
      <4>2. StatementsOK(Tail(c), Nodes)
        <5>1. /\ Tail(c) \in Seq(Nodes) /\ Len(Tail(c)) = Len(c) - 1
              /\ \A i \in 1 .. Len(c) - 1 : Tail(c)[i] = c[i + 1]
          BY <2>2, <2>4, TailFacts
        <5>2. \A n \in 1 .. Len(c) - 1 : n + 1 \in 2 .. Len(c)
          BY <2>4
        <5> QED BY <2>2, <5>1, <5>2 DEF StatementsOK
      <4> QED BY <4>1, <4>2 DEF ItemOK
    <3>3. y.do = "finish" /\ ItemOK(y, Nodes)
      BY <2>1 DEF Do, ItemOK
    <3> HIDE DEF x, y
    <3>4. IsSequence(u) /\ Len(u) = 2 /\ u[1] = x /\ u[2] = y /\ u # << >>
      BY TupleFacts
    <3> HIDE DEF u
    <3>5. TodoOK(u, Nodes)
      BY <3>2, <3>3, <3>4 DEF TodoOK
    <3>6. LiteralPart(u, 0, Len(attrs))
      BY <3>2, <3>3, <3>4, NoLiteral DEF LiteralDos
    <3>7. Heights("vals", u, Len(u) - 2, 0)
      <4>1. Len(u) - 2 = 0
        BY <3>4
      <4> QED BY <4>1, NoHeights
    <3>8. ScopesOK(f, symbolTable') /\ Len(symbolTable') = 2
      BY <2>6, <3>1, ParametersOK
    <3>9. ValuesOK(f, << >>) /\ Len(<< >>) = 0
      BY EmptyIsSequence DEF ValuesOK
    <3>10. Len(u) # 1
      BY <3>4
    <3>11. Working(T, Nodes, f, u, << >>, attrs, symbolTable')
      BY <2>1, <2>6, <3>5, <3>6, <3>7, <3>8, <3>9, <3>10 DEF Working
    <3>12. Working(T, Nodes, funcs'[Len(funcs')], todo', vals', attrs', symbolTable')
      BY <1>2, <2>1, <2>7, <3>1, <3>11
    <3>13. rec \in 0 .. Len(prog)
      BY <2>1, LenProperties
    <3> QED BY <1>2, <2>1, <2>7, <3>1, <3>4, <3>12, <3>13 DEF GenOK, GenState
  <2> QED BY <2>8, <2>9
<1> QED BY <1>1, <1>2 DEF BeginFunction

(* The verification of the module changes nothing of it.                   *)
LEMMA VerifyModuleKeeps ==
    ASSUME NEW T, NEW Nodes, GenOK(T, Nodes), VerifyModule
    PROVE  GenOK(T, Nodes)'
BY DEF VerifyModule, GenOK, GenState

-----------------------------------------------------------------------------
(* The theorems.                                                           *)

(* For some set of types, the state of the generator is right.             *)
GenInv(Nodes) == \E T : GenOK(T, Nodes)

(* The generator starts in a right state.                                  *)
LEMMA GenInvInitially ==
    ASSUME NEW Nodes, Grammatical(Nodes), Modules \subseteq Seq(Nodes), Init
    PROVE  GenInv(Nodes)
<1> DEFINE T == {Unranked, Ranked(<< >>)} \cup {TensorType(x.dims) : x \in Nodes}
<1>1. \A t \in T : t # NoResult /\ ~ IsStruct(t)
  BY DEF Unranked, Ranked, NoResult, TensorType, IsStruct
<1>2. ClosedTypes(T, Nodes)
  <2>1. \A x \in Nodes : x.dims \in Seq(Nat)
    BY DEF Grammatical, InGrammar
  <2>2. \A shape \in Seq(Nat) : Ranked(shape) \in Type
    BY DEF Ranked, Type, Shape
  <2>3. Unranked \in Type /\ << >> \in Seq(Nat)
    BY DEF Type
  <2>4. \A x \in Nodes : TensorType(x.dims) \in Type
    BY <2>1, <2>2, <2>3 DEF TensorType
  <2>5. \A t \in T : t \in Type
    BY <2>2, <2>3, <2>4
  <2> QED BY <1>1, <2>5 DEF ClosedTypes
<1> HIDE DEF T
<1>3. prog \in Seq(Nodes) /\ Len(prog) \in Nat
  <2>1. prog \in Seq(Nodes)
    BY DEF Init
  <2> QED BY <2>1, LenProperties
<1>4. FunctionsOK(funcs) /\ AttrsOK(T, attrs)
  BY EmptyIsSequence DEF Init, FunctionsOK, AttrsOK
<1>5. DOMAIN structMap = {}
  BY DEF Init
<1>6. GenOK(T, Nodes)
  BY <1>2, <1>3, <1>4, <1>5 DEF GenOK, GenState, Init
<1> QED BY <1>6 DEF GenInv

(* Every step of the generator keeps it right.                             *)
LEMMA GenInvKept ==
    ASSUME NEW Nodes, Grammatical(Nodes), GenInv(Nodes), [Next]_vars
    PROVE  GenInv(Nodes)'
<1>1. PICK T : GenOK(T, Nodes)
  BY DEF GenInv
<1>2. CASE UNCHANGED vars
  <2>1. GenOK(T, Nodes)'
    BY <1>1, <1>2 DEF vars, GenOK, GenState
  <2> QED BY <2>1 DEF GenInv
<1>3. CASE GenStruct \/ BuildArray
  <2>1. \E U : GenOK(U, Nodes)'
    BY <1>1, <1>3, GenStructKeeps, BuildArrayKeeps
  <2> QED BY <2>1 DEF GenInv
<1>4. CASE \/ GenNull \/ BeginFunction \/ FinishFunction \/ VerifyModule
           \/ GenVarDecl \/ Redeclare \/ Declare \/ GenReturn \/ GenPrint \/ GenExpression
           \/ FinishStatement \/ EndBlock
  <2>1. GenOK(T, Nodes)'
    BY <1>1, <1>4, GenNullKeeps, BeginFunctionKeeps, FinishFunctionKeeps, VerifyModuleKeeps,
       GenVarDeclKeeps, RedeclareKeeps, DeclareKeeps, GenReturnKeeps, GenPrintKeeps,
       GenExpressionKeeps, FinishStatementKeeps, EndBlockKeeps
  <2> QED BY <2>1 DEF GenInv
<1>5. CASE \/ VisitNull \/ VisitVariable \/ VisitConstant \/ VisitBinary \/ VisitCall
           \/ VisitOther \/ VisitStructLiteral \/ VisitElement
           \/ BuildBinary \/ BuildAccess \/ BuildCall \/ BuildStructConstant
  <2>1. VisitNull => GenOK(T, Nodes)'
    BY <1>1, CrashKeeps DEF VisitNull
  <2>2. GenOK(T, Nodes)'
    BY <1>1, <1>5, <2>1, VisitVariableKeeps, VisitConstantKeeps, VisitBinaryKeeps,
       VisitCallKeeps, VisitOtherKeeps, VisitStructLiteralKeeps, VisitElementKeeps,
       BuildBinaryKeeps, BuildAccessKeeps, BuildCallKeeps, BuildStructConstantKeeps
  <2> QED BY <2>2 DEF GenInv
<1> QED BY <1>2, <1>3, <1>4, <1>5 DEF Next, Expression

(* The generator's state is right at every moment.                         *)
LEMMA GenInvAlways ==
    ASSUME NEW Nodes, Grammatical(Nodes), Modules \subseteq Seq(Nodes)
    PROVE  Spec => []GenInv(Nodes)
<1>1. Init => GenInv(Nodes)
  BY GenInvInitially
<1>2. GenInv(Nodes) /\ [Next]_vars => GenInv(Nodes)'
  BY GenInvKept
<1> QED BY <1>1, <1>2, PTL DEF Spec

(* A right function uses values of its own that are defined before.        *)
LEMMA DefinedOperands ==
    ASSUME FunctionsOK(funcs)
    PROVE  OperandsDefined
<1>1. DOMAIN funcs = 1 .. Len(funcs)
  BY SequenceFacts DEF FunctionsOK
<1> SUFFICES ASSUME NEW n \in DOMAIN funcs, NEW v \in DOMAIN funcs[n].ops,
                    NEW i \in DOMAIN funcs[n].ops[v].args
             PROVE  Usable(funcs[n], v, funcs[n].ops[v].args[i])
  BY DEF OperandsDefined, Usable
<1>2. FunctionOK(funcs[n])
  BY <1>1 DEF FunctionsOK
<1>3. v \in 1 .. Len(funcs[n].ops)
  BY <1>2, SequenceFacts DEF FunctionOK, IsFunction
<1>4. i \in 1 .. Len(funcs[n].ops[v].args)
  BY <1>2, <1>3, SequenceFacts DEF FunctionOK, IsOperation
<1> QED BY <1>2, <1>3, <1>4 DEF FunctionOK

(* In every function, at every moment and for whatever modules the parser  *)
(* may have made, an operand is a value of the same function, defined      *)
(* before its use by an operation that has a result: each recursive call   *)
(* of the generator leaves exactly the values its caller takes.            *)
THEOREM OperandsAlwaysDefined ==
    ASSUME NEW Nodes, Grammatical(Nodes), Modules \subseteq Seq(Nodes)
    PROVE  Spec => []OperandsDefined
<1>1. GenInv(Nodes) => OperandsDefined
  BY DefinedOperands DEF GenInv, GenOK, GenState
<1> QED BY <1>1, GenInvAlways, PTL

(* Nothing but a report changes diag.                                      *)
LEMMA DiagKept ==
    ASSUME diag \in BOOLEAN, [Next]_vars
    PROVE  diag' \in BOOLEAN
<1>1. CASE UNCHANGED vars
  BY <1>1 DEF vars
<1>2. ASSUME NEW reported, FailFunction(reported) PROVE diag' \in BOOLEAN
  BY <1>2 DEF FailFunction
<1>3. FailExpr => diag' \in BOOLEAN
  BY <1>2 DEF FailExpr
<1>4. Crash => diag' \in BOOLEAN
  BY DEF Crash
<1>5. ASSUME NEW kind, NEW n, NEW attr, NEW type, NEW struct, Emit(kind, n, attr, type, struct)
      PROVE  diag' \in BOOLEAN
  BY <1>5 DEF Emit
<1>6. ASSUME NEW items, Push(items) PROVE diag' \in BOOLEAN
  BY <1>6 DEF Push
<1>7. ASSUME NEW attr, NEW type, PushAttr(attr, type) PROVE diag' \in BOOLEAN
  BY <1>7 DEF PushAttr
<1>8. UnknownType => diag' \in BOOLEAN
  BY DEF UnknownType
<1>9. CASE GenNull \/ GenStruct \/ BeginFunction \/ FinishFunction \/ VerifyModule
  BY <1>4, <1>8, <1>9
     DEF GenNull, GenStruct, BeginFunction, FinishFunction, VerifyModule
<1>10. CASE GenVarDecl \/ Redeclare \/ Declare \/ GenReturn \/ GenPrint \/ GenExpression
            \/ FinishStatement \/ EndBlock
  BY <1>2, <1>6, <1>10
     DEF GenVarDecl, Redeclare, Declare, GenReturn, GenPrint, GenExpression,
         FinishStatement, EndBlock
<1>11. CASE VisitNull \/ VisitVariable \/ VisitConstant \/ VisitBinary \/ VisitCall
            \/ VisitOther \/ VisitStructLiteral \/ VisitElement
  BY <1>3, <1>4, <1>5, <1>6, <1>7, <1>11
     DEF VisitNull, VisitVariable, VisitConstant, VisitBinary, VisitCall, VisitOther,
         VisitStructLiteral, VisitElement
<1>12. CASE BuildBinary \/ BuildAccess \/ BuildCall \/ BuildArray \/ BuildStructConstant
  BY <1>3, <1>4, <1>5, <1>12
     DEF BuildBinary, BuildAccess, BuildCall, BuildArray, BuildStructConstant
<1> QED BY <1>1, <1>9, <1>10, <1>11, <1>12 DEF Next, Expression

(* The types of the state, and that between two records no scope is open   *)
(* and no value is left.                                                   *)
THEOREM TypeCorrect ==
    ASSUME NEW Nodes, Grammatical(Nodes), Modules \subseteq Seq(Nodes)
    PROVE  Spec => []TypeOK
<1>1. ASSUME GenInv(Nodes), diag \in BOOLEAN PROVE TypeOK
  <2>1. PICK T : GenOK(T, Nodes)
    BY <1>1 DEF GenInv
  <2>2. FunctionsOK(funcs) /\ DOMAIN funcs = 1 .. Len(funcs)
    BY <2>1, SequenceFacts DEF GenOK, GenState, FunctionsOK
  <2>3. ASSUME NEW n \in DOMAIN funcs PROVE DOMAIN funcs[n].ops = DOMAIN funcs[n].types
    <3>1. IsFunction(funcs[n])
      BY <2>2 DEF FunctionsOK, FunctionOK
    <3> QED BY <3>1, SequenceFacts DEF IsFunction
  <2> QED BY <1>1, <2>1, <2>3 DEF GenOK, GenState, TypeOK
<1>2. Init => diag \in BOOLEAN
  BY DEF Init
<1>3. diag \in BOOLEAN /\ [Next]_vars => (diag \in BOOLEAN)'
  BY DiagKept
<1> QED BY <1>1, <1>2, <1>3, GenInvAlways, PTL DEF Spec

-----------------------------------------------------------------------------
(* Rejections.  declare() fails without a message, so it must be shown     *)
(* that a name is in the symbol table only if the function being generated *)
(* has declared it before: the scopes of earlier functions are closed, and *)
(* the order of the statements is that of the source.                      *)

-----------------------------------------------------------------------------
(* Names and statements.                                                   *)

(* The names in scope are those of parameters and of the declarations      *)
(* among the children of def up to the k-th.                               *)
NamesUpTo(def, st, k) ==
    \A s \in 1 .. Len(st) : \A name \in DOMAIN st[s] :
        \/ \E n \in 1 .. Len(def.c[1].c) : def.c[1].c[n].name = name
        \/ \E j \in 2 .. k : j <= Len(def.c) /\ def.c[j].k = "decl" /\ def.c[j].name = name

(* These statements are children of def after the k-th, if there are any.  *)
Follows(nodes, def, k) ==
    \A i \in 1 .. Len(nodes) : k + i <= Len(def.c) /\ nodes[i] = def.c[k + i]

(* The statement at work, if there is one, is the child of def after the   *)
(* k-th, and the block is what follows.                                    *)
Pending(t, def, k) ==
    /\ Len(t) = 2 => Follows(t[1].node.c, def, k)
    /\ Len(t) >= 3 => Follows(t[Len(t) - 1].node.c, def, k + 1)
    /\ Len(t) >= 3 /\ t[Len(t) - 2].do = "declare" =>
           k + 1 <= Len(def.c) /\ t[Len(t) - 2].node = def.c[k + 1]

NamesOK(def, t, st) ==
    def.k = "def" /\ \E k \in Nat : k >= 1 /\ NamesUpTo(def, st, k) /\ Pending(t, def, k)

ReportInv ==
    /\ NullReported
    /\ status = "run" /\ todo # << >> => NamesOK(Record, todo, symbolTable)

(* A declaration of a name that is in scope is a second declaration of the *)
(* function.                                                               *)
LEMMA SecondDeclaration ==
    ASSUME NEW Nodes, Grammatical(Nodes), NEW def \in Nodes, def.k = "def",
           NEW st, NEW k \in Nat, k >= 1, NamesUpTo(def, st, k), k + 1 <= Len(def.c),
           def.c[k + 1].k = "decl",
           NEW s \in 1 .. Len(st), def.c[k + 1].name \in DOMAIN st[s]
    PROVE  DeclaredTwice(def)
<1> DEFINE c == def.c
           params == c[1].c
           body == Tail(c)
           nodes == params \o body
           name == c[k + 1].name
           P == Len(params)
<1>1. c \in Seq(Nodes) /\ c # << >> /\ \A n \in DOMAIN params : params[n].k = "decl"
  BY DEF Grammatical, InGrammar
<1>2. IsSequence(c) /\ Len(c) \in Nat /\ Len(c) >= 1
  <2> HIDE DEF c
  <2>1. IsSequence(c)
    BY <1>1, SeqIsSequence
  <2> QED BY <1>1, <2>1, SequenceFacts
<1>3. IsSequence(params) /\ P \in Nat /\ DOMAIN params = 1 .. P
  <2>1. 1 \in 1 .. Len(c)
    BY <1>2
  <2> HIDE DEF c
  <2>2. c[1] \in Nodes
    BY <1>1, <2>1
  <2>3. params \in Seq(Nodes)
    BY <2>2 DEF Grammatical, InGrammar
  <2>4. IsSequence(params)
    BY <2>3, SeqIsSequence
  <2> QED BY <2>4, SequenceFacts
<1>4. /\ \/ \E n \in 1 .. P : params[n].name = name
         \/ \E j \in 2 .. k : j <= Len(c) /\ c[j].k = "decl" /\ c[j].name = name
      /\ k + 1 <= Len(c) /\ c[k + 1].k = "decl"
  BY DEF NamesUpTo
<1>5. DeclaredTwice(def) <=>
          \E m, n \in {i \in DOMAIN nodes : nodes[i].k = "decl"} :
              m # n /\ nodes[m].name = nodes[n].name
  BY Zenon DEF DeclaredTwice
<1> HIDE DEF c, params, name, P
<1>6. /\ IsSequence(body) /\ Len(body) = Len(c) - 1
      /\ \A i \in 1 .. Len(c) - 1 : body[i] = c[i + 1]
  BY <1>1, <1>2, TailFacts
<1> HIDE DEF body
<1>7. /\ IsSequence(params \o body) /\ Len(params \o body) = Len(params) + Len(body)
      /\ \A m \in 1 .. Len(params) : (params \o body)[m] = params[m]
      /\ \A m \in 1 .. Len(body) : (params \o body)[Len(params) + m] = body[m]
  <2>1. IsSequence(params) /\ IsSequence(body)
    BY <1>3, <1>6
  <2> QED BY ONLY <2>1, ConcatFacts
<1> HIDE DEF nodes
<1>8. /\ DOMAIN nodes = 1 .. P + (Len(c) - 1)
      /\ \A m \in 1 .. P : nodes[m] = params[m]
      /\ \A m \in 1 .. Len(c) - 1 : nodes[P + m] = c[m + 1]
  <2>1. IsSequence(nodes) /\ Len(nodes) = P + (Len(c) - 1)
    BY <1>6, <1>7 DEF nodes, P
  <2> QED BY <1>6, <1>7, <2>1, SequenceFacts DEF nodes, P
<1> DEFINE decls == {i \in DOMAIN nodes : nodes[i].k = "decl"}
<1>9. ASSUME NEW j \in 2 .. Len(c), c[j].k = "decl"
      PROVE  P + (j - 1) \in decls /\ nodes[P + (j - 1)].name = c[j].name
  <2>1. j - 1 \in 1 .. Len(c) - 1 /\ (j - 1) + 1 = j
    BY <1>2
  <2>2. nodes[P + (j - 1)] = c[j]
    BY <1>8, <2>1
  <2>3. P + (j - 1) \in 1 .. P + (Len(c) - 1)
    BY <1>2, <1>3, <2>1
  <2> QED BY <1>8, <1>9, <2>2, <2>3
<1>10. k + 1 \in 2 .. Len(c) /\ (k + 1) - 1 = k
  BY <1>2, <1>4
<1>11. P + k \in decls /\ nodes[P + k].name = name
  <2>1. P + ((k + 1) - 1) \in decls /\ nodes[P + ((k + 1) - 1)].name = c[k + 1].name
    BY <1>4, <1>9, <1>10
  <2> QED BY <1>10, <2>1 DEF name
<1>12. CASE \E n \in 1 .. P : params[n].name = name
  <2>1. PICK n \in 1 .. P : params[n].name = name
    BY <1>12
  <2>2. nodes[n] = params[n] /\ params[n].k = "decl" /\ n \in 1 .. P + (Len(c) - 1) /\ n # P + k
    <3>1. nodes[n] = params[n] /\ params[n].k = "decl"
      BY <1>1, <1>3, <1>8
    <3>2. n \in 1 .. P + (Len(c) - 1) /\ n # P + k
      BY <1>2, <1>3
    <3> QED BY <3>1, <3>2
  <2>3. n \in decls /\ nodes[n].name = name
    BY <1>8, <2>1, <2>2
  <2> QED BY <1>5, <1>11, <2>2, <2>3
<1>13. CASE \E j \in 2 .. k : j <= Len(c) /\ c[j].k = "decl" /\ c[j].name = name
  <2>1. PICK j \in 2 .. k : j <= Len(c) /\ c[j].k = "decl" /\ c[j].name = name
    BY <1>13
  <2>2. j \in 2 .. Len(c) /\ P + (j - 1) # P + k
    BY <1>2, <1>3, <2>1
  <2>3. P + (j - 1) \in decls /\ nodes[P + (j - 1)].name = name
    BY <1>9, <2>1, <2>2
  <2> QED BY <1>5, <1>11, <2>2, <2>3
<1> QED BY <1>4, <1>12, <1>13

(* Two parameters of one name are two declarations of it.                  *)
LEMMA ParametersTwice ==
    ASSUME NEW Nodes, Grammatical(Nodes), NEW def \in Nodes, def.k = "def",
           ~ Distinct(def.c[1].c)
    PROVE  DeclaredTwice(def)
<1> DEFINE c == def.c
           params == c[1].c
           body == Tail(c)
           nodes == params \o body
           P == Len(params)
<1>1. c \in Seq(Nodes) /\ c # << >> /\ \A n \in DOMAIN params : params[n].k = "decl"
  BY DEF Grammatical, InGrammar
<1>2. IsSequence(c) /\ Len(c) \in Nat /\ Len(c) >= 1
  <2> HIDE DEF c
  <2>1. IsSequence(c)
    BY <1>1, SeqIsSequence
  <2> QED BY <1>1, <2>1, SequenceFacts
<1>3. IsSequence(params) /\ P \in Nat /\ DOMAIN params = 1 .. P
  <2>1. 1 \in 1 .. Len(c)
    BY <1>2
  <2> HIDE DEF c
  <2>2. c[1] \in Nodes
    BY <1>1, <2>1
  <2>3. params \in Seq(Nodes)
    BY <2>2 DEF Grammatical, InGrammar
  <2>4. IsSequence(params)
    BY <2>3, SeqIsSequence
  <2> QED BY <2>4, SequenceFacts
<1>4. PICK m \in 1 .. P, n \in 1 .. P : m # n /\ params[m].name = params[n].name
  BY <1>3 DEF Distinct
<1>5. DeclaredTwice(def) <=>
          \E i, j \in {p \in DOMAIN nodes : nodes[p].k = "decl"} :
              i # j /\ nodes[i].name = nodes[j].name
  BY Zenon DEF DeclaredTwice
<1> HIDE DEF c, params, P
<1>6. IsSequence(body) /\ Len(body) = Len(c) - 1
  BY <1>1, <1>2, TailFacts
<1> HIDE DEF body
<1>7. /\ IsSequence(params \o body) /\ Len(params \o body) = Len(params) + Len(body)
      /\ \A i \in 1 .. Len(params) : (params \o body)[i] = params[i]
  <2>1. IsSequence(params) /\ IsSequence(body)
    BY <1>3, <1>6
  <2> QED BY ONLY <2>1, ConcatFacts
<1> HIDE DEF nodes
<1>8. DOMAIN nodes = 1 .. P + (Len(c) - 1) /\ \A i \in 1 .. P : nodes[i] = params[i]
  <2>1. IsSequence(nodes) /\ Len(nodes) = P + (Len(c) - 1)
    BY <1>6, <1>7 DEF nodes, P
  <2> QED BY <1>7, <2>1, SequenceFacts DEF nodes, P
<1>9. \A i \in 1 .. P : i \in DOMAIN nodes /\ nodes[i].k = "decl"
  <2> SUFFICES ASSUME NEW i \in 1 .. P PROVE i \in DOMAIN nodes /\ nodes[i].k = "decl"
    OBVIOUS
  <2>1. i \in DOMAIN nodes
    <3>1. DOMAIN nodes = 1 .. P + (Len(c) - 1)
      BY <1>8
    <3>2. P \in Nat /\ Len(c) \in Nat /\ Len(c) >= 1
      BY <1>2, <1>3
    <3> HIDE DEF P
    <3> QED BY ONLY <3>1, <3>2, i \in 1 .. P
  <2>2. nodes[i] = params[i]
    BY <1>8
  <2>3. params[i].k = "decl"
    BY <1>1, <1>3
  <2> QED BY ONLY <2>1, <2>2, <2>3
<1> QED BY <1>4, <1>5, <1>8, <1>9

-----------------------------------------------------------------------------
(* Steps.                                                                  *)

(* A stop with a report, or without a result.                              *)
LEMMA StopReports ==
    ASSUME ReportInv, status' \in {"null", "crash", "module"}, status' = "null" => diag' = TRUE
    PROVE  ReportInv'
BY DEF ReportInv, NullReported

(* The work that a record is done with.                                    *)
LEMMA NamesReport ==
    ASSUME ReportInv, status' = "run", NamesOK(Record, todo', symbolTable'),
           UNCHANGED <<prog, rec>>
    PROVE  ReportInv'
<1>1. NamesOK(Record', todo', symbolTable')
  BY DEF Record
<1> QED BY <1>1 DEF ReportInv, NullReported

(* What is left of an expression may change, as long as its statement and  *)
(* the block stay.                                                         *)
LEMMA NamesKept ==
    ASSUME NEW Nodes, NEW t, TodoOK(t, Nodes), t[1].do \in WorkDos,
           NEW def, NEW st, NamesOK(def, t, st),
           NEW u, u = Tail(t) \/ \E items : IsSequence(items) /\ u = items \o Tail(t)
    PROVE  NamesOK(def, u, st)
<1> DEFINE r == Tail(t)
           L == Len(t)
<1>1. L \in Nat /\ L >= 4 /\ IsSequence(t) /\ t # << >>
  BY TodoFacts DEF TodoOK
<1>2. IsSequence(r) /\ Len(r) = L - 1 /\ \A i \in 1 .. L - 1 : r[i] = t[i + 1]
  BY <1>1, TailFacts
<1>3. /\ Len(r) >= 3 /\ Len(r) \in Nat
      /\ r[Len(r) - 1] = t[L - 1] /\ r[Len(r) - 2] = t[L - 2]
  <2>1. /\ (L - 1) - 1 \in 1 .. L - 1 /\ ((L - 1) - 1) + 1 = L - 1
        /\ (L - 1) - 2 \in 1 .. L - 1 /\ ((L - 1) - 2) + 1 = L - 2
    BY <1>1
  <2> QED BY <1>1, <1>2, <2>1
<1> HIDE DEF r
<1>4. Len(u) >= 3 /\ Len(u) \in Nat /\ u[Len(u) - 1] = t[L - 1] /\ u[Len(u) - 2] = t[L - 2]
  <2>1. CASE u = r
    BY <1>3, <2>1
  <2>2. ASSUME NEW items, IsSequence(items), u = items \o r
        PROVE  /\ Len(u) >= 3 /\ Len(u) \in Nat
               /\ u[Len(u) - 1] = t[L - 1] /\ u[Len(u) - 2] = t[L - 2]
    <3>1. IsSequence(items) /\ IsSequence(r)
      BY <1>2, <2>2
    <3>2. /\ Len(items \o r) = Len(items) + Len(r)
          /\ \A i \in 1 .. Len(r) : (items \o r)[Len(items) + i] = r[i]
      BY ONLY <3>1, ConcatFacts
    <3> DEFINE k == Len(items)
               R == Len(r)
    <3>3. k \in Nat /\ R \in Nat /\ R >= 3
      BY <1>3, <3>1, SequenceFacts
    <3>4. Len(u) = k + R /\ \A i \in 1 .. R : u[k + i] = r[i]
      BY <2>2, <3>2
    <3>5. r[R - 1] = t[L - 1] /\ r[R - 2] = t[L - 2]
      BY <1>3
    <3> HIDE DEF k, R
    <3>6. /\ R - 1 \in 1 .. R /\ R - 2 \in 1 .. R /\ k + (R - 1) = (k + R) - 1
          /\ k + (R - 2) = (k + R) - 2 /\ k + R \in Nat /\ k + R >= 3
      BY <3>3
    <3> QED BY <3>4, <3>5, <3>6
  <2> QED BY <2>1, <2>2 DEF r
<1>5. PICK k \in Nat : k >= 1 /\ NamesUpTo(def, st, k) /\ Pending(t, def, k)
  BY DEF NamesOK
<1>6. Pending(u, def, k)
  <2>1. /\ Follows(t[L - 1].node.c, def, k + 1)
        /\ t[L - 2].do = "declare" => k + 1 <= Len(def.c) /\ t[L - 2].node = def.c[k + 1]
    BY <1>1, <1>5 DEF Pending
  <2>2. Len(u) # 2
    BY <1>4
  <2> QED BY <1>4, <2>1, <2>2 DEF Pending
<1> QED BY <1>5, <1>6 DEF NamesOK

(* A step of an expression that goes on with other work.                   *)
LEMMA WorkReports ==
    ASSUME NEW T, NEW Nodes, GenOK(T, Nodes), ReportInv, NEW what, Doing(what),
           what \in WorkDos,
           todo' = Tail(todo) \/ \E items : IsSequence(items) /\ todo' = items \o Tail(todo),
           UNCHANGED <<prog, rec, symbolTable, status>>
    PROVE  ReportInv'
<1>1. TodoOK(todo, Nodes) /\ todo[1].do \in WorkDos
  BY AtWork
<1>2. NamesOK(Record, todo, symbolTable)
  BY DEF ReportInv, Doing
<1>3. NamesOK(Record, todo', symbolTable)
  BY <1>1, <1>2, NamesKept
<1>4. NamesOK(Record, todo', symbolTable') /\ status' = "run"
  BY <1>3 DEF Doing
<1> QED BY <1>4, NamesReport

(* An expression that fails is reported, and a print that fails leaves     *)
(* nothing of its block.                                                   *)
LEMMA FailExprReports ==
    ASSUME NEW T, NEW Nodes, GenOK(T, Nodes), ReportInv, NEW what, Doing(what),
           what \in {"expr", "build"}, FailExpr
    PROVE  ReportInv'
<1>1. CASE FailFunction(TRUE)
  <2>1. status' = "null" /\ diag' = TRUE
    BY <1>1 DEF FailFunction
  <2> QED BY <2>1, StopReports
<1>2. CASE /\ todo' = <<Block(<< >>), todo[Len(todo)]>>
           /\ UNCHANGED <<prog, rec, symbolTable, status>>
  <2> DEFINE u == <<Block(<< >>), todo[Len(todo)]>>
  <2>1. Len(u) = 2 /\ u[1].node.c = << >>
    <3>1. u[1] = Block(<< >>)
      OBVIOUS
    <3>2. Block(<< >>).node.c = << >>
      BY Zenon DEF Block, Do, Node, SizedNode
    <3>3. Len(u) = 2
      OBVIOUS
    <3> QED BY <3>1, <3>2, <3>3, Zenon
  <2> HIDE DEF u
  <2>2. NamesOK(Record, todo, symbolTable)
    BY DEF ReportInv, Doing
  <2>3. PICK k \in Nat : k >= 1 /\ NamesUpTo(Record, symbolTable, k)
    BY <2>2 DEF NamesOK
  <2>4. Pending(u, Record, k)
    <3>1. Follows(<< >>, Record, k)
      BY EmptyIsSequence DEF Follows
    <3>2. ~ (Len(u) >= 3)
      BY <2>1
    <3> QED BY <2>1, <3>1, <3>2 DEF Pending
  <2>5. NamesOK(Record, u, symbolTable)
    BY <2>2, <2>3, <2>4 DEF NamesOK
  <2>6. NamesOK(Record, todo', symbolTable') /\ status' = "run"
    BY <1>2, <2>5 DEF u, Doing
  <2> QED BY <1>2, <2>6, NamesReport
<1> QED BY <1>1, <1>2 DEF FailExpr

(* A visit or a build of an expression.                                    *)
LEMMA ExpressionReports ==
    ASSUME NEW T, NEW Nodes, GenOK(T, Nodes), Grammatical(Nodes), ReportInv, Expression
    PROVE  ReportInv'
<1>1. ASSUME Crash PROVE ReportInv'
  BY <1>1, StopReports DEF Crash
<1>2. ASSUME NEW what \in {"expr", "build"}, Doing(what), NEW kind, NEW n, NEW attr, NEW type,
             NEW struct, Emit(kind, n, attr, type, struct)
      PROVE  ReportInv'
  BY <1>2, WorkReports DEF Emit, WorkDos
<1>3. ASSUME NEW what \in WorkDos, Doing(what), NEW items, IsSequence(items), Push(items)
      PROVE  ReportInv'
  BY <1>3, WorkReports DEF Push
<1>4. ASSUME NEW what \in WorkDos, Doing(what)
      PROVE  todo[1].node \in Nodes /\ IsSequence(E.c)
  <2>1. ItemOK(todo[1], Nodes) /\ todo[1].do = what
    BY <1>4, AtWork
  <2>2. E \in Nodes
    BY <2>1 DEF ItemOK, E, WorkDos, LiteralDos
  <2>3. E.c \in Seq(Nodes)
    BY <2>2 DEF Grammatical, InGrammar
  <2> QED BY <2>2, <2>3, SeqIsSequence DEF E
<1>5. CASE VisitNull
  BY <1>1, <1>5 DEF VisitNull
<1>6. CASE VisitVariable
  <2>1. Doing("expr")
    BY <1>6 DEF VisitVariable, Visiting
  <2>2. FailExpr \/ (todo' = Tail(todo) /\ UNCHANGED <<prog, rec, symbolTable, status>>)
    BY <1>6 DEF VisitVariable
  <2>3. "expr" \in WorkDos
    BY DEF WorkDos
  <2> QED BY <2>1, <2>2, <2>3, FailExprReports, WorkReports
<1>7. CASE VisitConstant
  BY <1>2, <1>7 DEF VisitConstant, Visiting
<1>8. CASE VisitBinary
  <2> DEFINE middle == IF E.name = "." THEN << >> ELSE <<Do("expr", E.c[2])>>
             items == <<Do("expr", E.c[1])>> \o middle \o <<Do("build", E)>>
  <2>1. Doing("expr") /\ Push(items)
    BY <1>8, Zenon DEF VisitBinary, Visiting
  <2>2. IsSequence(items)
    <3> DEFINE a == Do("expr", E.c[1])
               b == Do("expr", E.c[2])
               c == Do("build", E)
    <3>1. CASE E.name = "."
      <4>1. items = <<a>> \o << >> \o <<c>>
        BY <3>1, Zenon
      <4> HIDE DEF a, c, items
      <4>2. items = <<a, c>>
        BY <4>1, TupleConcat
      <4> QED BY <4>2, TupleFacts
    <3>2. CASE E.name # "."
      <4>1. items = <<a>> \o <<b>> \o <<c>>
        BY <3>2, Zenon
      <4> HIDE DEF a, b, c, items
      <4>2. items = <<a, b, c>>
        BY <4>1, TupleConcat
      <4> QED BY <4>2, TupleFacts
    <3> QED BY <3>1, <3>2
  <2> HIDE DEF items
  <2> QED BY <1>3, <2>1, <2>2 DEF WorkDos
<1>9. CASE VisitCall
  <2> DEFINE items == Visits("expr", E.c) \o <<Do("build", E)>>
  <2>1. Doing("expr") /\ Push(items)
    BY <1>9, Zenon DEF VisitCall, Visiting, Visits
  <2>2. IsSequence(items)
    <3> DEFINE nodes == E.c
               rest == <<Do("build", E)>>
    <3>1. IsSequence(nodes) /\ IsSequence(rest)
      BY <1>4, <2>1, TupleFacts DEF WorkDos
    <3> HIDE DEF nodes, rest
    <3>2. VisitsFirst(Visits("expr", nodes) \o rest, "expr", nodes, rest)
      BY <3>1, VisitsThen
    <3> QED BY <3>2 DEF VisitsFirst, nodes, rest
  <2> HIDE DEF items
  <2> QED BY <1>3, <2>1, <2>2 DEF WorkDos
<1>10. CASE VisitOther
  BY <1>10, FailExprReports DEF VisitOther, Visiting
<1>11. CASE VisitStructLiteral
  <2> DEFINE items == <<Do("attr", E), Do("struct", E)>>
  <2>1. Doing("expr") /\ Push(items)
    BY <1>11 DEF VisitStructLiteral, Visiting
  <2>2. IsSequence(items)
    BY TupleFacts
  <2> HIDE DEF items
  <2> QED BY <1>3, <2>1, <2>2 DEF WorkDos
<1>12. CASE VisitElement
  <2>1. Doing("attr") /\ "attr" \in WorkDos
    BY <1>12 DEF VisitElement, WorkDos, LiteralDos
  <2>2. ASSUME NEW attr, NEW type, PushAttr(attr, type) PROVE ReportInv'
    <3>1. todo' = Tail(todo) /\ UNCHANGED <<prog, rec, symbolTable, status>>
      BY <2>2 DEF PushAttr
    <3> QED BY <2>1, <3>1, WorkReports
  <2> DEFINE items == Visits("attr", E.c) \o <<Do("array", E)>>
  <2>3. IsSequence(items)
    <3> DEFINE nodes == E.c
               rest == <<Do("array", E)>>
    <3>1. IsSequence(nodes) /\ IsSequence(rest)
      BY <1>4, <2>1, TupleFacts
    <3> HIDE DEF nodes, rest
    <3>2. VisitsFirst(Visits("attr", nodes) \o rest, "attr", nodes, rest)
      BY <3>1, VisitsThen
    <3> QED BY <3>2 DEF VisitsFirst, nodes, rest
  <2>4. Crash \/ PushAttr(E, Unranked) \/ Push(items) \/ Push(<< >>)
    BY <1>12, Zenon DEF VisitElement, Visits
  <2> HIDE DEF items
  <2> QED BY <1>1, <1>3, <2>1, <2>2, <2>3, <2>4, EmptyIsSequence
<1>13. CASE BuildBinary
  BY <1>2, <1>13, FailExprReports DEF BuildBinary
<1>14. CASE BuildAccess
  BY <1>1, <1>2, <1>14, FailExprReports DEF BuildAccess
<1>15. CASE BuildCall
  BY <1>2, <1>15, FailExprReports DEF BuildCall
<1>16. CASE BuildArray
  <2>1. Doing("array") /\ "array" \in WorkDos
    BY <1>16 DEF BuildArray, WorkDos, LiteralDos
  <2>2. Crash \/ (todo' = Tail(todo) /\ UNCHANGED <<prog, rec, symbolTable, status>>)
    BY <1>16 DEF BuildArray
  <2> QED BY <1>1, <2>1, <2>2, WorkReports
<1>17. CASE BuildStructConstant
  <2>1. Doing("struct") /\ "struct" \in WorkDos
    BY <1>17 DEF BuildStructConstant, WorkDos, LiteralDos
  <2>2. todo' = Tail(todo) /\ UNCHANGED <<prog, rec, symbolTable, status>>
    BY <1>17 DEF BuildStructConstant
  <2> QED BY <2>1, <2>2, WorkReports
<1> QED BY <1>5, <1>6, <1>7, <1>8, <1>9, <1>10, <1>11, <1>12, <1>13, <1>14, <1>15, <1>16,
           <1>17 DEF Expression

(* A statement is put to work: it is the first of the block, and what is   *)
(* left of the block follows it.                                           *)
LEMMA StatementReports ==
    ASSUME NEW T, NEW Nodes, GenOK(T, Nodes), ReportInv, Doing("block"), E.c # << >>,
           IsSequence(E.c),
           NEW items, IsSequence(items), Len(items) >= 2,
           items[Len(items)].node.c \in {<< >>, Tail(E.c)},
           items[Len(items) - 1].do = "declare" => items[Len(items) - 1].node = First,
           Push(items)
    PROVE  ReportInv'
<1> DEFINE r == Tail(todo)
           u == items \o r
           s == todo[1].node.c
           L == Len(items)
           n == Len(s)
<1>1. TodoOK(todo, Nodes) /\ todo[1].do = "block" /\ IsSequence(todo) /\ todo # << >>
  BY AtWork
<1>2. Len(todo) = 2 /\ L \in Nat /\ L >= 2
  BY <1>1, TodoFacts, SequenceFacts
<1>3. IsSequence(r) /\ Len(r) = 1
  BY <1>1, <1>2, TailFacts
<1>4. /\ IsSequence(s) /\ s # << >> /\ s[1] = First
      /\ items[L].node.c = << >> \/ items[L].node.c = Tail(s)
  BY DEF E, First
<1> HIDE DEF r, s
<1>5. n \in Nat /\ n >= 1
  BY <1>4, SequenceFacts
<1>6. Len(Tail(s)) = n - 1 /\ \A i \in 1 .. n - 1 : Tail(s)[i] = s[i + 1]
  BY <1>4, TailFacts
<1>7. Len(u) = L + 1 /\ \A i \in 1 .. L : u[i] = items[i]
  <2>1. IsSequence(items) /\ IsSequence(r)
    BY <1>3
  <2>2. /\ Len(items \o r) = Len(items) + Len(r)
        /\ \A i \in 1 .. Len(items) : (items \o r)[i] = items[i]
    BY ONLY <2>1, ConcatFacts
  <2> QED BY <1>3, <2>2
<1>8. NamesOK(Record, todo, symbolTable)
  BY DEF ReportInv, Doing
<1>9. PICK k \in Nat : k >= 1 /\ NamesUpTo(Record, symbolTable, k) /\ Pending(todo, Record, k)
  BY <1>8 DEF NamesOK
<1>10. \A i \in 1 .. n : k + i <= Len(Record.c) /\ s[i] = Record.c[k + i]
  BY <1>2, <1>9 DEF Pending, Follows, s
<1> HIDE DEF u, L, n
<1>11. Len(u) >= 3 /\ Len(u) # 2 /\ u[Len(u) - 1] = items[L] /\ u[Len(u) - 2] = items[L - 1]
  <2>1. L \in 1 .. L /\ L - 1 \in 1 .. L /\ (L + 1) - 1 = L /\ (L + 1) - 2 = L - 1
    BY <1>2
  <2> QED BY <1>2, <1>7, <2>1
<1>12. Follows(items[L].node.c, Record, k + 1)
  <2>1. CASE items[L].node.c = << >>
    BY <2>1, EmptyIsSequence DEF Follows
  <2>2. CASE items[L].node.c = Tail(s)
    <3>1. ASSUME NEW i \in 1 .. n - 1
          PROVE  (k + 1) + i <= Len(Record.c) /\ Tail(s)[i] = Record.c[(k + 1) + i]
      <4>1. i + 1 \in 1 .. n /\ k + (i + 1) = (k + 1) + i
        BY <1>5
      <4> QED BY <1>6, <1>10, <4>1
    <3> QED BY <1>6, <2>2, <3>1 DEF Follows
  <2> QED BY <1>4, <2>1, <2>2
<1>13. items[L - 1].do = "declare" =>
           k + 1 <= Len(Record.c) /\ items[L - 1].node = Record.c[k + 1]
  <2>1. 1 \in 1 .. n
    BY <1>5
  <2> QED BY <1>4, <1>10, <2>1 DEF L
<1>14. Pending(u, Record, k)
  BY <1>11, <1>12, <1>13 DEF Pending
<1>15. NamesOK(Record, u, symbolTable)
  BY <1>8, <1>9, <1>14 DEF NamesOK
<1>16. NamesOK(Record, todo', symbolTable') /\ status' = "run" /\ UNCHANGED <<prog, rec>>
  BY <1>15 DEF Push, u, r, Doing
<1> QED BY <1>16, NamesReport

(* A declaration, a return, a print and an expression go to work.          *)
LEMMA GenReports ==
    ASSUME NEW T, NEW Nodes, GenOK(T, Nodes), Grammatical(Nodes), ReportInv,
           GenVarDecl \/ GenReturn \/ GenPrint \/ GenExpression
    PROVE  ReportInv'
<1>1. PICK kind : NextStatement(kind)
  BY DEF GenVarDecl, GenReturn, GenPrint, GenExpression
<1>2. /\ Doing("block") /\ First \in Nodes /\ First.c \in Seq(Nodes) /\ E.c # << >>
      /\ IsSequence(E.c)
  <2>1. Doing("block") /\ First \in Nodes /\ First.c \in Seq(Nodes)
    BY <1>1, BlockAtWork
  <2>2. ItemOK(todo[1], Nodes) /\ todo[1].do = "block"
    BY <2>1, AtWork
  <2>3. E.c \in Seq(Nodes)
    BY <2>2 DEF ItemOK, StatementsOK, E
  <2> QED BY <1>1, <2>1, <2>3, SeqIsSequence DEF NextStatement
<1>3. Rest.node.c = Tail(E.c) /\ Block(<< >>).node.c = << >>
  BY Zenon DEF Rest, Block, Do, Node, SizedNode
<1>4. ASSUME NEW e, NEW what, Push(<<Do("expr", e), Do(what, First), Rest>>)
      PROVE  ReportInv'
  <2> DEFINE x == Do("expr", e)
             y == Do(what, First)
             rest == Rest
             items == <<x, y, rest>>
  <2>1. y.node = First /\ rest.node.c = Tail(E.c) /\ Push(items)
    BY <1>3, <1>4 DEF Do
  <2> HIDE DEF x, y, rest
  <2>2. IsSequence(items) /\ Len(items) = 3 /\ items[2] = y /\ items[3] = rest
    BY TupleFacts
  <2> HIDE DEF items
  <2>3. /\ Len(items) >= 2 /\ items[Len(items)].node.c \in {<< >>, Tail(E.c)}
        /\ items[Len(items) - 1].node = First
    <3>1. Len(items) - 1 = 2 /\ Len(items) >= 2
      BY <2>2
    <3> QED BY <2>1, <2>2, <3>1
  <2> QED BY <1>2, <2>1, <2>2, <2>3, StatementReports
<1>5. CASE GenVarDecl
  <2>1. CASE FailFunction(TRUE)
    <3>1. status' = "null" /\ diag' = TRUE
      BY <2>1 DEF FailFunction
    <3> QED BY <3>1, StopReports
  <2>2. CASE Push(<<Do("expr", First.c[2]), Do("declare", First), Rest>>)
    BY <1>4, <2>2
  <2> QED BY <1>5, <2>1, <2>2 DEF GenVarDecl
<1>6. CASE GenPrint
  <2>1. Push(<<Do("expr", First.c[1]), Do("print", First), Rest>>)
    BY <1>6 DEF GenPrint
  <2> QED BY <1>4, <2>1
<1>7. CASE GenExpression
  <2>1. Push(<<Do("expr", First), Do("drop", First), Rest>>)
    BY <1>7 DEF GenExpression
  <2> QED BY <1>4, <2>1
<1>8. CASE GenReturn
  <2> DEFINE nodes == First.c
             x == Do("return", First)
             y == Block(<< >>)
             rest == <<x, y>>
             items == Visits("expr", nodes) \o rest
  <2>1. Push(items)
    BY <1>8, Zenon DEF GenReturn, Visits
  <2>2. IsSequence(rest) /\ Len(rest) = 2 /\ rest[1] = x /\ rest[2] = y
    BY TupleFacts
  <2>3. IsSequence(nodes)
    BY <1>2, SeqIsSequence
  <2>4. x.do = "return" /\ y.node.c = << >>
    BY <1>3 DEF Do
  <2> HIDE DEF nodes, x, y, rest
  <2>5. VisitsFirst(items, "expr", nodes, rest)
    BY <2>2, <2>3, VisitsThen
  <2> HIDE DEF items
  <2>6. /\ IsSequence(items) /\ Len(items) = Len(nodes) + 2 /\ Len(nodes) \in Nat
        /\ items[Len(nodes) + 1] = x /\ items[Len(nodes) + 2] = y
    BY <2>2, <2>5 DEF VisitsFirst
  <2>7. /\ Len(items) >= 2 /\ items[Len(items)].node.c \in {<< >>, Tail(E.c)}
        /\ items[Len(items) - 1].do # "declare"
    <3>1. Len(items) - 1 = Len(nodes) + 1 /\ Len(items) >= 2
      BY <2>6
    <3> QED BY <2>4, <2>6, <3>1
  <2> QED BY <1>2, <2>1, <2>6, <2>7, StatementReports
<1> QED BY <1>5, <1>6, <1>7, <1>8

(* A statement is done, and its name, if it declares one, is in scope.     *)
LEMMA DoneReports ==
    ASSUME NEW T, NEW Nodes, GenOK(T, Nodes), ReportInv, NEW what \in StatementDos, Doing(what),
           todo' = Tail(todo), UNCHANGED <<prog, rec, status>>,
           NEW value,
           symbolTable' = symbolTable \/ (what = "declare" /\ symbolTable' = Declared(E, value))
    PROVE  ReportInv'
<1> DEFINE u == Tail(todo)
           c == Record.c
<1>1. /\ Working(T, Nodes, Current, todo, vals, attrs, symbolTable)
      /\ TodoOK(todo, Nodes) /\ todo[1].do = what /\ IsSequence(todo) /\ todo # << >>
      /\ ItemOK(todo[1], Nodes)
  BY AtWork
<1>2. Len(todo) = 3
  BY <1>1, TodoFacts
<1>3. Len(u) = 2 /\ u[1] = todo[2]
  <2>1. Len(u) = Len(todo) - 1 /\ \A i \in 1 .. Len(todo) - 1 : u[i] = todo[i + 1]
    BY <1>1, TailFacts
  <2> HIDE DEF u
  <2> QED BY <1>2, <2>1
<1> HIDE DEF u
<1>4. IsSequence(symbolTable) /\ Len(symbolTable) = 2 /\ DOMAIN symbolTable = 1 .. 2
  <2>1. IsSequence(symbolTable) /\ Len(symbolTable) = 2
    BY <1>1, <1>2 DEF Working, ScopesOK
  <2> QED BY <2>1, SequenceFacts
<1>5. NamesOK(Record, todo, symbolTable)
  BY DEF ReportInv, Doing
<1>6. PICK k \in Nat : k >= 1 /\ NamesUpTo(Record, symbolTable, k) /\ Pending(todo, Record, k)
  BY <1>5 DEF NamesOK
<1>7. /\ Follows(todo[2].node.c, Record, k + 1)
      /\ what = "declare" => k + 1 <= Len(c) /\ E = c[k + 1]
  BY <1>1, <1>2, <1>6 DEF Pending, E
<1>8. Pending(u, Record, k + 1)
  <2>1. ~ (Len(u) >= 3)
    BY <1>3
  <2> QED BY <1>3, <1>7, <2>1 DEF Pending
<1>9. \A j \in 2 .. k : j \in 2 .. k + 1
  BY <1>6
<1>10. NamesUpTo(Record, symbolTable, k + 1)
  BY <1>6, <1>9 DEF NamesUpTo
<1>11. NamesUpTo(Record, symbolTable', k + 1)
  <2>1. CASE symbolTable' = symbolTable
    BY <1>10, <2>1
  <2>2. CASE what = "declare" /\ symbolTable' = Declared(E, value)
    <3> DEFINE scope == [name \in {E.name} \cup DOMAIN symbolTable[2] |->
                            IF name = E.name THEN [struct |-> E.c[1].name, value |-> value]
                            ELSE symbolTable[2][name]]
    <3>1. symbolTable' = [symbolTable EXCEPT ![2] = scope]
      BY <1>4, <2>2, Zenon DEF Declared
    <3>2. DOMAIN scope = {E.name} \cup DOMAIN symbolTable[2]
      OBVIOUS
    <3> HIDE DEF scope
    <3>3. /\ symbolTable'[1] = symbolTable[1] /\ symbolTable'[2] = scope
          /\ DOMAIN symbolTable' = 1 .. 2
      <4>1. 1 \in 1 .. 2 /\ 2 \in 1 .. 2 /\ 1 # 2
        OBVIOUS
      <4> QED BY <1>4, <3>1, <4>1, Zenon
    <3>4. Len(symbolTable') = 2
      <4> DEFINE es == [symbolTable EXCEPT ![2] = scope]
      <4>1. DOMAIN es = 1 .. 2
        BY <1>4, Zenon
      <4>2. es = [s \in 1 .. 2 |-> es[s]]
        BY <4>1, Zenon
      <4>3. es = symbolTable' /\ 2 \in Nat
        BY <3>1
      <4> HIDE DEF es
      <4>4. IsSequence(es) /\ Len(es) = 2
        BY <4>2, <4>3, FunctionFacts
      <4> QED BY <4>3, <4>4
    <3>5. k + 1 \in 2 .. k + 1 /\ k + 1 <= Len(c) /\ c[k + 1].k = "decl" /\ c[k + 1].name = E.name
      <4>1. k + 1 <= Len(c) /\ E = c[k + 1]
        BY <1>7, <2>2
      <4>2. E.k = "decl"
        BY <1>1, <2>2 DEF ItemOK, E
      <4>3. k + 1 \in 2 .. k + 1
        BY <1>6
      <4> QED BY <4>1, <4>2, <4>3
    <3>6. ASSUME NEW s \in 1 .. 2, NEW name \in DOMAIN symbolTable'[s]
          PROVE  \/ \E n \in 1 .. Len(c[1].c) : c[1].c[n].name = name
                 \/ \E j \in 2 .. k + 1 : j <= Len(c) /\ c[j].k = "decl" /\ c[j].name = name
      <4>1. CASE name \in DOMAIN symbolTable[s]
        BY <1>4, <1>10, <4>1 DEF NamesUpTo
      <4>2. CASE name = E.name
        BY <3>5, <4>2
      <4>3. name \in DOMAIN symbolTable[s] \/ name = E.name
        BY <3>2, <3>3
      <4> QED BY <4>1, <4>2, <4>3
    <3> QED BY <3>4, <3>6 DEF NamesUpTo
  <2> QED BY <2>1, <2>2
<1>12. NamesOK(Record, u, symbolTable')
  <2>1. k + 1 \in Nat /\ k + 1 >= 1
    BY <1>6
  <2> QED BY <1>5, <1>8, <1>11, <2>1 DEF NamesOK
<1>13. NamesOK(Record, todo', symbolTable') /\ status' = "run"
  BY <1>12 DEF u, Doing
<1> QED BY <1>13, NamesReport

(* A declaration that fails is a second one of its name.                   *)
LEMMA RedeclareReports ==
    ASSUME NEW T, NEW Nodes, GenOK(T, Nodes), Grammatical(Nodes), ReportInv, Redeclare
    PROVE  ReportInv'
<1>1. /\ Doing("declare") /\ IsDeclared(E.name)
      /\ status' = "null" /\ UNCHANGED <<prog, rec>>
  BY DEF Redeclare, FailFunction
<1>2. /\ Working(T, Nodes, Current, todo, vals, attrs, symbolTable)
      /\ TodoOK(todo, Nodes) /\ todo[1].do = "declare" /\ ItemOK(todo[1], Nodes)
  BY <1>1, AtWork
<1>3. Len(todo) = 3
  BY <1>2, TodoFacts DEF StatementDos
<1>4. NamesOK(Record, todo, symbolTable)
  BY <1>1 DEF ReportInv, Doing
<1>5. PICK k \in Nat : /\ k >= 1 /\ NamesUpTo(Record, symbolTable, k)
                       /\ Pending(todo, Record, k)
  BY <1>4 DEF NamesOK
<1>6. k + 1 <= Len(Record.c) /\ E = Record.c[k + 1] /\ E.k = "decl"
  BY <1>2, <1>3, <1>5 DEF Pending, E, ItemOK
<1>7. DOMAIN symbolTable = 1 .. Len(symbolTable)
  BY <1>2, SequenceFacts DEF Working, ScopesOK
<1>8. PICK s \in 1 .. Len(symbolTable) : E.name \in DOMAIN symbolTable[s]
  BY <1>1, <1>7 DEF IsDeclared
<1>9. Record \in Nodes /\ Record.k = "def"
  <2>1. prog \in Seq(Nodes) /\ rec \in 0 .. Len(prog) /\ rec < Len(prog)
    BY <1>1 DEF GenOK, GenState, Doing
  <2>2. Len(prog) \in Nat
    BY <2>1, LenProperties
  <2>3. rec + 1 \in 1 .. Len(prog)
    BY <2>1, <2>2
  <2> QED BY <1>4, <2>1, <2>3 DEF NamesOK, Record
<1>10. DeclaredTwice(Record)
  BY <1>5, <1>6, <1>8, <1>9, SecondDeclaration
<1>11. Record' = Record
  BY <1>1 DEF Record
<1>12. (Record.k = "def" /\ DeclaredTwice(Record))'
  BY <1>9, <1>10, <1>11
<1> QED BY <1>1, <1>12 DEF ReportInv, NullReported

(* The end of a block closes a scope.                                      *)
LEMMA EndBlockReports ==
    ASSUME NEW T, NEW Nodes, GenOK(T, Nodes), ReportInv, EndBlock
    PROVE  ReportInv'
<1> DEFINE u == Tail(todo)
           st == Without(1, symbolTable)
<1>1. /\ Doing("block") /\ todo' = u /\ symbolTable' = st
      /\ UNCHANGED <<prog, rec, status>>
  BY DEF EndBlock
<1>2. /\ Working(T, Nodes, Current, todo, vals, attrs, symbolTable)
      /\ TodoOK(todo, Nodes) /\ todo[1].do = "block" /\ IsSequence(todo) /\ todo # << >>
  BY <1>1, AtWork
<1>3. Len(todo) = 2
  BY <1>2, TodoFacts
<1>4. Len(u) = 1
  <2>1. Len(u) = Len(todo) - 1
    BY <1>2, TailFacts
  <2> QED BY <1>3, <2>1
<1>5. IsSequence(symbolTable) /\ Len(symbolTable) = 2
  BY <1>2, <1>3 DEF Working, ScopesOK
<1>6. Len(st) = 1 /\ st[1] = symbolTable[1]
  <2>1. 1 \in 1 .. Len(symbolTable) + 1 /\ Len(symbolTable) - 1 \in 1 - 1 .. Len(symbolTable)
    BY <1>5
  <2>2. /\ Len(st) = (Len(symbolTable) - 1) - 1 + 1
        /\ \A i \in 1 .. (Len(symbolTable) - 1) - 1 + 1 : st[i] = symbolTable[1 + i - 1]
    BY <1>5, <2>1, SubSeqFacts DEF Without
  <2> HIDE DEF st
  <2> QED BY <1>5, <2>2
<1> HIDE DEF u, st
<1>7. NamesOK(Record, todo, symbolTable)
  BY <1>1 DEF ReportInv, Doing
<1>8. PICK k \in Nat : k >= 1 /\ NamesUpTo(Record, symbolTable, k)
  BY <1>7 DEF NamesOK
<1>9. NamesUpTo(Record, st, k)
  <2>1. 1 \in 1 .. Len(symbolTable)
    BY <1>5
  <2>2. \A s \in 1 .. Len(st) : s = 1
    BY <1>6
  <2> QED BY <1>6, <1>8, <2>1, <2>2 DEF NamesUpTo
<1>10. Pending(u, Record, k)
  <2>1. Len(u) # 2 /\ ~ (Len(u) >= 3)
    BY <1>4
  <2> QED BY <2>1 DEF Pending
<1>11. NamesOK(Record, u, st)
  BY <1>7, <1>8, <1>9, <1>10 DEF NamesOK
<1>12. NamesOK(Record, todo', symbolTable') /\ status' = "run"
  BY <1>1, <1>11 DEF Doing
<1> QED BY <1>1, <1>12, NamesReport

(* A function begins with its parameters in scope.                         *)
LEMMA BeginReports ==
    ASSUME NEW T, NEW Nodes, GenOK(T, Nodes), Grammatical(Nodes), ReportInv, BeginFunction
    PROVE  ReportInv'
<1> DEFINE params == Record.c[1].c
<1>1. CASE UnknownType
  BY <1>1, StopReports DEF UnknownType
<1>2. CASE /\ IF Distinct(params)
              THEN /\ symbolTable' = symbolTable \o <<Parameters(params), << >>>>
                   /\ todo' = <<Block(Tail(Record.c)), Do("finish", Record)>>
                   /\ status' = status
              ELSE status' = "null" /\ UNCHANGED <<symbolTable, todo>>
           /\ UNCHANGED <<prog, rec>>
  <2>1. /\ symbolTable = << >> /\ status = "run" /\ Record \in Nodes /\ Record.k = "def"
    BY AtRecord DEF BeginFunction
  <2>2. CASE ~ Distinct(params)
    <3>1. DeclaredTwice(Record)
      BY <2>1, <2>2, ParametersTwice
    <3>2. Record' = Record /\ status' = "null"
      BY <1>2, <2>2 DEF Record
    <3>3. (Record.k = "def" /\ DeclaredTwice(Record))'
      BY <2>1, <3>1, <3>2
    <3> QED BY <3>2, <3>3 DEF ReportInv, NullReported
  <2>3. CASE Distinct(params)
    <3> DEFINE c == Record.c
               p == params
               u == <<Block(Tail(c)), Do("finish", Record)>>
               st == << >> \o <<Parameters(p), << >>>>
    <3>1. todo' = u /\ symbolTable' = st /\ status' = "run"
      BY <1>2, <2>1, <2>3
    <3>2. c \in Seq(Nodes) /\ c # << >>
      BY <2>1 DEF Grammatical, InGrammar
    <3>3. Len(u) = 2 /\ u[1].node.c = Tail(c)
      <4>1. u[1] = Block(Tail(c)) /\ Len(u) = 2
        OBVIOUS
      <4>2. Block(Tail(c)).node.c = Tail(c)
        BY Zenon DEF Block, Do, Node, SizedNode
      <4> QED BY <4>1, <4>2, Zenon
    <3> HIDE DEF u
    <3> DEFINE s == c
    <3>4. s \in Seq(Nodes) /\ s # << >> /\ s = c
      BY <3>2
    <3> HIDE DEF s
    <3>5. IsSequence(s) /\ Len(s) \in Nat /\ Len(s) >= 1
      <4>1. IsSequence(s)
        BY <3>4, SeqIsSequence
      <4> QED BY <3>4, <4>1, SequenceFacts
    <3>6. Len(Tail(s)) = Len(s) - 1 /\ \A i \in 1 .. Len(s) - 1 : Tail(s)[i] = s[i + 1]
      BY <3>4, <3>5, TailFacts
    <3>7. Follows(u[1].node.c, Record, 1)
      <4>1. ASSUME NEW i \in 1 .. Len(Tail(s))
            PROVE  1 + i <= Len(s) /\ Tail(s)[i] = s[1 + i]
        BY <3>5, <3>6
      <4>2. u[1].node.c = Tail(s) /\ s = Record.c
        BY <3>3, <3>4
      <4> QED BY <4>1, <4>2 DEF Follows
    <3>8. Pending(u, Record, 1)
      <4>1. ~ (Len(u) >= 3)
        BY <3>3
      <4> QED BY <3>7, <4>1 DEF Pending
    <3>9. DOMAIN p = 1 .. Len(p) /\ Len(p) \in Nat
      <4>1. 1 \in 1 .. Len(s)
        BY <3>5
      <4>2. s[1] \in Nodes /\ p = s[1].c
        BY <3>4, <4>1
      <4> HIDE DEF p
      <4>3. p \in Seq(Nodes)
        BY <4>2 DEF Grammatical, InGrammar
      <4>4. IsSequence(p)
        BY <4>3, SeqIsSequence
      <4> QED BY <4>4, SequenceFacts
    <3>10. NamesUpTo(Record, st, 1)
      <4> DEFINE scope == Parameters(p)
                 e == << >>
                 t == <<scope, << >>>>
      <4>1. IsSequence(e) /\ Len(e) = 0
        BY EmptyIsSequence
      <4>2. IsSequence(t) /\ Len(t) = 2 /\ t[1] = scope /\ t[2] = << >>
        BY TupleFacts
      <4>3. st = e \o t
        OBVIOUS
      <4>4. DOMAIN scope = {p[n].name : n \in DOMAIN p}
        BY DEF Parameters
      <4> HIDE DEF e, t, scope, st
      <4>5. Len(e \o t) = Len(e) + Len(t) /\ \A m \in 1 .. Len(t) : (e \o t)[Len(e) + m] = t[m]
        <5>1. IsSequence(e) /\ IsSequence(t)
          BY <4>1, <4>2
        <5> QED BY ONLY <5>1, ConcatFacts
      <4>6. Len(st) = 2 /\ st[1] = scope /\ st[2] = << >>
        <5>1. 1 \in 1 .. Len(t) /\ 2 \in 1 .. Len(t) /\ Len(e) + 1 = 1 /\ Len(e) + 2 = 2
          BY <4>1, <4>2
        <5> QED BY <4>1, <4>2, <4>3, <4>5, <5>1
      <4>7. DOMAIN << >> = {} /\ \A i \in 1 .. Len(st) : i = 1 \/ i = 2
        BY <4>6
      <4>8. ASSUME NEW i \in 1 .. Len(st), NEW name \in DOMAIN st[i]
            PROVE  \E n \in 1 .. Len(p) : p[n].name = name
        <5>1. name \in DOMAIN scope
          BY <4>6, <4>7
        <5> HIDE DEF p
        <5> QED BY <3>9, <4>4, <5>1
      <4> QED BY <4>8 DEF NamesUpTo
    <3>11. NamesOK(Record, u, st)
      BY <2>1, <3>8, <3>10 DEF NamesOK
    <3>12. NamesOK(Record, todo', symbolTable')
      BY <3>1, <3>11
    <3> QED BY <1>2, <3>1, <3>12, NamesReport
  <2> QED BY <2>2, <2>3
<1> QED BY <1>1, <1>2 DEF BeginFunction

-----------------------------------------------------------------------------
(* The theorem.                                                            *)

(* Every step of the generator keeps what is said of reports.              *)
LEMMA ReportInvKept ==
    ASSUME NEW Nodes, Grammatical(Nodes), GenInv(Nodes), ReportInv, [Next]_vars
    PROVE  ReportInv'
<1>1. PICK T : GenOK(T, Nodes)
  BY DEF GenInv
<1>2. CASE UNCHANGED vars
  <2>1. Record' = Record
    BY <1>2 DEF vars, Record
  <2> QED BY <1>2, <2>1 DEF vars, ReportInv, NullReported
<1>3. CASE GenNull
  BY <1>3, StopReports DEF GenNull, Crash
<1>4. CASE GenStruct
  <2>1. CASE UnknownType
    BY <2>1, StopReports DEF UnknownType
  <2>2. CASE UNCHANGED <<todo, status>>
    <3>1. status = "run" /\ todo = << >>
      BY <1>4 DEF GenStruct, NextRecord
    <3> QED BY <2>2, <3>1 DEF ReportInv, NullReported
  <2> QED BY <1>4, <2>1, <2>2 DEF GenStruct
<1>5. CASE FinishFunction
  <2>1. status' = "run" /\ todo' = << >>
    BY <1>5 DEF FinishFunction, Doing
  <2> QED BY <2>1 DEF ReportInv, NullReported
<1>6. CASE VerifyModule
  BY <1>6, StopReports DEF VerifyModule
<1>7. CASE Declare
  <2>1. PICK value : symbolTable' = Declared(E, value)
    BY <1>7 DEF Declare
  <2>2. Doing("declare") /\ todo' = Tail(todo) /\ UNCHANGED <<prog, rec, status>>
    BY <1>7 DEF Declare
  <2>3. "declare" \in StatementDos
    BY DEF StatementDos
  <2> QED BY <1>1, <2>1, <2>2, <2>3, DoneReports
<1>8. CASE FinishStatement
  <2>1. PICK what \in StatementDos : Doing(what)
    BY <1>8 DEF FinishStatement, StatementDos
  <2>2. todo' = Tail(todo) /\ UNCHANGED <<prog, rec, status, symbolTable>>
    BY <1>8 DEF FinishStatement
  <2> QED BY <1>1, <2>1, <2>2, DoneReports
<1> QED BY <1>1, <1>2, <1>3, <1>4, <1>5, <1>6, <1>7, <1>8, BeginReports, GenReports,
           RedeclareReports, EndBlockReports, ExpressionReports DEF Next

(* Whatever module the parser may have made, it is rejected with a         *)
(* message, except for a function that declares a name twice: no name of   *)
(* another function or of another scope is mistaken for one of its own.    *)
THEOREM RejectionsReported ==
    ASSUME NEW Nodes, Grammatical(Nodes), Modules \subseteq Seq(Nodes)
    PROVE  Spec => []NullReported
<1>1. Init => ReportInv
  BY DEF Init, ReportInv, NullReported
<1>2. GenInv(Nodes) /\ ReportInv /\ [Next]_vars => ReportInv'
  BY ReportInvKept
<1>3. ReportInv => NullReported
  BY DEF ReportInv
<1> QED BY <1>1, <1>2, <1>3, GenInvAlways, PTL DEF Spec

-----------------------------------------------------------------------------
(* Sound functions.  What the patterns, the folds and the casts to a class *)
(* of operations rely on, which no verifier asks in full.                  *)

(* Pairs of attributes and their types, with those of the elements of each *)
(* struct among them.                                                      *)
Paired(P) ==
    \A p \in P :
        /\ IsStruct(p.type) =>
               /\ p.attr.k = "array" /\ DOMAIN p.attr.c = DOMAIN p.type.elements
               /\ \A i \in DOMAIN p.attr.c :
                      [attr |-> p.attr.c[i], type |-> p.type.elements[i]] \in P
        /\ ~ IsStruct(p.type) => p.attr.k # "array"

(* An attribute has the structure of its type, all the way down.           *)
Matches(a, t) == \E P : Paired(P) /\ [attr |-> a, type |-> t] \in P

(* The types that are structs, and the operations that have one.           *)
StructKinds == {"arg", "cast", "struct_constant", "struct_access"}

(* op takes an element of type t from a struct of type s.                  *)
ElementOf(op, s, t) ==
    /\ IsStruct(s) /\ op.attr.dims[1] \in DOMAIN s.elements
    /\ t = s.elements[op.attr.dims[1]]

(* An operation of type t, with a first operand of type s.                 *)
SoundOp(op, t, s) ==
    /\ op.kind \in Kinds /\ ArityOK(op)
    /\ IsStruct(t) => op.kind \in StructKinds
    /\ op.kind = "struct_constant" => IsStruct(t) /\ Matches(op.attr, t)
    /\ op.kind = "struct_access" => ElementOf(op, s, t)

FunctionSound(f) ==
    \A v \in 1 .. Len(f.ops) : SoundOp(f.ops[v], f.types[v], f.types[f.ops[v].args[1]])

(* An attribute of a struct type has its elements, of their types.         *)
LEMMA MatchesUnfold ==
    ASSUME NEW a, NEW t, Matches(a, t)
    PROVE  /\ IsStruct(t) =>
                  /\ a.k = "array" /\ DOMAIN a.c = DOMAIN t.elements
                  /\ \A i \in DOMAIN a.c : Matches(a.c[i], t.elements[i])
           /\ ~ IsStruct(t) => a.k # "array"
<1> DEFINE p == [attr |-> a, type |-> t]
<1>1. PICK P : Paired(P) /\ p \in P
  BY DEF Matches
<1>2. p.attr = a /\ p.type = t
  OBVIOUS
<1> HIDE DEF p
<1>3. /\ IsStruct(t) =>
             /\ a.k = "array" /\ DOMAIN a.c = DOMAIN t.elements
             /\ \A i \in DOMAIN a.c : [attr |-> a.c[i], type |-> t.elements[i]] \in P
      /\ ~ IsStruct(t) => a.k # "array"
  BY <1>1, <1>2, Zenon DEF Paired
<1> QED BY <1>1, <1>3, Zenon DEF Matches

(* An attribute that is no list of elements has a type that is no struct.  *)
LEMMA MatchesTensor ==
    ASSUME NEW a, NEW t, ~ IsStruct(t), a.k # "array"
    PROVE  Matches(a, t)
<1> DEFINE p == [attr |-> a, type |-> t]
           P == {p}
<1>1. p.attr = a /\ p.type = t
  OBVIOUS
<1> HIDE DEF p
<1>2. Paired(P) /\ p \in P
  BY <1>1 DEF Paired
<1> HIDE DEF P
<1>3. Paired(P) /\ [attr |-> a, type |-> t] \in P
  BY <1>2 DEF p
<1> QED BY <1>3, Zenon DEF Matches

(* Elements put together match the struct type of their types.             *)
LEMMA MatchesFold ==
    ASSUME NEW a, NEW t, IsStruct(t), a.k = "array", DOMAIN a.c = DOMAIN t.elements,
           \A i \in DOMAIN a.c : Matches(a.c[i], t.elements[i])
    PROVE  Matches(a, t)
<1> DEFINE p == [attr |-> a, type |-> t]
           D == DOMAIN a.c
           e(i) == [attr |-> a.c[i], type |-> t.elements[i]]
           C(i) == CHOOSE Q : Paired(Q) /\ e(i) \in Q
           P == {p} \cup UNION {C(i) : i \in D}
<1>1. p.attr = a /\ p.type = t
  OBVIOUS
<1>2. \A i \in D : \E Q : Paired(Q) /\ e(i) \in Q
  BY Zenon DEF Matches
<1>3. \A i \in D : Paired(C(i)) /\ e(i) \in C(i)
  BY <1>2, Zenon
<1>4. /\ p \in P /\ \A i \in D : C(i) \subseteq P
      /\ \A q \in P : q = p \/ \E i \in D : q \in C(i)
  <2> HIDE DEF p, C
  <2> QED OBVIOUS
<1>5. \A i \in D : e(i) \in P
  <2> HIDE DEF e, C, P
  <2> QED BY <1>3, <1>4
<1> HIDE DEF P, C, p
<1>6. Paired(P)
  <2> SUFFICES ASSUME NEW q \in P
               PROVE  /\ IsStruct(q.type) =>
                             /\ q.attr.k = "array" /\ DOMAIN q.attr.c = DOMAIN q.type.elements
                             /\ \A j \in DOMAIN q.attr.c :
                                    [attr |-> q.attr.c[j], type |-> q.type.elements[j]] \in P
                      /\ ~ IsStruct(q.type) => q.attr.k # "array"
    BY Zenon DEF Paired
  <2>1. CASE q = p
    BY <1>1, <1>5, <2>1
  <2>2. ASSUME NEW i \in D, q \in C(i)
        PROVE  /\ IsStruct(q.type) =>
                      /\ q.attr.k = "array" /\ DOMAIN q.attr.c = DOMAIN q.type.elements
                      /\ \A j \in DOMAIN q.attr.c :
                             [attr |-> q.attr.c[j], type |-> q.type.elements[j]] \in P
               /\ ~ IsStruct(q.type) => q.attr.k # "array"
    <3>1. Paired(C(i)) /\ C(i) \subseteq P
      BY <1>3, <1>4
    <3>2. /\ IsStruct(q.type) =>
                 /\ q.attr.k = "array" /\ DOMAIN q.attr.c = DOMAIN q.type.elements
                 /\ \A j \in DOMAIN q.attr.c :
                        [attr |-> q.attr.c[j], type |-> q.type.elements[j]] \in C(i)
          /\ ~ IsStruct(q.type) => q.attr.k # "array"
      BY <2>2, <3>1, Zenon DEF Paired
    <3> QED BY <3>1, <3>2
  <2> QED BY <1>4, <2>1, <2>2
<1>7. [attr |-> a, type |-> t] \in P
  BY <1>4 DEF p
<1> QED BY <1>6, <1>7, Zenon DEF Matches

(* The operations and types are those of ToyIR, but for the elements of    *)
(* struct types.                                                           *)
PlainOp(op, t) ==
    /\ op.kind = "constant" => op.attr.dims \in Seq(Nat)
    /\ IsStruct(t) \/ t \in Type

Plain(f) ==
    /\ f.result \in Seq(Type)
    /\ \A v \in 1 .. Len(f.ops) : PlainOp(f.ops[v], f.types[v])

(* A function as the generator makes it.                                   *)
Made(f) == FunctionSound(f) /\ Plain(f)

(* Of its operand only an access needs to know the type.                   *)
LEMMA SoundSame ==
    ASSUME NEW op, NEW t, NEW s, SoundOp(op, t, s),
           NEW r, op.kind = "struct_access" => r = s
    PROVE  SoundOp(op, t, r)
BY DEF SoundOp

(* An access has an operand.                                               *)
LEMMA AccessHasOperand ==
    ASSUME NEW f, FunctionOK(f), NEW v \in 1 .. Len(f.ops), f.ops[v].kind = "struct_access"
    PROVE  1 \in 1 .. Len(f.ops[v].args) /\ Usable(f, v, f.ops[v].args[1])
<1>1. /\ IsOperation(f.ops[v])
      /\ \A i \in 1 .. Len(f.ops[v].args) : Usable(f, v, f.ops[v].args[i])
  BY DEF FunctionOK
<1>2. IsSequence(f.ops[v].args) /\ f.ops[v].args # << >>
  BY <1>1 DEF IsOperation, Operating
<1>3. 1 \in 1 .. Len(f.ops[v].args)
  BY <1>2, SequenceFacts
<1> QED BY <1>1, <1>3

(* A sound operation at the end of a function leaves it sound.             *)
LEMMA GrownSound ==
    ASSUME NEW f, FunctionOK(f), f.result = << >>, FunctionSound(f), NEW op, NEW type,
           IsOperation(op), op.kind # "arg",
           \A i \in 1 .. Len(op.args) : IsValue(f, op.args[i]),
           SoundOp(op, type, f.types[op.args[1]])
    PROVE  FunctionSound(Grown(f, op, type))
<1> DEFINE g == Grown(f, op, type)
           L == Len(f.ops)
<1>1. /\ FunctionOK(g) /\ Len(g.ops) = L + 1
      /\ \A v \in 1 .. L : g.types[v] = f.types[v] /\ g.ops[v] = f.ops[v]
      /\ g.types[L + 1] = type /\ g.ops[L + 1] = op
  BY GrownOK
<1>2. L \in Nat
  BY SequenceFacts DEF FunctionOK, IsFunction
<1> HIDE DEF g
<1>3. ASSUME NEW v \in 1 .. L PROVE SoundOp(g.ops[v], g.types[v], g.types[g.ops[v].args[1]])
  <2>1. SoundOp(f.ops[v], f.types[v], f.types[f.ops[v].args[1]])
    BY <1>3 DEF FunctionSound
  <2>2. f.ops[v].kind = "struct_access" =>
            g.types[f.ops[v].args[1]] = f.types[f.ops[v].args[1]]
    <3>1. f.ops[v].kind = "struct_access" => f.ops[v].args[1] \in 1 .. v - 1
      BY <1>3, AccessHasOperand DEF Usable
    <3> QED BY <1>1, <1>2, <1>3, <3>1
  <2>3. SoundOp(f.ops[v], f.types[v], g.types[f.ops[v].args[1]])
    BY <2>1, <2>2, SoundSame
  <2> QED BY <1>1, <1>3, <2>3
<1>4. SoundOp(op, type, g.types[op.args[1]])
  <2>1. op.kind = "struct_access" => g.types[op.args[1]] = f.types[op.args[1]]
    <3>1. op.kind = "struct_access" => IsSequence(op.args) /\ op.args # << >>
      BY DEF IsOperation, Operating
    <3>2. op.kind = "struct_access" => 1 \in 1 .. Len(op.args)
      BY <3>1, SequenceFacts
    <3>3. op.kind = "struct_access" => op.args[1] \in 1 .. L
      BY <3>2 DEF IsValue
    <3> QED BY <1>1, <3>3
  <2> QED BY <2>1, SoundSame
<1>5. SoundOp(g.ops[L + 1], g.types[L + 1], g.types[g.ops[L + 1].args[1]])
  BY <1>1, <1>4
<1>6. \A v \in 1 .. L + 1 : v \in 1 .. L \/ v = L + 1
  BY <1>2
<1>7. FunctionSound(g)
  BY <1>1, <1>3, <1>5, <1>6 DEF FunctionSound
<1> QED BY <1>7 DEF g

(* A plain operation leaves it as the generator makes it.                  *)
LEMMA GrownMade ==
    ASSUME NEW f, FunctionOK(f), f.result = << >>, Made(f), NEW op, NEW type,
           IsOperation(op), op.kind # "arg",
           \A i \in 1 .. Len(op.args) : IsValue(f, op.args[i]),
           SoundOp(op, type, f.types[op.args[1]]), PlainOp(op, type)
    PROVE  Made(Grown(f, op, type))
<1> DEFINE g == Grown(f, op, type)
           L == Len(f.ops)
<1>1. FunctionSound(g)
  BY GrownSound DEF Made
<1>2. /\ g.result = << >> /\ Len(g.ops) = L + 1
      /\ \A v \in 1 .. L : g.types[v] = f.types[v] /\ g.ops[v] = f.ops[v]
      /\ g.types[L + 1] = type /\ g.ops[L + 1] = op
  BY GrownOK
<1>3. L \in Nat
  BY SequenceFacts DEF FunctionOK, IsFunction
<1> HIDE DEF g
<1>4. \A v \in 1 .. L + 1 : v \in 1 .. L \/ v = L + 1
  BY <1>3
<1>5. \A v \in 1 .. L : PlainOp(f.ops[v], f.types[v])
  BY DEF Made, Plain
<1>6. \A v \in 1 .. L + 1 : PlainOp(g.ops[v], g.types[v])
  BY <1>2, <1>4, <1>5
<1>7. Plain(g)
  BY <1>2, <1>6, SMTT(40) DEF Plain
<1> QED BY <1>1, <1>7 DEF Made, g

(* Another last function, and the others.                                  *)
LEMMA OthersKept ==
    ASSUME NEW fs, IsSequence(fs), fs # << >>, NEW g, NEW gs, gs = WithLast(fs, g)
    PROVE  /\ IsSequence(gs) /\ Len(gs) = Len(fs) /\ gs[Len(fs)] = g
           /\ \A n \in 1 .. Len(fs) : n # Len(fs) => gs[n] = fs[n]
<1> DEFINE L == Len(fs)
<1>1. L \in Nat /\ L # 0 /\ DOMAIN fs = 1 .. L
  BY SequenceFacts
<1>2. L \in DOMAIN fs
  BY <1>1
<1>3. DOMAIN gs = 1 .. L /\ gs[L] = g /\ \A n \in DOMAIN fs : n # L => gs[n] = fs[n]
  BY <1>1, <1>2, Zenon DEF WithLast
<1> DEFINE es == [fs EXCEPT ![L] = g]
<1>4. DOMAIN es = 1 .. L
  BY <1>1, Zenon
<1>5. es = [n \in 1 .. L |-> es[n]]
  BY <1>4, Zenon
<1>6. gs = [n \in 1 .. L |-> gs[n]]
  BY <1>5, Zenon DEF WithLast
<1> HIDE DEF L, es
<1>7. IsSequence(gs) /\ Len(gs) = L
  BY <1>1, <1>6, FunctionFacts
<1> QED BY <1>1, <1>3, <1>7 DEF L

MadeAll(fs) == \A n \in 1 .. Len(fs) : Made(fs[n])

(* With another last function that is as the generator makes it.           *)
LEMMA MadeLast ==
    ASSUME NEW fs, IsSequence(fs), fs # << >>, MadeAll(fs), NEW g, Made(g),
           NEW gs, gs = WithLast(fs, g)
    PROVE  MadeAll(gs)
<1>1. /\ Len(gs) = Len(fs) /\ gs[Len(fs)] = g
      /\ \A n \in 1 .. Len(fs) : n # Len(fs) => gs[n] = fs[n]
  BY OthersKept
<1>2. ASSUME NEW n \in 1 .. Len(gs) PROVE Made(gs[n])
  <2>1. CASE n = Len(fs)
    BY <1>1, <2>1
  <2>2. CASE n # Len(fs)
    BY <1>1, <1>2, <2>2 DEF MadeAll
  <2> QED BY <2>1, <2>2
<1> QED BY <1>2 DEF MadeAll

(* What a new operation at the end of the current function must be.        *)
FitsCurrent(op, type) ==
    /\ IsOperation(op) /\ op.kind # "arg"
    /\ \A i \in 1 .. Len(op.args) : IsValue(Current, op.args[i])
    /\ SoundOp(op, type, Current.types[op.args[1]]) /\ PlainOp(op, type)

(* A new operation.                                                        *)
LEMMA BuiltMade ==
    ASSUME FunctionsOK(funcs), funcs # << >>, MadeAll(funcs), Current.result = << >>,
           NEW op, NEW type, FitsCurrent(op, type), NEW gs, gs = Built(op, type)
    PROVE  MadeAll(gs)
<1> DEFINE f == Current
<1>1. /\ IsSequence(funcs) /\ Len(funcs) \in 1 .. Len(funcs)
      /\ FunctionOK(f) /\ Made(f)
  <2>1. IsSequence(funcs)
    BY DEF FunctionsOK
  <2>2. Len(funcs) \in 1 .. Len(funcs)
    BY <2>1, SequenceFacts
  <2> QED BY <2>1, <2>2 DEF FunctionsOK, MadeAll, Current
<1>2. Made(Grown(f, op, type))
  <2>1. f.result = << >>
    OBVIOUS
  <2>2. /\ IsOperation(op) /\ op.kind # "arg"
        /\ \A i \in 1 .. Len(op.args) : IsValue(f, op.args[i])
        /\ SoundOp(op, type, f.types[op.args[1]]) /\ PlainOp(op, type)
    BY DEF FitsCurrent
  <2> HIDE DEF f
  <2> QED BY <1>1, <2>1, <2>2, GrownMade
<1>3. gs = WithLast(funcs, Grown(f, op, type))
  <2>1. IsFunction(funcs[Len(funcs)])
    BY <1>1 DEF FunctionOK, Current
  <2>2. gs = WithBuilt(funcs, op, type)
    BY Zenon DEF Built, WithBuilt
  <2>3. WithBuilt(funcs, op, type) = WithLast(funcs, Grown(funcs[Len(funcs)], op, type))
    BY <1>1, <2>1, BuiltIsGrown
  <2> QED BY <2>2, <2>3, Zenon DEF Current
<1> HIDE DEF f
<1> QED BY <1>1, <1>2, <1>3, MadeLast

-----------------------------------------------------------------------------
(* Struct literals: the operation is built from the attribute returned     *)
(* last, which is that of a literal.                                       *)

(* The items that leave the attribute of a literal.                        *)
Opens(item) == item.do = "array" \/ (item.do = "attr" /\ item.node.k = "struct_literal")

(* An operation is built behind one of those.                              *)
Chain(t) == \A i \in 1 .. Len(t) - 1 : t[i + 1].do = "struct" => Opens(t[i])

StructNext(t, as) == t # << >> /\ t[1].do = "struct" => IsStruct(as[Len(as)].type)

AttrsMatch(as) == \A i \in 1 .. Len(as) : Matches(as[i].attr, as[i].type)

LiteralInv ==
    /\ AttrsMatch(attrs)
    /\ status = "run" => Chain(todo) /\ StructNext(todo, attrs)

(* Without the first item.                                                 *)
LEMMA ChainPop ==
    ASSUME NEW t, IsSequence(t), t # << >>, Chain(t)
    PROVE  /\ Chain(Tail(t))
           /\ Tail(t) # << >> /\ Tail(t)[1].do = "struct" => Opens(t[1])
<1> DEFINE r == Tail(t)
           L == Len(t)
<1>1. /\ IsSequence(r) /\ Len(r) = L - 1 /\ \A i \in 1 .. L - 1 : r[i] = t[i + 1]
  BY TailFacts
<1>2. L \in Nat /\ L >= 1
  BY SequenceFacts
<1>3. r # << >> => L >= 2
  BY <1>1, <1>2, SequenceFacts
<1> HIDE DEF r, L
<1>4. ASSUME NEW i \in 1 .. Len(r) - 1, r[i + 1].do = "struct" PROVE Opens(r[i])
  <2>1. i \in 1 .. L - 1 /\ i + 1 \in 1 .. L - 1
    BY <1>1, <1>2
  <2>2. r[i + 1] = t[(i + 1) + 1] /\ r[i] = t[i + 1]
    BY <1>1, <2>1
  <2> QED BY <1>4, <2>1, <2>2 DEF Chain, L
<1>5. r # << >> /\ r[1].do = "struct" => Opens(t[1])
  <2>1. ASSUME r # << >>, r[1].do = "struct" PROVE Opens(t[1])
    <3>1. 1 \in 1 .. L - 1 /\ r[1] = t[1 + 1]
      BY <1>1, <1>2, <1>3, <2>1
    <3> QED BY <2>1, <3>1 DEF Chain, L
  <2> QED BY <2>1
<1>6. Chain(r)
  BY <1>4 DEF Chain
<1> QED BY <1>5, <1>6 DEF r

(* Other items in the place of the first.                                  *)
LEMMA ChainPush ==
    ASSUME NEW t, IsSequence(t), t # << >>, Chain(t),
           NEW items, IsSequence(items), items # << >>, Chain(items),
           Opens(t[1]) => Opens(items[Len(items)])
    PROVE  /\ Chain(items \o Tail(t))
           /\ (items \o Tail(t))[1] = items[1]
<1> DEFINE r == Tail(t)
           K == Len(items)
           u == items \o r
<1>1. IsSequence(r)
  BY TailFacts
<1>2. /\ IsSequence(u) /\ Len(u) = K + Len(r)
      /\ \A m \in 1 .. K : u[m] = items[m]
      /\ \A m \in 1 .. Len(r) : u[K + m] = r[m]
  BY <1>1, ConcatFacts
<1>3. /\ Chain(r)
      /\ r # << >> /\ r[1].do = "struct" => Opens(t[1])
  BY ChainPop
<1> HIDE DEF r, u
<1>4. K \in Nat /\ K >= 1 /\ Len(r) \in Nat /\ (Len(r) # 0 => r # << >>)
  <2>1. K \in Nat /\ K # 0
    BY SequenceFacts
  <2>2. Len(r) \in Nat /\ (Len(r) # 0 => r # << >>)
    BY <1>1, SequenceFacts
  <2> QED BY <2>1, <2>2
<1>5. ASSUME NEW i \in 1 .. Len(u) - 1, u[i + 1].do = "struct" PROVE Opens(u[i])
  <2>1. CASE i + 1 <= K
    <3>1. i \in 1 .. K - 1 /\ i \in 1 .. K /\ i + 1 \in 1 .. K
      BY <1>4, <2>1
    <3>2. u[i] = items[i] /\ u[i + 1] = items[i + 1]
      BY <1>2, <3>1
    <3> QED BY <1>5, <3>1, <3>2 DEF Chain
  <2>2. CASE i = K
    <3>1. K \in 1 .. K /\ 1 \in 1 .. Len(r) /\ Len(r) # 0
      BY <1>2, <1>4, <2>2
    <3>2. u[K] = items[K] /\ u[K + 1] = r[1]
      BY <1>2, <3>1
    <3> QED BY <1>3, <1>4, <1>5, <2>2, <3>1, <3>2
  <2>3. CASE i > K
    <3> DEFINE m == i - K
    <3>1. /\ m \in 1 .. Len(r) - 1 /\ m \in 1 .. Len(r) /\ m + 1 \in 1 .. Len(r)
          /\ K + m = i /\ K + (m + 1) = i + 1
      BY <1>2, <1>4, <2>3
    <3> HIDE DEF m
    <3>2. u[i] = r[m] /\ u[i + 1] = r[m + 1]
      BY <1>2, <3>1
    <3> QED BY <1>3, <1>5, <3>1, <3>2 DEF Chain
  <2> QED BY <1>4, <2>1, <2>2, <2>3
<1>6. Chain(u)
  BY <1>5 DEF Chain
<1>7. u[1] = items[1]
  BY <1>2, <1>4
<1> QED BY <1>6, <1>7 DEF u, r

(* Items none of which builds the operation of a literal.                  *)
LEMMA ChainFree ==
    ASSUME NEW t, \A i \in 1 .. Len(t) : t[i].do # "struct", Len(t) \in Nat
    PROVE  Chain(t)
<1>1. \A i \in 1 .. Len(t) - 1 : i + 1 \in 1 .. Len(t)
  OBVIOUS
<1> QED BY <1>1 DEF Chain

(* A step after which nothing is generated.                                *)
LEMMA StopLiterals ==
    ASSUME LiteralInv, status' # "run", UNCHANGED attrs
    PROVE  LiteralInv'
BY DEF LiteralInv, AttrsMatch

(* The first item is done, and left no attribute.                          *)
LEMMA PopLiterals ==
    ASSUME LiteralInv, status = "run", IsSequence(todo), todo # << >>, ~ Opens(todo[1]),
           todo' = Tail(todo), UNCHANGED attrs
    PROVE  LiteralInv'
<1>1. /\ Chain(todo')
      /\ todo' # << >> /\ todo'[1].do = "struct" => Opens(todo[1])
  BY ChainPop DEF LiteralInv
<1> QED BY <1>1 DEF LiteralInv, AttrsMatch, StructNext

(* The first item goes on with others.                                     *)
LEMMA PushLiterals ==
    ASSUME LiteralInv, status = "run", IsSequence(todo), todo # << >>,
           NEW items, IsSequence(items), items # << >>, Chain(items), items[1].do # "struct",
           Opens(todo[1]) => Opens(items[Len(items)]),
           Push(items)
    PROVE  LiteralInv'
<1>1. todo' = items \o Tail(todo) /\ attrs' = attrs
  BY DEF Push
<1>2. Chain(todo') /\ todo'[1] = items[1]
  BY <1>1, ChainPush DEF LiteralInv
<1> QED BY <1>1, <1>2 DEF LiteralInv, AttrsMatch, StructNext

(* One more attribute that matches its type.                               *)
LEMMA AttrMatched ==
    ASSUME NEW as, IsSequence(as), AttrsMatch(as), NEW attr, NEW type, Matches(attr, type)
    PROVE  LET bs == Append(as, [attr |-> attr, type |-> type])
           IN  AttrsMatch(bs) /\ bs[Len(bs)].type = type
<1> DEFINE r == [attr |-> attr, type |-> type]
           bs == Append(as, r)
<1>1. IsSequence(as) /\ Len(as) \in Nat /\ r.type = type /\ r.attr = attr
  BY SequenceFacts
<1> HIDE DEF r
<1>2. /\ IsSequence(bs) /\ Len(bs) = Len(as) + 1
      /\ \A i \in 1 .. Len(as) : bs[i] = as[i]
      /\ bs[Len(as) + 1] = r
  BY ONLY <1>1, AppendFacts
<1> HIDE DEF bs
<1>3. \A i \in 1 .. Len(bs) : i \in 1 .. Len(as) \/ i = Len(as) + 1
  <2> DEFINE x == Len(as)
             y == Len(bs)
  <2>1. x \in Nat /\ y = x + 1
    BY <1>1, <1>2
  <2> HIDE DEF x, y
  <2>2. \A i \in 1 .. y : i \in 1 .. x \/ i = x + 1
    BY <2>1
  <2> QED BY <2>2 DEF x, y
<1>4. ASSUME NEW i \in 1 .. Len(bs) PROVE Matches(bs[i].attr, bs[i].type)
  <2>1. CASE i \in 1 .. Len(as)
    <3>1. Matches(as[i].attr, as[i].type)
      BY <2>1 DEF AttrsMatch
    <3> QED BY <1>2, <2>1, <3>1
  <2>2. CASE i = Len(as) + 1
    BY <1>1, <1>2, <2>2
  <2> QED BY <1>3, <2>1, <2>2
<1> QED BY <1>1, <1>2, <1>4 DEF AttrsMatch, bs, r

(* An element is an attribute that matches its type, or goes on.           *)
LEMMA VisitElementLiterals ==
    ASSUME NEW T, NEW Nodes, GenOK(T, Nodes), Grammatical(Nodes), LiteralInv, VisitElement
    PROVE  LiteralInv'
<1>1. Doing("attr")
  BY DEF VisitElement
<1>2. /\ IsSequence(todo) /\ todo # << >> /\ todo[1].do = "attr" /\ status = "run"
      /\ IsSequence(attrs) /\ ItemOK(todo[1], Nodes)
  BY <1>1, AtWork DEF Doing, Working, AttrsOK
<1>3. CASE Crash
  BY <1>3, StopLiterals DEF Crash
<1>4. CASE E.k \in {"tensor", "num"} /\ PushAttr(E, Unranked)
  <2>1. /\ todo' = Tail(todo) /\ attrs' = Append(attrs, [attr |-> E, type |-> Unranked])
    BY <1>4 DEF PushAttr
  <2>2. ~ Opens(todo[1])
    BY <1>2, <1>4 DEF Opens, E
  <2>3. ~ IsStruct(Unranked) /\ E.k # "array"
    BY <1>4 DEF IsStruct, Unranked
  <2>4. Matches(E, Unranked)
    BY <2>3, MatchesTensor
  <2>5. AttrsMatch(attrs')
    BY <1>2, <2>1, <2>4, AttrMatched DEF LiteralInv
  <2>6. /\ Chain(todo')
        /\ todo' # << >> /\ todo'[1].do = "struct" => Opens(todo[1])
    BY <1>2, <2>1, ChainPop DEF LiteralInv
  <2> QED BY <2>2, <2>5, <2>6 DEF LiteralInv, StructNext
<1>5. CASE VisitElements
  <2> DEFINE b == Do("array", E)
             cs == E.c
             items == Visits("attr", cs) \o <<b>>
  <2>1. IsSequence(cs)
    <3>1. E \in Nodes
      BY <1>2 DEF ItemOK, E
    <3> QED BY <3>1, SeqIsSequence DEF Grammatical, InGrammar
  <2>2. IsSequence(<<b>>) /\ Len(<<b>>) = 1 /\ <<b>>[1] = b
    BY TupleFacts
  <2>3. VisitsFirst(items, "attr", cs, <<b>>)
    BY <2>1, <2>2, VisitsThen
  <2>4. Push(items) /\ b.do = "array"
    BY <1>5, Zenon DEF VisitElements, Do
  <2> HIDE DEF b, cs, items
  <2>5. /\ IsSequence(items) /\ Len(items) = Len(cs) + 1 /\ Len(cs) \in Nat
        /\ \A p \in 1 .. Len(cs) : items[p] = Do("attr", cs[p])
        /\ items[Len(cs) + 1] = b
        /\ \A p \in 1 .. Len(items) : p \in 1 .. Len(cs) \/ p = Len(cs) + 1
    BY <2>2, <2>3 DEF VisitsFirst
  <2>6. \A p \in 1 .. Len(cs) : items[p].do = "attr"
    <3>1. \A x : Do("attr", x).do = "attr"
      BY DEF Do
    <3> QED BY <2>5, <3>1
  <2>7. \A p \in 1 .. Len(items) : items[p].do # "struct"
    BY <2>4, <2>5, <2>6
  <2>8. items # << >> /\ 1 \in 1 .. Len(items) /\ Len(items) \in Nat /\ Opens(items[Len(items)])
    BY <2>4, <2>5, EmptyIsSequence DEF Opens
  <2>9. Chain(items) /\ items[1].do # "struct"
    BY <2>7, <2>8, ChainFree
  <2> QED BY <1>2, <2>4, <2>5, <2>8, <2>9, PushLiterals
<1>6. CASE E.k \notin {"null", "tensor", "num", "struct_literal"} /\ Push(<< >>)
  <2>1. ~ Opens(todo[1])
    BY <1>2, <1>6 DEF Opens, E
  <2>2. << >> \o Tail(todo) = Tail(todo)
    <3>1. IsSequence(Tail(todo))
      BY <1>2, TailFacts
    <3> QED BY <3>1, ConcatEmptySeq DEF IsSequence
  <2>3. todo' = Tail(todo) /\ UNCHANGED attrs
    BY <1>6, <2>2 DEF Push
  <2> QED BY <1>2, <2>1, <2>3, PopLiterals
<1> QED BY <1>3, <1>4, <1>5, <1>6, Zenon DEF VisitElement, VisitElements, Visits

(* The attributes of the elements match the types they are put with.       *)
LEMMA BuildArrayLiterals ==
    ASSUME NEW T, NEW Nodes, GenOK(T, Nodes), Grammatical(Nodes), LiteralInv, BuildArray
    PROVE  LiteralInv'
<1>1. Doing("array")
  BY DEF BuildArray
<1> DEFINE n == Cardinality(Kept(E.c))
           elements == SubSeq(attrs, Len(attrs) - n + 1, Len(attrs))
           cs == [i \in 1 .. n |-> elements[i].attr]
           types == [i \in 1 .. n |-> elements[i].type]
           attr == Node("array", "", cs)
           type == StructOf(types)
           w == Without(n, attrs)
<1>2. CASE Crash
  BY <1>2, StopLiterals DEF Crash
<1>3. CASE attrs' = Append(w, [attr |-> attr, type |-> type]) /\ todo' = Tail(todo)
  <2>1. /\ IsSequence(todo) /\ todo # << >> /\ todo[1].do = "array" /\ status = "run"
    BY <1>1, AtWork DEF Doing
  <2>2. /\ attr.k = "array" /\ attr.c = cs /\ IsStruct(type) /\ type.elements = types
    BY Zenon DEF Node, SizedNode, StructOf, IsStruct
  <2>3. attrs' = Append(w, [attr |-> attr, type |-> type])
    BY <1>3
  <2> HIDE DEF n, attr, type, w
  <2>4. n \in Nat /\ Len(attrs) >= n /\ IsSequence(attrs) /\ Len(attrs) \in Nat
    BY <1>1, ArrayReady DEF n
  <2>5. \A i \in 1 .. n : Matches(elements[i].attr, elements[i].type)
    <3>1. Len(attrs) - n + 1 \in 1 .. Len(attrs) + 1
          /\ Len(attrs) \in (Len(attrs) - n + 1) - 1 .. Len(attrs)
      BY <2>4
    <3>2. \A i \in 1 .. Len(attrs) - (Len(attrs) - n + 1) + 1 :
              elements[i] = attrs[(Len(attrs) - n + 1) + i - 1]
      BY <2>4, <3>1, SubSeqFacts
    <3> HIDE DEF elements
    <3> TAKE i \in 1 .. n
    <3>3. i \in 1 .. Len(attrs) - (Len(attrs) - n + 1) + 1
          /\ (Len(attrs) - n + 1) + i - 1 \in 1 .. Len(attrs)
      BY <2>4
    <3> DEFINE j == (Len(attrs) - n + 1) + i - 1
    <3>4. j \in 1 .. Len(attrs) /\ elements[i] = attrs[j]
      BY <3>2, <3>3
    <3> HIDE DEF j
    <3> QED BY <3>4 DEF LiteralInv, AttrsMatch
  <2>6. Matches(attr, type)
    <3>1. /\ DOMAIN cs = 1 .. n /\ DOMAIN types = 1 .. n
          /\ \A i \in 1 .. n : cs[i] = elements[i].attr /\ types[i] = elements[i].type
      BY Zenon
    <3> HIDE DEF cs, types, elements
    <3>2. \A i \in 1 .. n : Matches(cs[i], types[i])
      BY <2>5, <3>1, Zenon
    <3>3. DOMAIN attr.c = DOMAIN type.elements
      BY <2>2, <3>1, Zenon
    <3>4. \A i \in DOMAIN attr.c : Matches(attr.c[i], type.elements[i])
      BY <2>2, <3>1, <3>2, Zenon
    <3> QED BY <2>2, <3>3, <3>4, MatchesFold
  <2>7. IsSequence(w) /\ AttrsMatch(w)
    <3>1. 1 \in 1 .. Len(attrs) + 1 /\ Len(attrs) - n \in 1 - 1 .. Len(attrs)
      BY <2>4
    <3>2. /\ IsSequence(w) /\ Len(w) = (Len(attrs) - n) - 1 + 1
          /\ \A i \in 1 .. (Len(attrs) - n) - 1 + 1 : w[i] = attrs[1 + i - 1]
      BY <2>4, <3>1, SubSeqFacts DEF Without, w
    <3>3. ASSUME NEW i \in 1 .. Len(w) PROVE Matches(w[i].attr, w[i].type)
      <4>1. i \in 1 .. Len(attrs) /\ 1 + i - 1 = i /\ i \in 1 .. (Len(attrs) - n) - 1 + 1
        BY <2>4, <3>2
      <4>2. w[i] = attrs[i]
        BY <3>2, <4>1
      <4> QED BY <4>1, <4>2 DEF LiteralInv, AttrsMatch
    <3> QED BY <3>2, <3>3 DEF AttrsMatch
  <2>8. AttrsMatch(attrs') /\ attrs'[Len(attrs')].type = type
    BY <2>3, <2>6, <2>7, AttrMatched
  <2>9. Chain(todo')
    BY <1>3, <2>1, ChainPop DEF LiteralInv
  <2> QED BY <2>2, <2>8, <2>9 DEF LiteralInv, StructNext
<1> QED BY <1>2, <1>3, Zenon DEF BuildArray

(* Items none of which is of a literal.                                    *)
FreeOf(items) == \A i \in 1 .. Len(items) : items[i].do # "struct"

(* Where no item is of a literal, the last attribute need not be of one. *)
LEMMA FreeLiterals ==
    ASSUME LiteralInv, IsSequence(todo'), FreeOf(todo'), UNCHANGED attrs
    PROVE  LiteralInv'
<1> DEFINE t == todo'
<1>1. IsSequence(t) /\ FreeOf(t)
  OBVIOUS
<1> HIDE DEF t
<1>2. Len(t) \in Nat /\ (t # << >> => 1 \in 1 .. Len(t))
  BY <1>1, SequenceFacts
<1>3. Chain(t)
  BY <1>1, <1>2, ChainFree DEF FreeOf
<1>4. ~ (t # << >> /\ t[1].do = "struct")
  BY <1>1, <1>2 DEF FreeOf
<1>5. Chain(todo') /\ StructNext(todo', attrs')
  BY <1>3, <1>4 DEF StructNext, t
<1> QED BY <1>5 DEF LiteralInv, AttrsMatch

(* An expression that pushes such items is none that a literal waits for.*)
LEMMA PushFree ==
    ASSUME LiteralInv, status = "run", IsSequence(todo), todo # << >>, ~ Opens(todo[1]),
           NEW items, IsSequence(items), items # << >>, FreeOf(items), Push(items)
    PROVE  LiteralInv'
<1>1. Len(items) \in Nat /\ 1 \in 1 .. Len(items)
  BY SequenceFacts
<1>2. Chain(items) /\ items[1].do # "struct"
  BY <1>1, ChainFree DEF FreeOf
<1> QED BY <1>2, PushLiterals

(* A failed expression leaves no literal to be built.                      *)
LEMMA FailExprLiterals ==
    ASSUME NEW T, NEW Nodes, GenOK(T, Nodes), NEW what, Doing(what), LiteralInv, FailExpr
    PROVE  LiteralInv'
<1>1. CASE FailFunction(TRUE)
  BY <1>1, StopLiterals DEF FailFunction
<1>2. CASE todo' = <<Block(<< >>), todo[Len(todo)]>> /\ UNCHANGED attrs
  <2> DEFINE b == Block(<< >>)
             e == todo[Len(todo)]
             u == <<b, e>>
  <2>1. b.do = "block"
    BY Zenon DEF Block, Do
  <2>2. e.do = "finish"
    BY AtWork DEF TodoOK
  <2> HIDE DEF b, e
  <2>3. IsSequence(u) /\ Len(u) = 2 /\ u[1] = b /\ u[2] = e
    BY TupleFacts
  <2> HIDE DEF u
  <2>4. FreeOf(u)
    <3>1. \A i \in 1 .. Len(u) : i = 1 \/ i = 2
      BY <2>3
    <3> QED BY <2>1, <2>2, <2>3, <3>1 DEF FreeOf
  <2>5. IsSequence(todo') /\ FreeOf(todo')
    BY <1>2, <2>3, <2>4 DEF u, b, e
  <2> QED BY <1>2, <2>5, FreeLiterals
<1> QED BY <1>1, <1>2 DEF FailExpr

(* Children that are visited, and an item behind them.                     *)
LEMMA VisitsFree ==
    ASSUME NEW what, what # "struct", NEW nodes, IsSequence(nodes), NEW rest, IsSequence(rest),
           FreeOf(rest), rest # << >>, NEW items, items = Visits(what, nodes) \o rest
    PROVE  IsSequence(items) /\ FreeOf(items) /\ items # << >>
<1>1. VisitsFirst(items, what, nodes, rest)
  BY VisitsThen
<1>2. \A x : Do(what, x).do = what
  BY DEF Do
<1>3. ASSUME NEW p \in 1 .. Len(items) PROVE items[p].do # "struct"
  <2>1. CASE p \in 1 .. Len(nodes)
    BY <1>1, <1>2, <2>1 DEF VisitsFirst
  <2>2. ASSUME NEW m \in 1 .. Len(rest), p = Len(nodes) + m PROVE items[p].do # "struct"
    BY <1>1, <2>2 DEF VisitsFirst, FreeOf
  <2> QED BY <1>1, <2>1, <2>2 DEF VisitsFirst
<1>4. Len(items) # 0
  BY <1>1, SequenceFacts DEF VisitsFirst
<1> QED BY <1>1, <1>3, <1>4, SequenceFacts DEF VisitsFirst, FreeOf

(* A visit or a build of an expression.                                    *)
LEMMA ExpressionLiterals ==
    ASSUME NEW T, NEW Nodes, GenOK(T, Nodes), Grammatical(Nodes), LiteralInv, Expression
    PROVE  LiteralInv'
<1>1. ASSUME Crash PROVE LiteralInv'
  BY <1>1, StopLiterals DEF Crash
<1>2. ASSUME NEW what, Doing(what)
      PROVE  /\ IsSequence(todo) /\ todo # << >> /\ status = "run" /\ todo[1].do = what
             /\ what \in {"expr", "build", "block"} => ~ Opens(todo[1])
             /\ what # "block" => E \in Nodes /\ IsSequence(E.c)
  <2>1. IsSequence(todo) /\ todo # << >> /\ todo[1].do = what /\ ItemOK(todo[1], Nodes)
    BY <1>2, AtWork
  <2>2. what # "block" => E \in Nodes
    BY <2>1 DEF ItemOK, E
  <2>3. what # "block" => E.c \in Seq(Nodes)
    BY <2>2 DEF Grammatical, InGrammar
  <2> QED BY <1>2, <2>1, <2>2, <2>3, SeqIsSequence DEF Doing, Opens
<1>3. ASSUME NEW what \in {"expr", "build"}, Doing(what), todo' = Tail(todo), UNCHANGED attrs
      PROVE  LiteralInv'
  BY <1>2, <1>3, PopLiterals
<1>4. ASSUME NEW what \in {"expr", "build"}, Doing(what), NEW kind, NEW n, NEW attr, NEW type,
             NEW struct, Emit(kind, n, attr, type, struct)
      PROVE  LiteralInv'
  BY <1>3, <1>4 DEF Emit
<1>5. ASSUME Doing("expr"), NEW items, IsSequence(items), items # << >>, FreeOf(items),
             Push(items)
      PROVE  LiteralInv'
  BY <1>2, <1>5, PushFree
<1>6. CASE VisitVariable
  <2>1. Doing("expr")
    BY <1>6 DEF VisitVariable, Visiting
  <2>2. FailExpr \/ (todo' = Tail(todo) /\ UNCHANGED attrs)
    BY <1>6 DEF VisitVariable
  <2> QED BY <1>3, <2>1, <2>2, FailExprLiterals
<1>7. CASE VisitConstant
  BY <1>4, <1>7 DEF VisitConstant, Visiting
<1>8. CASE VisitBinary
  <2> DEFINE a == Do("expr", E.c[1])
             b == Do("expr", E.c[2])
             c == Do("build", E)
             middle == IF E.name = "." THEN << >> ELSE <<b>>
             items == <<a>> \o middle \o <<c>>
  <2>1. Doing("expr") /\ Push(items)
    BY <1>8, Zenon DEF VisitBinary, Visiting
  <2>2. a.do # "struct" /\ b.do # "struct" /\ c.do # "struct"
    BY DEF Do
  <2>3. IsSequence(items) /\ FreeOf(items) /\ items # << >>
    <3>1. CASE E.name = "."
      <4>1. items = <<a>> \o << >> \o <<c>>
        BY <3>1, Zenon
      <4> HIDE DEF a, b, c, items
      <4>2. items = <<a, c>>
        BY <4>1, TupleConcat
      <4>3. IsSequence(items) /\ Len(items) = 2 /\ items[1] = a /\ items[2] = c
        BY <4>2, TupleFacts
      <4>4. items # << >> /\ \A i \in 1 .. Len(items) : i = 1 \/ i = 2
        BY <4>3, EmptyIsSequence
      <4> QED BY <2>2, <4>3, <4>4 DEF FreeOf
    <3>2. CASE E.name # "."
      <4>1. items = <<a>> \o <<b>> \o <<c>>
        BY <3>2, Zenon
      <4> HIDE DEF a, b, c, items
      <4>2. items = <<a, b, c>>
        BY <4>1, TupleConcat
      <4>3. IsSequence(items) /\ Len(items) = 3 /\ items[1] = a /\ items[2] = b /\ items[3] = c
        BY <4>2, TupleFacts
      <4>4. items # << >> /\ \A i \in 1 .. Len(items) : i = 1 \/ i = 2 \/ i = 3
        BY <4>3, EmptyIsSequence
      <4> QED BY <2>2, <4>3, <4>4 DEF FreeOf
    <3> QED BY <3>1, <3>2
  <2> HIDE DEF items
  <2> QED BY <1>5, <2>1, <2>3
<1>9. CASE VisitCall
  <2> DEFINE nodes == E.c
             c == Do("build", E)
             rest == <<c>>
             items == Visits("expr", nodes) \o rest
  <2>1. Doing("expr") /\ Push(items)
    BY <1>9, Zenon DEF VisitCall, Visiting, Visits
  <2>2. IsSequence(nodes) /\ c.do # "struct"
    BY <1>2, <2>1 DEF Do
  <2> HIDE DEF nodes, c
  <2>3. IsSequence(rest) /\ Len(rest) = 1 /\ rest[1] = c
    BY TupleFacts
  <2> HIDE DEF rest
  <2>4. FreeOf(rest) /\ rest # << >>
    BY <2>2, <2>3, EmptyIsSequence DEF FreeOf
  <2>5. IsSequence(items) /\ FreeOf(items) /\ items # << >>
    BY <2>2, <2>3, <2>4, VisitsFree
  <2> HIDE DEF items
  <2> QED BY <1>5, <2>1, <2>5
<1>10. CASE VisitOther
  BY <1>10, FailExprLiterals DEF VisitOther, Visiting
<1>11. CASE VisitStructLiteral
  <2> DEFINE a == Do("attr", E)
             s == Do("struct", E)
             items == <<a, s>>
  <2>1. Doing("expr") /\ Push(items) /\ E.k = "struct_literal"
    BY <1>11 DEF VisitStructLiteral, Visiting
  <2>2. Opens(a) /\ a.do # "struct"
    BY <2>1 DEF Opens, Do
  <2>3. s.do = "struct"
    BY DEF Do
  <2> HIDE DEF a, s
  <2>4. IsSequence(items) /\ Len(items) = 2 /\ items[1] = a /\ items[2] = s
    BY TupleFacts
  <2> HIDE DEF items
  <2>5. Chain(items) /\ items # << >> /\ items[1].do # "struct"
    <3>1. items # << >> /\ \A i \in 1 .. Len(items) - 1 : i = 1
      BY <2>4, EmptyIsSequence
    <3> QED BY <2>2, <2>4, <3>1 DEF Chain
  <2>6. ~ Opens(todo[1]) /\ IsSequence(todo) /\ todo # << >> /\ status = "run"
    BY <1>2, <2>1
  <2> QED BY <2>1, <2>4, <2>5, <2>6, PushLiterals
<1>12. CASE BuildBinary
  BY <1>4, <1>12, FailExprLiterals DEF BuildBinary
<1>13. CASE BuildAccess
  BY <1>1, <1>4, <1>13, FailExprLiterals DEF BuildAccess
<1>14. CASE BuildCall
  BY <1>4, <1>14, FailExprLiterals DEF BuildCall
<1>15. CASE BuildStructConstant
  <2>1. Doing("struct") /\ todo' = Tail(todo) /\ attrs' = << >>
    BY <1>15 DEF BuildStructConstant
  <2>2. ~ Opens(todo[1]) /\ IsSequence(todo) /\ todo # << >> /\ status = "run"
    BY <1>2, <2>1 DEF Opens
  <2>3. /\ Chain(todo')
        /\ todo' # << >> /\ todo'[1].do = "struct" => Opens(todo[1])
    BY <2>1, <2>2, ChainPop DEF LiteralInv
  <2>4. AttrsMatch(attrs')
    BY <2>1, EmptyIsSequence DEF AttrsMatch
  <2> QED BY <2>2, <2>3, <2>4 DEF LiteralInv, StructNext
<1> QED BY <1>1, <1>6, <1>7, <1>8, <1>9, <1>10, <1>11, <1>12, <1>13, <1>14, <1>15,
           VisitElementLiterals, BuildArrayLiterals DEF Expression, VisitNull

(* A declaration, a return, a print and an expression go to work.          *)
LEMMA GenLiterals ==
    ASSUME NEW T, NEW Nodes, GenOK(T, Nodes), Grammatical(Nodes), LiteralInv,
           GenVarDecl \/ GenReturn \/ GenPrint \/ GenExpression
    PROVE  LiteralInv'
<1>1. PICK kind : NextStatement(kind)
  BY DEF GenVarDecl, GenReturn, GenPrint, GenExpression
<1>2. /\ Doing("block") /\ First.c \in Seq(Nodes) /\ Rest.do = "block"
      /\ Block(<< >>).do = "block"
  <2>1. Block(<< >>).do = "block"
    BY Zenon DEF Block, Do
  <2> QED BY <1>1, <2>1, BlockAtWork
<1>3. ~ Opens(todo[1]) /\ IsSequence(todo) /\ todo # << >> /\ status = "run"
  BY <1>2, AtWork DEF Opens, Doing
<1>4. ASSUME NEW items, IsSequence(items), items # << >>, FreeOf(items), Push(items)
      PROVE  LiteralInv'
  BY <1>3, <1>4, PushFree
<1>5. ASSUME NEW e, NEW what, what # "struct", Push(<<Do("expr", e), Do(what, First), Rest>>)
      PROVE  LiteralInv'
  <2> DEFINE x == Do("expr", e)
             y == Do(what, First)
             rest == Rest
             items == <<x, y, rest>>
  <2>1. x.do # "struct" /\ y.do # "struct" /\ rest.do # "struct" /\ Push(items)
    BY <1>2, <1>5 DEF Do
  <2> HIDE DEF x, y, rest
  <2>2. IsSequence(items) /\ Len(items) = 3 /\ items[1] = x /\ items[2] = y /\ items[3] = rest
    BY TupleFacts
  <2> HIDE DEF items
  <2>3. items # << >> /\ \A i \in 1 .. Len(items) : i = 1 \/ i = 2 \/ i = 3
    BY <2>2, EmptyIsSequence
  <2>4. FreeOf(items)
    BY <2>1, <2>2, <2>3 DEF FreeOf
  <2> QED BY <1>4, <2>1, <2>2, <2>3, <2>4
<1>6. CASE GenVarDecl
  <2>1. CASE FailFunction(TRUE)
    BY <2>1, StopLiterals DEF FailFunction
  <2>2. CASE Push(<<Do("expr", First.c[2]), Do("declare", First), Rest>>)
    BY <1>5, <2>2
  <2> QED BY <1>6, <2>1, <2>2 DEF GenVarDecl
<1>7. CASE GenPrint
  <2>1. Push(<<Do("expr", First.c[1]), Do("print", First), Rest>>)
    BY <1>7 DEF GenPrint
  <2> QED BY <1>5, <2>1
<1>8. CASE GenExpression
  <2>1. Push(<<Do("expr", First), Do("drop", First), Rest>>)
    BY <1>8 DEF GenExpression
  <2> QED BY <1>5, <2>1
<1>9. CASE GenReturn
  <2> DEFINE nodes == First.c
             x == Do("return", First)
             y == Block(<< >>)
             rest == <<x, y>>
             items == Visits("expr", nodes) \o rest
  <2>1. Push(items)
    BY <1>9, Zenon DEF GenReturn, Visits
  <2>2. IsSequence(rest) /\ Len(rest) = 2 /\ rest[1] = x /\ rest[2] = y
    BY TupleFacts
  <2>3. IsSequence(nodes)
    BY <1>2, SeqIsSequence
  <2>4. x.do # "struct" /\ y.do # "struct"
    BY <1>2 DEF Do
  <2> HIDE DEF nodes, x, y, rest
  <2>5. rest # << >> /\ FreeOf(rest)
    <3>1. rest # << >> /\ \A i \in 1 .. Len(rest) : i = 1 \/ i = 2
      BY <2>2, EmptyIsSequence
    <3> QED BY <2>2, <2>4, <3>1 DEF FreeOf
  <2>6. IsSequence(items) /\ FreeOf(items) /\ items # << >>
    BY <2>2, <2>3, <2>5, VisitsFree
  <2> HIDE DEF items
  <2> QED BY <1>4, <2>1, <2>6
<1> QED BY <1>6, <1>7, <1>8, <1>9

(* Every step keeps the attributes and their types together.               *)
LEMMA LiteralInvKept ==
    ASSUME NEW T, NEW Nodes, GenOK(T, Nodes), Grammatical(Nodes), LiteralInv, [Next]_vars
    PROVE  LiteralInv'
<1>1. CASE UNCHANGED vars
  BY <1>1 DEF vars, LiteralInv, AttrsMatch
<1>2. ASSUME NEW what \in StatementDos \cup {"block"}, Doing(what), todo' = Tail(todo),
             UNCHANGED attrs
      PROVE  LiteralInv'
  <2>1. IsSequence(todo) /\ todo # << >> /\ status = "run" /\ todo[1].do = what
    BY <1>2, AtWork DEF Doing
  <2>2. ~ Opens(todo[1])
    BY <2>1 DEF Opens, StatementDos
  <2> QED BY <1>2, <2>1, <2>2, PopLiterals
<1>3. ASSUME todo' = << >>, UNCHANGED attrs PROVE LiteralInv'
  BY <1>3, EmptyIsSequence, FreeLiterals DEF FreeOf
<1>4. CASE GenNull \/ Redeclare \/ VerifyModule
  BY <1>4, StopLiterals DEF GenNull, Crash, Redeclare, FailFunction, VerifyModule
<1>5. CASE GenStruct
  <2>1. CASE UnknownType
    BY <2>1, StopLiterals DEF UnknownType
  <2>2. CASE UNCHANGED <<todo, attrs>>
    BY <1>3, <1>5, <2>2 DEF GenStruct, NextRecord
  <2> QED BY <1>5, <2>1, <2>2 DEF GenStruct
<1>6. CASE BeginFunction
  <2>1. CASE UnknownType
    BY <2>1, StopLiterals DEF UnknownType
  <2>2. CASE status' = "null" /\ UNCHANGED attrs
    BY <2>2, StopLiterals
  <2>3. CASE todo' = <<Block(Tail(Record.c)), Do("finish", Record)>> /\ UNCHANGED attrs
    <3> DEFINE b == Block(Tail(Record.c))
               e == Do("finish", Record)
               u == <<b, e>>
    <3>1. b.do = "block" /\ e.do = "finish"
      BY Zenon DEF Block, Do
    <3> HIDE DEF b, e
    <3>2. IsSequence(u) /\ Len(u) = 2 /\ u[1] = b /\ u[2] = e
      BY TupleFacts
    <3> HIDE DEF u
    <3>3. FreeOf(u)
      <4>1. \A i \in 1 .. Len(u) : i = 1 \/ i = 2
        BY <3>2
      <4> QED BY <3>1, <3>2, <4>1 DEF FreeOf
    <3>4. IsSequence(todo') /\ FreeOf(todo')
      BY <2>3, <3>2, <3>3 DEF u, b, e
    <3> QED BY <2>3, <3>4, FreeLiterals
  <2> QED BY <1>6, <2>1, <2>2, <2>3 DEF BeginFunction
<1>7. CASE FinishFunction
  BY <1>3, <1>7 DEF FinishFunction
<1>8. CASE Declare \/ EndBlock
  BY <1>2, <1>8 DEF Declare, EndBlock, StatementDos
<1>9. CASE FinishStatement
  BY <1>2, <1>9 DEF FinishStatement, StatementDos
<1> QED BY <1>1, <1>4, <1>5, <1>6, <1>7, <1>8, <1>9, GenLiterals, ExpressionLiterals DEF Next

-----------------------------------------------------------------------------
(* The generator makes sound functions.                                    *)

PlainKinds ==
    {"constant", "add", "mul", "transpose", "reshape", "generic_call", "print", "return"}

(* An operation that is no struct and takes none apart.                    *)
LEMMA FitsPlain ==
    ASSUME NEW T, NEW Nodes, Working(T, Nodes, Current, todo, vals, attrs, symbolTable),
           NEW n \in Nat, n <= Len(vals), NEW kind \in PlainKinds, NEW attr, NEW type \in Type,
           ~ IsStruct(type), kind \in Operating => n # 0,
           kind \in {"add", "mul"} => n = 2,
           kind \in {"transpose", "reshape", "print"} => n = 1,
           kind = "constant" => n = 0 /\ attr.dims \in Seq(Nat),
           NEW op, op = NewOp(kind, Operands(n), attr)
    PROVE  FitsCurrent(op, type)
<1>1. ValuesOK(Current, vals)
  BY DEF Working
<1>2. /\ IsSequence(Operands(n)) /\ Len(Operands(n)) = n
      /\ \A i \in 1 .. n : IsValue(Current, Operands(n)[i])
      /\ n # 0 => Operands(n) # << >>
  BY <1>1, OperandsOK
<1>3. /\ op = [kind |-> kind, args |-> Operands(n), attr |-> attr]
      /\ op.kind = kind /\ op.args = Operands(n) /\ op.attr = attr
  BY DEF NewOp
<1>4. IsOperation(op) /\ op.kind # "arg"
  BY <1>2, <1>3 DEF IsOperation, PlainKinds
<1>5. \A i \in 1 .. Len(op.args) : IsValue(Current, op.args[i])
  BY <1>2, <1>3
<1>6. SoundOp(op, type, Current.types[op.args[1]])
  <2>1. op.kind \in Kinds /\ op.kind \notin {"struct_constant", "struct_access"}
    BY <1>3 DEF PlainKinds, Kinds, InterfaceKinds, OtherKinds
  <2>2. ArityOK(op)
    BY <1>2, <1>3 DEF ArityOK, PlainKinds
  <2> QED BY <2>1, <2>2 DEF SoundOp
<1>7. PlainOp(op, type)
  BY <1>3 DEF PlainOp
<1> QED BY <1>4, <1>5, <1>6, <1>7 DEF FitsCurrent

(* A step that built an operation.                                         *)
LEMMA StepMade ==
    ASSUME NEW T, NEW Nodes, GenOK(T, Nodes), NEW what, Doing(what), MadeAll(funcs),
           NEW op, NEW type, FitsCurrent(op, type), funcs' = Built(op, type)
    PROVE  MadeAll(funcs')
<1>1. /\ FunctionsOK(funcs) /\ funcs # << >>
      /\ Working(T, Nodes, Current, todo, vals, attrs, symbolTable)
  BY AtWork
<1>2. Current.result = << >>
  BY <1>1 DEF Working
<1> QED BY <1>1, <1>2, BuiltMade

(* A step that erased the last function.                                   *)
LEMMA ErasedMade ==
    ASSUME NEW fs, IsSequence(fs), MadeAll(fs)
    PROVE  MadeAll(Without(1, fs))
<1>1. Len(fs) \in Nat
  BY SequenceFacts
<1>2. CASE Len(fs) = 0
  <2>1. Without(1, fs) = << >>
    <3>1. SubSeq(fs, 1, 0 - 1) = << >>
      OBVIOUS
    <3> QED BY <1>2, <3>1 DEF Without
  <2> QED BY <2>1, EmptyIsSequence DEF MadeAll
<1>3. CASE Len(fs) >= 1
  <2>1. 1 \in 1 .. Len(fs) + 1 /\ Len(fs) - 1 \in 1 - 1 .. Len(fs)
    BY <1>1, <1>3
  <2>2. /\ Len(Without(1, fs)) = (Len(fs) - 1) - 1 + 1
        /\ \A i \in 1 .. (Len(fs) - 1) - 1 + 1 : Without(1, fs)[i] = fs[1 + i - 1]
    BY <1>1, <2>1, SubSeqFacts DEF Without
  <2>3. ASSUME NEW i \in 1 .. Len(Without(1, fs)) PROVE Made(Without(1, fs)[i])
    <3>1. i \in 1 .. Len(fs) /\ 1 + i - 1 = i
      BY <1>1, <2>2
    <3> QED BY <2>2, <3>1 DEF MadeAll
  <2> QED BY <2>3 DEF MadeAll
<1> QED BY <1>1, <1>2, <1>3

(* A function that fails is erased.                                      *)
LEMMA FailMade ==
    ASSUME NEW T, NEW Nodes, GenOK(T, Nodes), MadeAll(funcs), NEW reported,
           FailFunction(reported)
    PROVE  MadeAll(funcs')
<1>1. IsSequence(funcs)
  BY DEF GenOK, GenState, FunctionsOK
<1> QED BY <1>1, ErasedMade DEF FailFunction

(* So it is when an expression of it fails.                              *)
LEMMA FailExprMade ==
    ASSUME NEW T, NEW Nodes, GenOK(T, Nodes), MadeAll(funcs), FailExpr
    PROVE  MadeAll(funcs')
BY FailMade DEF FailExpr

(* The types of tensors and of no result are no structs.                 *)
LEMMA PlainTypes ==
    /\ Unranked \in Type /\ ~ IsStruct(Unranked)
    /\ NoResult \in Type /\ ~ IsStruct(NoResult)
    /\ \A s \in Seq(Nat) : TensorType(s) \in Type /\ ~ IsStruct(TensorType(s))
                           /\ Ranked(s) \in Type /\ ~ IsStruct(Ranked(s))
BY DEF Type, Shape, Unranked, NoResult, Ranked, TensorType, IsStruct

(* A constant has the dimensions of its literal.                           *)
LEMMA VisitConstantMade ==
    ASSUME NEW T, NEW Nodes, GenOK(T, Nodes), Grammatical(Nodes), MadeAll(funcs), VisitConstant
    PROVE  MadeAll(funcs')
<1>1. Doing("expr")
  BY DEF VisitConstant, Visiting
<1>2. /\ Working(T, Nodes, Current, todo, vals, attrs, symbolTable) /\ E \in Nodes
  BY <1>1, AtWork DEF ItemOK, E
<1>3. E.dims \in Seq(Nat) /\ << >> \in Seq(Nat)
  BY <1>2 DEF Grammatical, InGrammar
<1> DEFINE op == NewOp("constant", Operands(0), E)
<1>4. ASSUME NEW type \in Type, ~ IsStruct(type) PROVE FitsCurrent(op, type)
  <2> DEFINE n == 0
             kind == "constant"
             attr == E
  <2>1. /\ n \in Nat /\ n <= Len(vals) /\ n = 0 /\ attr.dims \in Seq(Nat)
        /\ kind \in PlainKinds /\ kind = "constant" /\ kind \notin Operating
        /\ op = NewOp(kind, Operands(n), attr)
    BY <1>2, <1>3, SequenceFacts DEF Working, ValuesOK, PlainKinds, Operating
  <2> HIDE DEF n, kind, attr, op
  <2> QED BY <1>2, <1>4, <2>1, FitsPlain
<1>5. CASE Emit("constant", 0, E, Ranked(<< >>), "")
  <2>1. FitsCurrent(op, Ranked(<< >>)) /\ funcs' = Built(op, Ranked(<< >>))
    BY <1>3, <1>4, <1>5, PlainTypes DEF Emit
  <2> QED BY <1>1, <2>1, StepMade
<1>6. CASE Emit("constant", 0, E, TensorType(E.dims), "")
  <2> DEFINE type == TensorType(E.dims)
  <2>1. type \in Type /\ ~ IsStruct(type)
    BY <1>3, PlainTypes
  <2>2. funcs' = Built(op, type)
    BY <1>6 DEF Emit
  <2>3. FitsCurrent(op, type)
    BY <1>4, <2>1
  <2> HIDE DEF op, type
  <2> QED BY <1>1, <2>2, <2>3, StepMade
<1> QED BY <1>5, <1>6 DEF VisitConstant

(* An operation of unranked type.                                          *)
LEMMA EmitMade ==
    ASSUME NEW T, NEW Nodes, GenOK(T, Nodes), MadeAll(funcs), NEW what, Doing(what),
           NEW n \in Nat, n <= Len(vals), NEW kind \in {"add", "mul", "transpose", "generic_call"},
           kind \in {"add", "mul"} => n = 2, kind = "transpose" => n = 1,
           NEW attr, NEW struct, Emit(kind, n, attr, Unranked, struct)
    PROVE  MadeAll(funcs')
<1> DEFINE op == NewOp(kind, Operands(n), attr)
<1>1. Working(T, Nodes, Current, todo, vals, attrs, symbolTable)
  BY AtWork
<1>2. /\ kind \in PlainKinds /\ kind # "constant" /\ (kind \in Operating => n # 0)
      /\ kind \in {"transpose", "reshape", "print"} => n = 1
  BY DEF PlainKinds, Operating
<1>3. op = NewOp(kind, Operands(n), attr)
  OBVIOUS
<1>4. funcs' = Built(op, Unranked)
  BY DEF Emit
<1> HIDE DEF op
<1>5. FitsCurrent(op, Unranked)
  <2> DEFINE type == Unranked
  <2>1. type \in Type /\ ~ IsStruct(type)
    BY PlainTypes
  <2>2. kind = "constant" => n = 0 /\ attr.dims \in Seq(Nat)
    BY <1>2
  <2>3. kind \in PlainKinds /\ (kind \in Operating => n # 0)
        /\ (kind \in {"transpose", "reshape", "print"} => n = 1)
    BY <1>2
  <2> HIDE DEF type
  <2>4. FitsCurrent(op, type)
    BY <1>1, <1>3, <2>1, <2>2, <2>3, FitsPlain
  <2> QED BY <2>4 DEF type
<1> QED BY <1>4, <1>5, StepMade

(* A binary operation has both operands.                                 *)
LEMMA BuildBinaryMade ==
    ASSUME NEW T, NEW Nodes, GenOK(T, Nodes), MadeAll(funcs), BuildBinary
    PROVE  MadeAll(funcs')
<1>1. Doing("build") /\ E.k = "binary" /\ E.name # "."
  BY DEF BuildBinary
<1>2. /\ Working(T, Nodes, Current, todo, vals, attrs, symbolTable)
      /\ todo[1].do = "build"
  BY <1>1, AtWork
<1>3. Need("vals", todo[1]) = 2
  BY <1>1, <1>2 DEF Need, E
<1>4. Len(vals) >= Need("vals", todo[1]) /\ Len(vals) \in Nat
  BY <1>2, EnoughValues DEF WorkDos
<1> DEFINE n == 2
<1>5. n \in Nat /\ n <= Len(vals) /\ n = 2
  BY <1>3, <1>4
<1>6. Emit("add", n, Null, Unranked, "") \/ Emit("mul", n, Null, Unranked, "") \/ FailExpr
  BY DEF BuildBinary
<1> HIDE DEF n
<1> DEFINE a == "add"
           m == "mul"
<1>7. /\ a \in {"add", "mul", "transpose", "generic_call"} /\ a # "transpose"
      /\ m \in {"add", "mul", "transpose", "generic_call"} /\ m # "transpose"
      /\ Emit(a, n, Null, Unranked, "") \/ Emit(m, n, Null, Unranked, "") \/ FailExpr
  BY <1>6
<1> HIDE DEF a, m
<1> QED BY <1>1, <1>5, <1>7, EmitMade, FailExprMade

(* A call has the type its callee returns, which is no struct.           *)
LEMMA BuildCallMade ==
    ASSUME NEW T, NEW Nodes, GenOK(T, Nodes), Grammatical(Nodes), MadeAll(funcs), BuildCall
    PROVE  MadeAll(funcs')
<1>1. Doing("build") /\ E.k = "call"
  BY DEF BuildCall
<1>2. /\ Working(T, Nodes, Current, todo, vals, attrs, symbolTable)
      /\ todo[1].do = "build" /\ E \in Nodes
  BY <1>1, AtWork DEF ItemOK, E
<1>3. Need("vals", todo[1]) = Len(E.c)
  BY <1>1, <1>2 DEF Need, E
<1>4. Len(vals) >= Need("vals", todo[1]) /\ Len(vals) \in Nat
  BY <1>2, EnoughValues DEF WorkDos
<1>5. Len(E.c) \in Nat
  <2>1. E.c \in Seq(Nodes)
    BY <1>2 DEF Grammatical, InGrammar
  <2> QED BY <2>1
<1> DEFINE n == Len(E.c)
           attr == Node("callee", E.name, << >>)
           t == "transpose"
           g == "generic_call"
<1>6. \/ n = 1 /\ Emit(t, n, Null, Unranked, "")
      \/ Emit(g, n, attr, Unranked, "")
      \/ FailExpr
  BY Zenon DEF BuildCall
<1>7. /\ n \in Nat /\ n <= Len(vals)
      /\ t \in {"add", "mul", "transpose", "generic_call"} /\ t \notin {"add", "mul"}
      /\ g \in {"add", "mul", "transpose", "generic_call"} /\ g \notin {"add", "mul", "transpose"}
  BY <1>3, <1>4, <1>5
<1> HIDE DEF n, attr, t, g
<1> QED BY <1>1, <1>6, <1>7, EmitMade, FailExprMade

(* An access takes an element that the type of its operand has.            *)
LEMMA BuildAccessMade ==
    ASSUME NEW T, NEW Nodes, GenOK(T, Nodes), MadeAll(funcs), BuildAccess
    PROVE  MadeAll(funcs')
<1>1. Doing("build") /\ E.k = "binary" /\ E.name = "."
  BY DEF BuildAccess
<1>2. /\ Working(T, Nodes, Current, todo, vals, attrs, symbolTable)
      /\ todo[1].do = "build" /\ ClosedTypes(T, Nodes)
  BY <1>1, AtWork
<1>3. Need("vals", todo[1]) = 1
  BY <1>1, <1>2 DEF Need, E
<1>4. Len(vals) >= 1 /\ Len(vals) \in Nat
  <2>1. Len(vals) >= Need("vals", todo[1]) /\ Len(vals) \in Nat
    BY <1>2, EnoughValues DEF WorkDos
  <2> QED BY <1>3, <2>1
<1> DEFINE index == MemberIndex
           s == TypeIn(Top.value)
           type == s.elements[index]
           attr == SizedNode("index", "", <<index>>, << >>)
           n == 1
           op == NewOp("struct_access", Operands(n), attr)
<1>5. CASE AccessAsserted /\ Emit("struct_access", 1, attr, type, MemberStruct)
  <2>1. n \in Nat /\ n # 0 /\ n <= Len(vals) /\ n = 1
    BY <1>4
  <2>2. Operands(n)[1] = Top.value
    BY <1>4 DEF Operands, Top
  <2>3. IsStruct(s) /\ index \in DOMAIN s.elements
    BY <1>5 DEF AccessAsserted
  <2>4. attr.dims[1] = index
    BY DEF SizedNode
  <2>5. funcs' = Built(op, type)
    BY <1>5 DEF Emit
  <2>6. /\ op = [kind |-> op.kind, args |-> op.args, attr |-> op.attr]
        /\ op.kind = "struct_access" /\ op.args = Operands(n) /\ op.attr = attr
    BY DEF NewOp
  <2>7. s = Current.types[Operands(n)[1]]
    BY <2>2 DEF TypeIn
  <2>8. type = s.elements[index]
    OBVIOUS
  <2>9. s \in T
    <3>1. IsValue(Current, Top.value)
      BY <1>2, <2>1, OperandsOK DEF Working
    <3>2. Len(Current.types) = Len(Current.ops)
      BY <1>2 DEF Working, FunctionOK, IsFunction
    <3> QED BY <1>2, <3>1, <3>2 DEF Working, TypesIn, IsValue, TypeIn
  <2> HIDE DEF index, s, type, attr, n, op
  <2>10. IsStruct(type) \/ type \in Type
    BY <1>2, <2>3, <2>8, <2>9 DEF ClosedTypes
  <2>11. /\ IsSequence(Operands(n)) /\ Len(Operands(n)) = n
         /\ \A i \in 1 .. n : IsValue(Current, Operands(n)[i])
         /\ Operands(n) # << >>
    BY <1>2, <2>1, OperandsOK DEF Working
  <2>12. IsOperation(op) /\ op.kind # "arg"
    BY <2>6, <2>11 DEF IsOperation
  <2>13. \A i \in 1 .. Len(op.args) : IsValue(Current, op.args[i])
    BY <2>6, <2>11
  <2>14. ElementOf(op, Current.types[op.args[1]], type)
    BY <2>3, <2>4, <2>6, <2>7, <2>8 DEF ElementOf
  <2>15. SoundOp(op, type, Current.types[op.args[1]])
    BY <2>1, <2>6, <2>11, <2>14 DEF SoundOp, Kinds, OtherKinds, ArityOK, StructKinds
  <2>16. PlainOp(op, type)
    BY <2>6, <2>10 DEF PlainOp
  <2>17. FitsCurrent(op, type)
    BY <2>12, <2>13, <2>15, <2>16 DEF FitsCurrent
  <2> QED BY <1>1, <2>5, <2>17, StepMade
<1>6. CASE FailExpr
  BY <1>6, FailExprMade
<1>7. CASE Crash
  BY <1>7 DEF Crash, MadeAll
<1> QED BY <1>5, <1>6, <1>7 DEF BuildAccess

(* A struct constant has the structure of its type.                        *)
LEMMA BuildStructConstantMade ==
    ASSUME NEW T, NEW Nodes, GenOK(T, Nodes), LiteralInv, MadeAll(funcs), BuildStructConstant
    PROVE  MadeAll(funcs')
<1> DEFINE last == attrs[Len(attrs)]
           op == NewOp("struct_constant", << >>, last.attr)
           type == last.type
<1>1. Doing("struct")
  BY DEF BuildStructConstant
<1>2. Len(attrs) \in 1 .. Len(attrs)
  BY <1>1, StructReady
<1>3. Matches(last.attr, type)
  BY <1>2 DEF LiteralInv, AttrsMatch
<1>4. IsStruct(type)
  <2>1. todo # << >> /\ todo[1].do = "struct" /\ status = "run"
    BY <1>1 DEF Doing
  <2> QED BY <2>1 DEF LiteralInv, StructNext
<1>5. funcs' = Built(op, type)
  BY DEF BuildStructConstant
<1>6. /\ op = [kind |-> op.kind, args |-> op.args, attr |-> op.attr]
      /\ op.kind = "struct_constant" /\ op.args = << >> /\ op.attr = last.attr
  BY DEF NewOp
<1> HIDE DEF last, op, type
<1>7. IsOperation(op) /\ op.kind # "arg"
  BY <1>6, EmptyIsSequence DEF IsOperation, Operating
<1>8. \A i \in 1 .. Len(op.args) : IsValue(Current, op.args[i])
  BY <1>6, EmptyIsSequence
<1>9. SoundOp(op, type, Current.types[op.args[1]])
  BY <1>3, <1>4, <1>6, EmptyIsSequence
     DEF SoundOp, Kinds, OtherKinds, ArityOK, StructKinds
<1>10. PlainOp(op, type)
  BY <1>4, <1>6 DEF PlainOp
<1>11. FitsCurrent(op, type)
  BY <1>7, <1>8, <1>9, <1>10 DEF FitsCurrent
<1> QED BY <1>1, <1>5, <1>11, StepMade

(* A shape makes a declaration a reshape.                                  *)
LEMMA DeclareMade ==
    ASSUME NEW T, NEW Nodes, GenOK(T, Nodes), Grammatical(Nodes), MadeAll(funcs), Declare
    PROVE  MadeAll(funcs')
<1>1. Doing("declare")
  BY DEF Declare
<1>2. /\ Working(T, Nodes, Current, todo, vals, attrs, symbolTable)
      /\ todo[1].do = "declare" /\ ItemOK(todo[1], Nodes)
  BY <1>1, AtWork
<1>3. Len(vals) \in Nat /\ Len(vals) >= 1
  <2>1. Len(vals) >= Need("vals", todo[1]) /\ Len(vals) \in Nat
    BY <1>2, EnoughValues DEF StatementDos
  <2>2. Need("vals", todo[1]) = 1
    BY <1>2 DEF Need
  <2> QED BY <2>1, <2>2
<1>4. CASE funcs' = funcs
  BY <1>4
<1>5. CASE /\ E.c[1].dims # << >>
           /\ funcs' = Built(NewOp("reshape", Operands(1), Null), TypeOf(E.c[1]))
  <2> DEFINE n == 1
             kind == "reshape"
             attr == Null
             op == NewOp(kind, Operands(n), attr)
             type == TypeOf(E.c[1])
  <2>1. funcs' = Built(op, type)
    BY <1>5
  <2>2. type \in Type /\ ~ IsStruct(type)
    <3>1. E \in Nodes /\ E.k = "decl"
      BY <1>2 DEF ItemOK, E
    <3>2. E.c \in Seq(Nodes) /\ E.c # << >> /\ E.c[1].name = "tensor"
      BY <1>5, <3>1 DEF Grammatical, InGrammar
    <3> DEFINE s == E.c
    <3>3. s \in Seq(Nodes) /\ s # << >> /\ s[1].name = "tensor" /\ type = TypeOf(s[1])
      BY <3>2
    <3> HIDE DEF s, type
    <3>4. s[1] \in Nodes
      BY <3>3
    <3>5. type = TensorType(s[1].dims) /\ s[1].dims \in Seq(Nat)
      BY <3>3, <3>4 DEF TypeOf, Grammatical, InGrammar
    <3> QED BY <3>5, PlainTypes
  <2>3. /\ n \in Nat /\ n <= Len(vals) /\ n = 1 /\ n # 0
        /\ kind \in PlainKinds /\ kind # "constant" /\ kind \notin {"add", "mul"}
        /\ op = NewOp(kind, Operands(n), attr)
    BY <1>3 DEF PlainKinds
  <2> HIDE DEF n, kind, attr, op, type
  <2>4. FitsCurrent(op, type)
    BY <1>2, <2>2, <2>3, FitsPlain
  <2> QED BY <1>1, <2>1, <2>4, StepMade
<1> QED BY <1>4, <1>5 DEF Declare

(* A return and a print have no result.                                    *)
LEMMA FinishStatementMade ==
    ASSUME NEW T, NEW Nodes, GenOK(T, Nodes), Grammatical(Nodes), MadeAll(funcs),
           FinishStatement
    PROVE  MadeAll(funcs')
<1>1. PICK what \in {"return", "print", "drop"} : Doing(what)
  BY DEF FinishStatement
<1>2. /\ Working(T, Nodes, Current, todo, vals, attrs, symbolTable)
      /\ todo[1].do = what /\ ItemOK(todo[1], Nodes)
  BY <1>1, AtWork
<1>3. Len(vals) >= Need("vals", todo[1]) /\ Len(vals) \in Nat
  BY <1>1, <1>2, EnoughValues DEF StatementDos
<1>4. CASE funcs' = funcs
  BY <1>4
<1>5. ASSUME NEW n \in Nat, n <= Len(vals), NEW kind \in {"return", "print"},
             kind = "print" => n = 1,
             funcs' = Built(NewOp(kind, Operands(n), Null), NoResult)
      PROVE  MadeAll(funcs')
  <2> DEFINE attr == Null
             type == NoResult
             op == NewOp(kind, Operands(n), attr)
  <2>1. funcs' = Built(op, type) /\ op = NewOp(kind, Operands(n), attr)
    BY <1>5
  <2>2. type \in Type /\ ~ IsStruct(type)
    BY PlainTypes
  <2>3. /\ kind \in PlainKinds /\ kind # "constant" /\ kind \notin {"add", "mul"}
        /\ kind \in Operating => n # 0
        /\ kind \in {"transpose", "reshape", "print"} => n = 1
    BY <1>5 DEF PlainKinds, Operating
  <2> HIDE DEF attr, op, type
  <2>4. FitsCurrent(op, type)
    BY <1>2, <1>5, <2>1, <2>2, <2>3, FitsPlain
  <2> QED BY <1>1, <2>1, <2>4, StepMade
<1>6. CASE /\ Doing("return")
           /\ funcs' = Built(NewOp("return", Operands(Len(E.c)), Null), NoResult)
  <2>1. Need("vals", todo[1]) = Len(E.c)
    BY <1>6 DEF Need, Doing, E
  <2>2. Len(E.c) \in Nat
    <3>1. E \in Nodes
      BY <1>1, <1>2 DEF ItemOK, E
    <3>2. E.c \in Seq(Nodes)
      BY <3>1 DEF Grammatical, InGrammar
    <3> QED BY <3>2, LenProperties
  <2> DEFINE n == Len(E.c)
  <2>3. n \in Nat /\ n <= Len(vals) /\ funcs' = Built(NewOp("return", Operands(n), Null), NoResult)
    BY <1>3, <1>6, <2>1, <2>2
  <2> HIDE DEF n
  <2> QED BY <1>5, <2>3
<1>7. CASE /\ Doing("print")
           /\ funcs' = Built(NewOp("print", Operands(1), Null), NoResult)
  <2>1. Need("vals", todo[1]) = 1
    BY <1>7 DEF Need, Doing
  <2> DEFINE n == 1
  <2>2. n \in Nat /\ n <= Len(vals) /\ n = 1
        /\ funcs' = Built(NewOp("print", Operands(n), Null), NoResult)
    BY <1>3, <1>7, <2>1
  <2> HIDE DEF n
  <2> QED BY <1>5, <2>2
<1> QED BY <1>4, <1>6, <1>7 DEF FinishStatement

(* A result of a function is of unranked type.                             *)
LEMMA ReturningMade ==
    ASSUME NEW f, IsFunction(f), Made(f)
    PROVE  Made(Returning(f))
<1> DEFINE g == Returning(f)
           r == <<Unranked>>
<1>1. f = [name |-> f.name, private |-> f.private, ops |-> f.ops, types |-> f.types,
           result |-> f.result]
  BY DEF IsFunction
<1>2. g.ops = f.ops /\ g.types = f.types /\ g.result = r
  <2>1. g = [f EXCEPT !.result = r]
    BY DEF Returning
  <2> HIDE DEF g, r
  <2> QED BY <1>1, <2>1
<1>3. r \in Seq(Type)
  BY PlainTypes
<1> HIDE DEF g, r
<1>4. FunctionSound(g) /\ Plain(g)
  BY <1>2, <1>3 DEF Made, FunctionSound, Plain
<1> QED BY <1>4 DEF Made, g

(* A function without a return gets one.                                   *)
LEMMA FinishFunctionMade ==
    ASSUME NEW T, NEW Nodes, GenOK(T, Nodes), MadeAll(funcs), FinishFunction
    PROVE  MadeAll(funcs')
<1>1. Doing("finish")
  BY DEF FinishFunction
<1>2. /\ FunctionsOK(funcs) /\ funcs # << >> /\ FunctionOK(Current)
  BY <1>1, AtWork
<1>3. CASE funcs' = funcs
  BY <1>3
<1>4. CASE funcs' = Built(NewOp("return", << >>, Null), NoResult)
  <2> DEFINE op == NewOp("return", << >>, Null)
             type == NoResult
  <2>1. /\ op = [kind |-> op.kind, args |-> op.args, attr |-> op.attr]
        /\ op.kind = "return" /\ op.args = << >>
    BY DEF NewOp
  <2>2. funcs' = Built(op, type) /\ type \in Type /\ ~ IsStruct(type)
    BY <1>4, PlainTypes
  <2> HIDE DEF op, type
  <2>3. IsOperation(op) /\ op.kind # "arg"
    BY <2>1, EmptyIsSequence DEF IsOperation, Operating
  <2>4. \A i \in 1 .. Len(op.args) : IsValue(Current, op.args[i])
    BY <2>1, EmptyIsSequence
  <2>5. SoundOp(op, type, Current.types[op.args[1]])
    BY <2>1, <2>2, EmptyIsSequence DEF SoundOp, Kinds, OtherKinds, ArityOK
  <2>6. PlainOp(op, type)
    BY <2>1, <2>2 DEF PlainOp
  <2>7. FitsCurrent(op, type)
    BY <2>3, <2>4, <2>5, <2>6 DEF FitsCurrent
  <2> QED BY <1>1, <2>2, <2>7, StepMade
<1>5. CASE funcs' = [funcs EXCEPT ![Len(funcs)].result = <<Unranked>>]
  <2> DEFINE g == Returning(Current)
  <2>1. funcs' = WithLast(funcs, g)
    BY <1>5, Zenon DEF WithLast, Returning, Current
  <2>2. IsSequence(funcs) /\ Made(Current) /\ IsFunction(Current)
    <3>1. IsSequence(funcs)
      BY <1>2 DEF FunctionsOK
    <3>2. Len(funcs) \in 1 .. Len(funcs)
      BY <1>2, <3>1, SequenceFacts
    <3> QED BY <1>2, <3>1, <3>2 DEF MadeAll, Current, FunctionOK
  <2>3. Made(g)
    BY <2>2, ReturningMade
  <2> HIDE DEF g
  <2> QED BY <1>2, <2>1, <2>2, <2>3, MadeLast
<1> QED BY <1>3, <1>4, <1>5 DEF FinishFunction

(* A new function has only its parameters.                                 *)
LEMMA NewFunctionMade ==
    ASSUME NEW T, NEW Nodes, ClosedTypes(T, Nodes), Grammatical(Nodes),
           \A x \in DOMAIN structMap : structMap[x].type \in T,
           NEW name, NEW params, params \in Seq(Nodes),
           \A n \in DOMAIN params : params[n].k = "decl", AllKnown(params),
           NEW f, f = NewFunction(name, params)
    PROVE  Made(f)
<1> DEFINE types == DeclaredTypes(params)
           L == Len(params)
           op(n) == NewOp("arg", << >>, Node("param", params[n].name, << >>))
           ops == [n \in DOMAIN params |-> op(n)]
<1>1. /\ \A n \in 1 .. L : types[n] \in T
      /\ IsSequence(types) /\ Len(types) = L /\ L \in Nat
  BY DeclaredTypesOK
<1>2. DOMAIN params = 1 .. L
  BY SeqIsSequence, SequenceFacts
<1>3. f.ops = ops /\ f.types = types /\ f.result = << >>
  <2>1. f = [name |-> name, private |-> name # "main", ops |-> ops, types |-> types,
             result |-> << >>]
    BY Zenon DEF NewFunction
  <2> HIDE DEF ops, types
  <2> QED BY <2>1
<1>4. \A n \in 1 .. L : ops[n].kind = "arg" /\ ops[n].args = << >>
  <2>1. \A n : op(n).kind = "arg" /\ op(n).args = << >>
    BY DEF NewOp
  <2> HIDE DEF op
  <2>2. \A n \in 1 .. L : ops[n] = op(n)
    BY <1>2, Zenon
  <2> QED BY <2>1, <2>2, Zenon
<1>5. ops = [n \in 1 .. L |-> ops[n]]
  <2> HIDE DEF op
  <2> QED BY <1>2, Zenon
<1> HIDE DEF types, ops, L, op
<1>6. Len(f.ops) = L
  BY <1>1, <1>3, <1>5, FunctionFacts
<1>7. ASSUME NEW v \in 1 .. Len(f.ops)
      PROVE  /\ SoundOp(f.ops[v], f.types[v], f.types[f.ops[v].args[1]])
             /\ PlainOp(f.ops[v], f.types[v])
  <2>1. f.ops[v].kind = "arg" /\ f.ops[v].args = << >> /\ f.types[v] \in T
    BY <1>1, <1>3, <1>4, <1>6
  <2> QED BY <2>1, EmptyIsSequence
          DEF SoundOp, PlainOp, Kinds, ArityOK, StructKinds, ClosedTypes
<1>8. << >> \in Seq(Type)
  OBVIOUS
<1> QED BY <1>3, <1>7, <1>8 DEF Made, FunctionSound, Plain

(* A function begins with parameters, which may be structs.              *)
LEMMA BeginFunctionMade ==
    ASSUME NEW T, NEW Nodes, GenOK(T, Nodes), Grammatical(Nodes), MadeAll(funcs), BeginFunction
    PROVE  MadeAll(funcs')
<1> DEFINE params == Record.c[1].c
           name == Record.name
           f == NewFunction(name, params)
<1>1. CASE UnknownType
  BY <1>1 DEF UnknownType
<1>2. CASE AllKnown(params) /\ funcs' = Append(funcs, f)
  <2>1. /\ ClosedTypes(T, Nodes) /\ FunctionsOK(funcs)
        /\ \A x \in DOMAIN structMap : structMap[x].type \in T
        /\ Record \in Nodes /\ Record.k = "def"
    BY AtRecord DEF BeginFunction
  <2> DEFINE c == Record.c
  <2>2. /\ c \in Seq(Nodes) /\ c # << >>
        /\ \A n \in DOMAIN c[1].c : c[1].c[n].k = "decl"
    BY <2>1 DEF Grammatical, InGrammar
  <2>3. params = c[1].c /\ f = NewFunction(name, params)
    OBVIOUS
  <2> HIDE DEF c, params, name, f
  <2>4. params \in Seq(Nodes) /\ \A n \in DOMAIN params : params[n].k = "decl"
    <3>1. c[1] \in Nodes
      BY <2>2
    <3> QED BY <2>2, <2>3, <3>1 DEF Grammatical, InGrammar
  <2>5. Made(f)
    BY <1>2, <2>1, <2>3, <2>4, NewFunctionMade
  <2>6. IsSequence(funcs) /\ Len(funcs) \in Nat
    BY <2>1, SequenceFacts DEF FunctionsOK
  <2>7. /\ Len(funcs') = Len(funcs) + 1
        /\ \A i \in 1 .. Len(funcs) : funcs'[i] = funcs[i]
        /\ funcs'[Len(funcs) + 1] = f
    BY <1>2, <2>6, AppendFacts
  <2>8. ASSUME NEW i \in 1 .. Len(funcs') PROVE Made(funcs'[i])
    <3>1. CASE i \in 1 .. Len(funcs)
      BY <2>7, <3>1 DEF MadeAll
    <3>2. CASE i = Len(funcs) + 1
      BY <2>5, <2>7, <3>2
    <3> QED BY <2>6, <2>7, <3>1, <3>2
  <2> QED BY <2>8 DEF MadeAll
<1> QED BY <1>1, <1>2 DEF BeginFunction

(* Every step leaves sound functions.                                      *)
LEMMA MadeKept ==
    ASSUME NEW T, NEW Nodes, GenOK(T, Nodes), Grammatical(Nodes), LiteralInv, MadeAll(funcs),
           [Next]_vars
    PROVE  MadeAll(funcs')
<1>1. ASSUME UNCHANGED funcs PROVE MadeAll(funcs')
  BY <1>1
<1>2. ASSUME NEW items, Push(items) PROVE MadeAll(funcs')
  BY <1>2 DEF Push
<1>3. Crash => MadeAll(funcs')
  BY DEF Crash
<1>4. FailExpr => MadeAll(funcs')
  BY FailExprMade
<1>5. CASE UNCHANGED vars
  BY <1>5 DEF vars
<1>6. CASE GenNull \/ GenStruct \/ VerifyModule \/ EndBlock
  BY <1>3, <1>6 DEF GenNull, GenStruct, UnknownType, VerifyModule, EndBlock
<1>7. CASE GenVarDecl \/ Redeclare \/ GenReturn \/ GenPrint \/ GenExpression
  BY <1>2, <1>7, FailMade DEF GenVarDecl, Redeclare, GenReturn, GenPrint, GenExpression
<1>8. CASE VisitVariable \/ VisitOther
  BY <1>4, <1>8 DEF VisitVariable, VisitOther
<1>9. CASE VisitNull \/ VisitBinary \/ VisitCall \/ VisitStructLiteral
  BY <1>2, <1>3, <1>9 DEF VisitNull, VisitBinary, VisitCall, VisitStructLiteral
<1>10. CASE VisitElement \/ BuildArray
  BY <1>2, <1>3, <1>10 DEF VisitElement, PushAttr, BuildArray
<1> QED BY <1>5, <1>6, <1>7, <1>8, <1>9, <1>10, BeginFunctionMade, FinishFunctionMade,
           DeclareMade, FinishStatementMade, VisitConstantMade, BuildBinaryMade,
           BuildAccessMade, BuildCallMade, BuildStructConstantMade DEF Next, Expression

-----------------------------------------------------------------------------
(* Functions end in their only return: what follows a return in a block is *)
(* not generated.                                                          *)

NoReturns(f) == \A v \in 1 .. Len(f.ops) : f.ops[v].kind # "return"

Ended(f) ==
    Len(f.ops) >= 1 /\ \A v \in 1 .. Len(f.ops) : f.ops[v].kind = "return" <=> v = Len(f.ops)

AllEnded(fs) == \A n \in 1 .. Len(fs) : Ended(fs[n])

(* No statement of the block is left.                                      *)
Closing(t) == Len(t) = 1 \/ t[Len(t) - 1].node.c = << >>

(* Behind a return no statement is left, be it built or to be built.       *)
Awaiting(t) == Len(t) >= 3 /\ t[Len(t) - 2].do = "return" => Closing(t)

ReturnsOK(f, t) ==
    /\ NoReturns(f) \/ (Ended(f) /\ Len(t) <= 2 /\ Closing(t))
    /\ Awaiting(t)

EndsOK(fs, t) == (\A n \in 1 .. Len(fs) - 1 : Ended(fs[n])) /\ ReturnsOK(fs[Len(fs)], t)

EndInv ==
    /\ status = "run" /\ todo # << >> => EndsOK(funcs, todo)
    /\ status = "run" /\ todo = << >> => AllEnded(funcs)
    /\ status = "module" => AllEnded(funcs)

(* What an operation at the end does to returns.                           *)
LEMMA BuiltEnds ==
    ASSUME NEW T, NEW Nodes, GenOK(T, Nodes), NEW what, Doing(what),
           \A n \in 1 .. Len(funcs) - 1 : Ended(funcs[n]), NoReturns(Current),
           NEW op, NEW type, NEW fs, fs = Built(op, type)
    PROVE  /\ Len(fs) = Len(funcs) /\ Len(fs) \in Nat
           /\ \A n \in 1 .. Len(fs) - 1 : Ended(fs[n])
           /\ op.kind # "return" => NoReturns(fs[Len(fs)])
           /\ op.kind = "return" => Ended(fs[Len(fs)])
<1> DEFINE L == Len(funcs)
           M == Len(Current.ops)
           g == Grown(Current, op, type)
<1>1. IsSequence(funcs) /\ funcs # << >> /\ IsFunction(Current)
  BY AtWork DEF FunctionsOK, FunctionOK
<1>2. L \in Nat /\ M \in Nat /\ L # 0
  BY <1>1, SequenceFacts DEF IsFunction
<1>3. fs = WithLast(funcs, g)
  <2>1. fs = WithBuilt(funcs, op, type)
    BY Zenon DEF Built, WithBuilt
  <2>2. WithBuilt(funcs, op, type) = WithLast(funcs, Grown(funcs[Len(funcs)], op, type))
    BY <1>1, BuiltIsGrown DEF Current
  <2> QED BY <2>1, <2>2, Zenon DEF Current
<1>4. g.ops = Append(Current.ops, op)
  <2>1. Current = [name |-> Current.name, private |-> Current.private, ops |-> Current.ops,
                   types |-> Current.types, result |-> Current.result]
    BY <1>1 DEF IsFunction
  <2> DEFINE f == Current
  <2>2. f = [name |-> f.name, private |-> f.private, ops |-> f.ops, types |-> f.types,
             result |-> f.result]
    BY <2>1
  <2> HIDE DEF f
  <2>3. Grown(f, op, type) = [name |-> f.name, private |-> f.private,
                              ops |-> Append(f.ops, op), types |-> Append(f.types, type),
                              result |-> f.result]
    BY <2>2, FunctionChanged DEF Grown
  <2>4. Grown(f, op, type).ops = Append(f.ops, op)
    BY <2>3
  <2> QED BY <2>4 DEF f
<1> HIDE DEF g
<1>5. /\ Len(fs) = L /\ fs[L] = g
      /\ \A n \in 1 .. L : n # L => fs[n] = funcs[n]
  BY <1>1, <1>3, OthersKept
<1>6. /\ Len(g.ops) = M + 1 /\ g.ops[M + 1] = op
      /\ \A v \in 1 .. M : g.ops[v] = Current.ops[v]
  BY <1>1, <1>4, AppendFacts DEF IsFunction
<1>7. \A v \in 1 .. M : g.ops[v].kind # "return"
  BY <1>6 DEF NoReturns
<1> HIDE DEF L, M
<1>8. \A v \in 1 .. M + 1 : v \in 1 .. M \/ v = M + 1
  BY <1>2
<1>9. ASSUME op.kind # "return" PROVE NoReturns(g)
  BY <1>6, <1>7, <1>8, <1>9 DEF NoReturns
<1>10. ASSUME op.kind = "return" PROVE Ended(g)
  <2>1. \A v \in 1 .. M + 1 : g.ops[v].kind = "return" <=> v = M + 1
    BY <1>2, <1>6, <1>7, <1>8, <1>10
  <2> QED BY <1>2, <1>6, <2>1 DEF Ended
<1>11. \A n \in 1 .. L - 1 : Ended(fs[n])
  <2>1. \A n \in 1 .. L - 1 : Ended(funcs[n])
    BY DEF L
  <2>2. \A n \in 1 .. L - 1 : n \in 1 .. L /\ n # L
    BY <1>2
  <2> QED BY <1>5, <2>1, <2>2
<1> QED BY <1>2, <1>5, <1>9, <1>10, <1>11 DEF L

(* The functions without a return in the current one, with other work.     *)
LEMMA EndsMore ==
    ASSUME NEW fs, \A n \in 1 .. Len(fs) - 1 : Ended(fs[n]), NoReturns(fs[Len(fs)]),
           NEW t, Awaiting(t)
    PROVE  EndsOK(fs, t)
BY DEF EndsOK, ReturnsOK

(* While items are left, the functions end as those items say.           *)
LEMMA EndsRun ==
    ASSUME status' = "run", todo' # << >>, EndsOK(funcs', todo')
    PROVE  EndInv'
BY DEF EndInv

(* A stop without a module.                                                *)
LEMMA StopEnds ==
    ASSUME status' \in {"null", "crash"}
    PROVE  EndInv'
BY DEF EndInv

(* What is left of an expression may change, as long as its statement and  *)
(* the block stay.                                                         *)
LEMMA AwaitingKept ==
    ASSUME NEW Nodes, NEW t, TodoOK(t, Nodes), t[1].do \in WorkDos, Awaiting(t),
           NEW u, u = Tail(t) \/ \E items : IsSequence(items) /\ u = items \o Tail(t)
    PROVE  Awaiting(u) /\ u # << >>
<1> DEFINE r == Tail(t)
           L == Len(t)
<1>1. L \in Nat /\ L >= 4 /\ IsSequence(t) /\ t # << >>
  BY TodoFacts DEF TodoOK
<1>2. IsSequence(r) /\ Len(r) = L - 1 /\ \A i \in 1 .. L - 1 : r[i] = t[i + 1]
  BY <1>1, TailFacts
<1>3. /\ Len(r) >= 3 /\ Len(r) \in Nat
      /\ r[Len(r) - 1] = t[L - 1] /\ r[Len(r) - 2] = t[L - 2]
  <2>1. /\ (L - 1) - 1 \in 1 .. L - 1 /\ ((L - 1) - 1) + 1 = L - 1
        /\ (L - 1) - 2 \in 1 .. L - 1 /\ ((L - 1) - 2) + 1 = L - 2
    BY <1>1
  <2> QED BY <1>1, <1>2, <2>1
<1> HIDE DEF r
<1>4. Len(u) >= 3 /\ Len(u) \in Nat /\ u[Len(u) - 1] = t[L - 1] /\ u[Len(u) - 2] = t[L - 2]
  <2>1. CASE u = r
    BY <1>3, <2>1
  <2>2. ASSUME NEW items, IsSequence(items), u = items \o r
        PROVE  /\ Len(u) >= 3 /\ Len(u) \in Nat
               /\ u[Len(u) - 1] = t[L - 1] /\ u[Len(u) - 2] = t[L - 2]
    <3>1. IsSequence(items) /\ IsSequence(r)
      BY <1>2, <2>2
    <3>2. /\ Len(items \o r) = Len(items) + Len(r)
          /\ \A i \in 1 .. Len(r) : (items \o r)[Len(items) + i] = r[i]
      BY ONLY <3>1, ConcatFacts
    <3> DEFINE k == Len(items)
               R == Len(r)
    <3>3. k \in Nat /\ R \in Nat /\ R >= 3
      BY <1>3, <3>1, SequenceFacts
    <3>4. Len(u) = k + R /\ \A i \in 1 .. R : u[k + i] = r[i]
      BY <2>2, <3>2
    <3>5. r[R - 1] = t[L - 1] /\ r[R - 2] = t[L - 2]
      BY <1>3
    <3> HIDE DEF k, R
    <3>6. /\ R - 1 \in 1 .. R /\ R - 2 \in 1 .. R /\ k + (R - 1) = (k + R) - 1
          /\ k + (R - 2) = (k + R) - 2 /\ k + R \in Nat /\ k + R >= 3
      BY <3>3
    <3> QED BY <3>4, <3>5, <3>6
  <2> QED BY <2>1, <2>2 DEF r
<1>5. Awaiting(u)
  BY <1>1, <1>4 DEF Awaiting, Closing
<1>6. u # << >>
  BY <1>4, EmptyIsSequence
<1> QED BY <1>5, <1>6

(* A step of an expression, which builds no return.                        *)
LEMMA WorkEnds ==
    ASSUME NEW T, NEW Nodes, GenOK(T, Nodes), EndInv, NEW what, Doing(what), what \in WorkDos,
           todo' = Tail(todo) \/ \E items : IsSequence(items) /\ todo' = items \o Tail(todo),
           UNCHANGED status,
           UNCHANGED funcs \/ \E op, type : op.kind # "return" /\ funcs' = Built(op, type)
    PROVE  EndInv'
<1>1. TodoOK(todo, Nodes) /\ todo[1].do \in WorkDos /\ todo # << >> /\ status = "run"
  BY AtWork DEF Doing
<1>2. EndsOK(funcs, todo)
  BY <1>1 DEF EndInv
<1>3. NoReturns(Current) /\ Awaiting(todo) /\ \A n \in 1 .. Len(funcs) - 1 : Ended(funcs[n])
  <2>1. Len(todo) >= 4 /\ Len(todo) \in Nat
    BY <1>1, TodoFacts
  <2>2. ~ (Len(todo) <= 2)
    BY <2>1
  <2> QED BY <1>2, <2>2 DEF EndsOK, ReturnsOK, Current
<1>4. Awaiting(todo') /\ todo' # << >>
  BY <1>1, <1>3, AwaitingKept
<1>5. /\ \A n \in 1 .. Len(funcs') - 1 : Ended(funcs'[n])
      /\ NoReturns(funcs'[Len(funcs')])
  <2>1. CASE UNCHANGED funcs
    BY <1>3, <2>1 DEF Current
  <2>2. ASSUME NEW op, NEW type, op.kind # "return", funcs' = Built(op, type)
        PROVE  /\ \A n \in 1 .. Len(funcs') - 1 : Ended(funcs'[n])
               /\ NoReturns(funcs'[Len(funcs')])
    BY <1>3, <2>2, BuiltEnds
  <2> QED BY <2>1, <2>2
<1>6. EndsOK(funcs', todo')
  BY <1>4, <1>5, EndsMore
<1>7. status' = "run"
  BY <1>1
<1> QED BY <1>4, <1>6, <1>7, EndsRun

(* An error in an expression.                                              *)
LEMMA FailExprEnds ==
    ASSUME NEW T, NEW Nodes, GenOK(T, Nodes), EndInv, NEW what, Doing(what), what \in WorkDos,
           FailExpr
    PROVE  EndInv'
<1>1. CASE FailFunction(TRUE)
  BY <1>1, StopEnds DEF FailFunction
<1>2. CASE /\ todo' = <<Block(<< >>), todo[Len(todo)]>>
           /\ UNCHANGED <<funcs, status>>
  <2>1. TodoOK(todo, Nodes) /\ todo[1].do \in WorkDos /\ todo # << >> /\ status = "run"
    BY AtWork DEF Doing
  <2>2. EndsOK(funcs, todo)
    BY <2>1 DEF EndInv
  <2>3. NoReturns(funcs[Len(funcs)]) /\ \A n \in 1 .. Len(funcs) - 1 : Ended(funcs[n])
    <3>1. Len(todo) >= 4 /\ Len(todo) \in Nat
      BY <2>1, TodoFacts
    <3>2. ~ (Len(todo) <= 2)
      BY <3>1
    <3> QED BY <2>2, <3>2 DEF EndsOK, ReturnsOK
  <2> DEFINE x == Block(<< >>)
             y == todo[Len(todo)]
             u == <<x, y>>
  <2>4. todo' = u
    BY <1>2
  <2> HIDE DEF x, y
  <2>5. Len(u) = 2 /\ u # << >>
    BY TupleFacts, EmptyIsSequence
  <2> HIDE DEF u
  <2>6. Awaiting(u)
    <3>1. ~ (Len(u) >= 3)
      BY <2>5
    <3> QED BY <3>1 DEF Awaiting
  <2>7. EndsOK(funcs, u)
    BY ONLY <2>3, <2>6, EndsMore
  <2>8. EndsOK(funcs', todo') /\ todo' # << >> /\ status' = "run"
    BY <1>2, <2>1, <2>4, <2>5, <2>7
  <2> QED BY <2>8, EndsRun
<1> QED BY <1>1, <1>2 DEF FailExpr

(* A visit or a build of an expression.                                    *)
LEMMA ExpressionEnds ==
    ASSUME NEW T, NEW Nodes, GenOK(T, Nodes), Grammatical(Nodes), EndInv, Expression
    PROVE  EndInv'
<1>1. ASSUME Crash PROVE EndInv'
  BY <1>1, StopEnds DEF Crash
<1>2. ASSUME NEW what \in {"expr", "build"}, Doing(what), NEW kind, NEW n, NEW attr, NEW type,
             NEW struct, kind # "return", Emit(kind, n, attr, type, struct)
      PROVE  EndInv'
  <2> DEFINE op == NewOp(kind, Operands(n), attr)
  <2>1. /\ op.kind # "return" /\ funcs' = Built(op, type)
        /\ todo' = Tail(todo) /\ UNCHANGED status
    BY <1>2 DEF Emit, NewOp
  <2>2. what \in WorkDos
    BY DEF WorkDos
  <2> HIDE DEF op
  <2> QED BY <1>2, <2>1, <2>2, WorkEnds
<1>3. ASSUME NEW what \in WorkDos, Doing(what), NEW items, IsSequence(items), Push(items)
      PROVE  EndInv'
  <2>1. todo' = items \o Tail(todo) /\ UNCHANGED <<funcs, status>>
    BY <1>3 DEF Push
  <2> QED BY <1>3, <2>1, WorkEnds
<1>4. ASSUME NEW what \in WorkDos, Doing(what)
      PROVE  IsSequence(E.c)
  <2>1. ItemOK(todo[1], Nodes) /\ todo[1].do = what
    BY <1>4, AtWork
  <2>2. E \in Nodes
    BY <2>1 DEF ItemOK, E, WorkDos, LiteralDos
  <2>3. E.c \in Seq(Nodes)
    BY <2>2 DEF Grammatical, InGrammar
  <2> QED BY <2>3, SeqIsSequence
<1>5. CASE VisitNull
  BY <1>1, <1>5 DEF VisitNull
<1>6. CASE VisitVariable
  <2>1. Doing("expr")
    BY <1>6 DEF VisitVariable, Visiting
  <2>2. FailExpr \/ (todo' = Tail(todo) /\ UNCHANGED <<funcs, status>>)
    BY <1>6 DEF VisitVariable
  <2>3. "expr" \in WorkDos
    BY DEF WorkDos
  <2> QED BY <2>1, <2>2, <2>3, FailExprEnds, WorkEnds
<1>7. CASE VisitConstant
  BY <1>2, <1>7 DEF VisitConstant, Visiting
<1>8. CASE VisitBinary
  <2> DEFINE middle == IF E.name = "." THEN << >> ELSE <<Do("expr", E.c[2])>>
             items == <<Do("expr", E.c[1])>> \o middle \o <<Do("build", E)>>
  <2>1. Doing("expr") /\ Push(items)
    BY <1>8, Zenon DEF VisitBinary, Visiting
  <2>2. IsSequence(items)
    <3> DEFINE a == Do("expr", E.c[1])
               b == Do("expr", E.c[2])
               c == Do("build", E)
    <3>1. CASE E.name = "."
      <4>1. items = <<a>> \o << >> \o <<c>>
        BY <3>1, Zenon
      <4> HIDE DEF a, b, c, items
      <4>2. items = <<a, c>>
        BY <4>1, TupleConcat
      <4> QED BY <4>2, TupleFacts
    <3>2. CASE E.name # "."
      <4>1. items = <<a>> \o <<b>> \o <<c>>
        BY <3>2, Zenon
      <4> HIDE DEF a, b, c, items
      <4>2. items = <<a, b, c>>
        BY <4>1, TupleConcat
      <4> QED BY <4>2, TupleFacts
    <3> QED BY <3>1, <3>2
  <2> HIDE DEF items
  <2> QED BY <1>3, <2>1, <2>2 DEF WorkDos
<1>9. CASE VisitCall
  <2> DEFINE items == Visits("expr", E.c) \o <<Do("build", E)>>
  <2>1. Doing("expr") /\ Push(items)
    BY <1>9, Zenon DEF VisitCall, Visiting, Visits
  <2>2. IsSequence(items)
    <3> DEFINE nodes == E.c
               rest == <<Do("build", E)>>
    <3>1. IsSequence(nodes) /\ IsSequence(rest)
      BY <1>4, <2>1, TupleFacts DEF WorkDos
    <3> HIDE DEF nodes, rest
    <3>2. VisitsFirst(Visits("expr", nodes) \o rest, "expr", nodes, rest)
      BY <3>1, VisitsThen
    <3> QED BY <3>2 DEF VisitsFirst, nodes, rest
  <2> HIDE DEF items
  <2> QED BY <1>3, <2>1, <2>2 DEF WorkDos
<1>10. CASE VisitOther
  BY <1>10, FailExprEnds DEF VisitOther, Visiting, WorkDos
<1>11. CASE VisitStructLiteral
  <2> DEFINE items == <<Do("attr", E), Do("struct", E)>>
  <2>1. Doing("expr") /\ Push(items)
    BY <1>11 DEF VisitStructLiteral, Visiting
  <2>2. IsSequence(items)
    BY TupleFacts
  <2> HIDE DEF items
  <2> QED BY <1>3, <2>1, <2>2 DEF WorkDos
<1>12. CASE VisitElement
  <2>1. Doing("attr") /\ "attr" \in WorkDos
    BY <1>12 DEF VisitElement, WorkDos, LiteralDos
  <2>2. ASSUME NEW attr, NEW type, PushAttr(attr, type) PROVE EndInv'
    <3>1. todo' = Tail(todo) /\ UNCHANGED <<funcs, status>>
      BY <2>2 DEF PushAttr
    <3> QED BY <2>1, <3>1, WorkEnds
  <2> DEFINE items == Visits("attr", E.c) \o <<Do("array", E)>>
  <2>3. IsSequence(items)
    <3> DEFINE nodes == E.c
               rest == <<Do("array", E)>>
    <3>1. IsSequence(nodes) /\ IsSequence(rest)
      BY <1>4, <2>1, TupleFacts
    <3> HIDE DEF nodes, rest
    <3>2. VisitsFirst(Visits("attr", nodes) \o rest, "attr", nodes, rest)
      BY <3>1, VisitsThen
    <3> QED BY <3>2 DEF VisitsFirst, nodes, rest
  <2>4. Crash \/ PushAttr(E, Unranked) \/ Push(items) \/ Push(<< >>)
    BY <1>12, Zenon DEF VisitElement, Visits
  <2> HIDE DEF items
  <2> QED BY <1>1, <1>3, <2>1, <2>2, <2>3, <2>4, EmptyIsSequence
<1>13. CASE BuildBinary
  BY <1>2, <1>13, FailExprEnds DEF BuildBinary, WorkDos
<1>14. CASE BuildAccess
  BY <1>1, <1>2, <1>14, FailExprEnds DEF BuildAccess, WorkDos
<1>15. CASE BuildCall
  BY <1>2, <1>15, FailExprEnds DEF BuildCall, WorkDos
<1>16. CASE BuildArray
  <2>1. Doing("array") /\ "array" \in WorkDos
    BY <1>16 DEF BuildArray, WorkDos, LiteralDos
  <2>2. Crash \/ (todo' = Tail(todo) /\ UNCHANGED <<funcs, status>>)
    BY <1>16 DEF BuildArray
  <2> QED BY <1>1, <2>1, <2>2, WorkEnds
<1>17. CASE BuildStructConstant
  <2>1. Doing("struct") /\ "struct" \in WorkDos
    BY <1>17 DEF BuildStructConstant, WorkDos, LiteralDos
  <2> DEFINE literal == attrs[Len(attrs)]
             type == literal.type
             op == NewOp("struct_constant", << >>, literal.attr)
  <2>2. /\ todo' = Tail(todo) /\ UNCHANGED status /\ funcs' = Built(op, type)
        /\ op.kind # "return"
    BY <1>17 DEF BuildStructConstant, NewOp
  <2> HIDE DEF op, type
  <2> QED BY <2>1, <2>2, WorkEnds
<1> QED BY <1>5, <1>6, <1>7, <1>8, <1>9, <1>10, <1>11, <1>12, <1>13, <1>14, <1>15, <1>16,
           <1>17 DEF Expression

(* A statement is put to work: behind a return, nothing is left.           *)
LEMMA StatementEnds ==
    ASSUME NEW T, NEW Nodes, GenOK(T, Nodes), EndInv, Doing("block"), E.c # << >>,
           NEW items, IsSequence(items), Len(items) >= 2,
           items[Len(items) - 1].do = "return" => items[Len(items)].node.c = << >>,
           Push(items)
    PROVE  EndInv'
<1> DEFINE r == Tail(todo)
           u == items \o r
           L == Len(items)
<1>1. /\ TodoOK(todo, Nodes) /\ todo[1].do = "block" /\ IsSequence(todo) /\ todo # << >>
      /\ status = "run"
  BY AtWork DEF Doing
<1>2. Len(todo) = 2 /\ L \in Nat /\ L >= 2
  BY <1>1, TodoFacts, SequenceFacts
<1>3. IsSequence(r) /\ Len(r) = 1
  BY <1>1, <1>2, TailFacts
<1>4. NoReturns(funcs[Len(funcs)]) /\ \A n \in 1 .. Len(funcs) - 1 : Ended(funcs[n])
  <2>1. EndsOK(funcs, todo)
    BY <1>1 DEF EndInv
  <2>2. Len(todo) - 1 = 1 /\ Len(todo) # 1
    BY <1>2
  <2>3. ~ Closing(todo)
    BY <2>2 DEF Closing, E
  <2> QED BY <2>1, <2>3 DEF EndsOK, ReturnsOK
<1> HIDE DEF r
<1>5. Len(u) = L + 1 /\ \A i \in 1 .. L : u[i] = items[i]
  <2>1. IsSequence(items) /\ IsSequence(r)
    BY <1>3
  <2>2. /\ Len(items \o r) = Len(items) + Len(r)
        /\ \A i \in 1 .. Len(items) : (items \o r)[i] = items[i]
    BY ONLY <2>1, ConcatFacts
  <2> QED BY <1>3, <2>2
<1>6. items[L - 1].do = "return" => items[L].node.c = << >>
  OBVIOUS
<1>7. todo' = u /\ UNCHANGED <<funcs, status>>
  BY DEF Push, r
<1> HIDE DEF u, L
<1>8. Len(u) >= 3 /\ u[Len(u) - 1] = items[L] /\ u[Len(u) - 2] = items[L - 1]
  <2>1. L \in 1 .. L /\ L - 1 \in 1 .. L /\ (L + 1) - 1 = L /\ (L + 1) - 2 = L - 1
    BY <1>2
  <2> QED BY <1>2, <1>5, <2>1
<1>9. Awaiting(u)
  BY <1>6, <1>8 DEF Awaiting, Closing
<1>10. u # << >>
  BY <1>8, EmptyIsSequence
<1>11. EndsOK(funcs, u)
  BY ONLY <1>4, <1>9, EndsMore
<1>12. EndsOK(funcs', todo') /\ todo' # << >> /\ status' = "run"
  BY <1>1, <1>7, <1>10, <1>11
<1> QED BY <1>12, EndsRun

(* A declaration, a return, a print and an expression go to work.          *)
LEMMA GenEnds ==
    ASSUME NEW T, NEW Nodes, GenOK(T, Nodes), Grammatical(Nodes), EndInv,
           GenVarDecl \/ GenReturn \/ GenPrint \/ GenExpression
    PROVE  EndInv'
<1>1. PICK kind : NextStatement(kind)
  BY DEF GenVarDecl, GenReturn, GenPrint, GenExpression
<1>2. Doing("block") /\ First \in Nodes /\ First.c \in Seq(Nodes) /\ E.c # << >>
  <2>1. Doing("block") /\ First \in Nodes /\ First.c \in Seq(Nodes)
    BY <1>1, BlockAtWork
  <2> QED BY <1>1, <2>1 DEF NextStatement
<1>3. Block(<< >>).node.c = << >>
  BY Zenon DEF Block, Do, Node, SizedNode
<1>4. ASSUME NEW e, NEW what, what # "return", Push(<<Do("expr", e), Do(what, First), Rest>>)
      PROVE  EndInv'
  <2> DEFINE x == Do("expr", e)
             y == Do(what, First)
             rest == Rest
             items == <<x, y, rest>>
  <2>1. y.do # "return" /\ Push(items)
    BY <1>4 DEF Do
  <2> HIDE DEF x, y, rest
  <2>2. IsSequence(items) /\ Len(items) = 3 /\ items[2] = y
    BY TupleFacts
  <2> HIDE DEF items
  <2>3. Len(items) >= 2 /\ items[Len(items) - 1].do # "return"
    <3>1. Len(items) - 1 = 2 /\ Len(items) >= 2
      BY <2>2
    <3> QED BY <2>1, <2>2, <3>1
  <2> QED BY <1>2, <2>1, <2>2, <2>3, StatementEnds
<1>5. CASE GenVarDecl
  <2>1. CASE FailFunction(TRUE)
    BY <2>1, StopEnds DEF FailFunction
  <2>2. CASE Push(<<Do("expr", First.c[2]), Do("declare", First), Rest>>)
    BY <1>4, <2>2
  <2> QED BY <1>5, <2>1, <2>2 DEF GenVarDecl
<1>6. CASE GenPrint
  <2>1. Push(<<Do("expr", First.c[1]), Do("print", First), Rest>>)
    BY <1>6 DEF GenPrint
  <2> QED BY <1>4, <2>1
<1>7. CASE GenExpression
  <2>1. Push(<<Do("expr", First), Do("drop", First), Rest>>)
    BY <1>7 DEF GenExpression
  <2> QED BY <1>4, <2>1
<1>8. CASE GenReturn
  <2> DEFINE nodes == First.c
             x == Do("return", First)
             y == Block(<< >>)
             rest == <<x, y>>
             items == Visits("expr", nodes) \o rest
  <2>1. Push(items)
    BY <1>8, Zenon DEF GenReturn, Visits
  <2>2. IsSequence(rest) /\ Len(rest) = 2 /\ rest[1] = x /\ rest[2] = y
    BY TupleFacts
  <2>3. IsSequence(nodes)
    BY <1>2, SeqIsSequence
  <2>4. y.node.c = << >>
    BY <1>3
  <2> HIDE DEF nodes, x, y, rest
  <2>5. VisitsFirst(items, "expr", nodes, rest)
    BY <2>2, <2>3, VisitsThen
  <2> HIDE DEF items
  <2>6. /\ IsSequence(items) /\ Len(items) = Len(nodes) + 2 /\ Len(nodes) \in Nat
        /\ items[Len(nodes) + 2] = y
    BY <2>2, <2>5 DEF VisitsFirst
  <2>7. Len(items) >= 2 /\ items[Len(items)].node.c = << >>
    BY <2>4, <2>6
  <2> QED BY <1>2, <2>1, <2>6, <2>7, StatementEnds
<1> QED BY <1>5, <1>6, <1>7, <1>8

(* A statement is done.                                                    *)
LEMMA DoneEnds ==
    ASSUME NEW T, NEW Nodes, GenOK(T, Nodes), EndInv, NEW what \in StatementDos, Doing(what),
           todo' = Tail(todo), UNCHANGED status,
           \/ UNCHANGED funcs /\ what # "return"
           \/ \E op, type : (op.kind = "return" <=> what = "return") /\ funcs' = Built(op, type)
    PROVE  EndInv'
<1> DEFINE u == Tail(todo)
<1>1. /\ TodoOK(todo, Nodes) /\ todo[1].do = what /\ IsSequence(todo) /\ todo # << >>
      /\ status = "run"
  BY AtWork DEF Doing
<1>2. Len(todo) = 3
  BY <1>1, TodoFacts
<1>3. Len(u) = 2 /\ u[1] = todo[2]
  <2>1. Len(u) = Len(todo) - 1 /\ \A i \in 1 .. Len(todo) - 1 : u[i] = todo[i + 1]
    BY <1>1, TailFacts
  <2> HIDE DEF u
  <2> QED BY <1>2, <2>1
<1>4. todo' = u /\ status' = "run"
  BY <1>1
<1> HIDE DEF u
<1>10. u # << >>
  BY <1>3, EmptyIsSequence
<1>5. EndsOK(funcs, todo)
  BY <1>1 DEF EndInv
<1>6. NoReturns(Current) /\ \A n \in 1 .. Len(funcs) - 1 : Ended(funcs[n])
  <2>1. ~ (Len(todo) <= 2)
    BY <1>2
  <2> QED BY <1>5, <2>1 DEF EndsOK, ReturnsOK, Current
<1>7. Awaiting(u)
  <2>1. ~ (Len(u) >= 3)
    BY <1>3
  <2> QED BY <2>1 DEF Awaiting
<1>8. CASE UNCHANGED funcs
  <2>1. EndsOK(funcs, u)
    <3>1. NoReturns(funcs[Len(funcs)])
      BY <1>6 DEF Current
    <3> QED BY ONLY <1>6, <1>7, <3>1, EndsMore
  <2>2. EndsOK(funcs', todo') /\ todo' # << >> /\ status' = "run"
    BY <1>4, <1>8, <1>10, <2>1
  <2> QED BY <2>2, EndsRun
<1>9. ASSUME NEW op, NEW type, op.kind = "return" <=> what = "return",
             funcs' = Built(op, type)
      PROVE  EndInv'
  <2>1. /\ \A n \in 1 .. Len(funcs') - 1 : Ended(funcs'[n])
        /\ op.kind # "return" => NoReturns(funcs'[Len(funcs')])
        /\ op.kind = "return" => Ended(funcs'[Len(funcs')])
    BY <1>6, <1>9, BuiltEnds
  <2>2. what = "return" => Closing(u)
    <3>1. Len(todo) - 1 = 2 /\ Len(todo) - 2 = 1 /\ Len(todo) >= 3 /\ Len(todo) # 1
      BY <1>2
    <3>2. what = "return" => todo[2].node.c = << >>
      BY <1>1, <1>5, <3>1 DEF EndsOK, ReturnsOK, Awaiting, Closing
    <3>3. Len(u) - 1 = 1
      BY <1>3
    <3> QED BY <1>3, <3>2, <3>3 DEF Closing
  <2>3. Len(u) <= 2
    BY <1>3
  <2>4. EndsOK(funcs', u)
    BY <1>7, <1>9, <2>1, <2>2, <2>3 DEF EndsOK, ReturnsOK
  <2>5. EndsOK(funcs', todo') /\ todo' # << >> /\ status' = "run"
    BY <1>4, <1>10, <2>4
  <2> QED BY <2>5, EndsRun
<1> QED BY <1>8, <1>9

(* The end of a block.                                                     *)
LEMMA EndBlockEnds ==
    ASSUME NEW T, NEW Nodes, GenOK(T, Nodes), EndInv, EndBlock
    PROVE  EndInv'
<1> DEFINE u == Tail(todo)
<1>1. Doing("block") /\ todo' = u /\ UNCHANGED <<funcs, status>>
  BY DEF EndBlock
<1>2. /\ TodoOK(todo, Nodes) /\ todo[1].do = "block" /\ IsSequence(todo) /\ todo # << >>
      /\ status = "run"
  BY <1>1, AtWork DEF Doing
<1>3. Len(todo) = 2
  BY <1>2, TodoFacts
<1>4. Len(u) = 1
  <2>1. Len(u) = Len(todo) - 1
    BY <1>2, TailFacts
  <2> QED BY <1>3, <2>1
<1> HIDE DEF u
<1>5. u # << >>
  BY <1>4, EmptyIsSequence
<1>6. EndsOK(funcs, todo)
  BY <1>2 DEF EndInv
<1>7. Closing(u) /\ Awaiting(u) /\ Len(u) <= 2
  <2>1. ~ (Len(u) >= 3) /\ Len(u) <= 2
    BY <1>4
  <2> QED BY <1>4, <2>1 DEF Closing, Awaiting
<1>8. EndsOK(funcs, u)
  BY <1>6, <1>7 DEF EndsOK, ReturnsOK
<1>9. EndsOK(funcs', todo') /\ todo' # << >> /\ status' = "run"
  BY <1>1, <1>2, <1>5, <1>8
<1> QED BY <1>9, EndsRun

(* The end of a function without a return is one.                          *)
LEMMA FinishFunctionEnds ==
    ASSUME NEW T, NEW Nodes, GenOK(T, Nodes), EndInv, FinishFunction
    PROVE  EndInv'
<1> DEFINE L == Len(funcs)
           last == Current.ops[Len(Current.ops)]
           returns == Current.ops # << >> /\ last.kind = "return"
<1>1. Doing("finish") /\ todo' = << >> /\ status' = status
  BY DEF FinishFunction
<1>2. /\ FunctionsOK(funcs) /\ funcs # << >> /\ FunctionOK(Current)
      /\ todo # << >> /\ status = "run"
  BY <1>1, AtWork DEF Doing
<1>3. IsSequence(funcs) /\ L \in Nat /\ L # 0 /\ IsFunction(Current)
  <2>1. IsSequence(funcs) /\ IsFunction(Current)
    BY <1>2 DEF FunctionsOK, FunctionOK
  <2> QED BY <1>2, <2>1, SequenceFacts
<1>4. /\ \A n \in 1 .. L - 1 : Ended(funcs[n])
      /\ NoReturns(Current) \/ Ended(Current)
  BY <1>2 DEF EndInv, EndsOK, ReturnsOK, Current
<1>5. \A n \in 1 .. L : n \in 1 .. L - 1 \/ n = L
  BY <1>3
<1>6. Len(Current.ops) \in Nat /\ (Current.ops = << >> <=> Len(Current.ops) = 0)
  BY <1>3, SequenceFacts DEF IsFunction
<1>7. CASE ~ returns /\ funcs' = Built(NewOp("return", << >>, Null), NoResult)
  <2> DEFINE op == NewOp("return", << >>, Null)
             type == NoResult
  <2>1. op.kind = "return" /\ funcs' = Built(op, type)
    BY <1>7 DEF NewOp
  <2> HIDE DEF op, type
  <2>2. NoReturns(Current)
    <3>1. Ended(Current) => returns
      <4>1. Ended(Current) => Len(Current.ops) \in 1 .. Len(Current.ops)
        BY <1>6 DEF Ended
      <4>2. Ended(Current) => last.kind = "return" /\ Len(Current.ops) # 0
        BY <1>6, <4>1 DEF Ended
      <4> QED BY <1>6, <4>2
    <3> QED BY <1>4, <1>7, <3>1
  <2>3. /\ Len(funcs') = L
        /\ \A n \in 1 .. Len(funcs') - 1 : Ended(funcs'[n])
        /\ Ended(funcs'[Len(funcs')])
    BY <1>1, <1>4, <2>1, <2>2, BuiltEnds
  <2>4. AllEnded(funcs')
    BY <1>5, <2>3 DEF AllEnded
  <2> QED BY <1>1, <1>2, <2>4 DEF EndInv
<1>8. ASSUME returns PROVE Ended(Current)
  <2>1. Len(Current.ops) \in 1 .. Len(Current.ops)
    BY <1>6, <1>8
  <2>2. ~ NoReturns(Current)
    BY <1>8, <2>1 DEF NoReturns
  <2> QED BY <1>4, <2>2
<1> HIDE DEF returns
<1>9. CASE returns /\ funcs' = funcs
  <2>1. AllEnded(funcs)
    BY <1>4, <1>5, <1>8, <1>9 DEF AllEnded, Current
  <2>2. AllEnded(funcs')
    BY <1>9, <2>1
  <2> QED BY <1>1, <1>2, <2>2 DEF EndInv
<1>10. CASE returns /\ funcs' = [funcs EXCEPT ![Len(funcs)].result = <<Unranked>>]
  <2> DEFINE g == Returning(Current)
  <2>1. funcs' = WithLast(funcs, g)
    BY <1>10, Zenon DEF WithLast, Returning, Current
  <2>2. g.ops = Current.ops
    <3> DEFINE f == Current
               r == <<Unranked>>
    <3>1. f = [name |-> f.name, private |-> f.private, ops |-> f.ops, types |-> f.types,
               result |-> f.result]
      BY <1>3 DEF IsFunction
    <3>2. g = [f EXCEPT !.result = r]
      BY DEF Returning
    <3> HIDE DEF f, g, r
    <3>3. g.ops = f.ops
      BY <3>1, <3>2
    <3> QED BY <3>3 DEF f
  <2>3. Ended(g)
    BY <1>8, <1>10, <2>2 DEF Ended
  <2> HIDE DEF g
  <2>4. /\ Len(funcs') = L /\ funcs'[L] = g
        /\ \A n \in 1 .. L : n # L => funcs'[n] = funcs[n]
    BY <1>2, <1>3, <2>1, OthersKept
  <2>5. \A n \in 1 .. L - 1 : n \in 1 .. L /\ n # L
    BY <1>3
  <2>6. AllEnded(funcs')
    BY <1>4, <1>5, <2>3, <2>4, <2>5 DEF AllEnded
  <2> QED BY <1>1, <1>2, <2>6 DEF EndInv
<1> QED BY <1>7, <1>9, <1>10 DEF FinishFunction, returns

(* A function begins without a return.                                     *)
LEMMA NewFunctionEnds ==
    ASSUME NEW name, NEW params, IsSequence(params)
    PROVE  NoReturns(NewFunction(name, params))
<1> DEFINE L == Len(params)
           op(n) == NewOp("arg", << >>, Node("param", params[n].name, << >>))
           ops == [n \in DOMAIN params |-> op(n)]
<1>1. L \in Nat /\ DOMAIN params = 1 .. L
  BY SequenceFacts
<1>2. NewFunction(name, params).ops = ops
  BY Zenon DEF NewFunction
<1>3. \A n : op(n).kind = "arg"
  BY DEF NewOp
<1> HIDE DEF op
<1>4. ops = [n \in 1 .. L |-> ops[n]]
  BY <1>1, Zenon
<1>5. \A n \in 1 .. L : ops[n].kind = "arg"
  <2>1. \A n \in 1 .. L : ops[n] = op(n)
    BY <1>1, Zenon
  <2> QED BY <1>3, <2>1, Zenon
<1> HIDE DEF ops, L
<1>6. Len(ops) = L
  BY <1>1, <1>4, FunctionFacts
<1> QED BY <1>2, <1>5, <1>6 DEF NoReturns

(* A function begins without a return, and all before it have ended.     *)
LEMMA BeginFunctionEnds ==
    ASSUME NEW T, NEW Nodes, GenOK(T, Nodes), Grammatical(Nodes), EndInv, BeginFunction
    PROVE  EndInv'
<1> DEFINE params == Record.c[1].c
           name == Record.name
           f == NewFunction(name, params)
<1>1. CASE UnknownType
  BY <1>1, StopEnds DEF UnknownType
<1>2. CASE status' = "null"
  BY <1>2, StopEnds
<1>3. CASE /\ funcs' = Append(funcs, f)
           /\ todo' = <<Block(Tail(Record.c)), Do("finish", Record)>>
           /\ status' = status
  <2>1. /\ FunctionsOK(funcs) /\ status = "run" /\ todo = << >>
        /\ Record \in Nodes /\ Record.k = "def"
    BY AtRecord DEF BeginFunction, NextRecord
  <2> DEFINE c == Record.c
             b == Block(Tail(Record.c))
             e == Do("finish", Record)
             u == <<b, e>>
  <2>2. c \in Seq(Nodes) /\ c # << >>
    BY <2>1 DEF Grammatical, InGrammar
  <2>3. params = c[1].c /\ f = NewFunction(name, params) /\ todo' = u
    BY <1>3
  <2> HIDE DEF c, params, name, f, b, e
  <2>4. IsSequence(params)
    <3>1. c[1] \in Nodes
      BY <2>2
    <3>2. params \in Seq(Nodes)
      BY <2>3, <3>1 DEF Grammatical, InGrammar
    <3> QED BY <3>2, SeqIsSequence
  <2>5. NoReturns(f)
    BY <2>3, <2>4, NewFunctionEnds
  <2>6. Len(u) = 2
    BY TupleFacts
  <2> HIDE DEF u
  <2>7. u # << >> /\ Awaiting(u)
    <3>1. ~ (Len(u) >= 3)
      BY <2>6
    <3> QED BY <2>6, <3>1, EmptyIsSequence DEF Awaiting
  <2> DEFINE L == Len(funcs)
  <2>8. IsSequence(funcs) /\ L \in Nat
    BY <2>1, SequenceFacts DEF FunctionsOK
  <2>9. /\ Len(funcs') = L + 1 /\ funcs'[L + 1] = f
        /\ \A i \in 1 .. L : funcs'[i] = funcs[i]
    BY <1>3, <2>8, AppendFacts
  <2>10. \A i \in 1 .. L : Ended(funcs[i])
    BY <2>1 DEF EndInv, AllEnded
  <2> HIDE DEF L
  <2>11. \A n \in 1 .. Len(funcs') - 1 : Ended(funcs'[n])
    <3>1. Len(funcs') - 1 = L
      BY <2>8, <2>9
    <3> QED BY <2>9, <2>10, <3>1
  <2>12. NoReturns(funcs'[Len(funcs')])
    BY <2>5, <2>9
  <2>13. EndsOK(funcs', u)
    BY ONLY <2>7, <2>11, <2>12, EndsMore
  <2>14. EndsOK(funcs', todo') /\ todo' # << >> /\ status' = "run"
    BY <1>3, <2>1, <2>3, <2>7, <2>13
  <2> QED BY <2>14, EndsRun
<1> QED BY <1>1, <1>2, <1>3 DEF BeginFunction

(* Every step keeps the returns at the ends.                               *)
LEMMA EndInvKept ==
    ASSUME NEW T, NEW Nodes, GenOK(T, Nodes), Grammatical(Nodes), EndInv, [Next]_vars
    PROVE  EndInv'
<1>1. CASE UNCHANGED vars
  BY <1>1 DEF vars, EndInv
<1>2. CASE GenNull \/ Redeclare
  BY <1>2, StopEnds DEF GenNull, Crash, Redeclare, FailFunction
<1>3. CASE VerifyModule
  BY <1>3 DEF VerifyModule, EndInv
<1>4. CASE GenStruct
  <2>1. CASE UnknownType
    BY <2>1, StopEnds DEF UnknownType
  <2>2. CASE UNCHANGED <<funcs, todo, status>>
    BY <2>2 DEF EndInv
  <2> QED BY <1>4, <2>1, <2>2 DEF GenStruct
<1>5. CASE Declare
  <2>1. Doing("declare") /\ todo' = Tail(todo) /\ UNCHANGED status /\ "declare" # "return"
    BY <1>5 DEF Declare
  <2>2. "declare" \in StatementDos
    BY DEF StatementDos
  <2>3. CASE funcs' = funcs
    BY <2>1, <2>2, <2>3, DoneEnds
  <2>4. CASE funcs' = Built(NewOp("reshape", Operands(1), Null), TypeOf(E.c[1]))
    <3> DEFINE op == NewOp("reshape", Operands(1), Null)
               type == TypeOf(E.c[1])
    <3>1. op.kind # "return" /\ funcs' = Built(op, type)
      BY <2>4 DEF NewOp
    <3> HIDE DEF op, type
    <3> QED BY <2>1, <2>2, <3>1, DoneEnds
  <2> QED BY <1>5, <2>3, <2>4 DEF Declare
<1>6. CASE FinishStatement
  <2>1. todo' = Tail(todo) /\ UNCHANGED status
    BY <1>6 DEF FinishStatement
  <2>2. \A what \in {"return", "print", "drop"} : what \in StatementDos
    BY DEF StatementDos
  <2>3. CASE Doing("drop") /\ funcs' = funcs
    BY <2>1, <2>2, <2>3, DoneEnds
  <2>4. ASSUME NEW kind \in {"return", "print"}, NEW n, Doing(kind),
               funcs' = Built(NewOp(kind, Operands(n), Null), NoResult)
        PROVE  EndInv'
    <3> DEFINE op == NewOp(kind, Operands(n), Null)
               type == NoResult
    <3>1. (op.kind = "return" <=> kind = "return") /\ funcs' = Built(op, type)
      BY <2>4 DEF NewOp
    <3> HIDE DEF op, type
    <3> QED BY <2>1, <2>2, <2>4, <3>1, DoneEnds
  <2>5. CASE /\ Doing("return")
             /\ funcs' = Built(NewOp("return", Operands(Len(E.c)), Null), NoResult)
    BY <2>4, <2>5
  <2>6. CASE /\ Doing("print")
             /\ funcs' = Built(NewOp("print", Operands(1), Null), NoResult)
    BY <2>4, <2>6
  <2> QED BY <1>6, <2>3, <2>5, <2>6 DEF FinishStatement
<1> QED BY <1>1, <1>2, <1>3, <1>4, <1>5, <1>6, BeginFunctionEnds, FinishFunctionEnds, GenEnds,
           EndBlockEnds, ExpressionEnds DEF Next
=============================================================================
